------------------------------ MODULE AuditQueue ------------------------------
(***************************************************************************)
(* The audit log's way to the database: request goroutines put records     *)
(* into a bounded channel, one worker collects them into batches, inserts  *)
(* the batches and retries the failed ones; Close stops the worker.        *)
(* Source: logic/audit.go (Record, enqueue, flushLoop, Close).             *)
(*                                                                         *)
(* The channel is Go's: senders that find it full wait in order, a receive *)
(* moves the first of them into the buffer, and closing the channel makes  *)
(* every send panic, which enqueue recovers from.  An insert is one        *)
(* statement: it stores the whole batch or nothing.                        *)
(***************************************************************************)
EXTENDS Naturals, Sequences, FiniteSets, SequencesExt

CONSTANTS
  Logs,       \* the records, each recorded once by the request it belongs to
  QueueSize,  \* auditQueueSize
  BatchSize,  \* auditBatchSize
  MaxRetry    \* auditMaxRetry

ASSUME AuditQueueAssumption ==
  /\ IsFiniteSet(Logs)
  /\ QueueSize \in Nat \ {0}
  /\ BatchSize \in Nat \ {0}
  /\ MaxRetry \in Nat \ {0}

VARIABLES
  unrecorded,  \* records whose request has not come to Record yet
  waiting,     \* senders blocked on the full channel, in order
  queue,       \* the buffer of the channel
  closed,      \* the channel is closed
  worker,      \* "retry", "select", "last" (retry of the shutdown) or "done"
  batch,       \* the worker's batch
  pending,     \* batches whose insert failed, with their number of retries
  stored,      \* stored[l]: rows of q_iam_audit_logs for l
  dropped,     \* records given up, with a line in the log
  attempts     \* attempts[l]: failed inserts of l; history, read by no step

vars == <<unrecorded, waiting, queue, closed, worker, batch, pending, stored,
          dropped, attempts>>

producerVars == <<unrecorded, waiting>>
resultVars == <<stored, attempts>>

Init ==
  /\ unrecorded = Logs
  /\ waiting = <<>>
  /\ queue = <<>>
  /\ closed = FALSE
  /\ worker = "retry"
  /\ batch = <<>>
  /\ pending = <<>>
  /\ stored = [l \in Logs |-> 0]
  /\ dropped = {}
  /\ attempts = [l \in Logs |-> 0]

-----------------------------------------------------------------------------
(* The request side *)

\* enqueue: sent at once, blocked, or refused by the closed channel.
Record(l) ==
  /\ l \in unrecorded
  /\ unrecorded' = unrecorded \ {l}
  /\ \/ /\ ~closed /\ Len(queue) < QueueSize
        /\ queue' = Append(queue, l)
        /\ UNCHANGED <<waiting, dropped>>
     \/ /\ ~closed /\ Len(queue) = QueueSize
        /\ waiting' = Append(waiting, l)
        /\ UNCHANGED <<queue, dropped>>
     \/ /\ closed
        /\ dropped' = dropped \cup {l}
        /\ UNCHANGED <<waiting, queue>>
  /\ UNCHANGED <<closed, worker, batch, pending, resultVars>>

\* auditEnqueueTimeout is over before the worker has made room.
EnqueueTimeout(l) ==
  /\ \E k \in DOMAIN waiting : waiting[k] = l /\ waiting' = RemoveAt(waiting, k)
  /\ dropped' = dropped \cup {l}
  /\ UNCHANGED <<unrecorded, queue, closed, worker, batch, pending, resultVars>>

\* Close: the channel is closed under the senders still blocked on it.
Close ==
  /\ ~closed
  /\ closed' = TRUE
  /\ dropped' = dropped \cup Range(waiting)
  /\ waiting' = <<>>
  /\ UNCHANGED <<unrecorded, queue, worker, batch, pending, resultVars>>

-----------------------------------------------------------------------------
(* The worker *)

Store(S) == stored' = [l \in Logs |-> IF l \in S THEN stored[l] + 1 ELSE stored[l]]
Fail(S) == attempts' = [l \in Logs |-> IF l \in S THEN attempts[l] + 1 ELSE attempts[l]]

\* flush: the batch is inserted, or becomes the last of the pending ones.
Flush(logs) ==
  /\ batch' = <<>>
  /\ \/ /\ logs = <<>>
        /\ UNCHANGED <<pending, resultVars>>
     \/ /\ logs # <<>>
        /\ Store(Range(logs))
        /\ UNCHANGED <<pending, attempts>>
     \/ /\ logs # <<>>
        /\ Fail(Range(logs))
        /\ pending' = Append(pending, [logs |-> logs, retries |-> 1])
        /\ UNCHANGED stored

\* Variant: a batch is never given up.
Variant_MayRetry(p) == TRUE

\* A batch that failed again is kept while it has retries left.
MayRetry(p) == p.retries < MaxRetry

LogsOf(P) == UNION {Range(p.logs) : p \in P}

\* The numbers in I in ascending order.
Ascending(I) ==
  {f \in [1..Cardinality(I) -> I] :
     /\ Range(f) = I
     /\ \A m, n \in DOMAIN f : m < n => f[m] < f[n]}

\* The pending batches at the positions in I, each retried once more.
Keeping(I) ==
  {[n \in DOMAIN f |-> [pending[f[n]] EXCEPT !.retries = @ + 1]] : f \in Ascending(I)}

\* Variant: a batch that was inserted stays among the pending ones.
Variant_Remaining(failed) == Keeping({i \in DOMAIN pending : MayRetry(pending[i])})

\* The pending batches after a round of retries in which `failed` failed.
Remaining(failed) ==
  Keeping({i \in DOMAIN pending : pending[i] \in failed /\ MayRetry(pending[i])})

\* retryPending: every pending batch is inserted again, in order.
RetryPending ==
  \E failed \in SUBSET Range(pending) :
    /\ pending' \in Remaining(failed)
    /\ Store(LogsOf(Range(pending) \ failed))
    /\ Fail(LogsOf(failed))
    /\ dropped' = dropped \cup LogsOf({p \in failed : ~MayRetry(p)})

\* Top of the loop.
Retry ==
  /\ worker = "retry"
  /\ RetryPending
  /\ worker' = "select"
  /\ UNCHANGED <<producerVars, queue, closed, batch>>

\* Variant: the batch is inserted one record late.
Variant_BatchFull(logs) == Len(logs) > BatchSize

BatchFull(logs) == Len(logs) >= BatchSize

\* A record is received; the first blocked sender takes its place.
Receive ==
  /\ worker = "select" /\ queue # <<>>
  /\ IF waiting = <<>>
       THEN queue' = Tail(queue) /\ UNCHANGED waiting
       ELSE queue' = Append(Tail(queue), Head(waiting)) /\ waiting' = Tail(waiting)
  /\ LET logs == Append(batch, Head(queue))
     IN  IF BatchFull(logs) THEN Flush(logs)
         ELSE batch' = logs /\ UNCHANGED <<pending, resultVars>>
  /\ worker' = "retry"
  /\ UNCHANGED <<unrecorded, closed, dropped>>

\* Variant: the timer only wakes the worker up.
Variant_TickerFires ==
  /\ worker = "select"
  /\ worker' = "retry"
  /\ UNCHANGED <<producerVars, queue, closed, dropped, batch, pending, resultVars>>

\* auditFlushInterval.
TickerFires ==
  /\ worker = "select"
  /\ Flush(batch)
  /\ worker' = "retry"
  /\ UNCHANGED <<producerVars, queue, closed, dropped>>

\* Variant: what the batch holds is forgotten.
Variant_Drained ==
  /\ worker = "select" /\ closed /\ queue = <<>>
  /\ worker' = "last"
  /\ UNCHANGED <<producerVars, queue, closed, dropped, batch, pending, resultVars>>

\* The channel is closed and empty: flush, and one last round of retries.
Drained ==
  /\ worker = "select" /\ closed /\ queue = <<>>
  /\ Flush(batch)
  /\ worker' = "last"
  /\ UNCHANGED <<producerVars, queue, closed, dropped>>

\* Variant: the worker returns to its loop.
Variant_Stop ==
  /\ worker = "last"
  /\ RetryPending
  /\ worker' = "select"
  /\ UNCHANGED <<producerVars, queue, closed, batch>>

Stop ==
  /\ worker = "last"
  /\ RetryPending
  /\ worker' = "done"
  /\ UNCHANGED <<producerVars, queue, closed, batch>>

-----------------------------------------------------------------------------
WorkerStep == Retry \/ Receive \/ TickerFires \/ Drained \/ Stop

Next ==
  \/ \E l \in Logs : Record(l) \/ EnqueueTimeout(l)
  \/ Close
  \/ WorkerStep

Spec == Init /\ [][Next]_vars

\* The worker goroutine runs.  select chooses at random among the ready cases,
\* so a ready receive is not passed over forever for the ticker.  Records need
\* not come, and Close need not be called.
Fairness ==
  /\ WF_vars(Retry) /\ WF_vars(TickerFires) /\ WF_vars(Stop)
  /\ SF_vars(Receive) /\ SF_vars(Drained)

FairSpec == Spec /\ Fairness

-----------------------------------------------------------------------------
Batches == [logs : Seq(Logs), retries : 1..MaxRetry]

TypeOK ==
  /\ unrecorded \subseteq Logs
  /\ waiting \in Seq(Logs)
  /\ queue \in Seq(Logs) /\ Len(queue) <= QueueSize
  /\ closed \in BOOLEAN
  /\ worker \in {"retry", "select", "last", "done"}
  /\ batch \in Seq(Logs) /\ Len(batch) < BatchSize
  /\ pending \in Seq(Batches)
  /\ stored \in [Logs -> Nat]
  /\ dropped \subseteq Logs
  /\ attempts \in [Logs -> Nat]

Times(l, s) == Cardinality({i \in DOMAIN s : s[i] = l})
Retried(l) == Cardinality({i \in DOMAIN pending : l \in Range(pending[i].logs)})

\* No record is stored twice or lost on its way: until the worker is done, each
\* one is in exactly one place (flush hands its slice over before the insert,
\* and a retried batch leaves the pending list when it is stored).
InOnePlace ==
  worker # "done" =>
    \A l \in Logs :
      (IF l \in unrecorded THEN 1 ELSE 0) + Times(l, waiting) + Times(l, queue)
      + Times(l, batch) + Retried(l) + stored[l]
      + (IF l \in dropped THEN 1 ELSE 0) = 1

\* A database that stays down does not pile up batches (audit.go:28-29).
PendingBounded == Len(pending) <= MaxRetry

Accepted(l) ==
  /\ l \notin unrecorded
  /\ l \notin Range(waiting)
  /\ l \notin dropped \/ attempts[l] > 0

\* The worker gives a record up only after all its attempts, and at shutdown
\* not before a second one.
GivenUpAfterAttempts ==
  \A l \in Logs :
    Accepted(l) /\ stored[l] = 0 =>
      /\ l \in dropped => attempts[l] = MaxRetry + 1
      /\ worker = "done" => attempts[l] >= 2

\* A record in the channel does not stay in memory: with little traffic the
\* ticker, with a failing database the retry limit, sees to it.
QueuedIsSettled ==
  \A l \in Logs :
    l \in Range(queue) ~> (stored[l] > 0 \/ l \in dropped \/ worker = "done")

\* Close returns: the worker drains the channel and stops.
CloseReturns == closed ~> worker = "done"
=============================================================================
