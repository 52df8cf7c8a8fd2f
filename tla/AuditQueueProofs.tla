--------------------------- MODULE AuditQueueProofs ---------------------------
(***************************************************************************)
(* Proofs about AuditQueue, for any finite set of records, any sizes of    *)
(* the channel and of a batch, and any number of retries: a record is in   *)
(* one place at a time, the failed batches stay few, and a record is given *)
(* up only after its attempts.                                             *)
(***************************************************************************)
EXTENDS AuditQueue, FiniteSetTheorems, TLAPS

-----------------------------------------------------------------------------
(* Sequences without repetition *)

\* Appending a new element.
LEMMA Appending ==
  ASSUME NEW S, NEW q \in Seq(S), NEW x \in S
  PROVE  /\ Append(q, x) \in Seq(S)
         /\ Range(Append(q, x)) = Range(q) \cup {x}
         /\ IsInjective(q) /\ x \notin Range(q) => IsInjective(Append(q, x))
<1>1. /\ Append(q, x) \in Seq(S)
      /\ Len(Append(q, x)) = Len(q) + 1
      /\ Append(q, x)[Len(q) + 1] = x
      /\ \A n \in 1..Len(q) : Append(q, x)[n] = q[n]
  OBVIOUS
<1>2. /\ DOMAIN q = 1..Len(q)
      /\ DOMAIN Append(q, x) = 1..(Len(q) + 1)
      /\ Len(q) \in Nat
  BY <1>1
<1>3. Range(Append(q, x)) = Range(q) \cup {x}
  <2>1. ASSUME NEW y \in Range(Append(q, x)) PROVE y \in Range(q) \cup {x}
    BY <1>1, <1>2, <2>1 DEF Range
  <2>2. ASSUME NEW y \in Range(q) \cup {x} PROVE y \in Range(Append(q, x))
    BY <1>1, <1>2, <2>2 DEF Range
  <2> QED  BY <2>1, <2>2
<1>4. ASSUME IsInjective(q), x \notin Range(q) PROVE IsInjective(Append(q, x))
  BY <1>1, <1>2, <1>4 DEF IsInjective, Range
<1> QED
  BY <1>1, <1>3, <1>4

\* Taking the first element off.
LEMMA TakingHead ==
  ASSUME NEW S, NEW q \in Seq(S), q # <<>>
  PROVE  /\ Head(q) \in S /\ Head(q) \in Range(q)
         /\ Tail(q) \in Seq(S) /\ Len(Tail(q)) = Len(q) - 1
         /\ Range(q) = Range(Tail(q)) \cup {Head(q)}
         /\ IsInjective(q) => IsInjective(Tail(q)) /\ Head(q) \notin Range(Tail(q))
<1>1. /\ Tail(q) \in Seq(S)
      /\ Len(q) \in Nat \ {0}
      /\ Len(Tail(q)) = Len(q) - 1
      /\ \A n \in 1..(Len(q) - 1) : Tail(q)[n] = q[n + 1]
      /\ Head(q) = q[1]
  OBVIOUS
<1>2. /\ DOMAIN q = 1..Len(q)
      /\ DOMAIN Tail(q) = 1..(Len(q) - 1)
  BY <1>1
<1>3. Head(q) \in S /\ Head(q) \in Range(q)
  BY <1>1, <1>2 DEF Range
<1>4. Range(q) = Range(Tail(q)) \cup {Head(q)}
  <2>1. ASSUME NEW y \in Range(q) PROVE y \in Range(Tail(q)) \cup {Head(q)}
    <3>1. PICK n \in 1..Len(q) : y = q[n]
      BY <1>2, <2>1 DEF Range
    <3>2. CASE n = 1
      BY <1>1, <3>1, <3>2
    <3>3. CASE n # 1
      <4>1. n - 1 \in 1..(Len(q) - 1) /\ Tail(q)[n - 1] = q[n]
        BY <1>1, <3>1, <3>3
      <4> QED  BY <1>2, <3>1, <4>1 DEF Range
    <3> QED  BY <3>2, <3>3
  <2>2. ASSUME NEW y \in Range(Tail(q)) PROVE y \in Range(q)
    BY <1>1, <1>2, <2>2 DEF Range
  <2> QED  BY <1>3, <2>1, <2>2
<1>5. ASSUME IsInjective(q)
      PROVE  IsInjective(Tail(q)) /\ Head(q) \notin Range(Tail(q))
  <2>1. \A m, n \in 1..Len(q) : q[m] = q[n] => m = n
    BY <1>2, <1>5 DEF IsInjective
  <2>2. IsInjective(Tail(q))
    BY <1>1, <1>2, <2>1 DEF IsInjective
  <2>3. Head(q) \notin Range(Tail(q))
    BY <1>1, <1>2, <2>1 DEF Range
  <2> QED  BY <2>2, <2>3
<1> QED
  BY <1>1, <1>3, <1>4, <1>5

\* One sequence after another.
LEMMA Joining ==
  ASSUME NEW S, NEW a \in Seq(S), NEW b \in Seq(S)
  PROVE  /\ a \o b \in Seq(S)
         /\ Len(a \o b) = Len(a) + Len(b)
         /\ \A n \in 1..(Len(a) + Len(b)) :
              (a \o b)[n] = IF n <= Len(a) THEN a[n] ELSE b[n - Len(a)]
OBVIOUS

\* Taking an element out of the middle.
LEMMA TakingOut ==
  ASSUME NEW S, NEW q \in Seq(S), IsInjective(q), NEW k \in DOMAIN q
  PROVE  /\ RemoveAt(q, k) \in Seq(S)
         /\ Range(RemoveAt(q, k)) = Range(q) \ {q[k]}
         /\ IsInjective(RemoveAt(q, k))
<1> DEFINE r == RemoveAt(q, k)
<1>1. /\ Len(q) \in Nat /\ DOMAIN q = 1..Len(q)
      /\ k \in 1..Len(q)
  OBVIOUS
<1>2. /\ SubSeq(q, 1, k - 1) \in Seq(S)
      /\ Len(SubSeq(q, 1, k - 1)) = k - 1
      /\ \A n \in 1..(k - 1) : SubSeq(q, 1, k - 1)[n] = q[n]
  BY <1>1
<1>3. /\ SubSeq(q, k + 1, Len(q)) \in Seq(S)
      /\ Len(SubSeq(q, k + 1, Len(q))) = Len(q) - k
      /\ \A n \in 1..(Len(q) - k) : SubSeq(q, k + 1, Len(q))[n] = q[n + k]
  BY <1>1
<1>4. /\ r \in Seq(S)
      /\ Len(r) = Len(q) - 1
      /\ \A n \in 1..(Len(q) - 1) : r[n] = IF n < k THEN q[n] ELSE q[n + 1]
  <2>1. PICK a \in Seq(S), b \in Seq(S) :
          /\ a = SubSeq(q, 1, k - 1)
          /\ b = SubSeq(q, k + 1, Len(q))
    BY <1>2, <1>3
  <2>2. /\ Len(a) = k - 1 /\ Len(b) = Len(q) - k
        /\ \A n \in 1..(k - 1) : a[n] = q[n]
        /\ \A n \in 1..(Len(q) - k) : b[n] = q[n + k]
    BY <1>2, <1>3, <2>1
  <2>3. r = a \o b
    BY <2>1 DEF RemoveAt
  <2>4. /\ a \o b \in Seq(S)
        /\ Len(a \o b) = Len(q) - 1
        /\ \A n \in 1..(Len(q) - 1) :
             (a \o b)[n] = IF n <= k - 1 THEN a[n] ELSE b[n - (k - 1)]
    <3>1. Len(a) + Len(b) = Len(q) - 1
      BY <1>1, <2>2
    <3>2. /\ a \o b \in Seq(S)
          /\ Len(a \o b) = Len(a) + Len(b)
          /\ \A n \in 1..(Len(a) + Len(b)) :
               (a \o b)[n] = IF n <= Len(a) THEN a[n] ELSE b[n - Len(a)]
      BY Joining
    <3> QED  BY <2>2, <3>1, <3>2
  <2>5. ASSUME NEW n \in 1..(Len(q) - 1)
        PROVE  (a \o b)[n] = IF n < k THEN q[n] ELSE q[n + 1]
    <3>1. CASE n < k
      BY <1>1, <2>2, <2>4, <3>1
    <3>2. CASE ~(n < k)
      <4>1. n - (k - 1) \in 1..(Len(q) - k)
        BY <1>1, <3>2
      <4>2. b[n - (k - 1)] = q[n - (k - 1) + k]
        BY <2>2, <4>1
      <4>3. ~(n <= k - 1) /\ ~(n < k) /\ n - (k - 1) + k = n + 1
        BY <1>1, <3>2
      <4>4. (a \o b)[n] = b[n - (k - 1)]
        BY <2>4, <4>3
      <4>5. q[n - (k - 1) + k] = q[n + 1]
        BY <4>3
      <4> QED  BY <4>2, <4>3, <4>4, <4>5
    <3> QED  BY <3>1, <3>2
  <2> QED  BY <2>3, <2>4, <2>5
<1>5. DOMAIN r = 1..(Len(q) - 1)
  BY <1>4
<1>6. \A m, n \in 1..Len(q) : q[m] = q[n] => m = n
  BY <1>1 DEF IsInjective
<1> HIDE DEF r
<1>7. Range(r) = Range(q) \ {q[k]}
  <2>1. ASSUME NEW y \in Range(r) PROVE y \in Range(q) /\ y # q[k]
    BY <1>1, <1>4, <1>5, <1>6, <2>1 DEF Range
  <2>2. ASSUME NEW y \in Range(q), y # q[k] PROVE y \in Range(r)
    <3>1. PICK n \in 1..Len(q) : y = q[n]
      BY <1>1, <2>2 DEF Range
    <3>2. CASE n < k
      <4>1. n \in 1..(Len(q) - 1) /\ r[n] = q[n]
        BY <1>1, <1>4, <3>2
      <4> QED  BY <1>5, <3>1, <4>1 DEF Range
    <3>3. CASE n > k
      <4>1. n - 1 \in 1..(Len(q) - 1) /\ r[n - 1] = q[n]
        BY <1>1, <1>4, <3>3
      <4> QED  BY <1>5, <3>1, <4>1 DEF Range
    <3> QED  BY <1>1, <2>2, <3>1, <3>2, <3>3
  <2> QED  BY <2>1, <2>2
<1>8. IsInjective(r)
  <2>1. ASSUME NEW m \in 1..(Len(q) - 1), NEW n \in 1..(Len(q) - 1), r[m] = r[n]
        PROVE  m = n
    BY <1>1, <1>4, <1>6, <2>1
  <2> QED  BY <1>5, <2>1 DEF IsInjective
<1> QED
  BY <1>4, <1>7, <1>8 DEF r

\* How often a record is in a sequence without repetition.
LEMMA TimesOnce ==
  ASSUME NEW l, NEW q, IsInjective(q)
  PROVE  Times(l, q) = IF l \in Range(q) THEN 1 ELSE 0
<1> DEFINE I == {i \in DOMAIN q : q[i] = l}
<1>1. CASE l \in Range(q)
  <2>1. PICK i \in DOMAIN q : q[i] = l
    BY <1>1 DEF Range
  <2>2. I = {i}
    BY <2>1 DEF IsInjective
  <2> QED  BY <1>1, <2>2, FS_Singleton DEF Times
<1>2. CASE l \notin Range(q)
  <2>1. I = {}
    BY <1>2 DEF Range
  <2> QED  BY <1>2, <2>1, FS_EmptySet DEF Times
<1> QED
  BY <1>1, <1>2

\* From the n-th of the numbers I below m on there is room for all the others.
LEMMA AscendingRoom ==
  ASSUME NEW m \in Nat, NEW I \in SUBSET (1..m), NEW f \in Ascending(I)
  PROVE  /\ Cardinality(I) \in Nat
         /\ f \in [1..Cardinality(I) -> I]
         /\ Range(f) = I
         /\ \A n \in 1..Cardinality(I) : m - f[n] >= Cardinality(I) - n
         /\ \A n, o \in 1..Cardinality(I) : f[n] = f[o] => n = o
<1> DEFINE c == Cardinality(I)
<1>1. c \in Nat
  <2>1. IsFiniteSet(1..m)
    BY FS_Interval
  <2> QED  BY <2>1, FS_Subset, FS_CardinalityType
<1>2. /\ f \in [1..c -> I]
      /\ Range(f) = I
      /\ \A n, o \in 1..c : n < o => f[n] < f[o]
  BY DEF Ascending
<1> HIDE DEF c
<1>3. \A n, o \in 1..c : f[n] = f[o] => n = o
  <2>1. ASSUME NEW n \in 1..c, NEW o \in 1..c, f[n] = f[o], n # o PROVE FALSE
    <3>1. f[n] \in 1..m /\ f[o] \in 1..m
      BY <1>2
    <3>2. n < o \/ o < n
      BY <1>1, <2>1
    <3> QED  BY <1>2, <2>1, <3>1, <3>2
  <2> QED  BY <2>1
<1>4. ASSUME NEW n \in 1..c PROVE m - f[n] >= c - n
  <2> DEFINE A == (n + 1)..c
             B == (f[n] + 1)..m
             g == [o \in A |-> f[o]]
  <2>1. f[n] \in 1..m
    BY <1>2
  <2>2. ASSUME NEW o \in A PROVE f[o] \in B
    <3>1. o \in 1..c /\ n < o
      BY <1>1
    <3>2. f[o] \in 1..m /\ f[n] < f[o]
      BY <1>2, <3>1
    <3> QED  BY <2>1, <3>2
  <2>3. g \in Injection(A, B)
    <3>1. g \in [A -> B]
      BY <2>2
    <3>2. IsInjective(g)
      BY <1>1, <1>3 DEF IsInjective
    <3> QED  BY <3>1, <3>2 DEF Injection
  <2>4. /\ IsFiniteSet(B)
        /\ Cardinality(B) = m - f[n]
    <3>1. f[n] + 1 \in Int /\ m \in Int
      BY <2>1
    <3>2. /\ IsFiniteSet(B)
          /\ Cardinality(B) = IF f[n] + 1 > m THEN 0 ELSE m - (f[n] + 1) + 1
      BY <3>1, FS_Interval
    <3> QED  BY <2>1, <3>2
  <2>5. Cardinality(A) = c - n
    <3>1. n + 1 \in Int /\ c \in Int
      BY <1>1
    <3>2. Cardinality(A) = IF n + 1 > c THEN 0 ELSE c - (n + 1) + 1
      BY <3>1, FS_Interval
    <3> QED  BY <1>1, <3>2
  <2>6. Cardinality(A) <= Cardinality(B)
    BY <2>3, <2>4, FS_Injection
  <2> QED  BY <2>4, <2>5, <2>6
<1> QED
  BY <1>1, <1>2, <1>3, <1>4 DEF c

-----------------------------------------------------------------------------
(* The inductive invariant *)

Where == {"unrecorded", "waiting", "queue", "batch", "pending", "stored", "dropped"}

\* l is in a batch that failed.
Pended(l) == \E i \in DOMAIN pending : l \in Range(pending[i].logs)

\* place[l] is where record l is.
Places(place) ==
  \A l \in Logs :
    /\ l \in unrecorded <=> place[l] = "unrecorded"
    /\ l \in Range(waiting) <=> place[l] = "waiting"
    /\ l \in Range(queue) <=> place[l] = "queue"
    /\ l \in Range(batch) <=> place[l] = "batch"
    /\ Pended(l) <=> place[l] = "pending"
    /\ l \in dropped <=> place[l] = "dropped"
    /\ stored[l] = IF place[l] = "stored" THEN 1 ELSE 0

\* Every record is in one place.
PlacesOK == \E place \in [Logs -> Where] : Places(place)

\* Nowhere is it twice.
NoneTwice == IsInjective(waiting) /\ IsInjective(queue) /\ IsInjective(batch)

\* Two failed batches have no record in common.
PendingApart ==
  \A i, j \in DOMAIN pending : \A l \in Logs :
    l \in Range(pending[i].logs) /\ l \in Range(pending[j].logs) => i = j

\* What has not been inserted has not failed; a failed batch has failed as a
\* whole and as often as it says; one that the worker gave up, every time.
AttemptsOK ==
  \A l \in Logs :
    /\ l \in unrecorded \cup Range(waiting) \cup Range(queue) \cup Range(batch)
         => attempts[l] = 0
    /\ \A i \in DOMAIN pending :
         l \in Range(pending[i].logs) => attempts[l] = pending[i].retries
    /\ l \in dropped => attempts[l] \in {0, MaxRetry + 1}

\* The older batches have been retried more often: once for each that has come
\* after them.  The worker lets one more come only after a round of retries.
OldestFirst(rounds) ==
  \A i \in DOMAIN pending : pending[i].retries >= Len(pending) - i + rounds

RetriesOK == OldestFirst(IF worker \in {"select", "done"} THEN 2 ELSE 1)

\* The worker stops when nothing can come any more.
ShutdownOK ==
  /\ closed => waiting = <<>>
  /\ worker \in {"last", "done"} => closed /\ queue = <<>> /\ batch = <<>>

IInv == TypeOK /\ PlacesOK /\ NoneTwice /\ PendingApart /\ AttemptsOK /\ RetriesOK /\ ShutdownOK

LEMMA EmptySequence ==
  /\ \A S : <<>> \in Seq(S)
  /\ Range(<<>>) = {}
  /\ IsInjective(<<>>)
  /\ DOMAIN <<>> = {}
  /\ Len(<<>>) = 0
BY DEF Range, IsInjective

LEMMA InitIInv == Init => IInv
<1> SUFFICES ASSUME Init PROVE IInv
  OBVIOUS
<1> USE DEF Init
<1>1. TypeOK
  <2>1. waiting \in Seq(Logs) /\ queue \in Seq(Logs) /\ batch \in Seq(Logs) /\ pending \in Seq(Batches)
    BY EmptySequence
  <2>2. Len(queue) <= QueueSize /\ Len(batch) < BatchSize
    BY AuditQueueAssumption, EmptySequence
  <2> QED  BY <2>1, <2>2 DEF TypeOK
<1>2. PlacesOK
  <2> DEFINE place == [l \in Logs |-> "unrecorded"]
  <2>1. place \in [Logs -> Where]
    BY DEF Where
  <2>2. ASSUME NEW l \in Logs PROVE ~Pended(l)
    BY EmptySequence DEF Pended
  <2>3. Places(place)
    BY <2>2, EmptySequence DEF Places
  <2> QED  BY <2>1, <2>3 DEF PlacesOK
<1>3. NoneTwice /\ PendingApart
  BY EmptySequence DEF NoneTwice, PendingApart
<1>4. AttemptsOK
  BY EmptySequence DEF AttemptsOK
<1>5. RetriesOK /\ ShutdownOK
  BY EmptySequence DEF RetriesOK, OldestFirst, ShutdownOK
<1> QED
  BY <1>1, <1>2, <1>3, <1>4, <1>5 DEF IInv

-----------------------------------------------------------------------------
(* The request side *)

LEMMA RecordStep ==
  ASSUME IInv, NEW l \in Logs, Record(l)
  PROVE  IInv'
<1> USE DEF IInv
<1>1. /\ l \in unrecorded /\ unrecorded' = unrecorded \ {l}
      /\ UNCHANGED <<closed, worker, batch, pending, stored, attempts>>
  BY DEF Record, resultVars
<1>2. PICK place \in [Logs -> Where] : Places(place)
  BY DEF PlacesOK
<1>3. place[l] = "unrecorded" /\ attempts[l] = 0 /\ l \notin dropped
  BY <1>1, <1>2 DEF Places, AttemptsOK
<1>4. /\ l \notin Range(waiting) /\ l \notin Range(queue) /\ l \notin Range(batch)
      /\ ~Pended(l) /\ stored[l] = 0
  BY <1>2, <1>3 DEF Places
<1>5. \A k \in Logs : Pended(k)' <=> Pended(k)
  BY <1>1 DEF Pended
<1>6. PendingApart'
  BY <1>1 DEF PendingApart
<1>7. RetriesOK'
  BY <1>1 DEF RetriesOK, OldestFirst
<1>8. ASSUME NEW to \in {"queue", "waiting", "dropped"},
             Range(queue') = IF to = "queue" THEN Range(queue) \cup {l} ELSE Range(queue),
             Range(waiting') = IF to = "waiting" THEN Range(waiting) \cup {l} ELSE Range(waiting),
             dropped' = IF to = "dropped" THEN dropped \cup {l} ELSE dropped
      PROVE  PlacesOK' /\ AttemptsOK'
  <2> DEFINE new == [place EXCEPT ![l] = to]
  <2>1. new \in [Logs -> Where] /\ new[l] = to
    BY DEF Where
  <2>2. ASSUME NEW k \in Logs
        PROVE  /\ k \in unrecorded' <=> new[k] = "unrecorded"
               /\ k \in Range(waiting') <=> new[k] = "waiting"
               /\ k \in Range(queue') <=> new[k] = "queue"
               /\ k \in Range(batch') <=> new[k] = "batch"
               /\ Pended(k)' <=> new[k] = "pending"
               /\ k \in dropped' <=> new[k] = "dropped"
               /\ stored'[k] = IF new[k] = "stored" THEN 1 ELSE 0
    <3>1. CASE k = l
      BY <1>1, <1>2, <1>3, <1>4, <1>5, <1>8, <2>1, <3>1 DEF Places
    <3>2. CASE k # l
      <4>1. new[k] = place[k]
        BY <3>2
      <4> QED  BY <1>1, <1>2, <1>5, <1>8, <3>2, <4>1 DEF Places
    <3> QED  BY <3>1, <3>2
  <2>3. Places(new)'
    BY <2>2 DEF Places
  <2>4. PlacesOK'
    BY <2>1, <2>3 DEF PlacesOK
  <2>5. AttemptsOK'
    BY <1>1, <1>3, <1>8 DEF AttemptsOK
  <2> QED  BY <2>4, <2>5
<1>9. CASE ~closed /\ Len(queue) < QueueSize /\ queue' = Append(queue, l) /\ UNCHANGED <<waiting, dropped>>
  <2>1. /\ queue' \in Seq(Logs) /\ Len(queue') = Len(queue) + 1
        /\ Range(queue') = Range(queue) \cup {l} /\ IsInjective(queue')
    BY <1>4, <1>9, Appending DEF TypeOK, NoneTwice
  <2>2. PlacesOK' /\ AttemptsOK'
    BY <1>8, <1>9, <2>1
  <2>3. TypeOK' /\ NoneTwice' /\ ShutdownOK'
    BY <1>1, <1>9, <2>1, AuditQueueAssumption DEF TypeOK, NoneTwice, ShutdownOK
  <2> QED  BY <1>6, <1>7, <2>2, <2>3
<1>10. CASE ~closed /\ Len(queue) = QueueSize /\ waiting' = Append(waiting, l) /\ UNCHANGED <<queue, dropped>>
  <2>1. /\ waiting' \in Seq(Logs)
        /\ Range(waiting') = Range(waiting) \cup {l} /\ IsInjective(waiting')
    BY <1>4, <1>10, Appending DEF TypeOK, NoneTwice
  <2>2. PlacesOK' /\ AttemptsOK'
    BY <1>8, <1>10, <2>1
  <2>3. TypeOK' /\ NoneTwice' /\ ShutdownOK'
    BY <1>1, <1>10, <2>1 DEF TypeOK, NoneTwice, ShutdownOK
  <2> QED  BY <1>6, <1>7, <2>2, <2>3
<1>11. CASE closed /\ dropped' = dropped \cup {l} /\ UNCHANGED <<waiting, queue>>
  <2>1. PlacesOK' /\ AttemptsOK'
    BY <1>8, <1>11
  <2>2. TypeOK' /\ NoneTwice' /\ ShutdownOK'
    BY <1>1, <1>11 DEF TypeOK, NoneTwice, ShutdownOK
  <2> QED  BY <1>6, <1>7, <2>1, <2>2
<1> QED
  BY <1>9, <1>10, <1>11 DEF Record

\* Senders that are blocked no longer, R of them, are dropped.
LEMMA SendersDropped ==
  ASSUME IInv, NEW R \in SUBSET Range(waiting),
         Range(waiting') = Range(waiting) \ R, dropped' = dropped \cup R,
         UNCHANGED <<unrecorded, queue, batch, pending, stored, attempts>>
  PROVE  PlacesOK' /\ AttemptsOK' /\ PendingApart'
<1>1. PICK place \in [Logs -> Where] : Places(place)
  BY DEF IInv, PlacesOK
<1>2. \A k \in Logs : Pended(k)' <=> Pended(k)
  BY DEF Pended
<1> DEFINE new == [l \in Logs |-> IF l \in R THEN "dropped" ELSE place[l]]
<1>3. new \in [Logs -> Where]
  BY DEF Where
<1>4. Places(new)'
  BY <1>1, <1>2 DEF Places
<1>5. PlacesOK'
  BY <1>3, <1>4 DEF PlacesOK
<1>6. AttemptsOK' /\ PendingApart'
  BY DEF IInv, AttemptsOK, PendingApart
<1> QED
  BY <1>5, <1>6

LEMMA EnqueueTimeoutStep ==
  ASSUME IInv, NEW l \in Logs, EnqueueTimeout(l)
  PROVE  IInv'
<1>1. PICK k \in DOMAIN waiting : waiting[k] = l /\ waiting' = RemoveAt(waiting, k)
  BY DEF EnqueueTimeout
<1>2. /\ dropped' = dropped \cup {l}
      /\ UNCHANGED <<unrecorded, queue, closed, worker, batch, pending, stored, attempts>>
  BY DEF EnqueueTimeout, resultVars
<1>3. /\ waiting' \in Seq(Logs)
      /\ Range(waiting') = Range(waiting) \ {l}
      /\ IsInjective(waiting')
  BY <1>1, TakingOut DEF IInv, TypeOK, NoneTwice
<1>4. {l} \in SUBSET Range(waiting)
  BY <1>1 DEF Range
<1>5. PlacesOK' /\ AttemptsOK' /\ PendingApart'
  BY <1>2, <1>3, <1>4, SendersDropped
<1>6. ~closed
  BY <1>1, EmptySequence DEF IInv, ShutdownOK
<1>7. TypeOK' /\ NoneTwice' /\ RetriesOK' /\ ShutdownOK'
  BY <1>2, <1>3, <1>6 DEF IInv, TypeOK, NoneTwice, RetriesOK, OldestFirst, ShutdownOK
<1> QED
  BY <1>5, <1>7 DEF IInv

LEMMA CloseStep ==
  ASSUME IInv, Close
  PROVE  IInv'
<1>1. /\ closed' = TRUE
      /\ dropped' = dropped \cup Range(waiting)
      /\ waiting' = <<>>
      /\ UNCHANGED <<unrecorded, queue, worker, batch, pending, stored, attempts>>
  BY DEF Close, resultVars
<1>2. Range(waiting') = Range(waiting) \ Range(waiting)
  BY <1>1, EmptySequence
<1>3. PlacesOK' /\ AttemptsOK' /\ PendingApart'
  BY <1>1, <1>2, SendersDropped
<1>4. Range(waiting) \subseteq Logs
  BY DEF IInv, TypeOK, Range
<1>5. TypeOK' /\ NoneTwice' /\ RetriesOK' /\ ShutdownOK'
  BY <1>1, <1>4, EmptySequence DEF IInv, TypeOK, NoneTwice, RetriesOK, OldestFirst, ShutdownOK
<1> QED
  BY <1>3, <1>5 DEF IInv

-----------------------------------------------------------------------------
(* The worker *)

\* Flush moves its records to the table or, as a batch with one retry, to the
\* end of the pending ones.
LEMMA FlushMoves ==
  ASSUME TypeOK, PendingApart, OldestFirst(2),
         NEW logs \in Seq(Logs), Flush(logs),
         \A l \in Range(logs) : ~Pended(l) /\ attempts[l] = 0
  PROVE  /\ batch' = <<>>
         /\ pending' \in Seq(Batches) /\ stored' \in [Logs -> Nat] /\ attempts' \in [Logs -> Nat]
         /\ PendingApart' /\ OldestFirst(1)'
         /\ \A l \in Logs \ Range(logs) :
              /\ Pended(l)' <=> Pended(l)
              /\ stored'[l] = stored[l] /\ attempts'[l] = attempts[l]
         /\ \E to \in {"stored", "pending"} : \A l \in Range(logs) :
              /\ Pended(l)' <=> to = "pending"
              /\ stored'[l] = IF to = "stored" THEN stored[l] + 1 ELSE stored[l]
         /\ \A i \in DOMAIN pending' : \A l \in Range(pending'[i].logs) :
              \/ /\ i \in DOMAIN pending /\ pending'[i] = pending[i]
                 /\ attempts'[l] = attempts[l]
              \/ attempts'[l] = pending'[i].retries
<1>1. /\ pending \in Seq(Batches) /\ stored \in [Logs -> Nat] /\ attempts \in [Logs -> Nat]
      /\ Len(pending) \in Nat /\ DOMAIN pending = 1..Len(pending)
      /\ Range(logs) \subseteq Logs
      /\ MaxRetry \in Nat \ {0}
  BY AuditQueueAssumption DEF TypeOK, Range
<1>2. \A i \in 1..Len(pending) :
        /\ pending[i].retries \in 1..MaxRetry
        /\ Range(pending[i].logs) \subseteq Logs
  <2> SUFFICES ASSUME NEW i \in 1..Len(pending)
               PROVE  /\ pending[i].retries \in 1..MaxRetry
                      /\ Range(pending[i].logs) \subseteq Logs
    OBVIOUS
  <2>1. pending[i] \in Batches
    BY <1>1
  <2>2. pending[i].logs \in Seq(Logs) /\ pending[i].retries \in 1..MaxRetry
    BY <2>1 DEF Batches
  <2> QED  BY <2>2 DEF Range
<1>3. batch' = <<>>
  BY DEF Flush
<1>4. CASE logs = <<>> /\ UNCHANGED <<pending, stored, attempts>>
  <2>1. Range(logs) = {}
    BY <1>4, EmptySequence
  <2>2. PendingApart'
    BY <1>4 DEF PendingApart
  <2>3. OldestFirst(1)'
    BY <1>1, <1>2, <1>4 DEF OldestFirst
  <2>4. \A l \in Logs : Pended(l)' <=> Pended(l)
    BY <1>4 DEF Pended
  <2> QED  BY <1>1, <1>3, <1>4, <2>1, <2>2, <2>3, <2>4
<1>5. CASE Store(Range(logs)) /\ UNCHANGED <<pending, attempts>>
  <2>1. PendingApart'
    BY <1>5 DEF PendingApart
  <2>2. OldestFirst(1)'
    BY <1>1, <1>2, <1>5 DEF OldestFirst
  <2>3. \A l \in Logs : Pended(l)' <=> Pended(l)
    BY <1>5 DEF Pended
  <2>4. /\ stored' \in [Logs -> Nat]
        /\ \A l \in Logs : stored'[l] = IF l \in Range(logs) THEN stored[l] + 1 ELSE stored[l]
    BY <1>1, <1>5 DEF Store
  <2>5. \A l \in Range(logs) : /\ Pended(l)' <=> "stored" = "pending"
                               /\ stored'[l] = IF "stored" = "stored" THEN stored[l] + 1 ELSE stored[l]
    BY <1>1, <2>3, <2>4
  <2> QED  BY <1>1, <1>3, <1>5, <2>1, <2>2, <2>3, <2>4, <2>5
<1>6. CASE /\ Fail(Range(logs)) /\ UNCHANGED stored
           /\ pending' = Append(pending, [logs |-> logs, retries |-> 1])
  <2> DEFINE new == [logs |-> logs, retries |-> 1]
             m == Len(pending)
  <2>1. new \in Batches
    BY <1>1 DEF Batches
  <2>2. /\ pending' \in Seq(Batches)
        /\ Len(pending') = m + 1 /\ DOMAIN pending' = 1..(m + 1)
        /\ pending'[m + 1] = new
        /\ \A i \in 1..m : pending'[i] = pending[i]
    BY <1>1, <1>6, <2>1
  <2>3. /\ attempts' \in [Logs -> Nat]
        /\ \A l \in Logs : attempts'[l] = IF l \in Range(logs) THEN attempts[l] + 1 ELSE attempts[l]
    BY <1>1, <1>6 DEF Fail
  <2>4. ASSUME NEW l \in Logs
        PROVE  Pended(l)' <=> Pended(l) \/ l \in Range(logs)
    <3>1. Pended(l)' <=> \E i \in 1..(m + 1) : l \in Range(pending'[i].logs)
      BY <2>2 DEF Pended
    <3>2. Pended(l) <=> \E i \in 1..m : l \in Range(pending[i].logs)
      BY <1>1 DEF Pended
    <3>3. 1..(m + 1) = (1..m) \cup {m + 1}
      BY <1>1
    <3>4. pending'[m + 1].logs = logs
      BY <2>2
    <3> QED  BY <2>2, <3>1, <3>2, <3>3, <3>4
  <2>5. PendingApart'
    <3>1. ASSUME NEW i \in 1..m, NEW l \in Range(logs), l \in Range(pending[i].logs)
          PROVE  FALSE
      BY <1>1, <3>1 DEF Pended
    <3>2. ASSUME NEW i \in 1..(m + 1), NEW j \in 1..(m + 1), NEW l \in Logs,
                 l \in Range(pending'[i].logs), l \in Range(pending'[j].logs)
          PROVE  i = j
      <4>1. CASE i \in 1..m /\ j \in 1..m
        BY <1>1, <2>2, <3>2, <4>1 DEF PendingApart
      <4>2. CASE i \in 1..m /\ j = m + 1
        BY <2>2, <3>1, <3>2, <4>2
      <4>3. CASE i = m + 1 /\ j \in 1..m
        BY <2>2, <3>1, <3>2, <4>3
      <4> QED  BY <1>1, <4>1, <4>2, <4>3
    <3> QED  BY <2>2, <3>2 DEF PendingApart
  <2>6. OldestFirst(1)'
    <3>1. ASSUME NEW i \in 1..(m + 1) PROVE pending'[i].retries >= (m + 1) - i + 1
      <4>1. CASE i \in 1..m
        <5>1. pending[i].retries >= m - i + 2 /\ pending[i].retries \in 1..MaxRetry
          BY <1>1, <1>2, <4>1 DEF OldestFirst
        <5>2. pending'[i].retries = pending[i].retries
          BY <2>2, <4>1
        <5>3. MaxRetry \in Nat /\ m \in Nat
          BY <1>1
        <5> HIDE DEF m
        <5> QED  BY <4>1, <5>1, <5>2, <5>3
      <4>2. CASE i = m + 1
        BY <1>1, <2>2, <4>2
      <4> QED  BY <1>1, <4>1, <4>2
    <3> QED  BY <2>2, <3>1 DEF OldestFirst
  <2>7. ASSUME NEW i \in DOMAIN pending', NEW l \in Range(pending'[i].logs)
        PROVE  \/ /\ i \in DOMAIN pending /\ pending'[i] = pending[i]
                  /\ attempts'[l] = attempts[l]
               \/ attempts'[l] = pending'[i].retries
    <3>1. CASE i \in 1..m
      <4>1. pending'[i] = pending[i] /\ l \in Logs
        BY <1>2, <2>2, <2>7, <3>1
      <4>2. l \notin Range(logs)
        BY <1>1, <2>7, <3>1, <4>1 DEF Pended
      <4> QED  BY <1>1, <2>3, <3>1, <4>1, <4>2
    <3>2. CASE i = m + 1
      BY <1>1, <2>2, <2>3, <2>7, <3>2
    <3> QED  BY <1>1, <2>2, <3>1, <3>2
  <2>8. \A l \in Range(logs) : /\ Pended(l)' <=> "pending" = "pending"
                               /\ stored'[l] = IF "pending" = "stored" THEN stored[l] + 1 ELSE stored[l]
    BY <1>1, <1>6, <2>4
  <2> QED  BY <1>1, <1>3, <1>6, <2>2, <2>3, <2>4, <2>5, <2>6, <2>7, <2>8
<1> QED
  BY <1>4, <1>5, <1>6 DEF Flush, resultVars

\* Blocked senders W get into the channel, and records R leave it or the batch.
LEMMA RecordsMove ==
  ASSUME IInv, NEW W \in SUBSET Range(waiting),
         NEW R \in SUBSET (Range(queue) \cup Range(batch)),
         NEW to \in {"batch", "stored", "pending"},
         UNCHANGED <<unrecorded, dropped>>,
         Range(waiting') = Range(waiting) \ W,
         Range(queue') = (Range(queue) \ R) \cup W,
         Range(batch') = IF to = "batch" THEN Range(batch) \cup R ELSE Range(batch) \ R,
         \A l \in Logs \ R :
           /\ Pended(l)' <=> Pended(l)
           /\ stored'[l] = stored[l] /\ attempts'[l] = attempts[l],
         \A l \in R :
           /\ Pended(l)' <=> to = "pending"
           /\ stored'[l] = IF to = "stored" THEN stored[l] + 1 ELSE stored[l]
           /\ to = "batch" => attempts'[l] = attempts[l],
         \A i \in DOMAIN pending' : \A l \in Range(pending'[i].logs) :
           \/ /\ i \in DOMAIN pending /\ pending'[i] = pending[i]
              /\ attempts'[l] = attempts[l]
           \/ attempts'[l] = pending'[i].retries
  PROVE  PlacesOK' /\ AttemptsOK'
<1>1. PICK place \in [Logs -> Where] : Places(place)
  BY DEF IInv, PlacesOK
<1> DEFINE new == [l \in Logs |-> IF l \in R THEN to ELSE IF l \in W THEN "queue" ELSE place[l]]
<1>2. new \in [Logs -> Where]
  BY DEF Where
<1>3. ASSUME NEW l \in Logs
      PROVE  /\ l \in unrecorded' <=> new[l] = "unrecorded"
             /\ l \in Range(waiting') <=> new[l] = "waiting"
             /\ l \in Range(queue') <=> new[l] = "queue"
             /\ l \in Range(batch') <=> new[l] = "batch"
             /\ Pended(l)' <=> new[l] = "pending"
             /\ l \in dropped' <=> new[l] = "dropped"
             /\ stored'[l] = IF new[l] = "stored" THEN 1 ELSE 0
  <2>1. /\ l \in R => place[l] \in {"queue", "batch"} /\ stored[l] = 0
        /\ l \in W => place[l] = "waiting" /\ l \notin R
    BY <1>1 DEF Places
  <2>2. CASE l \in R
    <3>1. new[l] = to
      BY <2>2
    <3> QED  BY <1>1, <2>1, <2>2, <3>1 DEF Places
  <2>3. CASE l \notin R
    <3>1. new[l] = IF l \in W THEN "queue" ELSE place[l]
      BY <2>3
    <3> QED  BY <1>1, <2>1, <2>3, <3>1 DEF Places
  <2> QED  BY <2>2, <2>3
<1>4. PlacesOK'
  <2>1. Places(new)'
    BY <1>3 DEF Places
  <2> QED  BY <1>2, <2>1 DEF PlacesOK
<1>5. AttemptsOK'
  <2> SUFFICES ASSUME NEW l \in Logs
               PROVE  /\ l \in unrecorded' \cup Range(waiting') \cup Range(queue') \cup Range(batch')
                           => attempts'[l] = 0
                      /\ \A i \in DOMAIN pending' :
                           l \in Range(pending'[i].logs) => attempts'[l] = pending'[i].retries
                      /\ l \in dropped' => attempts'[l] \in {0, MaxRetry + 1}
    BY DEF AttemptsOK
  <2>1. /\ l \in unrecorded \cup Range(waiting) \cup Range(queue) \cup Range(batch)
             => attempts[l] = 0
        /\ \A i \in DOMAIN pending :
             l \in Range(pending[i].logs) => attempts[l] = pending[i].retries
        /\ l \in dropped => attempts[l] \in {0, MaxRetry + 1}
    BY DEF IInv, AttemptsOK
  <2>2. l \in R => l \notin unrecorded /\ l \notin Range(waiting) /\ l \notin dropped
    BY <1>1 DEF Places
  <2>3. l \in unrecorded' \cup Range(waiting') \cup Range(queue') \cup Range(batch')
          => attempts'[l] = 0
    <3>1. CASE l \in R
      BY <2>1, <2>2, <3>1
    <3>2. CASE l \notin R
      BY <2>1, <3>2
    <3> QED  BY <3>1, <3>2
  <2>4. \A i \in DOMAIN pending' :
          l \in Range(pending'[i].logs) => attempts'[l] = pending'[i].retries
    BY <2>1
  <2> QED  BY <2>1, <2>2, <2>3, <2>4
<1> QED
  BY <1>4, <1>5

LEMMA FlushStep ==
  ASSUME IInv, worker = "select", Flush(batch), worker' \in {"retry", "last"},
         worker' = "last" => closed /\ queue = <<>>,
         UNCHANGED <<unrecorded, waiting, queue, closed, dropped>>
  PROVE  IInv'
<1>1. PICK place \in [Logs -> Where] : Places(place)
  BY DEF IInv, PlacesOK
<1>2. /\ batch \in Seq(Logs) /\ Range(batch) \subseteq Logs
      /\ \A l \in Range(batch) : /\ ~Pended(l) /\ attempts[l] = 0
                               /\ l \notin Range(queue)
  <2>1. batch \in Seq(Logs) /\ Range(batch) \subseteq Logs
    BY DEF IInv, TypeOK, Range
  <2> QED  BY <1>1, <2>1 DEF IInv, Places, AttemptsOK
<1>3. TypeOK /\ PendingApart /\ OldestFirst(2)
  BY DEF IInv, RetriesOK
<1>4. /\ batch' = <<>>
      /\ pending' \in Seq(Batches) /\ stored' \in [Logs -> Nat] /\ attempts' \in [Logs -> Nat]
      /\ PendingApart' /\ OldestFirst(1)'
      /\ \A l \in Logs \ Range(batch) :
           /\ Pended(l)' <=> Pended(l)
           /\ stored'[l] = stored[l] /\ attempts'[l] = attempts[l]
      /\ \E to \in {"stored", "pending"} : \A l \in Range(batch) :
           /\ Pended(l)' <=> to = "pending"
           /\ stored'[l] = IF to = "stored" THEN stored[l] + 1 ELSE stored[l]
      /\ \A i \in DOMAIN pending' : \A l \in Range(pending'[i].logs) :
           \/ /\ i \in DOMAIN pending /\ pending'[i] = pending[i]
              /\ attempts'[l] = attempts[l]
           \/ attempts'[l] = pending'[i].retries
  BY <1>2, <1>3, FlushMoves
<1>5. PICK to \in {"stored", "pending"} : \A l \in Range(batch) :
           /\ Pended(l)' <=> to = "pending"
           /\ stored'[l] = IF to = "stored" THEN stored[l] + 1 ELSE stored[l]
  BY <1>4
<1>6. PlacesOK' /\ AttemptsOK'
  <2> DEFINE W == {}
             R == Range(batch)
  <2>1. /\ W \in SUBSET Range(waiting)
        /\ R \in SUBSET (Range(queue) \cup Range(batch))
        /\ to \in {"batch", "stored", "pending"} /\ to # "batch"
    OBVIOUS
  <2>2. /\ Range(waiting') = Range(waiting) \ W
        /\ Range(queue') = (Range(queue) \ R) \cup W
        /\ Range(batch') = IF to = "batch" THEN Range(batch) \cup R ELSE Range(batch) \ R
    BY <1>2, <1>4, <2>1, EmptySequence
  <2>3. \A l \in R :
           /\ Pended(l)' <=> to = "pending"
           /\ stored'[l] = IF to = "stored" THEN stored[l] + 1 ELSE stored[l]
           /\ to = "batch" => attempts'[l] = attempts[l]
    BY <1>5, <2>1
  <2>4. \A l \in Logs \ R :
           /\ Pended(l)' <=> Pended(l)
           /\ stored'[l] = stored[l] /\ attempts'[l] = attempts[l]
    BY <1>4
  <2> HIDE DEF W, R
  <2> QED  BY <1>4, <2>1, <2>2, <2>3, <2>4, RecordsMove
<1>7. TypeOK' /\ NoneTwice' /\ RetriesOK' /\ ShutdownOK'
  <2>1. batch' \in Seq(Logs) /\ Len(batch') < BatchSize /\ IsInjective(batch')
    BY <1>4, EmptySequence, AuditQueueAssumption
  <2>2. TypeOK'
    BY <1>4, <2>1 DEF IInv, TypeOK
  <2>3. NoneTwice'
    BY <2>1 DEF IInv, NoneTwice
  <2>4. RetriesOK'
    BY <1>4 DEF RetriesOK, OldestFirst
  <2>5. ShutdownOK'
    BY <1>4 DEF IInv, ShutdownOK
  <2> QED  BY <2>2, <2>3, <2>4, <2>5
<1> QED
  BY <1>4, <1>6, <1>7 DEF IInv

\* What a receive does to the channel: its first record x leaves, and the first
\* blocked sender, if there is one, gets in.
LEMMA ChannelMoves ==
  ASSUME IInv, Receive
  PROVE  \E W \in SUBSET Range(waiting) :
           /\ waiting' \in Seq(Logs) /\ queue' \in Seq(Logs) /\ Len(queue') <= QueueSize
           /\ Range(waiting') = Range(waiting) \ W
           /\ Range(queue') = (Range(queue) \ {Head(queue)}) \cup W
           /\ IsInjective(waiting') /\ IsInjective(queue')
           /\ closed => waiting' = <<>>
<1> DEFINE x == Head(queue)
<1>1. /\ queue \in Seq(Logs) /\ queue # <<>> /\ IsInjective(queue)
      /\ waiting \in Seq(Logs) /\ IsInjective(waiting)
      /\ Len(queue) \in Nat /\ Len(queue) <= QueueSize /\ QueueSize \in Nat
      /\ closed => waiting = <<>>
  BY AuditQueueAssumption DEF IInv, TypeOK, NoneTwice, ShutdownOK, Receive
<1>2. \A l \in Logs : ~(l \in Range(waiting) /\ l \in Range(queue))
  BY DEF IInv, PlacesOK, Places
<1>3. /\ x \in Range(queue)
      /\ Tail(queue) \in Seq(Logs) /\ Len(Tail(queue)) = Len(queue) - 1
      /\ Range(Tail(queue)) = Range(queue) \ {x}
      /\ IsInjective(Tail(queue))
  <2>1. /\ x \in Range(queue)
        /\ Tail(queue) \in Seq(Logs) /\ Len(Tail(queue)) = Len(queue) - 1
        /\ Range(queue) = Range(Tail(queue)) \cup {x}
        /\ IsInjective(Tail(queue)) /\ x \notin Range(Tail(queue))
    BY <1>1, TakingHead
  <2> QED  BY <2>1
<1>4. CASE waiting = <<>>
  <2>1. queue' = Tail(queue) /\ waiting' = waiting
    BY <1>4 DEF Receive
  <2>2. /\ Range(waiting') = Range(waiting) \ {}
        /\ Range(queue') = (Range(queue) \ {x}) \cup {}
        /\ Len(queue') <= QueueSize
    BY <1>1, <1>3, <2>1
  <2>3. {} \in SUBSET Range(waiting)
    OBVIOUS
  <2> QED  BY <1>1, <1>3, <2>1, <2>2, <2>3
<1>5. CASE waiting # <<>>
  <2> DEFINE w == Head(waiting)
  <2>1. queue' = Append(Tail(queue), w) /\ waiting' = Tail(waiting)
    BY <1>5 DEF Receive
  <2>2. /\ w \in Logs /\ w \in Range(waiting)
        /\ Tail(waiting) \in Seq(Logs) /\ IsInjective(Tail(waiting))
        /\ Range(Tail(waiting)) = Range(waiting) \ {w}
    <3>1. /\ w \in Logs /\ w \in Range(waiting)
          /\ Tail(waiting) \in Seq(Logs)
          /\ Range(waiting) = Range(Tail(waiting)) \cup {w}
          /\ IsInjective(Tail(waiting)) /\ w \notin Range(Tail(waiting))
      BY <1>1, <1>5, TakingHead
    <3> QED  BY <3>1
  <2>3. w \notin Range(Tail(queue))
    BY <1>2, <1>3, <2>2
  <2> HIDE DEF w
  <2>4. /\ Append(Tail(queue), w) \in Seq(Logs)
        /\ Range(Append(Tail(queue), w)) = Range(Tail(queue)) \cup {w}
        /\ IsInjective(Append(Tail(queue), w))
    <3>1. PICK rest \in Seq(Logs) : rest = Tail(queue)
      BY <1>3
    <3>2. IsInjective(rest) /\ w \notin Range(rest) /\ w \in Logs
      BY <1>3, <2>2, <2>3, <3>1
    <3>3. /\ Append(rest, w) \in Seq(Logs)
          /\ Range(Append(rest, w)) = Range(rest) \cup {w}
          /\ IsInjective(Append(rest, w))
      BY <3>2, Appending
    <3> QED  BY <3>1, <3>3
  <2>5. Len(queue') <= QueueSize
    <3>1. Len(Append(Tail(queue), w)) = Len(Tail(queue)) + 1
      BY <1>3, <2>2
    <3> QED  BY <1>1, <1>3, <2>1, <3>1
  <2>6. {w} \in SUBSET Range(waiting)
    BY <2>2
  <2>7. ~closed
    BY <1>1, <1>5
  <2> QED  BY <1>3, <2>1, <2>2, <2>4, <2>5, <2>6, <2>7
<1> QED
  BY <1>4, <1>5

LEMMA ReceiveStep ==
  ASSUME IInv, Receive
  PROVE  IInv'
<1> DEFINE x == Head(queue)
           logs == Append(batch, x)
<1>1. PICK place \in [Logs -> Where] : Places(place)
  BY DEF IInv, PlacesOK
<1>2. /\ worker = "select" /\ worker' = "retry"
      /\ UNCHANGED <<unrecorded, closed, dropped>>
      /\ IF BatchFull(logs) THEN Flush(logs)
         ELSE batch' = logs /\ UNCHANGED <<pending, stored, attempts>>
  BY DEF Receive, resultVars
<1>3. PICK W \in SUBSET Range(waiting) :
           /\ waiting' \in Seq(Logs) /\ queue' \in Seq(Logs) /\ Len(queue') <= QueueSize
           /\ Range(waiting') = Range(waiting) \ W
           /\ Range(queue') = (Range(queue) \ {x}) \cup W
           /\ IsInjective(waiting') /\ IsInjective(queue')
           /\ closed => waiting' = <<>>
  BY ChannelMoves
<1>4. x \in Logs /\ x \in Range(queue)
  BY TakingHead DEF Receive, IInv, TypeOK
<1>5. /\ Range(batch) \subseteq Logs /\ batch \in Seq(Logs)
      /\ \A l \in Range(batch) \cup {x} : ~Pended(l) /\ attempts[l] = 0
      /\ \A l \in Range(batch) : l \notin Range(queue)
      /\ x \notin Range(batch)
  <2>1. Range(batch) \subseteq Logs /\ batch \in Seq(Logs)
    BY DEF IInv, TypeOK, Range
  <2> QED  BY <1>1, <1>4, <2>1 DEF IInv, Places, AttemptsOK
<1> HIDE DEF x
<1>6. /\ logs \in Seq(Logs) /\ Range(logs) = Range(batch) \cup {x} /\ IsInjective(logs)
  BY <1>4, <1>5, Appending DEF IInv, NoneTwice
<1> HIDE DEF logs
<1>7. TypeOK /\ PendingApart /\ OldestFirst(2)
  BY <1>2 DEF IInv, RetriesOK
<1>8. CASE BatchFull(logs)
  <2>1. Flush(logs)
    BY <1>2, <1>8
  <2>2. /\ batch' = <<>>
        /\ pending' \in Seq(Batches) /\ stored' \in [Logs -> Nat] /\ attempts' \in [Logs -> Nat]
        /\ PendingApart' /\ OldestFirst(1)'
        /\ \A l \in Logs \ Range(logs) :
             /\ Pended(l)' <=> Pended(l)
             /\ stored'[l] = stored[l] /\ attempts'[l] = attempts[l]
        /\ \E to \in {"stored", "pending"} : \A l \in Range(logs) :
             /\ Pended(l)' <=> to = "pending"
             /\ stored'[l] = IF to = "stored" THEN stored[l] + 1 ELSE stored[l]
        /\ \A i \in DOMAIN pending' : \A l \in Range(pending'[i].logs) :
             \/ /\ i \in DOMAIN pending /\ pending'[i] = pending[i]
                /\ attempts'[l] = attempts[l]
             \/ attempts'[l] = pending'[i].retries
    BY <1>5, <1>6, <1>7, <2>1, FlushMoves
  <2>3. PICK to \in {"stored", "pending"} : \A l \in Range(logs) :
             /\ Pended(l)' <=> to = "pending"
             /\ stored'[l] = IF to = "stored" THEN stored[l] + 1 ELSE stored[l]
    BY <2>2
  <2>4. PlacesOK' /\ AttemptsOK'
    <3> DEFINE R == Range(logs)
    <3>1. /\ R \in SUBSET (Range(queue) \cup Range(batch))
          /\ to \in {"batch", "stored", "pending"} /\ to # "batch"
      BY <1>4, <1>6
    <3>2. /\ Range(queue') = (Range(queue) \ R) \cup W
          /\ Range(batch') = IF to = "batch" THEN Range(batch) \cup R ELSE Range(batch) \ R
      BY <1>3, <1>5, <1>6, <2>2, <3>1, EmptySequence
    <3>3. \A l \in R :
             /\ Pended(l)' <=> to = "pending"
             /\ stored'[l] = IF to = "stored" THEN stored[l] + 1 ELSE stored[l]
             /\ to = "batch" => attempts'[l] = attempts[l]
      BY <2>3, <3>1
    <3>4. \A l \in Logs \ R :
             /\ Pended(l)' <=> Pended(l)
             /\ stored'[l] = stored[l] /\ attempts'[l] = attempts[l]
      BY <2>2
    <3> HIDE DEF R
    <3> QED  BY <1>2, <1>3, <2>2, <3>1, <3>2, <3>3, <3>4, RecordsMove
  <2>5. batch' \in Seq(Logs) /\ Len(batch') < BatchSize /\ IsInjective(batch')
    BY <2>2, EmptySequence, AuditQueueAssumption
  <2>6. TypeOK'
    BY <1>2, <1>3, <2>2, <2>5 DEF IInv, TypeOK
  <2>7. NoneTwice' /\ RetriesOK' /\ ShutdownOK'
    BY <1>2, <1>3, <2>2, <2>5 DEF NoneTwice, RetriesOK, OldestFirst, ShutdownOK
  <2> QED  BY <2>2, <2>4, <2>6, <2>7 DEF IInv
<1>9. CASE ~BatchFull(logs)
  <2>1. batch' = logs /\ UNCHANGED <<pending, stored, attempts>>
    BY <1>2, <1>9
  <2>2. \A l \in Logs : Pended(l)' <=> Pended(l)
    BY <2>1 DEF Pended
  <2>3. PlacesOK' /\ AttemptsOK'
    <3> DEFINE R == {x}
               to == "batch"
    <3>1. /\ R \in SUBSET (Range(queue) \cup Range(batch))
          /\ to \in {"batch", "stored", "pending"} /\ to = "batch"
      BY <1>4
    <3>2. /\ Range(queue') = (Range(queue) \ R) \cup W
          /\ Range(batch') = IF to = "batch" THEN Range(batch) \cup R ELSE Range(batch) \ R
      BY <1>3, <1>6, <2>1
    <3>3. \A l \in R :
             /\ Pended(l)' <=> to = "pending"
             /\ stored'[l] = IF to = "stored" THEN stored[l] + 1 ELSE stored[l]
             /\ to = "batch" => attempts'[l] = attempts[l]
      BY <1>4, <1>5, <2>1, <2>2
    <3>4. \A l \in Logs \ R :
             /\ Pended(l)' <=> Pended(l)
             /\ stored'[l] = stored[l] /\ attempts'[l] = attempts[l]
      BY <2>1, <2>2
    <3>5. \A i \in DOMAIN pending' : \A l \in Range(pending'[i].logs) :
             \/ /\ i \in DOMAIN pending /\ pending'[i] = pending[i]
                /\ attempts'[l] = attempts[l]
             \/ attempts'[l] = pending'[i].retries
      BY <2>1
    <3> HIDE DEF R, to
    <3> QED  BY <1>2, <1>3, <3>1, <3>2, <3>3, <3>4, <3>5, RecordsMove
  <2>4. Len(logs) < BatchSize
    BY <1>6, <1>9, AuditQueueAssumption DEF BatchFull
  <2>5. TypeOK'
    BY <1>2, <1>3, <1>6, <2>1, <2>4 DEF IInv, TypeOK
  <2>6. NoneTwice' /\ ShutdownOK'
    BY <1>2, <1>3, <1>6, <2>1 DEF NoneTwice, ShutdownOK
  <2>7. PendingApart'
    BY <2>1 DEF IInv, PendingApart
  <2>8. RetriesOK'
    <3>1. \A i \in DOMAIN pending : pending[i].retries >= Len(pending) - i + 2
      BY <1>7 DEF OldestFirst
    <3>2. \A i \in DOMAIN pending : pending[i].retries \in Nat /\ Len(pending) \in Nat /\ i \in Nat
      <4>1. pending \in Seq(Batches) /\ \A b \in Batches : b.retries \in Nat
        BY AuditQueueAssumption DEF IInv, TypeOK, Batches
      <4> QED  BY <4>1
    <3>3. \A i \in DOMAIN pending : pending[i].retries >= Len(pending) - i + 1
      BY <3>1, <3>2
    <3> QED  BY <1>2, <2>1, <3>3 DEF RetriesOK, OldestFirst
  <2> QED  BY <2>3, <2>5, <2>6, <2>7, <2>8 DEF IInv
<1> QED
  BY <1>8, <1>9

\* A round of retries: what was inserted leaves the pending batches, what failed
\* is kept with one retry more or given up.
LEMMA RetryMoves ==
  ASSUME IInv, NEW failed \in SUBSET Range(pending), pending' \in Remaining(failed)
  PROVE  /\ pending' \in Seq(Batches)
         /\ PendingApart' /\ OldestFirst(2)'
         /\ \A l \in Logs : ~Pended(l) => ~Pended(l)'
         /\ \A i \in DOMAIN pending : \A l \in Range(pending[i].logs) :
              /\ l \in Logs
              /\ Pended(l)' <=> pending[i] \in failed /\ MayRetry(pending[i])
              /\ \A n \in DOMAIN pending' : l \in Range(pending'[n].logs)
                   => pending'[n].retries = pending[i].retries + 1
<1> DEFINE m == Len(pending)
           I == {i \in DOMAIN pending : pending[i] \in failed /\ MayRetry(pending[i])}
           c == Cardinality(I)
<1>1. /\ pending \in Seq(Batches) /\ m \in Nat /\ DOMAIN pending = 1..m
      /\ MaxRetry \in Nat \ {0}
  BY AuditQueueAssumption DEF IInv, TypeOK
<1>2. ASSUME NEW i \in 1..m
      PROVE  /\ pending[i].retries \in 1..MaxRetry
             /\ pending[i].logs \in Seq(Logs)
             /\ Range(pending[i].logs) \subseteq Logs
             /\ pending[i].retries >= m - i + 1
  <2>1. pending[i] \in Batches
    BY <1>1
  <2>2. pending[i].logs \in Seq(Logs) /\ pending[i].retries \in 1..MaxRetry
    BY <2>1 DEF Batches
  <2>3. pending[i].retries >= m - i + (IF worker \in {"select", "done"} THEN 2 ELSE 1)
    BY <1>1 DEF IInv, RetriesOK, OldestFirst
  <2>4. pending[i].retries >= m - i + 1
    BY <1>1, <2>2, <2>3
  <2> QED  BY <2>2, <2>4 DEF Range
<1>3. PICK f \in Ascending(I) :
        pending' = [n \in DOMAIN f |-> [pending[f[n]] EXCEPT !.retries = @ + 1]]
  BY DEF Remaining, Keeping
<1>4. I \in SUBSET (1..m)
  BY <1>1
<1> HIDE DEF I
<1>5. /\ c \in Nat
      /\ f \in [1..c -> I]
      /\ Range(f) = I
      /\ \A n \in 1..c : m - f[n] >= c - n
      /\ \A n, o \in 1..c : f[n] = f[o] => n = o
  BY <1>1, <1>4, AscendingRoom
<1> HIDE DEF c, m
<1>6. ASSUME NEW n \in 1..c
      PROVE  /\ f[n] \in 1..m /\ f[n] \in I
             /\ pending'[n] \in Batches
             /\ pending'[n].logs = pending[f[n]].logs
             /\ pending'[n].retries = pending[f[n]].retries + 1
  <2>1. f[n] \in I /\ f[n] \in 1..m
    BY <1>4, <1>5
  <2>2. pending[f[n]] \in Batches /\ pending[f[n]].retries < MaxRetry
    BY <1>1, <2>1 DEF I, MayRetry, m
  <2>3. pending'[n] = [pending[f[n]] EXCEPT !.retries = @ + 1]
    BY <1>3, <1>5
  <2>4. pending[f[n]].retries + 1 \in 1..MaxRetry
    BY <1>1, <2>2 DEF Batches
  <2> QED  BY <2>1, <2>2, <2>3, <2>4 DEF Batches
<1>7. DOMAIN pending' = 1..c /\ Len(pending') = c /\ pending' \in Seq(Batches)
  <2>1. pending' = [n \in 1..c |-> pending'[n]]
    BY <1>3, <1>5
  <2>2. pending' \in [1..c -> Batches]
    BY <1>6, <2>1
  <2> QED  BY <1>5, <2>2
<1>8. PendingApart'
  <2>1. ASSUME NEW n \in 1..c, NEW o \in 1..c, NEW l \in Logs,
               l \in Range(pending'[n].logs), l \in Range(pending'[o].logs)
        PROVE  n = o
    <3>1. f[n] = f[o]
      BY <1>1, <1>6, <2>1 DEF IInv, PendingApart
    <3> QED  BY <1>5, <3>1
  <2> QED  BY <1>7, <2>1 DEF PendingApart
<1>9. OldestFirst(2)'
  <2>1. ASSUME NEW n \in 1..c PROVE pending'[n].retries >= c - n + 2
    <3>1. /\ f[n] \in 1..m /\ pending'[n].retries = pending[f[n]].retries + 1
          /\ pending[f[n]].retries >= m - f[n] + 1
          /\ pending[f[n]].retries \in 1..MaxRetry
      BY <1>2, <1>6
    <3>2. m - f[n] >= c - n /\ m \in Nat /\ c \in Nat
      BY <1>1, <1>5
    <3> QED  BY <1>1, <3>1, <3>2
  <2> QED  BY <1>7, <2>1 DEF OldestFirst
<1>10. ASSUME NEW l \in Logs, ~Pended(l) PROVE ~Pended(l)'
  BY <1>1, <1>6, <1>7, <1>10 DEF Pended
<1>11. ASSUME NEW i \in DOMAIN pending, NEW l \in Range(pending[i].logs)
       PROVE  /\ l \in Logs
              /\ Pended(l)' <=> pending[i] \in failed /\ MayRetry(pending[i])
              /\ \A n \in DOMAIN pending' : l \in Range(pending'[n].logs)
                   => pending'[n].retries = pending[i].retries + 1
  <2>1. l \in Logs
    BY <1>1, <1>2, <1>11
  <2>2. \A n \in 1..c : l \in Range(pending'[n].logs) => f[n] = i
    BY <1>1, <1>6, <1>11, <2>1 DEF IInv, PendingApart
  <2>3. Pended(l)' <=> i \in I
    <3>1. ASSUME Pended(l)' PROVE i \in I
      <4>1. PICK n \in 1..c : l \in Range(pending'[n].logs)
        BY <1>7, <3>1 DEF Pended
      <4> QED  BY <1>6, <2>2, <4>1
    <3>2. ASSUME i \in I PROVE Pended(l)'
      <4>1. PICK n \in 1..c : f[n] = i
        BY <1>5, <3>2 DEF Range
      <4> QED  BY <1>6, <1>7, <1>11, <4>1 DEF Pended
    <3> QED  BY <3>1, <3>2
  <2>4. i \in I <=> pending[i] \in failed /\ MayRetry(pending[i])
    BY <1>11 DEF I
  <2>5. \A n \in 1..c : l \in Range(pending'[n].logs) => pending'[n].retries = pending[i].retries + 1
    BY <1>6, <2>2
  <2> QED  BY <1>7, <2>1, <2>3, <2>4, <2>5
<1> QED
  BY <1>7, <1>8, <1>9, <1>10, <1>11

LEMMA RetryStep ==
  ASSUME IInv, RetryPending, worker' \in {"select", "done"},
         worker' = "done" => worker = "last",
         UNCHANGED <<unrecorded, waiting, queue, closed, batch>>
  PROVE  IInv'
<1> DEFINE Inserted(failed) == LogsOf(Range(pending) \ failed)
           GivenUp(failed) == LogsOf({p \in failed : ~MayRetry(p)})
<1>1. PICK failed \in SUBSET Range(pending) :
        /\ pending' \in Remaining(failed)
        /\ Store(Inserted(failed))
        /\ Fail(LogsOf(failed))
        /\ dropped' = dropped \cup GivenUp(failed)
  BY DEF RetryPending
<1>2. /\ pending' \in Seq(Batches)
      /\ PendingApart' /\ OldestFirst(2)'
      /\ \A l \in Logs : ~Pended(l) => ~Pended(l)'
      /\ \A i \in DOMAIN pending : \A l \in Range(pending[i].logs) :
           /\ l \in Logs
           /\ Pended(l)' <=> pending[i] \in failed /\ MayRetry(pending[i])
           /\ \A n \in DOMAIN pending' : l \in Range(pending'[n].logs)
                => pending'[n].retries = pending[i].retries + 1
  BY <1>1, RetryMoves
<1>3. PICK place \in [Logs -> Where] : Places(place)
  BY DEF IInv, PlacesOK
<1>4. /\ stored \in [Logs -> Nat] /\ attempts \in [Logs -> Nat] /\ dropped \subseteq Logs
      /\ MaxRetry \in Nat
      /\ \A p \in Range(pending) : p.retries \in 1..MaxRetry /\ Range(p.logs) \subseteq Logs
  <2>1. \A p \in Range(pending) : p \in Batches
    BY DEF IInv, TypeOK, Range
  <2>2. \A p \in Batches : p.retries \in 1..MaxRetry /\ p.logs \in Seq(Logs)
    BY DEF Batches
  <2> QED  BY <2>1, <2>2, AuditQueueAssumption DEF IInv, TypeOK, Range
<1>5. /\ stored' = [l \in Logs |-> IF l \in Inserted(failed) THEN stored[l] + 1 ELSE stored[l]]
      /\ attempts' = [l \in Logs |-> IF l \in LogsOf(failed) THEN attempts[l] + 1 ELSE attempts[l]]
  BY <1>1 DEF Store, Fail
<1>6. ASSUME NEW l \in Logs, ~Pended(l)
      PROVE  /\ ~Pended(l)'
             /\ stored'[l] = stored[l] /\ attempts'[l] = attempts[l]
             /\ l \in dropped' <=> l \in dropped
  <2>1. \A p \in Range(pending) : l \notin Range(p.logs)
    BY <1>6 DEF Pended, Range
  <2>2. l \notin Inserted(failed) /\ l \notin LogsOf(failed) /\ l \notin GivenUp(failed)
    BY <2>1 DEF LogsOf
  <2> HIDE DEF Inserted, GivenUp
  <2> QED  BY <1>1, <1>2, <1>5, <1>6, <2>2
<1>7. ASSUME NEW i \in DOMAIN pending, NEW l \in Logs, l \in Range(pending[i].logs)
      PROVE  /\ Pended(l)' <=> pending[i] \in failed /\ MayRetry(pending[i])
             /\ stored'[l] = IF pending[i] \in failed THEN 0 ELSE 1
             /\ pending[i] \in failed => attempts'[l] = pending[i].retries + 1
             /\ l \in dropped' <=> pending[i] \in failed /\ ~MayRetry(pending[i])
  <2>1. \A p \in Range(pending) : l \in Range(p.logs) <=> p = pending[i]
    BY <1>7 DEF IInv, PendingApart, Range
  <2>2. pending[i] \in Range(pending)
    BY <1>7 DEF Range
  <2>3. /\ l \in Inserted(failed) <=> pending[i] \notin failed
        /\ l \in LogsOf(failed) <=> pending[i] \in failed
        /\ l \in GivenUp(failed) <=> pending[i] \in failed /\ ~MayRetry(pending[i])
    BY <2>1, <2>2 DEF LogsOf
  <2>4. stored[l] = 0 /\ l \notin dropped /\ attempts[l] = pending[i].retries
    BY <1>3, <1>7 DEF Places, Pended, IInv, AttemptsOK
  <2> HIDE DEF Inserted, GivenUp
  <2> QED  BY <1>1, <1>2, <1>5, <1>7, <2>3, <2>4
<1>8. PlacesOK'
  <2> DEFINE moved == [l \in Logs |-> IF place[l] # "pending" THEN place[l]
                                     ELSE IF stored'[l] = 1 THEN "stored"
                                     ELSE IF l \in dropped' THEN "dropped" ELSE "pending"]
  <2>1. PICK new \in [Logs -> Where] : new = moved
    <3>1. moved \in [Logs -> Where]
      BY DEF Where
    <3> QED  BY <3>1
  <2>2. ASSUME NEW l \in Logs
        PROVE  /\ l \in unrecorded' <=> new[l] = "unrecorded"
               /\ l \in Range(waiting') <=> new[l] = "waiting"
               /\ l \in Range(queue') <=> new[l] = "queue"
               /\ l \in Range(batch') <=> new[l] = "batch"
               /\ Pended(l)' <=> new[l] = "pending"
               /\ l \in dropped' <=> new[l] = "dropped"
               /\ stored'[l] = IF new[l] = "stored" THEN 1 ELSE 0
    <3>1. CASE Pended(l)
      <4>1. PICK i \in DOMAIN pending : l \in Range(pending[i].logs)
        BY <3>1 DEF Pended
      <4>2. new[l] = IF stored'[l] = 1 THEN "stored" ELSE IF l \in dropped' THEN "dropped" ELSE "pending"
        BY <1>3, <2>1, <3>1 DEF Places
      <4>3. /\ l \notin unrecorded' /\ l \notin Range(waiting')
            /\ l \notin Range(queue') /\ l \notin Range(batch')
        BY <1>3, <3>1 DEF Places
      <4> QED  BY <1>7, <4>1, <4>2, <4>3
    <3>2. CASE ~Pended(l)
      <4>1. place[l] # "pending" /\ new[l] = place[l]
        BY <1>3, <2>1, <3>2 DEF Places
      <4> QED  BY <1>3, <1>6, <3>2, <4>1 DEF Places
    <3> QED  BY <3>1, <3>2
  <2>3. Places(new)'
    BY <2>2 DEF Places
  <2> QED  BY <2>1, <2>3 DEF PlacesOK
<1>9. AttemptsOK'
  <2> SUFFICES ASSUME NEW l \in Logs
               PROVE  /\ l \in unrecorded \cup Range(waiting) \cup Range(queue) \cup Range(batch)
                           => attempts'[l] = 0
                      /\ \A n \in DOMAIN pending' :
                           l \in Range(pending'[n].logs) => attempts'[l] = pending'[n].retries
                      /\ l \in dropped' => attempts'[l] \in {0, MaxRetry + 1}
    BY DEF AttemptsOK
  <2>1. CASE Pended(l)
    <3>1. PICK i \in DOMAIN pending : l \in Range(pending[i].logs)
      BY <2>1 DEF Pended
    <3>2. l \notin unrecorded \cup Range(waiting) \cup Range(queue) \cup Range(batch)
      BY <1>3, <2>1 DEF Places
    <3>3. ASSUME NEW n \in DOMAIN pending', l \in Range(pending'[n].logs)
          PROVE  attempts'[l] = pending'[n].retries
      <4>1. Pended(l)'
        BY <3>3 DEF Pended
      <4>2. pending'[n].retries = pending[i].retries + 1
        BY <1>2, <3>1, <3>3
      <4> QED  BY <1>7, <3>1, <4>1, <4>2
    <3>4. ASSUME l \in dropped' PROVE attempts'[l] = MaxRetry + 1
      <4>1. pending[i] \in failed /\ ~MayRetry(pending[i])
        BY <1>7, <3>1, <3>4
      <4>2. pending[i].retries \in 1..MaxRetry /\ ~(pending[i].retries < MaxRetry)
        BY <1>4, <4>1 DEF MayRetry
      <4>3. pending[i].retries = MaxRetry
        BY <1>4, <4>2
      <4> QED  BY <1>7, <3>1, <4>1, <4>3
    <3> QED  BY <3>2, <3>3, <3>4
  <2>2. CASE ~Pended(l)
    <3>1. \A n \in DOMAIN pending' : l \notin Range(pending'[n].logs)
      BY <1>6, <2>2 DEF Pended
    <3> QED  BY <1>6, <2>2, <3>1 DEF IInv, AttemptsOK
  <2> QED  BY <2>1, <2>2
<1>10. TypeOK'
  <2>1. stored' \in [Logs -> Nat] /\ attempts' \in [Logs -> Nat]
    BY <1>4, <1>5
  <2>2. dropped' \subseteq Logs
    BY <1>1, <1>4 DEF LogsOf
  <2> QED  BY <1>2, <2>1, <2>2 DEF IInv, TypeOK
<1>11. NoneTwice' /\ ShutdownOK'
  BY DEF IInv, NoneTwice, ShutdownOK
<1>12. RetriesOK'
  BY <1>2 DEF RetriesOK, OldestFirst
<1> QED
  BY <1>2, <1>8, <1>9, <1>10, <1>11, <1>12 DEF IInv

\* The inductive invariant holds in every reachable state.
THEOREM InductiveInvariant == Spec => []IInv
<1>1. IInv /\ [Next]_vars => IInv'
  <2> SUFFICES ASSUME IInv, [Next]_vars PROVE IInv'
    OBVIOUS
  <2>1. ASSUME NEW l \in Logs, Record(l) \/ EnqueueTimeout(l) PROVE IInv'
    BY <2>1, RecordStep, EnqueueTimeoutStep
  <2>2. CASE Close
    BY <2>2, CloseStep
  <2>3. CASE Retry \/ Stop
    BY <2>3, RetryStep DEF Retry, Stop, producerVars
  <2>4. CASE Receive
    BY <2>4, ReceiveStep
  <2>5. CASE TickerFires \/ Drained
    BY <2>5, FlushStep DEF TickerFires, Drained, producerVars
  <2>6. CASE UNCHANGED vars
    <3>1. \A l \in Logs : Pended(l)' <=> Pended(l)
      BY <2>6 DEF vars, Pended
    <3>2. PlacesOK'
      BY <2>6, <3>1 DEF vars, IInv, PlacesOK, Places
    <3>3. TypeOK' /\ NoneTwice' /\ PendingApart' /\ ShutdownOK'
      BY <2>6 DEF vars, IInv, TypeOK, NoneTwice, PendingApart, ShutdownOK
    <3>4. AttemptsOK' /\ RetriesOK'
      BY <2>6 DEF vars, IInv, AttemptsOK, RetriesOK, OldestFirst
    <3> QED  BY <3>2, <3>3, <3>4 DEF IInv
  <2> QED  BY <2>1, <2>2, <2>3, <2>4, <2>5, <2>6 DEF Next, WorkerStep
<1> QED
  BY InitIInv, <1>1, PTL DEF Spec

-----------------------------------------------------------------------------
(* Theorems *)

\* All variables keep their types: the channel never holds more than its size
\* (audit.go Record, flushLoop).
THEOREM TypeCorrect == Spec => []TypeOK
BY InductiveInvariant, PTL DEF IInv

\* How often a record is among the failed batches.
LEMMA RetriedOnce ==
  ASSUME IInv, NEW l \in Logs
  PROVE  Retried(l) = IF Pended(l) THEN 1 ELSE 0
<1> DEFINE I == {i \in DOMAIN pending : l \in Range(pending[i].logs)}
<1>1. CASE Pended(l)
  <2>1. PICK i \in DOMAIN pending : l \in Range(pending[i].logs)
    BY <1>1 DEF Pended
  <2>2. I = {i}
    BY <2>1 DEF IInv, PendingApart
  <2> QED  BY <1>1, <2>2, FS_Singleton DEF Retried
<1>2. CASE ~Pended(l)
  <2>1. I = {}
    BY <1>2 DEF Pended
  <2> QED  BY <1>2, <2>1, FS_EmptySet DEF Retried
<1> QED
  BY <1>1, <1>2

\* However senders, timeouts, Close, failing inserts and retries interleave, a
\* record is never lost on its way and never stored twice (audit.go flushLoop:
\* flush gives its slice away before the insert, retryPending keeps what failed).
THEOREM NeitherLostNorDoubled == Spec => []InOnePlace
<1>1. IInv => InOnePlace
  <2> SUFFICES ASSUME IInv, NEW l \in Logs
               PROVE  (IF l \in unrecorded THEN 1 ELSE 0) + Times(l, waiting) + Times(l, queue)
                      + Times(l, batch) + Retried(l) + stored[l]
                      + (IF l \in dropped THEN 1 ELSE 0) = 1
    BY DEF InOnePlace
  <2>1. PICK place \in [Logs -> Where] : Places(place)
    BY DEF IInv, PlacesOK
  <2>2. /\ Times(l, waiting) = IF place[l] = "waiting" THEN 1 ELSE 0
        /\ Times(l, queue) = IF place[l] = "queue" THEN 1 ELSE 0
        /\ Times(l, batch) = IF place[l] = "batch" THEN 1 ELSE 0
    BY <2>1, TimesOnce DEF IInv, NoneTwice, Places
  <2>3. Retried(l) = IF place[l] = "pending" THEN 1 ELSE 0
    BY <2>1, RetriedOnce DEF Places
  <2>4. /\ l \in unrecorded <=> place[l] = "unrecorded"
        /\ l \in dropped <=> place[l] = "dropped"
        /\ stored[l] = IF place[l] = "stored" THEN 1 ELSE 0
        /\ place[l] \in Where
    BY <2>1 DEF Places
  <2> QED  BY <2>2, <2>3, <2>4 DEF Where
<1> QED
  BY <1>1, InductiveInvariant, PTL

\* A database that stays down piles up no more batches than there are retries
\* (audit.go auditMaxRetry): before every batch that fails there is a round that
\* retries the older ones.
THEOREM MemoryBounded == Spec => []PendingBounded
<1>1. IInv => PendingBounded
  <2> SUFFICES ASSUME IInv, ~(Len(pending) <= MaxRetry) PROVE FALSE
    BY DEF PendingBounded
  <2>1. pending \in Seq(Batches) /\ MaxRetry \in Nat
    BY AuditQueueAssumption DEF IInv, TypeOK
  <2>2. Len(pending) \in Nat /\ 1 \in DOMAIN pending /\ pending[1] \in Batches
    BY <2>1
  <2>3. pending[1].retries \in 1..MaxRetry
    BY <2>2 DEF Batches
  <2>4. pending[1].retries >= Len(pending) - 1 + (IF worker \in {"select", "done"} THEN 2 ELSE 1)
    BY <2>2 DEF IInv, RetriesOK, OldestFirst
  <2> QED  BY <2>1, <2>2, <2>3, <2>4
<1> QED
  BY <1>1, InductiveInvariant, PTL

\* The worker gives up no record before its last attempt, and none at shutdown
\* before a second one (audit.go flushLoop, retryPending).
THEOREM NotGivenUpEarly == Spec => []GivenUpAfterAttempts
<1>1. IInv => GivenUpAfterAttempts
  <2> SUFFICES ASSUME IInv, NEW l \in Logs, Accepted(l), stored[l] = 0
               PROVE  /\ l \in dropped => attempts[l] = MaxRetry + 1
                      /\ worker = "done" => attempts[l] >= 2
    BY DEF GivenUpAfterAttempts
  <2>1. PICK place \in [Logs -> Where] : Places(place)
    BY DEF IInv, PlacesOK
  <2>2. MaxRetry \in Nat \ {0} /\ attempts[l] \in Nat
    BY AuditQueueAssumption DEF IInv, TypeOK
  <2>3. l \in dropped => attempts[l] = MaxRetry + 1
    BY <2>2 DEF Accepted, IInv, AttemptsOK
  <2>4. ASSUME worker = "done", l \notin dropped PROVE attempts[l] >= 2
    <3>1. l \notin Range(queue) /\ l \notin Range(batch)
      BY <2>4, EmptySequence DEF IInv, ShutdownOK
    <3>2. Pended(l)
      BY <2>1, <2>4, <3>1 DEF Places, Where, Accepted
    <3>3. PICK i \in DOMAIN pending : l \in Range(pending[i].logs)
      BY <3>2 DEF Pended
    <3>4. attempts[l] = pending[i].retries
      BY <3>3 DEF IInv, AttemptsOK
    <3>5. pending[i].retries >= Len(pending) - i + 2
      BY <2>4, <3>3 DEF IInv, RetriesOK, OldestFirst
    <3>6. Len(pending) \in Nat /\ i \in 1..Len(pending)
      BY <3>3 DEF IInv, TypeOK
    <3> QED  BY <2>2, <3>4, <3>5, <3>6
  <2> QED  BY <2>2, <2>3, <2>4
<1> QED
  BY <1>1, InductiveInvariant, PTL
=============================================================================
