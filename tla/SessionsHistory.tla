---------------------------- MODULE SessionsHistory ----------------------------
(***************************************************************************)
(* Sessions with history variables for replay detection: how many replays  *)
(* were detected, and whether one could not be counted.  Every step is a   *)
(* step of Sessions; the history only records it.                          *)
(***************************************************************************)
EXTENDS Sessions

VARIABLES
  detections,  \* detections[a]: replays detected, counted up to the threshold
  counterLost  \* some detection could not read its count: a cache call failed, or
               \* the key expired between Expire and Get

historyVars == <<detections, counterLost>>

HistoryInit ==
  /\ detections = [a \in Accounts |-> 0]
  /\ counterLost = FALSE

\* q goes from one of the steps in S to the step pc.
Moves(q, S, pc) == request[q].pc \in S /\ request'[q].pc = pc

Detects(q) == Moves(q, {"find", "consume"}, "count")

\* q decides to revoke without a count.
Guesses(q) ==
  \/ Moves(q, {"count", "window", "decide"}, "fallback")
  \/ Moves(q, {"decide"}, "revoke") /\ reuse[request[q].acct].n = 0

HistoryNext ==
  /\ detections' = [a \in Accounts |->
       IF /\ detections[a] < reuseGraceThreshold
          /\ \E q \in Requests : Detects(q) /\ request[q].acct = a
       THEN detections[a] + 1 ELSE detections[a]]
  /\ counterLost' = (counterLost \/ \E q \in Requests : Guesses(q))

HistorySpec ==
  Init /\ HistoryInit /\ [][Next /\ HistoryNext]_<<vars, historyVars>>

-----------------------------------------------------------------------------
\* One detection never ends the other sessions of the account as long as the
\* counter can be read back: a row is revoked for reuse only after two
\* (auth.go:359-363, 596-598).
ReuseNeedsTwoDetections ==
  \A t \in Tokens :
    row[t] = "reuse" =>
      counterLost \/ detections[owner[t]] >= reuseGraceThreshold
=============================================================================
