----------------------------- MODULE SessionSpec -----------------------------
(***************************************************************************)
(* What the refresh-token store promises its callers, without rows, tokens *)
(* or requests: a session is started once, by a login or a registration,   *)
(* stays active while its refresh token is rotated, and once ended (logout,*)
(* password change, disabled or deleted account, replay detection, purge   *)
(* of an expired row) it stays ended.  Any number of sessions may end in   *)
(* one step, because account-wide revocation is one statement.             *)
(***************************************************************************)
CONSTANT Sessions

VARIABLE session

States == {"none", "active", "ended"}

TypeOK == session \in [Sessions -> States]

Init == session = [s \in Sessions |-> "none"]

Start(s) ==
  /\ session[s] = "none"
  /\ session' = [session EXCEPT ![s] = "active"]

End(S) ==
  /\ S # {}
  /\ \A s \in S : session[s] = "active"
  /\ session' = [s \in Sessions |-> IF s \in S THEN "ended" ELSE session[s]]

Next ==
  \/ \E s \in Sessions : Start(s)
  \/ \E S \in SUBSET Sessions : End(S)

Spec == Init /\ [][Next]_session
=============================================================================
