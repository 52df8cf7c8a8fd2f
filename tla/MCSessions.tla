------------------------------ MODULE MCSessions ------------------------------
(***************************************************************************)
(* Model-checking instance of Sessions: model values for accounts, tokens  *)
(* and requests, interchangeable among themselves.                         *)
(***************************************************************************)
EXTENDS Sessions, TLC

Symmetry ==
  Permutations(Accounts) \cup Permutations(Tokens) \cup Permutations(Requests)

\* Bound: behaviours are followed across a Tick only when no request is under
\* way; MCSessionsReplay has the others.
QuietTicks == now > 0 => \A q \in Requests : At(q, "idle")
=============================================================================
