-------------------------- MODULE MCSessionsHistory --------------------------
(***************************************************************************)
(* Model-checking instance of SessionsHistory.                             *)
(***************************************************************************)
EXTENDS SessionsHistory, TLC

Symmetry ==
  Permutations(Accounts) \cup Permutations(Tokens) \cup Permutations(Requests)
=============================================================================
