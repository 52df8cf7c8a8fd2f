----------------------------- MODULE MCOAuthCodes -----------------------------
(***************************************************************************)
(* Model-checking instance of OAuthCodes.                                  *)
(***************************************************************************)
EXTENDS OAuthCodes, TLC

Symmetry == Permutations(Apps) \cup Permutations(Codes) \cup Permutations(Requests)
=============================================================================
