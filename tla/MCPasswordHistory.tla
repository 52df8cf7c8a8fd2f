--------------------------- MODULE MCPasswordHistory ---------------------------
(***************************************************************************)
(* Model-checking instance of PasswordHistory.                             *)
(***************************************************************************)
EXTENDS PasswordHistory, TLC

Symmetry == Permutations(Passwords) \cup Permutations(Changes)
=============================================================================
