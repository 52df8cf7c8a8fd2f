------------------------------ MODULE MCDirectory ------------------------------
(***************************************************************************)
(* Model-checking instance of Directory.                                   *)
(***************************************************************************)
EXTENDS Directory, TLC

Symmetry ==
  Permutations(Statements) \cup Permutations(Policies) \cup Permutations(Principals)
    \cup Permutations(Admins)
=============================================================================
