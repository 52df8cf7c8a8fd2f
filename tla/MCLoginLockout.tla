---------------------------- MODULE MCLoginLockout ----------------------------
(***************************************************************************)
(* Model-checking instance of LoginLockout: interchangeable requests.      *)
(***************************************************************************)
EXTENDS LoginLockout, TLC

Symmetry == Permutations(Requests)
=============================================================================
