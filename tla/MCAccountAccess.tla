---------------------------- MODULE MCAccountAccess ----------------------------
(***************************************************************************)
(* Model-checking instance of AccountAccess.  No symmetry: the run checks  *)
(* liveness.                                                               *)
(***************************************************************************)
EXTENDS AccountAccess
=============================================================================
