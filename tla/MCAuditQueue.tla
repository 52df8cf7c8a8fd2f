----------------------------- MODULE MCAuditQueue -----------------------------
(***************************************************************************)
(* Model-checking instance of AuditQueue.  No symmetry: the runs check     *)
(* liveness.                                                               *)
(***************************************************************************)
EXTENDS AuditQueue
=============================================================================
