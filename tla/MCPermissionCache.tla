--------------------------- MODULE MCPermissionCache ---------------------------
(***************************************************************************)
(* Model-checking instance of PermissionCache.  No symmetry: one run       *)
(* checks liveness.                                                        *)
(***************************************************************************)
EXTENDS PermissionCache
=============================================================================
