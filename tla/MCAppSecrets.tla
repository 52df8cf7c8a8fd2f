------------------------------ MODULE MCAppSecrets ------------------------------
(***************************************************************************)
(* Model-checking instance of AppSecrets.                                  *)
(***************************************************************************)
EXTENDS AppSecrets
=============================================================================
