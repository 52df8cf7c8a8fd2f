----------------------------- MODULE MCGlobMatch -----------------------------
(***************************************************************************)
(* Model-checking instance of GlobMatch: every pattern of up to MaxParts   *)
(* short parts against every subject of up to four symbols.                *)
(***************************************************************************)
EXTENDS GlobMatch, SequencesExt

Short == BoundedSeq({"a", "b"}, 2)
Subject == BoundedSeq({"a", "b"}, 4)
=============================================================================
