-------------------------- MODULE MCSharedBreaker --------------------------
(***************************************************************************)
(* Small instances of SharedBreaker for TLC.                               *)
(***************************************************************************)
EXTENDS SharedBreaker
=============================================================================
