---------------------------- MODULE MCModelGate ----------------------------
(***************************************************************************)
(* A small instance of ModelGate for TLC.                                  *)
(***************************************************************************)
EXTENDS ModelGate
=============================================================================
