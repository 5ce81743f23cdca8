----------------------------- MODULE MCComposer -----------------------------
(***************************************************************************)
(* Instances of Composer for TLC.                                          *)
(***************************************************************************)
EXTENDS Composer
=============================================================================
