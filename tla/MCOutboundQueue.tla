-------------------------- MODULE MCOutboundQueue --------------------------
(***************************************************************************)
(* Instances of OutboundQueue for TLC.  All constants come from the cfgs.  *)
(***************************************************************************)
EXTENDS OutboundQueue, TLC

\* The jobs of one submission differ only in being local or not.
Symmetry == Permutations(Workers)
=============================================================================
