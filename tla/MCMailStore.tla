---------------------------- MODULE MCMailStore ----------------------------
(***************************************************************************)
(* Instances of MailStore for TLC.  All constants come from the cfgs.      *)
(***************************************************************************)
EXTENDS MailStore, TLC

Symmetry == Permutations(Messages)
=============================================================================
