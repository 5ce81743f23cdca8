---------------------------- MODULE MCMailEvents ----------------------------
(***************************************************************************)
(* Instances of MailEvents for TLC.                                        *)
(***************************************************************************)
EXTENDS MailEvents
=============================================================================
