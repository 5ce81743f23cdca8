--------------------------- MODULE MCTlsaRollover ---------------------------
(***************************************************************************)
(* The instance of TlsaRollover for TLC; its constants are in the cfg.     *)
(***************************************************************************)
EXTENDS TlsaRollover
=============================================================================
