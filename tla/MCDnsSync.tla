----------------------------- MODULE MCDnsSync -----------------------------
(***************************************************************************)
(* Instances of DnsSync for TLC: the address of the mail host, which one   *)
(* record may hold, and the BIMI record, which is not always wanted.       *)
(***************************************************************************)
EXTENDS DnsSync

MCNames  == {"host", "bimi"}
MCWanted == [n \in MCNames |-> IF n = "host" THEN {"ip"}
                               ELSE {None, "logo", "logo+vmc"}]
=============================================================================
