-------------------------- MODULE MCSecureDelivery --------------------------
(***************************************************************************)
(* One worker and one message to a destination that changes its records.   *)
(***************************************************************************)
EXTENDS SecureDelivery

Nowhere == [tlsa |-> "none", sts |-> "none", mx |-> {}, age |-> 0,
            cert |-> "other"]

Listed(mode, hs, age, cert) ==
    [tlsa |-> "none", sts |-> mode, mx |-> hs, age |-> age, cert |-> cert]

MCSites ==
    {Nowhere,
     Listed("testing", {1}, 0, "other"),
     Listed("enforce", {1}, 8, "trusted"),
     Listed("enforce", {2}, 1000, "plain"),
     [Nowhere EXCEPT !.tlsa = "unsigned"],
     [Listed("enforce", {1}, 8, "named") EXCEPT !.tlsa = "signed"]}
=============================================================================
