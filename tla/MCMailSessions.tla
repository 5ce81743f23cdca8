--------------------------- MODULE MCMailSessions ---------------------------
(***************************************************************************)
(* Two connections to a mailbox that starts with two messages.             *)
(***************************************************************************)
EXTENDS MailSessions

CONSTANTS s1, s2, m1, m2

MCArrived == <<m1, m2>>

\* A search that finds one message.
MCCriteria == {[text |-> {m2}, flag |-> BOOLEAN]}

\* The connections differ in nothing.
Symmetry == Permutations(Sessions)
=============================================================================
