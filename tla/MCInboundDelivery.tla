------------------------- MODULE MCInboundDelivery -------------------------
(***************************************************************************)
(* Instances of InboundDelivery for TLC: one mailbox, reached by an        *)
(* address of its own and by an alias; any other address is unknown.       *)
(***************************************************************************)
EXTENDS InboundDelivery, TLC

CONSTANT x

MCResolve == [a \in Addresses |-> IF a \in {"x", "alias"} THEN {x} ELSE {}]

MCJobTo == [m \in Local |-> "x"]

\* A rule's or the scan's folder may be missing.
MCFolders == [b \in Mailboxes |-> FolderNames \ {"Reports"}]

\* Sessions are interchangeable, and so are the messages from outside.
Symmetry == Permutations(Sessions) \cup Permutations(Mails \ Local)
=============================================================================
