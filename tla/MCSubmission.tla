---------------------------- MODULE MCSubmission ----------------------------
(***************************************************************************)
(* Instances of Submission for TLC: the messages of one account, and       *)
(* another account that can authenticate.                                  *)
(***************************************************************************)
EXTENDS Submission, TLC

CONSTANTS a, b

MCOwner == [m \in Mails |-> a]

\* Sessions, messages and recipients are interchangeable.
Symmetry ==
    Permutations(Sessions) \cup Permutations(Mails) \cup Permutations(Recipients)
=============================================================================
