------------------------------ MODULE JobLife ------------------------------
(***************************************************************************)
(* What the outbound queue promises about one message to one recipient,    *)
(* whatever its workers, claims, retries and crashes do in between.        *)
(*                                                                         *)
(* A job is open until it is settled.  The destination takes the message   *)
(* at most once, and a job is settled as it was taken or not, as long as   *)
(* the queue has not lost track of it.  It loses track when a claim passes *)
(* to another worker, or when the destination took the message and the     *)
(* session then failed; each such doubt allows one delivery more.          *)
(***************************************************************************)
EXTENDS Naturals

CONSTANT Jobs   \* messages, one per recipient

VARIABLES
    state,    \* what the queue says of each job
    taken,    \* times the destination took it
    doubts    \* times the queue lost track of it

vars == <<state, taken, doubts>>

Settled == {"delivered", "bounced", "cancelled"}

Init ==
    /\ state = [j \in Jobs |-> "absent"]
    /\ taken = [j \in Jobs |-> 0]
    /\ doubts = [j \in Jobs |-> 0]

Submit(j) ==
    /\ state[j] = "absent"
    /\ state' = [state EXCEPT ![j] = "open"]
    /\ UNCHANGED <<taken, doubts>>

(***************************************************************************)
(* The destination takes the message; it may fail to say so.               *)
(***************************************************************************)
Take(j) ==
    /\ state[j] = "open" \/ doubts[j] > 0
    /\ taken[j] <= doubts[j]
    /\ taken' = [taken EXCEPT ![j] = @ + 1]
    /\ \E d \in {0, 1} : doubts' = [doubts EXCEPT ![j] = @ + d]
    /\ UNCHANGED state

(***************************************************************************)
(* One worker takes over the claims of several jobs at a time.             *)
(***************************************************************************)
LoseTrack(S) ==
    /\ \A j \in S : state[j] = "open"
    /\ doubts' = [j \in Jobs |-> IF j \in S THEN doubts[j] + 1 ELSE doubts[j]]
    /\ UNCHANGED <<state, taken>>

(***************************************************************************)
(* A job is settled as delivered when the destination has the message, and *)
(* as bounced or cancelled when it has not; in doubt, as anybody believes. *)
(***************************************************************************)
Settle(j, as) ==
    /\ state[j] = "open"
    /\ doubts[j] = 0 => (as = "delivered" <=> taken[j] > 0)
    /\ state' = [state EXCEPT ![j] = as]
    /\ UNCHANGED <<taken, doubts>>

(***************************************************************************)
(* The operator asks for a bounced message to be tried again.              *)
(***************************************************************************)
Retry(j) ==
    /\ state[j] = "bounced"
    /\ state' = [state EXCEPT ![j] = "open"]
    /\ UNCHANGED <<taken, doubts>>

(***************************************************************************)
(* In doubt, a slow worker may write over what another one wrote.          *)
(***************************************************************************)
Overwrite(j) ==
    /\ doubts[j] > 0 /\ state[j] \in Settled
    /\ \E as \in {"open", "delivered", "bounced"} :
         state' = [state EXCEPT ![j] = as]
    /\ UNCHANGED <<taken, doubts>>

Next ==
    \/ \E j \in Jobs :
          \/ Submit(j) \/ Take(j) \/ Retry(j) \/ Overwrite(j)
          \/ \E as \in Settled : Settle(j, as)
    \/ \E S \in SUBSET Jobs : LoseTrack(S)

Spec == Init /\ [][Next]_vars
=============================================================================
