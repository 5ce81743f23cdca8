--------------------------- MODULE RetrySchedule ---------------------------
(***************************************************************************)
(* The retry table of the outbound queue, in minutes: a translation of     *)
(* CalculateNextBackoff (domain/entity/outbound_job.go).  Pure operators;  *)
(* the random jitter is a choice over JitterPercent.                       *)
(***************************************************************************)
EXTENDS Integers

CONSTANTS
    DeliveryWindow,  \* minutes a message may stay queued (the code: 5 days)
    JitterPercent    \* the jitter factors tried, in percent of the base delay

ASSUME RetryAssumption ==
    /\ DeliveryWindow \in Nat
    /\ JitterPercent # {}
    /\ JitterPercent \subseteq 80..119

(***************************************************************************)
(* The wait BEFORE attempt n.                                              *)
(***************************************************************************)
BaseDelay(n) ==
    CASE n <= 1 -> 0
      [] n = 2  -> 5
      [] n = 3  -> 15
      [] n = 4  -> 60
      [] n = 5  -> 120
      [] n = 6  -> 240
      [] n = 7  -> 480
      [] OTHER  -> 720

(***************************************************************************)
(* From attempt 5 on the wait is scaled by a factor of [0.8, 1.2).         *)
(***************************************************************************)
Delays(n) ==
    IF n >= 5 THEN {(BaseDelay(n) * p) \div 100 : p \in JitterPercent}
              ELSE {BaseDelay(n)}

(***************************************************************************)
(* The delay notice goes out with the wait before attempt 4.               *)
(***************************************************************************)
NoticeDue(failed) == failed + 1 = 4

(***************************************************************************)
(* What handleFailure is told after attempt `failed' failed at `now': the  *)
(* set of possible answers, one for each jitter.                           *)
(***************************************************************************)
CalculateNextBackoff(now, failed, expires) ==
    IF now >= expires
    THEN {[next |-> now, delayDsn |-> FALSE, permanent |-> TRUE]}
    ELSE {[next      |-> IF now + d > expires THEN expires ELSE now + d,
           delayDsn  |-> NoticeDue(failed),
           permanent |-> now + d > expires] : d \in Delays(failed + 1)}
=============================================================================
