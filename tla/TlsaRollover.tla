---------------------------- MODULE TlsaRollover ----------------------------
(***************************************************************************)
(* The certificate manager of TLS_MODE=acme: it keeps the certificate of   *)
(* the mail host current and, with DANE, walks the published TLSA          *)
(* associations ahead of it, so that a validator that cached them still    *)
(* finds the key the server presents.                                      *)
(*                                                                         *)
(* One reconcile is several steps (each DNS write, each database write,    *)
(* the issuance); any of them can fail and the process can die between     *)
(* two.  A key stands for its digest.                                      *)
(*                                                                         *)
(* Time is kept in ages, one unit per reconcile interval, so behaviours    *)
(* are not cut off: a published pending key grows older, a certificate has *)
(* so much left, a cached answer is held so much longer.                   *)
(***************************************************************************)
EXTENDS Integers, FiniteSets

CONSTANTS
    Keys,             \* private keys, reused once nothing refers to them
    None,             \* no certificate, no pending key, nothing served
    Modes,            \* the values of daneEnabled tried
    Lifetime,         \* what a new certificate has left
    PrepareBefore,    \* what is left when the rollover (or renewal) starts
    PropagationWait,  \* how long both associations are published
    CacheTime,        \* how long a validator keeps an answer
    MaxFaults         \* bound: failed calls and crashes

NotPublished == -1

\* Rows of acme_certificates and acme_pending_keys.
Stored == [key: Keys, left: 0..Lifetime]

Reserved == [key: Keys, age: {NotPublished} \cup 0..PropagationWait]

ASSUME RolloverAssumption ==
    /\ None \notin Keys \cup Stored \cup Reserved
    /\ Modes \subseteq BOOLEAN
    /\ Lifetime \in Nat /\ PrepareBefore \in Nat /\ PropagationWait \in Nat
    /\ CacheTime \in Nat \ {0} /\ MaxFaults \in Nat
    /\ CacheTime <= PropagationWait
    /\ PropagationWait + 2 <= PrepareBefore
    /\ PrepareBefore < Lifetime

VARIABLES
    dane,      \* Manager.daneEnabled
    cert,      \* acme_certificates: the key and what the certificate has left
    pending,   \* acme_pending_keys: the key and its age since published
    dns,       \* the TLSA associations in the zone
    served,    \* the key of the certificate in memory
    started,   \* Start has returned
    due,       \* the ticker has fired
    pc,        \* where reconcile is
    desired,   \* the associations PublishTlsa was given
    retired,   \* those it has yet to remove
    after,     \* where reconcile goes on after PublishTlsa
    next,      \* the key reconcile generated or loaded for the issuance
    cached,    \* earlier answers validators still hold (observation)
    orphaned,  \* a first issuance was begun again (observation)
    faults     \* faults so far

store == <<cert, pending>>
run   == <<pc, desired, retired, after, next>>
vars  == <<dane, store, dns, served, started, due, run, cached,
           orphaned, faults>>

Points == {"idle", "create", "retire", "reserve", "mark", "issue", "serve",
           "clear", "end"}

Init ==
    /\ dane \in Modes
    /\ cert = None
    /\ pending = None
    /\ dns = {}
    /\ served = None
    /\ started = FALSE
    /\ due = TRUE
    /\ pc = "idle"
    /\ desired = {}
    /\ retired = {}
    /\ after = "end"
    /\ next = None
    /\ cached = {}
    /\ orphaned = FALSE
    /\ faults = 0

(***************************************************************************)
(* GeneratePrivateKey never repeats a key anything refers to.              *)
(***************************************************************************)
InUse ==
    dns \cup (UNION {c.assoc : c \in cached}) \cup
    {served, next} \cup
    {r.key : r \in {cert, pending} \ {None}}

Fresh == Keys \ InUse

-----------------------------------------------------------------------------
(***************************************************************************)
(* Decide: the stage and the associations to publish.                      *)
(***************************************************************************)
CertificateMatchesPending == pending # None /\ pending.key = cert.key

\* Mutant of Waiting: nobody waits for the caches.
NotWaiting == FALSE

Waiting == pending.age # NotPublished /\ pending.age < PropagationWait

\* Mutant of Publish: only the next association is wanted.
PublishNextOnly ==
    IF pending = None THEN {cert.key} ELSE {pending.key}

Publish ==
    IF CertificateMatchesPending /\ ~Waiting THEN {pending.key}
    ELSE {cert.key} \cup (IF pending = None THEN {} ELSE {pending.key})

Stage ==
    CASE CertificateMatchesPending -> IF Waiting THEN "CLEANUP" ELSE "STABLE"
      [] ~CertificateMatchesPending /\ pending # None ->
           IF pending.age = NotPublished THEN "PUBLISH_NEXT"
           ELSE IF Waiting THEN "AWAIT_PROPAGATION" ELSE "RENEW"
      [] pending = None ->
           IF cert.left < PrepareBefore THEN "PUBLISH_NEXT" ELSE "STABLE"

(***************************************************************************)
(* What reconcile does once the set is published.                          *)
(***************************************************************************)
StepFor(stage) ==
    CASE stage = "PUBLISH_NEXT" -> IF pending = None THEN "reserve" ELSE "mark"
      [] stage = "RENEW" -> "issue"
      [] stage = "STABLE" -> IF CertificateMatchesPending THEN "clear"
                                                          ELSE "end"
      [] OTHER -> "end"

(***************************************************************************)
(* PublishTlsa(S), then go on at step.                                     *)
(***************************************************************************)
CallPublish(S, step) ==
    /\ pc' = "create"
    /\ desired' = S
    /\ after' = step

(***************************************************************************)
(* reconcile begins: the stored certificate is served, then the mode and   *)
(* the state of the rollover decide.                                       *)
(***************************************************************************)
CanBegin == pc = "idle" /\ (due \/ ~started)

ReconcileFirst ==
    /\ CanBegin /\ dane /\ cert = None
    /\ \E k \in Fresh : next' = k /\ CallPublish({k}, "issue")
    /\ orphaned' = (orphaned \/ dns # {})
    /\ UNCHANGED <<dane, store, dns, served, started, due, retired, cached,
                   faults>>

ReconcileWithDane ==
    /\ CanBegin /\ dane /\ cert # None
    /\ served' = cert.key
    /\ CallPublish(Publish, StepFor(Stage))
    /\ next' = IF Stage = "RENEW" THEN pending.key ELSE None
    /\ UNCHANGED <<dane, store, dns, started, due, retired, cached,
                   orphaned, faults>>

\* Mutant of ShouldRenewNow: renewal starts when the certificate has expired.
RenewWhenExpired == cert = None \/ cert.left = 0

(***************************************************************************)
(* Without DANE the renewal is all there is, with a key of its own.        *)
(***************************************************************************)
ShouldRenewNow == cert = None \/ cert.left < PrepareBefore

ReconcileWithoutDane ==
    /\ CanBegin /\ ~dane
    /\ served' = IF cert = None THEN served ELSE cert.key
    /\ IF ShouldRenewNow
       THEN pc' = "issue" /\ next' \in Fresh
       ELSE pc' = "end" /\ next' = None
    /\ UNCHANGED <<dane, store, dns, started, due, desired, retired, after,
                   cached, orphaned, faults>>

-----------------------------------------------------------------------------
(***************************************************************************)
(* The zone changes; a validator may just have asked.                      *)
(***************************************************************************)
SetDns(S) ==
    /\ dns' = S
    /\ cached' = cached \cup {[assoc |-> dns, left |-> CacheTime]}

CreateRecord(k) ==
    /\ pc = "create"
    /\ k \in desired \ dns
    /\ SetDns(dns \cup {k})
    /\ UNCHANGED <<dane, store, served, started, due, run, orphaned,
                   faults>>

(***************************************************************************)
(* Everything missing is created before anything is removed.               *)
(***************************************************************************)
Created ==
    /\ pc = "create"
    /\ desired \subseteq dns
    /\ pc' = "retire"
    /\ retired' = dns \ desired
    /\ UNCHANGED <<dane, store, dns, served, started, due, desired, after,
                   next, cached, orphaned, faults>>

(***************************************************************************)
(* A removal that fails is logged and skipped.                             *)
(***************************************************************************)
DeleteRecord(k) ==
    /\ pc = "retire"
    /\ k \in retired
    /\ retired' = retired \ {k}
    /\ \/ SetDns(dns \ {k}) /\ UNCHANGED faults
       \/ /\ faults < MaxFaults /\ faults' = faults + 1
          /\ UNCHANGED <<dns, cached>>
    /\ UNCHANGED <<dane, store, served, started, due, pc, desired, after,
                   next, orphaned>>

Published ==
    /\ pc = "retire"
    /\ retired = {}
    /\ pc' = after
    /\ UNCHANGED <<dane, store, dns, served, started, due, desired, retired,
                   after, next, cached, orphaned, faults>>

(***************************************************************************)
(* PUBLISH_NEXT without a pending key: one is stored, not yet published,   *)
(* and the pair goes to the zone.                                          *)
(***************************************************************************)
SavePendingKey ==
    /\ pc = "reserve"
    /\ \E k \in Fresh :
         /\ pending' = [key |-> k, age |-> NotPublished]
         /\ CallPublish({cert.key, k}, "mark")
    /\ UNCHANGED <<dane, cert, dns, served, started, due, retired, next,
                   cached, orphaned, faults>>

MarkPendingKeyPublished ==
    /\ pc = "mark"
    /\ pending' = IF pending.age = NotPublished
                  THEN [pending EXCEPT !.age = 0] ELSE pending
    /\ pc' = "end"
    /\ UNCHANGED <<dane, cert, dns, served, started, due, desired, retired,
                   after, next, cached, orphaned, faults>>

\* Mutant of IssuedKey: the CSR is made for a new key.
IssuedFreshKey == CHOOSE k \in Fresh : TRUE

(***************************************************************************)
(* The CSR is made for the key the manager chose.                          *)
(***************************************************************************)
IssuedKey == next

(***************************************************************************)
(* issue: the certificate is obtained and stored, then it is served.  In   *)
(* between the one before it still is, until a later reconcile if need be. *)
(***************************************************************************)
Issue ==
    /\ pc = "issue"
    /\ cert' = [key |-> IssuedKey, left |-> Lifetime]
    /\ pc' = "serve"
    /\ UNCHANGED <<dane, pending, dns, served, started, due, desired, retired,
                   after, next, cached, orphaned, faults>>

Serve ==
    /\ pc = "serve"
    /\ served' = cert.key
    /\ pc' = "end"
    /\ UNCHANGED <<dane, store, dns, started, due, desired, retired, after,
                   next, cached, orphaned, faults>>

\* Mutant of KeyAfterClear: the finished rollover is not forgotten.
PendingKept == pending

KeyAfterClear == None

ClearPendingKey ==
    /\ pc = "clear"
    /\ pending' = KeyAfterClear
    /\ pc' = "end"
    /\ UNCHANGED <<dane, cert, dns, served, started, due, desired, retired,
                   after, next, cached, orphaned, faults>>

(***************************************************************************)
(* reconcile returns.                                                      *)
(***************************************************************************)
Quiet ==
    /\ pc' = "idle"
    /\ desired' = {}
    /\ retired' = {}
    /\ after' = "end"
    /\ next' = None

End ==
    /\ pc = "end"
    /\ Quiet
    /\ started' = TRUE
    /\ due' = FALSE
    /\ UNCHANGED <<dane, store, dns, served, cached, orphaned,
                   faults>>

(***************************************************************************)
(* A call fails.  The pass is given up until the next tick; in Start the   *)
(* error ends the process.                                                 *)
(***************************************************************************)
Fail ==
    /\ faults < MaxFaults /\ faults' = faults + 1
    /\ pc \notin {"idle", "end"}
    /\ Quiet
    /\ due' = FALSE
    /\ served' = IF started THEN served ELSE None
    /\ UNCHANGED <<dane, store, dns, started, cached, orphaned>>

Crash ==
    /\ faults < MaxFaults /\ faults' = faults + 1
    /\ Quiet
    /\ due' = TRUE
    /\ served' = None
    /\ started' = FALSE
    /\ UNCHANGED <<dane, store, dns, cached, orphaned>>

(***************************************************************************)
(* The ticker fires again.  A reconcile is over well within an interval of *)
(* six hours.                                                              *)
(***************************************************************************)
Older(n, max) == IF n < max THEN n + 1 ELSE max

Tick ==
    /\ pc = "idle" /\ started /\ ~due
    /\ due' = TRUE
    /\ cert' = IF cert = None \/ cert.left = 0 THEN cert
               ELSE [cert EXCEPT !.left = @ - 1]
    /\ pending' = IF pending = None \/ pending.age = NotPublished THEN pending
                  ELSE [pending EXCEPT !.age = Older(@, PropagationWait)]
    /\ cached' = {[c EXCEPT !.left = @ - 1] : c \in {d \in cached : d.left > 1}}
    /\ UNCHANGED <<dane, dns, served, started, run, orphaned, faults>>

Reconcile ==
    \/ ReconcileFirst \/ ReconcileWithDane \/ ReconcileWithoutDane
    \/ (\E k \in Keys : CreateRecord(k) \/ DeleteRecord(k))
    \/ Created \/ Published
    \/ SavePendingKey \/ MarkPendingKeyPublished
    \/ Issue \/ Serve \/ ClearPendingKey \/ End

Next == Reconcile \/ Fail \/ Crash \/ Tick

Spec == Init /\ [][Next]_vars

(***************************************************************************)
(* The ticker of Start runs for ever and a reconcile is one goroutine.     *)
(***************************************************************************)
FairSpec == Spec /\ WF_vars(Reconcile) /\ WF_vars(Tick)

-----------------------------------------------------------------------------
(***************************************************************************)
(* Properties                                                              *)
(***************************************************************************)

\* Rows, records and the steps of a reconcile stay in their types; a stage
\* that needs a pending key or a certificate has one.
TypeOK ==
    /\ dane \in BOOLEAN
    /\ cert \in Stored \cup {None}
    /\ pending \in Reserved \cup {None}
    /\ dns \subseteq Keys
    /\ served \in Keys \cup {None}
    /\ started \in BOOLEAN /\ due \in BOOLEAN
    /\ pc \in Points
    /\ desired \subseteq Keys /\ retired \subseteq Keys
    /\ after \in Points
    /\ next \in Keys \cup {None}
    /\ cached \subseteq [assoc: SUBSET Keys, left: 1..CacheTime]
    /\ orphaned \in BOOLEAN
    /\ faults \in 0..MaxFaults
    /\ pc \in {"mark", "clear"} => pending # None
    /\ pc = "issue" => next # None
    /\ pc = "serve" => cert # None

\* At every instant the zone lists the key being served, as Manager's comment
\* promises: between any two DNS writes, after any failure or crash.
PublishedCoversServed ==
    dane /\ served # None => served \in dns

\* Whatever answer a validator still holds, the key being served is in it, so
\* a renewal never breaks delivery while DNS catches up.  A first issuance
\* that had to be begun again is the exception.
CachedCoversServed ==
    dane /\ served # None /\ ~orphaned =>
        \A c \in cached : c.assoc # {} => served \in c.assoc

\* PrepareBefore is enough: without a fault the certificate never runs out,
\* with DANE (where the wait comes first) as without.
NeverExpires == cert # None /\ faults = 0 => cert.left > 0

\* A certificate that is running out is replaced and a rollover that began is
\* brought to its end, whatever failed on the way.
RolloverCompletes ==
    /\ (cert # None /\ cert.left < PrepareBefore)
         ~> (cert # None /\ cert.left >= PrepareBefore)
    /\ pending # None ~> pending = None
=============================================================================
