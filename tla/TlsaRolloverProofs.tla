------------------------- MODULE TlsaRolloverProofs -------------------------
(***************************************************************************)
(* Proofs about TlsaRollover: the zone lists the key being served at every *)
(* instant, and so does every answer a validator may still hold; without a *)
(* fault the certificate never runs out.                                   *)
(*                                                                         *)
(* Neither is inductive.  The first needs what a reconcile is about to do  *)
(* (Walk: the set being published contains the key in use and the reserved *)
(* one, and the issuance uses a key that is published).  The second needs  *)
(* the race between the reserved key's age and the answers that lack it    *)
(* (CachesCatchUp), and what a first issuance leaves in caches.            *)
(* That no certificate expires needs what is left of it at each stage of   *)
(* the rollover (InTime).                                                  *)
(***************************************************************************)
EXTENDS TlsaRollover, TLAPS

Publishing == pc \in {"create", "retire"}

\* What is served is what is stored, or what was before an issuance that is
\* not served yet; with DANE what is served, what is stored, and what has
\* been published as the next key, is in the zone.
InZone ==
    /\ served # None => cert # None
    /\ served # None /\ pc \notin {"idle", "serve"} => served = cert.key
    /\ dane /\ served # None => served \in dns
    /\ dane /\ cert # None => cert.key \in dns
    /\ dane /\ pending # None /\ pending.age # NotPublished
         => pending.key \in dns
    /\ pending # None => cert # None

\* The set a reconcile is publishing covers both keys, and what it removes
\* is not in that set.
SetCovers ==
    /\ Publishing => dane
    /\ Publishing /\ cert # None => cert.key \in desired
    /\ Publishing /\ pending # None => pending.key \in desired
    /\ pc = "retire" => desired \subseteq dns /\ retired \cap desired = {}

\* Where the reconcile goes on has what it needs.
WillFind(step) ==
    /\ step \in {"issue", "reserve", "mark", "clear", "end"}
    /\ step \in {"mark", "clear"} => pending # None
    /\ step = "reserve" => cert # None
    /\ step = "issue" => next \in Keys
    /\ step = "issue" /\ cert # None =>
         pending # None /\ next = pending.key /\ pending.age = PropagationWait

Found ==
    /\ Publishing => WillFind(after)
    /\ Publishing /\ after = "issue" => next \in desired
    /\ dane /\ pc \in {"issue", "reserve", "mark", "clear"} => WillFind(pc)
    /\ pc \in {"reserve", "mark", "clear"} => dane
    /\ pc = "mark" => pending.key \in dns
    /\ dane /\ pc = "issue" => next \in dns

Walk == InZone /\ SetCovers /\ Found

\* An answer that lacks the reserved key expires before the wait is over.
CachesCatchUp ==
    dane /\ pending # None /\ pending.age # NotPublished =>
        \A c \in cached : pending.key \in c.assoc
                          \/ c.left <= PropagationWait - pending.age

\* Every answer held lists the key of the stored certificate, and the one
\* that is served; before there is one, only empty answers are held, and the zone has at most the first key.
CachesCover ==
    dane /\ ~orphaned =>
        /\ cert # None => \A c \in cached : c.assoc # {} => cert.key \in c.assoc
        /\ served # None => \A c \in cached : c.assoc # {} => served \in c.assoc
        /\ cert = None => \A c \in cached : c.assoc = {}
        /\ cert = None /\ Publishing => desired = {next} /\ dns \subseteq desired
        /\ cert = None /\ pc = "retire" => retired = {}

-----------------------------------------------------------------------------
\* A manager that has not started yet has its types.
LEMMA TypeInit == Init => TypeOK
<1> SUFFICES ASSUME Init PROVE TypeOK
    OBVIOUS
<1>1. /\ dane \in BOOLEAN /\ started \in BOOLEAN
      /\ due \in BOOLEAN /\ orphaned \in BOOLEAN
    BY RolloverAssumption, Zenon DEF Init
<1> QED
    BY <1>1, RolloverAssumption DEF Init, TypeOK, Points

\* Every step of a reconcile, fault or tick keeps the types; that a stage has
\* what it needs comes from Walk.
LEMMA TypeStep == TypeOK /\ Walk /\ [Next]_vars => TypeOK'
<1> SUFFICES ASSUME TypeOK, Walk, [Next]_vars PROVE TypeOK'
    OBVIOUS
<1> USE RolloverAssumption DEF Stored, Reserved, NotPublished
<1>1. CASE ReconcileFirst
    BY <1>1 DEF ReconcileFirst, CallPublish, Fresh, store, TypeOK, Points
<1>2. CASE ReconcileWithDane
    BY <1>2 DEF ReconcileWithDane, CallPublish, Publish, StepFor, Stage,
           CertificateMatchesPending, store, TypeOK, Points
<1>3. CASE ReconcileWithoutDane
    BY <1>3 DEF ReconcileWithoutDane, Fresh, store, TypeOK, Points
<1>4. ASSUME NEW k \in Keys, CreateRecord(k) PROVE TypeOK'
    BY <1>4 DEF CreateRecord, SetDns, run, store, TypeOK
<1>5. ASSUME NEW k \in Keys, DeleteRecord(k) PROVE TypeOK'
    BY <1>5 DEF DeleteRecord, SetDns, store, TypeOK
<1>6. CASE Created
    BY <1>6 DEF Created, store, TypeOK, Points
<1>7. CASE Published
    BY <1>7 DEF Published, store, TypeOK, Walk, Found, WillFind, Publishing
<1>8. CASE SavePendingKey
    BY <1>8 DEF SavePendingKey, CallPublish, Fresh, TypeOK, Points, Walk, Found,
           WillFind
<1>9. CASE MarkPendingKeyPublished
    BY <1>9 DEF MarkPendingKeyPublished, TypeOK, Points
<1>10. CASE Issue
    BY <1>10 DEF Issue, IssuedKey, TypeOK, Points
<1>10b. CASE Serve
    BY <1>10b DEF Serve, store, TypeOK, Points
<1>11. CASE ClearPendingKey
    BY <1>11 DEF ClearPendingKey, KeyAfterClear, TypeOK, Points
<1>12. CASE End
    BY <1>12 DEF End, Quiet, store, TypeOK, Stored, Reserved, Points,
           NotPublished, Walk, Found, WillFind, Publishing
<1>13. CASE Fail
    <2>1. started' \in BOOLEAN /\ due' \in BOOLEAN /\ orphaned' \in BOOLEAN
        BY <1>13, Zenon DEF Fail, TypeOK
    <2> QED
        BY <1>13, <2>1 DEF Fail, Quiet, store, TypeOK, Points
<1>14. CASE Crash
    <2>1. started' \in BOOLEAN /\ due' \in BOOLEAN /\ orphaned' \in BOOLEAN
        BY <1>14, Zenon DEF Crash, TypeOK
    <2> QED
        BY <1>14, <2>1 DEF Crash, Quiet, store, TypeOK, Points
<1>15. CASE Tick
    BY <1>15 DEF Tick, Older, run, TypeOK
<1>16. CASE UNCHANGED vars
    BY <1>16 DEF vars, run, store, TypeOK
<1> QED
    BY <1>1, <1>2, <1>3, <1>4, <1>5, <1>6, <1>7, <1>8, <1>9, <1>10, <1>10b,
           <1>11, <1>12, <1>13, <1>14, <1>15, <1>16 DEF Next, Reconcile

\* Nothing is stored, published or served at first.
LEMMA WalkInit == Init => Walk
BY RolloverAssumption
DEF Init, Walk, InZone, SetCovers, Found, WillFind, Publishing

\* One step per action: the set being published covers both keys, so no write
\* to the zone removes one of them, and the issuance uses a published key.
LEMMA WalkStep == TypeOK /\ Walk /\ [Next]_vars => Walk'
<1> SUFFICES ASSUME TypeOK, Walk, [Next]_vars PROVE Walk'
    OBVIOUS
<1> USE RolloverAssumption DEF Stored, Reserved, NotPublished
<1>1. CASE ReconcileFirst
    BY <1>1 DEF ReconcileFirst, CallPublish, Fresh, store, Walk, InZone,
           SetCovers, Found, WillFind
<1>2. CASE ReconcileWithDane
    BY <1>2 DEF ReconcileWithDane, CallPublish, Publish, StepFor, Stage,
           CertificateMatchesPending, Waiting, store, TypeOK, Walk, InZone,
           SetCovers, Found, WillFind
<1>3. CASE ReconcileWithoutDane
    BY <1>3 DEF ReconcileWithoutDane, store, Walk, InZone, SetCovers, Found,
           Publishing
<1>4. ASSUME NEW k \in Keys, CreateRecord(k) PROVE Walk'
    BY <1>4 DEF CreateRecord, SetDns, run, store, Walk, InZone, SetCovers,
           Found, WillFind, Publishing
<1>5. ASSUME NEW k \in Keys, DeleteRecord(k) PROVE Walk'
    BY <1>5 DEF DeleteRecord, SetDns, store, Walk, InZone, SetCovers, Found,
           WillFind, Publishing
<1>6. CASE Created
    BY <1>6 DEF Created, store, Walk, InZone, SetCovers, Found, WillFind,
           Publishing
<1>7. CASE Published
    BY <1>7 DEF Published, store, Walk, InZone, SetCovers, Found, WillFind,
           Publishing
<1>8. CASE SavePendingKey
    BY <1>8 DEF SavePendingKey, CallPublish, Fresh, Walk, InZone, SetCovers,
           Found, WillFind
<1>9. CASE MarkPendingKeyPublished
    BY <1>9 DEF MarkPendingKeyPublished, TypeOK, Walk, InZone, SetCovers, Found,
           Publishing
<1>10. CASE Issue
    BY <1>10 DEF Issue, IssuedKey, TypeOK, Walk, InZone, SetCovers, Found,
           Publishing
<1>10b. CASE Serve
    BY <1>10b DEF Serve, store, TypeOK, Walk, InZone, SetCovers, Found,
           Publishing
<1>11. CASE ClearPendingKey
    BY <1>11 DEF ClearPendingKey, KeyAfterClear, Walk, InZone, SetCovers, Found,
           Publishing
<1>12. CASE End
    BY <1>12 DEF End, Quiet, store, Walk, InZone, SetCovers, Found, Publishing
<1>13. CASE Fail
    BY <1>13 DEF Fail, Quiet, store, Walk, InZone, SetCovers, Found, Publishing
<1>14. CASE Crash
    BY <1>14 DEF Crash, Quiet, store, Walk, InZone, SetCovers, Found, Publishing
<1>15. CASE Tick
    BY <1>15 DEF Tick, run, TypeOK, Walk, InZone, SetCovers, Found, Publishing
<1>16. CASE UNCHANGED vars
    BY <1>16 DEF vars, run, store, Walk, InZone, SetCovers, Found, WillFind,
           Publishing
<1> QED
    BY <1>1, <1>2, <1>3, <1>4, <1>5, <1>6, <1>7, <1>8, <1>9, <1>10, <1>10b,
           <1>11, <1>12, <1>13, <1>14, <1>15, <1>16 DEF Next, Reconcile

\* The zone lists the key being served at every instant, between any two DNS
\* writes and after any failure or crash, however many there are.
THEOREM ZoneCoversServed == Spec => []PublishedCoversServed
<1>1. Walk => PublishedCoversServed
    BY DEF Walk, InZone, PublishedCoversServed
<1> QED
    BY <1>1, TypeInit, TypeStep, WalkInit, WalkStep, PTL DEF Spec

\* Rows, records and the steps of a reconcile stay in their types.
THEOREM TypeCorrect == Spec => []TypeOK
BY TypeInit, TypeStep, WalkInit, WalkStep, PTL DEF Spec

-----------------------------------------------------------------------------
\* The wait counts down as fast as the caches do, and answers given after the
\* key was published have it.
LEMMA CatchUpStep ==
    TypeOK /\ Walk /\ CachesCatchUp /\ [Next]_vars => CachesCatchUp'
<1> SUFFICES ASSUME TypeOK, Walk, CachesCatchUp, [Next]_vars
             PROVE  CachesCatchUp'
    OBVIOUS
<1> USE RolloverAssumption DEF Stored, Reserved, NotPublished
<1>1. CASE ReconcileFirst
    BY <1>1 DEF ReconcileFirst, store, CachesCatchUp
<1>2. CASE ReconcileWithDane
    BY <1>2 DEF ReconcileWithDane, store, CachesCatchUp
<1>3. CASE ReconcileWithoutDane
    BY <1>3 DEF ReconcileWithoutDane, CachesCatchUp
<1>4. ASSUME NEW k \in Keys, CreateRecord(k) PROVE CachesCatchUp'
    BY <1>4 DEF CreateRecord, SetDns, store, Walk, InZone, CachesCatchUp
<1>5. ASSUME NEW k \in Keys, DeleteRecord(k) PROVE CachesCatchUp'
    BY <1>5 DEF DeleteRecord, SetDns, store, Walk, InZone, CachesCatchUp
<1>6. CASE Created
    BY <1>6 DEF Created, store, CachesCatchUp
<1>7. CASE Published
    BY <1>7 DEF Published, store, CachesCatchUp
<1>8. CASE SavePendingKey
    BY <1>8 DEF SavePendingKey, CachesCatchUp
<1>9. CASE MarkPendingKeyPublished
    BY <1>9 DEF MarkPendingKeyPublished, TypeOK, CachesCatchUp
<1>10. CASE Issue
    BY <1>10 DEF Issue, CachesCatchUp
<1>10b. CASE Serve
    BY <1>10b DEF Serve, store, CachesCatchUp
<1>11. CASE ClearPendingKey
    BY <1>11 DEF ClearPendingKey, KeyAfterClear, CachesCatchUp
<1>12. CASE End
    BY <1>12 DEF End, store, CachesCatchUp
<1>13. CASE Fail
    BY <1>13 DEF Fail, store, CachesCatchUp
<1>14. CASE Crash
    BY <1>14 DEF Crash, store, CachesCatchUp
<1>15. CASE Tick
    BY <1>15 DEF Tick, Older, TypeOK, CachesCatchUp
<1>16. CASE UNCHANGED vars
    BY <1>16 DEF vars, store, CachesCatchUp
<1> QED
    BY <1>1, <1>2, <1>3, <1>4, <1>5, <1>6, <1>7, <1>8, <1>9, <1>10, <1>10b,
           <1>11, <1>12, <1>13, <1>14, <1>15, <1>16 DEF Next, Reconcile

\* The issuance switches to a key that every answer still held lists.
LEMMA CoverStep ==
    TypeOK /\ Walk /\ CachesCatchUp /\ CachesCover /\ [Next]_vars => CachesCover'
<1> SUFFICES ASSUME TypeOK, Walk, CachesCatchUp, CachesCover, [Next]_vars
             PROVE  CachesCover'
    OBVIOUS
<1> USE RolloverAssumption DEF Stored, Reserved, NotPublished
<1>1. CASE ReconcileFirst
    BY <1>1 DEF ReconcileFirst, CanBegin, CallPublish, Fresh, store, TypeOK,
           Points, Walk, InZone, SetCovers, Found, WillFind, Publishing,
           CachesCatchUp, CachesCover
<1>2. CASE ReconcileWithDane
    BY <1>2 DEF ReconcileWithDane, store, CachesCover
<1>3. CASE ReconcileWithoutDane
    BY <1>3 DEF ReconcileWithoutDane, CachesCover
<1>4. ASSUME NEW k \in Keys, CreateRecord(k) PROVE CachesCover'
    BY <1>4 DEF CreateRecord, SetDns, run, store, Walk, InZone, Publishing,
           CachesCover
<1>5. ASSUME NEW k \in Keys, DeleteRecord(k) PROVE CachesCover'
    BY <1>5 DEF DeleteRecord, SetDns, store, Walk, InZone, CachesCover
<1>6. CASE Created
    BY <1>6 DEF Created, store, Publishing, CachesCover
<1>7. CASE Published
    BY <1>7 DEF Published, store, Publishing, CachesCover
<1>8. CASE SavePendingKey
    BY <1>8 DEF SavePendingKey, Walk, Found, WillFind, CachesCover
<1>9. CASE MarkPendingKeyPublished
    BY <1>9 DEF MarkPendingKeyPublished, TypeOK, Walk, InZone, CachesCover
<1>10. CASE Issue
    BY <1>10 DEF Issue, IssuedKey, TypeOK, Walk, Found, WillFind, CachesCatchUp,
           CachesCover
<1>10b. CASE Serve
    BY <1>10b DEF Serve, store, TypeOK, Publishing, CachesCover
<1>11. CASE ClearPendingKey
    BY <1>11 DEF ClearPendingKey, TypeOK, Walk, InZone, CachesCover
<1>12. CASE End
    BY <1>12 DEF End, Quiet, store, Publishing, CachesCover
<1>13. CASE Fail
    BY <1>13 DEF Fail, Quiet, store, Publishing, CachesCover
<1>14. CASE Crash
    BY <1>14 DEF Crash, Quiet, store, Publishing, CachesCover
<1>15. CASE Tick
    BY <1>15 DEF Tick, run, TypeOK, Publishing, CachesCover
<1>16. CASE UNCHANGED vars
    BY <1>16 DEF vars, run, store, Publishing, CachesCover
<1> QED
    BY <1>1, <1>2, <1>3, <1>4, <1>5, <1>6, <1>7, <1>8, <1>9, <1>10, <1>10b,
           <1>11, <1>12, <1>13, <1>14, <1>15, <1>16 DEF Next, Reconcile

\* Whatever answer a validator still holds, the key being served is in it,
\* unless a first issuance had to be begun again.
THEOREM CachesCoverServed == Spec => []CachedCoversServed
<1>1. Init => CachesCatchUp /\ CachesCover
    BY DEF Init, CachesCatchUp, CachesCover, Publishing
<1>2. Walk /\ CachesCover => CachedCoversServed
    BY DEF Walk, InZone, CachesCover, CachedCoversServed
<1> QED
    BY <1>1, <1>2, TypeInit, TypeStep, WalkInit, WalkStep, CatchUpStep,
       CoverStep, PTL DEF Spec

-----------------------------------------------------------------------------
(***************************************************************************)
(* Without a fault a reconcile runs at every tick and gets to its end, so  *)
(* the rollover keeps pace with the certificate.                           *)
(***************************************************************************)
Step == IF Publishing THEN after ELSE pc

Matched == pending # None /\ cert # None /\ pending.key = cert.key

Unmatched == pending # None /\ ~Matched

\* A tick finds the reconcile of the last one over, and a step of it finds the
\* pending key in the state the decision saw.
InStep ==
    /\ pc # "idle" => due
    /\ ~started => due
    /\ pending # None => dane /\ cert # None
    /\ pending # None /\ pending.age = NotPublished => Step = "mark"
    /\ Step = "clear" => Matched
    /\ Step = "reserve" => pending = None
    /\ Step = "mark" => Unmatched /\ pending.age = NotPublished

\* What the certificate has left, at each stage of the rollover.
EnoughLeft ==
    cert # None =>
        /\ pending = None => cert.left >= PrepareBefore - 1
        /\ Matched => /\ cert.left >= PrepareBefore
                      /\ pending.age = PropagationWait
        /\ Unmatched /\ pending.age = NotPublished =>
             cert.left >= PrepareBefore - 1
        /\ Unmatched /\ pending.age # NotPublished =>
             cert.left + pending.age >= PrepareBefore - 1

\* Once a reconcile has nothing left to do there is one more tick to spare.
TimeToSpare ==
    cert # None /\ (~due \/ Step \in {"serve", "end"}) =>
        /\ pending = None => cert.left >= PrepareBefore
        /\ Matched => cert.left > PrepareBefore
        /\ Unmatched => pending.age < PropagationWait

InTime == faults = 0 => InStep /\ EnoughLeft /\ TimeToSpare

\* One step per action: only a tick takes time from the certificate, and the
\* wait it adds to the reserved key's age is time the certificate still has.
LEMMA InTimeStep == TypeOK /\ Walk /\ InTime /\ [Next]_vars => InTime'
<1> SUFFICES ASSUME TypeOK, Walk, InTime, [Next]_vars, faults' = 0
             PROVE  (InStep /\ EnoughLeft /\ TimeToSpare)'
    BY DEF InTime
<1>0. faults = 0
    <2>1. faults \in Nat
        BY RolloverAssumption DEF TypeOK
    <2>2. faults' = faults \/ faults' = faults + 1
        BY DEF Next, Reconcile, ReconcileFirst, ReconcileWithDane,
           ReconcileWithoutDane, CreateRecord, DeleteRecord, Created, Published,
           SavePendingKey, MarkPendingKeyPublished, Issue, Serve, ClearPendingKey,
           End, Fail, Crash, Tick, vars
    <2> QED
        BY <2>1, <2>2
<1>00. InStep /\ EnoughLeft /\ TimeToSpare
    BY <1>0 DEF InTime
<1> USE <1>00, RolloverAssumption
    DEF Stored, Reserved, NotPublished, Step, Matched, Unmatched, Publishing
<1>1. CASE ReconcileFirst
    BY <1>1 DEF ReconcileFirst, CanBegin, CallPublish, store, TypeOK, InStep,
           EnoughLeft, TimeToSpare
<1>2. CASE ReconcileWithDane
    BY <1>2 DEF ReconcileWithDane, CanBegin, CallPublish, StepFor, Stage,
           CertificateMatchesPending, Waiting, store, TypeOK, InStep,
           EnoughLeft, TimeToSpare
<1>3. CASE ReconcileWithoutDane
    BY <1>3 DEF ReconcileWithoutDane, CanBegin, ShouldRenewNow, store, TypeOK,
           InStep, EnoughLeft, TimeToSpare
<1>4. ASSUME NEW k \in Keys, CreateRecord(k)
      PROVE  (InStep /\ EnoughLeft /\ TimeToSpare)'
    BY <1>4 DEF CreateRecord, run, store, InStep, EnoughLeft, TimeToSpare
<1>5. ASSUME NEW k \in Keys, DeleteRecord(k)
      PROVE  (InStep /\ EnoughLeft /\ TimeToSpare)'
    BY <1>5 DEF DeleteRecord, store, InStep, EnoughLeft, TimeToSpare
<1>6. CASE Created
    BY <1>6 DEF Created, store, InStep, EnoughLeft, TimeToSpare
<1>7. CASE Published
    BY <1>7 DEF Published, store, InStep, EnoughLeft, TimeToSpare, Walk, Found,
           WillFind
<1>8. CASE SavePendingKey
    <2>1. PICK k \in Fresh : /\ pending' = [key |-> k, age |-> NotPublished]
                             /\ CallPublish({cert.key, k}, "mark")
        BY <1>8 DEF SavePendingKey
    <2>2. pc = "reserve" /\ pending = None /\ cert \in Stored
        BY <1>8 DEF SavePendingKey, Walk, Found, WillFind, InStep, TypeOK
    <2>3. k \in Keys /\ k # cert.key
        <3>1. cert \in {cert, pending} \ {None}
            BY <2>2
        <3>2. cert.key \in {r.key : r \in {cert, pending} \ {None}}
            BY <3>1
        <3>3. cert.key \in InUse
            BY <3>2 DEF InUse
        <3> QED
            BY <2>1, <3>3 DEF Fresh
    <2>4. dane /\ due /\ cert.left >= PrepareBefore - 1
        BY <2>2, <1>8 DEF Walk, Found, InStep, EnoughLeft
    <2>5. UNCHANGED <<dane, cert, due, started>>
        BY <1>8 DEF SavePendingKey
    <2>6. Step' = "mark" /\ Unmatched' /\ pending'.age = NotPublished
        BY <2>1, <2>2, <2>3, <2>5 DEF CallPublish
    <2> QED
        BY <2>2, <2>4, <2>5, <2>6 DEF InStep, EnoughLeft, TimeToSpare
<1>9. CASE MarkPendingKeyPublished
    BY <1>9 DEF MarkPendingKeyPublished, TypeOK, InStep, EnoughLeft,
           TimeToSpare
<1>10. CASE Issue
    BY <1>10 DEF Issue, IssuedKey, TypeOK, InStep, EnoughLeft, TimeToSpare, Walk,
           Found, WillFind
<1>10b. CASE Serve
    BY <1>10b DEF Serve, store, TypeOK, InStep, EnoughLeft, TimeToSpare
<1>11. CASE ClearPendingKey
    BY <1>11 DEF ClearPendingKey, KeyAfterClear, TypeOK, InStep, EnoughLeft,
           TimeToSpare
<1>12. CASE End
    BY <1>12 DEF End, Quiet, store, InStep, EnoughLeft, TimeToSpare
<1>13. CASE Fail \/ Crash
    BY <1>0, <1>13 DEF Fail, Crash
<1>15. CASE Tick
    BY <1>15 DEF Tick, Older, run, TypeOK, InStep, EnoughLeft, TimeToSpare
<1>16. CASE UNCHANGED vars
    BY <1>16 DEF vars, run, store, InStep, EnoughLeft, TimeToSpare
<1> QED
    BY <1>1, <1>2, <1>3, <1>4, <1>5, <1>6, <1>7, <1>8, <1>9, <1>10, <1>10b,
           <1>11, <1>12, <1>13, <1>15, <1>16 DEF Next, Reconcile

\* PrepareBefore is enough: without a fault the certificate never runs out,
\* whatever the lifetime, the lead and the wait, with DANE as without.
THEOREM CertificateNeverExpires == Spec => []NeverExpires
<1>1. Init => InTime
    BY RolloverAssumption DEF Init, InTime, InStep, EnoughLeft, TimeToSpare,
       Step, Matched, Unmatched, Publishing
<1>2. TypeOK /\ InTime => NeverExpires
    BY RolloverAssumption DEF TypeOK, Stored, Reserved, NotPublished, InTime,
       EnoughLeft, Unmatched, NeverExpires
<1> QED
    BY <1>1, <1>2, TypeInit, TypeStep, WalkInit, WalkStep, InTimeStep,
       PTL DEF Spec
=============================================================================
