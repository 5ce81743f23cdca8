--------------------------- MODULE DnsSyncProofs ---------------------------
(***************************************************************************)
(* Proofs about DnsSync, for any number of syncs side by side, of names and*)
(* of values, failures and changes by hand: what somebody else put into    *)
(* the zone stays as it is, and VERIFIED means what it says.               *)
(*                                                                         *)
(* A sync writes against a list of the zone that grows old while it works. *)
(* Two facts carry the proofs.  An unmarked record never changes, so the   *)
(* copy of it a list holds, however old, is the record itself (Listed).    *)
(* And a sync that nobody disturbed sees in its list exactly what is in    *)
(* the zone under the names it still has to write (Walked).                *)
(***************************************************************************)
EXTENDS DnsSync, TLAPS

AnyValue == (UNION {Wanted[n] : n \in Names}) \cup {Other, None}

Row == [id: Nat, name: Names, value: AnyValue, mark: BOOLEAN, drift: BOOLEAN]

SyncRow == [pc: {"idle", "list", "write"}, input: [Names -> AnyValue],
            list: SUBSET Row, left: SUBSET Names, problems: BOOLEAN,
            status: {"none", "PARTIAL", "DRIFT", "VERIFIED"}]

\* An id was given out by the provider and names one record.
ZoneOK ==
    /\ zone \subseteq Row
    /\ lastId \in 0..MaxIds
    /\ \A r \in zone : /\ r.id \in 1..lastId
                       /\ r.value \in Values(r.name) \ {None}
    /\ \A r, q \in zone : r.id = q.id => r = q

\* A sync that works wants values of the server's, has no result yet, and its
\* list has no id that was not given out.
SyncOK ==
    /\ sync \in [Syncs -> SyncRow]
    /\ \A s \in Syncs :
         /\ \A n \in Names : sync[s].input[n] \in Wanted[n] \cup {None}
         /\ sync[s].pc # "idle" =>
              /\ sync[s].status = "none"
              /\ \A n \in Names : sync[s].input[n] \in Wanted[n]
         /\ sync[s].pc = "list" => ~sync[s].problems
         /\ \A r \in sync[s].list : r.id <= lastId

RestOK ==
    /\ want \in [Names -> AnyValue]
    /\ \A n \in Names : want[n] \in Wanted[n]
    /\ disturbed \subseteq Syncs
    /\ changes \in 0..MaxChanges /\ upsets \in 0..MaxUpsets

TypeInv == ZoneOK /\ SyncOK /\ RestOK

\* An unmarked record of the zone is still what every list says it is.
Listed ==
    \A s \in Syncs : \A l \in sync[s].list, r \in zone :
        l.id = r.id /\ ~r.mark => l = r

ListedAt(s, n) == {r \in sync[s].list : r.name = n}

\* A sync nobody disturbed and nothing went wrong for finds in its list what is
\* in the zone, and leaves behind what it wants.
Undisturbed(s) ==
    sync[s].pc = "write" /\ s \notin disturbed /\ ~sync[s].problems

Walked ==
    \A s \in Syncs : Undisturbed(s) =>
        /\ \A n \in sync[s].left : At(n) = ListedAt(s, n)
        /\ \A n \in Names \ sync[s].left : Right(n, sync[s].input[n])

-----------------------------------------------------------------------------
(***************************************************************************)
(* What a step does to the zone.                                           *)
(***************************************************************************)

\* A new record has an id of its own.
LEMMA CreateEffect ==
    ASSUME ZoneOK, NEW n \in Names, NEW v \in Values(n) \ {None},
           NEW mark \in BOOLEAN, NEW drift \in BOOLEAN, lastId < MaxIds,
           zone' = zone \cup {Record(lastId + 1, n, v, mark, drift)},
           lastId' = lastId + 1
    PROVE  ZoneOK'
<1> DEFINE new == Record(lastId + 1, n, v, mark, drift)
<1>1. lastId \in Nat /\ lastId + 1 \in 1..MaxIds
    BY SyncAssumption DEF ZoneOK
<1>2. v \in AnyValue /\ v \in Values(n) \ {None}
    BY DEF AnyValue, Values
<1>3. /\ new \in Row /\ new.id = lastId + 1 /\ new.name = n /\ new.value = v
    BY <1>1, <1>2 DEF Record, Row
<1> HIDE DEF new
<1>4. \A r \in zone : r.id \in Int /\ r.id # new.id
    BY <1>1, <1>3 DEF ZoneOK
<1>5. zone' = zone \cup {new}
    BY DEF new
<1>6. zone' \subseteq Row /\ lastId' \in 0..MaxIds
    BY <1>1, <1>3, <1>5 DEF ZoneOK
<1>7. \A r \in zone' : r.id \in 1..lastId' /\ r.value \in Values(r.name) \ {None}
    BY <1>1, <1>2, <1>3, <1>5 DEF ZoneOK
<1>8. \A r, q \in zone' : r.id = q.id => r = q
    BY <1>4, <1>5 DEF ZoneOK
<1> QED
    BY <1>6, <1>7, <1>8 DEF ZoneOK

\* The provider replaces the record that has the id.
LEMMA UpdateEffect ==
    ASSUME ZoneOK, NEW s, NEW r \in Row, NEW v \in Wanted[r.name] \ {None},
           UpdateRecord(s, r, v)
    PROVE  /\ ZoneOK'
           /\ Record(r.id, r.name, v, TRUE, FALSE) \in zone'
           /\ \A q \in zone : q.id # r.id => q \in zone'
           /\ \A q \in zone' : q.id # r.id => q \in zone
           /\ \A q \in zone' :
                q.id = r.id => q = Record(r.id, r.name, v, TRUE, FALSE)
<1> DEFINE new == Record(r.id, r.name, v, TRUE, FALSE)
<1>1. PICK old \in zone : old.id = r.id
    BY DEF UpdateRecord, UpdateOK
<1>2. v \in AnyValue /\ v \in Values(r.name) \ {None} /\ r.name \in Names
    BY DEF AnyValue, Values, Row
<1>3. new \in Row /\ new.id = r.id /\ new.name = r.name /\ new.value = v
    BY <1>2 DEF Record, Row
<1>4. zone' = {q \in zone : q.id # r.id} \cup {new} /\ lastId' = lastId
    BY DEF UpdateRecord, Replaced
<1> HIDE DEF new
<1>5. ZoneOK'
    BY <1>1, <1>2, <1>3, <1>4 DEF ZoneOK
<1>6. /\ new \in zone'
      /\ \A q \in zone : q.id # r.id => q \in zone'
      /\ \A q \in zone' : q.id # r.id => q \in zone
      /\ \A q \in zone' : q.id = r.id => q = new
    BY <1>3, <1>4
<1> QED
    BY <1>5, <1>6 DEF new

\* The calls a sync makes for one wanted record: none, because the record is
\* right or something failed, an update of a record of ours, or a creation.
LEMMA ReconcileEffect ==
    ASSUME TypeInv, NEW s \in Syncs, NEW n \in Names, Reconcile(s, n)
    PROVE  /\ sync[s].pc = "write" /\ n \in sync[s].left
           /\ sync[s].input[n] \in Wanted[n] \ {None}
           /\ \E failed \in BOOLEAN :
                /\ Called(s, n, failed)
                /\ \/ /\ NoWrite
                      /\ failed \/ \E r \in ListedAt(s, n) :
                                     r.value = sync[s].input[n]
                   \/ \E r \in ListedAt(s, n) :
                        /\ IsOurRecord(n, sync[s].input[n], r)
                        /\ UpdateRecord(s, r, sync[s].input[n])
                   \/ CreateRecord(s, n, sync[s].input[n])
           /\ upsets' \in 0..MaxUpsets /\ UNCHANGED <<want, changes>>
<1> DEFINE v == sync[s].input[n]
<1>1. /\ sync[s].pc = "write" /\ n \in sync[s].left /\ v # None
      /\ UNCHANGED <<want, changes>>
    BY DEF Reconcile
<1>2. v \in Wanted[n] \ {None}
    BY <1>1 DEF TypeInv, SyncOK
<1>3. ASSUME Upset \/ UNCHANGED upsets PROVE upsets' \in 0..MaxUpsets
    BY <1>3, SyncAssumption DEF TypeInv, RestOK, Upset
<1>4. upsets' \in 0..MaxUpsets
    BY <1>3 DEF Reconcile
<1>5. TRUE \in BOOLEAN /\ FALSE \in BOOLEAN
    OBVIOUS
<1> HIDE DEF v
<1>6. \/ \E r \in ListedAt(s, n) :
           /\ IsOurRecord(n, v, r)
           /\ \/ EqualsNormalized(v, r) /\ NoWrite /\ Called(s, n, FALSE)
              \/ UpdateRecord(s, r, v) /\ Called(s, n, FALSE)
              \/ UpdateRecord(s, r, v) /\ Called(s, n, TRUE)
      \/ NoWrite /\ Called(s, n, TRUE)
      \/ CreateRecord(s, n, v) /\ Called(s, n, FALSE)
      \/ CreateRecord(s, n, v) /\ Called(s, n, TRUE)
    BY DEF Reconcile, ListedAt, v
<1>7. \E failed \in BOOLEAN :
        /\ Called(s, n, failed)
        /\ \/ NoWrite /\ (failed \/ \E r \in ListedAt(s, n) : r.value = v)
           \/ \E r \in ListedAt(s, n) :
                IsOurRecord(n, v, r) /\ UpdateRecord(s, r, v)
           \/ CreateRecord(s, n, v)
    BY <1>5, <1>6 DEF EqualsNormalized
<1> QED
    BY <1>1, <1>2, <1>4, <1>7 DEF v

\* The calls a sync makes for the record that is not wanted: a marked record is
\* removed or not, and tried; or there is none left.
LEMMA RetireEffect ==
    ASSUME TypeInv, NEW s \in Syncs, RetireBimi(s)
    PROVE  /\ sync[s].pc = "write" /\ sync[s].left = {Bimi}
           /\ sync[s].input[Bimi] = None
           /\ \/ \E r \in ToRetire(s), failed \in BOOLEAN :
                   /\ Tried(s, r, failed)
                   /\ DeleteRecord(s, r) \/ (NoWrite /\ failed)
              \/ ToRetire(s) = {} /\ NoWrite /\ Called(s, Bimi, FALSE)
           /\ upsets' \in 0..MaxUpsets /\ UNCHANGED <<want, changes>>
<1>1. ASSUME Upset \/ UNCHANGED upsets PROVE upsets' \in 0..MaxUpsets
    BY <1>1, SyncAssumption DEF TypeInv, RestOK, Upset
<1>2. upsets' \in 0..MaxUpsets
    BY <1>1 DEF RetireBimi
<1>3. TRUE \in BOOLEAN /\ FALSE \in BOOLEAN
    OBVIOUS
<1>4. \/ \E r \in ToRetire(s) :
           \/ DeleteRecord(s, r) /\ Tried(s, r, FALSE)
           \/ DeleteRecord(s, r) /\ Tried(s, r, TRUE)
           \/ NoWrite /\ Tried(s, r, TRUE)
      \/ ToRetire(s) = {} /\ NoWrite /\ Called(s, Bimi, FALSE)
    BY DEF RetireBimi
<1>5. \/ \E r \in ToRetire(s), failed \in BOOLEAN :
           /\ Tried(s, r, failed)
           /\ DeleteRecord(s, r) \/ (NoWrite /\ failed)
      \/ ToRetire(s) = {} /\ NoWrite /\ Called(s, Bimi, FALSE)
    BY <1>3, <1>4
<1> QED
    BY <1>2, <1>5 DEF RetireBimi

(***************************************************************************)
(* What a step does to a sync.                                             *)
(***************************************************************************)

\* A row a sync may have when ids up to last have been given out.
GoodRow(q, last) ==
    /\ q \in SyncRow
    /\ \A n \in Names : q.input[n] \in Wanted[n] \cup {None}
    /\ q.pc # "idle" => /\ q.status = "none"
                        /\ \A n \in Names : q.input[n] \in Wanted[n]
    /\ q.pc = "list" => ~q.problems
    /\ \A r \in q.list : r.id <= last

\* One sync takes a step, the others keep what they have.
Becomes(s, q) == sync' = [sync EXCEPT ![s] = q]

\* The values wanted are among the values.
LEMMA WantedValues ==
    \A n \in Names : /\ Wanted[n] \subseteq AnyValue
                     /\ Values(n) \subseteq AnyValue
    BY DEF AnyValue, Values

\* Ids only grow, so the rows of the syncs that do nothing stay good.
LEMMA SyncKept ==
    ASSUME SyncOK, ZoneOK, NEW s \in Syncs, NEW q, Becomes(s, q),
           GoodRow(q, lastId), lastId' \in {lastId, lastId + 1}
    PROVE  /\ SyncOK'
           /\ sync'[s] = q
           /\ \A t \in Syncs \ {s} : sync'[t] = sync[t]
<1>1. sync' \in [Syncs -> SyncRow] /\ sync'[s] = q
    BY DEF SyncOK, GoodRow, Becomes
<1>2. \A t \in Syncs \ {s} : sync'[t] = sync[t]
    BY DEF SyncOK, Becomes
<1>3. \A t \in Syncs : sync[t] \in SyncRow
    BY DEF SyncOK
<1>4. \A t \in Syncs : \A r \in sync[t].list : r.id \in Nat
    BY <1>3 DEF SyncRow, Row
<1>5. lastId \in Nat /\ lastId' \in Nat /\ lastId <= lastId'
    BY SyncAssumption DEF ZoneOK
<1>6. \A t \in Syncs \ {s} : GoodRow(sync'[t], lastId')
    BY <1>2, <1>3, <1>4, <1>5 DEF SyncOK, GoodRow
<1>7. \A r \in q.list : r.id \in Nat
    BY DEF GoodRow, SyncRow, Row
<1>8. GoodRow(q, lastId')
    BY <1>5, <1>7 DEF GoodRow
<1>9. \A t \in Syncs : GoodRow(sync'[t], lastId')
    BY <1>1, <1>6, <1>8
<1> QED
    BY <1>1, <1>2, <1>9 DEF SyncOK, GoodRow

\* Nobody's sync changes, and ids may have been given out.
LEMMA SyncSame ==
    ASSUME SyncOK, ZoneOK, sync' = sync, lastId' \in {lastId, lastId + 1}
    PROVE  SyncOK'
<1>1. \A t \in Syncs : sync[t] \in SyncRow
    BY DEF SyncOK
<1>2. \A t \in Syncs : \A r \in sync[t].list : r.id \in Nat
    BY <1>1 DEF SyncRow, Row
<1>3. lastId \in Nat /\ lastId' \in Nat /\ lastId <= lastId'
    BY SyncAssumption DEF ZoneOK
<1> QED
    BY <1>2, <1>3 DEF SyncOK

\* A sync that has nothing to do.
LEMMA IdleRow ==
    /\ GoodRow(Idle, lastId)
    /\ Idle.pc = "idle" /\ Idle.list = {} /\ Idle.status = "none"
    /\ Idle.problems = FALSE
<1> DEFINE i == [n \in Names |-> None]
<1>1. i \in [Names -> AnyValue] /\ \A n \in Names : i[n] = None
    BY DEF AnyValue
<1> HIDE DEF i
<1>2. Idle = [pc |-> "idle", input |-> i, list |-> {}, left |-> {},
              problems |-> FALSE, status |-> "none"]
    BY DEF Idle, i
<1> QED
    BY <1>1, <1>2 DEF GoodRow, SyncRow

\* A sync that has just read what is wanted.
LEMMA ListingRow ==
    ASSUME NEW i \in [Names -> AnyValue], \A n \in Names : i[n] \in Wanted[n]
    PROVE  LET q == [Idle EXCEPT !.pc = "list", !.input = i] IN
           GoodRow(q, lastId) /\ q.pc = "list" /\ q.list = {} /\ q.status = "none"
BY IdleRow DEF GoodRow, SyncRow

\* The record that was written is no longer to be written.
LEMMA CalledEffect ==
    ASSUME TypeInv, NEW s \in Syncs, NEW n \in Names, NEW failed \in BOOLEAN,
           sync[s].pc = "write", Called(s, n, failed)
    PROVE  \E q : /\ Becomes(s, q) /\ GoodRow(q, lastId)
                  /\ q.pc = "write" /\ q.input = sync[s].input
                  /\ q.list = sync[s].list /\ q.left = sync[s].left \ {n}
                  /\ q.problems = (sync[s].problems \/ failed)
<1> DEFINE row == sync[s]
           left == row.left \ {n}
           problems == row.problems \/ failed
           q == [row EXCEPT !.left = left, !.problems = problems]
<1>1. row \in SyncRow /\ GoodRow(row, lastId)
    BY DEF TypeInv, SyncOK, GoodRow
<1>2. left \in SUBSET Names /\ problems \in BOOLEAN
    BY <1>1 DEF SyncRow
<1>3. Becomes(s, q)
    BY DEF Called, Becomes, TypeInv, SyncOK
<1>4. row.pc = "write"
    OBVIOUS
<1>5. /\ q.pc = "write" /\ q.input = row.input /\ q.list = row.list
      /\ q.left = left /\ q.problems = problems
      /\ GoodRow(q, lastId)
    <2> HIDE DEF row, left, problems
    <2> QED
        BY <1>1, <1>2, <1>4 DEF GoodRow, SyncRow
<1> HIDE DEF q
<1> QED
    BY <1>3, <1>5

\* The record that was tried is forgotten.
LEMMA TriedEffect ==
    ASSUME TypeInv, NEW s \in Syncs, NEW r, NEW failed \in BOOLEAN,
           sync[s].pc = "write", Tried(s, r, failed)
    PROVE  \E q : /\ Becomes(s, q) /\ GoodRow(q, lastId)
                  /\ q.pc = "write" /\ q.input = sync[s].input
                  /\ q.list = sync[s].list \ {r} /\ q.left = sync[s].left
                  /\ q.problems = (sync[s].problems \/ failed)
<1> DEFINE row == sync[s]
           list == row.list \ {r}
           problems == row.problems \/ failed
           q == [row EXCEPT !.list = list, !.problems = problems]
<1>1. row \in SyncRow /\ GoodRow(row, lastId)
    BY DEF TypeInv, SyncOK, GoodRow
<1>2. list \in SUBSET Row /\ list \subseteq row.list /\ problems \in BOOLEAN
    BY <1>1 DEF SyncRow
<1>3. Becomes(s, q)
    BY DEF Tried, Becomes, TypeInv, SyncOK
<1>4. row.pc = "write"
    OBVIOUS
<1>5. /\ q.pc = "write" /\ q.input = row.input /\ q.list = list
      /\ q.left = row.left /\ q.problems = problems
      /\ GoodRow(q, lastId)
    <2> HIDE DEF row, list, problems
    <2> QED
        BY <1>1, <1>2, <1>4 DEF GoodRow, SyncRow
<1> HIDE DEF q
<1> QED
    BY <1>3, <1>5

-----------------------------------------------------------------------------
(***************************************************************************)
(* The shapes of a step.                                                   *)
(***************************************************************************)
Others(s) == \A t \in Syncs \ {s} : sync'[t] = sync[t]

\* Sync s goes on writing.
GoesOn(s, list, left, failed) ==
    /\ sync[s].pc = "write" /\ sync'[s].pc = "write"
    /\ sync'[s].input = sync[s].input
    /\ sync'[s].list = list
    /\ sync'[s].left = left
    /\ sync'[s].problems = (sync[s].problems \/ failed)
    /\ Others(s)

\* It begins or gives up, and has no list.
Rests(s) ==
    /\ Others(s) /\ NoWrite
    /\ sync'[s].list = {} /\ sync'[s].pc # "write"
    /\ sync'[s].status # "VERIFIED"

\* It lists the zone.
Lists(s) ==
    /\ Others(s) /\ UNCHANGED <<zone, lastId, hand, adopted>>
    /\ disturbed' = disturbed \ {s}
    /\ sync'[s].pc = "write" /\ sync'[s].list = zone
    /\ sync'[s].left = Names /\ ~sync'[s].problems

\* It is over.
Reports(s) ==
    /\ Others(s) /\ NoWrite
    /\ sync[s].pc = "write" /\ sync[s].left = {}
    /\ sync'[s].pc = "idle" /\ sync'[s].list = {}
    /\ sync'[s].input = sync[s].input
    /\ sync'[s].status = "VERIFIED" => ~sync[s].problems

\* It is through with name n.
Finishes(s, n, failed) ==
    /\ n \in sync[s].left
    /\ sync[s].input[n] \in Wanted[n] \ {None}
    /\ GoesOn(s, sync[s].list, sync[s].left \ {n}, failed)

FindsRight(s, n, failed) ==
    /\ Finishes(s, n, failed) /\ NoWrite
    /\ failed \/ \E r \in ListedAt(s, n) : r.value = sync[s].input[n]

Updates(s, n, r, failed) ==
    /\ Finishes(s, n, failed)
    /\ r \in ListedAt(s, n)
    /\ IsOurRecord(n, sync[s].input[n], r)
    /\ UpdateRecord(s, r, sync[s].input[n])

Creates(s, n, failed) ==
    Finishes(s, n, failed) /\ CreateRecord(s, n, sync[s].input[n])

\* It removes a record that is not wanted, or cannot, or finds none.
Removes(s, r, failed) ==
    /\ r \in ToRetire(s) /\ sync[s].left = {Bimi}
    /\ GoesOn(s, sync[s].list \ {r}, sync[s].left, failed)
    /\ DeleteRecord(s, r) \/ (NoWrite /\ failed)

FindsNone(s) ==
    /\ ToRetire(s) = {} /\ sync[s].left = {Bimi}
    /\ sync[s].input[Bimi] = None
    /\ GoesOn(s, sync[s].list, sync[s].left \ {Bimi}, FALSE)
    /\ NoWrite

SyncShape(s) ==
    \/ Rests(s) \/ Lists(s) \/ Reports(s) \/ FindsNone(s)
    \/ \E n \in Names, failed \in BOOLEAN :
         FindsRight(s, n, failed) \/ Creates(s, n, failed)
    \/ \E n \in Names, r \in Row, failed \in BOOLEAN : Updates(s, n, r, failed)
    \/ \E r \in Row, failed \in BOOLEAN : Removes(s, r, failed)

StepShape ==
    \/ \E s \in Syncs : SyncShape(s)
    \/ ByHand
    \/ UNCHANGED <<zone, lastId, sync, disturbed, hand, adopted>>

\* Reading what is wanted.
LEMMA BeginShape ==
    ASSUME TypeInv, NEW s \in Syncs, Begin(s)
    PROVE  TypeInv' /\ Rests(s)
<1>1. NoWrite /\ UNCHANGED <<want, changes>> /\ upsets' \in 0..MaxUpsets
    BY SyncAssumption DEF Begin, TypeInv, RestOK, Upset
<1>2. ZoneOK' /\ RestOK' /\ lastId' \in {lastId, lastId + 1}
    BY <1>1 DEF NoWrite, TypeInv, ZoneOK, RestOK
<1>3. \E q : /\ Becomes(s, q) /\ GoodRow(q, lastId)
             /\ q.pc # "write" /\ q.list = {} /\ q.status = "none"
    <2>1. CASE sync' = [sync EXCEPT ![s] = Idle]
        BY <2>1, IdleRow DEF Becomes
    <2>2. ASSUME NEW i, i = want \/ i = [want EXCEPT ![Bimi] = LogoOnly],
                 sync' = [sync EXCEPT ![s] =
                            [Idle EXCEPT !.pc = "list", !.input = i]]
          PROVE  \E q : /\ Becomes(s, q) /\ GoodRow(q, lastId)
                        /\ q.pc # "write" /\ q.list = {} /\ q.status = "none"
        <3>1. Bimi \in Names /\ LogoOnly \in Wanted[Bimi]
            BY SyncAssumption
        <3>2. i \in [Names -> AnyValue] /\ \A n \in Names : i[n] \in Wanted[n]
            BY <2>2, <3>1, WantedValues DEF TypeInv, RestOK
        <3> DEFINE q == [Idle EXCEPT !.pc = "list", !.input = i]
        <3>3. GoodRow(q, lastId) /\ q.pc = "list" /\ q.list = {}
              /\ q.status = "none"
            BY <3>2, ListingRow
        <3>4. Becomes(s, q)
            BY <2>2 DEF Becomes
        <3> HIDE DEF q
        <3> QED
            BY <3>3, <3>4
    <2> QED
        BY <2>1, <2>2 DEF Begin
<1>4. SyncOK' /\ Rests(s)
    BY <1>1, <1>2, <1>3, SyncKept DEF TypeInv, Rests, Others
<1> QED
    BY <1>2, <1>4 DEF TypeInv

\* Listing the zone.
LEMMA ListShape ==
    ASSUME TypeInv, NEW s \in Syncs, List(s)
    PROVE  TypeInv' /\ (Lists(s) \/ Rests(s))
<1>1. /\ UNCHANGED <<zone, lastId, hand, adopted, want, changes>>
      /\ upsets' \in 0..MaxUpsets
      /\ disturbed' \subseteq Syncs
    BY SyncAssumption DEF List, TypeInv, RestOK, Upset
<1>2. ZoneOK' /\ RestOK' /\ lastId' \in {lastId, lastId + 1}
    BY <1>1 DEF TypeInv, ZoneOK, RestOK
<1>3. CASE sync' = [sync EXCEPT ![s] = Idle] /\ UNCHANGED disturbed
    BY <1>1, <1>2, <1>3, IdleRow, SyncKept
    DEF TypeInv, Rests, Others, Becomes, NoWrite
<1>4. CASE /\ sync' = [sync EXCEPT ![s].pc = "write", ![s].list = zone,
                                   ![s].left = Names]
           /\ disturbed' = disturbed \ {s}
    <2> DEFINE row == sync[s]
               q == [row EXCEPT !.pc = "write", !.list = zone, !.left = Names]
    <2>1. row \in SyncRow /\ GoodRow(row, lastId) /\ row.pc = "list"
        BY DEF TypeInv, SyncOK, GoodRow, List
    <2>2. zone \in SUBSET Row /\ \A r \in zone : r.id <= lastId
        BY DEF TypeInv, ZoneOK
    <2>3. /\ q.pc = "write" /\ q.list = zone /\ q.left = Names /\ ~q.problems
          /\ GoodRow(q, lastId)
        <3> HIDE DEF row
        <3> QED
            BY <2>1, <2>2 DEF GoodRow, SyncRow
    <2>4. Becomes(s, q)
        BY <1>4 DEF Becomes, TypeInv, SyncOK
    <2> HIDE DEF q
    <2>5. SyncOK' /\ sync'[s] = q /\ Others(s)
        BY <1>2, <2>3, <2>4, SyncKept DEF TypeInv, Others
    <2> QED
        BY <1>1, <1>2, <1>4, <2>3, <2>5 DEF TypeInv, Lists
<1> QED
    BY <1>3, <1>4 DEF List

\* The result.
LEMMA VerifyShape ==
    ASSUME TypeInv, NEW s \in Syncs, Verify(s)
    PROVE  TypeInv' /\ (Reports(s) \/ Rests(s))
<1>1. /\ NoWrite /\ UNCHANGED <<want, changes>> /\ upsets' \in 0..MaxUpsets
      /\ sync[s].pc = "write" /\ sync[s].left = {}
    BY SyncAssumption DEF Verify, TypeInv, RestOK, Upset
<1>2. ZoneOK' /\ RestOK' /\ lastId' \in {lastId, lastId + 1}
    BY <1>1 DEF NoWrite, TypeInv, ZoneOK, RestOK
<1>3. CASE sync' = [sync EXCEPT ![s] = Idle]
    BY <1>1, <1>2, <1>3, IdleRow, SyncKept DEF TypeInv, Rests, Others, Becomes
<1>4. ASSUME NEW seen,
             sync' = [sync EXCEPT ![s] =
                        [Idle EXCEPT !.input = sync[s].input,
                                     !.status = Status(sync[s].problems, seen)]]
      PROVE  TypeInv' /\ (Reports(s) \/ Rests(s))
    <2> DEFINE i == sync[s].input
               st == Status(sync[s].problems, seen)
               q == [Idle EXCEPT !.input = i, !.status = st]
    <2>1. /\ i \in [Names -> AnyValue]
          /\ \A n \in Names : i[n] \in Wanted[n] \cup {None}
        BY DEF TypeInv, SyncOK, SyncRow
    <2>2. /\ st \in {"none", "PARTIAL", "DRIFT", "VERIFIED"}
          /\ st = "VERIFIED" => ~sync[s].problems
        BY DEF Status
    <2>3. Becomes(s, q)
        BY <1>4 DEF Becomes
    <2> HIDE DEF i, st
    <2>4. /\ GoodRow(q, lastId) /\ q.pc = "idle" /\ q.list = {}
          /\ q.status = st /\ q.input = i
        BY <2>1, <2>2, IdleRow DEF GoodRow, SyncRow
    <2> HIDE DEF q
    <2>5. SyncOK' /\ sync'[s] = q /\ Others(s)
        BY <1>2, <2>3, <2>4, SyncKept DEF TypeInv, Others
    <2>6. sync'[s].input = sync[s].input
        BY <2>4, <2>5 DEF i
    <2> QED
        BY <1>1, <1>2, <2>2, <2>4, <2>5, <2>6 DEF TypeInv, Reports
<1> QED
    BY <1>3, <1>4 DEF Verify

\* A call for one of the wanted records.
LEMMA ReconcileShape ==
    ASSUME TypeInv, NEW s \in Syncs, NEW n \in Names, Reconcile(s, n)
    PROVE  TypeInv' /\ SyncShape(s)
<1> DEFINE v == sync[s].input[n]
<1>1. /\ sync[s].pc = "write" /\ n \in sync[s].left /\ v \in Wanted[n] \ {None}
      /\ upsets' \in 0..MaxUpsets /\ UNCHANGED <<want, changes>>
    BY ReconcileEffect
<1>2. PICK failed \in BOOLEAN :
        /\ Called(s, n, failed)
        /\ \/ NoWrite /\ (failed \/ \E r \in ListedAt(s, n) : r.value = v)
           \/ \E r \in ListedAt(s, n) :
                IsOurRecord(n, v, r) /\ UpdateRecord(s, r, v)
           \/ CreateRecord(s, n, v)
    BY ReconcileEffect
<1>3. PICK q : /\ Becomes(s, q) /\ GoodRow(q, lastId)
               /\ q.pc = "write" /\ q.input = sync[s].input
               /\ q.list = sync[s].list /\ q.left = sync[s].left \ {n}
               /\ q.problems = (sync[s].problems \/ failed)
    BY <1>1, <1>2, CalledEffect
<1>4. ASSUME ZoneOK', lastId' \in {lastId, lastId + 1}, disturbed' \subseteq Syncs
      PROVE  TypeInv' /\ Finishes(s, n, failed)
    <2>1. SyncOK' /\ sync'[s] = q /\ Others(s)
        BY <1>3, <1>4, SyncKept DEF TypeInv, Others
    <2>2. RestOK'
        BY <1>1, <1>4 DEF TypeInv, RestOK
    <2> QED
        BY <1>1, <1>3, <1>4, <2>1, <2>2 DEF TypeInv, Finishes, GoesOn
<1>5. ListedAt(s, n) \subseteq Row
    BY DEF ListedAt, TypeInv, SyncOK, SyncRow
<1>6. CASE NoWrite /\ (failed \/ \E r \in ListedAt(s, n) : r.value = v)
    <2>1. ZoneOK' /\ lastId' \in {lastId, lastId + 1} /\ disturbed' \subseteq Syncs
        BY <1>6 DEF NoWrite, TypeInv, ZoneOK, RestOK
    <2>2. FindsRight(s, n, failed)
        BY <1>4, <1>6, <2>1 DEF FindsRight
    <2> QED
        BY <1>4, <2>1, <2>2 DEF SyncShape
<1>7. ASSUME NEW r \in ListedAt(s, n), IsOurRecord(n, v, r), UpdateRecord(s, r, v)
      PROVE  TypeInv' /\ SyncShape(s)
    <2>1. r \in Row /\ r.name = n
        BY <1>5 DEF ListedAt
    <2>2. ZoneOK'
        BY <1>1, <1>7, <2>1, UpdateEffect DEF TypeInv
    <2>3. lastId' \in {lastId, lastId + 1} /\ disturbed' \subseteq Syncs
        BY <1>7 DEF UpdateRecord, Disturbs, TypeInv, RestOK
    <2>4. Updates(s, n, r, failed)
        BY <1>4, <1>7, <2>2, <2>3 DEF Updates
    <2> QED
        BY <1>4, <2>1, <2>2, <2>3, <2>4 DEF SyncShape
<1>8. CASE CreateRecord(s, n, v)
    <2>1. v \in Values(n) \ {None} /\ TRUE \in BOOLEAN /\ FALSE \in BOOLEAN
        BY <1>1 DEF Values
    <2>2. /\ lastId < MaxIds /\ lastId' = lastId + 1
          /\ zone' = zone \cup {Record(lastId + 1, n, v, TRUE, FALSE)}
        BY <1>8 DEF CreateRecord, CreateOK
    <2> HIDE DEF v
    <2>3. ZoneOK'
        BY <2>1, <2>2, CreateEffect DEF TypeInv
    <2>4. lastId' \in {lastId, lastId + 1} /\ disturbed' \subseteq Syncs
        BY <1>8 DEF CreateRecord, Disturbs, TypeInv, RestOK
    <2>5. Creates(s, n, failed)
        BY <1>4, <1>8, <2>3, <2>4 DEF Creates, v
    <2> QED
        BY <1>4, <2>3, <2>4, <2>5 DEF SyncShape
<1> QED
    BY <1>2, <1>6, <1>7, <1>8

\* A call for the record that is not wanted.
LEMMA RetireShape ==
    ASSUME TypeInv, NEW s \in Syncs, RetireBimi(s)
    PROVE  TypeInv' /\ SyncShape(s)
<1>1. /\ sync[s].pc = "write" /\ sync[s].left = {Bimi}
      /\ sync[s].input[Bimi] = None
      /\ upsets' \in 0..MaxUpsets /\ UNCHANGED <<want, changes>>
    BY RetireEffect
<1>2. \A r \in ToRetire(s) : r \in Row
    BY DEF ToRetire, TypeInv, SyncOK, SyncRow
<1>3. ASSUME NEW r \in ToRetire(s), NEW failed \in BOOLEAN, Tried(s, r, failed),
             DeleteRecord(s, r) \/ (NoWrite /\ failed)
      PROVE  TypeInv' /\ SyncShape(s)
    <2>1. PICK q : /\ Becomes(s, q) /\ GoodRow(q, lastId)
                   /\ q.pc = "write" /\ q.input = sync[s].input
                   /\ q.list = sync[s].list \ {r} /\ q.left = sync[s].left
                   /\ q.problems = (sync[s].problems \/ failed)
        BY <1>1, <1>3, TriedEffect
    <2>2. zone' \subseteq zone /\ lastId' = lastId /\ disturbed' \subseteq Syncs
        BY <1>3 DEF DeleteRecord, NoWrite, Disturbs, TypeInv, RestOK
    <2>3. ZoneOK' /\ RestOK'
        BY <1>1, <2>2 DEF TypeInv, ZoneOK, RestOK
    <2>4. SyncOK' /\ sync'[s] = q /\ Others(s)
        BY <2>1, <2>2, SyncKept DEF TypeInv, Others
    <2>5. Removes(s, r, failed)
        BY <1>1, <1>3, <2>1, <2>4 DEF Removes, GoesOn
    <2> QED
        BY <1>2, <2>3, <2>4, <2>5 DEF TypeInv, SyncShape
<1>4. CASE ToRetire(s) = {} /\ NoWrite /\ Called(s, Bimi, FALSE)
    <2>1. Bimi \in Names /\ FALSE \in BOOLEAN
        BY SyncAssumption
    <2>2. PICK q : /\ Becomes(s, q) /\ GoodRow(q, lastId)
                   /\ q.pc = "write" /\ q.input = sync[s].input
                   /\ q.list = sync[s].list /\ q.left = sync[s].left \ {Bimi}
                   /\ q.problems = (sync[s].problems \/ FALSE)
        BY <1>1, <1>4, <2>1, CalledEffect
    <2>3. ZoneOK' /\ RestOK' /\ lastId' \in {lastId, lastId + 1}
        BY <1>1, <1>4 DEF NoWrite, TypeInv, ZoneOK, RestOK
    <2>4. SyncOK' /\ sync'[s] = q /\ Others(s)
        BY <2>2, <2>3, SyncKept DEF TypeInv, Others
    <2>5. FindsNone(s)
        BY <1>1, <1>4, <2>2, <2>4 DEF FindsNone, GoesOn
    <2> QED
        BY <2>3, <2>4, <2>5 DEF TypeInv, SyncShape
<1> QED
    BY <1>3, <1>4, RetireEffect

\* Changes by hand keep the types too.
LEMMA ByHandShape ==
    ASSUME TypeInv, ByHand
    PROVE  TypeInv'
<1>1. /\ sync' = sync /\ disturbed' = Syncs /\ UNCHANGED <<want, changes>>
      /\ upsets' \in 0..MaxUpsets
    BY SyncAssumption DEF ByHand, TypeInv, RestOK, Upset
<1>2. RestOK'
    BY <1>1 DEF TypeInv, RestOK
<1>3. ASSUME NEW n \in Names, NEW v \in HandValues(n), NEW drift \in HandDrift(n),
             AddByHand(n, v, drift)
      PROVE  TypeInv'
    <2>1. /\ v \in Values(n) \ {None} /\ FALSE \in BOOLEAN
          /\ drift \in BOOLEAN
        BY DEF Values, HandValues, HandDrift
    <2>2. /\ lastId < MaxIds /\ lastId' = lastId + 1
          /\ zone' = zone \cup {Record(lastId + 1, n, v, FALSE, drift)}
        BY <1>3 DEF AddByHand
    <2>3. ZoneOK'
        BY <2>1, <2>2, CreateEffect DEF TypeInv
    <2> QED
        BY <1>1, <1>2, <2>2, <2>3, SyncSame DEF TypeInv
<1>4. ASSUME NEW r \in zone, zone' = zone \ {r}, lastId' = lastId
      PROVE  TypeInv'
    <2>1. ZoneOK'
        BY <1>4 DEF TypeInv, ZoneOK
    <2> QED
        BY <1>1, <1>2, <1>4, <2>1, SyncSame DEF TypeInv
<1>5. ASSUME NEW r \in zone, NEW v \in HandValues(r.name),
             NEW drift \in HandDrift(r.name), EditByHand(r, v, drift),
             lastId' = lastId
      PROVE  TypeInv'
    <2> DEFINE new == Record(r.id, r.name, v, TRUE, drift)
    <2>1. /\ r \in Row /\ v \in Values(r.name) \ {None} /\ drift \in BOOLEAN
          /\ r.name \in Names
        BY DEF TypeInv, ZoneOK, HandValues, HandDrift, Values, Row
    <2>a. v \in AnyValue
        BY <2>1, WantedValues
    <2>2. new \in Row /\ new.id = r.id /\ new.name = r.name /\ new.value = v
        BY <2>1, <2>a DEF Row, Record
    <2>3. zone' = (zone \ {r}) \cup {new}
        BY <1>5 DEF EditByHand
    <2> HIDE DEF new
    <2>4. ZoneOK'
        BY <1>5, <2>1, <2>2, <2>3 DEF TypeInv, ZoneOK
    <2> QED
        BY <1>1, <1>2, <1>5, <2>4, SyncSame DEF TypeInv
<1> QED
    BY <1>3, <1>4, <1>5 DEF ByHand

\* Every step keeps the types and has one of the shapes.
LEMMA StepShapes == TypeInv /\ [Next]_vars => TypeInv' /\ StepShape
<1> SUFFICES ASSUME TypeInv, [Next]_vars PROVE TypeInv' /\ StepShape
    OBVIOUS
<1>1. ASSUME NEW s \in Syncs, Begin(s) PROVE TypeInv' /\ StepShape
    BY <1>1, BeginShape DEF StepShape, SyncShape
<1>2. ASSUME NEW s \in Syncs, Work(s) PROVE TypeInv' /\ StepShape
    BY <1>2, ListShape, VerifyShape, ReconcileShape, RetireShape
    DEF Work, StepShape, SyncShape
<1>3. ASSUME NEW n \in Names, NEW v \in Wanted[n], Change(n, v)
      PROVE  TypeInv' /\ StepShape
    <2>1. UNCHANGED <<zone, lastId, disturbed, hand, adopted, sync, upsets>>
        BY <1>3 DEF Change, NoWrite
    <2>2. want' = [want EXCEPT ![n] = v] /\ changes' \in 0..MaxChanges
        BY <1>3, SyncAssumption DEF Change, TypeInv, RestOK
    <2>3. RestOK'
        BY <2>1, <2>2, WantedValues DEF TypeInv, RestOK
    <2> QED
        BY <2>1, <2>3 DEF TypeInv, ZoneOK, SyncOK, StepShape
<1>4. CASE ByHand
    BY <1>4, ByHandShape DEF StepShape
<1>5. CASE UNCHANGED vars
    BY <1>5 DEF vars, TypeInv, ZoneOK, SyncOK, RestOK, StepShape
<1> QED
    BY <1>1, <1>2, <1>3, <1>4, <1>5 DEF Next

\* An empty zone and idle syncs.
LEMMA TypeInit == Init => TypeInv
<1> SUFFICES ASSUME Init PROVE TypeInv
    OBVIOUS
<1>1. ZoneOK
    BY SyncAssumption DEF Init, ZoneOK
<1>2. SyncOK
    BY IdleRow DEF Init, SyncOK, GoodRow
<1>3. want \in [Names -> AnyValue]
    BY WantedValues DEF Init
<1>4. RestOK
    BY <1>3, SyncAssumption DEF Init, RestOK
<1> QED
    BY <1>1, <1>2, <1>4 DEF TypeInv

-----------------------------------------------------------------------------
(***************************************************************************)
(* What was made by hand.                                                  *)
(***************************************************************************)

\* Lists get no longer but for the zone itself.
NoNewEntries ==
    \A s \in Syncs : sync'[s].list \subseteq sync[s].list \/ sync'[s].list = zone

\* The step of a sync lists the zone or shortens its list.
LEMMA EntriesOld ==
    ASSUME TypeInv, [Next]_vars
    PROVE  NoNewEntries
<1>1. ASSUME NEW s \in Syncs, SyncShape(s) PROVE NoNewEntries
    BY <1>1 DEF SyncShape, Rests, Lists, Reports, FindsNone, FindsRight, Creates,
       Updates, Removes, Finishes, GoesOn, Others, NoNewEntries
<1>2. CASE ByHand
    BY <1>2 DEF ByHand, NoNewEntries
<1>3. CASE UNCHANGED sync
    BY <1>3 DEF NoNewEntries
<1> QED
    BY <1>1, <1>2, <1>3, StepShapes DEF StepShape

\* An unmarked record of the new zone was in the old one, or is new.
UnmarkedIsOld ==
    \A r \in zone' : ~r.mark => r \in zone \/ r.id = lastId + 1

\* Only a change by hand makes unmarked records, and with a new id.
LEMMA UnmarkedOld ==
    ASSUME TypeInv, [Next]_vars
    PROVE  UnmarkedIsOld
<1>1. ASSUME NEW s \in Syncs, SyncShape(s) PROVE UnmarkedIsOld
    <2>1. CASE zone' = zone
        BY <2>1 DEF UnmarkedIsOld
    <2>2. ASSUME NEW n \in Names, NEW failed, Creates(s, n, failed)
          PROVE  UnmarkedIsOld
        BY <2>2 DEF Creates, CreateRecord, Record, UnmarkedIsOld
    <2>3. ASSUME NEW n \in Names, NEW r, NEW failed, Updates(s, n, r, failed)
          PROVE  UnmarkedIsOld
        BY <2>3 DEF Updates, UpdateRecord, Replaced, Record, UnmarkedIsOld
    <2>4. ASSUME NEW r, NEW failed, Removes(s, r, failed)
          PROVE  UnmarkedIsOld
        BY <2>4 DEF Removes, DeleteRecord, NoWrite, UnmarkedIsOld
    <2> QED
        BY <1>1, <2>1, <2>2, <2>3, <2>4
        DEF SyncShape, Rests, Lists, Reports, FindsNone, FindsRight, NoWrite
<1>2. CASE ByHand
    <2>1. ASSUME NEW n, NEW v, NEW drift, AddByHand(n, v, drift)
          PROVE  UnmarkedIsOld
        BY <2>1 DEF AddByHand, Record, UnmarkedIsOld
    <2>2. ASSUME NEW r, zone' = zone \ {r} PROVE UnmarkedIsOld
        BY <2>2 DEF UnmarkedIsOld
    <2>3. ASSUME NEW r, NEW v, NEW drift, EditByHand(r, v, drift)
          PROVE  UnmarkedIsOld
        BY <2>3 DEF EditByHand, Record, UnmarkedIsOld
    <2> QED
        BY <1>2, <2>1, <2>2, <2>3 DEF ByHand
<1>3. CASE UNCHANGED zone
    BY <1>3 DEF UnmarkedIsOld
<1> QED
    BY <1>1, <1>2, <1>3, StepShapes DEF StepShape

\* The copies of unmarked records stay what the records are.
LEMMA ListedStep == TypeInv /\ Listed /\ [Next]_vars => Listed'
<1> SUFFICES ASSUME TypeInv, Listed, [Next]_vars,
                    NEW s \in Syncs, NEW l \in sync'[s].list, NEW r \in zone',
                    l.id = r.id, ~r.mark
             PROVE  l = r
    BY DEF Listed
<1>1. l \in sync[s].list \/ l \in zone
    BY EntriesOld DEF NoNewEntries
<1>2. lastId \in Nat /\ l.id \in Nat /\ l.id <= lastId
    <2>1. CASE l \in sync[s].list
        BY <2>1, SyncAssumption DEF TypeInv, SyncOK, SyncRow, ZoneOK, Row
    <2>2. CASE l \in zone
        BY <2>2, SyncAssumption DEF TypeInv, ZoneOK, Row
    <2> QED
        BY <1>1, <2>1, <2>2
<1>3. r \in zone
    BY <1>2, UnmarkedOld DEF UnmarkedIsOld
<1> QED
    BY <1>1, <1>3 DEF Listed, TypeInv, ZoneOK

\* A record made by hand was given its id when it was made, and whatever has
\* that id, in the zone or in a list, is under its name.
HandInv ==
    /\ adopted \subseteq 1..lastId
    /\ \A h \in hand : h.id \in 1..lastId /\ ~h.mark
    /\ \A h \in hand, q \in zone : q.id = h.id => q.name = h.name
    /\ \A h \in hand, s \in Syncs : \A l \in sync[s].list :
           l.id = h.id => l.name = h.name

\* What the step of a sync does to the zone and to what was made by hand.
LEMMA SyncWrites ==
    ASSUME TypeInv, HandInv, NEW s \in Syncs, SyncShape(s)
    PROVE  /\ hand' = hand /\ lastId' \in {lastId, lastId + 1}
           /\ \/ zone' = zone /\ adopted' = adopted
              \/ \E n \in Names : \E v \in Wanted[n] :
                   /\ zone' = zone \cup {Record(lastId + 1, n, v, TRUE, FALSE)}
                   /\ lastId' = lastId + 1 /\ adopted' = adopted
              \/ \E n \in Names, l \in sync[s].list, failed \in BOOLEAN :
                   /\ l \in Row /\ Updates(s, n, l, failed)
                   /\ lastId' = lastId
              \/ \E l \in ToRetire(s) :
                   /\ zone' = {q \in zone : q.id # l.id}
                   /\ lastId' = lastId /\ adopted' = adopted
<1>1. CASE Rests(s) \/ Lists(s) \/ Reports(s) \/ FindsNone(s)
    BY <1>1 DEF Rests, Lists, Reports, FindsNone, NoWrite
<1>2. ASSUME NEW n \in Names, NEW failed \in BOOLEAN, FindsRight(s, n, failed)
      PROVE  hand' = hand /\ lastId' = lastId /\ zone' = zone
             /\ adopted' = adopted
    BY <1>2 DEF FindsRight, NoWrite
<1>3. ASSUME NEW n \in Names, NEW failed \in BOOLEAN, Creates(s, n, failed)
      PROVE  /\ hand' = hand /\ lastId' = lastId + 1 /\ adopted' = adopted
             /\ \E v \in Wanted[n] :
                  zone' = zone \cup {Record(lastId + 1, n, v, TRUE, FALSE)}
    BY <1>3 DEF Creates, Finishes, CreateRecord
<1>4. ASSUME NEW n \in Names, NEW l \in Row, NEW failed \in BOOLEAN,
             Updates(s, n, l, failed)
      PROVE  hand' = hand /\ lastId' = lastId /\ l \in sync[s].list
    BY <1>4 DEF Updates, UpdateRecord, ListedAt
<1>5. ASSUME NEW l \in Row, NEW failed \in BOOLEAN, Removes(s, l, failed)
      PROVE  /\ hand' = hand /\ lastId' = lastId /\ adopted' = adopted
             /\ l \in ToRetire(s)
             /\ zone' = zone \/ zone' = {q \in zone : q.id # l.id}
    BY <1>5 DEF Removes, DeleteRecord, NoWrite
<1> QED
    BY <1>1, <1>2, <1>3, <1>4, <1>5 DEF SyncShape

\* An update writes under the name of the record it replaces.
LEMMA UpdateWrites ==
    ASSUME TypeInv, NEW s \in Syncs, NEW n \in Names, NEW l \in Row,
           NEW failed \in BOOLEAN, Updates(s, n, l, failed)
    PROVE  /\ l \in sync[s].list /\ l.name = n
           /\ sync[s].input[n] \in Wanted[n] \ {None}
           /\ IsOurRecord(n, sync[s].input[n], l)
           /\ \E q \in zone' : q.id = l.id
           /\ \A q \in zone' : q.id = l.id => q.name = l.name /\ q.mark
           /\ \A q \in zone : q.id # l.id => q \in zone'
           /\ \A q \in zone' : q.id # l.id => q \in zone
           /\ adopted \subseteq adopted'
           /\ \A h \in hand : h.id = l.id => h.id \in adopted'
           /\ \A i \in adopted' : i \in adopted \/ \E h \in hand : h.id = i
<1> DEFINE v == sync[s].input[n]
           new == Record(l.id, l.name, v, TRUE, FALSE)
<1>1. /\ l \in sync[s].list /\ l.name = n /\ v \in Wanted[n] \ {None}
      /\ IsOurRecord(n, v, l) /\ UpdateRecord(s, l, v)
    BY DEF Updates, Finishes, ListedAt
<1>2. /\ new \in zone'
      /\ \A q \in zone : q.id # l.id => q \in zone'
      /\ \A q \in zone' : q.id # l.id => q \in zone
      /\ \A q \in zone' : q.id = l.id => q = new
    BY <1>1, UpdateEffect DEF TypeInv
<1>3. new.id = l.id /\ new.name = l.name /\ new.mark
    BY DEF Record
<1>4. adopted' = adopted \cup {h.id : h \in {g \in hand : g.id = l.id}}
    BY <1>1 DEF UpdateRecord
<1> HIDE DEF new
<1>5. /\ adopted \subseteq adopted'
      /\ \A h \in hand : h.id = l.id => h.id \in adopted'
      /\ \A i \in adopted' : i \in adopted \/ \E h \in hand : h.id = i
    BY <1>4
<1>6. /\ \E q \in zone' : q.id = l.id
      /\ \A q \in zone' : q.id = l.id => q.name = l.name /\ q.mark
    BY <1>2, <1>3
<1> QED
    BY <1>1, <1>2, <1>5, <1>6

\* Ids are given out once, so they keep their names.
LEMMA HandStep == TypeInv /\ HandInv /\ [Next]_vars => HandInv'
<1> SUFFICES ASSUME TypeInv, HandInv, [Next]_vars PROVE HandInv'
    OBVIOUS
<1>1. /\ lastId \in Nat /\ lastId' \in Nat /\ TypeInv' /\ StepShape
      /\ NoNewEntries
    BY StepShapes, EntriesOld, SyncAssumption DEF TypeInv, ZoneOK
<1>2. /\ \A q \in zone : q.id \in 1..lastId
      /\ \A s \in Syncs : \A l \in sync[s].list : l.id \in Nat /\ l.id <= lastId
    BY DEF TypeInv, ZoneOK, SyncOK, SyncRow, Row
\* The lists only ever hold what the old zone and the old lists did.
<1>3. ASSUME NEW h \in hand, NEW s \in Syncs, NEW l \in sync'[s].list, l.id = h.id
      PROVE  l.name = h.name
    BY <1>1, <1>3 DEF HandInv, NoNewEntries
\* A step that leaves alone what was made by hand, or forgets some of it.
<1>4. ASSUME hand' \subseteq hand, lastId' \in {lastId, lastId + 1},
             \A i \in adopted' : i \in adopted \/ \E h \in hand : h.id = i,
             \A h \in hand, q \in zone' : q.id = h.id => q.name = h.name
      PROVE  HandInv'
    <2>1. \A h \in hand' : h.id \in 1..lastId' /\ ~h.mark
        BY <1>1, <1>4 DEF HandInv
    <2>2. adopted' \subseteq 1..lastId'
        <3>1. \A i \in 1..lastId : i \in 1..lastId'
            BY <1>1, <1>4
        <3>2. \A i \in adopted' : i \in 1..lastId
            BY <1>4 DEF HandInv
        <3> QED
            BY <3>1, <3>2
    <2>3. \A h \in hand', s \in Syncs : \A l \in sync'[s].list :
              l.id = h.id => l.name = h.name
        BY <1>3, <1>4
    <2>4. \A h \in hand', q \in zone' : q.id = h.id => q.name = h.name
        BY <1>4
    <2> QED
        BY <2>1, <2>2, <2>3, <2>4 DEF HandInv
<1>5. ASSUME NEW s \in Syncs, SyncShape(s) PROVE HandInv'
    <2>1. hand' = hand /\ lastId' \in {lastId, lastId + 1}
        BY <1>5, SyncWrites
    <2>2. CASE zone' \subseteq zone /\ adopted' = adopted
        BY <1>4, <2>1, <2>2 DEF HandInv
    <2>3. ASSUME NEW n \in Names, NEW v \in Wanted[n], adopted' = adopted,
                 zone' = zone \cup {Record(lastId + 1, n, v, TRUE, FALSE)}
          PROVE  HandInv'
        <3> DEFINE new == Record(lastId + 1, n, v, TRUE, FALSE)
        <3>1. new.id = lastId + 1
            BY DEF Record
        <3>2. \A h \in hand : h.id # new.id
            <4>1. lastId + 1 \notin 1..lastId
                BY <1>1
            <4> QED
                BY <3>1, <4>1 DEF HandInv
        <3> HIDE DEF new
        <3>3. zone' = zone \cup {new}
            BY <2>3 DEF new
        <3>4. \A h \in hand, q \in zone' : q.id = h.id => q.name = h.name
            BY <3>2, <3>3 DEF HandInv
        <3> QED
            BY <1>4, <2>1, <2>3, <3>4
    <2>4. ASSUME NEW n \in Names, NEW l \in Row, NEW failed \in BOOLEAN,
                 Updates(s, n, l, failed)
          PROVE  HandInv'
        <3>1. \A h \in hand, q \in zone' : q.id = h.id => q.name = h.name
          <4> SUFFICES ASSUME NEW h \in hand, NEW q \in zone', q.id = h.id
                       PROVE  q.name = h.name
              OBVIOUS
          <4>1. CASE q.id = l.id
            <5>1. q.name = l.name /\ l \in sync[s].list
                BY <2>4, <4>1, UpdateWrites
            <5> QED
                BY <4>1, <5>1 DEF HandInv
          <4>2. CASE q.id # l.id
            <5>1. q \in zone
                BY <2>4, <4>2, UpdateWrites
            <5> QED
                BY <5>1 DEF HandInv
          <4> QED
              BY <4>1, <4>2
        <3>2. \A i \in adopted' : i \in adopted \/ \E h \in hand : h.id = i
            BY <2>4, UpdateWrites
        <3> QED
            BY <1>4, <2>1, <3>1, <3>2
    <2> QED
        BY <1>5, <2>2, <2>3, <2>4, SyncWrites
<1>6. CASE ByHand
    <2>1. adopted' = adopted /\ sync' = sync
        BY <1>6 DEF ByHand
    <2>2. ASSUME NEW n \in Names, NEW v, NEW drift, AddByHand(n, v, drift)
          PROVE  HandInv'
        <3> DEFINE new == Record(lastId + 1, n, v, FALSE, drift)
        <3>1. new.id = lastId + 1 /\ new.mark = FALSE /\ new.name = n
            BY DEF Record
        <3>2. /\ zone' = zone \cup {new} /\ hand' = hand \cup {new}
              /\ lastId' = lastId + 1
            BY <2>2 DEF AddByHand
        <3> HIDE DEF new
        <3>3. /\ \A h \in hand : h.id # new.id
              /\ \A q \in zone : q.id # new.id
              /\ \A s \in Syncs : \A l \in sync[s].list : l.id # new.id
            BY <1>1, <1>2, <3>1 DEF HandInv
        <3>4. \A h \in hand' : h.id \in 1..lastId' /\ ~h.mark
            BY <1>1, <3>1, <3>2 DEF HandInv
        <3>5. adopted' \subseteq 1..lastId'
            BY <1>1, <2>1, <3>2 DEF HandInv
        <3>6. \A h \in hand', q \in zone' : q.id = h.id => q.name = h.name
            BY <3>2, <3>3 DEF HandInv
        <3>7. \A h \in hand', s \in Syncs : \A l \in sync'[s].list :
                  l.id = h.id => l.name = h.name
            BY <2>1, <3>2, <3>3 DEF HandInv
        <3> QED
            BY <3>4, <3>5, <3>6, <3>7 DEF HandInv
    <2>3. ASSUME NEW r \in zone, hand' = {h \in hand : h.id # r.id},
                 lastId' = lastId,
                 \A q \in zone' : q \in zone \/ (q.id = r.id /\ q.name = r.name)
          PROVE  HandInv'
        BY <1>4, <2>1, <2>3 DEF HandInv
    <2>4. ASSUME NEW r \in zone, NEW v, NEW drift, EditByHand(r, v, drift)
          PROVE  \A q \in zone' : q \in zone \/ (q.id = r.id /\ q.name = r.name)
        BY <2>4 DEF EditByHand, Record
    <2>5. CASE \E r \in {q \in zone : q.mark} :
                 /\ \/ zone' = zone \ {r}
                    \/ \E v \in HandValues(r.name), drift \in HandDrift(r.name) :
                         EditByHand(r, v, drift)
                 /\ hand' = {h \in hand : h.id # r.id}
                 /\ UNCHANGED lastId
        BY <2>3, <2>4, <2>5
    <2> QED
        BY <1>6, <2>2, <2>5 DEF ByHand
<1>7. CASE UNCHANGED <<zone, lastId, sync, disturbed, hand, adopted>>
    BY <1>4, <1>7 DEF HandInv
<1> QED
    BY <1>1, <1>5, <1>6, <1>7 DEF StepShape

\* Zone and syncs keep their types, and an id names one record.
THEOREM TypeCorrect == Spec => []TypeOK
<1>1. ASSUME TypeInv, HandInv PROVE TypeOK
    <2>1. \A r \in zone : /\ r = Record(r.id, r.name, r.value, r.mark, r.drift)
                          /\ r.name \in Names
                          /\ r.mark \in BOOLEAN /\ r.drift \in BOOLEAN
        BY <1>1 DEF TypeInv, ZoneOK, Row, Record
    <2>2. \A s \in Syncs :
             /\ sync[s].pc \in {"idle", "list", "write"}
             /\ sync[s].left \subseteq Names
             /\ sync[s].status \in {"none", "PARTIAL", "DRIFT", "VERIFIED"}
        BY <1>1 DEF TypeInv, SyncOK, SyncRow
    <2>3. \A s \in Syncs : \A n \in Names :
             sync[s].input[n] \in Values(n) \cup {None}
        BY <1>1 DEF TypeInv, SyncOK, Values
    <2> QED
        BY <1>1, <2>1, <2>2, <2>3 DEF TypeInv, ZoneOK, RestOK, HandInv, TypeOK
<1>2. Init => HandInv
    BY IdleRow DEF Init, HandInv
<1> QED
    BY <1>1, <1>2, TypeInit, StepShapes, HandStep, PTL DEF Spec

\* A sync updates what its list says is ours and removes what its list says is
\* marked; neither is a record of somebody else's.
LEMMA HandMadeStep ==
    TypeInv /\ HandInv /\ Listed /\ HandMadeIsKept /\ [Next]_vars
        => HandMadeIsKept'
<1> SUFFICES ASSUME TypeInv, HandInv, Listed, HandMadeIsKept, [Next]_vars,
                    NEW r \in hand', r \notin zone'
             PROVE  /\ r.value # Other /\ r.id \in adopted'
                    /\ r.name # Bimi => \E q \in zone' : q.id = r.id
    BY DEF HandMadeIsKept
<1> DEFINE Goal == /\ r.value # Other /\ r.id \in adopted'
                   /\ r.name # Bimi => \E q \in zone' : q.id = r.id
<1>1. ASSUME r \in hand
      PROVE  /\ r.id \in Nat /\ ~r.mark /\ r.id <= lastId /\ lastId \in Nat
             /\ r \notin zone => /\ r.value # Other /\ r.id \in adopted
                                 /\ r.name # Bimi => \E q \in zone : q.id = r.id
    BY <1>1, SyncAssumption DEF HandInv, HandMadeIsKept, TypeInv, ZoneOK
<1>2. ASSUME NEW s \in Syncs, SyncShape(s) PROVE Goal
    <2>1. hand' = hand /\ r \in hand
        BY <1>2, SyncWrites
    <2>2. CASE zone' = zone /\ adopted' = adopted
        BY <1>1, <2>1, <2>2
    <2>3. ASSUME NEW new, zone' = zone \cup {new}, adopted' = adopted PROVE Goal
        BY <1>1, <2>1, <2>3
    <2>4. ASSUME NEW n \in Names, NEW l \in Row, NEW failed \in BOOLEAN,
                 Updates(s, n, l, failed)
          PROVE  Goal
        <3>1. CASE r \in zone
          <4>1. l.id = r.id /\ l \in sync[s].list
              BY <2>4, <3>1, UpdateWrites
          <4>2. l = r
              BY <1>1, <2>1, <3>1, <4>1 DEF Listed
          <4>3. r.value # Other
            <5>1. IsOurRecord(n, sync[s].input[n], r) /\ ~r.mark
                  /\ sync[s].input[n] \in Wanted[n]
                BY <1>1, <2>1, <2>4, <4>2, UpdateWrites
            <5> QED
                BY <5>1, SyncAssumption DEF IsOurRecord
          <4>4. r.id \in adopted' /\ \E q \in zone' : q.id = r.id
              BY <2>1, <2>4, <4>1, UpdateWrites
          <4> QED
              BY <4>3, <4>4
        <3>2. CASE r \notin zone
          <4>1. /\ r.value # Other /\ r.id \in adopted'
              BY <1>1, <2>1, <2>4, <3>2, UpdateWrites
          <4>2. ASSUME r.name # Bimi PROVE \E q \in zone' : q.id = r.id
            <5>1. PICK q \in zone : q.id = r.id
                BY <1>1, <2>1, <3>2, <4>2
            <5>2. CASE q.id = l.id
                BY <2>4, <5>1, <5>2, UpdateWrites
            <5>3. CASE q.id # l.id
                BY <2>4, <5>1, <5>3, UpdateWrites
            <5> QED
                BY <5>2, <5>3
          <4> QED
              BY <4>1, <4>2
        <3> QED
            BY <3>1, <3>2
    <2>5. ASSUME NEW l \in ToRetire(s), zone' = {q \in zone : q.id # l.id},
                 adopted' = adopted
          PROVE  Goal
        <3>1. l \in sync[s].list /\ l.name = Bimi /\ l.mark
            BY DEF ToRetire
        <3>2. r \notin zone
            BY <1>1, <2>1, <2>5, <3>1 DEF Listed
        <3>3. ASSUME r.name # Bimi PROVE \E q \in zone' : q.id = r.id
          <4>1. PICK q \in zone : q.id = r.id
              BY <1>1, <2>1, <3>2, <3>3
          <4>2. l.id # r.id
              BY <2>1, <3>1, <3>3 DEF HandInv
          <4> QED
              BY <2>5, <4>1, <4>2
        <3> QED
            BY <1>1, <2>1, <2>5, <3>2, <3>3
    <2>6. \/ zone' = zone /\ adopted' = adopted
          \/ \E new : zone' = zone \cup {new} /\ adopted' = adopted
          \/ \E n \in Names, l \in Row, failed \in BOOLEAN :
                Updates(s, n, l, failed)
          \/ \E l \in ToRetire(s) :
                zone' = {q \in zone : q.id # l.id} /\ adopted' = adopted
        BY <1>2, SyncWrites
    <2> HIDE DEF Goal
    <2> QED
        BY <2>2, <2>3, <2>4, <2>5, <2>6
<1>3. CASE ByHand
    <2>1. adopted' = adopted
        BY <1>3 DEF ByHand
    <2>2. ASSUME NEW n, NEW v, NEW drift, AddByHand(n, v, drift) PROVE Goal
        <3>1. r \in hand /\ zone \subseteq zone'
            BY <2>2 DEF AddByHand
        <3> QED
            BY <1>1, <2>1, <3>1
    <2>3. ASSUME NEW k \in zone, hand' = {h \in hand : h.id # k.id},
                 \A q \in zone : q = k \/ q \in zone'
          PROVE  Goal
        <3>1. r \in hand /\ r.id # k.id
            BY <2>3
        <3> QED
            BY <1>1, <2>1, <2>3, <3>1
    <2>4. ASSUME NEW k \in zone, NEW v, NEW drift, EditByHand(k, v, drift)
          PROVE  \A q \in zone : q = k \/ q \in zone'
        BY <2>4 DEF EditByHand
    <2> QED
        BY <1>3, <2>2, <2>3, <2>4 DEF ByHand
<1>4. CASE UNCHANGED <<zone, lastId, sync, disturbed, hand, adopted>>
    BY <1>1, <1>4
<1> QED
    BY <1>2, <1>3, <1>4, StepShapes DEF StepShape

\* For its whole life what was made by hand stays as it was made if it has
\* nothing of ours, and is not removed unless it was taken over first, whatever
\* syncs run side by side on lists however old, and whatever fails.
THEOREM HandMadeKept == Spec => []HandMadeIsKept
<1>1. Init => Listed /\ HandInv /\ HandMadeIsKept
    BY IdleRow DEF Init, Listed, HandInv, HandMadeIsKept
<1> QED
    BY <1>1, TypeInit, StepShapes, ListedStep, HandStep, HandMadeStep, PTL
    DEF Spec

-----------------------------------------------------------------------------
(***************************************************************************)
(* What VERIFIED means.                                                    *)
(***************************************************************************)

\* While sync s works undisturbed: its list is the zone where it has yet to
\* write, and the zone is right where it has written.
WalkedBy(s) ==
    Undisturbed(s) =>
        /\ \A n \in sync[s].left : At(n) = ListedAt(s, n)
        /\ \A n \in Names \ sync[s].left : Right(n, sync[s].input[n])

VerifiedBy(s) ==
    sync[s].status = "VERIFIED" /\ s \notin disturbed =>
        \A n \in Names : Right(n, sync[s].input[n])

\* Nothing that concerns sync s happens.
LEMMA Unconcerned ==
    ASSUME NEW s \in Syncs, WalkedBy(s), VerifiedBy(s),
           sync'[s] = sync[s], s \notin disturbed' => zone' = zone,
           s \notin disturbed' => s \notin disturbed
    PROVE  WalkedBy(s)' /\ VerifiedBy(s)'
BY DEF WalkedBy, VerifiedBy, Undisturbed, At, ListedAt, Right

\* Another sync works: if it writes, s counts as disturbed.
LEMMA OtherWorks ==
    ASSUME NEW s \in Syncs, WalkedBy(s), VerifiedBy(s),
           NEW t \in Syncs \ {s}, SyncShape(t)
    PROVE  WalkedBy(s)' /\ VerifiedBy(s)'
<1>1. sync'[s] = sync[s]
    BY DEF SyncShape, Rests, Lists, Reports, FindsNone, FindsRight, Creates,
       Updates, Removes, Finishes, GoesOn, Others
<1>2. s \notin disturbed' => zone' = zone
    BY DEF SyncShape, Rests, Lists, Reports, FindsNone, FindsRight, Creates,
       Updates, Removes, NoWrite, CreateRecord, UpdateRecord, DeleteRecord,
       Disturbs
<1>3. s \notin disturbed' => s \notin disturbed
    BY DEF SyncShape, Rests, Lists, Reports, FindsNone, FindsRight, Creates,
       Updates, Removes, NoWrite, CreateRecord, UpdateRecord, DeleteRecord,
       Disturbs
<1> QED
    BY <1>1, <1>2, <1>3, Unconcerned

\* Sync s is through with name n, which is right now, and has not touched the
\* records of any other.
LEMMA OneMoreRight ==
    ASSUME TypeInv, NEW s \in Syncs, WalkedBy(s), NEW n \in Names,
           NEW failed \in BOOLEAN, Undisturbed(s)',
           GoesOn(s, sync[s].list, sync[s].left \ {n}, failed),
           s \notin disturbed, Right(n, sync[s].input[n])',
           \A k \in Names \ {n} : At(k)' = At(k)
    PROVE  WalkedBy(s)'
<1>1. Undisturbed(s)
    BY DEF Undisturbed, GoesOn
<1>2. /\ sync'[s].left = sync[s].left \ {n} /\ sync'[s].input = sync[s].input
      /\ sync'[s].list = sync[s].list
    BY DEF GoesOn
<1>3. \A k : ListedAt(s, k)' = ListedAt(s, k)
    BY <1>2 DEF ListedAt
<1>4. ASSUME NEW k \in Names \ {n}, NEW v
      PROVE  Right(k, v)' <=> Right(k, v)
    BY <1>4 DEF Right
<1>5. \A k \in sync'[s].left : k # n /\ k \in sync[s].left /\ k \in Names
    BY <1>2 DEF TypeInv, SyncOK, SyncRow
<1>6. \A k \in sync[s].left : At(k) = ListedAt(s, k)
    BY <1>1 DEF WalkedBy
<1>7. \A k \in Names \ sync[s].left : Right(k, sync[s].input[k])
    BY <1>1 DEF WalkedBy
<1>8. \A k \in Names \ sync'[s].left : Right(k, sync[s].input[k])'
    BY <1>2, <1>4, <1>7
<1> QED
    BY <1>2, <1>3, <1>5, <1>6, <1>8 DEF WalkedBy

\* Sync s itself works: what it writes is what is missing, and what it removes
\* is what its list and the zone have in common.
LEMMA ItselfWorks ==
    ASSUME TypeInv, NEW s \in Syncs, WalkedBy(s), SyncShape(s), Undisturbed(s)'
    PROVE  WalkedBy(s)'
<1>0. s \notin disturbed' /\ sync'[s].pc = "write" /\ ~sync'[s].problems
    BY DEF Undisturbed
<1>1. CASE Lists(s)
    <2>1. \A n : At(n)' = ListedAt(s, n)'
        BY <1>1 DEF Lists, At, ListedAt
    <2> QED
        BY <1>1, <2>1 DEF Lists, WalkedBy
<1>2. CASE Rests(s) \/ Reports(s)
    BY <1>0, <1>2 DEF Rests, Reports
<1>3. ASSUME Undisturbed(s)
      PROVE  /\ \A n \in sync[s].left : At(n) = ListedAt(s, n)
             /\ \A n \in Names \ sync[s].left : Right(n, sync[s].input[n])
    BY <1>3 DEF WalkedBy
<1>4. ASSUME NEW list, NEW left, NEW failed \in BOOLEAN,
             GoesOn(s, list, left, failed), s \notin disturbed
      PROVE  Undisturbed(s) /\ ~failed
    BY <1>0, <1>4 DEF GoesOn, Undisturbed
<1>5. ASSUME NEW n \in Names, NEW failed \in BOOLEAN, FindsRight(s, n, failed)
      PROVE  WalkedBy(s)'
    <2>1. /\ n \in sync[s].left /\ sync[s].input[n] # None
          /\ GoesOn(s, sync[s].list, sync[s].left \ {n}, failed)
          /\ zone' = zone /\ s \notin disturbed
        BY <1>0, <1>5 DEF FindsRight, Finishes, NoWrite
    <2>2. At(n) = ListedAt(s, n) /\ ~failed
        BY <1>3, <1>4, <2>1
    <2>3. PICK r \in At(n) : r.value = sync[s].input[n]
        BY <1>5, <2>2 DEF FindsRight
    <2>4. \A k : At(k)' = At(k)
        BY <2>1 DEF At
    <2>5. sync'[s].input = sync[s].input
        BY <2>1 DEF GoesOn
    <2>6. Right(n, sync[s].input[n])'
        BY <2>1, <2>3, <2>4, <2>5 DEF Right
    <2> QED
        BY <2>1, <2>4, <2>6, OneMoreRight
<1>6. ASSUME NEW n \in Names, NEW failed \in BOOLEAN, Creates(s, n, failed)
      PROVE  WalkedBy(s)'
    <2> DEFINE v == sync[s].input[n]
               new == Record(lastId + 1, n, v, TRUE, FALSE)
    <2>1. /\ v # None
          /\ GoesOn(s, sync[s].list, sync[s].left \ {n}, failed)
          /\ zone' = zone \cup {new} /\ s \notin disturbed
        BY <1>0, <1>6 DEF Creates, Finishes, CreateRecord, Disturbs
    <2>2. new.name = n /\ new.value = v
        BY DEF Record
    <2> HIDE DEF new
    <2>3. new \in At(n)' /\ \A k \in Names \ {n} : At(k)' = At(k)
        BY <2>1, <2>2 DEF At
    <2>4. sync'[s].input = sync[s].input
        BY <2>1 DEF GoesOn
    <2>5. Right(n, sync[s].input[n])'
        BY <2>1, <2>2, <2>3, <2>4 DEF Right
    <2> QED
        BY <2>1, <2>3, <2>5, OneMoreRight
<1>7. ASSUME NEW n \in Names, NEW r \in Row, NEW failed \in BOOLEAN,
             Updates(s, n, r, failed)
      PROVE  WalkedBy(s)'
    <2> DEFINE v == sync[s].input[n]
               new == Record(r.id, r.name, v, TRUE, FALSE)
    <2>1. /\ n \in sync[s].left /\ v \in Wanted[n] \ {None}
          /\ GoesOn(s, sync[s].list, sync[s].left \ {n}, failed)
          /\ r \in ListedAt(s, n) /\ r.name = n
          /\ UpdateRecord(s, r, v) /\ s \notin disturbed
        BY <1>0, <1>7 DEF Updates, Finishes, UpdateRecord, Disturbs, ListedAt
    <2>2. r \in zone
        BY <1>3, <1>4, <2>1 DEF At
    <2>3. \A q \in zone : q.id = r.id => q.name = n
        BY <2>1, <2>2 DEF TypeInv, ZoneOK
    <2>4. new.name = n /\ new.value = v
        BY <2>1 DEF Record
    <2>5. /\ new \in zone'
          /\ \A q \in zone : q.id # r.id => q \in zone'
          /\ \A q \in zone' : q.id # r.id => q \in zone
          /\ \A q \in zone' : q.id = r.id => q = new
        BY <2>1, UpdateEffect DEF TypeInv
    <2> HIDE DEF new
    <2>6. new \in At(n)' /\ \A k \in Names \ {n} : At(k)' = At(k)
        BY <2>3, <2>4, <2>5 DEF At
    <2>7. sync'[s].input = sync[s].input
        BY <2>1 DEF GoesOn
    <2>8. Right(n, sync[s].input[n])'
        BY <2>1, <2>4, <2>6, <2>7 DEF Right
    <2> QED
        BY <2>1, <2>6, <2>8, OneMoreRight
<1>8. CASE FindsNone(s)
    <2>1. /\ Bimi \in Names /\ FALSE \in BOOLEAN
          /\ Bimi \in sync[s].left /\ sync[s].input[Bimi] = None
          /\ GoesOn(s, sync[s].list, sync[s].left \ {Bimi}, FALSE)
          /\ zone' = zone /\ s \notin disturbed
        BY <1>0, <1>8, SyncAssumption DEF FindsNone, NoWrite
    <2>2. At(Bimi) = ListedAt(s, Bimi)
        BY <1>3, <1>4, <2>1
    <2>3. \A r \in At(Bimi) : ~r.mark
        BY <1>8, <2>2 DEF FindsNone, ToRetire, ListedAt
    <2>4. \A k : At(k)' = At(k)
        BY <2>1 DEF At
    <2>5. sync'[s].input = sync[s].input
        BY <2>1 DEF GoesOn
    <2>6. Right(Bimi, sync[s].input[Bimi])'
        BY <2>1, <2>3, <2>4, <2>5 DEF Right
    <2> QED
        BY <2>1, <2>4, <2>6, OneMoreRight
<1>9. ASSUME NEW r \in Row, NEW failed \in BOOLEAN, Removes(s, r, failed)
      PROVE  WalkedBy(s)'
    <2>1. /\ GoesOn(s, sync[s].list \ {r}, sync[s].left, failed)
          /\ sync[s].left = {Bimi} /\ s \notin disturbed
          /\ r \in ListedAt(s, Bimi) /\ r.name = Bimi
        BY <1>0, <1>9 DEF Removes, DeleteRecord, NoWrite, Disturbs, ToRetire,
           ListedAt
    <2>2. Undisturbed(s) /\ ~failed
        BY <1>4, <2>1
    <2>3. At(Bimi) = ListedAt(s, Bimi) /\ r \in zone
        BY <1>3, <2>1, <2>2 DEF At
    <2>4. zone' = zone \ {r}
        BY <1>9, <2>2, <2>3 DEF Removes, DeleteRecord, TypeInv, ZoneOK
    <2>5. /\ At(Bimi)' = At(Bimi) \ {r}
          /\ \A k \in Names \ {Bimi} : At(k)' = At(k)
        BY <2>1, <2>4 DEF At
    <2>6. /\ sync'[s].input = sync[s].input /\ sync'[s].left = {Bimi}
          /\ sync'[s].list = sync[s].list \ {r}
        BY <2>1 DEF GoesOn
    <2>7. ListedAt(s, Bimi)' = ListedAt(s, Bimi) \ {r}
        BY <2>6 DEF ListedAt
    <2>8. \A n \in Names \ {Bimi} : Right(n, sync[s].input[n])
        BY <1>3, <2>1, <2>2
    <2>9. \A n \in Names \ {Bimi} : Right(n, sync[s].input[n])'
        BY <2>5, <2>6, <2>8 DEF Right
    <2> QED
        BY <2>3, <2>5, <2>6, <2>7, <2>9 DEF WalkedBy
<1> QED
    BY <1>1, <1>2, <1>5, <1>6, <1>7, <1>8, <1>9 DEF SyncShape

\* The result of a sync is right when it is given.
LEMMA ItselfReports ==
    ASSUME TypeInv, TypeInv', NEW s \in Syncs, WalkedBy(s), SyncShape(s),
           sync'[s].status = "VERIFIED", s \notin disturbed'
    PROVE  \A n \in Names : Right(n, sync[s].input[n])'
<1>1. sync'[s].pc = "idle"
    BY DEF TypeInv, SyncOK
<1>2. Reports(s)
    BY <1>1 DEF SyncShape, Rests, Lists, FindsNone, FindsRight, Creates, Updates,
       Removes, Finishes, GoesOn
<1>3. /\ Undisturbed(s) /\ sync[s].left = {} /\ zone' = zone
      /\ sync'[s].input = sync[s].input
    BY <1>2 DEF Reports, NoWrite, Undisturbed
<1>4. \A n \in Names : Right(n, sync[s].input[n])
    BY <1>3 DEF WalkedBy
<1> QED
    BY <1>3, <1>4 DEF Right, At

\* Both hold for every sync after every step.
LEMMA VerifiedStep ==
    TypeInv /\ Walked /\ VerifiedMeansRight /\ [Next]_vars
        => Walked' /\ VerifiedMeansRight'
<1> SUFFICES ASSUME TypeInv, Walked, VerifiedMeansRight, [Next]_vars,
                    NEW s \in Syncs
             PROVE  WalkedBy(s)' /\ VerifiedBy(s)'
    BY DEF Walked, VerifiedMeansRight, WalkedBy, VerifiedBy
<1>1. WalkedBy(s) /\ VerifiedBy(s)
    BY DEF Walked, VerifiedMeansRight, WalkedBy, VerifiedBy
<1>2. TypeInv' /\ StepShape
    BY StepShapes
<1>3. CASE SyncShape(s)
    <2>1. WalkedBy(s)'
        <3>1. CASE Undisturbed(s)'
            BY <1>1, <1>3, <3>1, ItselfWorks
        <3>2. CASE ~Undisturbed(s)'
            BY <3>2 DEF WalkedBy
        <3> QED
            BY <3>1, <3>2
    <2>2. VerifiedBy(s)'
        BY <1>1, <1>2, <1>3, ItselfReports DEF VerifiedBy
    <2> QED
        BY <2>1, <2>2
<1>4. ASSUME NEW t \in Syncs \ {s}, SyncShape(t)
      PROVE  WalkedBy(s)' /\ VerifiedBy(s)'
    BY <1>1, <1>4, OtherWorks
<1>5. CASE ByHand
    BY <1>5 DEF ByHand, WalkedBy, VerifiedBy, Undisturbed
<1>6. CASE UNCHANGED <<zone, lastId, sync, disturbed, hand, adopted>>
    BY <1>1, <1>6, Unconcerned
<1> QED
    BY <1>2, <1>3, <1>4, <1>5, <1>6 DEF StepShape

\* A sync nobody else's writes disturbed that reports VERIFIED has left the
\* zone as it wanted it, for any set of wanted records and whatever failed or
\* ran beside it before.
THEOREM VerifiedIsRight == Spec => []VerifiedMeansRight
<1>1. Init => Walked /\ VerifiedMeansRight
    BY IdleRow DEF Init, Walked, Undisturbed, VerifiedMeansRight
<1> QED
    BY <1>1, TypeInit, StepShapes, VerifiedStep, PTL DEF Spec
=============================================================================
