------------------------------ MODULE DnsSync ------------------------------
(***************************************************************************)
(* The records of a domain's zone and the syncs that bring them to what    *)
(* the server wants: the periodic one and those an operator or a change of *)
(* logo asks for.  Each reads what is wanted, lists the zone once, writes  *)
(* record by record against that list, and asks public resolvers whether   *)
(* it can be seen.                                                         *)
(*                                                                         *)
(* A name stands for a record type and name.  A record is marked when it   *)
(* carries the server's comment; Other is a value that is none of the      *)
(* server's (another service's token, another host); drift says that the   *)
(* priority or the proxy flag, which TXT records do not have, is not the   *)
(* wanted one.                                                             *)
(***************************************************************************)
EXTENDS Integers, FiniteSets

CONSTANTS
    Timer, Buttons,  \* the periodic sync, and the syncs asked for
    Names,           \* type and name of the wanted records
    Txt,             \* the TXT names among them
    Shared,          \* names that may hold several records (TXT, MX, TLSA)
    Bimi,            \* the name that is not always wanted
    Wanted,          \* Wanted[n]: the values the server may want for a name
    LogoOnly,        \* the Bimi value without a certificate
    Other, None,     \* a foreign value; no value
    MaxIds,          \* bound: records ever created
    MaxChanges,      \* bound: changes of what is wanted
    MaxUpsets        \* bound: failed calls and changes in the zone by hand

Syncs == {Timer} \cup Buttons

ASSUME SyncAssumption ==
    /\ Txt \subseteq Shared /\ Shared \subseteq Names /\ Bimi \in Txt
    /\ DOMAIN Wanted = Names
    /\ \A n \in Names : Wanted[n] # {} /\ Other \notin Wanted[n]
    /\ \A n \in Names \ {Bimi} : None \notin Wanted[n]
    /\ LogoOnly \in Wanted[Bimi] \ {None}
    /\ MaxIds \in Nat /\ MaxChanges \in Nat /\ MaxUpsets \in Nat

VARIABLES
    zone,       \* the zone's records
    lastId,     \* the provider numbers them
    want,       \* what the server wants for each name
    sync,       \* the syncs
    disturbed,  \* syncs the zone changed under (observation)
    hand,       \* records made by hand, as they were made (observation)
    adopted,    \* ids of those among them a sync wrote over (observation)
    changes, upsets

vars == <<zone, lastId, want, sync, disturbed, hand, adopted, changes, upsets>>

Idle == [pc |-> "idle", input |-> [n \in Names |-> None], list |-> {},
         left |-> {}, problems |-> FALSE, status |-> "none"]

Init ==
    /\ zone = {}
    /\ lastId = 0
    /\ want \in [Names -> UNION {Wanted[n] : n \in Names}]
    /\ \A n \in Names : want[n] \in Wanted[n]
    /\ sync = [s \in Syncs |-> Idle]
    /\ disturbed = {}
    /\ hand = {} /\ adopted = {}
    /\ changes = 0 /\ upsets = 0

Upset == upsets < MaxUpsets /\ upsets' = upsets + 1

At(n) == {r \in zone : r.name = n}

-----------------------------------------------------------------------------
(***************************************************************************)
(* The provider.  A record identical to another is refused, and so is a    *)
(* change of one that is not there.                                        *)
(***************************************************************************)
Record(id, n, v, mark, drift) ==
    [id |-> id, name |-> n, value |-> v, mark |-> mark, drift |-> drift]

Taken(n, v, id) == \E r \in At(n) : r.value = v /\ r.id # id

Disturbs(s) == disturbed' = disturbed \cup (Syncs \ {s})

CreateOK(n, v) == ~Taken(n, v, 0) /\ lastId < MaxIds

CreateRecord(s, n, v) ==
    /\ CreateOK(n, v)
    /\ zone' = zone \cup {Record(lastId + 1, n, v, TRUE, FALSE)}
    /\ lastId' = lastId + 1
    /\ Disturbs(s)
    /\ UNCHANGED <<hand, adopted>>

UpdateOK(r, v) == (\E q \in zone : q.id = r.id) /\ ~Taken(r.name, v, r.id)

Replaced(r, v) ==
    {q \in zone : q.id # r.id} \cup {Record(r.id, r.name, v, TRUE, FALSE)}

UpdateRecord(s, r, v) ==
    /\ UpdateOK(r, v)
    /\ zone' = Replaced(r, v)
    /\ Disturbs(s)
    /\ adopted' = adopted \cup {h.id : h \in {g \in hand : g.id = r.id}}
    /\ UNCHANGED <<lastId, hand>>

DeleteRecord(s, r) ==
    /\ \E q \in zone : q.id = r.id
    /\ zone' = {q \in zone : q.id # r.id}
    /\ Disturbs(s)
    /\ UNCHANGED <<lastId, hand, adopted>>

NoWrite == UNCHANGED <<zone, lastId, disturbed, hand, adopted>>

-----------------------------------------------------------------------------
(***************************************************************************)
(* A sync reads what is wanted.  The logo that cannot be read is taken for *)
(* one without a certificate; keys that cannot be read end the sync.       *)
(***************************************************************************)
Begin(s) ==
    /\ sync[s].pc = "idle"
    /\ \/ /\ sync' = [sync EXCEPT ![s] = [Idle EXCEPT !.pc = "list",
                                                      !.input = want]]
          /\ UNCHANGED upsets
       \/ /\ Upset
          /\ sync' = [sync EXCEPT ![s] =
                        [Idle EXCEPT !.pc = "list",
                                     !.input = [want EXCEPT ![Bimi] = LogoOnly]]]
       \/ /\ Upset
          /\ sync' = [sync EXCEPT ![s] = Idle]
    /\ NoWrite
    /\ UNCHANGED <<want, changes>>

List(s) ==
    /\ sync[s].pc = "list"
    /\ \/ /\ sync' = [sync EXCEPT ![s].pc = "write", ![s].list = zone,
                                  ![s].left = Names]
          /\ disturbed' = disturbed \ {s}
          /\ UNCHANGED upsets
       \/ /\ Upset
          /\ sync' = [sync EXCEPT ![s] = Idle]
          /\ UNCHANGED disturbed
    /\ UNCHANGED <<zone, lastId, hand, adopted, want, changes>>

\* Mutant of IsOurRecord: whatever is found under a TXT name is ours.
IsOurRecordByName(n, v, r) == r.mark \/ n \in Txt \/ r.value = v

(***************************************************************************)
(* A record is ours by its comment; a TXT record also by its protocol tag, *)
(* any other by the wanted value, whoever made it: an update then leaves   *)
(* the comment on it.                                                      *)
(***************************************************************************)
IsOurRecord(n, v, r) ==
    r.mark \/ (IF n \in Txt THEN r.value # Other ELSE r.value = v)

\* Mutant of EqualsNormalized: priority and proxy flag are not compared.
EqualsValue(v, r) == r.value = v

EqualsNormalized(v, r) == r.value = v /\ ~r.drift

\* The call's outcome for the sync: done, failed, or done and its answer lost.
Called(s, n, failed) ==
    sync' = [sync EXCEPT ![s].left = @ \ {n}, ![s].problems = @ \/ failed]

(***************************************************************************)
(* One wanted record: unchanged, updated, blocked by a foreign one, or     *)
(* created.                                                                *)
(***************************************************************************)
Reconcile(s, n) ==
    LET v     == sync[s].input[n]
        found == {r \in sync[s].list : r.name = n}
        ours  == {r \in found : IsOurRecord(n, v, r)}
    IN
    /\ sync[s].pc = "write"
    /\ n \in sync[s].left
    /\ n = Bimi => sync[s].left = {Bimi}
    /\ v # None
    /\ \/ \E r \in ours :
            \/ EqualsNormalized(v, r) /\ NoWrite /\ Called(s, n, FALSE)
               /\ UNCHANGED upsets
            \/ /\ ~EqualsNormalized(v, r)
               /\ \/ UpdateRecord(s, r, v) /\ Called(s, n, FALSE) /\ UNCHANGED upsets
                  \/ UpdateRecord(s, r, v) /\ Called(s, n, TRUE) /\ Upset
                  \/ NoWrite /\ Called(s, n, TRUE)
                     /\ IF UpdateOK(r, v) THEN Upset ELSE UNCHANGED upsets
       \/ /\ ours = {} /\ found # {} /\ n \notin Shared
          /\ NoWrite /\ Called(s, n, TRUE) /\ UNCHANGED upsets
       \/ /\ ours = {} /\ (found = {} \/ n \in Shared)
          /\ \/ CreateRecord(s, n, v) /\ Called(s, n, FALSE) /\ UNCHANGED upsets
             \/ CreateRecord(s, n, v) /\ Called(s, n, TRUE) /\ Upset
             \/ NoWrite /\ Called(s, n, TRUE)
                /\ IF CreateOK(n, v) THEN Upset ELSE UNCHANGED upsets
    /\ UNCHANGED <<want, changes>>

(***************************************************************************)
(* retireBimi: the marked records of a name that is not wanted go; the     *)
(* list forgets each one that was tried.                                   *)
(***************************************************************************)
ToRetire(s) == {r \in sync[s].list : r.name = Bimi /\ r.mark}

Tried(s, r, failed) ==
    sync' = [sync EXCEPT ![s].list = @ \ {r}, ![s].problems = @ \/ failed]

RetireBimi(s) ==
    /\ sync[s].pc = "write"
    /\ sync[s].left = {Bimi}
    /\ sync[s].input[Bimi] = None
    /\ \/ \E r \in ToRetire(s) :
            \/ DeleteRecord(s, r) /\ Tried(s, r, FALSE) /\ UNCHANGED upsets
            \/ DeleteRecord(s, r) /\ Tried(s, r, TRUE) /\ Upset
            \/ NoWrite /\ Tried(s, r, TRUE)
               /\ IF \E q \in zone : q.id = r.id THEN Upset ELSE UNCHANGED upsets
       \/ /\ ToRetire(s) = {}
          /\ NoWrite /\ Called(s, Bimi, FALSE) /\ UNCHANGED upsets
    /\ UNCHANGED <<want, changes>>

Visible(s) ==
    \A n \in Names : sync[s].input[n] # None =>
        \E r \in At(n) : r.value = sync[s].input[n]

\* Mutant of Status: only what the resolvers say counts.
StatusBySight(problems, seen) == IF ~seen THEN "DRIFT" ELSE "VERIFIED"

Status(problems, seen) ==
    IF problems THEN "PARTIAL" ELSE IF ~seen THEN "DRIFT" ELSE "VERIFIED"

(***************************************************************************)
(* verifyPublished and the result.  A resolver may not answer; the system  *)
(* aliases, ensured before, may fail and end the sync without a result.    *)
(***************************************************************************)
Verify(s) ==
    /\ sync[s].pc = "write"
    /\ sync[s].left = {}
    /\ \/ /\ \E seen \in {FALSE, Visible(s)} :
               sync' = [sync EXCEPT ![s] =
                          [Idle EXCEPT !.input = sync[s].input,
                                       !.status = Status(sync[s].problems, seen)]]
          /\ UNCHANGED upsets
       \/ Upset /\ sync' = [sync EXCEPT ![s] = Idle]
    /\ NoWrite
    /\ UNCHANGED <<want, changes>>

-----------------------------------------------------------------------------
(***************************************************************************)
(* A logo or a certificate is saved or removed.                            *)
(***************************************************************************)
Change(n, v) ==
    /\ changes < MaxChanges
    /\ changes' = changes + 1
    /\ v \in Wanted[n] \ {want[n]}
    /\ want' = [want EXCEPT ![n] = v]
    /\ NoWrite
    /\ UNCHANGED <<sync, upsets>>

(***************************************************************************)
(* The zone changed by hand: a record is added, or one that carries our    *)
(* comment is edited or removed, by whoever has a say in it.               *)
(***************************************************************************)
AddByHand(n, v, drift) ==
    LET r == Record(lastId + 1, n, v, FALSE, drift) IN
    /\ ~Taken(n, v, 0) /\ lastId < MaxIds
    /\ zone' = zone \cup {r}
    /\ hand' = hand \cup {r}
    /\ lastId' = lastId + 1

EditByHand(r, v, drift) ==
    /\ <<v, drift>> # <<r.value, r.drift>> /\ ~Taken(r.name, v, r.id)
    /\ zone' = (zone \ {r}) \cup {Record(r.id, r.name, v, TRUE, drift)}

\* The values and the drift a record under a name may have.
HandValues(n) == (Wanted[n] \cup {Other}) \ {None}
HandDrift(n)  == IF n \in Txt THEN {FALSE} ELSE BOOLEAN

ByHand ==
    /\ Upset
    /\ \/ \E n \in Names : \E v \in HandValues(n), drift \in HandDrift(n) :
            AddByHand(n, v, drift)
       \/ \E r \in {q \in zone : q.mark} :
            /\ \/ zone' = zone \ {r}
               \/ \E v \in HandValues(r.name), drift \in HandDrift(r.name) :
                    EditByHand(r, v, drift)
            /\ hand' = {h \in hand : h.id # r.id}
            /\ UNCHANGED lastId
    /\ disturbed' = Syncs
    /\ UNCHANGED <<want, sync, adopted, changes>>

Work(s) ==
    \/ List(s)
    \/ \E n \in Names : Reconcile(s, n)
    \/ RetireBimi(s)
    \/ Verify(s)

Next ==
    \/ \E s \in Syncs : Begin(s) \/ Work(s)
    \/ \E n \in Names : \E v \in Wanted[n] : Change(n, v)
    \/ ByHand

Spec == Init /\ [][Next]_vars

(***************************************************************************)
(* The timer's sync begins again and again; any sync begun goes on.        *)
(***************************************************************************)
FairSpec ==
    /\ Spec
    /\ WF_vars(Begin(Timer))
    /\ \A s \in Syncs : WF_vars(Work(s))

-----------------------------------------------------------------------------
(***************************************************************************)
(* Properties                                                              *)
(***************************************************************************)

Values(n) == Wanted[n] \cup {Other}

\* Zone and syncs stay in their types; an id names one record.
TypeOK ==
    /\ \A r \in zone : /\ r = Record(r.id, r.name, r.value, r.mark, r.drift)
                       /\ r.id \in 1..lastId /\ r.name \in Names
                       /\ r.value \in Values(r.name) \ {None}
                       /\ r.mark \in BOOLEAN /\ r.drift \in BOOLEAN
    /\ \A r, q \in zone : r.id = q.id => r = q
    /\ lastId \in 0..MaxIds
    /\ \A n \in Names : want[n] \in Wanted[n]
    /\ \A s \in Syncs :
         /\ sync[s].pc \in {"idle", "list", "write"}
         /\ \A n \in Names : sync[s].input[n] \in Values(n) \cup {None}
         /\ sync[s].left \subseteq Names
         /\ sync[s].status \in {"none", "PARTIAL", "DRIFT", "VERIFIED"}
    /\ disturbed \subseteq Syncs
    /\ \A r \in hand : r.id \in 1..lastId /\ ~r.mark
    /\ adopted \subseteq 1..lastId
    /\ changes \in 0..MaxChanges /\ upsets \in 0..MaxUpsets

\* For as long as its maker leaves it alone, a record made by hand stays as it
\* was made if it has nothing of ours, and is not removed if it has: isOurRecord
\* takes over one that has our value or tag, and retireBimi removes only what
\* was taken over.  Syncs side by side on old lists included.
HandMadeIsKept ==
    \A r \in hand :
        \/ r \in zone
        \/ /\ r.value # Other /\ r.id \in adopted
           /\ r.name # Bimi => \E q \in zone : q.id = r.id

\* What the comment on retireBimi says: a record the operator created by hand,
\* even with the same v=BIMI1 tag, is theirs, so no sync ever removes it.
HandMadeIsTheirs ==
    \A r \in hand : \E q \in zone : q.id = r.id

Right(n, v) ==
    IF v = None THEN \A r \in At(n) : ~r.mark
    ELSE \E r \in At(n) : r.value = v

\* A sync nobody else's writes disturbed that reports VERIFIED has left the
\* zone as it wanted it: every record is there, and the one that is not wanted
\* is gone.
VerifiedMeansRight ==
    \A s \in Syncs :
        sync[s].status = "VERIFIED" /\ s \notin disturbed =>
            \A n \in Names : Right(n, sync[s].input[n])

Blocked(n) == n \notin Shared /\ \E r \in At(n) : ~r.mark

\* When changes and failures end, the zone comes to what is wanted and stays
\* so, whatever the syncs side by side did to it: priority and proxy flag of
\* our records included, and names that a foreign record blocks excepted.
ComesRight ==
    <>[](\A n \in Names :
           \/ Blocked(n)
           \/ /\ Right(n, want[n])
              /\ want[n] # None =>
                   \E r \in At(n) : r.value = want[n] /\ (r.mark => ~r.drift))
=============================================================================
