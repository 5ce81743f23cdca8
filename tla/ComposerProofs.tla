--------------------------- MODULE ComposerProofs ---------------------------
(***************************************************************************)
(* Proofs about Composer, for any countdown and any number of edits,       *)
(* presses, autosaves and faults: one press of Send posts at most one      *)
(* message, and what the screen said was saved is kept.                    *)
(*                                                                         *)
(* The first counts: there are as many requests to send as intervals that  *)
(* have fired.  The second follows the UIDs: the draft of a save whose     *)
(* answer the page has not had is nobody's to replace (Uids), so a save    *)
(* that removes a draft leaves a later one (Kept).                         *)
(***************************************************************************)
EXTENDS Composer, FiniteSetTheorems, TLAPS

SaveRow == [at: Steps, text: Nat, replace: Nat, uid: Nat]

SendRow == [at: Steps, text: Nat, draft: Nat]

\* Requests, presses and submissions are numbered as they come.
Numbered(f) == \E k \in Nat : DOMAIN f = 1..k

PageOK ==
    /\ text \in Nat
    /\ intervals \in [Presses -> {Dead} \cup Nat]
    /\ draftUid \in Nat /\ saved \in Nat

RequestsOK ==
    /\ saves \in [DOMAIN saves -> SaveRow]
    /\ sends \in [DOMAIN sends -> SendRow]
    /\ Numbered(saves) /\ Numbered(sends) /\ Numbered(intervals)
    /\ Numbered(queued)

ServerOK ==
    /\ drafts \in [DOMAIN drafts -> Nat]
    /\ DOMAIN drafts \subseteq Nat
    /\ nextUid \in Nat \ {0}

TypeInv == PageOK /\ RequestsOK /\ ServerOK

\* The intervals that have posted their message.
Fired == {i \in Presses : intervals[i] = Dead}

AsManySent == Cardinality(DOMAIN sends) = Cardinality(Fired)

\* The new draft of save r is stored and the page has not heard of it.
OnTheWay(r) == saves[r].at \in {"expunge", "stored"}

\* UIDs in use were given out, texts are not ahead of the page, and the draft
\* of a save that is on its way is its own: the page does not know it, and no
\* save replaces it.
Uids ==
    /\ draftUid < nextUid
    /\ \A u \in DOMAIN drafts : u < nextUid /\ drafts[u] <= text
    /\ \A r \in DOMAIN saves : /\ saves[r].replace < nextUid
                               /\ saves[r].uid < nextUid
                               /\ saves[r].text <= text
    /\ \A r \in DOMAIN saves : OnTheWay(r) =>
         saves[r].uid # draftUid /\ saves[r].uid > 0
    /\ \A r, q \in DOMAIN saves : OnTheWay(r) =>
         /\ saves[q].replace # saves[r].uid
         /\ q # r => saves[q].uid # saves[r].uid

\* Until the message is queued the draft of a save that is on its way is there.
OwnDraft ==
    DOMAIN queued = {} =>
      \A r \in DOMAIN saves : OnTheWay(r) =>
          saves[r].uid \in DOMAIN drafts /\ drafts[saves[r].uid] = saves[r].text

\* What a save is about to remove is no later than what it stores.
NoLater ==
    \A r \in DOMAIN saves :
      /\ saves[r].at \in {"posted", "expunge"}
      /\ saves[r].replace \in DOMAIN drafts
      => drafts[saves[r].replace] <= saves[r].text

\* Send removes a draft only after the message is queued.
HasQueued == \A r \in DOMAIN sends : sends[r].at = "expunge" => DOMAIN queued # {}

Kept == OwnDraft /\ NoLater /\ HasQueued

-----------------------------------------------------------------------------
(***************************************************************************)
(* The helpers on functions.                                               *)
(***************************************************************************)

\* The next number is not in use yet.
LEMMA NextNumber ==
    ASSUME NEW f, Numbered(f), NEW v
    PROVE  /\ Next1(f) \in Nat /\ Next1(f) \notin DOMAIN f
           /\ IsFiniteSet(DOMAIN f) /\ Cardinality(DOMAIN f) \in Nat
           /\ Numbered(With(f, Next1(f), v))
           /\ DOMAIN With(f, Next1(f), v) = DOMAIN f \cup {Next1(f)}
           /\ Cardinality(DOMAIN With(f, Next1(f), v)) =
                Cardinality(DOMAIN f) + 1
<1>1. PICK k \in Nat : DOMAIN f = 1..k
    BY DEF Numbered
<1>2. IsFiniteSet(1..k) /\ Cardinality(1..k) = k
    BY FS_Interval
<1>3. Next1(f) = k + 1
    BY <1>1, <1>2 DEF Next1
<1>4. DOMAIN With(f, Next1(f), v) = DOMAIN f \cup {Next1(f)}
    BY DEF With
<1>5. DOMAIN f \cup {Next1(f)} = 1..(k + 1) /\ k + 1 \in Nat
    BY <1>1, <1>3
<1>6. Cardinality(1..(k + 1)) = k + 1
    BY <1>5, FS_Interval
<1>7. Numbered(With(f, Next1(f), v))
    <2> DEFINE w == With(f, Next1(f), v)
    <2>1. DOMAIN w = 1..(k + 1)
        BY <1>4, <1>5
    <2> HIDE DEF w
    <2>2. Numbered(w)
        BY <1>5, <2>1 DEF Numbered
    <2> QED
        BY <2>2 DEF w
<1>8. Cardinality(DOMAIN With(f, Next1(f), v)) = k + 1
    BY <1>4, <1>5, <1>6
<1>9. Cardinality(DOMAIN f) = k /\ IsFiniteSet(DOMAIN f)
    BY <1>1, <1>2
<1>10. Next1(f) \in Nat /\ Next1(f) \notin DOMAIN f
    BY <1>1, <1>3
<1> QED
    BY <1>4, <1>7, <1>8, <1>9, <1>10

\* What With returns.
LEMMA WithValue ==
    ASSUME NEW f, NEW x, NEW v
    PROVE  /\ DOMAIN With(f, x, v) = DOMAIN f \cup {x}
           /\ With(f, x, v)[x] = v
           /\ \A y \in DOMAIN f : y # x => With(f, x, v)[y] = f[y]
BY DEF With

\* What Without returns.
LEMMA WithoutValue ==
    ASSUME NEW f, NEW x
    PROVE  /\ DOMAIN Without(f, x) = DOMAIN f \ {x}
           /\ \A y \in DOMAIN f : y # x => Without(f, x)[y] = f[y]
BY DEF Without

\* With and Without keep the type of the values.
LEMMA WithType ==
    ASSUME NEW S, NEW f, f \in [DOMAIN f -> S], NEW x, NEW v \in S
    PROVE  With(f, x, v) \in [DOMAIN With(f, x, v) -> S]
BY DEF With

\* The same for Without.
LEMMA WithoutType ==
    ASSUME NEW S, NEW f, f \in [DOMAIN f -> S], NEW x
    PROVE  Without(f, x) \in [DOMAIN Without(f, x) -> S]
BY DEF Without

\* Save r goes to step a.
SaveAt(r, a, uid) ==
    /\ DOMAIN saves' = DOMAIN saves
    /\ saves'[r].at = a /\ saves'[r].uid = uid
    /\ saves'[r].text = saves[r].text /\ saves'[r].replace = saves[r].replace
    /\ \A q \in DOMAIN saves : q # r => saves'[q] = saves[q]
    /\ saves' \in [DOMAIN saves' -> SaveRow] /\ Numbered(saves')

\* An update of the step, with the UID or without.
LEMMA SaveMoves ==
    ASSUME TypeInv, NEW r \in DOMAIN saves, NEW a \in Steps
    PROVE  /\ saves' = [saves EXCEPT ![r].at = a] => SaveAt(r, a, saves[r].uid)
           /\ saves' = [saves EXCEPT ![r].at = a, ![r].uid = nextUid]
                => SaveAt(r, a, nextUid)
<1>1. saves \in [DOMAIN saves -> SaveRow] /\ saves[r] \in SaveRow
      /\ Numbered(saves) /\ nextUid \in Nat
    BY DEF TypeInv, RequestsOK, ServerOK
<1>2. ASSUME saves' = [saves EXCEPT ![r].at = a]
      PROVE  SaveAt(r, a, saves[r].uid)
    BY <1>1, <1>2 DEF SaveAt, SaveRow, Numbered
<1>3. ASSUME saves' = [saves EXCEPT ![r].at = a, ![r].uid = nextUid]
      PROVE  SaveAt(r, a, nextUid)
    BY <1>1, <1>3 DEF SaveAt, SaveRow, Numbered
<1> QED
    BY <1>2, <1>3

\* Request r to send goes to step a.
SendAt(r, a) ==
    /\ DOMAIN sends' = DOMAIN sends
    /\ sends'[r].at = a
    /\ \A q \in DOMAIN sends : q # r => sends'[q] = sends[q]
    /\ sends' \in [DOMAIN sends' -> SendRow] /\ Numbered(sends')

\* An update of the step.
LEMMA SendMoves ==
    ASSUME TypeInv, NEW r \in DOMAIN sends, NEW a \in Steps,
           sends' = [sends EXCEPT ![r].at = a]
    PROVE  SendAt(r, a)
BY DEF TypeInv, RequestsOK, SendAt, SendRow, Numbered

-----------------------------------------------------------------------------
(***************************************************************************)
(* Types and presses.                                                      *)
(***************************************************************************)

\* Every step keeps the types.
LEMMA TypeStep == TypeInv /\ [Next]_vars => TypeInv'
<1> SUFFICES ASSUME TypeInv, [Next]_vars PROVE TypeInv'
    OBVIOUS
<1>0. {"posted", "expunge", "stored", "sent", "failed", "done"} \subseteq Steps
    BY DEF Steps
<1>1. CASE Edit
    BY <1>1 DEF Edit, server, TypeInv, PageOK, RequestsOK, ServerOK, Presses
<1>2. CASE PostDraft
    <2> DEFINE new == [at |-> "posted", text |-> text, replace |-> draftUid,
                       uid |-> 0]
    <2>1. new \in SaveRow
        BY <1>0 DEF TypeInv, PageOK, SaveRow
    <2>2. saves' = With(saves, Next1(saves), new)
        BY <1>2 DEF PostDraft
    <2> HIDE DEF new
    <2>3. saves' \in [DOMAIN saves' -> SaveRow] /\ Numbered(saves')
        BY <2>1, <2>2, WithType, NextNumber DEF TypeInv, RequestsOK
    <2> QED
        BY <1>2, <2>3 DEF PostDraft, server, TypeInv, PageOK, RequestsOK,
           ServerOK, Presses, Numbered
<1>3. CASE HandleSend
    <2>1. intervals' = With(intervals, Next1(intervals), text)
        BY <1>3 DEF HandleSend
    <2>2. intervals' \in [DOMAIN intervals' -> {Dead} \cup Nat]
        <3>1. text \in {Dead} \cup Nat
            BY DEF TypeInv, PageOK
        <3>2. intervals \in [DOMAIN intervals -> {Dead} \cup Nat]
            BY DEF TypeInv, PageOK, Presses
        <3> QED
            BY <2>1, <3>1, <3>2, WithType
    <2>3. Numbered(intervals')
        BY <2>1, NextNumber DEF TypeInv, RequestsOK
    <2> QED
        BY <1>3, <2>2, <2>3 DEF HandleSend, server, TypeInv, PageOK, RequestsOK,
           ServerOK, Presses, Numbered
<1>4. CASE HandleUndo \/ Close
    BY <1>4 DEF HandleUndo, Close, server, TypeInv, PageOK, RequestsOK, ServerOK,
       Presses, Numbered
<1>5. ASSUME NEW i \in Presses, Tick(i) PROVE TypeInv'
    <2>1. CASE UNCHANGED <<intervals, sends>>
        BY <1>5, <2>1 DEF Tick, server, TypeInv, PageOK, RequestsOK, ServerOK,
           Presses, Numbered
    <2>2. CASE /\ intervals' = AfterFiring(i)
               /\ sends' = With(sends, Next1(sends),
                                [at |-> "posted", text |-> intervals[i],
                                 draft |-> draftUid])
        <3> DEFINE new == [at |-> "posted", text |-> intervals[i],
                           draft |-> draftUid]
        <3>1. new \in SendRow
            BY <1>0, <1>5 DEF Tick, TypeInv, PageOK, SendRow
        <3>2. sends' = With(sends, Next1(sends), new)
            BY <2>2
        <3> HIDE DEF new
        <3>3. sends' \in [DOMAIN sends' -> SendRow] /\ Numbered(sends')
            BY <3>1, <3>2, WithType, NextNumber DEF TypeInv, RequestsOK
        <3>4. /\ intervals' \in [DOMAIN intervals' -> {Dead} \cup Nat]
              /\ DOMAIN intervals' = DOMAIN intervals
            BY <2>2 DEF AfterFiring, TypeInv, PageOK, Presses
        <3> QED
            BY <1>5, <3>3, <3>4 DEF Tick, server, TypeInv, PageOK, RequestsOK,
               ServerOK, Presses, Numbered
    <2> QED
        BY <1>5, <2>1, <2>2 DEF Tick
<1>6. ASSUME NEW r \in DOMAIN saves, NEW a \in Steps, NEW u, SaveAt(r, a, u),
             UNCHANGED <<text, intervals, sends, queued>>,
             draftUid' \in Nat, saved' \in Nat, ServerOK'
      PROVE  TypeInv'
    BY <1>6 DEF SaveAt, TypeInv, PageOK, RequestsOK, Presses, Numbered
<1>7. ASSUME NEW r \in DOMAIN saves, PersistDraft(r) PROVE TypeInv'
    <2>1. /\ UNCHANGED <<text, intervals, sends, queued>>
          /\ draftUid' \in Nat /\ saved' \in Nat
        BY <1>7 DEF PersistDraft, user, TypeInv, PageOK
    <2>2. CASE /\ saves' = [saves EXCEPT ![r].at = "failed"]
               /\ UNCHANGED <<drafts, nextUid>>
        <3>1. ServerOK'
            BY <2>2 DEF TypeInv, ServerOK
        <3> QED
            BY <1>0, <1>6, <2>1, <2>2, <3>1, SaveMoves
    <2>3. CASE /\ drafts' = With(drafts, nextUid, saves[r].text)
               /\ nextUid' = nextUid + 1
               /\ saves' = [saves EXCEPT ![r].at = "expunge", ![r].uid = nextUid]
        <3>1. saves[r].text \in Nat
            BY DEF TypeInv, RequestsOK, SaveRow
        <3>2. drafts' \in [DOMAIN drafts' -> Nat]
            BY <2>3, <3>1, WithType DEF TypeInv, ServerOK
        <3>3. ServerOK'
            <4>1. DOMAIN drafts' = DOMAIN drafts \cup {nextUid}
                BY <2>3, WithValue
            <4> QED
                BY <2>3, <3>2, <4>1 DEF TypeInv, ServerOK
        <3> QED
            BY <1>0, <1>6, <2>1, <2>3, <3>3, SaveMoves
    <2> QED
        BY <1>7, <2>2, <2>3 DEF PersistDraft
<1>8. ASSUME NEW x, drafts' = Without(drafts, x) \/ drafts' = drafts,
             nextUid' = nextUid
      PROVE  ServerOK'
    <2>1. CASE drafts' = Without(drafts, x)
        <3>1. drafts' \in [DOMAIN drafts' -> Nat]
            BY <2>1, WithoutType DEF TypeInv, ServerOK
        <3> QED
            BY <1>8, <2>1, <3>1, WithoutValue DEF TypeInv, ServerOK
    <2>2. CASE drafts' = drafts
        BY <1>8, <2>2 DEF TypeInv, ServerOK
    <2> QED
        BY <1>8, <2>1, <2>2
<1>9. ASSUME NEW r \in DOMAIN saves, ExpungeReplaced(r) PROVE TypeInv'
    <2>1. /\ UNCHANGED <<text, intervals, sends, queued>>
          /\ draftUid' \in Nat /\ saved' \in Nat
        BY <1>9 DEF ExpungeReplaced, user, TypeInv, PageOK
    <2>2. ServerOK'
        BY <1>8, <1>9 DEF ExpungeReplaced
    <2>3. SaveAt(r, "stored", saves[r].uid)
        BY <1>0, <1>9, SaveMoves DEF ExpungeReplaced
    <2> QED
        BY <1>0, <1>6, <2>1, <2>2, <2>3
<1>10. ASSUME NEW r \in DOMAIN saves, DraftAnswered(r) PROVE TypeInv'
    <2>1. UNCHANGED <<text, intervals, sends, queued, drafts, nextUid>>
        BY <1>10 DEF DraftAnswered, user, server
    <2>2. saves[r].uid \in Nat /\ saves[r].text \in Nat
        BY DEF TypeInv, RequestsOK, SaveRow
    <2>3. draftUid' \in Nat /\ saved' \in Nat /\ ServerOK'
        BY <1>10, <2>1, <2>2 DEF DraftAnswered, TypeInv, PageOK, ServerOK
    <2>4. SaveAt(r, "done", saves[r].uid)
        BY <1>0, <1>10, SaveMoves DEF DraftAnswered
    <2> QED
        BY <1>0, <1>6, <2>1, <2>3, <2>4
<1>11. ASSUME NEW r \in DOMAIN sends, NEW a, SendAt(r, a),
              UNCHANGED <<text, intervals, saves, draftUid, saved>>,
              Numbered(queued'), ServerOK'
       PROVE  TypeInv'
    BY <1>11 DEF SendAt, TypeInv, PageOK, RequestsOK, Presses, Numbered
<1>12. ASSUME NEW r \in DOMAIN sends, Submit(r) PROVE TypeInv'
    <2>1. UNCHANGED <<text, intervals, saves, draftUid, saved, drafts, nextUid>>
        BY <1>12 DEF Submit, user
    <2>2. Numbered(queued')
        <3>1. Numbered(queued)
            BY DEF TypeInv, RequestsOK
        <3>2. \A v : Numbered(With(queued, Next1(queued), v))
            BY <3>1, NextNumber
        <3>3. \/ queued' = queued
              \/ \E v : queued' = With(queued, Next1(queued), v)
            BY <1>12 DEF Submit
        <3> QED
            BY <3>1, <3>2, <3>3
    <2>3. SendAt(r, "expunge") \/ SendAt(r, "failed")
        BY <1>0, <1>12, SendMoves DEF Submit
    <2>4. ServerOK'
        BY <2>1 DEF TypeInv, ServerOK
    <2> QED
        BY <1>11, <2>1, <2>2, <2>3, <2>4
<1>13. ASSUME NEW r \in DOMAIN sends, ExpungeSent(r) PROVE TypeInv'
    <2>1. UNCHANGED <<text, intervals, saves, draftUid, saved, queued>>
        BY <1>13 DEF ExpungeSent, user
    <2>2. ServerOK'
        BY <1>8, <1>13 DEF ExpungeSent
    <2>3. SendAt(r, "sent")
        BY <1>0, <1>13, SendMoves DEF ExpungeSent
    <2>4. Numbered(queued')
        BY <2>1 DEF TypeInv, RequestsOK
    <2> QED
        BY <1>11, <2>1, <2>2, <2>3, <2>4
<1>14. ASSUME NEW r \in DOMAIN sends, SendAnswered(r) PROVE TypeInv'
    <2>1. UNCHANGED <<text, intervals, saves, draftUid, saved, server>>
        BY <1>14 DEF SendAnswered
    <2>2. SendAt(r, "done")
        BY <1>0, <1>14, SendMoves DEF SendAnswered
    <2>3. ServerOK' /\ Numbered(queued')
        BY <2>1 DEF server, TypeInv, ServerOK, RequestsOK
    <2> QED
        BY <1>11, <2>1, <2>2, <2>3
<1>15. CASE Cancelled
    <2>1. UNCHANGED <<text, intervals, draftUid, saved, server>>
        BY <1>15 DEF Cancelled, user
    <2>2. ServerOK' /\ draftUid' \in Nat /\ saved' \in Nat /\ queued' = queued
        BY <2>1 DEF server, TypeInv, ServerOK, PageOK
    <2>3. ASSUME NEW r \in DOMAIN saves,
                 saves' = [saves EXCEPT ![r].at = "failed"], sends' = sends
          PROVE  TypeInv'
        BY <1>0, <1>6, <2>1, <2>2, <2>3, SaveMoves
    <2>4. ASSUME NEW r \in DOMAIN sends,
                 sends' = [sends EXCEPT ![r].at = "failed"], saves' = saves
          PROVE  TypeInv'
        <3>1. Numbered(queued')
            BY <2>2 DEF TypeInv, RequestsOK
        <3> QED
            BY <1>0, <1>11, <2>1, <2>2, <2>4, <3>1, SendMoves
    <2> QED
        BY <1>15, <2>3, <2>4 DEF Cancelled
<1>16. CASE UNCHANGED vars
    BY <1>16 DEF vars, user, server, TypeInv, PageOK, RequestsOK, ServerOK,
       Presses, Numbered
<1> QED
    BY <1>1, <1>2, <1>3, <1>4, <1>5, <1>7, <1>9, <1>10, <1>12, <1>13, <1>14,
       <1>15, <1>16 DEF Next

\* The page opens with nothing written, saved or sent.
LEMMA TypeInit == Init => TypeInv
<1> SUFFICES ASSUME Init PROVE TypeInv
    OBVIOUS
<1> DEFINE none == <<>>
<1>1. DOMAIN none = {} /\ \A S : none \in [{} -> S]
    OBVIOUS
<1>2. Numbered(none)
    <2>1. DOMAIN none = 1..0 /\ 0 \in Nat
        BY <1>1
    <2> HIDE DEF none
    <2> QED
        BY <2>1 DEF Numbered
<1>3. /\ intervals = none /\ saves = none /\ sends = none /\ queued = none
      /\ drafts = none
    BY DEF Init
<1> HIDE DEF none
<1>4. PageOK
    BY <1>1, <1>3 DEF Init, PageOK, Presses
<1>5. RequestsOK
    BY <1>1, <1>2, <1>3 DEF RequestsOK
<1>6. ServerOK
    BY <1>1, <1>3 DEF Init, ServerOK
<1> QED
    BY <1>4, <1>5, <1>6 DEF TypeInv

\* A step other than a press and the end of a countdown changes neither the
\* intervals nor the number of requests.
LEMMA NoPress ==
    ASSUME TypeInv, [Next]_vars, ~HandleSend,
           \A i \in Presses : Tick(i) => UNCHANGED <<intervals, sends>>
    PROVE  intervals' = intervals /\ DOMAIN sends' = DOMAIN sends
<1>0. {"posted", "expunge", "stored", "sent", "failed", "done"} \subseteq Steps
    BY DEF Steps
<1>1. CASE Edit \/ PostDraft \/ HandleUndo \/ Close \/ UNCHANGED vars
    BY <1>1 DEF Edit, PostDraft, HandleUndo, Close, vars, user
<1>2. CASE \E r \in DOMAIN saves :
             PersistDraft(r) \/ ExpungeReplaced(r) \/ DraftAnswered(r)
    BY <1>2 DEF PersistDraft, ExpungeReplaced, DraftAnswered, user
<1>3. ASSUME NEW r \in DOMAIN sends, Submit(r) \/ ExpungeSent(r) \/ SendAnswered(r)
      PROVE  intervals' = intervals /\ DOMAIN sends' = DOMAIN sends
    BY <1>3 DEF Submit, ExpungeSent, SendAnswered, user
<1>4. CASE Cancelled
    BY <1>4 DEF Cancelled, user
<1>5. CASE \E i \in Presses : Tick(i)
    BY <1>5
<1> QED
    BY <1>1, <1>2, <1>3, <1>4, <1>5 DEF Next

\* Every step keeps the requests to send as many as the intervals that fired.
LEMMA SentStep == TypeInv /\ AsManySent /\ [Next]_vars => AsManySent'
<1> SUFFICES ASSUME TypeInv, AsManySent, [Next]_vars PROVE AsManySent'
    OBVIOUS
<1>1. CASE HandleSend
    <2> DEFINE n == Next1(intervals)
    <2>1. n \notin DOMAIN intervals
        BY NextNumber DEF TypeInv, RequestsOK
    <2>2. intervals' = With(intervals, n, text) /\ sends' = sends
        BY <1>1 DEF HandleSend
    <2> HIDE DEF n
    <2>3. /\ DOMAIN intervals' = DOMAIN intervals \cup {n}
          /\ intervals'[n] = text
          /\ \A y \in DOMAIN intervals : intervals'[y] = intervals[y]
        BY <2>1, <2>2 DEF With
    <2>4. text # Dead
        BY DEF TypeInv, PageOK, Dead
    <2>5. Fired' = Fired
        BY <2>1, <2>3, <2>4 DEF Fired, Presses, Dead
    <2> QED
        BY <2>2, <2>5 DEF AsManySent
<1>2. ASSUME NEW i \in Presses, Tick(i), ~UNCHANGED <<intervals, sends>>
      PROVE  AsManySent'
    <2> DEFINE row == [at |-> "posted", text |-> intervals[i], draft |-> draftUid]
    <2>1. /\ intervals' = AfterFiring(i) /\ intervals[i] # Dead
          /\ sends' = With(sends, Next1(sends), row)
        BY <1>2 DEF Tick
    <2> HIDE DEF row
    <2>2. Cardinality(DOMAIN sends') = Cardinality(DOMAIN sends) + 1
        BY <2>1, NextNumber DEF TypeInv, RequestsOK
    <2>3. Fired' = Fired \cup {i} /\ i \notin Fired
        BY <2>1 DEF AfterFiring, Fired, Presses, Dead
    <2>4. IsFiniteSet(Fired)
        <3>1. IsFiniteSet(DOMAIN intervals)
            BY NextNumber DEF TypeInv, RequestsOK
        <3>2. Fired \subseteq DOMAIN intervals
            BY DEF Fired, Presses
        <3> QED
            BY <3>1, <3>2, FS_Subset
    <2>5. Cardinality(Fired \cup {i}) = Cardinality(Fired) + 1
        BY <2>3, <2>4, FS_AddElement
    <2> QED
        BY <2>2, <2>3, <2>5 DEF AsManySent
<1>3. CASE ~HandleSend /\ \A i \in Presses : Tick(i) => UNCHANGED <<intervals, sends>>
    BY <1>3, NoPress DEF AsManySent, Fired, Presses
<1> QED
    BY <1>1, <1>2, <1>3

\* Every state reached has the types of the model.
THEOREM TypeCorrect == Spec => []TypeInv
BY TypeInit, TypeStep, PTL DEF Spec

\* One press of Send posts at most one message (handleSend and its interval,
\* which clears itself when it fires), for every interleaving of countdowns,
\* undos, failures and answers.
THEOREM OneSentPerPress == Spec => []OneMessagePerPress
<1>1. Init => AsManySent
    BY FS_EmptySet DEF Init, AsManySent, Fired, Presses
<1>2. TypeInv /\ AsManySent => OneMessagePerPress
    <2> SUFFICES ASSUME TypeInv, AsManySent PROVE OneMessagePerPress
        OBVIOUS
    <2>1. IsFiniteSet(Presses) /\ Cardinality(Presses) \in Nat
        BY NextNumber DEF TypeInv, RequestsOK, Presses
    <2>2. Fired \subseteq Presses
        BY DEF Fired
    <2>3. Cardinality(Fired) <= Cardinality(Presses)
        BY <2>1, <2>2, FS_Subset
    <2> QED
        BY <2>3 DEF AsManySent, OneMessagePerPress
<1> QED
    BY <1>1, <1>2, TypeInit, TypeStep, SentStep, PTL DEF Spec

-----------------------------------------------------------------------------
(***************************************************************************)
(* What was saved is kept.                                                 *)
(***************************************************************************)

\* Nothing happens to the drafts; the text may have grown.
Idle ==
    /\ UNCHANGED <<saves, drafts, nextUid, draftUid, saved>>
    /\ text' >= text

Posts ==
    /\ saves' = With(saves, Next1(saves),
                     [at |-> "posted", text |-> text, replace |-> draftUid,
                      uid |-> 0])
    /\ UNCHANGED <<drafts, nextUid, draftUid, saved, text>>

Stores(r) ==
    /\ saves[r].at = "posted"
    /\ SaveAt(r, "expunge", nextUid)
    /\ drafts' = With(drafts, nextUid, saves[r].text)
    /\ nextUid' = nextUid + 1
    /\ UNCHANGED <<draftUid, saved, text>>

Replaces(r) ==
    /\ saves[r].at = "expunge"
    /\ SaveAt(r, "stored", saves[r].uid)
    /\ drafts' = Without(drafts, saves[r].replace) \/ drafts' = drafts
    /\ UNCHANGED <<nextUid, draftUid, saved, text>>

IsHeard(r) ==
    /\ saves[r].at = "stored"
    /\ SaveAt(r, "done", saves[r].uid)
    /\ draftUid' = saves[r].uid /\ saved' = saves[r].text
    /\ UNCHANGED <<drafts, nextUid, text>>

Ends(r) ==
    /\ SaveAt(r, "failed", saves[r].uid) \/ SaveAt(r, "done", saves[r].uid)
    /\ UNCHANGED <<drafts, nextUid, draftUid, saved, text>>

IsSent(r) ==
    /\ sends[r].at = "expunge"
    /\ drafts' = Without(drafts, sends[r].draft) \/ drafts' = drafts
    /\ UNCHANGED <<saves, nextUid, draftUid, saved, text, queued>>

\* What a step does to the drafts and to the requests that save them.
LEMMA Shapes ==
    ASSUME TypeInv, [Next]_vars
    PROVE  \/ Idle \/ Posts
           \/ \E r \in DOMAIN saves : Stores(r) \/ Replaces(r) \/ IsHeard(r) \/ Ends(r)
           \/ \E r \in DOMAIN sends : IsSent(r)
<1>0. {"posted", "expunge", "stored", "sent", "failed", "done"} \subseteq Steps
      /\ text \in Nat
    BY DEF Steps, TypeInv, PageOK
<1>1. CASE Edit
    BY <1>0, <1>1 DEF Edit, server, Idle
<1>2. CASE PostDraft
    BY <1>2 DEF PostDraft, server, Posts
<1>3. CASE HandleSend \/ HandleUndo \/ Close \/ UNCHANGED vars
    BY <1>0, <1>3 DEF HandleSend, HandleUndo, Close, vars, user, server, Idle
<1>4. CASE \E i \in Presses : Tick(i)
    BY <1>0, <1>4 DEF Tick, server, Idle
<1>5. ASSUME NEW r \in DOMAIN saves, PersistDraft(r) PROVE Stores(r) \/ Ends(r)
    BY <1>0, <1>5, SaveMoves DEF PersistDraft, user, Stores, Ends
<1>6. ASSUME NEW r \in DOMAIN saves, ExpungeReplaced(r) PROVE Replaces(r)
    BY <1>0, <1>6, SaveMoves DEF ExpungeReplaced, user, Replaces
<1>7. ASSUME NEW r \in DOMAIN saves, DraftAnswered(r) PROVE IsHeard(r) \/ Ends(r)
    BY <1>0, <1>7, SaveMoves DEF DraftAnswered, user, server, IsHeard, Ends
<1>8. CASE \E r \in DOMAIN sends : Submit(r) \/ SendAnswered(r)
    BY <1>0, <1>8 DEF Submit, SendAnswered, user, server, Idle
<1>9. ASSUME NEW r \in DOMAIN sends, ExpungeSent(r) PROVE IsSent(r)
    BY <1>9 DEF ExpungeSent, user, IsSent
<1>10. CASE Cancelled
    <2>1. UNCHANGED <<drafts, nextUid, draftUid, saved, text>>
        BY <1>10 DEF Cancelled, user, server
    <2>2. ASSUME NEW r \in DOMAIN saves, saves' = [saves EXCEPT ![r].at = "failed"]
          PROVE  Ends(r)
        BY <1>0, <2>1, <2>2, SaveMoves DEF Ends
    <2>3. CASE saves' = saves
        BY <1>0, <2>1, <2>3 DEF Idle
    <2> QED
        BY <1>10, <2>2, <2>3 DEF Cancelled
<1> QED
    BY <1>1, <1>2, <1>3, <1>4, <1>5, <1>6, <1>7, <1>8, <1>9, <1>10 DEF Next

\* A new save is the next row of the requests.
Appended(n) ==
    /\ DOMAIN saves' = DOMAIN saves \cup {n} /\ n \notin DOMAIN saves
    /\ saves'[n].at = "posted" /\ saves'[n].text = text
    /\ saves'[n].replace = draftUid /\ saves'[n].uid = 0
    /\ \A q \in DOMAIN saves : saves'[q] = saves[q]

\* What PostDraft does to the requests.
LEMMA PostsRow ==
    ASSUME TypeInv, Posts
    PROVE  \E n : Appended(n)
<1> DEFINE n == Next1(saves)
<1>1. n \notin DOMAIN saves
    BY NextNumber DEF TypeInv, RequestsOK
<1>2. saves' = With(saves, n, [at |-> "posted", text |-> text,
                               replace |-> draftUid, uid |-> 0])
    BY DEF Posts
<1> HIDE DEF n
<1>3. Appended(n)
    BY <1>1, <1>2 DEF With, Appended
<1> QED
    BY <1>3

\* The rows of the saves, the drafts and the page's numbers, by their types.
LEMMA Numbers ==
    ASSUME TypeInv
    PROVE  /\ text \in Nat /\ draftUid \in Nat /\ saved \in Nat
           /\ nextUid \in Nat /\ nextUid > 0
           /\ \A u \in DOMAIN drafts : u \in Nat /\ drafts[u] \in Nat
           /\ \A r \in DOMAIN saves : /\ saves[r].text \in Nat
                                      /\ saves[r].replace \in Nat
                                      /\ saves[r].uid \in Nat
<1>1. \A u \in DOMAIN drafts : u \in Nat /\ drafts[u] \in Nat
    BY DEF TypeInv, ServerOK
<1>2. \A r \in DOMAIN saves : /\ saves[r].text \in Nat
                              /\ saves[r].replace \in Nat
                              /\ saves[r].uid \in Nat
    BY DEF TypeInv, RequestsOK, SaveRow
<1> QED
    BY <1>1, <1>2 DEF TypeInv, PageOK, ServerOK

\* No draft of a save that is on its way is known to the page or replaced by
\* another save, after any step.
LEMMA UidsStep == TypeInv /\ Uids /\ [Next]_vars => Uids'
<1> SUFFICES ASSUME TypeInv, Uids, [Next]_vars PROVE Uids'
    OBVIOUS
<1>0. /\ text \in Nat /\ draftUid \in Nat
      /\ nextUid \in Nat /\ nextUid > 0
      /\ \A u \in DOMAIN drafts : u \in Nat /\ drafts[u] \in Nat
      /\ \A r \in DOMAIN saves : /\ saves[r].text \in Nat
                                 /\ saves[r].replace \in Nat
                                 /\ saves[r].uid \in Nat
    BY Numbers
<1>00. text' \in Nat
    BY TypeStep DEF TypeInv, PageOK
<1>1. CASE Idle
    BY <1>0, <1>00, <1>1 DEF Idle, Uids, OnTheWay
<1>2. CASE Posts
    <2>1. PICK n : Appended(n)
        BY <1>2, PostsRow
    <2> QED
        BY <1>0, <1>2, <2>1 DEF Posts, Appended, Uids, OnTheWay
<1>3. ASSUME NEW r \in DOMAIN saves, Stores(r) PROVE Uids'
    <2>1. /\ DOMAIN drafts' = DOMAIN drafts \cup {nextUid}
          /\ drafts'[nextUid] = saves[r].text
          /\ \A y \in DOMAIN drafts : y # nextUid => drafts'[y] = drafts[y]
        BY <1>3 DEF Stores, With
    <2> QED
        BY <1>0, <1>3, <2>1 DEF Stores, SaveAt, Uids, OnTheWay
<1>4. ASSUME NEW r \in DOMAIN saves, Replaces(r) PROVE Uids'
    <2>1. /\ DOMAIN drafts' \subseteq DOMAIN drafts
          /\ \A y \in DOMAIN drafts' : drafts'[y] = drafts[y]
        BY <1>4 DEF Replaces, Without
    <2> QED
        BY <1>0, <1>4, <2>1 DEF Replaces, SaveAt, Uids, OnTheWay
<1>5. ASSUME NEW r \in DOMAIN saves, IsHeard(r) PROVE Uids'
    BY <1>0, <1>5 DEF IsHeard, SaveAt, Uids, OnTheWay
<1>6. ASSUME NEW r \in DOMAIN saves, Ends(r) PROVE Uids'
    BY <1>0, <1>6 DEF Ends, SaveAt, Uids, OnTheWay
<1>7. ASSUME NEW r \in DOMAIN sends, IsSent(r) PROVE Uids'
    <2>1. /\ DOMAIN drafts' \subseteq DOMAIN drafts
          /\ \A y \in DOMAIN drafts' : drafts'[y] = drafts[y]
        BY <1>7 DEF IsSent, Without
    <2> QED
        BY <1>0, <1>7, <2>1 DEF IsSent, Uids, OnTheWay
<1> QED
    BY <1>1, <1>2, <1>3, <1>4, <1>5, <1>6, <1>7, Shapes

\* A submission is never taken back, and Send removes a draft only after its
\* own.
LEMMA QueuedStep ==
    ASSUME TypeInv, HasQueued, [Next]_vars
    PROVE  HasQueued' /\ (DOMAIN queued # {} => DOMAIN queued' # {})
<1>0. {"posted", "expunge", "stored", "sent", "failed", "done"} \subseteq Steps
    BY DEF Steps
<1>1. CASE sends' = sends /\ queued' = queued
    BY <1>1 DEF HasQueued
<1>2. ASSUME NEW r \in DOMAIN sends, NEW a \in Steps \ {"expunge"}, SendAt(r, a),
             queued' = queued
      PROVE  HasQueued' /\ (DOMAIN queued # {} => DOMAIN queued' # {})
    BY <1>2 DEF SendAt, HasQueued
<1>3. CASE Edit \/ PostDraft \/ HandleSend \/ HandleUndo \/ Close \/ UNCHANGED vars
    BY <1>1, <1>3 DEF Edit, PostDraft, HandleSend, HandleUndo, Close, vars, server
<1>4. CASE \E r \in DOMAIN saves :
             PersistDraft(r) \/ ExpungeReplaced(r) \/ DraftAnswered(r)
    BY <1>1, <1>4 DEF PersistDraft, ExpungeReplaced, DraftAnswered, server
<1>5. ASSUME NEW i \in Presses, Tick(i)
      PROVE  HasQueued' /\ (DOMAIN queued # {} => DOMAIN queued' # {})
    <2> DEFINE row == [at |-> "posted", text |-> intervals[i], draft |-> draftUid]
    <2>1. queued' = queued /\ row.at # "expunge"
          /\ (sends' = sends \/ sends' = With(sends, Next1(sends), row))
        BY <1>5 DEF Tick, server
    <2> HIDE DEF row
    <2>2. CASE sends' = With(sends, Next1(sends), row)
        <3> DEFINE n == Next1(sends)
        <3>1. n \notin DOMAIN sends
            BY NextNumber DEF TypeInv, RequestsOK
        <3>2. sends' = With(sends, n, row)
            BY <2>2
        <3> HIDE DEF n
        <3>3. /\ DOMAIN sends' = DOMAIN sends \cup {n} /\ sends'[n] = row
              /\ \A q \in DOMAIN sends : sends'[q] = sends[q]
            BY <3>1, <3>2 DEF With
        <3> QED
            BY <2>1, <3>3 DEF HasQueued
    <2> QED
        BY <1>1, <2>1, <2>2
<1>6. ASSUME NEW r \in DOMAIN sends, Submit(r)
      PROVE  HasQueued' /\ (DOMAIN queued # {} => DOMAIN queued' # {})
    <2>1. CASE sends' = [sends EXCEPT ![r].at = "failed"] /\ queued' = queued
        <3>1. SendAt(r, "failed")
            BY <1>0, <2>1, SendMoves
        <3> QED
            BY <1>0, <1>2, <2>1, <3>1
    <2>2. CASE queued' = With(queued, Next1(queued), sends[r].text)
        <3>1. Next1(queued) \in DOMAIN queued'
            BY <2>2 DEF With
        <3> QED
            BY <3>1 DEF HasQueued
    <2> QED
        BY <1>6, <2>1, <2>2 DEF Submit
<1>7. ASSUME NEW r \in DOMAIN sends, ExpungeSent(r)
      PROVE  HasQueued' /\ (DOMAIN queued # {} => DOMAIN queued' # {})
    <2>1. SendAt(r, "sent") /\ queued' = queued
        BY <1>0, <1>7, SendMoves DEF ExpungeSent
    <2> QED
        BY <1>0, <1>2, <2>1
<1>8. ASSUME NEW r \in DOMAIN sends, SendAnswered(r)
      PROVE  HasQueued' /\ (DOMAIN queued # {} => DOMAIN queued' # {})
    <2>1. SendAt(r, "done") /\ queued' = queued
        BY <1>0, <1>8, SendMoves DEF SendAnswered, server
    <2> QED
        BY <1>0, <1>2, <2>1
<1>9. CASE Cancelled
    <2>1. queued' = queued
        BY <1>9 DEF Cancelled, server
    <2>2. ASSUME NEW r \in DOMAIN sends, sends' = [sends EXCEPT ![r].at = "failed"]
          PROVE  HasQueued' /\ (DOMAIN queued # {} => DOMAIN queued' # {})
        <3>1. SendAt(r, "failed")
            BY <1>0, <2>2, SendMoves
        <3> QED
            BY <1>0, <1>2, <2>1, <3>1
    <2> QED
        BY <1>1, <1>9, <2>1, <2>2 DEF Cancelled
<1> QED
    BY <1>3, <1>4, <1>5, <1>6, <1>7, <1>8, <1>9 DEF Next

\* Until the message is queued no step loses the draft of a save that is on its
\* way, a later draft than the one it stores, or what the screen said was saved.
LEMMA KeptStep ==
    TypeInv /\ Uids /\ Kept /\ SavedIsKept /\ [Next]_vars => Kept' /\ SavedIsKept'
<1> SUFFICES ASSUME TypeInv, Uids, Kept, SavedIsKept, [Next]_vars
             PROVE  Kept' /\ SavedIsKept'
    OBVIOUS
<1>0. /\ text \in Nat /\ draftUid \in Nat /\ saved \in Nat
      /\ nextUid \in Nat /\ nextUid > 0
      /\ \A u \in DOMAIN drafts : u \in Nat /\ drafts[u] \in Nat
      /\ \A r \in DOMAIN saves : /\ saves[r].text \in Nat
                                 /\ saves[r].replace \in Nat
                                 /\ saves[r].uid \in Nat
    BY Numbers
<1>q. HasQueued' /\ (DOMAIN queued # {} => DOMAIN queued' # {})
    BY QueuedStep DEF Kept
<1>s. SUFFICES OwnDraft' /\ NoLater' /\ SavedIsKept'
    BY <1>q DEF Kept
<1>1. CASE Idle
    BY <1>0, <1>1, <1>q DEF Idle, Kept, OwnDraft, NoLater, SavedIsKept, OnTheWay
<1>2. CASE Posts
    <2>1. PICK n : Appended(n)
        BY <1>2, PostsRow
    <2>2. UNCHANGED <<drafts, nextUid, draftUid, saved, text>>
        BY <1>2 DEF Posts
    <2>3. OwnDraft' /\ SavedIsKept'
        BY <1>q, <2>1, <2>2 DEF Appended, Kept, OwnDraft, SavedIsKept, OnTheWay
    <2>4. NoLater'
        BY <1>0, <2>1, <2>2 DEF Appended, Kept, NoLater, Uids
    <2> QED
        BY <2>3, <2>4
<1>3. ASSUME NEW r \in DOMAIN saves, Stores(r)
      PROVE  OwnDraft' /\ NoLater' /\ SavedIsKept'
    <2>1. /\ DOMAIN drafts' = DOMAIN drafts \cup {nextUid}
          /\ drafts'[nextUid] = saves[r].text
          /\ \A y \in DOMAIN drafts : y # nextUid => drafts'[y] = drafts[y]
        BY <1>3 DEF Stores, With
    <2>2. \A y \in DOMAIN drafts : drafts'[y] = drafts[y]
        BY <1>0, <2>1 DEF Uids
    <2>3. OwnDraft'
        <3> SUFFICES ASSUME DOMAIN queued = {}, NEW q \in DOMAIN saves,
                            OnTheWay(q)'
                     PROVE  /\ saves'[q].uid \in DOMAIN drafts'
                            /\ drafts'[saves'[q].uid] = saves'[q].text
            BY <1>3, <1>q DEF Stores, SaveAt, OwnDraft
        <3>1. CASE q = r
            BY <1>3, <2>1, <3>1 DEF Stores, SaveAt
        <3>2. CASE q # r
            <4>1. saves'[q] = saves[q]
                BY <1>3, <3>2 DEF Stores, SaveAt
            <4>2. OnTheWay(q)
                BY <4>1 DEF OnTheWay
            <4>3. saves[q].uid \in DOMAIN drafts /\ drafts[saves[q].uid] = saves[q].text
                BY <4>2 DEF Kept, OwnDraft
            <4> QED
                BY <2>1, <2>2, <4>1, <4>3
        <3> QED
            BY <3>1, <3>2
    <2>4. NoLater'
        BY <1>0, <1>3, <2>1, <2>2 DEF Stores, SaveAt, Kept, NoLater, Uids
    <2>5. SavedIsKept'
        BY <1>3, <1>q, <2>1, <2>2 DEF Stores, SavedIsKept
    <2> QED
        BY <2>3, <2>4, <2>5
<1>4. ASSUME NEW r \in DOMAIN saves, Replaces(r)
      PROVE  OwnDraft' /\ NoLater' /\ SavedIsKept'
    <2> DEFINE x == saves[r].replace
    <2>1. /\ DOMAIN drafts' \subseteq DOMAIN drafts
          /\ \A y \in DOMAIN drafts : y # x => y \in DOMAIN drafts'
          /\ \A y \in DOMAIN drafts' : drafts'[y] = drafts[y]
        BY <1>4 DEF Replaces, Without
    <2> HIDE DEF x
    <2>2. OwnDraft'
        <3> SUFFICES ASSUME DOMAIN queued = {}, NEW q \in DOMAIN saves,
                            OnTheWay(q)'
                     PROVE  /\ saves'[q].uid \in DOMAIN drafts'
                            /\ drafts'[saves'[q].uid] = saves'[q].text
            BY <1>4, <1>q DEF Replaces, SaveAt, OwnDraft
        <3>1. OnTheWay(q)
            BY <1>4 DEF Replaces, SaveAt, OnTheWay
        <3>2. saves'[q].uid = saves[q].uid /\ saves'[q].text = saves[q].text
            BY <1>4 DEF Replaces, SaveAt
        <3>3. saves[q].uid \in DOMAIN drafts /\ drafts[saves[q].uid] = saves[q].text
            BY <3>1 DEF Kept, OwnDraft
        <3>4. x # saves[q].uid
            BY <3>1 DEF Uids, x
        <3> QED
            BY <2>1, <3>2, <3>3, <3>4
    <2>3. NoLater'
        BY <1>0, <1>4, <2>1 DEF Replaces, SaveAt, Kept, NoLater
    <2>4. SavedIsKept'
        <3>1. CASE DOMAIN queued # {}
            BY <1>q, <3>1 DEF SavedIsKept
        <3>2. CASE DOMAIN queued = {} /\ saved > 0
            <4>1. PICK u \in DOMAIN drafts : drafts[u] >= saved
                BY <3>2 DEF SavedIsKept
            <4>2. CASE u # x
                BY <1>4, <2>1, <4>1, <4>2 DEF Replaces, SavedIsKept
            <4>3. CASE u = x
                <5> DEFINE v == saves[r].uid
                <5>1. OnTheWay(r)
                    BY <1>4 DEF Replaces, OnTheWay
                <5>2. v \in DOMAIN drafts /\ drafts[v] = saves[r].text
                    BY <3>2, <5>1 DEF Kept, OwnDraft
                <5>3. v # x
                    BY <5>1 DEF Uids, x
                <5>4. drafts[u] <= saves[r].text
                    BY <1>4, <4>1, <4>3 DEF Replaces, Kept, NoLater, x
                <5>5. drafts[v] >= saved
                    BY <1>0, <4>1, <5>2, <5>4
                <5>6. v \in DOMAIN drafts' /\ drafts'[v] >= saved
                    BY <2>1, <5>2, <5>3, <5>5
                <5> HIDE DEF v
                <5> QED
                    BY <1>4, <5>6 DEF Replaces, SavedIsKept
            <4> QED
                BY <4>2, <4>3
        <3> QED
            BY <1>4, <3>1, <3>2 DEF Replaces, SavedIsKept
    <2> QED
        BY <2>2, <2>3, <2>4
<1>5. ASSUME NEW r \in DOMAIN saves, IsHeard(r)
      PROVE  OwnDraft' /\ NoLater' /\ SavedIsKept'
    <2>1. OwnDraft' /\ NoLater'
        BY <1>5, <1>q DEF IsHeard, SaveAt, Kept, OwnDraft, NoLater, OnTheWay
    <2>2. DOMAIN queued = {} =>
            saves[r].uid \in DOMAIN drafts /\ drafts[saves[r].uid] = saves[r].text
        BY <1>5 DEF IsHeard, Kept, OwnDraft, OnTheWay
    <2>3. SavedIsKept'
        <3>1. saved' = saves[r].text /\ drafts' = drafts /\ saved' \in Nat
            BY <1>0, <1>5 DEF IsHeard
        <3>2. CASE DOMAIN queued = {}
            <4>1. saves[r].uid \in DOMAIN drafts' /\ drafts'[saves[r].uid] >= saved'
                BY <2>2, <3>1, <3>2
            <4> QED
                BY <4>1 DEF SavedIsKept
        <3>3. CASE DOMAIN queued # {}
            BY <1>q, <3>3 DEF SavedIsKept
        <3> QED
            BY <3>2, <3>3
    <2> QED
        BY <2>1, <2>3
<1>6. ASSUME NEW r \in DOMAIN saves, Ends(r)
      PROVE  OwnDraft' /\ NoLater' /\ SavedIsKept'
    BY <1>6, <1>q DEF Ends, SaveAt, Kept, OwnDraft, NoLater, SavedIsKept, OnTheWay
<1>7. ASSUME NEW r \in DOMAIN sends, IsSent(r)
      PROVE  OwnDraft' /\ NoLater' /\ SavedIsKept'
    <2>1. /\ DOMAIN drafts' \subseteq DOMAIN drafts
          /\ \A y \in DOMAIN drafts' : drafts'[y] = drafts[y]
        BY <1>7 DEF IsSent, Without
    <2>2. DOMAIN queued # {}
        BY <1>7 DEF IsSent, Kept, HasQueued
    <2>3. OwnDraft' /\ SavedIsKept'
        BY <1>q, <2>2 DEF OwnDraft, SavedIsKept
    <2>4. NoLater'
        BY <1>7, <2>1 DEF IsSent, Kept, NoLater
    <2> QED
        BY <2>3, <2>4
<1> QED
    BY <1>1, <1>2, <1>3, <1>4, <1>5, <1>6, <1>7, Shapes

\* What "draft saved" was about is in the Drafts folder, in that state or a
\* later one, until the message is queued (saveDraft in the page, SaveDraft and
\* Send on the server), for every order of autosaves, answers and failures.
THEOREM SavedKept == Spec => []SavedIsKept
<1>1. Init => Uids /\ Kept /\ SavedIsKept
    BY DEF Init, Uids, Kept, OwnDraft, NoLater, HasQueued, SavedIsKept
<1> QED
    BY <1>1, TypeInit, TypeStep, UidsStep, KeptStep, PTL DEF Spec
=============================================================================
