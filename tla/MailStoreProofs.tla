-------------------------- MODULE MailStoreProofs --------------------------
(***************************************************************************)
(* What MailStore keeps true whatever the sets of messages, folders,       *)
(* copiers, filers and clients are, and what MailEvents makes of the       *)
(* messages it commits, for any number of instances and any buffer.        *)
(***************************************************************************)
EXTENDS MailStore, MailEvents, FiniteSetTheorems,
        WellFoundedInduction, TLAPS

(***************************************************************************)
(* The helpers on folder rows keep them rows.                              *)
(***************************************************************************)

\* One message more: what it does to the fields of a folder row.
LEMMA GrownRow ==
    ASSUME TypeOK, NEW f \in Folders, NEW unread \in BOOLEAN
    PROVE  /\ Grown(f, unread) \in FolderRow
           /\ Grown(f, unread).state = folder[f].state
           /\ Grown(f, unread).uidNext = folder[f].uidNext + 1
           /\ Grown(f, unread).modseq = folder[f].modseq + 1
           /\ Grown(f, unread).total = folder[f].total + 1
           /\ Grown(f, unread).unread = folder[f].unread + One(unread)
<1> DEFINE q == Grown(f, unread)
<1>1. folder[f] \in FolderRow
    BY DEF TypeOK
<1>2. /\ q.state = folder[f].state
      /\ q.uidNext = folder[f].uidNext + 1
      /\ q.modseq = folder[f].modseq + 1
      /\ q.total = folder[f].total + 1
      /\ q.unread = folder[f].unread + One(unread)
    BY <1>1 DEF FolderRow, Grown
<1>3. One(unread) \in Nat
    BY DEF One
<1>4. /\ q.uidNext \in Nat /\ q.modseq \in Nat
      /\ q.total \in Nat /\ q.unread \in Nat
    BY <1>1, <1>2, <1>3 DEF FolderRow
<1>5. q \in FolderRow
    BY <1>1, <1>2, <1>4 DEF FolderRow, Grown
<1> QED
    BY <1>2, <1>5

\* The clamp of the SQL updates.
LEMMA ClampType ==
    ASSUME NEW k \in Int
    PROVE  NotBelowZero(k) \in Nat /\ (k >= 0 => NotBelowZero(k) = k)
BY DEF NotBelowZero

\* n messages fewer, u of them unread.
LEMMA ShrunkRow ==
    ASSUME TypeOK, NEW f \in Folders, NEW n \in Nat, NEW u \in Nat
    PROVE  /\ Shrunk(f, n, u) \in FolderRow
           /\ Shrunk(f, n, u).state = folder[f].state
           /\ Shrunk(f, n, u).uidNext = folder[f].uidNext
           /\ Shrunk(f, n, u).modseq = folder[f].modseq + n
           /\ Shrunk(f, n, u).total = NotBelowZero(folder[f].total - n)
           /\ Shrunk(f, n, u).unread = NotBelowZero(folder[f].unread - u)
<1> DEFINE q == Shrunk(f, n, u)
<1>1. folder[f] \in FolderRow
    BY DEF TypeOK
<1>2. /\ q.state = folder[f].state
      /\ q.uidNext = folder[f].uidNext
      /\ q.modseq = folder[f].modseq + n
      /\ q.total = NotBelowZero(folder[f].total - n)
      /\ q.unread = NotBelowZero(folder[f].unread - u)
    BY <1>1 DEF FolderRow, Shrunk
<1>3. /\ q.uidNext \in Nat /\ q.modseq \in Nat
      /\ q.total \in Nat /\ q.unread \in Nat
    BY <1>1, <1>2, ClampType DEF FolderRow
<1>4. q \in FolderRow
    BY <1>1, <1>2, <1>3 DEF FolderRow, Shrunk
<1> QED
    BY <1>2, <1>4

\* The flags of one message changed, and unread messages by delta.
LEMMA ReflaggedRow ==
    ASSUME TypeOK, NEW f \in Folders, NEW delta \in Int
    PROVE  /\ Reflagged(f, delta) \in FolderRow
           /\ Reflagged(f, delta).state = folder[f].state
           /\ Reflagged(f, delta).uidNext = folder[f].uidNext
           /\ Reflagged(f, delta).modseq = folder[f].modseq + 1
           /\ Reflagged(f, delta).total = folder[f].total
           /\ Reflagged(f, delta).unread =
                NotBelowZero(folder[f].unread + delta)
<1> DEFINE q == Reflagged(f, delta)
<1>1. folder[f] \in FolderRow
    BY DEF TypeOK
<1>2. /\ q.state = folder[f].state
      /\ q.uidNext = folder[f].uidNext
      /\ q.modseq = folder[f].modseq + 1
      /\ q.total = folder[f].total
      /\ q.unread = NotBelowZero(folder[f].unread + delta)
    BY <1>1 DEF FolderRow, Reflagged
<1>3. q.modseq \in Nat /\ q.unread \in Nat
    BY <1>1, <1>2, ClampType DEF FolderRow
<1>4. q \in FolderRow
    BY <1>1, <1>2, <1>3 DEF FolderRow, Reflagged
<1> QED
    BY <1>2, <1>4

\* The set of messages is finite, and so is every part of it.
LEMMA MessagesFinite ==
    ASSUME NEW S, S \subseteq Messages
    PROVE  IsFiniteSet(S) /\ Cardinality(S) \in Nat
BY FS_Subset, FS_CardinalityType, StoreAssumption

\* The UID and the modseq a folder gives out are numbers.
LEMMA NumbersGiven ==
    ASSUME TypeOK, NEW f \in Folders
    PROVE  UidFor(f) \in Nat /\ ModseqFor(f) \in Nat
BY DEF TypeOK, FolderRow, UidFor, ModseqFor

\* The folders and flags the code names are among the folders and flags.
LEMMA StandardFolders ==
    /\ Inbox \in Folders /\ Drafts \in Folders /\ Reports \in Folders
    /\ {"Seen"} \in SUBSET Flags /\ {"Draft"} \in SUBSET Flags
BY StoreAssumption

-----------------------------------------------------------------------------
(***************************************************************************)
(* Types                                                                   *)
(***************************************************************************)

\* Every action keeps every row in its type: the counters never go below
\* zero, whatever order the two halves of copies and filings run in.
LEMMA TypeStep == TypeOK /\ [Next]_vars => TypeOK'
<1> SUFFICES ASSUME TypeOK, [Next]_vars PROVE TypeOK'
    OBVIOUS
<1> USE StandardFolders
<1>1. ASSUME NEW m \in Messages, NEW t \in Folders, NEW seen \in BOOLEAN,
             Persist(m, t, seen)
      PROVE  TypeOK'
    <2> DEFINE f == IF Present(t) THEN t ELSE Inbox
    <2>1. Grown(f, ~seen) \in FolderRow
        BY GrownRow
    <2>2. folder' \in [Folders -> FolderRow]
        BY <1>1, <2>1 DEF Persist, TypeOK
    <2>3. msg' \in [Messages -> MessageRow]
        BY <1>1, NumbersGiven DEF Persist, TypeOK, MessageRow
    <2>4. refs' \in [Blobs -> Nat]
        BY <1>1 DEF Persist, TypeOK, Referenced, MessageRow
    <2>5. used' \in Nat /\ outbox' \subseteq Messages /\ ops' \in Nat
        BY <1>1 DEF Persist, TypeOK, Counted
    <2> QED
        BY <1>1, <2>2, <2>3, <2>4, <2>5 DEF Persist, TypeOK
<1>2. ASSUME NEW m \in Messages, NEW op \in {"add", "del", "set"},
             NEW F \in SUBSET Flags, NEW since, SetFlags(m, op, F, since)
      PROVE  TypeOK'
    <2> DEFINE f == msg[m].folder
    <2>1. f \in Folders /\ FlagsAfter(m, op, F) \in SUBSET Flags
        BY DEF TypeOK, MessageRow, FlagsAfter
    <2>2. UnreadDelta(m, op, F) \in Int
        BY DEF UnreadDelta, One
    <2>3. folder' \in [Folders -> FolderRow]
        BY <1>2, <2>1, <2>2, ReflaggedRow DEF SetFlags, TypeOK
    <2>4. msg' \in [Messages -> MessageRow]
        <3> DEFINE row == msg[m]
                   F2  == FlagsAfter(m, op, F)
                   seq == ModseqAfterStore(m)
        <3>1. row \in MessageRow /\ F2 \in SUBSET Flags /\ seq \in Nat
            BY <2>1, NumbersGiven DEF ModseqAfterStore, TypeOK
        <3> DEFINE new == [row EXCEPT !.flags = F2, !.modseq = seq]
        <3>2. new \in MessageRow
            <4> HIDE DEF row, F2, seq
            <4> QED BY <3>1 DEF MessageRow
        <3>3. msg' = [msg EXCEPT ![m] = new]
            BY <1>2 DEF SetFlags
        <3> HIDE DEF new
        <3> QED
            BY <3>2, <3>3 DEF TypeOK
    <2> QED
        BY <1>2, <2>3, <2>4 DEF SetFlags, TypeOK, Counted
<1>3. ASSUME NEW f \in Folders, NEW S \in SUBSET Messages, Expunge(f, S)
      PROVE  TypeOK'
    <2> DEFINE gone == S \cap LiveIn(f)
    <2>1. /\ Cardinality(gone) \in Nat
          /\ Cardinality(gone \cap UnreadIn(f)) \in Nat
        BY MessagesFinite
    <2>2. folder' \in [Folders -> FolderRow]
        BY <1>3, <2>1, ShrunkRow DEF Expunge, TypeOK
    <2>3. msg' \in [Messages -> MessageRow]
        BY <1>3 DEF Expunge, TypeOK, MessageRow
    <2>4. used' \in Nat
        BY <1>3, <2>1 DEF Expunge, TypeOK, QuotaAfter, NotBelowZero
    <2> QED
        BY <1>3, <2>2, <2>3, <2>4 DEF Expunge, TypeOK, Counted
<1>4. ASSUME NEW m \in Messages, NEW d \in Folders, Move(m, d)
      PROVE  TypeOK'
    <2>1. msg[m].folder \in Folders
        BY DEF TypeOK, MessageRow
    <2>2. folder' \in [Folders -> FolderRow]
        <3>1. One(~Seen(m)) \in Nat
            BY DEF One
        <3> QED
            BY <1>4, <2>1, <3>1, GrownRow, ShrunkRow DEF Move, TypeOK
    <2>3. msg' \in [Messages -> MessageRow]
        BY <1>4, NumbersGiven DEF Move, TypeOK, MessageRow
    <2> QED
        BY <1>4, <2>2, <2>3 DEF Move, TypeOK, Counted
<1>5. ASSUME NEW c \in Copiers, NEW m \in Messages, NEW d \in Folders,
             CopyBegin(c, m, d)
      PROVE  TypeOK'
    <2>1. [source |-> m, folder |-> msg[m].folder, uid |-> msg[m].uid,
           dest |-> d, seen |-> Seen(m)] \in CopyRead
        BY DEF TypeOK, MessageRow, CopyRead, Seen
    <2> QED
        BY <1>5, <2>1 DEF CopyBegin, TypeOK
<1>6. ASSUME NEW c \in Copiers, NEW n \in Messages, CopyCommit(c, n)
      PROVE  TypeOK'
    <2> DEFINE r == copying[c]
    <2>1. r \in CopyRead
        BY <1>6 DEF CopyCommit, TypeOK
    <2>2. r.source \in Messages /\ r.dest \in Folders /\ r.seen \in BOOLEAN
        BY <2>1 DEF CopyRead
    <2>3. folder' \in [Folders -> FolderRow]
        BY <1>6, <2>2, GrownRow DEF CopyCommit, TypeOK
    <2>4. msg' \in [Messages -> MessageRow]
        BY <1>6, NumbersGiven, <2>2 DEF CopyCommit, TypeOK, MessageRow
    <2>5. refs' \in [Blobs -> Nat]
        BY <1>6, <2>2 DEF CopyCommit, TypeOK, Referenced, MessageRow
    <2>6. raced' \in BOOLEAN
        BY <1>6 DEF CopyCommit, TypeOK
    <2> QED
        BY <1>6, <2>3, <2>4, <2>5, <2>6 DEF CopyCommit, TypeOK, Counted
<1>7. ASSUME NEW c \in Copiers, CopyAbort(c)
      PROVE  TypeOK'
    BY <1>7 DEF CopyAbort, TypeOK
<1>8. ASSUME NEW f \in Folders, CreateFolder(f)
      PROVE  TypeOK'
    <2>1. folder' \in [Folders -> FolderRow]
        BY <1>8 DEF CreateFolder, TypeOK, FolderRow
    <2> QED
        BY <1>8, <2>1 DEF CreateFolder, TypeOK, Counted
<1>9. ASSUME NEW f \in Folders, DeleteFolder(f)
      PROVE  TypeOK'
    <2>1. folder' \in [Folders -> FolderRow]
        BY <1>9 DEF DeleteFolder, TypeOK, FolderRow
    <2>2. msg' \in [Messages -> MessageRow]
        BY <1>9 DEF DeleteFolder, TypeOK, MessageRow
    <2>3. Cardinality(LiveIn(f)) \in Nat
        BY MessagesFinite DEF LiveIn
    <2>4. used' \in Nat
        BY <1>9, <2>3 DEF DeleteFolder, TypeOK, QuotaAfter, NotBelowZero
    <2> QED
        BY <1>9, <2>1, <2>2, <2>4 DEF DeleteFolder, TypeOK, Counted
<1>10. ASSUME NEW r \in Filers, NEW m \in Messages, FileBegin(r, m)
       PROVE  TypeOK'
    <2>1. [message |-> m, source |-> msg[m].folder, unread |-> ~Seen(m)]
             \in FilingRead
        BY DEF TypeOK, MessageRow, FilingRead, Seen
    <2> QED
        BY <1>10, <2>1 DEF FileBegin, TypeOK
<1>11. ASSUME NEW r \in Filers, FileCommit(r)
       PROVE  TypeOK'
    <2> DEFINE read == filing[r]
    <2>1. read \in FilingRead
        BY <1>11 DEF FileCommit, TypeOK
    <2>2. /\ read.message \in Messages /\ read.source \in Folders
          /\ read.unread \in BOOLEAN
        BY <2>1 DEF FilingRead
    <2>3. folder' \in [Folders -> FolderRow]
        <3>1. One(read.unread) \in Nat
            BY DEF One
        <3>2. /\ Grown(Reports, FALSE) \in FolderRow
              /\ Shrunk(read.source, 1, One(read.unread)) \in FolderRow
            BY <2>2, <3>1, GrownRow, ShrunkRow
        <3> QED
            BY <1>11, <2>2, <3>2 DEF FileCommit, TypeOK
    <2>4. msg' \in [Messages -> MessageRow]
        <3> DEFINE row == msg[read.message]
                   F2  == row.flags \cup {"Seen"}
                   uid == UidFor(Reports)
                   seq == ModseqFor(Reports)
        <3>1. row \in MessageRow /\ F2 \in SUBSET Flags
            BY <2>2 DEF TypeOK, MessageRow
        <3> DEFINE new == [row EXCEPT !.folder = Reports, !.uid = uid,
                                      !.modseq = seq, !.flags = F2]
        <3>2. new \in MessageRow
            <4>1. uid \in Nat /\ seq \in Nat
                BY NumbersGiven
            <4> HIDE DEF row, F2, uid, seq
            <4> QED BY <3>1, <4>1 DEF MessageRow
        <3>3. msg' = [msg EXCEPT ![read.message] = new]
            BY <1>11 DEF FileCommit
        <3> HIDE DEF new
        <3> QED
            BY <2>2, <3>2, <3>3 DEF TypeOK
    <2>5. raced' \in BOOLEAN
        BY <1>11 DEF FileCommit, TypeOK
    <2> QED
        <3>1. ops' \in Nat /\ filing' \in [Filers -> FilingRead \cup {None}]
            BY <1>11 DEF FileCommit, TypeOK, Counted
        <3> QED
            BY <1>11, <2>3, <2>4, <2>5, <3>1 DEF FileCommit, TypeOK
<1>12. ASSUME NEW c \in Clients, NEW m \in Messages, Fetch(c, m)
       PROVE  TypeOK'
    <2>1. [message |-> m, folder |-> msg[m].folder, uid |-> msg[m].uid,
           modseq |-> msg[m].modseq, flags |-> msg[m].flags] \in Fetched
        BY DEF TypeOK, MessageRow, Fetched
    <2> QED
        BY <1>12, <2>1 DEF Fetch, TypeOK
<1>13. ASSUME UNCHANGED vars
       PROVE  TypeOK'
    BY <1>13 DEF vars, TypeOK
<1> QED
    BY <1>1, <1>2, <1>3, <1>4, <1>5, <1>6, <1>7, <1>8, <1>9, <1>10, <1>11,
       <1>12, <1>13 DEF Next

\* The rows a mailbox is provisioned with are of their types.
LEMMA TypeInit == Init => TypeOK
<1> SUFFICES ASSUME Init PROVE TypeOK
    OBVIOUS
<1>1. folder \in [Folders -> FolderRow]
    BY DEF Init, FolderRow
<1>2. ASSUME NEW b \in Blobs
      PROVE  [state |-> "free", folder |-> Inbox, uid |-> 0, modseq |-> 0,
              flags |-> {}, blob |-> b] \in MessageRow
    BY StandardFolders DEF MessageRow
<1>3. msg \in [Messages -> MessageRow]
    BY <1>2 DEF Init
<1> QED
    BY <1>1, <1>3 DEF Init, TypeOK

\* Rows, counters and pending reads keep their types for ever: the clamped
\* counters of Expunge, Move and the backfill stay natural numbers.
THEOREM TypeCorrect == Spec => []TypeOK
BY TypeInit, TypeStep, PTL DEF Spec

-----------------------------------------------------------------------------
(***************************************************************************)
(* UIDs                                                                    *)
(***************************************************************************)

\* The backfill never files a message out of Reports itself, so its two
\* folder updates are to two rows.
FiledFromElsewhere ==
    \A r \in Filers : filing[r] # None => filing[r].source # Reports

\* A message keeps its folder and UID; at most it is expunged.
Stays(m) ==
    /\ msg'[m].folder = msg[m].folder
    /\ msg'[m].uid = msg[m].uid
    /\ msg'[m].state = "live" => msg[m].state = "live"
    /\ msg'[m].state # "free" => msg[m].state # "free"

\* Message m, and no other, takes the next UID of folder g.
Placed(m, g) ==
    /\ msg'[m].folder = g
    /\ msg'[m].uid = folder[g].uidNext
    /\ folder'[g].uidNext = folder[g].uidNext + 1
    /\ \A n \in Messages \ {m} : Stays(n)

\* The reads a filer starts from exclude the Reports folder.
LEMMA FiledFromElsewhereInductive ==
    /\ Init => FiledFromElsewhere
    /\ TypeOK /\ FiledFromElsewhere /\ [Next]_vars => FiledFromElsewhere'
<1>1. Init => FiledFromElsewhere
    BY DEF Init, FiledFromElsewhere
<1>2. ASSUME TypeOK, FiledFromElsewhere, [Next]_vars
      PROVE  FiledFromElsewhere'
    <2>1. CASE UNCHANGED filing
        BY <1>2, <2>1 DEF FiledFromElsewhere
    <2>2. ASSUME NEW r \in Filers, NEW m \in Messages, FileBegin(r, m)
          PROVE  FiledFromElsewhere'
        BY <1>2, <2>2 DEF FiledFromElsewhere, FileBegin, TypeOK
    <2>3. ASSUME NEW r \in Filers, FileCommit(r)
          PROVE  FiledFromElsewhere'
        BY <1>2, <2>3 DEF FiledFromElsewhere, FileCommit, TypeOK
    <2> QED
        BY <1>2, <2>1, <2>2, <2>3 DEF Next, Persist, SetFlags, Expunge, Move,
           CopyBegin, CopyCommit, CopyAbort, CreateFolder, DeleteFolder, Fetch,
           vars
<1> QED
    BY <1>1, <1>2

\* What any step does to UIDs: uid_next never falls, and either every
\* message stays or one message takes the next UID of one folder.
LEMMA UidEffect ==
    ASSUME TypeOK, FiledFromElsewhere, [Next]_vars
    PROVE  /\ \A f \in Folders : folder'[f].uidNext >= folder[f].uidNext
           /\ \/ \A m \in Messages : Stays(m)
              \/ \E m \in Messages, g \in Folders : Placed(m, g)
<1> DEFINE Goal == /\ \A f \in Folders : folder'[f].uidNext >= folder[f].uidNext
                   /\ \/ \A m \in Messages : Stays(m)
                      \/ \E m \in Messages, g \in Folders : Placed(m, g)
<1> USE StandardFolders
<1>0. \A f \in Folders : folder[f] \in FolderRow /\ folder[f].uidNext \in Nat
    BY DEF TypeOK, FolderRow
<1>1. ASSUME NEW m \in Messages, NEW t \in Folders, NEW seen \in BOOLEAN,
             Persist(m, t, seen)
      PROVE  Goal
    <2> DEFINE f == IF Present(t) THEN t ELSE Inbox
    <2>1. f \in Folders
        OBVIOUS
    <2>2. folder' = [folder EXCEPT ![f] = Grown(f, ~seen)]
        BY <1>1 DEF Persist
    <2>3. Grown(f, ~seen).uidNext = folder[f].uidNext + 1
        BY <2>1, GrownRow
    <2>4. Placed(m, f)
        BY <1>1, <2>1, <2>2, <2>3 DEF Persist, Placed, Stays, UidFor, TypeOK
    <2> HIDE DEF f
    <2> QED
        BY <1>0, <2>1, <2>2, <2>3, <2>4 DEF TypeOK
<1>2. ASSUME NEW m \in Messages, NEW op \in {"add", "del", "set"},
             NEW F \in SUBSET Flags, NEW since, SetFlags(m, op, F, since)
      PROVE  Goal
    <2> DEFINE f == msg[m].folder
    <2>1. f \in Folders /\ UnreadDelta(m, op, F) \in Int
        BY DEF TypeOK, MessageRow, UnreadDelta, One
    <2>2. Reflagged(f, UnreadDelta(m, op, F)).uidNext = folder[f].uidNext
        BY <2>1, ReflaggedRow
    <2>3. \A g \in Folders : folder'[g].uidNext = folder[g].uidNext
        BY <1>2, <2>1, <2>2 DEF SetFlags, TypeOK
    <2>4. \A n \in Messages : Stays(n)
        BY <1>2 DEF SetFlags, Stays, TypeOK, MessageRow
    <2> QED
        BY <1>0, <2>3, <2>4
<1>3. ASSUME NEW f \in Folders, NEW S \in SUBSET Messages, Expunge(f, S)
      PROVE  Goal
    <2> DEFINE n == Cardinality(S \cap LiveIn(f))
               u == Cardinality(S \cap LiveIn(f) \cap UnreadIn(f))
    <2>1. n \in Nat /\ u \in Nat
        BY MessagesFinite
    <2>2. Shrunk(f, n, u).uidNext = folder[f].uidNext
        BY <2>1, ShrunkRow
    <2>3. \A g \in Folders : folder'[g].uidNext = folder[g].uidNext
        BY <1>3, <2>2 DEF Expunge, TypeOK
    <2>4. \A k \in Messages : Stays(k)
        BY <1>3 DEF Expunge, Stays, TypeOK, MessageRow, LiveIn, Live
    <2> QED
        BY <1>0, <2>3, <2>4
<1>4. ASSUME NEW m \in Messages, NEW d \in Folders, Move(m, d)
      PROVE  Goal
    <2> DEFINE f == msg[m].folder
    <2>1. /\ f \in Folders /\ f # d
          /\ (~Seen(m)) \in BOOLEAN /\ One(~Seen(m)) \in Nat
        BY <1>4 DEF TypeOK, MessageRow, Move, Seen, One
    <2>2. /\ Grown(d, ~Seen(m)).uidNext = folder[d].uidNext + 1
          /\ Shrunk(f, 1, One(~Seen(m))).uidNext = folder[f].uidNext
        <3> DEFINE unread == ~Seen(m)
        <3> HIDE DEF unread
        <3>1. unread \in BOOLEAN /\ One(unread) \in Nat
            BY <2>1 DEF unread
        <3>2. /\ Grown(d, unread).uidNext = folder[d].uidNext + 1
              /\ Shrunk(f, 1, One(unread)).uidNext = folder[f].uidNext
            BY <2>1, <3>1, GrownRow, ShrunkRow
        <3> QED
            BY <3>2 DEF unread
    <2>3. \A g \in Folders : folder'[g].uidNext =
             IF g = d THEN folder[g].uidNext + 1 ELSE folder[g].uidNext
        BY <1>4, <2>1, <2>2 DEF Move, TypeOK
    <2>4. Placed(m, d)
        BY <1>4, <2>3 DEF Move, Placed, Stays, UidFor, TypeOK, MessageRow
    <2> QED
        BY <1>0, <2>3, <2>4
<1>5. ASSUME NEW c \in Copiers, NEW n \in Messages, CopyCommit(c, n)
      PROVE  Goal
    <2> DEFINE r == copying[c]
    <2>1. r \in CopyRead
        BY <1>5 DEF CopyCommit, TypeOK
    <2>2. r.source \in Messages /\ r.dest \in Folders /\ (~r.seen) \in BOOLEAN
        BY <2>1 DEF CopyRead
    <2>3. Grown(r.dest, ~r.seen).uidNext = folder[r.dest].uidNext + 1
        BY <2>2, GrownRow
    <2>4. \A g \in Folders : folder'[g].uidNext =
             IF g = r.dest THEN folder[g].uidNext + 1 ELSE folder[g].uidNext
        BY <1>5, <2>2, <2>3 DEF CopyCommit, TypeOK
    <2>5. Placed(n, r.dest)
        BY <1>5, <2>2, <2>4 DEF CopyCommit, Placed, Stays, UidFor, TypeOK
    <2> QED
        BY <1>0, <2>2, <2>4, <2>5
<1>6. ASSUME NEW f \in Folders, CreateFolder(f) \/ DeleteFolder(f)
      PROVE  Goal
    <2>1. \A g \in Folders : folder'[g].uidNext = folder[g].uidNext
        BY <1>6, <1>0 DEF CreateFolder, DeleteFolder, TypeOK, FolderRow
    <2>2. \A k \in Messages : Stays(k)
        BY <1>6 DEF CreateFolder, DeleteFolder, Stays, TypeOK, MessageRow,
                    LiveIn, Live
    <2> QED
        BY <1>0, <2>1, <2>2
<1>7. ASSUME NEW r \in Filers, FileCommit(r)
      PROVE  Goal
    <2> DEFINE read == filing[r]
               f == read.source
               m == read.message
    <2>1. read \in FilingRead /\ f # Reports
        BY <1>7 DEF FileCommit, TypeOK, FiledFromElsewhere
    <2>2. m \in Messages /\ f \in Folders /\ One(read.unread) \in Nat
        BY <2>1 DEF FilingRead, One
    <2>3. /\ Grown(Reports, FALSE).uidNext = folder[Reports].uidNext + 1
          /\ Shrunk(f, 1, One(read.unread)).uidNext = folder[f].uidNext
        BY <2>2, GrownRow, ShrunkRow
    <2>4. \A g \in Folders : folder'[g].uidNext =
             IF g = Reports THEN folder[g].uidNext + 1 ELSE folder[g].uidNext
        BY <1>7, <2>1, <2>2, <2>3 DEF FileCommit, TypeOK
    <2>5. Placed(m, Reports)
        <3>1. msg[m] \in MessageRow
            BY <2>2 DEF TypeOK
        <3>2. /\ \A n \in Messages \ {m} : msg'[n] = msg[n]
              /\ msg'[m].folder = Reports /\ msg'[m].uid = UidFor(Reports)
            BY <1>7, <2>2, <3>1 DEF FileCommit, TypeOK, MessageRow
        <3> QED
            BY <2>4, <3>2 DEF Placed, Stays, UidFor
    <2> QED
        BY <1>0, <2>2, <2>4, <2>5
<1>8. CASE UNCHANGED <<folder, msg>>
    BY <1>0, <1>8 DEF Stays
<1> QED
    BY <1>1, <1>2, <1>3, <1>4, <1>5, <1>6, <1>7, <1>8
    DEF Next, CopyBegin, CopyAbort, FileBegin, Fetch, vars

\* Uniqueness survives every step.
LEMMA UidsUniqueStep ==
    TypeOK /\ FiledFromElsewhere /\ UidsAreUnique /\ [Next]_vars
        => UidsAreUnique'
<1> SUFFICES ASSUME TypeOK, FiledFromElsewhere, UidsAreUnique, [Next]_vars
             PROVE  UidsAreUnique'
    OBVIOUS
<1>1. TypeOK'
    BY TypeStep
<1>2. /\ \A f \in Folders : /\ folder[f].uidNext \in Nat
                            /\ folder'[f].uidNext \in Nat
                            /\ folder'[f].uidNext >= folder[f].uidNext
      /\ \A m \in Messages : /\ msg[m].folder \in Folders
                             /\ msg[m].uid \in Nat
    BY <1>1, UidEffect DEF TypeOK, FolderRow, MessageRow
<1>3. CASE \A m \in Messages : Stays(m)
    BY <1>2, <1>3 DEF UidsAreUnique, Stays
<1>4. ASSUME NEW m \in Messages, NEW g \in Folders, Placed(m, g)
      PROVE  UidsAreUnique'
    <2>1. ASSUME NEW n \in Messages \ {m}, msg'[n].state # "free"
          PROVE  /\ msg'[n].folder \in Folders
                 /\ msg'[n].uid \in Nat
                 /\ msg'[n].uid < folder[msg'[n].folder].uidNext
                 /\ msg'[n].uid < folder'[msg'[n].folder].uidNext
        BY <1>2, <1>4, <2>1 DEF Placed, Stays, UidsAreUnique
    <2>2. ASSUME NEW n \in Messages \ {m}, NEW k \in Messages \ {m},
                 msg'[n].state # "free", msg'[k].state # "free",
                 msg'[n].folder = msg'[k].folder, n # k
          PROVE  msg'[n].uid # msg'[k].uid
        BY <1>4, <2>2 DEF Placed, Stays, UidsAreUnique
    <2>3. /\ msg'[m].uid = folder[g].uidNext /\ msg'[m].folder = g
          /\ msg'[m].uid < folder'[g].uidNext
        BY <1>2, <1>4 DEF Placed
    <2> QED
        BY <1>2, <2>1, <2>2, <2>3 DEF UidsAreUnique
<1> QED
    BY <1>3, <1>4, UidEffect

\* In a folder a UID names one message, live or expunged: what the partial
\* index of migration 0001 leaves to the code is kept by all its writers.
THEOREM UidsUnique == Spec => []UidsAreUnique
<1>1. Init => UidsAreUnique
    BY DEF Init, UidsAreUnique
<1> QED
    BY <1>1, TypeInit, TypeStep, FiledFromElsewhereInductive, UidsUniqueStep,
       PTL DEF Spec

\* A UID is never given out twice in a folder, not even after the message
\* that had it left: uid_next only grows, and every newcomer takes it.
THEOREM UidsNeverReused == Spec => UidsAreNotReused
<1> DEFINE Grows ==
      \A f \in Folders :
         /\ folder'[f].uidNext >= folder[f].uidNext
         /\ \A m \in Messages :
              /\ Live(m)' /\ msg'[m].folder = f
              /\ ~(m \in LiveIn(f) /\ msg'[m].uid = msg[m].uid)
              => msg'[m].uid >= folder[f].uidNext
<1>1. TypeOK /\ FiledFromElsewhere /\ [Next]_vars => [Grows]_vars
    <2> SUFFICES ASSUME TypeOK, FiledFromElsewhere, [Next]_vars PROVE Grows
        OBVIOUS
    <2>1. \A f \in Folders : folder[f].uidNext \in Nat
        BY DEF TypeOK, FolderRow
    <2>2. CASE \A m \in Messages : Stays(m)
        BY <2>2, UidEffect DEF Stays, Live, LiveIn
    <2>3. ASSUME NEW m \in Messages, NEW g \in Folders, Placed(m, g)
          PROVE  Grows
        BY <2>1, <2>3, UidEffect DEF Placed, Stays, Live, LiveIn
    <2> QED
        BY <2>2, <2>3, UidEffect
<1> QED
    BY <1>1, TypeInit, TypeStep, FiledFromElsewhereInductive, PTL
    DEF Spec, UidsAreNotReused

-----------------------------------------------------------------------------
(***************************************************************************)
(* Modseqs: what a step does to the messages of a folder and to its modseq.*)
(***************************************************************************)
SameModseq(f) == folder'[f].modseq = folder[f].modseq

NextModseq(f) == folder'[f].modseq = folder[f].modseq + 1

KeptBut(m) == \A n \in Messages \ {m} : msg'[n] = msg[n]

\* Message m takes the next UID and the next modseq of folder g.
Lands(m, g) ==
    /\ msg'[m].folder = g
    /\ msg'[m].uid = folder[g].uidNext
    /\ msg'[m].modseq = folder[g].modseq + 1
    /\ folder'[g].uidNext = folder[g].uidNext + 1
    /\ NextModseq(g)
    /\ KeptBut(m)

\* A new message of folder g.
Arrives(m, g) ==
    /\ Lands(m, g)
    /\ msg[m].state = "free" /\ msg'[m].state = "live"
    /\ \A h \in Folders \ {g} : SameModseq(h)

\* A message that is in folder f goes to folder g.
GoesOver(m, f, g) ==
    /\ Lands(m, g)
    /\ m \in LiveIn(f) /\ f # g /\ msg'[m].state = "live"
    /\ Present(f) => NextModseq(f)
    /\ \A h \in Folders \ {f, g} : SameModseq(h)

\* The backfill acts on a read that is no longer so.
Strays(m, g) == Lands(m, g) /\ raced'

\* Message m of folder f gets other flags.
GetsFlags(m, f) ==
    /\ m \in LiveIn(f) /\ m \in LiveIn(f)'
    /\ msg'[m].uid = msg[m].uid
    /\ msg'[m].flags # msg[m].flags
    /\ msg'[m].modseq = folder[f].modseq + 1
    /\ KeptBut(m)
    /\ NextModseq(f)
    /\ \A h \in Folders \ {f} : SameModseq(h)

\* The messages of S are expunged from folder f.
AreGone(S, f) ==
    /\ S \subseteq LiveIn(f)
    /\ \A m \in Messages :
         msg'[m] = IF m \in S THEN [msg[m] EXCEPT !.state = "expunged"]
                              ELSE msg[m]
    /\ \A h \in Folders \ {f} : SameModseq(h)

AreExpunged(S, f) ==
    S # {} /\ AreGone(S, f) /\ folder'[f].modseq > folder[f].modseq

\* Folder f is deleted with its messages.
IsDeleted(f) == AreGone(LiveIn(f), f) /\ SameModseq(f) /\ ~Present(f)'

Untouched == msg' = msg /\ \A h \in Folders : SameModseq(h)

StepShape ==
    \/ \E m \in Messages, g \in Folders : Arrives(m, g)
    \/ \E m \in Messages, f, g \in Folders : GoesOver(m, f, g)
    \/ \E m \in Messages, g \in Folders : Strays(m, g)
    \/ \E m \in Messages, f \in Folders : GetsFlags(m, f)
    \/ \E S \in SUBSET Messages, f \in Folders : AreExpunged(S, f)
    \/ \E f \in Folders : IsDeleted(f)
    \/ Untouched

\* Every step has one of these shapes, and no modseq ever falls.
LEMMA StepShapes ==
    ASSUME TypeOK, FiledFromElsewhere, [Next]_vars
    PROVE  StepShape /\ \A f \in Folders : folder'[f].modseq >= folder[f].modseq
<1> DEFINE Rises == \A f \in Folders : folder'[f].modseq >= folder[f].modseq
           Goal == StepShape /\ Rises
<1> USE StandardFolders
<1>0. /\ \A f \in Folders : folder[f] \in FolderRow /\ folder[f].modseq \in Nat
      /\ \A m \in Messages : msg[m] \in MessageRow /\ msg[m].folder \in Folders
    BY DEF TypeOK, FolderRow, MessageRow
<1>1. ASSUME NEW m \in Messages, NEW t \in Folders, NEW seen \in BOOLEAN,
             Persist(m, t, seen)
      PROVE  Goal
    <2> DEFINE f == IF Present(t) THEN t ELSE Inbox
    <2>1. f \in Folders
        OBVIOUS
    <2>2. folder' = [folder EXCEPT ![f] = Grown(f, ~seen)]
        BY <1>1 DEF Persist
    <2>3. /\ Grown(f, ~seen).uidNext = folder[f].uidNext + 1
          /\ Grown(f, ~seen).modseq = folder[f].modseq + 1
        BY <2>1, GrownRow
    <2>4. /\ msg[m].state = "free" /\ msg'[m].state = "live"
          /\ msg'[m].folder = f /\ msg'[m].uid = folder[f].uidNext
          /\ msg'[m].modseq = folder[f].modseq + 1 /\ KeptBut(m)
        BY <1>1 DEF Persist, KeptBut, UidFor, ModseqFor, TypeOK
    <2> HIDE DEF f
    <2>5. Arrives(m, f)
        BY <2>1, <2>2, <2>3, <2>4
        DEF Arrives, Lands, NextModseq, SameModseq, TypeOK
    <2>6. Rises
        BY <1>0, <2>1, <2>5 DEF Arrives, Lands, NextModseq, SameModseq
    <2> QED
        BY <2>1, <2>5, <2>6 DEF StepShape
<1>2. ASSUME NEW m \in Messages, NEW op \in {"add", "del", "set"},
             NEW F \in SUBSET Flags, NEW since, SetFlags(m, op, F, since)
      PROVE  Goal
    <2> DEFINE f == msg[m].folder
    <2>1. f \in Folders /\ UnreadDelta(m, op, F) \in Int
        BY <1>0 DEF UnreadDelta, One
    <2>2. Reflagged(f, UnreadDelta(m, op, F)).modseq = folder[f].modseq + 1
        BY <2>1, ReflaggedRow
    <2>3. NextModseq(f) /\ \A h \in Folders \ {f} : SameModseq(h)
        BY <1>2, <2>1, <2>2 DEF SetFlags, TypeOK, NextModseq, SameModseq
    <2>4. /\ KeptBut(m) /\ msg[m].state = "live" /\ msg'[m].state = "live"
          /\ msg'[m].folder = f /\ msg'[m].uid = msg[m].uid
          /\ msg'[m].flags = FlagsAfter(m, op, F)
          /\ msg'[m].modseq = folder[f].modseq + 1
        BY <1>0, <1>2 DEF SetFlags, KeptBut, Live, TypeOK, MessageRow,
           ModseqAfterStore, ModseqFor
    <2>5. msg'[m].flags # msg[m].flags
        BY <1>2, <2>4 DEF SetFlags, Unchanged
    <2>6. GetsFlags(m, f)
        BY <2>3, <2>4, <2>5 DEF GetsFlags, LiveIn, Live
    <2>7. Rises
        BY <1>0, <2>1, <2>3 DEF NextModseq, SameModseq
    <2> QED
        BY <2>1, <2>6, <2>7 DEF StepShape
<1>3. ASSUME NEW f \in Folders, NEW S \in SUBSET Messages, Expunge(f, S)
      PROVE  Goal
    <2> DEFINE gone == S \cap LiveIn(f)
               n == Cardinality(gone)
               u == Cardinality(gone \cap UnreadIn(f))
    <2>1. n \in Nat /\ u \in Nat /\ n # 0
        BY <1>3, MessagesFinite, FS_EmptySet DEF Expunge
    <2>2. Shrunk(f, n, u).modseq = folder[f].modseq + n
        BY <2>1, ShrunkRow
    <2>3. /\ folder'[f].modseq = folder[f].modseq + n
          /\ \A h \in Folders \ {f} : SameModseq(h)
        BY <1>3, <2>2 DEF Expunge, TypeOK, SameModseq
    <2>4. AreGone(gone, f)
        BY <1>3, <2>3 DEF Expunge, AreGone
    <2>5. AreExpunged(gone, f)
        BY <1>0, <1>3, <2>1, <2>3, <2>4 DEF Expunge, AreExpunged
    <2>6. Rises
        BY <1>0, <2>1, <2>3 DEF SameModseq
    <2> QED
        BY <2>5, <2>6 DEF StepShape
<1>4. ASSUME NEW m \in Messages, NEW d \in Folders, Move(m, d)
      PROVE  Goal
    <2> DEFINE f == msg[m].folder
    <2>1. f \in Folders /\ f # d
        BY <1>0, <1>4 DEF Move
    <2>2. /\ Grown(d, ~Seen(m)).modseq = folder[d].modseq + 1
          /\ Grown(d, ~Seen(m)).uidNext = folder[d].uidNext + 1
          /\ Shrunk(f, 1, One(~Seen(m))).modseq = folder[f].modseq + 1
        <3> DEFINE unread == ~Seen(m)
        <3>1. unread \in BOOLEAN /\ One(unread) \in Nat
            BY DEF Seen, One
        <3> HIDE DEF unread
        <3>2. /\ Grown(d, unread).modseq = folder[d].modseq + 1
              /\ Grown(d, unread).uidNext = folder[d].uidNext + 1
              /\ Shrunk(f, 1, One(unread)).modseq = folder[f].modseq + 1
            BY <2>1, <3>1, GrownRow, ShrunkRow
        <3> QED
            BY <3>2 DEF unread
    <2>3. /\ NextModseq(d) /\ NextModseq(f)
          /\ folder'[d].uidNext = folder[d].uidNext + 1
          /\ \A h \in Folders \ {f, d} : SameModseq(h)
        BY <1>4, <2>1, <2>2 DEF Move, TypeOK, NextModseq, SameModseq
    <2>4. /\ KeptBut(m) /\ msg[m].state = "live" /\ msg'[m].state = "live"
          /\ msg'[m].folder = d /\ msg'[m].uid = folder[d].uidNext
          /\ msg'[m].modseq = folder[d].modseq + 1
        BY <1>0, <1>4 DEF Move, KeptBut, Live, TypeOK, MessageRow, UidFor,
           ModseqFor
    <2>5. GoesOver(m, f, d)
        BY <2>1, <2>3, <2>4 DEF GoesOver, Lands, LiveIn, Live
    <2>6. Rises
        BY <1>0, <2>1, <2>3 DEF NextModseq, SameModseq
    <2> QED
        BY <2>1, <2>5, <2>6 DEF StepShape
<1>5. ASSUME NEW c \in Copiers, NEW n \in Messages, CopyCommit(c, n)
      PROVE  Goal
    <2> DEFINE r == copying[c]
    <2>1. r \in CopyRead
        BY <1>5 DEF CopyCommit, TypeOK
    <2>2. r.dest \in Folders /\ (~r.seen) \in BOOLEAN
        BY <2>1 DEF CopyRead
    <2>3. /\ Grown(r.dest, ~r.seen).uidNext = folder[r.dest].uidNext + 1
          /\ Grown(r.dest, ~r.seen).modseq = folder[r.dest].modseq + 1
        BY <2>2, GrownRow
    <2>4. /\ NextModseq(r.dest)
          /\ folder'[r.dest].uidNext = folder[r.dest].uidNext + 1
          /\ \A h \in Folders \ {r.dest} : SameModseq(h)
        BY <1>5, <2>2, <2>3 DEF CopyCommit, TypeOK, NextModseq, SameModseq
    <2>5. Arrives(n, r.dest)
        BY <1>5, <2>2, <2>4
        DEF CopyCommit, Arrives, Lands, KeptBut, UidFor, ModseqFor, TypeOK
    <2>6. Rises
        BY <1>0, <2>2, <2>4 DEF NextModseq, SameModseq
    <2> QED
        BY <2>2, <2>5, <2>6 DEF StepShape
<1>6. ASSUME NEW f \in Folders, CreateFolder(f)
      PROVE  Goal
    <2>1. Untouched
        BY <1>0, <1>6 DEF CreateFolder, Untouched, SameModseq, TypeOK, FolderRow
    <2> QED
        BY <1>0, <2>1 DEF StepShape, Untouched, SameModseq
<1>7. ASSUME NEW f \in Folders, DeleteFolder(f)
      PROVE  Goal
    <2>1. /\ \A h \in Folders : SameModseq(h)
          /\ ~Present(f)'
        BY <1>0, <1>7 DEF DeleteFolder, SameModseq, Present, TypeOK, FolderRow
    <2>2. IsDeleted(f)
        BY <1>7, <2>1 DEF DeleteFolder, IsDeleted, AreGone
    <2> QED
        BY <1>0, <2>1, <2>2 DEF StepShape, SameModseq
<1>8. ASSUME NEW r \in Filers, FileCommit(r)
      PROVE  Goal
    <2> DEFINE read == filing[r]
               f == read.source
               m == read.message
    <2>1. read \in FilingRead /\ f # Reports
        BY <1>8 DEF FileCommit, TypeOK, FiledFromElsewhere
    <2>2. m \in Messages /\ f \in Folders /\ One(read.unread) \in Nat
        BY <2>1 DEF FilingRead, One
    <2>3. /\ Grown(Reports, FALSE).uidNext = folder[Reports].uidNext + 1
          /\ Grown(Reports, FALSE).modseq = folder[Reports].modseq + 1
          /\ Shrunk(f, 1, One(read.unread)).modseq = folder[f].modseq + 1
        <3>1. FALSE \in BOOLEAN /\ 1 \in Nat
            OBVIOUS
        <3>2. Shrunk(f, 1, One(read.unread)).modseq = folder[f].modseq + 1
            BY <2>2, <3>1, ShrunkRow
        <3> HIDE DEF read, f
        <3> QED
            BY <3>1, <3>2, GrownRow
    <2>4. /\ NextModseq(Reports)
          /\ folder'[Reports].uidNext = folder[Reports].uidNext + 1
          /\ Present(f) => NextModseq(f)
          /\ ~Present(f) => SameModseq(f)
          /\ \A h \in Folders \ {f, Reports} : SameModseq(h)
        BY <1>8, <2>1, <2>2, <2>3
        DEF FileCommit, TypeOK, NextModseq, SameModseq
    <2>5. /\ msg'[m].folder = Reports /\ msg'[m].uid = folder[Reports].uidNext
          /\ msg'[m].modseq = folder[Reports].modseq + 1
          /\ msg'[m].state = msg[m].state /\ KeptBut(m)
        BY <1>0, <1>8, <2>2
        DEF FileCommit, TypeOK, MessageRow, KeptBut, UidFor, ModseqFor
    <2>6. Lands(m, Reports)
        BY <2>4, <2>5 DEF Lands
    <2>7. Rises
        BY <1>0, <2>2, <2>4 DEF NextModseq, SameModseq
    <2>8. CASE m \in LiveIn(f)
        <3>1. GoesOver(m, f, Reports)
            BY <2>1, <2>4, <2>5, <2>6, <2>8 DEF GoesOver, LiveIn, Live
        <3> QED
            BY <2>2, <2>7, <3>1 DEF StepShape
    <2>9. CASE m \notin LiveIn(f)
        <3>1. Strays(m, Reports)
            BY <1>8, <2>6, <2>9 DEF Strays, FileCommit
        <3> QED
            BY <2>2, <2>7, <3>1 DEF StepShape
    <2> QED
        BY <2>8, <2>9
<1>9. CASE UNCHANGED <<folder, msg>>
    BY <1>0, <1>9 DEF StepShape, Untouched, SameModseq
<1> QED
    BY <1>1, <1>2, <1>3, <1>4, <1>5, <1>6, <1>7, <1>8, <1>9
    DEF Next, CopyBegin, CopyAbort, FileBegin, Fetch, vars

\* A folder whose messages keep UID and flags looks the same.
LEMMA ViewKept ==
    ASSUME NEW f,
           \A m \in Messages :
              /\ m \in LiveIn(f)' <=> m \in LiveIn(f)
              /\ m \in LiveIn(f) => /\ msg'[m].uid = msg[m].uid
                                    /\ msg'[m].flags = msg[m].flags
    PROVE  View(f)' = View(f)
<1>1. LiveIn(f)' = LiveIn(f)
    BY DEF LiveIn
<1>2. \A m \in LiveIn(f) :
         <<msg'[m].uid, msg'[m].flags>> = <<msg[m].uid, msg[m].flags>>
    BY DEF LiveIn
<1> QED
    BY <1>1, <1>2 DEF View

\* A folder that is left by a message, or where it gets other flags, looks
\* different: no other message has its UID.
LEMMA ViewLoses ==
    ASSUME NEW f, NEW m \in Messages, m \in LiveIn(f),
           \A n \in LiveIn(f)' :
              msg'[n].uid = msg[m].uid => msg'[n].flags # msg[m].flags
    PROVE  View(f)' # View(f)
<1> DEFINE seen == <<msg[m].uid, msg[m].flags>>
<1>1. seen \in View(f)
    BY DEF View
<1>2. seen \notin View(f)'
    BY DEF View
<1> QED
    BY <1>1, <1>2

\* A folder where a message appears under a UID nobody had looks different.
LEMMA ViewGains ==
    ASSUME NEW f, NEW m \in Messages, m \in LiveIn(f)',
           \A n \in LiveIn(f) : msg[n].uid # msg'[m].uid
    PROVE  View(f)' # View(f)
<1> DEFINE seen == <<msg'[m].uid, msg'[m].flags>>
<1>1. seen \in View(f)'
    BY DEF View
<1>2. seen \notin View(f)
    BY DEF View
<1> QED
    BY <1>1, <1>2

\* What a client can observe of folder f changes exactly when its modseq rises.
Followed(f) == View(f)' # View(f) <=> folder'[f].modseq > folder[f].modseq

\* One step per shape: the folder that gains, loses or reflags a message looks
\* different because its UIDs are unique, every other one looks the same.
LEMMA ModseqStep ==
    ASSUME TypeOK, FiledFromElsewhere, UidsAreUnique, [Next]_vars,
           NEW f \in Folders, Present(f), Present(f)', ~raced'
    PROVE  Followed(f)
<1>0. /\ \A h \in Folders : folder[h].modseq \in Nat /\ folder[h].uidNext \in Nat
      /\ \A m \in Messages : msg[m] \in MessageRow
    BY DEF TypeOK, FolderRow
<1>a. ASSUME SameModseq(f), View(f)' = View(f) PROVE Followed(f)
    BY <1>0, <1>a DEF SameModseq, Followed
<1>b. ASSUME NextModseq(f), View(f)' # View(f) PROVE Followed(f)
    BY <1>0, <1>b DEF NextModseq, Followed
<1>u. \A n \in LiveIn(f) : msg[n].uid < folder[f].uidNext /\ msg[n].uid \in Nat
    BY <1>0 DEF UidsAreUnique, LiveIn, Live, MessageRow
<1>v. \A m, n \in LiveIn(f) : msg[m].uid = msg[n].uid => m = n
    BY DEF UidsAreUnique, LiveIn, Live
<1>1. ASSUME NEW m \in Messages, NEW g \in Folders, Lands(m, g),
             msg'[m].state = "live", f = g
      PROVE  Followed(f)
    <2>1. m \in LiveIn(f)' /\ msg'[m].uid = folder[f].uidNext /\ NextModseq(f)
        BY <1>1 DEF Lands, LiveIn, Live
    <2>2. \A n \in LiveIn(f) : msg[n].uid # msg'[m].uid
        BY <1>0, <1>u, <2>1
    <2> QED
        BY <1>b, <2>1, <2>2, ViewGains
<1>2. ASSUME NEW m \in Messages, KeptBut(m), m \notin LiveIn(f),
             m \notin LiveIn(f)', SameModseq(f)
      PROVE  Followed(f)
    <2>1. \A n \in Messages : /\ n \in LiveIn(f)' <=> n \in LiveIn(f)
                              /\ n \in LiveIn(f) => msg'[n] = msg[n]
        BY <1>2 DEF KeptBut, LiveIn, Live
    <2> QED
        BY <1>2, <1>a, <2>1, ViewKept
<1>3. ASSUME NEW m \in Messages, NEW g \in Folders, Arrives(m, g)
      PROVE  Followed(f)
    <2>1. CASE f = g
        BY <1>1, <1>3, <2>1 DEF Arrives
    <2>2. CASE f # g
        BY <1>2, <1>3, <2>2 DEF Arrives, Lands, LiveIn, Live
    <2> QED
        BY <2>1, <2>2
<1>4. ASSUME NEW m \in Messages, NEW e \in Folders, NEW g \in Folders,
             GoesOver(m, e, g)
      PROVE  Followed(f)
    <2>1. CASE f = g
        BY <1>1, <1>4, <2>1 DEF GoesOver
    <2>2. CASE f = e
        <3>1. m \in LiveIn(f) /\ m \notin LiveIn(f)' /\ NextModseq(f)
            BY <1>4, <2>2 DEF GoesOver, Lands, LiveIn, Live
        <3>2. \A n \in LiveIn(f)' : n \in LiveIn(f) /\ n # m /\ msg'[n] = msg[n]
            BY <1>4, <3>1 DEF GoesOver, Lands, KeptBut, LiveIn, Live
        <3>3. View(f)' # View(f)
            BY <1>v, <3>1, <3>2, ViewLoses
        <3> QED
            BY <1>b, <3>1, <3>3
    <2>3. CASE f # e /\ f # g
        BY <1>2, <1>4, <2>3 DEF GoesOver, Lands, LiveIn, Live
    <2> QED
        BY <2>1, <2>2, <2>3
<1>5. ASSUME NEW m \in Messages, NEW g \in Folders, GetsFlags(m, g)
      PROVE  Followed(f)
    <2>1. CASE f = g
        <3>1. m \in LiveIn(f) /\ NextModseq(f) /\ msg'[m].flags # msg[m].flags
            BY <1>5, <2>1 DEF GetsFlags
        <3>2. \A n \in LiveIn(f)' : n # m => n \in LiveIn(f) /\ msg'[n] = msg[n]
            BY <1>5 DEF GetsFlags, KeptBut, LiveIn, Live
        <3>3. View(f)' # View(f)
            BY <1>v, <3>1, <3>2, ViewLoses
        <3> QED
            BY <1>b, <3>1, <3>3
    <2>2. CASE f # g
        BY <1>2, <1>5, <2>2 DEF GetsFlags, LiveIn, Live
    <2> QED
        BY <2>1, <2>2
<1>6. ASSUME NEW S \in SUBSET Messages, NEW g \in Folders, AreGone(S, g), f # g
      PROVE  Followed(f)
    <2>1. \A n \in Messages : /\ n \in LiveIn(f)' <=> n \in LiveIn(f)
                              /\ n \in LiveIn(f) => msg'[n] = msg[n]
        BY <1>0, <1>6 DEF AreGone, LiveIn, Live, MessageRow
    <2> QED
        BY <1>6, <1>a, <2>1, ViewKept DEF AreGone
<1>7. ASSUME NEW S \in SUBSET Messages, AreExpunged(S, f)
      PROVE  Followed(f)
    <2>1. PICK m \in Messages : m \in S
        BY <1>7 DEF AreExpunged
    <2>2. m \in LiveIn(f)
        BY <1>7, <2>1 DEF AreExpunged, AreGone
    <2>3. \A n \in LiveIn(f)' : n \in LiveIn(f) /\ n # m /\ msg'[n] = msg[n]
        BY <1>0, <1>7, <2>1
        DEF AreExpunged, AreGone, LiveIn, Live, MessageRow
    <2>4. View(f)' # View(f)
        BY <1>v, <2>2, <2>3, ViewLoses
    <2> QED
        BY <1>7, <2>4 DEF AreExpunged, Followed
<1>8. CASE Untouched
    BY <1>a, <1>8, ViewKept DEF Untouched, LiveIn, Live
<1>9. ASSUME NEW g \in Folders, IsDeleted(g) PROVE Followed(f)
    <2>1. f # g /\ LiveIn(g) \in SUBSET Messages
        BY <1>9 DEF IsDeleted, LiveIn
    <2> QED
        BY <1>6, <1>9, <2>1 DEF IsDeleted
<1>10. ASSUME NEW m \in Messages, NEW g \in Folders, Strays(m, g)
       PROVE  Followed(f)
    BY <1>10 DEF Strays
<1>11. ASSUME NEW S \in SUBSET Messages, NEW g \in Folders, AreExpunged(S, g)
       PROVE  Followed(f)
    BY <1>6, <1>7, <1>11 DEF AreExpunged
<1> QED
    BY <1>3, <1>4, <1>5, <1>8, <1>9, <1>10, <1>11, StepShapes DEF StepShape

\* An operation raises a folder's modseq exactly when it changes what a client
\* can observe there, whatever interleaves; a backfill acting on a stale read
\* is the exception.
THEOREM ModseqFollows == Spec => ModseqFollowsChanges
<1> DEFINE Follows ==
      \A f \in Folders : Present(f) /\ Present(f)' /\ ~raced' =>
         (View(f)' # View(f) <=> folder'[f].modseq > folder[f].modseq)
<1>1. TypeOK /\ FiledFromElsewhere /\ UidsAreUnique /\ [Next]_vars
        => [Follows]_vars
    BY ModseqStep DEF Followed
<1>2. Init => UidsAreUnique
    BY DEF Init, UidsAreUnique
<1> QED
    BY <1>1, <1>2, TypeInit, TypeStep, FiledFromElsewhereInductive,
       UidsUniqueStep, PTL DEF Spec, ModseqFollowsChanges

-----------------------------------------------------------------------------
(***************************************************************************)
(* What a client may overwrite with UNCHANGEDSINCE.                        *)
(***************************************************************************)

\* Every modseq a message or a client has is one its folder has given out.
GivenOut ==
    /\ \A m \in Messages : msg[m].state # "free" =>
         msg[m].modseq <= folder[msg[m].folder].modseq
    /\ \A c \in Clients : cache[c] # None =>
         cache[c].modseq <= folder[cache[c].folder].modseq

\* A message that keeps what a client may have cached of it.
SameRow(m) ==
    /\ msg'[m].folder = msg[m].folder /\ msg'[m].uid = msg[m].uid
    /\ msg'[m].modseq = msg[m].modseq /\ msg'[m].flags = msg[m].flags
    /\ msg'[m].state # "free" => msg[m].state # "free"
    /\ msg'[m].state = "live" => msg[m].state = "live"

\* Only message m changes what a client may have cached of it, and it gets a
\* modseq its folder had not given out.
Restamped(m) ==
    LET g == msg'[m].folder IN
    /\ g \in Folders
    /\ msg'[m].modseq = folder[g].modseq + 1
    /\ NextModseq(g)
    /\ \A n \in Messages \ {m} : SameRow(n)

\* The shapes of a step, as far as caches can tell.
LEMMA RowEffect ==
    ASSUME TypeOK, FiledFromElsewhere, [Next]_vars
    PROVE  \/ \A m \in Messages : SameRow(m)
           \/ \E m \in Messages : Restamped(m)
<1>0. \A m \in Messages : msg[m] \in MessageRow
    BY DEF TypeOK
<1>1. ASSUME NEW m \in Messages, NEW g \in Folders, Lands(m, g)
      PROVE  Restamped(m)
    BY <1>1 DEF Lands, KeptBut, Restamped, SameRow
<1>2. ASSUME NEW m \in Messages, NEW g \in Folders, GetsFlags(m, g)
      PROVE  Restamped(m)
    BY <1>2 DEF GetsFlags, KeptBut, Restamped, SameRow, LiveIn, Live
<1>3. ASSUME NEW S, NEW g \in Folders, AreGone(S, g), NEW m \in Messages
      PROVE  SameRow(m)
    BY <1>0, <1>3 DEF AreGone, SameRow, LiveIn, Live, MessageRow
<1>4. CASE Untouched
    BY <1>4 DEF Untouched, SameRow
<1> QED
    BY <1>1, <1>2, <1>3, <1>4, StepShapes
    DEF StepShape, Arrives, GoesOver, Strays, AreExpunged, IsDeleted

\* A step changes rows or what a client has fetched, never both.
LEMMA CacheEffect ==
    ASSUME TypeOK, [Next]_vars
    PROVE  \/ cache' = cache
           \/ /\ UNCHANGED <<folder, msg>>
              /\ \E c \in Clients, m \in Messages : Fetch(c, m)
BY DEF Next, Persist, SetFlags, Expunge, Move, CopyBegin, CopyCommit, CopyAbort,
   CreateFolder, DeleteFolder, FileBegin, FileCommit, Fetch, vars

\* The step that reads the row a client fetches.
LEMMA FetchStep ==
    ASSUME TypeOK, GivenOut, CachedFlagsAreCurrent,
           NEW c \in Clients, NEW m \in Messages, Fetch(c, m)
    PROVE  (GivenOut /\ CachedFlagsAreCurrent)'
<1> DEFINE new == [message |-> m, folder |-> msg[m].folder, uid |-> msg[m].uid,
                   modseq |-> msg[m].modseq, flags |-> msg[m].flags]
<1>1. /\ UNCHANGED <<folder, msg>> /\ msg[m].state = "live"
      /\ cache'[c] = new /\ \A d \in Clients \ {c} : cache'[d] = cache[d]
    BY DEF Fetch, Live, TypeOK
<1>2. /\ new.message = m /\ new.folder = msg[m].folder /\ new.uid = msg[m].uid
      /\ new.modseq = msg[m].modseq /\ new.flags = msg[m].flags
    OBVIOUS
<1> HIDE DEF new
<1>3. GivenOut'
    BY <1>1, <1>2 DEF GivenOut
<1>4. CachedFlagsAreCurrent'
    BY <1>1, <1>2 DEF CachedFlagsAreCurrent, Names, Live
<1> QED
    BY <1>3, <1>4

\* The invariant survives every step: a modseq that is new in a folder is above
\* all that clients hold of that folder.
LEMMA CurrentStep ==
    TypeOK /\ FiledFromElsewhere /\ GivenOut /\ CachedFlagsAreCurrent
      /\ [Next]_vars => (GivenOut /\ CachedFlagsAreCurrent)'
<1> SUFFICES ASSUME TypeOK, FiledFromElsewhere, GivenOut,
                    CachedFlagsAreCurrent, [Next]_vars
             PROVE  (GivenOut /\ CachedFlagsAreCurrent)'
    OBVIOUS
<1>1. ASSUME NEW c \in Clients, NEW m \in Messages, Fetch(c, m)
      PROVE  (GivenOut /\ CachedFlagsAreCurrent)'
    BY <1>1, FetchStep
<1>2. CASE cache' = cache
    <2>0. /\ \A f \in Folders :
               /\ folder[f].modseq \in Nat /\ folder'[f].modseq \in Nat
               /\ folder'[f].modseq >= folder[f].modseq
          /\ \A m \in Messages : msg[m].folder \in Folders /\ msg[m].modseq \in Nat
          /\ \A c \in Clients : cache[c] # None =>
               cache[c].folder \in Folders /\ cache[c].modseq \in Nat
        <3>1. TypeOK'
            BY TypeStep
        <3>2. \A f \in Folders :
                 folder[f].modseq \in Nat /\ folder'[f].modseq \in Nat
            BY <3>1 DEF TypeOK, FolderRow
        <3>3. \A m \in Messages : msg[m].folder \in Folders /\ msg[m].modseq \in Nat
            BY DEF TypeOK, MessageRow
        <3>4. \A c \in Clients : cache[c] # None =>
                cache[c].folder \in Folders /\ cache[c].modseq \in Nat
            BY DEF TypeOK, Fetched
        <3> QED
            BY <3>2, <3>3, <3>4, StepShapes
    <2>1. \A c \in Clients : cache'[c] # None =>
             cache'[c].modseq <= folder'[cache'[c].folder].modseq
        BY <1>2, <2>0 DEF GivenOut
    <2>2. ASSUME NEW m \in Messages, SameRow(m), msg'[m].state # "free"
          PROVE  msg'[m].modseq <= folder'[msg'[m].folder].modseq
        BY <2>0, <2>2 DEF GivenOut, SameRow
    <2>3. ASSUME NEW c \in Clients, NEW m \in Messages, SameRow(m),
                 Names(c, m)', Live(m)', msg'[m].modseq <= cache'[c].modseq
          PROVE  msg'[m].flags = cache'[c].flags
        BY <1>2, <2>3 DEF CachedFlagsAreCurrent, SameRow, Names, Live
    <2>4. CASE \A m \in Messages : SameRow(m)
        BY <2>1, <2>2, <2>3, <2>4 DEF GivenOut, CachedFlagsAreCurrent
    <2>5. ASSUME NEW m \in Messages, Restamped(m)
          PROVE  (GivenOut /\ CachedFlagsAreCurrent)'
        <3> DEFINE g == msg'[m].folder
        <3>1. /\ g \in Folders
              /\ msg'[m].modseq = folder[g].modseq + 1
              /\ folder'[g].modseq = folder[g].modseq + 1
              /\ \A n \in Messages \ {m} : SameRow(n)
            BY <2>5 DEF Restamped, NextModseq
        <3>2. ASSUME NEW c \in Clients, Names(c, m)'
              PROVE  ~(msg'[m].modseq <= cache'[c].modseq)
            BY <1>2, <2>0, <3>1, <3>2 DEF Names, GivenOut
        <3>3. GivenOut'
            BY <2>0, <2>1, <2>2, <3>1 DEF GivenOut
        <3>4. CachedFlagsAreCurrent'
            BY <2>3, <3>1, <3>2 DEF CachedFlagsAreCurrent
        <3> QED
            BY <3>3, <3>4
    <2> QED
        BY <2>4, <2>5, RowEffect
<1> QED
    BY <1>1, <1>2, CacheEffect

\* A message whose modseq is not above what a client fetched still has the
\* flags the client saw, for any number of clients and however their stores,
\* copies, moves and backfills interleave.
THEOREM CachedFlagsCurrent == Spec => []CachedFlagsAreCurrent
<1>1. Init => GivenOut /\ CachedFlagsAreCurrent
    BY DEF Init, GivenOut, CachedFlagsAreCurrent, Names
<1> QED
    BY <1>1, TypeInit, TypeStep, FiledFromElsewhereInductive, CurrentStep,
       PTL DEF Spec

-----------------------------------------------------------------------------
(***************************************************************************)
(* The cached numbers: quota, body references and the folder counters are  *)
(* true in every reachable state.                                          *)
(***************************************************************************)

\* One element more.
LEMMA CardJoined ==
    ASSUME NEW S, S \subseteq Messages, NEW m \in Messages, m \notin S
    PROVE  /\ Cardinality(S \cup {m}) = Cardinality(S) + 1
           /\ Cardinality(S) \in Nat
BY MessagesFinite, FS_AddElement

\* The elements of G fewer.
LEMMA CardLeft ==
    ASSUME NEW S, S \subseteq Messages, NEW G, G \subseteq S
    PROVE  /\ Cardinality(S \ G) = Cardinality(S) - Cardinality(G)
           /\ Cardinality(S \ G) \in Nat
           /\ Cardinality(S) \in Nat /\ Cardinality(G) \in Nat
           /\ Cardinality(S) - Cardinality(G) >= 0
<1>1. S \cap G = G /\ G \subseteq Messages /\ S \ G \subseteq Messages
    OBVIOUS
<1>2. Cardinality(S \ G) = Cardinality(S) - Cardinality(G)
    BY <1>1, MessagesFinite, FS_Difference
<1> QED
    BY <1>1, <1>2, MessagesFinite

\* One element fewer.
LEMMA CardLeftOne ==
    ASSUME NEW S, S \subseteq Messages, NEW m \in S
    PROVE  /\ Cardinality(S \ {m}) = Cardinality(S) - 1
           /\ Cardinality(S) \in Nat
           /\ Cardinality(S) - 1 >= 0
<1>1. Cardinality({m}) = 1
    BY FS_Singleton
<1> QED
    BY <1>1, CardLeft

-----------------------------------------------------------------------------
(***************************************************************************)
(* Quota                                                                   *)
(***************************************************************************)

LiveMessages == {m \in Messages : Live(m)}

\* Each operation charges the messages it makes and gives back those it
\* expunges, and no other.
LEMMA QuotaStep == TypeOK /\ QuotaIsTrue /\ [Next]_vars => QuotaIsTrue'
<1> SUFFICES ASSUME TypeOK, QuotaIsTrue, [Next]_vars PROVE QuotaIsTrue'
    OBVIOUS
<1>0. used = Cardinality(LiveMessages)
    BY DEF QuotaIsTrue, LiveMessages
<1> SUFFICES used' = Cardinality(LiveMessages')
    BY DEF QuotaIsTrue, LiveMessages
<1>1. ASSUME NEW m \in Messages, NEW t \in Folders, NEW seen \in BOOLEAN,
             Persist(m, t, seen)
      PROVE  used' = Cardinality(LiveMessages')
    <2>1. m \notin LiveMessages /\ LiveMessages' = LiveMessages \cup {m}
        BY <1>1 DEF Persist, LiveMessages, Live, TypeOK
    <2>2. used' = used + 1
        BY <1>1 DEF Persist
    <2> QED
        BY <1>0, <2>1, <2>2, CardJoined DEF LiveMessages
<1>2. ASSUME NEW c \in Copiers, NEW n \in Messages, CopyCommit(c, n)
      PROVE  used' = Cardinality(LiveMessages')
    <2>1. n \notin LiveMessages /\ LiveMessages' = LiveMessages \cup {n}
        BY <1>2 DEF CopyCommit, LiveMessages, Live, TypeOK
    <2>2. used' = used + 1
        BY <1>2 DEF CopyCommit
    <2> QED
        BY <1>0, <2>1, <2>2, CardJoined DEF LiveMessages
<1>3. ASSUME NEW gone, gone \subseteq LiveMessages,
             msg' = [m \in Messages |->
                       IF m \in gone THEN [msg[m] EXCEPT !.state = "expunged"]
                                     ELSE msg[m]],
             used' = QuotaAfter(Cardinality(gone))
      PROVE  used' = Cardinality(LiveMessages')
    <2>1. LiveMessages' = LiveMessages \ gone
        BY <1>3 DEF LiveMessages, Live, TypeOK, MessageRow
    <2>2. /\ Cardinality(LiveMessages') =
               Cardinality(LiveMessages) - Cardinality(gone)
          /\ Cardinality(LiveMessages) - Cardinality(gone) >= 0
          /\ Cardinality(LiveMessages) - Cardinality(gone) \in Int
        <3>1. gone \subseteq LiveMessages /\ LiveMessages \subseteq Messages
            BY <1>3 DEF LiveMessages
        <3>2. /\ Cardinality(LiveMessages \ gone) =
                   Cardinality(LiveMessages) - Cardinality(gone)
              /\ Cardinality(LiveMessages) \in Nat /\ Cardinality(gone) \in Nat
              /\ Cardinality(LiveMessages) - Cardinality(gone) >= 0
            BY <3>1, CardLeft
        <3> QED
            BY <2>1, <3>2
    <2> QED
        BY <1>0, <1>3, <2>2, ClampType DEF QuotaAfter
<1>4. ASSUME NEW f \in Folders, NEW S \in SUBSET Messages, Expunge(f, S)
      PROVE  used' = Cardinality(LiveMessages')
    <2>1. S \cap LiveIn(f) \subseteq LiveMessages
        BY DEF LiveIn, LiveMessages
    <2> QED
        BY <1>3, <1>4, <2>1 DEF Expunge
<1>5. ASSUME NEW f \in Folders, DeleteFolder(f)
      PROVE  used' = Cardinality(LiveMessages')
    <2>1. LiveIn(f) \subseteq LiveMessages
        BY DEF LiveIn, LiveMessages
    <2> QED
        BY <1>3, <1>5, <2>1 DEF DeleteFolder
<1>6. CASE used' = used /\ \A m \in Messages : msg'[m].state = msg[m].state
    <2>1. LiveMessages' = LiveMessages
        BY <1>6 DEF LiveMessages, Live
    <2> QED
        BY <1>0, <1>6, <2>1
<1>7. ASSUME NEW m \in Messages, NEW op \in {"add", "del", "set"},
             NEW F \in SUBSET Flags, NEW since, SetFlags(m, op, F, since)
      PROVE  used' = used /\ \A n \in Messages : msg'[n].state = msg[n].state
    BY <1>7 DEF SetFlags, TypeOK, MessageRow
<1>8. ASSUME NEW m \in Messages, NEW d \in Folders, Move(m, d)
      PROVE  used' = used /\ \A n \in Messages : msg'[n].state = msg[n].state
    BY <1>8 DEF Move, TypeOK, MessageRow
<1>9. ASSUME NEW r \in Filers, FileCommit(r)
      PROVE  used' = used /\ \A n \in Messages : msg'[n].state = msg[n].state
    BY <1>9 DEF FileCommit, TypeOK, MessageRow
<1> QED
    BY <1>1, <1>2, <1>4, <1>5, <1>6, <1>7, <1>8, <1>9
    DEF Next, CopyBegin, CopyAbort, CreateFolder, FileBegin, Fetch, vars

\* used_bytes is the size of the live messages after any interleaving of
\* deliveries, copies, moves, filings, expunges and folder deletions.
THEOREM QuotaStaysTrue == Spec => []QuotaIsTrue
<1>1. Init => QuotaIsTrue
    <2> SUFFICES ASSUME Init PROVE QuotaIsTrue
        OBVIOUS
    <2>1. LiveMessages = {}
        BY DEF Init, LiveMessages, Live
    <2> QED
        BY <2>1, FS_EmptySet DEF Init, QuotaIsTrue, LiveMessages
<1> QED
    BY <1>1, TypeInit, TypeStep, QuotaStep, PTL DEF Spec

-----------------------------------------------------------------------------
(***************************************************************************)
(* Body references                                                         *)
(***************************************************************************)

Holders(b) == {m \in Messages : msg[m].state # "free" /\ msg[m].blob = b}

\* A row that starts to point to a body counts one reference more; no other
\* operation makes or unmakes a row, or changes its body.
LEMMA ReferencesStep ==
    TypeOK /\ ReferencesAreCounted /\ [Next]_vars => ReferencesAreCounted'
<1> SUFFICES ASSUME TypeOK, ReferencesAreCounted, [Next]_vars,
                    NEW b \in Blobs
             PROVE  refs'[b] = Cardinality(Holders(b)')
    BY DEF ReferencesAreCounted, Holders
<1>0. refs[b] = Cardinality(Holders(b))
    BY DEF ReferencesAreCounted, Holders
<1>1. ASSUME NEW m \in Messages, msg[m].state = "free", NEW a \in Blobs,
             refs' = Referenced(a), msg'[m].state = "live", msg'[m].blob = a,
             \A n \in Messages \ {m} : msg'[n] = msg[n]
      PROVE  refs'[b] = Cardinality(Holders(b)')
    <2>1. m \notin Holders(b) /\ Holders(b) \subseteq Messages
        BY <1>1 DEF Holders
    <2>2. CASE a = b
        <3>1. Holders(b)' = Holders(b) \cup {m}
            BY <1>1, <2>2 DEF Holders
        <3>2. refs'[b] = refs[b] + 1
            BY <1>1, <2>2 DEF Referenced, TypeOK
        <3> QED
            BY <1>0, <2>1, <3>1, <3>2, CardJoined
    <2>3. CASE a # b
        <3>1. Holders(b)' = Holders(b)
            BY <1>1, <2>3 DEF Holders
        <3>2. refs'[b] = refs[b]
            BY <1>1, <2>3 DEF Referenced, TypeOK
        <3> QED
            BY <1>0, <3>1, <3>2
    <2> QED
        BY <2>2, <2>3
<1>2. ASSUME NEW m \in Messages, NEW t \in Folders, NEW seen \in BOOLEAN,
             Persist(m, t, seen)
      PROVE  refs'[b] = Cardinality(Holders(b)')
    <2>1. /\ msg[m].state = "free" /\ msg[m].blob \in Blobs
          /\ refs' = Referenced(msg[m].blob)
          /\ msg'[m].state = "live" /\ msg'[m].blob = msg[m].blob
          /\ \A n \in Messages \ {m} : msg'[n] = msg[n]
        BY <1>2 DEF Persist, TypeOK, MessageRow
    <2> QED
        BY <1>1, <2>1
<1>3. ASSUME NEW c \in Copiers, NEW n \in Messages, CopyCommit(c, n)
      PROVE  refs'[b] = Cardinality(Holders(b)')
    <2> DEFINE body == msg[copying[c].source].blob
    <2>1. copying[c].source \in Messages
        BY <1>3 DEF CopyCommit, TypeOK, CopyRead
    <2>2. /\ msg[n].state = "free" /\ body \in Blobs
          /\ refs' = Referenced(body)
          /\ msg'[n].state = "live" /\ msg'[n].blob = body
          /\ \A k \in Messages \ {n} : msg'[k] = msg[k]
        BY <1>3, <2>1 DEF CopyCommit, TypeOK, MessageRow
    <2> QED
        BY <1>1, <2>2
<1>4. CASE /\ refs' = refs
           /\ \A m \in Messages :
                /\ msg'[m].blob = msg[m].blob
                /\ msg'[m].state = "free" <=> msg[m].state = "free"
    <2>1. Holders(b)' = Holders(b)
        BY <1>4 DEF Holders
    <2> QED
        BY <1>0, <1>4, <2>1
<1>5. ASSUME NEW m \in Messages, NEW op \in {"add", "del", "set"},
             NEW F \in SUBSET Flags, NEW since, SetFlags(m, op, F, since)
      PROVE  refs'[b] = Cardinality(Holders(b)')
    BY <1>4, <1>5 DEF SetFlags, TypeOK, MessageRow
<1>6. ASSUME NEW f \in Folders, NEW S \in SUBSET Messages, Expunge(f, S)
      PROVE  refs'[b] = Cardinality(Holders(b)')
    BY <1>4, <1>6 DEF Expunge, LiveIn, Live, TypeOK, MessageRow
<1>7. ASSUME NEW m \in Messages, NEW d \in Folders, Move(m, d)
      PROVE  refs'[b] = Cardinality(Holders(b)')
    BY <1>4, <1>7 DEF Move, TypeOK, MessageRow
<1>8. ASSUME NEW f \in Folders, DeleteFolder(f)
      PROVE  refs'[b] = Cardinality(Holders(b)')
    BY <1>4, <1>8 DEF DeleteFolder, LiveIn, Live, TypeOK, MessageRow
<1>9. ASSUME NEW r \in Filers, FileCommit(r)
      PROVE  refs'[b] = Cardinality(Holders(b)')
    BY <1>4, <1>9 DEF FileCommit, TypeOK, MessageRow
<1> QED
    BY <1>2, <1>3, <1>4, <1>5, <1>6, <1>7, <1>8, <1>9
    DEF Next, CopyBegin, CopyAbort, CreateFolder, FileBegin, Fetch, vars

\* ref_count counts the rows that point to a body, expunged rows included: no
\* delivery or copy, in whatever order, loses or doubles a reference.
THEOREM ReferencesStayTrue == Spec => []ReferencesAreCounted
<1>1. Init => ReferencesAreCounted
    <2> SUFFICES ASSUME Init, NEW b \in Blobs
                 PROVE  refs[b] = Cardinality(Holders(b))
        BY DEF ReferencesAreCounted, Holders
    <2>1. Holders(b) = {}
        BY DEF Init, Holders
    <2> QED
        BY <2>1, FS_EmptySet DEF Init
<1> QED
    BY <1>1, TypeInit, TypeStep, ReferencesStep, PTL DEF Spec

-----------------------------------------------------------------------------
(***************************************************************************)
(* Folder counters                                                         *)
(***************************************************************************)

\* What the counters rest on: standard folders exist, a live message is in a
\* folder that exists, a folder not yet created counts nothing, and a folder
\* being copied into cannot go away.
Shape ==
    /\ \A f \in Standard : Present(f)
    /\ \A m \in Messages : Live(m) => Present(msg[m].folder)
    /\ \A f \in Folders : folder[f].state = "absent"
                             => folder[f].total = 0 /\ folder[f].unread = 0
    /\ \A c \in Copiers : copying[c] # None => Present(copying[c].dest)

\* A mailbox starts in that shape.
LEMMA ShapeInit == Init => Shape
BY StoreAssumption DEF Init, Shape, Present, Live

\* A step that touches only rows of existing folders, keeps them existing and
\* puts messages only there keeps the shape.
LEMMA ShapeKept ==
    ASSUME TypeOK, Shape,
           \A f \in Folders : folder'[f].state = folder[f].state,
           \A f \in Folders : ~Present(f) => folder'[f] = folder[f],
           \A m \in Messages : Live(m)' => \/ Present(msg'[m].folder)
                                           \/ /\ Live(m)
                                              /\ msg'[m].folder = msg[m].folder,
           \A c \in Copiers : copying'[c] = None \/ copying'[c] = copying[c],
           TypeOK'
    PROVE  Shape'
<1>1. \A f \in Folders : Present(f)' <=> Present(f)
    BY DEF Present
<1>2. \A m \in Messages : Live(m)' => Present(msg[m].folder)'
    <2> SUFFICES ASSUME NEW m \in Messages, Live(m)'
                 PROVE  Present(msg[m].folder)'
        OBVIOUS
    <2>1. msg'[m].folder \in Folders /\ Present(msg'[m].folder)
        BY DEF Shape, TypeOK, MessageRow
    <2> QED
        BY <2>1 DEF Present
<1>3. \A f \in Standard : Present(f)'
    BY <1>1, StoreAssumption DEF Shape
<1>4. \A f \in Folders : folder'[f].state = "absent"
                           => folder'[f].total = 0 /\ folder'[f].unread = 0
    BY DEF Shape, Present
<1>5. \A c \in Copiers : copying'[c] # None => Present(copying[c].dest)'
    <2> SUFFICES ASSUME NEW c \in Copiers, copying'[c] # None
                 PROVE  Present(copying[c].dest)'
        OBVIOUS
    <2>1. copying'[c] = copying[c] /\ copying[c] \in CopyRead
        BY DEF TypeOK
    <2>2. copying[c].dest \in Folders /\ Present(copying[c].dest)
        BY <2>1 DEF Shape, CopyRead
    <2> QED
        BY <2>1, <2>2 DEF Present
<1> QED
    BY <1>2, <1>3, <1>4, <1>5 DEF Shape, Live, Present

\* Every operation keeps the shape.
LEMMA ShapeStep ==
    TypeOK /\ FiledFromElsewhere /\ Shape /\ [Next]_vars => Shape'
<1> SUFFICES ASSUME TypeOK, FiledFromElsewhere, Shape, [Next]_vars
             PROVE  Shape'
    OBVIOUS
<1> USE StandardFolders
<1>0. TypeOK' /\ Present(Inbox) /\ Present(Reports)
    BY TypeStep, StoreAssumption DEF Shape
<1>1. ASSUME NEW m \in Messages, NEW t \in Folders, NEW seen \in BOOLEAN,
             Persist(m, t, seen)
      PROVE  Shape'
    <2> DEFINE f == IF Present(t) THEN t ELSE Inbox
    <2>1. f \in Folders /\ Present(f) /\ Grown(f, ~seen).state = folder[f].state
        BY <1>0, GrownRow
    <2>2. folder' = [folder EXCEPT ![f] = Grown(f, ~seen)]
        BY <1>1 DEF Persist
    <2>3. \A n \in Messages : Live(n)' => \/ Present(msg'[n].folder)
                                          \/ /\ Live(n)
                                             /\ msg'[n].folder = msg[n].folder
        BY <1>1, <2>1 DEF Persist, Live, TypeOK
    <2>4. UNCHANGED copying
        BY <1>1 DEF Persist
    <2> HIDE DEF f
    <2>5. /\ \A g \in Folders : folder'[g].state = folder[g].state
          /\ \A g \in Folders : ~Present(g) => folder'[g] = folder[g]
        BY <2>1, <2>2 DEF TypeOK
    <2> QED
        BY <1>0, <2>3, <2>4, <2>5, ShapeKept
<1>2. ASSUME NEW m \in Messages, NEW op \in {"add", "del", "set"},
             NEW F \in SUBSET Flags, NEW since, SetFlags(m, op, F, since)
      PROVE  Shape'
    <2> DEFINE f == msg[m].folder
    <2>1. f \in Folders /\ UnreadDelta(m, op, F) \in Int
        BY DEF TypeOK, MessageRow, UnreadDelta, One
    <2>2. Reflagged(f, UnreadDelta(m, op, F)).state = folder[f].state
        BY <2>1, ReflaggedRow
    <2>3. /\ \A g \in Folders : folder'[g].state = folder[g].state
          /\ \A g \in Folders : ~Present(g) => folder'[g] = folder[g]
        BY <1>2, <2>1, <2>2 DEF SetFlags, TypeOK
    <2>4. \A n \in Messages : Live(n)' => /\ Live(n)
                                          /\ msg'[n].folder = msg[n].folder
        BY <1>2 DEF SetFlags, Live, TypeOK, MessageRow
    <2> QED
        BY <1>0, <1>2, <2>3, <2>4, ShapeKept DEF SetFlags
<1>3. ASSUME NEW f \in Folders, NEW S \in SUBSET Messages, Expunge(f, S)
      PROVE  Shape'
    <2> DEFINE n == Cardinality(S \cap LiveIn(f))
               u == Cardinality(S \cap LiveIn(f) \cap UnreadIn(f))
    <2>1. n \in Nat /\ u \in Nat
        BY MessagesFinite
    <2>2. Shrunk(f, n, u).state = folder[f].state
        BY <2>1, ShrunkRow
    <2>3. /\ \A g \in Folders : folder'[g].state = folder[g].state
          /\ \A g \in Folders : ~Present(g) => folder'[g] = folder[g]
        BY <1>3, <2>2 DEF Expunge, TypeOK
    <2>4. \A k \in Messages : Live(k)' => /\ Live(k)
                                          /\ msg'[k].folder = msg[k].folder
        BY <1>3 DEF Expunge, Live, TypeOK, MessageRow
    <2> QED
        BY <1>0, <1>3, <2>3, <2>4, ShapeKept DEF Expunge
<1>4. ASSUME NEW m \in Messages, NEW d \in Folders, Move(m, d)
      PROVE  Shape'
    <2> DEFINE f == msg[m].folder
               unread == ~Seen(m)
    <2>1. /\ f \in Folders /\ f # d /\ Present(f) /\ Present(d)
          /\ unread \in BOOLEAN /\ One(unread) \in Nat
        BY <1>4 DEF TypeOK, MessageRow, Move, Seen, One
    <2>2. folder' = [folder EXCEPT ![d] = Grown(d, unread),
                                   ![f] = Shrunk(f, 1, One(unread))]
        BY <1>4 DEF Move
    <2>3. \A n \in Messages : Live(n)' => \/ Present(msg'[n].folder)
                                          \/ /\ Live(n)
                                             /\ msg'[n].folder = msg[n].folder
        BY <1>4, <2>1 DEF Move, Live, TypeOK, MessageRow
    <2> HIDE DEF unread
    <2>4. /\ Grown(d, unread).state = folder[d].state
          /\ Shrunk(f, 1, One(unread)).state = folder[f].state
        BY <2>1, GrownRow, ShrunkRow
    <2>5. /\ \A g \in Folders : folder'[g].state = folder[g].state
          /\ \A g \in Folders : ~Present(g) => folder'[g] = folder[g]
        BY <2>1, <2>2, <2>4 DEF TypeOK
    <2> QED
        BY <1>0, <1>4, <2>3, <2>5, ShapeKept DEF Move
<1>5. ASSUME NEW c \in Copiers, NEW m \in Messages, NEW d \in Folders,
             CopyBegin(c, m, d)
      PROVE  Shape'
    BY <1>5 DEF CopyBegin, Shape, TypeOK, Present, Live
<1>6. ASSUME NEW c \in Copiers, NEW n \in Messages, CopyCommit(c, n)
      PROVE  Shape'
    <2> DEFINE d == copying[c].dest
               unread == ~copying[c].seen
    <2>1. d \in Folders /\ unread \in BOOLEAN /\ Present(d)
        BY <1>6 DEF CopyCommit, TypeOK, CopyRead, Shape
    <2>2. folder' = [folder EXCEPT ![d] = Grown(d, unread)]
        BY <1>6 DEF CopyCommit
    <2>3. \A k \in Messages : Live(k)' => \/ Present(msg'[k].folder)
                                          \/ /\ Live(k)
                                             /\ msg'[k].folder = msg[k].folder
        BY <1>6, <2>1 DEF CopyCommit, Live, TypeOK
    <2>4. \A k \in Copiers : copying'[k] = None \/ copying'[k] = copying[k]
        BY <1>6 DEF CopyCommit, TypeOK
    <2> HIDE DEF d, unread
    <2>5. /\ \A g \in Folders : folder'[g].state = folder[g].state
          /\ \A g \in Folders : ~Present(g) => folder'[g] = folder[g]
        BY <2>1, <2>2, GrownRow DEF TypeOK
    <2> QED
        BY <1>0, <2>3, <2>4, <2>5, ShapeKept
<1>7. ASSUME NEW c \in Copiers, CopyAbort(c)
      PROVE  Shape'
    BY <1>7 DEF CopyAbort, Shape, TypeOK, Present, Live
<1>8. ASSUME NEW f \in Folders, CreateFolder(f)
      PROVE  Shape'
    <2>1. \A g \in Folders :
             /\ Present(g) => folder'[g] = folder[g]
             /\ folder'[g].state = "absent" => folder'[g] = folder[g]
        BY <1>8 DEF CreateFolder, TypeOK, FolderRow, Present
    <2>2. UNCHANGED <<msg, copying>>
        BY <1>8 DEF CreateFolder
    <2>3. \A c \in Copiers : copying[c] # None => copying[c].dest \in Folders
        BY DEF TypeOK, CopyRead
    <2>4. \A m \in Messages : msg[m].folder \in Folders
        BY DEF TypeOK, MessageRow
    <2> QED
        BY <2>1, <2>2, <2>3, <2>4, StoreAssumption DEF Shape, Present, Live
<1>9. ASSUME NEW f \in Folders, DeleteFolder(f)
      PROVE  Shape'
    <2>1. \A g \in Folders : g # f => folder'[g] = folder[g]
        BY <1>9 DEF DeleteFolder, TypeOK
    <2>2. folder'[f].state = "deleted" /\ f \notin Standard
        BY <1>9 DEF DeleteFolder, TypeOK, FolderRow
    <2>3. \A m \in Messages : Live(m)' => /\ Live(m) /\ msg'[m] = msg[m]
                                          /\ msg[m].folder \in Folders
                                          /\ msg[m].folder # f
        BY <1>9 DEF DeleteFolder, Live, LiveIn, TypeOK, MessageRow
    <2>4. \A c \in Copiers : copying[c] # None => /\ copying[c].dest \in Folders
                                                  /\ copying[c].dest # f
        BY <1>9 DEF DeleteFolder, Unlocked, TypeOK, CopyRead
    <2>5. UNCHANGED copying
        BY <1>9 DEF DeleteFolder
    <2> QED
        BY <2>1, <2>2, <2>3, <2>4, <2>5, StoreAssumption
        DEF Shape, Present, Live
<1>10. ASSUME NEW r \in Filers, FileCommit(r)
       PROVE  Shape'
    <2> DEFINE read == filing[r]
               f == read.source
               m == read.message
    <2>1. read \in FilingRead /\ f # Reports
        BY <1>10 DEF FileCommit, TypeOK, FiledFromElsewhere
    <2>2. m \in Messages /\ f \in Folders /\ One(read.unread) \in Nat
        BY <2>1 DEF FilingRead, One
    <2>3. /\ Grown(Reports, FALSE).state = folder[Reports].state
          /\ Shrunk(f, 1, One(read.unread)).state = folder[f].state
        <3>1. Grown(Reports, FALSE).state = folder[Reports].state
            BY GrownRow
        <3>2. Shrunk(f, 1, One(read.unread)).state = folder[f].state
            <4> DEFINE u == One(read.unread)
            <4>1. u \in Nat
                BY <2>2
            <4> HIDE DEF u, f
            <4>2. Shrunk(f, 1, u).state = folder[f].state
                BY <2>2, <4>1, ShrunkRow
            <4> QED
                BY <4>2 DEF u
        <3> QED
            BY <3>1, <3>2
    <2>4. /\ \A g \in Folders : folder'[g].state = folder[g].state
          /\ \A g \in Folders : ~Present(g) => folder'[g] = folder[g]
        BY <1>0, <1>10, <2>1, <2>2, <2>3 DEF FileCommit, TypeOK
    <2>5. \A n \in Messages : Live(n)' => \/ Present(msg'[n].folder)
                                          \/ /\ Live(n)
                                             /\ msg'[n].folder = msg[n].folder
        BY <1>0, <1>10, <2>2 DEF FileCommit, Live, TypeOK, MessageRow
    <2> QED
        BY <1>0, <1>10, <2>4, <2>5, ShapeKept DEF FileCommit
<1>11. CASE UNCHANGED <<folder, msg, copying>>
    BY <1>11 DEF Shape, Present, Live
<1> QED
    BY <1>1, <1>2, <1>3, <1>4, <1>5, <1>6, <1>7, <1>8, <1>9, <1>10, <1>11
    DEF Next, FileBegin, Fetch, vars

(***************************************************************************)
(* The counters of folder g are true.                                      *)
(***************************************************************************)
TrueOf(g) ==
    /\ folder[g].total = Cardinality(LiveIn(g))
    /\ folder[g].unread = Cardinality(UnreadIn(g))

\* A message that was nowhere arrives in folder d, and is counted unread
\* exactly if it is.
LEMMA CountArrival ==
    ASSUME TypeOK, NEW g \in Folders, TrueOf(g),
           NEW m \in Messages, ~Live(m), NEW d \in Folders,
           NEW unread \in BOOLEAN,
           folder' = [folder EXCEPT ![d] = Grown(d, unread)],
           \A n \in Messages \ {m} : msg'[n] = msg[n],
           Live(m)', msg'[m].folder = d, Seen(m)' <=> ~unread
    PROVE  TrueOf(g)'
<1>1. /\ LiveIn(g) \subseteq Messages /\ UnreadIn(g) \subseteq Messages
      /\ m \notin LiveIn(g) /\ m \notin UnreadIn(g)
    BY DEF LiveIn, UnreadIn
<1>2. CASE g = d
    <2>1. LiveIn(g)' = LiveIn(g) \cup {m}
        BY <1>2 DEF LiveIn, Live
    <2>2. /\ folder'[g].total = folder[g].total + 1
          /\ folder'[g].unread = folder[g].unread + One(unread)
        BY <1>2, GrownRow DEF TypeOK
    <2>3. CASE unread
        <3>1. UnreadIn(g)' = UnreadIn(g) \cup {m}
            BY <1>2, <2>1, <2>3 DEF UnreadIn, Seen, LiveIn, Live
        <3> QED
            BY <1>1, <2>1, <2>2, <2>3, <3>1, CardJoined DEF TrueOf, One
    <2>4. CASE ~unread
        <3>1. UnreadIn(g)' = UnreadIn(g)
            BY <1>2, <2>1, <2>4 DEF UnreadIn, Seen, LiveIn, Live
        <3>2. folder[g].unread \in Nat
            BY DEF TypeOK, FolderRow
        <3> QED
            BY <1>1, <2>1, <2>2, <2>4, <3>1, <3>2, CardJoined DEF TrueOf, One
    <2> QED
        BY <2>3, <2>4
<1>3. CASE g # d
    <2>1. folder'[g] = folder[g]
        BY <1>3 DEF TypeOK
    <2>2. LiveIn(g)' = LiveIn(g) /\ UnreadIn(g)' = UnreadIn(g)
        BY <1>3 DEF LiveIn, UnreadIn, Live, Seen
    <2> QED
        BY <2>1, <2>2 DEF TrueOf
<1> QED
    BY <1>2, <1>3

\* A message leaves folder f for folder d: f is charged for what the message
\* was, d for what it is.
LEMMA CountMove ==
    ASSUME TypeOK, NEW g \in Folders, TrueOf(g),
           NEW m \in Messages, Live(m), NEW f \in Folders, msg[m].folder = f,
           NEW d \in Folders, f # d,
           NEW was \in BOOLEAN, was <=> ~Seen(m),
           NEW is \in BOOLEAN, is <=> ~Seen(m)',
           folder' = [folder EXCEPT ![d] = Grown(d, is),
                                    ![f] = Shrunk(f, 1, One(was))],
           \A n \in Messages \ {m} : msg'[n] = msg[n],
           Live(m)', msg'[m].folder = d
    PROVE  TrueOf(g)'
<1>1. LiveIn(g) \subseteq Messages /\ UnreadIn(g) \subseteq Messages
    BY DEF LiveIn, UnreadIn
<1>2. folder[g].total \in Nat /\ folder[g].unread \in Nat
    BY DEF TypeOK, FolderRow
<1>3. CASE g = d
    <2>1. m \notin LiveIn(g) /\ m \notin UnreadIn(g)
        BY <1>3 DEF LiveIn, UnreadIn
    <2>2. LiveIn(g)' = LiveIn(g) \cup {m}
        BY <1>3 DEF LiveIn, Live
    <2>3. /\ folder'[g].total = folder[g].total + 1
          /\ folder'[g].unread = folder[g].unread + One(is)
        BY <1>3, GrownRow DEF TypeOK
    <2>4. CASE is
        <3>1. UnreadIn(g)' = UnreadIn(g) \cup {m}
            BY <1>3, <2>2, <2>4 DEF UnreadIn, Seen, LiveIn, Live
        <3> QED
            BY <1>1, <2>1, <2>2, <2>3, <2>4, <3>1, CardJoined DEF TrueOf, One
    <2>5. CASE ~is
        <3>1. UnreadIn(g)' = UnreadIn(g)
            BY <1>3, <2>2, <2>5 DEF UnreadIn, Seen, LiveIn, Live
        <3> QED
            BY <1>1, <1>2, <2>1, <2>2, <2>3, <2>5, <3>1, CardJoined
            DEF TrueOf, One
    <2> QED
        BY <2>4, <2>5
<1>4. CASE g = f
    <2>1. m \in LiveIn(g) /\ LiveIn(g)' = LiveIn(g) \ {m}
        BY <1>4 DEF LiveIn, Live
    <2>2. One(was) \in Nat
        BY DEF One
    <2>3. /\ folder'[g].total = NotBelowZero(folder[g].total - 1)
          /\ folder'[g].unread = NotBelowZero(folder[g].unread - One(was))
        BY <1>4, <2>2, ShrunkRow DEF TypeOK
    <2>4. folder'[g].total = Cardinality(LiveIn(g)')
        BY <1>1, <2>1, <2>3, CardLeftOne, ClampType DEF TrueOf
    <2>5. CASE was
        <3>1. m \in UnreadIn(g) /\ UnreadIn(g)' = UnreadIn(g) \ {m}
            BY <2>1, <2>5 DEF UnreadIn, Seen, LiveIn, Live
        <3> QED
            BY <1>1, <2>3, <2>4, <2>5, <3>1, CardLeftOne, ClampType
            DEF TrueOf, One
    <2>6. CASE ~was
        <3>1. UnreadIn(g)' = UnreadIn(g)
            BY <2>1, <2>6 DEF UnreadIn, Seen, LiveIn, Live
        <3> QED
            BY <1>2, <2>3, <2>4, <2>6, <3>1, ClampType DEF TrueOf, One
    <2> QED
        BY <2>5, <2>6
<1>5. CASE g # d /\ g # f
    <2>1. folder'[g] = folder[g]
        BY <1>5 DEF TypeOK
    <2>2. LiveIn(g)' = LiveIn(g) /\ UnreadIn(g)' = UnreadIn(g)
        BY <1>5 DEF LiveIn, UnreadIn, Live, Seen
    <2> QED
        BY <2>1, <2>2 DEF TrueOf
<1> QED
    BY <1>3, <1>4, <1>5

\* Messages G leave folder f for good.
LEMMA CountExpunge ==
    ASSUME TypeOK, NEW g \in Folders, TrueOf(g),
           NEW f \in Folders, NEW G \in SUBSET LiveIn(f),
           folder' = [folder EXCEPT ![f] =
                        Shrunk(f, Cardinality(G), Cardinality(G \cap UnreadIn(f)))],
           msg' = [m \in Messages |->
                     IF m \in G THEN [msg[m] EXCEPT !.state = "expunged"]
                                ELSE msg[m]]
    PROVE  TrueOf(g)'
<1>1. LiveIn(g) \subseteq Messages /\ UnreadIn(g) \subseteq Messages
    BY DEF LiveIn, UnreadIn
<1>2. CASE g = f
    <2> DEFINE U == G \cap UnreadIn(f)
    <2>1. LiveIn(g)' = LiveIn(g) \ G /\ UnreadIn(g)' = UnreadIn(g) \ U
        BY <1>2 DEF LiveIn, UnreadIn, Live, Seen, TypeOK, MessageRow
    <2>2. /\ Cardinality(G) \in Nat /\ Cardinality(U) \in Nat
          /\ G \subseteq LiveIn(g) /\ U \subseteq UnreadIn(g)
        BY <1>1, <1>2, MessagesFinite DEF LiveIn, UnreadIn
    <2> HIDE DEF U
    <2>3. /\ folder'[g].total = NotBelowZero(folder[g].total - Cardinality(G))
          /\ folder'[g].unread = NotBelowZero(folder[g].unread - Cardinality(U))
        BY <1>2, <2>2, ShrunkRow DEF TypeOK, U
    <2>4. folder'[g].total = Cardinality(LiveIn(g)')
        BY <1>1, <2>1, <2>2, <2>3, CardLeft, ClampType DEF TrueOf
    <2>5. folder'[g].unread = Cardinality(UnreadIn(g)')
        BY <1>1, <2>1, <2>2, <2>3, CardLeft, ClampType DEF TrueOf
    <2> QED
        BY <2>4, <2>5 DEF TrueOf
<1>3. CASE g # f
    <2>1. folder'[g] = folder[g]
        BY <1>3 DEF TypeOK
    <2>2. LiveIn(g)' = LiveIn(g) /\ UnreadIn(g)' = UnreadIn(g)
        BY <1>3 DEF LiveIn, UnreadIn, Live, Seen, TypeOK, MessageRow
    <2> QED
        BY <2>1, <2>2 DEF TrueOf
<1> QED
    BY <1>2, <1>3

\* The flags of message m change, and the unread counter by UnreadDelta.
LEMMA CountFlags ==
    ASSUME TypeOK, NEW g \in Folders, TrueOf(g),
           NEW m \in Messages, Live(m), NEW op \in {"add", "del", "set"},
           NEW F \in SUBSET Flags,
           folder' = [folder EXCEPT ![msg[m].folder] =
                        Reflagged(msg[m].folder, UnreadDelta(m, op, F))],
           \A n \in Messages \ {m} : msg'[n] = msg[n],
           msg'[m].state = msg[m].state, msg'[m].folder = msg[m].folder,
           msg'[m].flags = FlagsAfter(m, op, F)
    PROVE  TrueOf(g)'
<1> DEFINE f == msg[m].folder
           seen == "Seen" \in FlagsAfter(m, op, F)
           delta == UnreadDelta(m, op, F)
<1>1. f \in Folders /\ delta \in Int
    BY DEF TypeOK, MessageRow, UnreadDelta, One
<1>2. /\ LiveIn(g) \subseteq Messages /\ UnreadIn(g) \subseteq Messages
      /\ LiveIn(g)' = LiveIn(g)
      /\ folder[g].total \in Nat /\ folder[g].unread \in Nat
    BY DEF LiveIn, UnreadIn, Live, TypeOK, FolderRow
<1>3. /\ delta = IF Seen(m) /\ ~seen THEN 1
                 ELSE IF ~Seen(m) /\ seen THEN -1 ELSE 0
      /\ Seen(m)' <=> seen
    BY DEF UnreadDelta, One, Seen
<1>4. CASE g = f
    <2>1. m \in LiveIn(g)
        BY <1>4 DEF LiveIn
    <2>2. /\ folder'[g].total = folder[g].total
          /\ folder'[g].unread = NotBelowZero(folder[g].unread + delta)
        BY <1>1, <1>4, ReflaggedRow DEF TypeOK
    <2> HIDE DEF delta, f, seen
    <2>3. CASE Seen(m) /\ ~seen
        <3>1. m \notin UnreadIn(g) /\ UnreadIn(g)' = UnreadIn(g) \cup {m}
            BY <1>3, <2>1, <2>3 DEF UnreadIn, LiveIn, Live, Seen
        <3>2. folder[g].unread + delta = Cardinality(UnreadIn(g)')
            BY <1>2, <1>3, <2>3, <3>1, CardJoined DEF TrueOf
        <3>3. folder[g].unread + delta >= 0 /\ folder[g].unread + delta \in Int
            BY <1>2, <1>3, <2>3
        <3> QED
            BY <1>2, <2>2, <3>2, <3>3, ClampType DEF TrueOf
    <2>4. CASE ~Seen(m) /\ seen
        <3>1. m \in UnreadIn(g) /\ UnreadIn(g)' = UnreadIn(g) \ {m}
            BY <1>3, <2>1, <2>4 DEF UnreadIn, LiveIn, Live, Seen
        <3>2. /\ folder[g].unread + delta = Cardinality(UnreadIn(g)')
              /\ folder[g].unread + delta >= 0
            BY <1>2, <1>3, <2>4, <3>1, CardLeftOne DEF TrueOf
        <3>3. folder[g].unread + delta \in Int
            BY <1>2, <1>3, <2>4
        <3> QED
            BY <1>2, <2>2, <3>2, <3>3, ClampType DEF TrueOf
    <2>5. CASE Seen(m) <=> seen
        <3>1. UnreadIn(g)' = UnreadIn(g)
            BY <1>3, <2>1, <2>5 DEF UnreadIn, LiveIn, Live, Seen
        <3>2. folder[g].unread + delta = folder[g].unread
            BY <1>2, <1>3, <2>5
        <3> QED
            BY <1>2, <2>2, <3>1, <3>2, ClampType DEF TrueOf
    <2> QED
        BY <2>3, <2>4, <2>5
<1>5. CASE g # f
    <2>1. folder'[g] = folder[g]
        BY <1>5 DEF TypeOK
    <2>2. UnreadIn(g)' = UnreadIn(g)
        BY <1>5 DEF LiveIn, UnreadIn, Live, Seen
    <2> QED
        BY <1>2, <2>1, <2>2 DEF TrueOf
<1> QED
    BY <1>4, <1>5

\* A step whose stale read, if it had one, did no harm keeps the counters of
\* every folder that exists true.
LEMMA CountersStep ==
    /\ TypeOK /\ FiledFromElsewhere /\ Shape /\ CountersAreTrue /\ [Next]_vars
    => CountersAreTrue'
<1> SUFFICES ASSUME TypeOK, FiledFromElsewhere, Shape, CountersAreTrue,
                    [Next]_vars, ~raced', NEW g \in Folders, Present(g)'
             PROVE  TrueOf(g)'
    BY DEF CountersAreTrue, TrueOf
<1> USE StandardFolders
<1>0. ~raced /\ (Present(g) => TrueOf(g))
    <2>1. ~raced
        BY DEF Next, Persist, SetFlags, Expunge, Move, CopyBegin, CopyCommit,
               CopyAbort, CreateFolder, DeleteFolder, FileBegin, FileCommit,
               Fetch, vars
    <2> QED
        BY <2>1 DEF CountersAreTrue, TrueOf
<1>1. ASSUME NEW f \in Folders, CreateFolder(f)
      PROVE  TrueOf(g)'
    <2>1. LiveIn(g)' = LiveIn(g) /\ UnreadIn(g)' = UnreadIn(g)
        BY <1>1 DEF CreateFolder, LiveIn, UnreadIn, Live, Seen
    <2>2. CASE g = f
        <3>1. folder[f].state = "absent" /\ ~Present(f)
            BY <1>1 DEF CreateFolder, Present
        <3>2. LiveIn(f) = {} /\ UnreadIn(f) = {}
            BY <3>1 DEF Shape, LiveIn, UnreadIn
        <3>3. folder'[f].total = 0 /\ folder'[f].unread = 0
            BY <1>1, <3>1 DEF CreateFolder, Shape, TypeOK, FolderRow
        <3> QED
            BY <2>1, <2>2, <3>2, <3>3, FS_EmptySet DEF TrueOf
    <2>3. CASE g # f
        <3>1. folder'[g] = folder[g]
            BY <1>1, <2>3 DEF CreateFolder, TypeOK
        <3> QED
            BY <1>0, <2>1, <3>1 DEF Present, TrueOf
    <2> QED
        BY <2>2, <2>3
<1>2. ASSUME NEW f \in Folders, DeleteFolder(f)
      PROVE  TrueOf(g)'
    <2>1. g # f
        BY <1>2 DEF DeleteFolder, Present, TypeOK, FolderRow
    <2>2. folder'[g] = folder[g]
        BY <1>2, <2>1 DEF DeleteFolder, TypeOK
    <2>3. LiveIn(g)' = LiveIn(g) /\ UnreadIn(g)' = UnreadIn(g)
        BY <1>2, <2>1 DEF DeleteFolder, LiveIn, UnreadIn, Live, Seen, TypeOK,
                          MessageRow
    <2> QED
        BY <1>0, <2>2, <2>3 DEF Present, TrueOf
<1>3. CASE UNCHANGED <<folder, msg>>
    BY <1>0, <1>3 DEF TrueOf, Present, LiveIn, UnreadIn, Live, Seen
<1>4. ASSUME NEW m \in Messages, NEW t \in Folders, NEW seen \in BOOLEAN,
             Persist(m, t, seen)
      PROVE  TrueOf(g)'
    <2> DEFINE f == IF Present(t) THEN t ELSE Inbox
               unread == ~seen
    <2>1. f \in Folders /\ unread \in BOOLEAN
        OBVIOUS
    <2>2. /\ folder' = [folder EXCEPT ![f] = Grown(f, unread)]
          /\ ~Live(m)
        BY <1>4 DEF Persist, Live
    <2>3. /\ \A n \in Messages \ {m} : msg'[n] = msg[n]
          /\ Live(m)' /\ msg'[m].folder = f
          /\ Seen(m)' <=> ~unread
        BY <1>4 DEF Persist, TypeOK, Live, Seen
    <2> HIDE DEF f, unread
    <2>4. Present(g)
        BY <2>1, <2>2, GrownRow DEF Present, TypeOK
    <2> QED
        BY <1>0, <2>1, <2>2, <2>3, <2>4, CountArrival
<1>5. ASSUME NEW m \in Messages, NEW op \in {"add", "del", "set"},
             NEW F \in SUBSET Flags, NEW since, SetFlags(m, op, F, since)
      PROVE  TrueOf(g)'
    <2>1. /\ Live(m)
          /\ folder' = [folder EXCEPT ![msg[m].folder] =
                          Reflagged(msg[m].folder, UnreadDelta(m, op, F))]
        BY <1>5 DEF SetFlags
    <2>2. /\ \A n \in Messages \ {m} : msg'[n] = msg[n]
          /\ msg'[m].state = msg[m].state /\ msg'[m].folder = msg[m].folder
          /\ msg'[m].flags = FlagsAfter(m, op, F)
        BY <1>5 DEF SetFlags, TypeOK, MessageRow
    <2>3. msg[m].folder \in Folders /\ UnreadDelta(m, op, F) \in Int
        BY DEF TypeOK, MessageRow, UnreadDelta, One
    <2>4. Present(g)
        BY <2>1, <2>3, ReflaggedRow DEF Present, TypeOK
    <2> QED
        BY <1>0, <2>1, <2>2, <2>4, CountFlags
<1>6. ASSUME NEW f \in Folders, NEW S \in SUBSET Messages, Expunge(f, S)
      PROVE  TrueOf(g)'
    <2> DEFINE G == S \cap LiveIn(f)
    <2>1. /\ G \in SUBSET LiveIn(f) /\ Present(f)
          /\ folder' = [folder EXCEPT ![f] =
                Shrunk(f, Cardinality(G), Cardinality(G \cap UnreadIn(f)))]
          /\ msg' = [m \in Messages |->
                       IF m \in G THEN [msg[m] EXCEPT !.state = "expunged"]
                                  ELSE msg[m]]
        BY <1>6 DEF Expunge
    <2>2. Present(g)
        BY <2>1 DEF Present, TypeOK
    <2> HIDE DEF G
    <2> QED
        BY <1>0, <2>1, <2>2, CountExpunge
<1>7. ASSUME NEW m \in Messages, NEW d \in Folders, Move(m, d)
      PROVE  TrueOf(g)'
    <2> DEFINE f == msg[m].folder
               unread == ~Seen(m)
    <2>1. /\ f \in Folders /\ f # d /\ Present(f) /\ Present(d) /\ Live(m)
          /\ unread \in BOOLEAN
        BY <1>7 DEF TypeOK, MessageRow, Move, Seen
    <2>2. folder' = [folder EXCEPT ![d] = Grown(d, unread),
                                   ![f] = Shrunk(f, 1, One(unread))]
        BY <1>7 DEF Move
    <2>3. /\ \A n \in Messages \ {m} : msg'[n] = msg[n]
          /\ Live(m)' /\ msg'[m].folder = d
          /\ (unread <=> ~Seen(m)') /\ (unread <=> ~Seen(m))
        BY <1>7 DEF Move, TypeOK, MessageRow, Live, Seen
    <2>4. Present(g)
        BY <2>1, <2>2 DEF Present, TypeOK
    <2> HIDE DEF unread, f
    <2>5. msg[m].folder = f
        BY DEF f
    <2> QED
        BY <1>0, <2>1, <2>2, <2>3, <2>4, <2>5, CountMove
<1>8. ASSUME NEW c \in Copiers, NEW n \in Messages, CopyCommit(c, n)
      PROVE  TrueOf(g)'
    <2> DEFINE r == copying[c]
               d == r.dest
               unread == ~r.seen
    <2>1. /\ r \in CopyRead /\ Present(d)
          /\ r.source \in Messages /\ d \in Folders /\ unread \in BOOLEAN
        BY <1>8 DEF CopyCommit, TypeOK, CopyRead, Shape
    <2>2. /\ folder' = [folder EXCEPT ![d] = Grown(d, unread)]
          /\ ~Live(n)
        BY <1>8 DEF CopyCommit, Live
    <2>3. r.seen <=> Seen(r.source)
        BY <1>8, <2>1 DEF CopyCommit, Seen, CopyRead
    <2>4. /\ \A k \in Messages \ {n} : msg'[k] = msg[k]
          /\ Live(n)' /\ msg'[n].folder = d
          /\ Seen(n)' <=> ~unread
        BY <1>8, <2>1, <2>3 DEF CopyCommit, TypeOK, Live, Seen
    <2>5. Present(g)
        BY <2>1, <2>2 DEF Present, TypeOK
    <2> HIDE DEF unread, d
    <2> QED
        BY <1>0, <2>1, <2>2, <2>4, <2>5, CountArrival
<1>9. ASSUME NEW r \in Filers, FileCommit(r)
      PROVE  TrueOf(g)'
    <2> DEFINE read == filing[r]
               f == read.source
               was == read.unread
               is == FALSE
    <2>0. read.message \in Messages
        BY <1>9 DEF FileCommit, TypeOK, FilingRead
    <2> PICK m \in Messages : m = read.message
        BY <2>0
    <2>1. /\ read \in FilingRead /\ f # Reports
          /\ m \in Messages /\ f \in Folders /\ was \in BOOLEAN
        BY <1>9 DEF FileCommit, TypeOK, FiledFromElsewhere, FilingRead
    <2>2. m \in LiveIn(f) /\ (was <=> ~Seen(m))
        <3>1. m \in LiveIn(f) /\ was # Seen(m)
            BY <1>9 DEF FileCommit
        <3> QED
            BY <2>1, <3>1 DEF Seen
    <2>3. Live(m) /\ msg[m].folder = f /\ Present(f)
        BY <2>1, <2>2 DEF LiveIn, Shape
    <2>4. folder' = [folder EXCEPT ![Reports] = Grown(Reports, is),
                                   ![f] = Shrunk(f, 1, One(was))]
        BY <1>9, <2>1, <2>3 DEF FileCommit, TypeOK
    <2>5. /\ \A n \in Messages \ {m} : msg'[n] = msg[n]
          /\ Live(m)' /\ msg'[m].folder = Reports
          /\ Seen(m)'
        <3>1. msg[m] \in MessageRow
            BY <2>1 DEF TypeOK
        <3>2. /\ \A n \in Messages \ {m} : msg'[n] = msg[n]
              /\ msg'[m].folder = Reports /\ msg'[m].state = msg[m].state
              /\ msg'[m].flags = msg[m].flags \cup {"Seen"}
            BY <1>9, <2>1, <3>1 DEF FileCommit, TypeOK, MessageRow
        <3> QED
            BY <2>3, <3>2 DEF Live, Seen
    <2>6. Present(g)
        BY <2>1, <2>3, <2>4, StoreAssumption DEF Present, TypeOK, Shape
    <2>7. is \in BOOLEAN /\ (is <=> ~Seen(m)')
        BY <2>5
    <2> HIDE DEF f, was, is
    <2> QED
        BY <1>0, <2>1, <2>2, <2>3, <2>4, <2>5, <2>6, <2>7, CountMove
<1> QED
    BY <1>1, <1>2, <1>3, <1>4, <1>5, <1>6, <1>7, <1>8, <1>9
    DEF Next, CopyBegin, CopyAbort, FileBegin, Fetch, vars

\* Total and unread of every folder are true for any number of messages,
\* folders and concurrent copies and filings, until one of the two operations
\* that read before they lock acts on a read that has become false.
THEOREM CountersStayTrue == Spec => []CountersAreTrue
<1>1. Init => CountersAreTrue
    <2> SUFFICES ASSUME Init, NEW f \in Folders PROVE TrueOf(f)
        BY DEF CountersAreTrue, TrueOf
    <2>1. LiveIn(f) = {} /\ UnreadIn(f) = {}
        BY DEF Init, LiveIn, UnreadIn, Live
    <2> QED
        BY <2>1, FS_EmptySet DEF Init, TrueOf
<1> QED
    BY <1>1, TypeInit, TypeStep, FiledFromElsewhereInductive, ShapeInit,
       ShapeStep, CountersStep, PTL DEF Spec

-----------------------------------------------------------------------------
(***************************************************************************)
(* From the outbox to the page.                                            *)
(***************************************************************************)
RelayRow == [pc: {"idle", "publish"}, batch: SUBSET Events, left: SUBSET Events]

\* The types of the outbox, of the socket, of the requests and of the flags.
OutboxOK ==
    /\ committed \subseteq Events /\ published \subseteq committed
    /\ pubs \subseteq Events /\ faults \in 0..MaxFaults

SocketOK ==
    sock \in {"down", "open", "joined"} /\ at \in Instances /\ buf \in 0..Buffer

RequestsOK ==
    /\ fetches \subseteq [id: 1..MaxFetches, read: BOOLEAN,
                          shows: SUBSET committed]
    /\ asked \in 1..MaxFetches /\ shown \subseteq committed

FlagsOK == error \in BOOLEAN /\ missed \in BOOLEAN

\* A relay's batch is committed, and it is at work when it has one.
RelayOK ==
    /\ relay \in [Instances -> RelayRow]
    /\ \A i \in Instances :
         /\ relay[i].batch \subseteq committed
         /\ relay[i].left \subseteq relay[i].batch
         /\ relay[i].pc = "idle" => relay[i].batch = {}

\* The events some relay has handed to a hub, and those marked before.
Passed ==
    published \cup (UNION {relay[i].batch \ relay[i].left : i \in Instances})

\* The page has shown the event, or has a request under way that will, or is
\* about to make one.
WillShow(e) ==
    \/ e \in shown
    \/ buf > 0
    \/ \E f \in fetches : ~f.read \/ e \in f.shows

PageCatchesUp ==
    sock # "down" /\ ~missed /\ ~error => \A e \in Passed : WillShow(e)

EventsInv ==
    OutboxOK /\ SocketOK /\ RequestsOK /\ FlagsOK /\ RelayOK /\ PageCatchesUp

\* It holds at the start.
LEMMA EventsStart == EventsInit => EventsInv
<1> SUFFICES ASSUME EventsInit PROVE EventsInv
    OBVIOUS
<1>1. 1 \in 1..MaxFetches /\ 0 \in 0..Buffer /\ 0 \in 0..MaxFaults
    BY EventsAssumption
<1>2. OutboxOK /\ SocketOK
    BY <1>1 DEF EventsInit, OutboxOK, SocketOK
<1>3. RequestsOK
    BY <1>1 DEF EventsInit, RequestsOK, Request
<1>4. FlagsOK
    BY DEF EventsInit, FlagsOK
<1>5. RelayOK
    BY DEF EventsInit, RelayOK, Resting, RelayRow
<1>6. PageCatchesUp
    BY DEF EventsInit, PageCatchesUp
<1> QED
    BY <1>2, <1>3, <1>4, <1>5, <1>6 DEF EventsInv

\* A set of numbers that is not empty has a least one.
LEMMA LeastNumber ==
    ASSUME NEW S, S \subseteq Nat, S # {}
    PROVE  \E x \in S : \A y \in S : x <= y
<1> DEFINE R == {p \in Nat \X Nat : p[1] < p[2]}
<1>1. IsWellFoundedOn(R, Nat)
    BY NatLessThanWellFounded DEF OpToRel
<1> HIDE DEF R
<1>2. PICK x \in S : \A y \in S : ~(<<y, x>> \in R)
    BY <1>1, WFMin
<1>3. ASSUME NEW y \in S
      PROVE  x <= y
  <2>1. x \in Nat /\ y \in Nat /\ ~(<<y, x>> \in R)
      BY <1>2
  <2> QED
      BY <2>1 DEF R
<1> QED
    BY <1>3

\* The relays' steps keep it: an event is handed over where the page takes
\* note of it, or where its absence is noted.
LEMMA RelayStepKeeps ==
    ASSUME EventsInv, NEW i \in Instances, RelayStep(i) \/ Crash(i)
    PROVE  EventsInv'
<1> USE DEF EventsInv
<1>1. /\ relay \in [Instances -> RelayRow]
      /\ relay[i].batch \subseteq committed
      /\ relay[i].left \subseteq relay[i].batch
      /\ committed \subseteq Events
    BY DEF RelayOK, OutboxOK
<1>2. Resting \in RelayRow /\ Resting.batch = {} /\ Resting.left = {}
    BY DEF Resting, RelayRow
<1>3. /\ UNCHANGED <<committed, fetches, asked, error, shown, at>>
      /\ RequestsOK' /\ error' \in BOOLEAN
    BY DEF RelayStep, FetchUnpublished, Publish, MarkPublished, Crash,
       client, RequestsOK, FlagsOK
<1>4. ASSUME NEW r \in RelayRow, relay' = [relay EXCEPT ![i] = r],
             r.batch \subseteq committed, r.left \subseteq r.batch,
             r.pc = "idle" => r.batch = {}
      PROVE  RelayOK'
    BY <1>1, <1>3, <1>4 DEF RelayOK
<1>5. CASE FetchUnpublished(i)
  <2> DEFINE r == [pc |-> "publish", batch |-> Batch, left |-> Batch]
  <2>1. r \in RelayRow /\ r.batch \subseteq committed
      BY <1>1 DEF Batch, Unpublished, RelayRow
  <2>2. RelayOK'
      BY <1>4, <1>5, <2>1 DEF FetchUnpublished
  <2>3. UNCHANGED <<published, pubs, faults, sock, buf, missed>>
      BY <1>5 DEF FetchUnpublished, client
  <2>4. ASSUME NEW e \in Passed' PROVE e \in Passed
    <3>1. ASSUME NEW k \in Instances, e \in relay'[k].batch \ relay'[k].left
          PROVE  e \in relay[k].batch \ relay[k].left
        BY <1>1, <1>5, <3>1 DEF FetchUnpublished
    <3> QED
        BY <2>3, <2>4, <3>1 DEF Passed
  <2> QED
      BY <1>3, <2>2, <2>3, <2>4
         DEF OutboxOK, SocketOK, FlagsOK, PageCatchesUp, WillShow
<1>6. CASE Publish(i)
  <2> DEFINE e == CHOOSE x \in relay[i].left : \A y \in relay[i].left : x <= y
             r == [relay[i] EXCEPT !.left = @ \ {e}]
  <2>0. relay[i].left \subseteq Nat
    <3>1. relay[i].left \subseteq Events
        BY <1>1
    <3> QED
        BY <3>1, EventsAssumption DEF Events
  <2>1. r \in RelayRow /\ r.batch = relay[i].batch
        /\ r.left \subseteq relay[i].left /\ r.pc = "publish"
      BY <1>1, <1>6 DEF RelayRow, Publish
  <2>2. RelayOK'
      BY <1>1, <1>4, <1>6, <2>1 DEF Publish
  <2>3. OutboxOK'
    <3>1. \E x \in relay[i].left : \A y \in relay[i].left : x <= y
        BY <1>6, <2>0, LeastNumber DEF Publish
    <3>2. e \in Events
        BY <1>1, <3>1
    <3> QED
        BY <1>6, <3>2 DEF Publish, OutboxOK
  <2>4. CASE sock = "joined" /\ at = i
    <3>1. buf' \in 0..Buffer /\ buf' > 0
        BY <1>6, <2>4, EventsAssumption DEF Publish, Push, SocketOK
    <3>2. FlagsOK' /\ sock' = sock
        BY <1>3, <1>6, <2>4 DEF Publish, FlagsOK
    <3> QED
        BY <1>3, <2>2, <2>3, <3>1, <3>2
           DEF SocketOK, PageCatchesUp, WillShow
  <2>5. CASE ~(sock = "joined" /\ at = i)
    <3>1. buf' = buf /\ sock' = sock
        BY <1>6, <2>5 DEF Publish
    <3>2. FlagsOK' /\ (sock' = "down" \/ missed')
        BY <1>3, <1>6, <2>5 DEF Publish, FlagsOK
    <3> QED
        BY <1>3, <2>2, <2>3, <3>1, <3>2 DEF SocketOK, PageCatchesUp
  <2> QED
      BY <2>4, <2>5
<1>7. CASE MarkPublished(i)
  <2>1. RelayOK'
      BY <1>2, <1>4, <1>7 DEF MarkPublished
  <2>2. /\ UNCHANGED <<pubs, sock, buf, missed>>
        /\ published' \in {published, published \cup relay[i].batch}
        /\ relay[i].left = {} /\ faults' \in 0..MaxFaults
      BY <1>7, EventsAssumption DEF MarkPublished, client, OutboxOK, Faulty
  <2>3. ASSUME NEW e \in Passed' PROVE e \in Passed
    <3>1. ASSUME NEW k \in Instances, e \in relay'[k].batch \ relay'[k].left
          PROVE  e \in relay[k].batch \ relay[k].left
        BY <1>1, <1>2, <1>7, <3>1 DEF MarkPublished
    <3>2. relay[i].batch \subseteq relay[i].batch \ relay[i].left
        BY <2>2
    <3> QED
        BY <2>2, <2>3, <3>1, <3>2 DEF Passed
  <2> QED
      BY <1>1, <1>3, <2>1, <2>2, <2>3
         DEF OutboxOK, SocketOK, FlagsOK, PageCatchesUp, WillShow
<1>8. CASE Crash(i)
  <2>1. RelayOK'
      BY <1>2, <1>4, <1>8 DEF Crash
  <2>2. /\ UNCHANGED <<published, pubs, missed>>
        /\ faults' \in 0..MaxFaults
        /\ (sock' = sock /\ buf' = buf) \/ (sock' = "down" /\ buf' = 0)
      BY <1>8, EventsAssumption DEF Crash, OutboxOK, Faulty
  <2>3. ASSUME NEW e \in Passed' PROVE e \in Passed
    <3>1. ASSUME NEW k \in Instances, e \in relay'[k].batch \ relay'[k].left
          PROVE  e \in relay[k].batch \ relay[k].left
        BY <1>1, <1>2, <1>8, <3>1 DEF Crash
    <3> QED
        BY <2>2, <2>3, <3>1 DEF Passed
  <2>4. 0 \in 0..Buffer
      BY EventsAssumption
  <2>5. OutboxOK' /\ SocketOK' /\ FlagsOK'
      BY <1>3, <2>2, <2>4 DEF OutboxOK, SocketOK, FlagsOK
  <2>6. PageCatchesUp'
      BY <1>3, <2>2, <2>3 DEF PageCatchesUp, WillShow
  <2> QED
      BY <1>3, <2>1, <2>5, <2>6
<1> QED
    BY <1>5, <1>6, <1>7, <1>8 DEF RelayStep

\* What a new request means: it will show whatever has been committed.
LEMMA LoadKeeps ==
    ASSUME EventsInv, Load, UNCHANGED <<committed, published, relay, pubs, shown,
                                        faults>>
    PROVE  OutboxOK' /\ RequestsOK' /\ FlagsOK' /\ RelayOK' /\ PageCatchesUp'
<1> USE DEF EventsInv
<1>1. asked + 1 \in 1..MaxFetches
    BY EventsAssumption DEF Load, RequestsOK
<1>2. Request(asked + 1) \in [id: 1..MaxFetches, read: BOOLEAN,
                              shows: SUBSET committed]
    BY <1>1 DEF Request
<1>3. RequestsOK'
    BY <1>1, <1>2 DEF Load, RequestsOK
<1>4. FlagsOK'
    BY DEF Load, FlagsOK
<1>5. OutboxOK' /\ RelayOK'
    BY DEF OutboxOK, RelayOK
<1>6. Request(asked + 1) \in fetches' /\ ~Request(asked + 1).read
    BY DEF Load, Request
<1> QED
    BY <1>3, <1>4, <1>5, <1>6 DEF PageCatchesUp, WillShow

\* The page's own steps, a broken connection and a delivery keep it.
LEMMA PageStepKeeps ==
    ASSUME EventsInv,
           PageStep \/ Disconnect \/ (\E e \in Events : Commit(e))
               \/ UNCHANGED eventsVars
    PROVE  EventsInv'
<1> USE DEF EventsInv
<1>0. Buffer \in Nat /\ MaxFaults \in Nat
    BY EventsAssumption
<1>1. CASE UNCHANGED eventsVars
  <2>1. UNCHANGED <<committed, published, relay, pubs, sock, at, buf, fetches,
                    asked, error, shown, missed, faults>>
      BY <1>1 DEF eventsVars, client
  <2>2. OutboxOK' /\ SocketOK' /\ RequestsOK' /\ RelayOK'
      BY <2>1 DEF OutboxOK, SocketOK, RequestsOK, RelayOK
  <2>3. FlagsOK' /\ PageCatchesUp'
      BY <2>1 DEF FlagsOK, PageCatchesUp, WillShow, Passed
  <2> QED
      BY <2>2, <2>3
<1>2. ASSUME NEW e \in Events, Commit(e)
      PROVE  EventsInv'
  <2>1. /\ committed' = committed \cup {e}
        /\ UNCHANGED <<published, relay, pubs, sock, at, buf, fetches, asked,
                       error, shown, missed, faults>>
      BY <1>2 DEF Commit, client
  <2>2. OutboxOK' /\ SocketOK' /\ RelayOK'
      BY <2>1 DEF OutboxOK, SocketOK, RelayOK
  <2>3. RequestsOK'
      BY <2>1 DEF RequestsOK
  <2>4. FlagsOK' /\ PageCatchesUp'
      BY <2>1 DEF FlagsOK, PageCatchesUp, WillShow, Passed
  <2> QED
      BY <2>2, <2>3, <2>4
<1>3. CASE Disconnect
  <2>1. /\ sock' = "down" /\ buf' = 0 /\ faults' \in 0..MaxFaults
        /\ UNCHANGED <<committed, published, relay, pubs, at, fetches, asked,
                       error, shown, missed>>
      BY <1>0, <1>3 DEF Disconnect, Faulty, OutboxOK
  <2>2. OutboxOK' /\ SocketOK' /\ RelayOK' /\ RequestsOK'
      BY <1>0, <2>1 DEF OutboxOK, SocketOK, RelayOK, RequestsOK
  <2>3. FlagsOK' /\ PageCatchesUp'
      BY <2>1 DEF FlagsOK, PageCatchesUp
  <2> QED
      BY <2>2, <2>3
<1>4. CASE Add
  <2>1. /\ sock # "down" /\ sock' = "joined"
        /\ UNCHANGED <<committed, published, relay, pubs, at, buf, fetches,
                       asked, error, shown, missed, faults>>
      BY <1>4 DEF Add
  <2>2. OutboxOK' /\ SocketOK' /\ RelayOK' /\ RequestsOK'
      BY <2>1 DEF OutboxOK, SocketOK, RelayOK, RequestsOK
  <2>3. FlagsOK' /\ PageCatchesUp'
      BY <2>1 DEF FlagsOK, PageCatchesUp, WillShow, Passed
  <2> QED
      BY <2>2, <2>3
<1>5. CASE WriteEvent
  <2>1. SocketOK'
      BY <1>0, <1>5 DEF WriteEvent, SocketOK
  <2> QED
      BY <1>5, <2>1, LoadKeeps DEF WriteEvent
<1>6. ASSUME NEW i \in Instances, Connect(i)
      PROVE  EventsInv'
  <2>1. SocketOK'
      BY <1>0, <1>6 DEF Connect, SocketOK
  <2> QED
      BY <1>6, <2>1, LoadKeeps DEF Connect, Resync
<1>7. ASSUME NEW f \in fetches, ReadList(f)
      PROVE  EventsInv'
  <2> DEFINE g == [f EXCEPT !.read = TRUE, !.shows = committed]
  <2>1. /\ fetches' = (fetches \ {f}) \cup {g}
        /\ UNCHANGED <<committed, published, relay, pubs, sock, at, buf, asked,
                       error, shown, missed, faults>>
      BY <1>7 DEF ReadList
  <2>2. /\ f \in [id: 1..MaxFetches, read: BOOLEAN, shows: SUBSET committed]
        /\ g \in [id: 1..MaxFetches, read: BOOLEAN, shows: SUBSET committed]
        /\ g.shows = committed
      BY DEF RequestsOK
  <2> HIDE DEF g
  <2>3. OutboxOK' /\ SocketOK' /\ RelayOK' /\ RequestsOK'
      BY <2>1, <2>2 DEF OutboxOK, SocketOK, RelayOK, RequestsOK
  <2>4. FlagsOK'
      BY <2>1 DEF FlagsOK
  <2>5. ASSUME NEW e \in Passed', WillShow(e)
        PROVE  WillShow(e)'
    <3>1. e \in committed
        BY <2>1 DEF Passed, OutboxOK, RelayOK
    <3>2. CASE e \in shown \/ buf > 0
        BY <2>1, <3>2 DEF WillShow
    <3>3. ASSUME NEW h \in fetches, ~h.read \/ e \in h.shows
          PROVE  WillShow(e)'
      <4>1. CASE h = f
          BY <2>1, <2>2, <3>1 DEF WillShow
      <4>2. CASE h # f
          BY <2>1, <3>3, <4>2 DEF WillShow
      <4> QED
          BY <4>1, <4>2
    <3> QED
        BY <2>5, <3>2, <3>3 DEF WillShow
  <2>6. PageCatchesUp'
      BY <2>1, <2>5 DEF PageCatchesUp, Passed
  <2> QED
      BY <2>3, <2>4, <2>6
<1>8. ASSUME NEW f \in fetches, ShowList(f)
      PROVE  EventsInv'
  <2>1. /\ f.read /\ fetches' = fetches \ {f} /\ shown' = shown \cup f.shows
        /\ UNCHANGED <<committed, published, relay, pubs, sock, at, buf, asked,
                       error, missed, faults>>
      BY <1>8 DEF ShowList
  <2>2. f.shows \subseteq committed
      BY DEF RequestsOK
  <2>3. OutboxOK' /\ SocketOK' /\ RelayOK' /\ RequestsOK'
      BY <2>1, <2>2 DEF OutboxOK, SocketOK, RelayOK, RequestsOK
  <2>4. FlagsOK'
      BY <2>1 DEF FlagsOK
  <2>5. ASSUME NEW e, WillShow(e)
        PROVE  WillShow(e)'
      BY <2>1, <2>5 DEF WillShow
  <2>6. PageCatchesUp'
      BY <2>1, <2>5 DEF PageCatchesUp, Passed
  <2> QED
      BY <2>3, <2>4, <2>6
<1>9. ASSUME NEW f \in fetches, FetchFails(f)
      PROVE  EventsInv'
  <2>1. /\ faults' \in 0..MaxFaults /\ fetches' = fetches \ {f} /\ error' = TRUE
        /\ UNCHANGED <<committed, published, relay, pubs, sock, at, buf, asked,
                       shown, missed>>
      BY <1>0, <1>9 DEF FetchFails, Faulty, OutboxOK
  <2>2. OutboxOK' /\ SocketOK' /\ RelayOK' /\ RequestsOK'
      BY <2>1 DEF OutboxOK, SocketOK, RelayOK, RequestsOK
  <2>3. FlagsOK' /\ PageCatchesUp'
      BY <2>1 DEF FlagsOK, PageCatchesUp
  <2> QED
      BY <2>2, <2>3
<1> QED
    BY <1>1, <1>2, <1>3, <1>4, <1>5, <1>6, <1>7, <1>8, <1>9 DEF PageStep

\* Every step keeps it.
LEMMA EventsInvariant == EventsSpec => []EventsInv
<1>1. EventsInv /\ [EventsNext]_eventsVars => EventsInv'
    BY RelayStepKeeps, PageStepKeeps DEF EventsNext
<1> QED
    BY <1>1, EventsStart, PTL DEF EventsSpec

\* Rows, relays, channel and requests keep their types, and the channel its
\* bound, for any number of instances and messages.
THEOREM EventsTypeCorrect == EventsSpec => []EventsTypeOK
<1>1. EventsInv => EventsTypeOK
    BY DEF EventsInv, EventsTypeOK, OutboxOK, SocketOK, RequestsOK, FlagsOK,
       RelayOK, RelayRow
<1> QED
    BY <1>1, EventsInvariant, PTL

\* When everything has been pushed and answered, and no failure is on the
\* screen, the page has shown every message, whatever the size of the channel
\* and however many events it dropped.
THEOREM QuietPageShowsAll == EventsSpec => []QuietPageHasShownAll
<1>1. EventsInv => QuietPageHasShownAll
  <2> SUFFICES ASSUME EventsInv, Quiet, ~missed, ~error
               PROVE  shown = committed
      BY DEF QuietPageHasShownAll
  <2>1. committed \subseteq Passed /\ sock # "down"
      BY DEF Quiet, Unpublished, Passed
  <2>2. \A e \in committed : WillShow(e)
      BY <2>1 DEF EventsInv, PageCatchesUp
  <2>3. committed \subseteq shown
      BY <2>2 DEF WillShow, Quiet
  <2> QED
      BY <2>3 DEF EventsInv, RequestsOK
<1> QED
    BY <1>1, EventsInvariant, PTL
=============================================================================
