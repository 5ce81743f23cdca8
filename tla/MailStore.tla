----------------------------- MODULE MailStore -----------------------------
(***************************************************************************)
(* The message store of one mailbox: rows of folders, email_messages and   *)
(* message_flags, with the numbers the folder and mailbox rows cache about *)
(* them, and every operation that changes either: delivery, the MailStore  *)
(* methods IMAP and the webmail call, and the report backfill command.     *)
(*                                                                         *)
(* An operation that holds the row lock of every folder whose messages it  *)
(* reads is one atomic step.  Two are not: Copy locks only the destination *)
(* folder and reads \Seen in the snapshot of a statement that may then     *)
(* wait for the message; the backfill reads the message before it locks    *)
(* anything.  Each of those is two steps.                                  *)
(*                                                                         *)
(* Every message counts one unit of quota.                                 *)
(***************************************************************************)
EXTENDS Integers, FiniteSets

CONSTANTS
    Messages,   \* rows of email_messages, used or yet to be inserted
    Folders,    \* rows of folders; an identifier is never used twice
    Standard,   \* the folders provisioned with the mailbox, never deleted
    Inbox,      \* where mail for a missing folder goes
    Drafts,     \* the folder whose mail is born with \Draft
    Reports,    \* the folder reports are filed in
    Blobs,      \* stored message bodies
    Flags,      \* message flags
    Copiers,    \* IMAP sessions that copy messages
    Filers,     \* runs of the report backfill
    Clients,    \* CONDSTORE clients
    None,       \* no read pending, nothing fetched
    MaxOps      \* bound: changes made to the store

ASSUME StoreAssumption ==
    /\ IsFiniteSet(Messages)
    /\ Standard \subseteq Folders
    /\ {Inbox, Drafts, Reports} \subseteq Standard
    /\ {"Seen", "Draft"} \subseteq Flags
    /\ MaxOps \in Nat

VARIABLES
    folder,   \* rows of folders
    msg,      \* rows of email_messages, with their message_flags
    used,     \* mailboxes.used_bytes
    refs,     \* message_blobs.ref_count
    outbox,   \* the messages announced in domain_events_outbox
    copying,  \* what each copier read before its destination changes
    filing,   \* what each filer read before it locks anything
    cache,    \* what each client last fetched
    raced,    \* a copier or filer acted on what was no longer so (observation)
    ops       \* changes so far

vars == <<folder, msg, used, refs, outbox, copying, filing, cache, raced, ops>>

FolderRow == [state: {"absent", "present", "deleted"}, uidNext: Nat,
              modseq: Nat, unread: Nat, total: Nat]

MessageRow == [state: {"free", "live", "expunged"}, folder: Folders,
               uid: Nat, modseq: Nat, flags: SUBSET Flags, blob: Blobs]

CopyRead == [source: Messages, folder: Folders, uid: Nat, dest: Folders,
             seen: BOOLEAN]

FilingRead == [message: Messages, source: Folders, unread: BOOLEAN]

Fetched == [message: Messages, folder: Folders, uid: Nat, modseq: Nat,
            flags: SUBSET Flags]

ASSUME NoneAssumption == None \notin CopyRead \cup FilingRead \cup Fetched

Present(f) == folder[f].state = "present"

Live(m) == msg[m].state = "live"

LiveIn(f) == {m \in Messages : Live(m) /\ msg[m].folder = f}

Seen(m) == "Seen" \in msg[m].flags

UnreadIn(f) == {m \in LiveIn(f) : ~Seen(m)}

\* GREATEST(0, n)
NotBelowZero(n) == IF n > 0 THEN n ELSE 0

One(b) == IF b THEN 1 ELSE 0

(***************************************************************************)
(* A copier keeps the row lock of its destination until it commits.        *)
(***************************************************************************)
Unlocked(f) == \A c \in Copiers : copying[c] # None => copying[c].dest # f

Init ==
    /\ folder = [f \in Folders |->
                   [state   |-> IF f \in Standard THEN "present" ELSE "absent",
                    uidNext |-> 1, modseq |-> 1, unread |-> 0, total |-> 0]]
    /\ msg \in [Messages ->
                  {[state |-> "free", folder |-> Inbox, uid |-> 0,
                    modseq |-> 0, flags |-> {}, blob |-> b] : b \in Blobs}]
    /\ used = 0
    /\ refs = [b \in Blobs |-> 0]
    /\ outbox = {}
    /\ copying = [c \in Copiers |-> None]
    /\ filing = [r \in Filers |-> None]
    /\ cache = [c \in Clients |-> None]
    /\ raced = FALSE
    /\ ops = 0

Counted == ops < MaxOps /\ ops' = ops + 1

-----------------------------------------------------------------------------
\* Mutant of UidFor: one above the highest UID in the folder.
HighestUidPlusOne(f) ==
    CHOOSE u \in 1..MaxOps + 1 :
        /\ \A m \in LiveIn(f) : msg[m].uid < u
        /\ u = 1 \/ \E m \in LiveIn(f) : msg[m].uid = u - 1

(***************************************************************************)
(* The UID the next message of a folder gets, read under the folder's lock.*)
(***************************************************************************)
UidFor(f) == folder[f].uidNext

(***************************************************************************)
(* The modseq of the next change in a folder.                              *)
(***************************************************************************)
ModseqFor(f) == folder[f].modseq + 1

\* Mutant of Grown: the UID is not used up.
GrownSameUid(f, unread) ==
    [folder[f] EXCEPT !.modseq = @ + 1,
                      !.total = @ + 1, !.unread = @ + One(unread)]

(***************************************************************************)
(* The folder row after one more message arrives in it.                    *)
(***************************************************************************)
Grown(f, unread) ==
    [folder[f] EXCEPT !.uidNext = @ + 1, !.modseq = @ + 1,
                      !.total = @ + 1, !.unread = @ + One(unread)]

(***************************************************************************)
(* The folder row after n messages, u of them unread, have left it.        *)
(***************************************************************************)
Shrunk(f, n, u) ==
    [folder[f] EXCEPT !.total = NotBelowZero(@ - n),
                      !.unread = NotBelowZero(@ - u),
                      !.modseq = @ + n]

(***************************************************************************)
(* The folder row after the flags of one of its messages changed.          *)
(***************************************************************************)
Reflagged(f, delta) ==
    [folder[f] EXCEPT !.modseq = @ + 1, !.unread = NotBelowZero(@ + delta)]

\* Mutant of Referenced: a body is shared without being counted.
Unreferenced(b) == refs

(***************************************************************************)
(* ref_count after one more message row points to body b.                  *)
(***************************************************************************)
Referenced(b) == [refs EXCEPT ![b] = @ + 1]

\* Mutant of QuotaAfter: the quota is not given back.
QuotaKept(n) == used

(***************************************************************************)
(* used_bytes after n messages are gone.                                   *)
(***************************************************************************)
QuotaAfter(n) == NotBelowZero(used - n)

(***************************************************************************)
(* persistOne: a delivered, sent or draft copy.  A missing target folder   *)
(* means INBOX.  The body was stored before, without a reference.          *)
(***************************************************************************)
Persist(m, target, alreadySeen) ==
    LET f == IF Present(target) THEN target ELSE Inbox IN
    /\ Counted
    /\ msg[m].state = "free"
    /\ Unlocked(f)
    /\ folder' = [folder EXCEPT ![f] = Grown(f, ~alreadySeen)]
    /\ msg' = [msg EXCEPT ![m] =
                 [state |-> "live", folder |-> f, uid |-> UidFor(f),
                  modseq |-> ModseqFor(f),
                  flags |-> (IF alreadySeen THEN {"Seen"} ELSE {}) \cup
                            (IF target = Drafts THEN {"Draft"} ELSE {}),
                  blob |-> msg[m].blob]]
    /\ refs' = Referenced(msg[m].blob)
    /\ used' = used + 1
    /\ outbox' = outbox \cup {m}
    /\ UNCHANGED <<copying, filing, cache, raced>>

(***************************************************************************)
(* The flags after STORE +FLAGS, -FLAGS or FLAGS.                          *)
(***************************************************************************)
FlagsAfter(m, op, F) ==
    CASE op = "add" -> msg[m].flags \cup F
      [] op = "del" -> msg[m].flags \ F
      [] op = "set" -> F

\* Mutant of Unchanged: a store that changes nothing is not noticed.
NeverUnchanged(m, op, F) == FALSE

(***************************************************************************)
(* Storing the flags a message already has.                                *)
(***************************************************************************)
Unchanged(m, op, F) == FlagsAfter(m, op, F) = msg[m].flags

\* Mutant of UnreadDelta: unread follows the request, not the flags.
UnreadDeltaByRequest(m, op, F) ==
    One(op = "del" /\ "Seen" \in F) - One(op # "del" /\ "Seen" \in F)

(***************************************************************************)
(* What the change does to the unread counter.                             *)
(***************************************************************************)
UnreadDelta(m, op, F) ==
    LET seen == "Seen" \in FlagsAfter(m, op, F)
    IN  One(Seen(m) /\ ~seen) - One(~Seen(m) /\ seen)

\* Mutant of ModseqAfterStore: only the folder's modseq is raised.
ModseqNotStamped(m) == msg[m].modseq

(***************************************************************************)
(* The modseq a message gets with its new flags.                           *)
(***************************************************************************)
ModseqAfterStore(m) == ModseqFor(msg[m].folder)

(***************************************************************************)
(* SetFlags, with UNCHANGEDSINCE when since > 0.  Storing the flags a      *)
(* message already has writes nothing.                                     *)
(***************************************************************************)
SetFlags(m, op, F, since) ==
    LET f == msg[m].folder IN
    /\ Counted
    /\ Live(m) /\ Present(f) /\ Unlocked(f)
    /\ since = 0 \/ msg[m].modseq <= since
    /\ ~Unchanged(m, op, F)
    /\ folder' = [folder EXCEPT ![f] = Reflagged(f, UnreadDelta(m, op, F))]
    /\ msg' = [msg EXCEPT ![m] = [@ EXCEPT !.flags = FlagsAfter(m, op, F),
                                           !.modseq = ModseqAfterStore(m)]]
    /\ UNCHANGED <<used, refs, outbox, copying, filing, cache, raced>>

(***************************************************************************)
(* Expunge: soft delete of those of the named messages that are there.     *)
(***************************************************************************)
Expunge(f, S) ==
    LET gone == S \cap LiveIn(f) IN
    /\ Counted
    /\ Present(f) /\ Unlocked(f)
    /\ gone # {}
    /\ folder' = [folder EXCEPT ![f] =
                    Shrunk(f, Cardinality(gone),
                           Cardinality(gone \cap UnreadIn(f)))]
    /\ msg' = [m \in Messages |->
                 IF m \in gone THEN [msg[m] EXCEPT !.state = "expunged"]
                               ELSE msg[m]]
    /\ used' = QuotaAfter(Cardinality(gone))
    /\ UNCHANGED <<refs, outbox, copying, filing, cache, raced>>

(***************************************************************************)
(* Move: both folders locked, the destination first in the counting.       *)
(***************************************************************************)
Move(m, dest) ==
    LET f == msg[m].folder IN
    /\ Counted
    /\ Live(m) /\ dest # f
    /\ Present(f) /\ Present(dest)
    /\ Unlocked(f) /\ Unlocked(dest)
    /\ folder' = [folder EXCEPT ![dest] = Grown(dest, ~Seen(m)),
                                ![f] = Shrunk(f, 1, One(~Seen(m)))]
    /\ msg' = [msg EXCEPT ![m] = [@ EXCEPT !.folder = dest,
                                           !.uid = UidFor(dest),
                                           !.modseq = ModseqFor(dest)]]
    /\ UNCHANGED <<used, refs, outbox, copying, filing, cache, raced>>

(***************************************************************************)
(* copyOne, first half: the destination row is locked, and the statement   *)
(* that loads the source message has taken its snapshot.                   *)
(***************************************************************************)
CopyBegin(c, m, dest) ==
    /\ copying[c] = None
    /\ Live(m) /\ Present(dest) /\ Unlocked(dest)
    /\ copying' = [copying EXCEPT ![c] =
                     [source |-> m, folder |-> msg[m].folder,
                      uid |-> msg[m].uid, dest |-> dest, seen |-> Seen(m)]]
    /\ UNCHANGED <<folder, msg, used, refs, outbox, filing, cache, raced, ops>>

(***************************************************************************)
(* The message is still where the copier looked for it.                    *)
(***************************************************************************)
StillThere(c) ==
    LET r == copying[c] IN
    /\ Live(r.source)
    /\ msg[r.source].folder = r.folder
    /\ msg[r.source].uid = r.uid

(***************************************************************************)
(* copyOne, second half, once the source message is locked: the row that   *)
(* comes back is the newest, the \Seen beside it that of the snapshot; the *)
(* flags are copied by a later statement and are the newest again.         *)
(***************************************************************************)
CopyCommit(c, new) ==
    LET r == copying[c]
        d == r.dest
    IN  /\ Counted
        /\ r # None
        /\ StillThere(c)
        /\ msg[new].state = "free"
        /\ folder' = [folder EXCEPT ![d] = Grown(d, ~r.seen)]
        /\ msg' = [msg EXCEPT ![new] =
                     [state |-> "live", folder |-> d,
                      uid |-> UidFor(d),
                      modseq |-> ModseqFor(d),
                      flags |-> msg[r.source].flags,
                      blob |-> msg[r.source].blob]]
        /\ refs' = Referenced(msg[r.source].blob)
        /\ used' = used + 1
        /\ raced' = (raced \/ r.seen # Seen(r.source))
        /\ copying' = [copying EXCEPT ![c] = None]
        /\ UNCHANGED <<outbox, filing, cache>>

CopyAbort(c) ==
    /\ copying[c] # None
    /\ ~StillThere(c)
    /\ copying' = [copying EXCEPT ![c] = None]
    /\ UNCHANGED <<folder, msg, used, refs, outbox, filing, cache, raced, ops>>

(***************************************************************************)
(* Folders the owner makes and removes.                                    *)
(***************************************************************************)
CreateFolder(f) ==
    /\ Counted
    /\ folder[f].state = "absent"
    /\ folder' = [folder EXCEPT ![f].state = "present"]
    /\ UNCHANGED <<msg, used, refs, outbox, copying, filing, cache, raced>>

DeleteFolder(f) ==
    /\ Counted
    /\ Present(f) /\ f \notin Standard /\ Unlocked(f)
    /\ folder' = [folder EXCEPT ![f].state = "deleted"]
    /\ msg' = [m \in Messages |->
                 IF m \in LiveIn(f) THEN [msg[m] EXCEPT !.state = "expunged"]
                                    ELSE msg[m]]
    /\ used' = QuotaAfter(Cardinality(LiveIn(f)))
    /\ UNCHANGED <<refs, outbox, copying, filing, cache, raced>>

(***************************************************************************)
(* MoveToReportsFolder, first half: folder and \Seen are read, unlocked.   *)
(***************************************************************************)
FileBegin(r, m) ==
    /\ filing[r] = None
    /\ Live(m) /\ msg[m].folder # Reports
    /\ filing' = [filing EXCEPT ![r] =
                    [message |-> m, source |-> msg[m].folder,
                     unread |-> ~Seen(m)]]
    /\ UNCHANGED <<folder, msg, used, refs, outbox, copying, cache, raced, ops>>

(***************************************************************************)
(* MoveToReportsFolder, second half: the message row is written by its id, *)
(* whatever has become of it, and the source folder is charged as read.    *)
(***************************************************************************)
FileCommit(r) ==
    LET read == filing[r]
        m == read.message
        f == read.source
    IN  /\ Counted
        /\ read # None
        /\ Unlocked(Reports) /\ Unlocked(f)
        /\ folder' = [folder EXCEPT
             ![Reports] = Grown(Reports, FALSE),
             ![f] = IF Present(f) THEN Shrunk(f, 1, One(read.unread)) ELSE @]
        /\ msg' = [msg EXCEPT ![m] = [@ EXCEPT !.folder = Reports,
                                               !.uid = UidFor(Reports),
                                               !.modseq = ModseqFor(Reports),
                                               !.flags = msg[m].flags \cup
                                                         {"Seen"}]]
        /\ raced' = (raced \/ m \notin LiveIn(f) \/ read.unread = Seen(m))
        /\ filing' = [filing EXCEPT ![r] = None]
        /\ UNCHANGED <<used, refs, outbox, copying, cache>>

(***************************************************************************)
(* A client fetches the flags and the modseq of a message.                 *)
(***************************************************************************)
Fetch(c, m) ==
    /\ Live(m)
    /\ cache' = [cache EXCEPT ![c] =
                   [message |-> m, folder |-> msg[m].folder,
                    uid |-> msg[m].uid, modseq |-> msg[m].modseq,
                    flags |-> msg[m].flags]]
    /\ UNCHANGED <<folder, msg, used, refs, outbox, copying, filing, raced, ops>>

(***************************************************************************)
(* Client c and message m: c names the message it fetched.                 *)
(***************************************************************************)
Names(c, m) ==
    /\ cache[c] # None
    /\ cache[c].message = m
    /\ cache[c].folder = msg[m].folder
    /\ cache[c].uid = msg[m].uid

Next ==
    \/ \E m \in Messages, f \in Folders, seen \in BOOLEAN : Persist(m, f, seen)
    \/ \E m \in Messages, op \in {"add", "del", "set"}, F \in SUBSET Flags :
         \/ SetFlags(m, op, F, 0)
         \/ \E c \in Clients : Names(c, m) /\ SetFlags(m, op, F, cache[c].modseq)
    \/ \E f \in Folders, S \in SUBSET Messages : Expunge(f, S)
    \/ \E m \in Messages, f \in Folders : Move(m, f)
    \/ \E c \in Copiers, m \in Messages :
         \/ \E f \in Folders : CopyBegin(c, m, f)
         \/ CopyCommit(c, m)
    \/ \E c \in Copiers : CopyAbort(c)
    \/ \E f \in Folders : CreateFolder(f) \/ DeleteFolder(f)
    \/ \E r \in Filers : FileCommit(r) \/ \E m \in Messages : FileBegin(r, m)
    \/ \E c \in Clients, m \in Messages : Fetch(c, m)

Spec == Init /\ [][Next]_vars

-----------------------------------------------------------------------------
(***************************************************************************)
(* Properties                                                              *)
(***************************************************************************)

\* Every row and every pending read stays in its type.
TypeOK ==
    /\ folder \in [Folders -> FolderRow]
    /\ msg \in [Messages -> MessageRow]
    /\ used \in Nat
    /\ refs \in [Blobs -> Nat]
    /\ outbox \subseteq Messages
    /\ copying \in [Copiers -> CopyRead \cup {None}]
    /\ filing \in [Filers -> FilingRead \cup {None}]
    /\ cache \in [Clients -> Fetched \cup {None}]
    /\ raced \in BOOLEAN
    /\ ops \in Nat

\* The cached numbers are true: each folder row says how many messages the
\* folder has and how many are unread.  Only an operation that acted on a
\* stale read can make them drift.
CountersAreTrue ==
    ~raced => \A f \in Folders : Present(f) =>
                /\ folder[f].total = Cardinality(LiveIn(f))
                /\ folder[f].unread = Cardinality(UnreadIn(f))

\* What delivery, copies, expunges and folder deletions charge to and give
\* back to the quota adds up, whatever races.
QuotaIsTrue == used = Cardinality({m \in Messages : Live(m)})

\* A stored body is counted once per message row that points to it, expunged
\* rows included: they are recoverable until a sweep removes them.
ReferencesAreCounted ==
    \A b \in Blobs :
        refs[b] = Cardinality({m \in Messages :
                                 msg[m].state # "free" /\ msg[m].blob = b})

\* Inside a folder a UID names one message, and UIDs are below uid_next: the
\* database index alone does not guarantee it (migration 0001).
UidsAreUnique ==
    \A m, n \in Messages :
        /\ msg[m].state # "free" /\ msg[n].state # "free"
        /\ msg[m].folder = msg[n].folder
        => /\ msg[m].uid < folder[msg[m].folder].uidNext
           /\ m # n => msg[m].uid # msg[n].uid

\* A message that appears in a folder has a UID above every UID given there
\* before, even if the message that had it has left (RFC 3501 2.3.1.1).
UidsAreNotReused ==
    [][\A f \in Folders :
         /\ folder'[f].uidNext >= folder[f].uidNext
         /\ \A m \in Messages :
              /\ Live(m)' /\ msg'[m].folder = f
              /\ ~(m \in LiveIn(f) /\ msg'[m].uid = msg[m].uid)
              => msg'[m].uid >= folder[f].uidNext]_vars

\* What a client sees of a folder: UIDs and flags of its messages.
View(f) == {<<msg[m].uid, msg[m].flags>> : m \in LiveIn(f)}

\* An operation that changes what a client can observe raises the folder's
\* modseq; one that changes nothing does not (MailStore's second rule).  The
\* backfill acting on a stale read is the exception.
ModseqFollowsChanges ==
    [][\A f \in Folders : Present(f) /\ Present(f)' /\ ~raced' =>
         (View(f)' # View(f) <=> folder'[f].modseq > folder[f].modseq)]_vars

\* A message whose modseq is not above what a client fetched still has the
\* flags the client saw: UNCHANGEDSINCE cannot overwrite a change unseen.
CachedFlagsAreCurrent ==
    \A c \in Clients, m \in Messages :
        Names(c, m) /\ Live(m) /\ msg[m].modseq <= cache[c].modseq
            => msg[m].flags = cache[c].flags
=============================================================================
