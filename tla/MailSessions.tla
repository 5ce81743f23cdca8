---------------------------- MODULE MailSessions ----------------------------
(***************************************************************************)
(* The ways into one mailbox: IMAP and POP3 sessions and the webmail, all  *)
(* working on the same folders while mail arrives.                         *)
(*                                                                         *)
(* An IMAP command is a listing of the folder, then a transaction per      *)
(* change, then the announcement to the sessions that selected the folder: *)
(* each is a step.  The numbers a client uses are looked up in the fresh   *)
(* listing, not in what the client has been told.  A POP3 session works on *)
(* the listing made at PASS until QUIT.  POP3 and the webmail announce     *)
(* nothing.  The counters, modseqs and quota of the store are MailStore's. *)
(*                                                                         *)
(* Of the flags only \Deleted matters here.  go-imap's tracker and the     *)
(* client at the other end are external: a client knows a message by the   *)
(* number at which it last saw it.                                         *)
(***************************************************************************)
EXTENDS Naturals, SequencesExt

CONSTANTS
    Sessions,    \* connections
    Messages,    \* the messages, by what they say
    Arrived,     \* those in the inbox at the start
    Inbox, Trash, Own,   \* two standard folders and one the user made
    None,        \* no folder selected
    Selectable,  \* bound: the folders IMAP clients open
    Targets,     \* bound: the folders they copy and move into
    Criteria,    \* bound: what clients search for
    MaxOps,      \* bound: commands that change the store
    MaxFaults    \* bound: statements that fail

ASSUME SessionsAssumption ==
    /\ IsFiniteSet(Sessions)
    /\ Arrived \in Seq(Messages)
    /\ \A i, j \in DOMAIN Arrived : Arrived[i] = Arrived[j] => i = j
    /\ None \notin {Inbox, Trash, Own}
    /\ Selectable \cup Targets \subseteq {Inbox, Trash, Own}
    /\ MaxOps \in Nat /\ MaxFaults \in Nat

VARIABLES
    box,       \* the live rows of each folder, by UID
    uidNext,   \* folders.uid_next
    present,   \* the folders there are
    sess,      \* what each connection keeps, and what its client knows
    ops,       \* commands so far
    faults,    \* failed statements so far
    arrived,   \* messages that have been in the mailbox (observation)
    asked,     \* messages somebody asked to remove (observation)
    doubled,   \* messages with a reason to be in two places (observation)
    disturbed, \* sessions whose folder lost a row, or was said to (observation)
    slips,     \* sessions whose number hit another message (observation)
    mistaken   \* the messages so marked \Deleted (observation)

seen == <<arrived, asked, doubled, disturbed, slips, mistaken>>
vars == <<box, uidNext, present, sess, ops, faults, seen>>

Folders == {Inbox, Trash, Own}

Row == [msg: Messages, deleted: BOOLEAN]

(***************************************************************************)
(* What a client knows: at number n it saw the message msg, under uid.     *)
(***************************************************************************)
Entry == [n: Nat, uid: Nat, msg: Messages]

(***************************************************************************)
(* The command at hand: the entry its client meant and whether by UID, the *)
(* UIDs and numbers the listing gave, the folder it looked up; what COPY   *)
(* has yet to copy; the messages a MOVE has copied, under uids, and not    *)
(* yet removed.                                                            *)
(***************************************************************************)
NoWork == [meant |-> {}, byUid |-> FALSE, uids |-> {}, nums |-> {},
           dest |-> None, on |-> FALSE, move |-> FALSE, left |-> {},
           moving |-> {}]

Work == [meant: SUBSET Entry, byUid: BOOLEAN, uids: SUBSET Nat,
         nums: SUBSET Nat, dest: Folders \cup {None}, on: BOOLEAN,
         move: BOOLEAN, left: SUBSET Nat, moving: SUBSET Messages]

PC == {"ready", "selecting", "store", "answer", "copy", "moveRead", "expunge",
       "announce"}

(***************************************************************************)
(* view: what the client knows; queue: what its tracker has yet to tell    *)
(* it; marks: what a POP3 client deleted; work: the command.               *)
(***************************************************************************)
NewConn == [proto |-> "auth", sel |-> None, view |-> {}, queue |-> <<>>,
            marks |-> {}, pc |-> "ready", work |-> NoWork]

Conn == [proto: {"auth", "imap", "pop3"}, sel: Folders \cup {None},
         view: SUBSET Entry, queue: Seq(SUBSET Nat), marks: SUBSET Entry,
         pc: PC, work: Work]

AtStart(f) == IF f = Inbox THEN Len(Arrived) ELSE 0

Init ==
    /\ box = [f \in Folders |->
                [i \in 1..AtStart(f) |->
                    [msg |-> Arrived[i], deleted |-> FALSE]]]
    /\ uidNext = [f \in Folders |-> AtStart(f) + 1]
    /\ present = Folders
    /\ sess = [s \in Sessions |-> NewConn]
    /\ ops = 0 /\ faults = 0
    /\ arrived = ToSet(Arrived)
    /\ asked = {} /\ doubled = {} /\ disturbed = {} /\ slips = {}
    /\ mistaken = {}

Counted == ops < MaxOps /\ ops' = ops + 1

Fault == faults < MaxFaults /\ faults' = faults + 1

\* Mutant of Number: newest first, as the webmail's list is.
NumberFromNewest(rows, u) == Cardinality({x \in DOMAIN rows : x >= u})

(***************************************************************************)
(* MailStore.Messages lists the rows not expunged, ORDER BY uid: the place *)
(* of a row in the listing is its number.                                  *)
(***************************************************************************)
Number(rows, u) == Cardinality({x \in DOMAIN rows : x <= u})

Listed(f, uids) ==
    {[n |-> Number(box[f], u), uid |-> u, msg |-> box[f][u].msg] : u \in uids}

Without(rows, uids) == [u \in DOMAIN rows \ uids |-> rows[u]]

(***************************************************************************)
(* The rows after one goes to the end of the folder, under a new UID.      *)
(***************************************************************************)
Appended(rows, uid, r) ==
    [u \in DOMAIN rows \cup {uid} |-> IF u = uid THEN r ELSE rows[u]]

Copies(m) ==
    {c \in UNION {{f} \X DOMAIN box[f] : f \in Folders} :
        box[c[1]][c[2]].msg = m}

Watchers(f) == {s \in Sessions : sess[s].proto = "imap" /\ sess[s].sel = f}

Disturb(f) == disturbed' = disturbed \cup Watchers(f)

-----------------------------------------------------------------------------
(***************************************************************************)
(* What a client makes of an update: the numbers that go, as the listing   *)
(* had them, and none when all it says is EXISTS.  Those of one command    *)
(* are written highest first, so that each still counts as in the listing. *)
(***************************************************************************)
Told(view, nums) ==
    {[v EXCEPT !.n = @ - Cardinality({k \in nums : k < v.n})] :
        v \in {w \in view : w.n \notin nums}}

ToldAll(view, updates) ==
    LET after[i \in 0..Len(updates)] ==
            IF i = 0 THEN view ELSE Told(after[i - 1], updates[i])
    IN  after[Len(updates)]

(***************************************************************************)
(* Poll: the tracker writes what is queued; during FETCH and STORE it      *)
(* stops at the first EXPUNGE.                                             *)
(***************************************************************************)
Polled(c, allowExpunge) ==
    LET held == {i \in DOMAIN c.queue : c.queue[i] # {}}
        stop == IF allowExpunge \/ held = {} THEN Len(c.queue)
                                             ELSE Min(held) - 1
    IN  [c EXCEPT !.view = ToldAll(@, SubSeq(c.queue, 1, stop)),
                  !.queue = SubSeq(@, stop + 1, Len(@)),
                  !.pc = "ready", !.work = NoWork]

(***************************************************************************)
(* The connections after the trackers of those in f have queued an update. *)
(***************************************************************************)
Queued(c, nums) == [c EXCEPT !.queue = Append(@, nums)]

Announced(f, nums) ==
    [t \in Sessions |->
        IF t \in Watchers(f) THEN Queued(sess[t], nums) ELSE sess[t]]

-----------------------------------------------------------------------------
(***************************************************************************)
(* Login: the mailbox's password or an app password with the scope.  POP3's*)
(* PASS lists the inbox at once.                                           *)
(***************************************************************************)
LoginImap(s) ==
    /\ sess[s].proto = "auth"
    /\ sess' = [sess EXCEPT ![s] = [NewConn EXCEPT !.proto = "imap"]]
    /\ UNCHANGED <<box, uidNext, present, ops, faults, seen>>

LoginPop3(s) ==
    /\ sess[s].proto = "auth"
    /\ sess' = [sess EXCEPT ![s] =
                  [NewConn EXCEPT !.proto = "pop3",
                                  !.view = Listed(Inbox, DOMAIN box[Inbox])]]
    /\ UNCHANGED <<box, uidNext, present, ops, faults, seen>>

(***************************************************************************)
(* The connection ends without QUIT, or LOGOUT: nothing is removed.        *)
(***************************************************************************)
Close(s) ==
    /\ sess[s].proto # "auth" /\ sess[s].pc = "ready"
    /\ sess' = [sess EXCEPT ![s] = NewConn]
    /\ disturbed' = disturbed \ {s}
    /\ slips' = slips \ {s}
    /\ UNCHANGED <<box, uidNext, present, ops, faults, arrived, asked,
                   doubled, mistaken>>

Ready(s, proto) == sess[s].proto = proto /\ sess[s].pc = "ready"

Busy(s, pc, work) == [sess EXCEPT ![s].pc = pc, ![s].work = work]

(***************************************************************************)
(* SELECT reads the folder, then registers with its tracker.             *)
(***************************************************************************)
SelectRead(s) ==
    /\ Ready(s, "imap")
    /\ \E f \in (present \cap Selectable) \ {sess[s].sel} :
         sess' = Busy(s, "selecting", [NoWork EXCEPT !.dest = f])
    /\ UNCHANGED <<box, uidNext, present, ops, faults, seen>>

SelectEnter(s) ==
    /\ sess[s].pc = "selecting"
    /\ sess' = [sess EXCEPT
                  ![s].sel = sess[s].work.dest,
                  ![s].view = {}, ![s].queue = <<>>,
                  ![s].pc = "ready", ![s].work = NoWork]
    /\ disturbed' = disturbed \ {s}
    /\ slips' = slips \ {s}
    /\ UNCHANGED <<box, uidNext, present, ops, faults, arrived, asked,
                   doubled, mistaken>>

(***************************************************************************)
(* What the client knows once it was told which rows some numbers have.    *)
(***************************************************************************)
Learned(view, told) ==
    told \cup {v \in view : \A w \in told : w.n # v.n}

Answer(s, uids) ==
    LET view == Learned(sess[s].view, Listed(sess[s].sel, uids))
    IN  sess' = [sess EXCEPT ![s] = Polled([@ EXCEPT !.view = view], FALSE)]

(***************************************************************************)
(* FETCH 1:* tells the client what is at each number now.                  *)
(***************************************************************************)
Fetch(s) ==
    /\ Ready(s, "imap") /\ sess[s].sel # None
    /\ Answer(s, DOMAIN box[sess[s].sel])
    /\ UNCHANGED <<box, uidNext, present, ops, faults, seen>>

(***************************************************************************)
(* matchCriteria: a set of flag states and, from headers and text, a set   *)
(* of messages.                                                            *)
(***************************************************************************)
MatchCriteria(c, r) == r.msg \in c.text /\ r.deleted \in c.flag

(***************************************************************************)
(* SEARCH answers with the numbers that match in a listing of its own.     *)
(***************************************************************************)
Search(s) ==
    /\ Ready(s, "imap") /\ sess[s].sel # None
    /\ \E c \in Criteria :
         LET rows == box[sess[s].sel]
             uids == {u \in DOMAIN rows : MatchCriteria(c, rows[u])}
         IN  uids # {} /\ Answer(s, uids)
    /\ UNCHANGED <<box, uidNext, present, ops, faults, seen>>

(***************************************************************************)
(* NOOP and IDLE.                                                          *)
(***************************************************************************)
Poll(s) ==
    /\ Ready(s, "imap") /\ sess[s].queue # <<>>
    /\ sess' = [sess EXCEPT ![s] = Polled(@, TRUE)]
    /\ UNCHANGED <<box, uidNext, present, ops, faults, seen>>

(***************************************************************************)
(* numSetIter: the rows the client's number or UID stands for.             *)
(***************************************************************************)
Matched(s, v, byUid) ==
    LET rows == box[sess[s].sel]
    IN  {u \in DOMAIN rows : IF byUid THEN u = v.uid
                                      ELSE Number(rows, u) = v.n}

(***************************************************************************)
(* The client means the message it knows as v.                             *)
(***************************************************************************)
Means(s, v) ==
    /\ Ready(s, "imap") /\ sess[s].sel # None
    /\ v \in sess[s].view

Missed(s, v, uids) ==
    {u \in uids : u # v.uid \/ box[sess[s].sel][u].msg # v.msg}

SlipsAt(s, named, byUid) ==
    slips' = IF \A v \in named : Missed(s, v, Matched(s, v, byUid)) = {}
             THEN slips ELSE slips \cup {s}

(***************************************************************************)
(* STORE +FLAGS or -FLAGS (\Deleted) of one message: the listing, then the *)
(* transaction, then, unless .SILENT, a FETCH of what the client named.    *)
(* The flags other sessions are told of (NotifyMessageFlags) change        *)
(* nothing that is kept of them here.                                      *)
(***************************************************************************)
StoreRead(s) ==
    /\ Counted
    /\ \E v \in sess[s].view, byUid \in BOOLEAN, on \in BOOLEAN :
         LET uids == Matched(s, v, byUid) IN
         /\ Means(s, v)
         /\ sess' = Busy(s, "store",
                         [NoWork EXCEPT !.meant = {v}, !.byUid = byUid,
                                        !.uids = uids, !.on = on])
         /\ asked' = IF on THEN asked \cup {v.msg} ELSE asked
         /\ SlipsAt(s, {v}, byUid)
         /\ mistaken' =
              IF on THEN mistaken \cup {box[sess[s].sel][u].msg :
                                           u \in Missed(s, v, uids)}
                    ELSE mistaken
    /\ UNCHANGED <<box, uidNext, present, faults, arrived, doubled, disturbed>>

SetFlags(rows, uids, on) ==
    [u \in DOMAIN rows |->
        IF u \in uids THEN [rows[u] EXCEPT !.deleted = on] ELSE rows[u]]

StoreWrite(s) ==
    LET work == sess[s].work IN
    /\ sess[s].pc = "store"
    /\ \/ /\ box' = [box EXCEPT ![sess[s].sel] = SetFlags(@, work.uids, work.on)]
          /\ \/ sess' = [sess EXCEPT ![s] = Polled(@, FALSE)]
             \/ sess' = Busy(s, "answer", work)
          /\ UNCHANGED faults
       \/ /\ Fault
          /\ sess' = [sess EXCEPT ![s] = Polled(@, FALSE)]
          /\ UNCHANGED box
    /\ UNCHANGED <<uidNext, present, ops, seen>>

StoreAnswer(s) ==
    /\ sess[s].pc = "answer"
    /\ \E v \in sess[s].work.meant :
         Answer(s, Matched(s, v, sess[s].work.byUid))
    /\ UNCHANGED <<box, uidNext, present, ops, faults, seen>>

-----------------------------------------------------------------------------
\* Mutant of Chosen: MOVE expunges as EXPUNGE does, by the flag.
ChosenByFlag(f, uids, requireDeleted) ==
    {u \in DOMAIN box[f] \cap uids : box[f][u].deleted}

(***************************************************************************)
(* expungeUIDs, the choice: the rows to remove.                            *)
(***************************************************************************)
Chosen(f, uids, requireDeleted) ==
    {u \in DOMAIN box[f] \cap uids : requireDeleted => box[f][u].deleted}

ToExpunge(f, uids, moving) ==
    [NoWork EXCEPT !.moving = moving, !.uids = uids,
                   !.nums = {Number(box[f], u) : u \in uids}]

(***************************************************************************)
(* EXPUNGE and UID EXPUNGE.                                                *)
(***************************************************************************)
ExpungeRead(s) ==
    /\ Counted
    /\ Ready(s, "imap") /\ sess[s].sel # None
    /\ \E named \in SUBSET DOMAIN box[sess[s].sel] :
         LET uids == Chosen(sess[s].sel, named, TRUE)
         IN  /\ uids # {}
             /\ sess' = Busy(s, "expunge", ToExpunge(sess[s].sel, uids, {}))
    /\ UNCHANGED <<box, uidNext, present, faults, seen>>

\* Mutant of StillToGo: the numbers of the listing, not the UIDs, are removed.
GoneByNumber(s) ==
    {u \in DOMAIN box[sess[s].sel] :
        Number(box[sess[s].sel], u) \in sess[s].work.nums}

(***************************************************************************)
(* The UIDs the transaction removes; those already gone are skipped.       *)
(***************************************************************************)
StillToGo(s) == sess[s].work.uids

(***************************************************************************)
(* What a MOVE copied and another has taken from the source since.         *)
(***************************************************************************)
LeftBehind(s) ==
    LET f == sess[s].sel
    IN  {m \in sess[s].work.moving :
            \A u \in DOMAIN box[f] \cap sess[s].work.uids : box[f][u].msg # m}

ExpungeWrite(s) ==
    LET f    == sess[s].sel
        work == sess[s].work
    IN  /\ sess[s].pc = "expunge"
        /\ \/ /\ box' = [box EXCEPT ![f] = Without(@, StillToGo(s))]
              /\ sess' = Busy(s, "announce", [work EXCEPT !.moving = {}])
              /\ Disturb(f)
              /\ doubled' = doubled \cup LeftBehind(s)
              /\ UNCHANGED faults
           \/ /\ Fault
              /\ sess' = [sess EXCEPT ![s] = Polled(@, TRUE)]
              /\ doubled' = doubled \cup work.moving
              /\ UNCHANGED <<box, disturbed>>
        /\ UNCHANGED <<uidNext, present, ops, arrived, asked, slips, mistaken>>

(***************************************************************************)
(* NotifyExpunge tells every session of the folder, this one too, the      *)
(* numbers of the listing; this one is also answered with them.            *)
(***************************************************************************)
Announce(s) ==
    LET nums == sess[s].work.nums
        all  == Announced(sess[s].sel, nums)
        told == Told(all[s].view, nums)
    IN
    /\ sess[s].pc = "announce"
    /\ sess' = [all EXCEPT ![s] = Polled([all[s] EXCEPT !.view = told], TRUE)]
    /\ Disturb(sess[s].sel)
    /\ UNCHANGED <<box, uidNext, present, ops, faults, arrived, asked, doubled,
                   slips, mistaken>>

-----------------------------------------------------------------------------
(***************************************************************************)
(* COPY and MOVE look up the destination and list the source; what the     *)
(* client named is then copied by UID, a transaction per message.          *)
(***************************************************************************)
CopyRead(s) ==
    /\ Counted
    /\ \E named \in SUBSET sess[s].view, byUid \in BOOLEAN, move \in BOOLEAN,
          g \in present \cap Targets :
         LET uids == UNION {Matched(s, v, byUid) : v \in named} IN
         /\ \A v \in named : Means(s, v)
         /\ uids # {}
         /\ sess' = Busy(s, "copy", [NoWork EXCEPT !.left = uids, !.dest = g,
                                                   !.move = move])
         /\ SlipsAt(s, named, byUid)
    /\ UNCHANGED <<box, uidNext, present, faults, arrived, asked, doubled,
                   disturbed, mistaken>>

(***************************************************************************)
(* The UID whose turn it is.                                               *)
(***************************************************************************)
Due(s) == {u \in sess[s].work.left : \A v \in sess[s].work.left : u <= v}

(***************************************************************************)
(* A MOVE notes what it copied.                                            *)
(***************************************************************************)
Copied(work, u, m) ==
    [work EXCEPT !.left = @ \ {u},
                 !.uids = IF work.move THEN @ \cup {u} ELSE @,
                 !.moving = IF work.move THEN @ \cup {m} ELSE @]

(***************************************************************************)
(* copyOne and, after the last one, the announcement.                      *)
(***************************************************************************)
CopyWrite(s) ==
    LET f    == sess[s].sel
        work == sess[s].work
        g    == work.dest
    IN  /\ sess[s].pc = "copy"
        /\ g \in present
        /\ \E u \in Due(s) \cap DOMAIN box[f] :
             LET m    == box[f][u].msg
                 last == work.left = {u}
                 all  == IF last THEN Announced(g, {}) ELSE sess
                 on   == [all[s] EXCEPT !.pc = IF last THEN "moveRead" ELSE @,
                                        !.work = Copied(work, u, m)]
             IN
             /\ box' = [box EXCEPT ![g] = Appended(@, uidNext[g], box[f][u])]
             /\ sess' = [all EXCEPT ![s] = IF last /\ ~work.move
                                           THEN Polled(all[s], TRUE) ELSE on]
             /\ doubled' = IF work.move /\ m \notin work.moving
                           THEN doubled ELSE doubled \cup {m}
        /\ uidNext' = [uidNext EXCEPT ![g] = @ + 1]
        /\ UNCHANGED <<present, ops, faults, arrived, asked, disturbed, slips,
                       mistaken>>

(***************************************************************************)
(* A copy fails: its message or the destination is gone, or a statement    *)
(* failed.  The copies made before it stay, and the source is left alone.  *)
(***************************************************************************)
CopyFails(s) ==
    /\ sess[s].pc = "copy"
    /\ \/ /\ \/ sess[s].work.dest \notin present
             \/ ~ Due(s) \subseteq DOMAIN box[sess[s].sel]
          /\ UNCHANGED faults
       \/ Fault
    /\ sess' = [sess EXCEPT ![s] = Polled(@, TRUE)]
    /\ doubled' = doubled \cup sess[s].work.moving
    /\ UNCHANGED <<box, uidNext, present, ops, arrived, asked, disturbed, slips,
                   mistaken>>

(***************************************************************************)
(* MOVE, second half: the source is listed again and what was copied goes. *)
(***************************************************************************)
MoveRead(s) ==
    LET f    == sess[s].sel
        work == sess[s].work
        uids == Chosen(f, work.uids, FALSE)
    IN  /\ sess[s].pc = "moveRead"
        /\ \/ /\ uids # {}
              /\ sess' = Busy(s, "expunge", ToExpunge(f, uids, work.moving))
              /\ UNCHANGED <<faults, doubled>>
           \/ /\ uids = {}
              /\ sess' = [sess EXCEPT ![s] = Polled(@, TRUE)]
              /\ doubled' = IF work.uids \cap DOMAIN box[f] = {}
                            THEN doubled \cup work.moving ELSE doubled
              /\ UNCHANGED faults
           \/ /\ Fault
              /\ sess' = [sess EXCEPT ![s] = Polled(@, TRUE)]
              /\ doubled' = doubled \cup work.moving
        /\ UNCHANGED <<box, uidNext, present, ops, arrived, asked, disturbed,
                       slips, mistaken>>

-----------------------------------------------------------------------------
(***************************************************************************)
(* What STAT, LIST, UIDL, RETR and TOP still know.                         *)
(***************************************************************************)
Shown(s) == sess[s].view \ sess[s].marks

(***************************************************************************)
(* POP3.  DELE marks a number of the listing made at PASS, RSET takes all  *)
(* marks off, QUIT removes what is marked and says +OK even if it failed.  *)
(***************************************************************************)
Dele(s) ==
    /\ Ready(s, "pop3")
    /\ \E v \in Shown(s) :
         sess' = [sess EXCEPT ![s].marks = @ \cup {v}]
    /\ UNCHANGED <<box, uidNext, present, ops, faults, seen>>

Rset(s) ==
    /\ Ready(s, "pop3") /\ sess[s].marks # {}
    /\ sess' = [sess EXCEPT ![s].marks = {}]
    /\ UNCHANGED <<box, uidNext, present, ops, faults, seen>>

Marked(s) == {v.uid : v \in sess[s].marks}

Quit(s) ==
    /\ Ready(s, "pop3")
    /\ Counted
    /\ asked' = asked \cup {v.msg : v \in sess[s].marks}
    /\ \/ /\ box' = [box EXCEPT ![Inbox] = Without(@, Marked(s))]
          /\ Disturb(Inbox)
          /\ UNCHANGED faults
       \/ Fault /\ UNCHANGED <<box, disturbed>>
    /\ sess' = [sess EXCEPT ![s] = NewConn]
    /\ UNCHANGED <<uidNext, present, arrived, doubled, slips, mistaken>>

-----------------------------------------------------------------------------
(***************************************************************************)
(* The webmail's requests.  moveInto resolves both folders by name and     *)
(* moves the row in one transaction.                                       *)
(***************************************************************************)
MoveInto(f, u, g) ==
    /\ box' = [box EXCEPT ![f] = Without(@, {u}),
                          ![g] = Appended(@, uidNext[g], box[f][u])]
    /\ uidNext' = [uidNext EXCEPT ![g] = @ + 1]
    /\ Disturb(f)

WebMove(f) ==
    /\ Counted
    /\ \E g \in present \ {f}, u \in DOMAIN box[f] : MoveInto(f, u, g)
    /\ UNCHANGED <<present, sess, faults, arrived, asked, doubled, slips,
                   mistaken>>

(***************************************************************************)
(* Deleting moves to Trash; deleting in Trash removes.                     *)
(***************************************************************************)
WebDelete(f) ==
    /\ Counted
    /\ \E u \in DOMAIN box[f] :
         \/ /\ f # Trash
            /\ MoveInto(f, u, Trash)
            /\ UNCHANGED asked
         \/ /\ f = Trash
            /\ box' = [box EXCEPT ![f] = Without(@, {u})]
            /\ Disturb(f)
            /\ asked' = asked \cup {box[f][u].msg}
            /\ UNCHANGED uidNext
    /\ UNCHANGED <<present, sess, faults, arrived, doubled, slips, mistaken>>

(***************************************************************************)
(* Deleting a folder removes the mail in it.                               *)
(***************************************************************************)
WebDeleteFolder ==
    /\ Counted
    /\ Own \in present
    /\ present' = present \ {Own}
    /\ asked' = asked \cup {box[Own][u].msg : u \in DOMAIN box[Own]}
    /\ box' = [box EXCEPT ![Own] = Without(@, DOMAIN @)]
    /\ Disturb(Own)
    /\ UNCHANGED <<uidNext, sess, faults, arrived, doubled, slips, mistaken>>

(***************************************************************************)
(* A message arrives in the inbox and the sessions there are told.         *)
(***************************************************************************)
Deliver(m) ==
    /\ Counted
    /\ m \notin arrived
    /\ arrived' = arrived \cup {m}
    /\ box' = [box EXCEPT ![Inbox] = Appended(@, uidNext[Inbox],
                                         [msg |-> m, deleted |-> FALSE])]
    /\ uidNext' = [uidNext EXCEPT ![Inbox] = @ + 1]
    /\ sess' = Announced(Inbox, {})
    /\ UNCHANGED <<present, faults, asked, doubled, disturbed, slips, mistaken>>

ImapStep(s) ==
    \/ LoginImap(s) \/ SelectRead(s) \/ SelectEnter(s) \/ Fetch(s)
    \/ Search(s) \/ Poll(s)
    \/ StoreRead(s) \/ StoreWrite(s) \/ StoreAnswer(s)
    \/ ExpungeRead(s) \/ ExpungeWrite(s) \/ Announce(s)
    \/ CopyRead(s) \/ CopyWrite(s) \/ CopyFails(s) \/ MoveRead(s)

Pop3Step(s) == LoginPop3(s) \/ Dele(s) \/ Rset(s) \/ Quit(s)

WebmailStep ==
    (\E f \in present : WebMove(f) \/ WebDelete(f)) \/ WebDeleteFolder

Next ==
    \/ \E s \in Sessions : ImapStep(s) \/ Pop3Step(s) \/ Close(s)
    \/ WebmailStep
    \/ \E m \in Messages : Deliver(m)

Spec == Init /\ [][Next]_vars

-----------------------------------------------------------------------------
(***************************************************************************)
(* Properties                                                              *)
(***************************************************************************)

\* What the store and the connections hold; a folder's UIDs are below its
\* uid_next, and the messages in it have arrived.
TypeOK ==
    /\ box \in [Folders -> {box[f] : f \in Folders}]
    /\ uidNext \in [Folders -> Nat \ {0}]
    /\ \A f \in Folders :
         /\ box[f] \in [DOMAIN box[f] -> Row]
         /\ \A u \in DOMAIN box[f] : /\ u \in 1..uidNext[f] - 1
                                     /\ box[f][u].msg \in arrived
    /\ present \subseteq Folders
    /\ sess \in [Sessions -> Conn]
    /\ ops \in Nat /\ faults \in Nat
    /\ arrived \cup asked \cup doubled \cup mistaken \subseteq Messages
    /\ disturbed \cup slips \subseteq Sessions

\* A message that was in the mailbox and is now in none of its folders was
\* removed at a client's wish: flagged \Deleted, marked in a POP3 session that
\* said QUIT, deleted in Trash, or in a folder that was deleted.  Nothing a
\* MOVE does, no failed statement and no command that overlaps with another
\* loses one.  The exception is a message that a number meant for another.
LostWasAsked ==
    \A m \in arrived : Copies(m) = {} => m \in asked \cup mistaken

\* A number in a STORE, COPY or MOVE names the message the client saw at that
\* number, however the commands of others interleave, unless since SELECT the
\* folder has lost a message or was announced to have: numSetIter counts in a
\* fresh listing, and the EXPUNGE that would tell the client may still be
\* queued, come twice (to the session that asked), never (POP3, the webmail),
\* or after a SELECT that had already left the message out.
NumbersMeanWhatWasSeen == slips \subseteq disturbed

\* MOVE, a transaction per copy and one for the expunge, leaves a message in
\* two places only when a statement of it failed; when the destination or a
\* later message of the same MOVE was gone, which ends it before the expunge;
\* when another client took the message from under it in between; or when one
\* MOVE was given two rows of it.
MovedNotDoubled ==
    \A m \in Messages \ doubled :
        (\A s \in Sessions : m \notin sess[s].work.moving)
            => Cardinality(Copies(m)) <= 1
=============================================================================
