-------------------------- MODULE InboundDelivery --------------------------
(***************************************************************************)
(* Mail arriving over SMTP: the sending servers that try and retry, the    *)
(* sessions of the MX listener, and the pipeline behind DATA (scan, report *)
(* ingestion, body store, rules, one transaction for all recipients,       *)
(* vacation replies, IDLE notifications, reply).  The queue's worker hands *)
(* local mail to the same pipeline, with no RCPT before it.                *)
(*                                                                         *)
(* A session is one goroutine; its steps are cut at every read or write    *)
(* others can see.  The sender may stop listening at any moment and the    *)
(* process may die; the pipeline does not notice the former (Handle runs   *)
(* on a background context).                                               *)
(*                                                                         *)
(* All mail comes from one correspondent, and each copy fills one unit of  *)
(* quota.  What scanners and rules decide is a choice.                     *)
(***************************************************************************)
EXTENDS Integers, FiniteSets

CONSTANTS
    Sessions,         \* what runs the pipeline: the MX listener's sessions
                      \* and, while they hand local mail over, the workers
    Mails,            \* messages other servers want to deliver, and
    Local,            \* among them those of local jobs and notices
    JobTo,            \* JobTo[m]: the one recipient of local job m
    Mailboxes,        \* mailboxes of this server
    Addresses,        \* envelope addresses
    Resolve,          \* Resolve[a]: the mailboxes address a leads to
    Direct,           \* the addresses that are a mailbox's own, not aliases
    ReportAddresses,  \* dmarc@ and tlsrpt@
    Folders,          \* Folders[b]: the folders mailbox b has
    Decisions,        \* what rules may decide: keep, file, discard, vacation
    Quota,            \* quota_bytes of every mailbox
    None,             \* no mail in a session
    MaxFaults,        \* bound: crashes, timeouts and failed writes
    MaxTries          \* bound: transactions

FolderNames == {"INBOX", "Junk", "Reports", "Filed"}

ASSUME InboundAssumption ==
    /\ IsFiniteSet(Sessions) /\ IsFiniteSet(Mails)
    /\ Local \subseteq Mails /\ JobTo \in [Local -> Addresses]
    /\ IsFiniteSet(Mailboxes) /\ IsFiniteSet(Addresses)
    /\ Resolve \in [Addresses -> SUBSET Mailboxes]
    /\ Direct \subseteq Addresses
    /\ \A a \in Direct : Cardinality(Resolve[a]) = 1
    /\ \A a, c \in Direct : Resolve[a] = Resolve[c] => a = c
    /\ ReportAddresses \subseteq Addresses
    /\ Folders \in [Mailboxes -> {F \in SUBSET FolderNames : "INBOX" \in F}]
    /\ Decisions \subseteq {"keep", "file", "discard", "vacation"}
    /\ Quota \in Nat \ {0}
    /\ None \notin Mails
    /\ MaxFaults \in Nat /\ MaxTries \in Nat

VARIABLES
    sess,       \* the SMTP sessions
    outcome,    \* what the sending server knows of each recipient
    tries,      \* transactions begun
    lost,       \* transactions whose end was missed (observation)
    used,       \* mailboxes.used_bytes
    unchecked,  \* of those, what a worker delivered (observation)
    copies,     \* rows per message, envelope address and mailbox
    discarded,  \* messages dropped by a mailbox's rules (observation)
    reports,    \* messages a report was read from
    log,        \* vacation_replies: mailboxes that told the correspondent
    told,       \* replies queued since the period began (observation)
    overlap,    \* two replies were decided at once (observation)
    box,        \* messages per mailbox and folder
    announced,  \* the count last announced to IDLE clients
    faults      \* faults so far

sender == <<outcome, tries, lost>>
store  == <<used, unchecked, copies, discarded, reports, box>>
vacation == <<log, told, overlap>>
vars == <<sess, sender, store, vacation, announced, faults>>

Idle == [pc |-> "idle", mail |-> None, rcpts |-> {}, folder |-> "INBOX",
         decision |-> [p \in Addresses \X Mailboxes |-> "keep"],
         replies |-> {}, sent |-> {}, counts |-> [b \in Mailboxes |-> 0],
         heard |-> TRUE]

Points == {"idle", "rcpt", "scan", "store", "rules", "persist", "reply",
           "record", "notify", "announce", "accept", "refuse", "defer"}

Init ==
    /\ sess = [s \in Sessions |-> Idle]
    /\ outcome = [m \in Mails |-> [a \in Addresses |-> "pending"]]
    /\ tries = 0
    /\ lost = [m \in Mails |-> 0]
    /\ used = [b \in Mailboxes |-> 0]
    /\ unchecked = [b \in Mailboxes |-> 0]
    /\ copies = [m \in Mails |-> [p \in Addresses \X Mailboxes |-> 0]]
    /\ discarded = {}
    /\ reports = {}
    /\ log = {}
    /\ told = [b \in Mailboxes |-> 0]
    /\ overlap = FALSE
    /\ box = [b \in Mailboxes |-> [f \in FolderNames |-> 0]]
    /\ announced = [b \in Mailboxes |-> [f \in FolderNames |-> 0]]
    /\ faults = 0

Goes(s, pc) == sess' = [sess EXCEPT ![s].pc = pc]

Faulty == faults < MaxFaults /\ faults' = faults + 1

(***************************************************************************)
(* session.recipients and recipientAddresses in lockstep: one entry per    *)
(* address and mailbox it leads to.                                        *)
(***************************************************************************)
Targets(s) ==
    {p \in sess[s].rcpts \X Mailboxes : p[2] \in Resolve[p[1]]}

Recipients(s) == {p[2] : p \in Targets(s)}

-----------------------------------------------------------------------------
(***************************************************************************)
(* A sending server opens a transaction for what is still undelivered.     *)
(***************************************************************************)
Pending(m) == {a \in Addresses : outcome[m][a] = "pending"}

Begins(s, m) ==
    /\ sess[s].pc = "idle"
    /\ \A t \in Sessions : sess[t].mail = m => ~sess[t].heard
    /\ tries < MaxTries
    /\ tries' = tries + 1
    /\ UNCHANGED <<outcome, lost, store, vacation, announced, faults>>

Mail(s, m) ==
    /\ m \notin Local
    /\ Pending(m) # {}
    /\ Begins(s, m)
    /\ sess' = [sess EXCEPT ![s] = [Idle EXCEPT !.pc = "rcpt", !.mail = m]]

(***************************************************************************)
(* The worker finds that a job's one recipient, or the sender a notice is  *)
(* for, is a mailbox here, and calls Handle itself: no quota is looked at. *)
(* A job whose worker died is tried again.                                 *)
(***************************************************************************)
HandOver(s, m, a) ==
    /\ m \in Local
    /\ a = JobTo[m] /\ a \in Pending(m) /\ Resolve[a] # {}
    /\ Begins(s, m)
    /\ sess' = [sess EXCEPT ![s] = [Idle EXCEPT !.pc = "scan", !.mail = m,
                                                !.rcpts = {a}]]

(***************************************************************************)
(* A worker, not a session of the MX listener, runs s.                     *)
(***************************************************************************)
ByWorker(s) == sess[s].mail \in Local

\* Mutant of HasRoom: the quota is not looked at.
RoomForAll(a) == TRUE

(***************************************************************************)
(* Every target of the address must be below its quota.                    *)
(***************************************************************************)
HasRoom(a) == \A b \in Resolve[a] : used[b] < Quota

(***************************************************************************)
(* RCPT TO: unknown is refused for good, full for now (as when the lookup  *)
(* fails: Data can follow without the address); an address already taken   *)
(* is not taken twice.                                                     *)
(***************************************************************************)
Rcpt(s, a) ==
    LET m == sess[s].mail IN
    /\ sess[s].pc = "rcpt"
    /\ a \in Pending(m) \ sess[s].rcpts
    /\ IF Resolve[a] = {}
       THEN outcome' = [outcome EXCEPT ![m][a] = "refused"] /\ UNCHANGED sess
       ELSE /\ HasRoom(a)
            /\ sess' = [sess EXCEPT ![s].rcpts = @ \cup {a}]
            /\ UNCHANGED outcome
    /\ UNCHANGED <<tries, lost, store, vacation, announced, faults>>

(***************************************************************************)
(* DATA follows when some recipient was taken; otherwise the sender ends   *)
(* the transaction and tries later.                                        *)
(***************************************************************************)
Data(s) ==
    /\ sess[s].pc = "rcpt"
    /\ IF sess[s].rcpts # {}
       THEN Goes(s, "scan")
       ELSE sess' = [sess EXCEPT ![s] = Idle]
    /\ UNCHANGED <<sender, store, vacation, announced, faults>>

(***************************************************************************)
(* Reports are recognised by the address they were sent to.                *)
(***************************************************************************)
IsReport(s) == sess[s].rcpts \cap ReportAddresses # {}

(***************************************************************************)
(* A report's row is keyed by the report's own identifier, so reading it   *)
(* again replaces it; one that cannot be read or stored is only filed.     *)
(***************************************************************************)
IngestReport(s) ==
    \/ IsReport(s) /\ reports' = reports \cup {sess[s].mail}
    \/ UNCHANGED reports

(***************************************************************************)
(* What the authenticator and the scanners may say: refuse (DMARC reject,  *)
(* virus, spam), defer (greylisted, or a scanner that cannot be reached    *)
(* and must be), or a folder.                                              *)
(***************************************************************************)
ScanResults == {"refuse", "defer", "INBOX", "Junk"}

Scan(s) ==
    /\ sess[s].pc = "scan"
    /\ \E v \in ScanResults :
         IF v \in {"refuse", "defer"}
         THEN Goes(s, v) /\ UNCHANGED reports
         ELSE /\ sess' = [sess EXCEPT ![s].pc = "store",
                     ![s].folder = IF IsReport(s) THEN "Reports" ELSE v]
              /\ IngestReport(s)
    /\ UNCHANGED <<sender, used, unchecked, copies, discarded, box, vacation,
                   announced, faults>>

StoreBlob(s) ==
    /\ sess[s].pc = "store"
    /\ \/ Goes(s, "rules") /\ UNCHANGED faults
       \/ Faulty /\ Goes(s, "defer")
    /\ UNCHANGED <<sender, store, vacation, announced>>

\* Mutant of ShouldReply: the log is not asked.
AlwaysReply(b) == TRUE

(***************************************************************************)
(* The correspondent has not been told within the period.                  *)
(***************************************************************************)
ShouldReply(b) == b \notin log

(***************************************************************************)
(* Each mailbox's rules decide about its copies; replies are decided here  *)
(* and sent later, and a discarded copy gets none.  A log that cannot be   *)
(* read lets the reply out.                                                *)
(***************************************************************************)
ApplyRules(s) ==
    /\ sess[s].pc = "rules"
    /\ \E d \in [Targets(s) -> Decisions], unread \in BOOLEAN :
         LET replies == {p \in Targets(s) :
                           d[p] = "vacation" /\ (unread \/ ShouldReply(p[2]))}
             dropped == {p \in Targets(s) : d[p] = "discard"}
         IN  /\ IF unread THEN Faulty ELSE UNCHANGED faults
             /\ sess' = [sess EXCEPT
                  ![s].pc = IF dropped = Targets(s) THEN "reply" ELSE "persist",
                  ![s].decision = [p \in Addresses \X Mailboxes |->
                                     IF p \in Targets(s) THEN d[p] ELSE "keep"],
                  ![s].replies = replies]
             /\ discarded' = discarded \cup {<<sess[s].mail, p>> : p \in dropped}
             /\ overlap' = (overlap \/ \E t \in Sessions \ {s} :
                              \E p \in replies, q \in sess[t].replies :
                                p[2] = q[2])
    /\ UNCHANGED <<sender, used, unchecked, copies, reports, box, log, told,
                   announced>>

(***************************************************************************)
(* The rules' folder, or the scan's; a folder the mailbox does not have    *)
(* becomes INBOX.                                                          *)
(***************************************************************************)
FiledIn(s, p) ==
    LET f == IF sess[s].decision[p] = "file" THEN "Filed" ELSE sess[s].folder
    IN  IF f \in Folders[p[2]] THEN f ELSE "INBOX"

Kept(s) == {p \in Targets(s) : sess[s].decision[p] # "discard"}

\* Mutant of Filed: a recipient named twice gets two copies.
FiledTwice(s, P) ==
    /\ copies' = [copies EXCEPT ![sess[s].mail] =
                    [p \in Addresses \X Mailboxes |->
                       IF p \in P THEN @[p] + 2 ELSE @[p]]]
    /\ UNCHANGED <<used, unchecked, box>>

(***************************************************************************)
(* The copies P of a session's message are rows now.                       *)
(***************************************************************************)
Filed(s, P) ==
    LET In(b, F) == Cardinality({p \in P : p[2] = b /\ FiledIn(s, p) \in F}) IN
    /\ copies' = [copies EXCEPT ![sess[s].mail] =
                    [p \in Addresses \X Mailboxes |->
                       IF p \in P THEN @[p] + 1 ELSE @[p]]]
    /\ used' = [b \in Mailboxes |-> used[b] + In(b, FolderNames)]
    /\ unchecked' = IF ByWorker(s)
                    THEN [b \in Mailboxes |-> unchecked[b] + In(b, FolderNames)]
                    ELSE unchecked
    /\ box' = [b \in Mailboxes |->
                 [f \in FolderNames |-> box[b][f] + In(b, {f})]]

\* Mutant of PersistFails: the rows are written outside the transaction.
PersistFailsLate(s) == Filed(s, Kept(s))

(***************************************************************************)
(* The transaction rolls back as a whole.                                  *)
(***************************************************************************)
PersistFails(s) == UNCHANGED <<used, unchecked, copies, box>>

(***************************************************************************)
(* PersistAll: one transaction for all recipients.  A commit whose answer  *)
(* is lost is an error to the code, though the rows are there.             *)
(***************************************************************************)
PersistAll(s) ==
    /\ sess[s].pc = "persist"
    /\ \/ Goes(s, "reply") /\ Filed(s, Kept(s)) /\ UNCHANGED <<lost, faults>>
       \/ Faulty /\ Goes(s, "defer") /\ PersistFails(s) /\ UNCHANGED lost
       \/ /\ Faulty /\ Goes(s, "defer") /\ Filed(s, Kept(s))
          /\ lost' = [lost EXCEPT ![sess[s].mail] = @ + 1]
    /\ UNCHANGED <<outcome, tries, discarded, reports, vacation, announced>>

(***************************************************************************)
(* sendVacationReplies: a reply is submitted from the envelope address,    *)
(* which has to be a mailbox's own, and recorded once it is queued.        *)
(***************************************************************************)
SendVacationReply(s, p) ==
    /\ sess[s].pc = "reply"
    /\ p \in sess[s].replies
    /\ \/ /\ p[1] \in Direct
          /\ told' = [told EXCEPT ![p[2]] = @ + 1]
          /\ sess' = [sess EXCEPT ![s].pc = "record", ![s].sent = {p}]
          /\ UNCHANGED faults
       \/ /\ IF p[1] \in Direct THEN Faulty ELSE UNCHANGED faults
          /\ sess' = [sess EXCEPT ![s].replies = @ \ {p}]
          /\ UNCHANGED told
    /\ UNCHANGED <<sender, store, log, overlap, announced>>

RecordReply(s) ==
    /\ sess[s].pc = "record"
    /\ \/ log' = log \cup {p[2] : p \in sess[s].sent} /\ UNCHANGED faults
       \/ Faulty /\ UNCHANGED log
    /\ sess' = [sess EXCEPT ![s].pc = "reply", ![s].sent = {},
                            ![s].replies = @ \ sess[s].sent]
    /\ UNCHANGED <<sender, store, told, overlap, announced>>

RepliesSent(s) ==
    /\ sess[s].pc = "reply"
    /\ sess[s].replies = {}
    /\ Goes(s, IF Kept(s) = {} THEN "accept" ELSE "notify")
    /\ UNCHANGED <<sender, store, vacation, announced, faults>>

(***************************************************************************)
(* The count of the folder the scan chose is read, if the mailbox has it,  *)
(* then announced to its IDLE clients (the recipients in one go).          *)
(***************************************************************************)
ReadCounts(s) ==
    /\ sess[s].pc = "notify"
    /\ sess' = [sess EXCEPT ![s].pc = "announce",
                            ![s].counts = [b \in Mailboxes |->
                                             box[b][sess[s].folder]]]
    /\ UNCHANGED <<sender, store, vacation, announced, faults>>

Notify(s) ==
    /\ sess[s].pc = "announce"
    /\ announced' = [b \in Mailboxes |->
         IF b \in Recipients(s) /\ sess[s].folder \in Folders[b]
         THEN [announced[b] EXCEPT ![sess[s].folder] = sess[s].counts[b]]
         ELSE announced[b]]
    /\ Goes(s, "accept")
    /\ UNCHANGED <<sender, store, vacation, faults>>

\* Mutant of Verdict: an internal failure is not told from success.
VerdictSwallowsErrors ==
    [accept |-> "accepted", refuse |-> "refused", defer |-> "accepted"]

(***************************************************************************)
(* The reply to DATA.  The sender hears it unless it has stopped           *)
(* listening, and the session is reset.  To a worker every error is the    *)
(* job's end.                                                              *)
(***************************************************************************)
Verdict == [accept |-> "accepted", refuse |-> "refused", defer |-> "pending"]

Answer(s) ==
    IF ByWorker(s) /\ sess[s].pc = "defer" THEN "refused"
    ELSE Verdict[sess[s].pc]

Reply(s) ==
    LET m == sess[s].mail IN
    /\ sess[s].pc \in DOMAIN Verdict
    /\ outcome' = IF sess[s].heard
                  THEN [outcome EXCEPT ![m] =
                          [a \in Addresses |->
                             IF a \in sess[s].rcpts
                             THEN Answer(s) ELSE @[a]]]
                  ELSE outcome
    /\ sess' = [sess EXCEPT ![s] = Idle]
    /\ UNCHANGED <<tries, lost, store, vacation, announced, faults>>

(***************************************************************************)
(* The sender gives up waiting, or the connection breaks; the session goes *)
(* on to its end.                                                          *)
(***************************************************************************)
SenderTimesOut(s) ==
    /\ ~ByWorker(s)
    /\ sess[s].pc \notin {"idle", "rcpt"}
    /\ sess[s].heard
    /\ Faulty
    /\ sess' = [sess EXCEPT ![s].heard = FALSE]
    /\ lost' = [lost EXCEPT ![sess[s].mail] = @ + 1]
    /\ UNCHANGED <<outcome, tries, store, vacation, announced>>

Crash ==
    /\ \E s \in Sessions : sess[s].pc # "idle"
    /\ Faulty
    /\ sess' = [s \in Sessions |-> Idle]
    /\ lost' = [m \in Mails |->
                  lost[m] + Cardinality({s \in Sessions :
                                           sess[s].mail = m /\ sess[s].heard})]
    /\ UNCHANGED <<outcome, tries, store, vacation, announced>>

(***************************************************************************)
(* The week of the vacation log is over for a mailbox.  For the count of   *)
(* replies per week to mean something it does not end between the decision *)
(* to reply and the reply.                                                 *)
(***************************************************************************)
PeriodEnds(b) ==
    /\ b \in log
    /\ \A s \in Sessions : \A p \in sess[s].replies : p[2] # b
    /\ log' = log \ {b}
    /\ told' = [told EXCEPT ![b] = 0]
    /\ UNCHANGED <<sess, sender, store, overlap, announced, faults>>

SessionStep(s) ==
    \/ (\E a \in Addresses : Rcpt(s, a)) \/ Data(s)
    \/ Scan(s) \/ StoreBlob(s) \/ ApplyRules(s) \/ PersistAll(s)
    \/ (\E p \in sess[s].replies : SendVacationReply(s, p)) \/ RecordReply(s)
    \/ RepliesSent(s) \/ ReadCounts(s) \/ Notify(s) \/ Reply(s)

Next ==
    \/ \E s \in Sessions :
         \/ SessionStep(s) \/ SenderTimesOut(s)
         \/ (\E m \in Mails : Mail(s, m))
         \/ (\E m \in Local, a \in Addresses : HandOver(s, m, a))
    \/ \E b \in Mailboxes : PeriodEnds(b)
    \/ Crash

Spec == Init /\ [][Next]_vars

-----------------------------------------------------------------------------
(***************************************************************************)
(* Properties                                                              *)
(***************************************************************************)

\* Sessions, rows and what the sender knows stay in their types.
TypeOK ==
    /\ sess \in [Sessions ->
         [pc: Points, mail: Mails \cup {None}, rcpts: SUBSET Addresses,
          folder: FolderNames, decision: [Addresses \X Mailboxes ->
                                            Decisions \cup {"keep"}],
          replies: SUBSET (Addresses \X Mailboxes),
          sent: SUBSET (Addresses \X Mailboxes),
          counts: [Mailboxes -> Nat], heard: BOOLEAN]]
    /\ \A s \in Sessions : sess[s].pc = "record" => sess[s].sent # {}
    /\ outcome \in [Mails -> [Addresses -> {"pending", "accepted", "refused"}]]
    /\ tries \in 0..MaxTries
    /\ lost \in [Mails -> Nat]
    /\ used \in [Mailboxes -> Nat] /\ unchecked \in [Mailboxes -> Nat]
    /\ copies \in [Mails -> [Addresses \X Mailboxes -> Nat]]
    /\ discarded \subseteq Mails \X (Addresses \X Mailboxes)
    /\ reports \subseteq Mails
    /\ log \subseteq Mailboxes
    /\ told \in [Mailboxes -> Nat]
    /\ overlap \in BOOLEAN
    /\ box \in [Mailboxes -> [FolderNames -> Nat]]
    /\ announced \in [Mailboxes -> [FolderNames -> Nat]]
    /\ faults \in 0..MaxFaults

\* 250 after DATA means the copy of every mailbox the address leads to is a
\* committed row, or that mailbox's own rules dropped it.
AcceptedIsStored ==
    \A m \in Mails, a \in Addresses :
        outcome[m][a] = "accepted" =>
            \A b \in Resolve[a] : copies[m][<<a, b>>] > 0
                                  \/ <<m, <<a, b>>>> \in discarded

\* A mailbox gets a message twice through one address only if the end of a
\* transaction was missed: a failed delivery leaves nothing behind
\* that its retry would double (PersistAll's all-or-nothing).
CopiesAreExplained ==
    \A m \in Mails, a \in Addresses, b \in Mailboxes :
        copies[m][<<a, b>>] <= 1 + lost[m]

\* A refused recipient has no copy, unless the end of an earlier transaction
\* was missed: the sender's own bounce is then true.
RefusedIsNotStored ==
    \A m \in Mails, a \in Addresses :
        outcome[m][a] = "refused" /\ lost[m] = 0 =>
            \A b \in Mailboxes : copies[m][<<a, b>>] = 0

\* The quota is checked at RCPT and charged after DATA; what can pass the
\* check before anything is charged is one copy per session and address.  A
\* worker's local mail passes no check, so it comes on top without a bound; but
\* it counts for everybody else's.
QuotaOverrunIsBounded ==
    \A b \in Mailboxes :
        used[b] < Quota + unchecked[b] +
                  Cardinality(Sessions) *
                  Cardinality({a \in Addresses : b \in Resolve[a]})

\* What the comments on QuotaLimit.Exceeds and Mailbox.RecordUsage call the
\* invariant of a mailbox.
UsedWithinQuota == \A b \in Mailboxes : used[b] <= Quota

\* The correspondent is told once per period, unless two of its messages
\* were decided at the same time or the log failed (it fails open).
ToldOnce ==
    ~overlap /\ faults = 0 => \A b \in Mailboxes : told[b] <= 1

\* What MailboxTrackerManager is for: once deliveries are over, an IDLE client
\* has been told the count of whatever folder mail arrived in.
IdleClientsAreCurrent ==
    (\A s \in Sessions : sess[s].pc = "idle") /\ faults = 0 =>
        \A b \in Mailboxes, f \in FolderNames :
            announced[b][f] = box[b][f]
=============================================================================
