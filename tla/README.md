# LambdaMail in TLA+

A TLA+ development of the parts of LambdaMail whose correctness depends on the
order in which things happen: the outbound queue, the mail store, what feeds them
and what reads and changes them.  Modules are translated from the code under `src/`; `PROJECT.json` maps
each definition to the lines it stands for.

## 1. The system

LambdaMail is a mail server in two runtimes.  **protocols** (Go) runs every
protocol listener, the delivery worker, certificates, DNS reconciliation and the
webmail's mail API.  **auth** (TypeScript) runs logins, sessions, second factor
and the admin console.  Postgres holds all state, the queue included; several
processes and many goroutines share it, and their only coordination is row locks,
single-statement updates and a few leases.

| Component | State it keeps | Operations | Hard because |
| :-- | :-- | :-- | :-- |
| Outbound queue | `outbound_jobs` | enqueue, claim, attempt, write back, DSN, operator retry/cancel | leases expire under slow workers; write-backs are unconditional; crashes between delivery and record |
| Mail store | `folders`, `email_messages`, `message_flags`, `mailboxes.used_bytes`, `message_blobs.ref_count` | persist, flags, expunge, move, copy, folder create/delete, report filing | cached counters, UIDs and modseqs kept by many writers under partial locking |
| Inbound pipeline | none of its own; blobs, store, outbox | RCPT, scan, rules, persist, notify, vacation | checks at RCPT used at DATA; one transaction for several recipients |
| Submission | session, queue | authenticate, limit, sign, enqueue, Sent copy | check-then-act limit; partial enqueue |
| Vacation | `vacation_replies` | decide, send, record | decision and record apart |
| Outbox relay, event hub | `domain_events_outbox`, subscribers | fetch, publish, mark | two relays, crash after publish, full subscriber buffers |
| IMAP / POP3 sessions, webmail folders | per-session view, trackers | select, fetch, search, store, copy, move, expunge, idle; dele, quit; move, delete, remove folder | other sessions change the mailbox under a session's numbering |
| ManageSieve / Sieve | scripts, the active script | put, activate, rename, delete, save; parse, evaluate | one active script at a time, checked in one statement and written in another; a parser by hand |
| ACME, DANE | certificates, pending key, TLSA records | issue, publish, wait, swap | the published record must match the served key at every instant |
| DNS reconciliation, DKIM | expected and actual records, keys | diff, apply, rotate | half-applied changes, stale reads |
| TLS policy | policy cache | resolve DANE, MTA-STS | a policy that cannot be read is not the absence of one |
| Auth | sessions, MFA, recovery codes, lockout | login, verify, refresh, revoke | concurrent attempts against counters and one-time codes |

Properties that make each part correct: a queue that never loses a message and
can account for each one it sends twice; a store whose cached numbers are those
of its rows and whose UIDs are never reused; an SMTP answer that is true of what
was stored; a sender who is told; a served key that every validator accepts; a
zone that comes to what is wanted without losing what others put there; a page
that shows what arrived; a client whose commands touch the messages it meant;
rules that run as written and as last chosen; a demand for TLS that is honoured,
and let go of when it is withdrawn.

The parts meet in Postgres.  Submission and the pipeline's DSNs put rows in the
queue; the queue's worker hands local recipients to the inbound pipeline; the
pipeline writes the store and the outbox in one transaction; the relay of each
instance reads the outbox and pushes to the webmail's sockets; IMAP, POP3 and the
webmail call the store.  The certificate manager and the DNS reconciler write the
same zone, under names of their own.

## 2. Modules

| Module | Models | One step is |
| :-- | :-- | :-- |
| `RetrySchedule` | `CalculateNextBackoff` | a pure operator, in minutes |
| `JobLife` | what the queue promises of one message to one recipient | submitted, taken, lost track of, settled, reopened |
| `OutboundQueue` | rows of `outbound_jobs`, workers, operator | a claim, one delivery attempt at one host, one write-back, one DSN |
| `SecureDelivery` | `OutboundQueue` with the TLS policy in front of every host | as there, and one policy resolved, refused or applied |
| `MailStore` | the rows of one mailbox and every operation on them | a transaction; copy and report filing are a read and a write |
| `TlsaRollover` | `Manager.reconcile` with and without DANE | one DNS write, one database write, one issuance, one swap of the served certificate |
| `InboundDelivery` | MX sessions, the queue worker's local hand-over, `Handle`, vacation replies, IDLE notification | one call that can fail or be overtaken |
| `Submission` | SMTP submission and `Submit` | the limit check, signature and body, one enqueued recipient, the Sent copy, the answer |
| `Composer` | the compose page, `SaveDraft`, `Send` | one timer, click, request, server commit or answer |
| `MailEvents` | outbox relay, event hub, the list of the folder page | one fetch, one push, one mark, one request or answer |
| `DnsSync` | the DNS sync of one domain against the provider | one read, one provider call, one lookup |
| `MailSessions` | IMAP and POP3 connections and the webmail on one mailbox | one read, one transaction, one announcement, one poll |
| `SieveEngine` | the parser, the evaluation, the validator and the wildcard match | operators |
| `ManageSieve` | ManageSieve connections and the settings page on a mailbox's scripts | one check or one statement |
| `SieveScripts` | `ManageSieve` with the engine's check of a script, and the engine tried by itself | as there |

`MC*` modules hold the constants of the instances only; `*Proofs` modules hold the
theorems about the module they are named after and the invariants they rest on.
`OutboundQueueProofs` is about `SecureDelivery` too, `MailStoreProofs` about
`MailEvents`, and `AccessProofs` about `MailSessions` and `ManageSieve`.

**Composition and refinement.**  `SecureDelivery` extends `OutboundQueue`: its
steps are the queue's, except that a host is dialled only under a resolved policy
and that a crash empties the policy cache, so that the retry table, the hosts tried
in turn and the ages of cached answers meet in one state space; that it implements
`OutboundQueue` is proved (`SecureImplementsQueue`).  `SieveScripts` extends
`ManageSieve` and `SieveEngine`.  `OutboundQueue` implements `JobLife`
(`ImplementsJobLife`, checked and proved): a job's state is read off its row, `taken` off the
destination, and `doubts` counts expired claims of live workers and answers lost
after the message was taken: a QUIT that failed, a commit of the local pipeline.  Other components that call each other take
their neighbour's answer as a choice among all it can give (`OutboundQueue` for the
pipeline's outcome, `InboundDelivery` for verdicts of scanners and rules), which is
weaker than composing them and so safe for what is shown.

How state and actions correspond to the code is written above each definition,
and `PROJECT.json` gives the lines.  What the table does not say:

- **OutboundQueue.** `row` is the table, `batch` and `cur` are the worker's
  copies, made by the claim and written back whole by `UpdateJob`, whoever holds
  the claim by then.  The clock jumps between the instants at which a comparison
  with it changes its answer (`Deadlines`).  `obs` counts what the outside sees;
  no action reads it but to bound how often a live worker loses its claim.  A
  relay is a host list of one; a recipient is looked up at each attempt and may be
  local at one and not at the next.  The local pipeline takes the message, fails, or
  stores it and fails all the same, which `processSingleJob` makes permanent.  A
  sender's mailbox is active, suspended or gone: `sendDsn` finds active ones only, and
  `away` notes the jobs whose sender was ever not there.
- **MailStore.** One mailbox.  Transactions that lock every folder row they
  depend on are single steps.  `Copy` and the report backfill read before they
  lock: they are two steps, with everything else in between, and `raced` notes
  that the read was no longer true when it was acted on.
- **TlsaRollover.** Time is an age per certificate, reservation and cached answer,
  so behaviours have no horizon.  A validator holds any answer the zone has given
  for up to `CacheTime`.  A certificate is stored in one step and served in the next;
  a pass that ends in between goes on serving the old one until a later pass.
- **InboundDelivery.** The sending server is part of the model: it retries what is
  not settled, and may stop listening while the session goes on, since `Data` runs
  on a background context.  A session that has a
  local job in hand is the queue's worker (`ByWorker`): it enters `Handle` with the one
  recipient of the job and has checked no quota.
- **Composer.** Leaving the page stops the timers; requests under way go on.
- **DnsSync.** The listing is one page; a resolver shows the zone as it is or does
  not answer; TLSA records belong to `TlsaRollover`.  People add, edit and remove
  records by hand, with any value; `hand` notes them as they were made, `adopted` the
  ones a sync took over, by their value or, for BIMI, by their tag.
- **Submission.** MAIL, RCPT and DATA are one step: until `Submit` runs they touch
  the session alone.  AUTH is two, the look at the record and the slow password
  check; `held` notes the sessions a suspension found.  An insertion into the queue
  succeeds, fails, or is committed and not heard of; `missed` counts the jobs that
  failed tries left behind.
- **SecureDelivery.** One destination whose owner changes its TLSA records, its
  policy file and its certificate.  Minutes are scaled: the code's hour, day and
  year are `AbsentFor`, `DefaultAge` and `AgeCap`, and the clock still moves only to
  the queue's own deadlines, since it is at an attempt that a policy is resolved.
  A mode of `none`, an unreadable file and no file are one case, as in
  `fetchPolicy`.
- **MailSessions.** A folder is a function from UIDs to rows, and a number is the rank
  of a UID in it, counted in the listing a command makes.  A session keeps what its
  client has been shown (`view`: a number, a UID, a message) beside what the server
  holds for it (`queue`, the updates not yet polled).  Each IMAP command is the listing
  it makes, the transactions it runs, the answer it writes and what it announces, with
  other sessions in between.  COPY and MOVE name a set and copy it message by message,
  each in a transaction of its own; the first that fails, or is gone, ends the command
  and leaves the copies before it.  The announcement of changed flags
  (`NotifyMessageFlags`) is left out: it moves no number.  go-imap's tracker is external and assumed to
  hand out whatever it was given, in order.  UIDs rise with arrival, as
  `MailStore` shows.  `arrived`, `asked`, `doubled`, `disturbed`, `slips` and `mistaken`
  are observations that no guard reads, but for `arrived`: a message is delivered once.
- **ManageSieve, SieveEngine, SieveScripts.** A script is a sequence of pieces (a word with its
  argument, a head with its test, a brace).  Strings, comments and numbers are what
  the lexer has already told apart.  A header test holds or not of a message, which
  is the set of facts true of it; the wildcard match has characters of its own.
  The engine is compared with readings of its own: `Meaning` walks a script with a
  stack of conditionals as RFC 5228 describes them and shares with the engine only what
  a header test says of a message, and `Covers` defines a match piece by piece.
  The engine keeps no state: each script and each pattern it is tried on is an
  initial state of its own (`tried`), the other states are the scripts' lives.

## 3. Runs

Deadlock checking is off where the bounds let a system run dry (every job settled,
every fault spent); it is on for `TlsaRollover` and `DnsSync`, which go on for ever.

| Run | Configuration | Shows |
| :-- | :-- | :-- |
| `queue_two_workers` | 1 job, 2 workers, 1 fault, 1 claim lost by a live worker, 1 operator action | `ImplementsJobLife`: a message is taken twice only after an expired claim or a lost answer (QUIT, local commit), no oftener, and a job without such a doubt is settled as the truth is. `ClaimIsExclusive` until it expires. `BouncedMeansTold`, unless the sender's mailbox was suspended or deleted meanwhile |
| `queue_retries` | 1 worker, 2 hosts, a window of 200 minutes (attempts 1 to 5, the first jittered one included) | `DelayNoticeOnce`; `EveryJobSettles`: a worker that dies delays a message and does not lose it, provided each conversation with a host comes to an end |
| `tls_policy` | 1 message, 2 hosts, 6 states of the destination, 1 change, 1 fault of the queue, 1 failed lookup or fetch | `PolicyIsNoticed`, `PolicyIsNotPinned` |
| `store` | 2 messages, 3 folders (one made and deleted by the user), 1 copier, 1 backfill, 1 CONDSTORE client, 4 changes | `CountersAreTrue`, `QuotaIsTrue`, `ReferencesAreCounted`, `UidsAreUnique`, `UidsAreNotReused`, `ModseqFollowsChanges`, `CachedFlagsAreCurrent` |
| `access` | 2 connections of either protocol and the webmail on the inbox, 3 messages (one arrives), 3 commands that change something, 1 fault | `LostWasAsked`, `NumbersMeanWhatWasSeen`, `MovedNotDoubled` |
| `rules` | 2 connections, 2 saves, 3 names, 5 commands, 1 fault; every script of up to three parts from 34, values and patterns of up to 4 characters, `*`, `?` and the backslash among them | `RunsWhatWasActivated`, `RulesMeanWhatTheySay`, `WildcardsMatch` |
| `rollover` | 5 keys, with and without DANE, 3 faults | `PublishedCoversServed`, `CachedCoversServed`, `NeverExpires`, `RolloverCompletes` |
| `inbound_delivery` | 2 sessions, each of the MX or the queue's worker, 2 messages from outside and 1 local job, 3 tries, 2 addresses of one mailbox, a quota of 1, 1 fault | `AcceptedIsStored`, `CopiesAreExplained`, `RefusedIsNotStored`, `QuotaOverrunIsBounded` (local mail comes on top of the bound, and counts for the sessions that check), `ToldOnce` |
| `composer` | 2 edits, 2 presses of Send, 2 autosaves, 1 fault | `OneMessagePerPress`, `SavedIsKept` |
| `submission` | 2 sessions, 3 messages of 2 accounts, 2 recipients each, a limit of 2, 2 faults, 1 account suspended | `SentCopyMeansQueued`, `JobsAreExplained`, `LimitOverrunIsBounded`, `SuspendedIsShutOut` |
| `events` | 2 instances, 2 messages, channel and batch of 1, 3 list requests, 1 fault | `QuietPageHasShownAll`, `AllEventsPublished` |
| `dns_sync` | the periodic sync and one by hand, an exclusive and a shared name, 1 change of what is wanted, 1 upset (a record made, edited or removed by hand, or a failed call) | `HandMadeIsKept`, `VerifiedMeansRight`, `ComesRight` |

Beside the runs, `MCMailSessionsFolders.cfg` gives the clients of `MCMailSessions` the
folder they move into to open as well (2 commands, no fault): two MOVEs take the same
messages from each other on the way, and `LostWasAsked` and `MovedNotDoubled` hold.
Seven more configurations end in a counterexample and belong to section 6.

Each property of a run has a mutant in `PROJECT.json`: a definition that
stands for code, changed the way a bug would change it, under which the same run
fails.  Most modules with state also have a type invariant, `TypeOK` or a name of its
own; each is proved (`SecureDelivery`'s as part of its invariant) and kept out of the
runs, whose properties are about more than types.

### Bounds and why they are enough

- *Faults.*  One fault at every possible place is what most code here has to
  survive; two or three are used where a second one meets the recovery from the
  first (`rollover`, `submission`).
- *Two of a kind.*  Races are between two workers, two sessions, two relays, two
  syncs.  None of the code counts its rivals, so a third adds no new step; bounds
  that depend on their number (`QuotaOverrunIsBounded`, `LimitOverrunIsBounded`)
  are stated with it, and there are more messages than sessions, so that the bound
  counts.
- *One job.*  `FetchNextReady` locks and `UpdateJob` writes row by row, so two jobs
  meet in a worker's batch only; the proofs are for any number of jobs and any batch.
- *`DeliveryWindow`* is 20 or 200 minutes for the code's 5 days: the table repeats
  its last entry from attempt 8 on, and what matters is that the window closes
  before, at and after a retry falls due.
- *`MaxOps` 4* lets a message be delivered, copied, changed and moved or expunged
  while a copy or a filing is between its read and its write.  The proofs cover the
  rest.
- *AbsentFor 10, DefaultAge 5, AgeCap 12* against retries that fall due within a
  window of 20 minutes: each of the three ages runs out before one attempt and
  after another, and an absurd age (1000) would outlast the window.  The operator's
  actions are left out of this run (`MaxAdmin` is 0): they do not look at policies.
- *Two connections and three changes* let a message be removed by one client
  between the listing and the write of the other, and the other's announcement be
  polled, missed or overtaken by a SELECT.
- *Three parts of a script* reach an `if` with `elsif` and `else`, nested blocks, a
  block that never closes and what follows a stop.  A pattern of four characters
  has two stars with something to go back over between them.
- *Lifetime 6, PrepareBefore 4, PropagationWait 2*: the smallest values that keep
  the order of a certificate's 90 days and the code's 30 days and 24 hours, with
  time left for a retry.

### Fairness

- `OutboundQueue`: weak fairness of the clock and of the steps a worker takes by
  itself (`OwnStep`).  `runDeliveryWorker` polls every 10 seconds for ever and a
  restarted process polls again; nothing is assumed of the operator, of faults or of a
  destination.  `deliverToMX` sets no deadline once the connection stands, so a host
  that neither answers nor hangs up holds its worker for ever: `EveryJobSettles` has as
  its premise that every worker is time and again outside a conversation, and claims
  nothing otherwise.
- `TlsaRollover`: weak fairness of `Reconcile` and `Tick`: the ticker of `Start`.
  That a call succeeds is not assumed; faults are bounded instead.
- `MailEvents`: weak fairness of each relay, whose ticker fires every second.
  Nothing is assumed of the page.
- `SecureDelivery`, `MailSessions`, `ManageSieve`: none; what is checked of them is
  safety.
- `DnsSync`: weak fairness of beginning the periodic sync, and of each sync's
  steps: a provider call ends, if only by its timeout.

## 4. Proofs

TLAPS proves the theorems below for every value of the constants that the modules'
assumptions allow: any number of jobs, workers, sessions, messages, folders, names and
faults, any lease, batch, limit and window.  35 of them state a property that a run
checks, and they cover every one but the four of liveness and two about the Sieve engine.  `MC*` runs evaluate the assumptions.  What they ask for beyond types is in the
code: finite sets, at least one session (`Submission`), a batch, a lease and a channel
that are not zero, mail that is in the inbox once at the start (`MailSessions`), a
destination whose policies have an age and a cap on it no smaller than the default, addresses of a mailbox's own that lead to it alone (`Direct`), jitter between 80
and 119 per cent, and for the rollover `CacheTime <= PropagationWait` and
`PropagationWait + 2 <= PrepareBefore < Lifetime`, which 24 hours, 30 days and 90 days
satisfy with room to spare.

All proofs go the same way.  Types first; then, where a module has many actions, a lemma
(`StepShapes`, `Shapes`) that says which of a few shapes each action has for the state the
property is about; then the invariant, one step per shape.  The invariants were checked
by TLC before they were proved.

Where a definition is recursive over a count (`ToldAll`, the updates a client is told one
by one) or a set has to be exhausted (`QuietPageShowsAll`), the induction is done on a set:
`LeastNumber` takes the least counterexample and `UpTo` fills an interval from its first
element, since induction principles that take a predicate are out of the prover's reach.

**OutboundQueueProofs**: `TypeCorrect`, `ClaimExclusive`, `DelayNoticeSentOnce`,
`BounceIsTold`, `QueueImplementsJobLife`.
`QueueInv` says three things of each job.  `ClaimOK`: until a claim is taken over one
worker at most will write the row, which then says SENDING.  `TakenOK`: what has been
taken *and the copies of workers that may still be taken* are together at most one more
than the doubts, and no more than the doubts while the row waits.  `NoticeOK`: the same of
delay notices, counting the copies that have not noted one.  Counting the copies under way
is what makes the two inductive: an attempt turns a copy under way into a message taken,
a claim taken over adds one of each side.  Under the mapping of `OutboundQueue` each shape
is then a step of `JobLife` or a stutter.  `JobLife!LoseTrack` takes a set of jobs, since
one claim takes a batch over.

*Of SecureDelivery*: `SecureImplementsQueue`, `SecureKeepsQueuePromises`, `PolicyNoticed`,
`PolicyNotPinned`.  Every step with policies is a step of the queue or leaves it alone, so
the five theorems above hold with them in front.  The two about policies are action
properties of the dial; `CacheInv` says of the resolver's entry when it runs out:
`HidesUntil`, an entry that hides a demand by `noticeBy`; `PinsUntil`, one that enforces by
`pinnedBy` once the demand is withdrawn; and `BelievedLong`, which makes both survive a
change of the destination: what is cached never outlives the age its answer would have now,
or the deadline an earlier change has set.

**MailStoreProofs**: `TypeCorrect`, `UidsUnique`, `UidsNeverReused`, `ModseqFollows`,
`CachedFlagsCurrent`, `QuotaStaysTrue`, `ReferencesStayTrue`, `CountersStayTrue`.
A UID is fresh because every writer takes `uid_next` and advances it; what needs an
invariant of its own is the backfill, which moves a message on the strength of an earlier
read: `FiledFromElsewhere` says that it never files a message out of Reports itself, so
that its two folder updates go to two rows.  `ModseqFollows` needs `UidsAreUnique`: a
message that leaves or arrives changes what a client sees because nobody else there has
its UID.  `CachedFlagsCurrent` rests on `GivenOut`: every modseq that a message or a client
holds was given out by its folder, so that a change is stamped above all of them.

Each of the last three is an equation between a counter and a cardinality; the lemmas say how the sets of
live, unread and referring messages change when one message is added, removed or changed,
and each action is one of those.  `Shape` says that live messages and pending copies are in
folders that exist.  `CountersAreTrue` holds until a copy or a backfill acted on a stale
read, and the proof shows that nothing else disturbs it.

*Of MailEvents*: `EventsTypeCorrect`, `QuietPageShowsAll`.  `PageCatchesUp`: while the
socket is up, nothing was missed and no request failed, each event that a relay has handed
to a hub is shown, or a push waits in the channel, or a request is under way that has not
read yet or has read it.  A push into a full channel keeps it, because the one that waits
leads to a request that reads later; the mark after the pushes keeps it because it adds
nothing to what was handed over.

**TlsaRolloverProofs**: `TypeCorrect`, `ZoneCoversServed`, `CachesCoverServed`,
`CertificateNeverExpires`.
That the zone lists the served key is not inductive: `Walk` says that the stored key and a
published reservation are in the zone, and the served key whether or not it is still
the stored one (`InZone`), that the set a reconcile is publishing
covers both while it removes others (`SetCovers`), and that each point of a reconcile finds
what it needs, an issuance a key that is already in the zone above all (`Found`).  For the
caches, `CachesCatchUp` says that an answer without the reserved key expires before the
propagation wait is over, and `CachesCover` that every answer held lists the stored key and the served one.
`InTime` bounds what the certificate has left at each stage of a rollover without faults:
the wait a reserved key has behind it and the days left add up to `PrepareBefore` but one
(`EnoughLeft`), and after a reconcile there is one more tick to spare (`TimeToSpare`).

**InboundDeliveryProofs**: `TypeCorrect`, `AcceptedStored`, `CopiesExplained`,
`RefusedNotStored`, `QuotaOverrunBounded`, `CorrespondentToldOnce`.
`Waits`: of the sessions that handle a message the sender listens to one, and its
recipients are pending.  `Stored`: a session past the transaction, and an accepted
recipient, have every copy or the note that it was dropped.  `Accounted`: the copies
there are and those that sessions nobody listens to may still write are at most
`lost + 1`, and `lost` alone unless the sender knows of a copy or is about to hear of it.  `QuotaInv` adds to the bytes used the
pairs of session and address that have passed the check and are not yet charged, and
sets apart what workers delivered without one.
`VacationInv`: as long as no two decisions overlapped a mailbox that was told is in the
log or about to be.

**SubmissionProofs**: `TypeCorrect`, `SuspendedShutOut`, `SentCopyQueued`, `JobsExplained`,
`LimitOverrunBounded`.
`Alone`: one session works on a message.  `Counted`: a message that was accepted or is past
the queue has a job for each recipient, and one that is pending has no more than its
missed tries explain, the job whose insertion was not heard of among them.  `LimitInv` adds to the jobs of the hour those that no check will stop
any more, and bounds both together; a session passes the check only while that sum leaves
out its own message.

**DnsSyncProofs**: `TypeCorrect`, `HandMadeKept`, `VerifiedIsRight`.
`HandMadeKept` is about records from the moment they are made by hand, not about those
that lack the mark now: one that was adopted still counts.
`Listed`: what a sync's list says of a record that is not ours is still so, however old the
list; a sync that goes by its list therefore never picks such a record.  `Walked`: a sync
nobody disturbed has the zone in its list for the names still left, and has put right the
names behind it.

**ComposerProofs**: `TypeCorrect`, `OneSentPerPress`, `SavedKept`.
`AsManySent`: there are as many requests to send as intervals that have fired.  `Uids`: the
draft of a save that the page has not heard of is unknown to the page and named by no other
save, so nobody replaces it; with `NoLater` (what a save removes is no later than what it
stores) and `OwnDraft` (what it stored is there until the message is queued) a save that
removes a draft leaves one as late.

**AccessProofs**: of `MailSessions` `AccessTypeCorrect`, `NothingLostUnasked`,
`NumbersHold`, `MovesLeaveOne`; of `ManageSieve` `SieveTypeCorrect`, `ActivatedRuns`.
`AccessInv` has a part for each property, and `ConnsOK`, which they share: the UIDs a
command has listed are below its folder's `uid_next`, so a UID never comes to name another
message between a listing and a write (`Stable`), and what a command is about to flag, or
to expunge for its flag, was asked for or is counted as mistaken.

- `KeptOK`, for what is lost: a message nobody asked away has a row that no MOVE will
  remove.  That it has a row is not inductive, since an expunge under way may be about to
  take it; the new copy of a MOVE is under a UID that no listing has, so it is safe.
- `DoublingOK`, for what is doubled: a message has at most one row more than MOVEs of it
  under way.  The copy adds one to both sides; the expunge takes one from both, or the row
  was gone before it and the message is one that another client took.
- `NumbersOK`, for numbers: a session whose folder has lost nothing has no EXPUNGE queued,
  and each entry of its client's view is the row with that UID, at that rank.  A row that
  arrives has the highest UID and shifts no rank (`NumberStays`); flags shift none; whoever
  removes a row, by whichever protocol, disturbs the folder's watchers in the same step.

Each command is one step of the proof, over three lemmas for what a step may do to the
store: rows go (`CutKeeps`), a row comes (`GrowKeeps`), nothing changes (`SessionStep`).
For `ManageSieve`, `RunsWhatWasActivated` is inductive once `UnderWay` says that a command
past its look, and a save past its first statement, have names that the table can have.

Only model-checked:

- liveness (`EveryJobSettles`, `RolloverCompletes`, `AllEventsPublished`, `ComesRight`):
  proofs from fairness and `ENABLED` are outside what the prover handles;
- `RulesMeanWhatTheySay`, `WildcardsMatch`: `SieveEngine` declares recursive operators for
  the parser, the evaluation and the definition of a match, and what they compute for every
  script would need induction over data.

## 5. Not modelled

- Formats: MIME, headers, DKIM and ARC signatures, SVG and certificate checks, the
  characters of a Sieve script.  Their verdicts are choices.
- Postgres itself: transactions are taken as atomic and READ COMMITTED, with row
  locks held to the commit, as the code uses them.
- The renaming of a folder by the webmail, and message bodies in the sessions; what
  go-imap's tracker does with a count below its own.
- The blob files, DKIM keys, BIMI, the report parsers and the auth service but for
  the operator's queue actions, suspension and the save of scripts: see the plan.

Hazards met in code that is not modelled, or that no property states:

- `inbound_message_repository.go:45`: a delivery locks the folders of its recipients
  in the order of the envelope; two deliveries in opposite order wait for each other
  until Postgres aborts one, and its sender is told to try again.
- `local_disk_blob_storage.go:66`: the file is synced and renamed, the directory is
  not; after a power failure a row may refer to a file that is not there.
- `auth/src/repository.ts:88`: the lock of an account is read before the slow password
  check and not again after it.
- `acme/manager.go:139`: a first issuance that failed is tried again with a new key
  although the first one's association may be cached (`orphaned` below).

- Configuration, health, metrics and HTTP plumbing.

## 6. Where the code and its words disagree

Seven can be seen in a counterexample.  Their configurations are kept beside the runs
and are not part of them: `tlc -config X.cfg M`.

| Configuration | Module | Property | The code does |
| :-- | :-- | :-- | :-- |
| `MCOutboundQueueLocal.cfg` | `MCOutboundQueue` | `LocalFailureIsRetried` | a temporary failure of local delivery is passed on as permanent (`outbound_worker.go:113`) and bounces; the comment on `deliverLocally` (line 409) says it "is retried like any other job" |
| `MCInboundDeliveryQuota.cfg` | `MCInboundDelivery` | `UsedWithinQuota` | the quota is looked at in RCPT only; the worker's local hand-over has none before it, and one local message after another fills a full mailbox; `entity/mailbox.go:29` says that `RecordUsage` enforces "used_bytes <= quota_bytes", and the delivery path does not call it |
| `MCInboundDeliveryIdle.cfg` | `MCInboundDelivery` | `IdleClientsAreCurrent` | after a rule filed a message elsewhere, the count of the scan's folder is announced (`process_inbound_email.go:370`); `mailbox_tracker_manager.go:11` promises sessions "real-time notifications when emails arrive" |
| `MCComposerUndo.cfg` | `MCComposer` | `UndoneIsNotSent` | Undo clears the countdown's display and not its interval (`compose/page.tsx:229`), whose next tick finds no countdown, takes it for a finished one and sends |
| `MCDnsSyncTheirs.cfg` | `MCDnsSync` | `HandMadeIsTheirs` | `isOurRecord` takes a hand-made `v=BIMI1` record for ours by its tag (`sync_dns_records.go:273`), after which `retireBimi` may remove it; the comment at line 205 says it "is theirs" |
| `MCSieveScriptsRfc.cfg` | `MCSieveScripts` | `RulesAreSieve` | an `if` right after a conditional is parsed into its chain (`parser.go:206`), so of two rules that match only the first is applied; and `true` is parsed as an empty `allof`, which never matches |
| `MCSieveScriptsStarred.cfg` | `MCSieveScripts` | `StarIsAnyRun` | `wildcardMatch` compares characters before it looks for a star (`test.go:108`), so `"*"` does not match `"*a"`; its comment (`test.go:73`) says "* is any run of characters" |

Others met while modelling are written into the properties as exceptions, each
named by an observation variable or by the bound:

- A copy, or the backfill, that acted on a stale read leaves a folder's counters
  wrong (`raced` in `CountersAreTrue`).
- A first issuance begun again publishes a second key while the first one's
  association may be cached (`orphaned` in `CachedCoversServed`).
- Sessions that check side by side pass the hourly limit and the quota together
  (`LimitOverrunIsBounded`, `QuotaOverrunIsBounded`), and two absences decided at
  once are both announced (`overlap` in `ToldOnce`).
- `FOR UPDATE SKIP LOCKED` in `FetchUnpublished` runs outside a transaction, so two
  instances can publish one event; the page only fetches once more.
- A push between the accept of a socket and its entry in the hub, or on another
  instance, reaches no page (`missed` in `QuietPageHasShownAll`).
- The page shows list answers in the order they come, the older one last if so.
- Two autosaves in flight can leave two drafts; the text is never lost
  (`SavedIsKept`).
- A number in an IMAP command is counted in a fresh listing, so after the folder has
  lost a message it may name another than the client saw (`disturbed` in
  `NumbersMeanWhatWasSeen`): POP3 and the webmail announce no removal, an EXPUNGE
  announced after another session's SELECT drifts it by one, and the session that
  asked for an EXPUNGE is told twice, by its own writer and by the tracker.
- MOVE is a copy per message and then an expunge: a failure in between leaves both,
  and so does a message of the set that is gone when its turn comes, which ends the
  command with no statement failed and leaves those before it in two places (`doubled`
  in `MovedNotDoubled`).
- A bounce is reported to active mailboxes only: the sender who was suspended after
  handing the message in is never told (`away` in `BouncedMeansTold`).
- A local delivery whose commit was answered too late is bounced although the
  recipient has the message (`lostAnswers` in `ImplementsJobLife`).
- A mute host holds a worker for ever (the premise of `EveryJobSettles`).
- The hourly limit, like the status, is read at AUTH and used until the session ends;
  the model has one limit throughout.
- Saving from the settings page turns all scripts off and then writes the new one,
  without a transaction (`halved` in `RunsWhatWasActivated`); turning the vacation
  reply on and off again leaves the user's own rules inactive.
- `RulesMeanWhatTheySay` and `WildcardsMatch` except, each in its own words, what the
  configurations of `MCSieveScripts` above show.
- A policy file that could not be fetched counts as none for an hour (`noticeBy` in
  `PolicyIsNoticed`), where `outbound_worker.go:151` has "A published policy we
  cannot evaluate is a reason to wait".
- A session that looked an account up before it was suspended goes on sending until
  it ends (`held` in `SuspendedIsShutOut`).
- Two DNS syncs can create the BIMI record twice; the next one repairs it
  (`ComesRight`).  A logo whose certificate could not be read is published without
  it until then.

## 7. Plan

Done, in this order: the queue and the store, which everything depends on; the
certificate rollover; the pipelines that feed the queue and the store; the page and
its events; the DNS sync; the life of a job as an abstract specification; the
sessions of mail clients; scripts and the Sieve engine; the TLS policy in the queue;
the proofs of section 4.

To come, most important first:

1. Folder locks and their orders: deliveries to the same mailboxes in opposite
   order, as a module of locks over `PersistAll`, move and copy.
2. Auth: the lockout counter against concurrent logins, second-factor codes used
   once, sessions and their revocation.
3. Blob storage: write, sync, rename and the row that refers to the file, with a
   power failure at each point; the reference counts of `MailStore` with it.
4. DKIM keys: provisioning and rotation, in `DnsSync`'s wanted records.
