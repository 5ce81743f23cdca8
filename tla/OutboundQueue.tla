--------------------------- MODULE OutboundQueue ---------------------------
(***************************************************************************)
(* The outbound queue: rows of outbound_jobs, the delivery workers that    *)
(* claim, attempt and settle them, and the operator who retries or cancels *)
(* them from the console.                                                  *)
(*                                                                         *)
(* Steps are cut where something else can happen in between: a claim is    *)
(* one SQL statement; each delivery attempt, each write-back of the row    *)
(* and each delivery status notification (DSN) is a step of its own, and a *)
(* worker can die between any two of them.                                 *)
(*                                                                         *)
(* What is sent is left out; what the destination answered is the member   *)
(* of ErrorClasses that finishFailed tells apart.                          *)
(***************************************************************************)
EXTENDS RetrySchedule, FiniteSets

CONSTANTS
    Jobs,             \* the queue rows, one per recipient
    Workers,          \* delivery worker processes
    BatchSize,        \* rows one ProcessBatch claims at most
    MaxMX,            \* most MX hosts a destination has
    Lease,            \* minutes a claim holds (the code: 5)
    MaxFaults,        \* bound: crashes, failed row updates, failed DSNs
    MaxReclaims,      \* bound: claims taken over from live workers, per job
    MaxAdmin          \* bound: operator actions

ASSUME QueueAssumption ==
    /\ IsFiniteSet(Jobs)
    /\ IsFiniteSet(Workers)
    /\ BatchSize \in Nat \ {0}
    /\ MaxMX \in Nat \ {0}
    /\ Lease \in Nat \ {0}
    /\ MaxFaults \in Nat
    /\ MaxReclaims \in Nat
    /\ MaxAdmin \in Nat

VARIABLES
    now,      \* the clock, in minutes
    row,      \* outbound_jobs
    sender,   \* the mailbox each job's sender has here
    away,     \* jobs whose sender was ever without one (observation only)
    pc,       \* where each worker is in processSingleJob
    batch,    \* row copies each worker fetched and has not begun
    cur,      \* the row copy each worker is processing
    err,      \* class of the last delivery error each worker met
    hosts,    \* MX hosts each worker has yet to try
    faults,   \* faults so far
    admin,    \* operator actions so far
    obs       \* what the outside has seen of each job (observation only)

rows  == <<row, sender, away>>
local == <<pc, batch, cur, err, hosts>>
vars  == <<now, rows, local, faults, admin, obs>>

Status == {"ABSENT", "QUEUED", "SENDING", "DEFERRED",
           "DELIVERED", "BOUNCED", "CANCELLED"}

\* "local" is as permanent as "permanent": the 5xx answers and the unreadable
\* body; a refused downgrade is as temporary as any other "temporary" error.
ErrorClasses == {"none", "temporary", "permanent", "local"}

NoLock == -1

Row == [status: Status, attempt: Nat, next: Nat, expires: Nat,
        lockedUntil: Nat \cup {NoLock}, delayDsnSent: BOOLEAN]

Copy == [job: Jobs, attempt: Nat, next: Nat, delayDsnSent: BOOLEAN]

NoCopy == [job |-> "none", attempt |-> 0, next |-> 0, delayDsnSent |-> FALSE]

PC == {"idle", "route", "smtp", "delivered", "failed", "defer", "bounceDsn"}

(***************************************************************************)
(* accepted: times the destination took the message.  reclaims: times an   *)
(* expired claim was taken over.  lostAnswers: times the message was taken *)
(* and an error came back: QUIT failed, or the pipeline's commit did its   *)
(* work without its answer.  delayed, failed: DSNs filed for the sender.   *)
(***************************************************************************)
Observation == [accepted: Nat, reclaims: Nat, lostAnswers: Nat,
                delayed: Nat, failed: Nat]

Absent == [status |-> "ABSENT", attempt |-> 0, next |-> 0, expires |-> 0,
           lockedUntil |-> NoLock, delayDsnSent |-> FALSE]

Init ==
    /\ now = 0
    /\ row = [j \in Jobs |-> Absent]
    /\ sender = [j \in Jobs |-> "active"]
    /\ away = {}
    /\ pc = [w \in Workers |-> "idle"]
    /\ batch = [w \in Workers |-> {}]
    /\ cur = [w \in Workers |-> NoCopy]
    /\ err = [w \in Workers |-> "none"]
    /\ hosts = [w \in Workers |-> 0]
    /\ faults = 0
    /\ admin = 0
    /\ obs = [j \in Jobs |-> [accepted |-> 0, reclaims |-> 0,
                              lostAnswers |-> 0, delayed |-> 0, failed |-> 0]]

-----------------------------------------------------------------------------
(***************************************************************************)
(* Submission puts a row in the queue, due at once.                        *)
(***************************************************************************)
Enqueue(j) ==
    /\ row[j].status = "ABSENT"
    /\ row' = [row EXCEPT ![j].status = "QUEUED", ![j].next = now,
                          ![j].expires = now + DeliveryWindow]
    /\ UNCHANGED <<now, sender, away, local, faults, admin, obs>>

(***************************************************************************)
(* Worker w holds a copy of job j that it has not written back yet.        *)
(***************************************************************************)
WillWrite(w, j) ==
    \/ \E c \in batch[w] : c.job = j
    \/ pc[w] \notin {"idle", "bounceDsn"} /\ cur[w].job = j

\* Mutant of Ready: the reclaim of expired claims is missing.
ReadyNoReclaim(j) ==
    row[j].status \in {"QUEUED", "DEFERRED"} /\ row[j].next <= now

(***************************************************************************)
(* The rows a claim may take: due ones, and those whose claim ran out.  The*)
(* bound is on claims taken over from workers that are still at it.        *)
(***************************************************************************)
Ready(j) ==
    \/ row[j].status \in {"QUEUED", "DEFERRED"} /\ row[j].next <= now
    \/ /\ row[j].status = "SENDING"
       /\ row[j].lockedUntil # NoLock
       /\ row[j].lockedUntil <= now
       /\ obs[j].reclaims < MaxReclaims \/ \A w \in Workers : ~WillWrite(w, j)

(***************************************************************************)
(* ORDER BY next_attempt_at LIMIT BatchSize.                               *)
(***************************************************************************)
EarliestReady(S) ==
    LET ready == {j \in Jobs : Ready(j)}
    IN  /\ S \subseteq ready
        /\ Cardinality(S) <= BatchSize
        /\ S # ready => Cardinality(S) = BatchSize
        /\ \A j \in S, k \in ready \ S : row[j].next <= row[k].next

CopyOf(j) == [job |-> j, attempt |-> row[j].attempt, next |-> row[j].next,
              delayDsnSent |-> row[j].delayDsnSent]

(***************************************************************************)
(* One statement claims the batch and returns copies of its rows.  The     *)
(* attempt counter is not touched in the table.                            *)
(***************************************************************************)
FetchNextReady(w) ==
    /\ pc[w] = "idle" /\ batch[w] = {}
    /\ \E S \in (SUBSET Jobs) \ {{}} :
         /\ EarliestReady(S)
         /\ row' = [j \in Jobs |->
                      IF j \in S
                      THEN [row[j] EXCEPT !.status = "SENDING",
                                          !.lockedUntil = now + Lease]
                      ELSE row[j]]
         /\ batch' = [batch EXCEPT ![w] = {CopyOf(j) : j \in S}]
         /\ obs' = [j \in Jobs |->
                      IF j \in S /\ row[j].status = "SENDING"
                      THEN [obs[j] EXCEPT !.reclaims = @ + 1]
                      ELSE obs[j]]
    /\ UNCHANGED <<now, sender, away, pc, cur, err, hosts, faults, admin>>

(***************************************************************************)
(* processSingleJob begins: the attempt is counted on the copy only.       *)
(***************************************************************************)
BeginJob(w) ==
    /\ pc[w] = "idle"
    /\ \E c \in batch[w] :
         /\ cur' = [cur EXCEPT ![w] = [c EXCEPT !.attempt = @ + 1]]
         /\ batch' = [batch EXCEPT ![w] = @ \ {c}]
    /\ pc' = [pc EXCEPT ![w] = "route"]
    /\ UNCHANGED <<now, rows, err, hosts, faults, admin, obs>>

Fails(w, class) ==
    /\ err' = [err EXCEPT ![w] = class]
    /\ pc' = [pc EXCEPT ![w] = "failed"]

ReadBlobFails(w) ==
    /\ pc[w] = "route"
    /\ Fails(w, "permanent")
    /\ UNCHANGED <<now, rows, batch, cur, hosts, faults, admin, obs>>

(***************************************************************************)
(* deliverLocally: every attempt looks the recipient up, which may fail; a *)
(* recipient who has a mailbox here is handed to the inbound pipeline,     *)
(* which takes the message or returns an error; or it stores the message   *)
(* and still returns one, when the answer to its commit is lost.           *)
(***************************************************************************)
DeliverLocally(w) ==
    /\ pc[w] = "route"
    /\ \/ /\ obs' = [obs EXCEPT ![cur[w].job].accepted = @ + 1]
          /\ pc' = [pc EXCEPT ![w] = "delivered"]
          /\ UNCHANGED err
       \/ /\ obs' = [obs EXCEPT ![cur[w].job].accepted = @ + 1,
                                ![cur[w].job].lostAnswers = @ + 1]
          /\ Fails(w, "local")
       \/ /\ Fails(w, "local")
          /\ UNCHANGED obs
    /\ UNCHANGED <<now, rows, batch, cur, hosts, faults, admin>>

(***************************************************************************)
(* Anybody else is reached over SMTP: the MX hosts in order (the domain    *)
(* itself when it has none).  A relay instead is a list of one host.       *)
(***************************************************************************)
RouteRemote(w) ==
    /\ pc[w] = "route"
    /\ \E n \in 1..MaxMX :
         hosts' = [hosts EXCEPT ![w] = n]
    /\ pc' = [pc EXCEPT ![w] = "smtp"]
    /\ UNCHANGED <<now, rows, batch, cur, err, faults, admin, obs>>

(***************************************************************************)
(* A host did not take the message, or took it and then failed the QUIT:   *)
(* both leave an error behind and the next host is tried.                  *)
(***************************************************************************)
HostFails(w, class) ==
    /\ err' = [err EXCEPT ![w] = class]
    /\ hosts' = [hosts EXCEPT ![w] = @ - 1]
    /\ pc' = [pc EXCEPT ![w] = IF hosts[w] = 1 THEN "failed" ELSE "smtp"]

TryHost(w) ==
    /\ pc[w] = "smtp"
    /\ \/ /\ obs' = [obs EXCEPT ![cur[w].job].accepted = @ + 1]
          /\ pc' = [pc EXCEPT ![w] = "delivered"]
          /\ hosts' = [hosts EXCEPT ![w] = 0]
          /\ UNCHANGED err
       \/ /\ obs' = [obs EXCEPT ![cur[w].job].accepted = @ + 1,
                                ![cur[w].job].lostAnswers = @ + 1]
          /\ \E class \in {"temporary", "permanent"} : HostFails(w, class)
       \/ /\ \E class \in {"temporary", "permanent"} : HostFails(w, class)
          /\ UNCHANGED obs
    /\ UNCHANGED <<now, rows, batch, cur, faults, admin>>

(***************************************************************************)
(* UpdateJob writes the copy back, whoever holds the claim by then, and    *)
(* releases it.  Its error is ignored: the row is then left as it was.     *)
(***************************************************************************)
UpdateJob(w, status) ==
    LET c == cur[w] IN
    \/ /\ row' = [row EXCEPT ![c.job].status = status,
                             ![c.job].attempt = c.attempt,
                             ![c.job].next = c.next,
                             ![c.job].delayDsnSent = c.delayDsnSent,
                             ![c.job].lockedUntil = NoLock]
       /\ UNCHANGED faults
    \/ /\ faults < MaxFaults
       /\ faults' = faults + 1
       /\ UNCHANGED row

\* Mutant of SendDsn: the sender is never told.
SendNoDsn(j, kind) == UNCHANGED <<obs, faults>>

(***************************************************************************)
(* sendDsn files the notification through the inbound pipeline.  Nothing   *)
(* is filed, and nobody hears of it, when the sending mailbox is gone or   *)
(* suspended: the lookup returns active mailboxes only.  Nor is it when    *)
(* the lookup or the pipeline fails.                                       *)
(***************************************************************************)
SendDsn(j, kind) ==
    \/ /\ sender[j] = "active"
       /\ obs' = IF kind = "failed" THEN [obs EXCEPT ![j].failed = @ + 1]
                                    ELSE [obs EXCEPT ![j].delayed = @ + 1]
       /\ UNCHANGED faults
    \/ /\ sender[j] # "active"
       /\ UNCHANGED <<obs, faults>>
    \/ /\ sender[j] = "active"
       /\ faults < MaxFaults
       /\ faults' = faults + 1
       /\ UNCHANGED obs

(***************************************************************************)
(* processSingleJob returns; its locals go out of scope.                   *)
(***************************************************************************)
Done(w) ==
    /\ pc' = [pc EXCEPT ![w] = "idle"]
    /\ cur' = [cur EXCEPT ![w] = NoCopy]
    /\ err' = [err EXCEPT ![w] = "none"]
    /\ hosts' = [hosts EXCEPT ![w] = 0]

RecordDelivered(w) ==
    /\ pc[w] = "delivered"
    /\ UpdateJob(w, "DELIVERED")
    /\ Done(w)
    /\ UNCHANGED <<now, sender, away, batch, admin, obs>>

Permanent(class) == class \in {"permanent", "local"}

(***************************************************************************)
(* handleFailure, permanent or out of time: the row first, the DSN after.  *)
(***************************************************************************)
Bounce(w) ==
    /\ pc[w] = "failed"
    /\ \E b \in CalculateNextBackoff(now, cur[w].attempt,
                                     row[cur[w].job].expires) :
         Permanent(err[w]) \/ b.permanent
    /\ UpdateJob(w, "BOUNCED")
    /\ pc' = [pc EXCEPT ![w] = "bounceDsn"]
    /\ UNCHANGED <<now, sender, away, batch, cur, err, hosts, admin, obs>>

SendFailedDsn(w) ==
    /\ pc[w] = "bounceDsn"
    /\ SendDsn(cur[w].job, "failed")
    /\ Done(w)
    /\ UNCHANGED <<now, rows, batch, admin>>

(***************************************************************************)
(* handleFailure, temporary: the delay DSN, once, before the row.          *)
(***************************************************************************)
Defer(w) ==
    /\ pc[w] = "failed"
    /\ ~Permanent(err[w])
    /\ \E b \in CalculateNextBackoff(now, cur[w].attempt,
                                     row[cur[w].job].expires) :
         /\ ~b.permanent
         /\ IF b.delayDsn /\ ~cur[w].delayDsnSent
            THEN /\ SendDsn(cur[w].job, "delayed")
                 /\ cur' = [cur EXCEPT ![w].next = b.next,
                                       ![w].delayDsnSent = TRUE]
            ELSE /\ cur' = [cur EXCEPT ![w].next = b.next]
                 /\ UNCHANGED <<faults, obs>>
    /\ pc' = [pc EXCEPT ![w] = "defer"]
    /\ UNCHANGED <<now, rows, batch, err, hosts, admin>>

RecordDeferred(w) ==
    /\ pc[w] = "defer"
    /\ UpdateJob(w, "DEFERRED")
    /\ Done(w)
    /\ UNCHANGED <<now, sender, away, batch, admin, obs>>

(***************************************************************************)
(* A worker process dies and is started again: its memory is gone, the     *)
(* rows it claimed stay SENDING.                                           *)
(***************************************************************************)
Crash(w) ==
    /\ faults < MaxFaults
    /\ pc[w] # "idle" \/ batch[w] # {}
    /\ faults' = faults + 1
    /\ Done(w)
    /\ batch' = [batch EXCEPT ![w] = {}]
    /\ UNCHANGED <<now, rows, admin, obs>>

-----------------------------------------------------------------------------
\* Mutant of Retriable: a finished job is retried too.
RetriableWithDelivered == {"DEFERRED", "BOUNCED", "DELIVERED"}

Retriable == {"DEFERRED", "BOUNCED"}

\* Mutant of Cancellable: a job in a worker's hands can be cancelled.
CancellableWithSending == {"QUEUED", "DEFERRED", "SENDING"}

Cancellable == {"QUEUED", "DEFERRED"}

\* Mutant of Retried: the retry starts the job afresh.
RetriedAfresh(j) ==
    [row[j] EXCEPT !.status = "QUEUED", !.next = now,
                   !.attempt = 0, !.delayDsnSent = FALSE]

Retried(j) ==
    [row[j] EXCEPT !.status = "QUEUED", !.next = now]

(***************************************************************************)
(* The operator.  Neither action looks at the claim.                       *)
(***************************************************************************)
RetryJob(j) ==
    /\ admin < MaxAdmin /\ admin' = admin + 1
    /\ row[j].status \in Retriable
    /\ row' = [row EXCEPT ![j] = Retried(j)]
    /\ UNCHANGED <<now, sender, away, local, faults, obs>>

CancelJob(j) ==
    /\ admin < MaxAdmin /\ admin' = admin + 1
    /\ row[j].status \in Cancellable
    /\ row' = [row EXCEPT ![j].status = "CANCELLED"]
    /\ UNCHANGED <<now, sender, away, local, faults, obs>>

(***************************************************************************)
(* The sending mailbox is suspended or let in again, its rows still        *)
(* queued.  Only the suspensions count against the bound.                  *)
(***************************************************************************)
SetMailboxActive(j) ==
    /\ row[j].status # "ABSENT"
    /\ \/ /\ sender[j] = "active"
          /\ admin < MaxAdmin /\ admin' = admin + 1
          /\ sender' = [sender EXCEPT ![j] = "suspended"]
          /\ away' = away \cup {j}
       \/ /\ sender[j] = "suspended"
          /\ sender' = [sender EXCEPT ![j] = "active"]
          /\ UNCHANGED <<admin, away>>
    /\ UNCHANGED <<now, row, local, faults, obs>>

(***************************************************************************)
(* Deleting the sending mailbox leaves its rows queued, with no mailbox.   *)
(***************************************************************************)
DeleteMailbox(j) ==
    /\ admin < MaxAdmin /\ admin' = admin + 1
    /\ row[j].status # "ABSENT" /\ sender[j] # "gone"
    /\ sender' = [sender EXCEPT ![j] = "gone"]
    /\ away' = away \cup {j}
    /\ UNCHANGED <<now, row, local, faults, obs>>

(***************************************************************************)
(* Time passes.  Only the instants at which a comparison with the clock    *)
(* changes its answer matter, so the clock moves from one to another.      *)
(***************************************************************************)
Open(j) == row[j].status \in {"QUEUED", "SENDING", "DEFERRED"}

Deadlines ==
    UNION {{row[j].next, row[j].expires, row[j].lockedUntil} :
              j \in {k \in Jobs : Open(k)}}

Tick ==
    /\ \E t \in Deadlines : t > now /\ now' = t
    /\ UNCHANGED <<rows, local, faults, admin, obs>>

(***************************************************************************)
(* The steps a worker takes by itself, and those it takes with a host.     *)
(***************************************************************************)
OwnStep(w) ==
    \/ FetchNextReady(w) \/ BeginJob(w)
    \/ ReadBlobFails(w) \/ DeliverLocally(w) \/ RouteRemote(w)
    \/ RecordDelivered(w) \/ Bounce(w) \/ SendFailedDsn(w)
    \/ Defer(w) \/ RecordDeferred(w)

WorkerStep(w) == OwnStep(w) \/ TryHost(w)

Next ==
    \/ \E w \in Workers : WorkerStep(w) \/ Crash(w)
    \/ \E j \in Jobs : Enqueue(j) \/ RetryJob(j) \/ CancelJob(j)
                       \/ SetMailboxActive(j) \/ DeleteMailbox(j)
    \/ Tick

Spec == Init /\ [][Next]_vars

(***************************************************************************)
(* runDeliveryWorker polls every 10 seconds for ever, and time passes.  A  *)
(* conversation with a host has no deadline once the connection stands, so *)
(* nothing is assumed of TryHost.                                          *)
(***************************************************************************)
FairSpec ==
    /\ Spec
    /\ WF_vars(Tick)
    /\ \A w \in Workers : WF_vars(OwnStep(w))

-----------------------------------------------------------------------------
(***************************************************************************)
(* Properties                                                              *)
(***************************************************************************)

\* Every row, copy and observation stays in its type.
TypeOK ==
    /\ now \in Nat
    /\ row \in [Jobs -> Row]
    /\ sender \in [Jobs -> {"active", "suspended", "gone"}]
    /\ away \subseteq Jobs
    /\ pc \in [Workers -> PC]
    /\ batch \in [Workers -> SUBSET Copy]
    /\ cur \in [Workers -> Copy \cup {NoCopy}]
    /\ \A w \in Workers : pc[w] # "idle" => cur[w] \in Copy
    /\ err \in [Workers -> ErrorClasses]
    /\ hosts \in [Workers -> 0..MaxMX]
    /\ faults \in 0..MaxFaults
    /\ admin \in 0..MaxAdmin
    /\ obs \in [Jobs -> Observation]

(***************************************************************************)
(* What the rows say, as JobLife sees it.                                  *)
(***************************************************************************)
StateOf(j) ==
    CASE row[j].status = "ABSENT"    -> "absent"
      [] Open(j)                     -> "open"
      [] row[j].status = "DELIVERED" -> "delivered"
      [] row[j].status = "BOUNCED"   -> "bounced"
      [] row[j].status = "CANCELLED" -> "cancelled"

Life == INSTANCE JobLife WITH
    state  <- [j \in Jobs |-> StateOf(j)],
    taken  <- [j \in Jobs |-> obs[j].accepted],
    doubts <- [j \in Jobs |-> obs[j].reclaims + obs[j].lostAnswers]

\* The queue implements JobLife.  FetchNextReady and UpdateJob together never
\* dispatch a settled job again, so a destination takes a message twice only
\* for each expired claim taken over, QUIT failed or local commit whose answer
\* was lost, and without those a row is bounced or cancelled only when no
\* destination has the message.
ImplementsJobLife == Life!Spec

\* Until a claim expires it is exclusive: one worker is to write the row, and
\* the row says SENDING, so the operator's retry and cancel leave it alone.
ClaimIsExclusive ==
    \A j \in Jobs : obs[j].reclaims = 0 =>
        \A v, w \in Workers :
            WillWrite(v, j) /\ WillWrite(w, j)
                => v = w /\ row[j].status = "SENDING"

\* Without a fault, a bounced row means the sender was told, or is about to
\* be (UpdateJob precedes sendDsn), unless the sending mailbox was deleted or
\* suspended while the job was in the queue.
BouncedMeansTold ==
    \A j \in Jobs :
        row[j].status = "BOUNCED" /\ faults = 0 /\ j \notin away =>
            \/ obs[j].failed > 0
            \/ \E w \in Workers : pc[w] = "bounceDsn" /\ cur[w].job = j

\* The delay notice is sent once; only taking over an expired claim, whose
\* attempt was never recorded, can repeat it.
DelayNoticeOnce ==
    \A j \in Jobs : obs[j].delayed <= 1 + obs[j].reclaims

\* What the comment on deliverLocally says: a local recipient whose delivery
\* fails is retried like any other job.  A first failure with time left in
\* the delivery window would then not bounce.
LocalFailureIsRetried ==
    \A w \in Workers :
        pc[w] = "bounceDsn" /\ err[w] = "local" =>
            \/ cur[w].attempt > 1
            \/ now + BaseDelay(2) > row[cur[w].job].expires

\* A job that is queued is eventually delivered, bounced or cancelled, as
\* ADR-002's durability guarantee (outbound_repository.go) asks: a worker
\* that dies with a claim delays the message, it does not lose it.  Only a
\* host that neither answers nor hangs up can hold the worker, and with it
\* the job, for ever: every conversation is assumed to end.
EveryJobSettles ==
    (\A w \in Workers : []<>(pc[w] # "smtp"))
        => \A j \in Jobs : Open(j) ~> ~Open(j)
=============================================================================
