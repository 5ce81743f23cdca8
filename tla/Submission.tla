----------------------------- MODULE Submission -----------------------------
(***************************************************************************)
(* Mail handed in by users: the SMTP submission session (authenticate, own *)
(* address only, recipients, DATA) and ProcessOutboundEmail.Submit behind  *)
(* it, which the webmail and the vacation responder call too: the hourly   *)
(* limit, the signature, the stored body, one queued job per recipient and *)
(* the copy in Sent.                                                       *)
(*                                                                         *)
(* Sessions of one account run side by side.  A client that hears a        *)
(* temporary error, or nothing, hands the same message in again.  An       *)
(* operator suspends and restores accounts while sessions are open.        *)
(***************************************************************************)
EXTENDS Integers, FiniteSets

CONSTANTS
    Sessions,     \* sessions, of SMTP clients or of the webmail
    Mails,        \* messages users want to send
    Owner,        \* Owner[m]: the account a message is from
    Accounts,     \* mailboxes that can submit
    Recipients,   \* recipients, all of them in the envelope of each message
    Limit,        \* MaxRecipientsPerHour; 0 is no limit
    None,         \* nobody authenticated, no message
    MaxFaults,    \* bound: failed calls, lost answers and crashes
    MaxTries,     \* bound: times a message is handed in
    MaxAdmin      \* bound: accounts suspended or restored

ASSUME SubmissionAssumption ==
    /\ IsFiniteSet(Sessions) /\ Sessions # {}
    /\ IsFiniteSet(Mails) /\ IsFiniteSet(Recipients)
    /\ Owner \in [Mails -> Accounts]
    /\ Limit \in Nat /\ MaxFaults \in Nat /\ MaxTries \in Nat
    /\ MaxAdmin \in Nat
    /\ None \notin Mails \cup Accounts

VARIABLES
    sess,    \* sessions
    jobs,    \* outbound_jobs per message and recipient
    recent,  \* jobs created in the last hour, per account
    copies,  \* copies of each message in its owner's Sent folder
    told,    \* what the client knows of its message
    tries,   \* times it was handed in
    active,  \* mailboxes.is_active, per account
    admin,   \* changes the operator made so far
    held,    \* sessions of a suspended account since before (observation)
    missed,  \* jobs left behind by tries that failed (observation)
    faults

queue == <<jobs, recent, copies>>
account == <<active, admin>>
vars  == <<sess, queue, account, held, told, tries, missed, faults>>

Idle == [pc |-> "idle", user |-> None, mail |-> None, left |-> {}]

Points == {"idle", "verify", "limit", "sign", "enqueue", "copy", "accept", "defer"}

Init ==
    /\ sess = [s \in Sessions |-> Idle]
    /\ jobs = [m \in Mails |-> [r \in Recipients |-> 0]]
    /\ recent = [a \in Accounts |-> 0]
    /\ copies = [m \in Mails |-> 0]
    /\ active = [a \in Accounts |-> TRUE]
    /\ admin = 0
    /\ held = [a \in Accounts |-> {}]
    /\ told = [m \in Mails |-> "pending"]
    /\ tries = [m \in Mails |-> 0]
    /\ missed = [m \in Mails |-> [r \in Recipients |-> 0]]
    /\ faults = 0

Goes(s, pc) == sess' = [sess EXCEPT ![s].pc = pc]

Faulty == faults < MaxFaults /\ faults' = faults + 1

-----------------------------------------------------------------------------
\* Mutant of FindByAddress: a suspended account is found too.
FindAnyAddress(a) == TRUE

(***************************************************************************)
(* AUTH: the account's record is read, then the password is checked        *)
(* against it, slowly.  The session acts for the account from here on;     *)
(* RSET keeps it.                                                          *)
(***************************************************************************)
FindByAddress(a) == active[a]

LookUp(s, a) ==
    /\ sess[s].pc = "idle"
    /\ sess[s].user = None
    /\ FindByAddress(a)
    /\ sess' = [sess EXCEPT ![s].pc = "verify", ![s].user = a]
    /\ UNCHANGED <<queue, account, held, told, tries, missed, faults>>

\* No session of s is left among those a suspension found.
Leaves(s) == held' = [a \in Accounts |-> held[a] \ {s}]

VerifyCredential(s) ==
    /\ sess[s].pc = "verify"
    /\ \/ Goes(s, "idle") /\ UNCHANGED held
       \/ sess' = [sess EXCEPT ![s] = Idle] /\ Leaves(s)
    /\ UNCHANGED <<queue, account, told, tries, missed, faults>>

(***************************************************************************)
(* updateMailbox: the operator suspends an account or restores it.         *)
(***************************************************************************)
SetActive(a) ==
    /\ admin < MaxAdmin /\ admin' = admin + 1
    /\ active' = [active EXCEPT ![a] = ~@]
    /\ held' = [held EXCEPT ![a] =
                  IF active[a] THEN {s \in Sessions : sess[s].user = a} ELSE {}]
    /\ UNCHANGED <<sess, queue, told, tries, missed, faults>>

(***************************************************************************)
(* The envelope sender is the authenticated account's own address.         *)
(***************************************************************************)
AuthorizeSender(user, m) == user = Owner[m]

(***************************************************************************)
(* MAIL, the RCPTs (taken as they come) and DATA: the message is handed to *)
(* Submit.  A client does not hand in what is already under way.           *)
(***************************************************************************)
Mail(s, m) ==
    /\ sess[s].pc = "idle"
    /\ AuthorizeSender(sess[s].user, m)
    /\ told[m] = "pending" /\ tries[m] < MaxTries
    /\ \A t \in Sessions : sess[t].mail # m
    /\ tries' = [tries EXCEPT ![m] = @ + 1]
    /\ sess' = [sess EXCEPT ![s].pc = "limit", ![s].mail = m,
                            ![s].left = Recipients]
    /\ UNCHANGED <<queue, account, held, told, missed, faults>>

\* Mutant of WithinLimit: the recipients of this message are not counted.
WithinLimitSoFar(a, n) == Limit = 0 \/ recent[a] <= Limit

(***************************************************************************)
(* checkSendLimit: the jobs of the last hour and those asked for, if they  *)
(* can be counted.                                                         *)
(***************************************************************************)
WithinLimit(a, n) == Limit = 0 \/ recent[a] + n <= Limit

CheckSendLimit(s) ==
    /\ sess[s].pc = "limit"
    /\ \/ /\ Goes(s, IF WithinLimit(sess[s].user, Cardinality(Recipients))
                     THEN "sign" ELSE "defer")
          /\ UNCHANGED faults
       \/ Faulty /\ Goes(s, "defer")
    /\ UNCHANGED <<queue, account, held, told, tries, missed>>

(***************************************************************************)
(* The message is signed and its body stored; either may fail.             *)
(***************************************************************************)
SignAndStore(s) ==
    /\ sess[s].pc = "sign"
    /\ \/ Goes(s, "enqueue") /\ UNCHANGED faults
       \/ Faulty /\ Goes(s, "defer")
    /\ UNCHANGED <<queue, account, held, told, tries, missed>>

(***************************************************************************)
(* One job per recipient, each in a transaction of its own.  A failure     *)
(* ends the submission and leaves the jobs that are there, the one whose   *)
(* insertion was committed and not heard of included.                      *)
(***************************************************************************)
Queued(s) == Recipients \ sess[s].left

Insert(s, r) ==
    /\ jobs' = [jobs EXCEPT ![sess[s].mail][r] = @ + 1]
    /\ recent' = [recent EXCEPT ![sess[s].user] = @ + 1]

Enqueue(s, r) ==
    /\ sess[s].pc = "enqueue"
    /\ r \in sess[s].left
    /\ Insert(s, r)
    /\ sess' = [sess EXCEPT ![s].left = @ \ {r},
                            ![s].pc = IF sess[s].left = {r} THEN "copy" ELSE @]
    /\ UNCHANGED <<copies, account, held, told, tries, missed, faults>>

Miss(s, behind) ==
    missed' = [missed EXCEPT ![sess[s].mail] =
                 [r \in Recipients |-> IF r \in behind THEN @[r] + 1 ELSE @[r]]]

\* Mutant of EnqueueFails: the failure is logged and the copy is filed.
EnqueueFailureIgnored(s) ==
    /\ sess[s].pc = "enqueue"
    /\ Faulty
    /\ Goes(s, "copy")
    /\ UNCHANGED <<queue, account, held, told, tries, missed>>

EnqueueFails(s) ==
    /\ sess[s].pc = "enqueue"
    /\ Faulty
    /\ Miss(s, Queued(s))
    /\ Goes(s, "defer")
    /\ UNCHANGED <<queue, account, held, told, tries>>

EnqueueUnheard(s, r) ==
    /\ sess[s].pc = "enqueue"
    /\ r \in sess[s].left
    /\ Faulty
    /\ Insert(s, r)
    /\ Miss(s, Queued(s) \cup {r})
    /\ Goes(s, "defer")
    /\ UNCHANGED <<copies, account, held, told, tries>>

\* Mutant of FileSentCopy: a copy that cannot be filed fails the submission.
FileSentCopyOrFail(s) ==
    /\ sess[s].pc = "copy"
    /\ \/ /\ copies' = [copies EXCEPT ![sess[s].mail] = @ + 1]
          /\ Goes(s, "accept") /\ UNCHANGED faults
       \/ Faulty /\ Goes(s, "defer") /\ UNCHANGED copies
    /\ UNCHANGED <<jobs, recent, account, held, told, tries, missed>>

(***************************************************************************)
(* The copy in Sent, only now; a failure is logged.                        *)
(***************************************************************************)
FileSentCopy(s) ==
    /\ sess[s].pc = "copy"
    /\ \/ copies' = [copies EXCEPT ![sess[s].mail] = @ + 1] /\ UNCHANGED faults
       \/ Faulty /\ UNCHANGED copies
    /\ Goes(s, "accept")
    /\ UNCHANGED <<jobs, recent, account, held, told, tries, missed>>

Released(s) == [Idle EXCEPT !.user = sess[s].user]

(***************************************************************************)
(* The answer: accepted, or a temporary error; it may not arrive.          *)
(***************************************************************************)
Answer(s) ==
    /\ sess[s].pc \in {"accept", "defer"}
    /\ \/ /\ told' = [told EXCEPT ![sess[s].mail] =
                        IF sess[s].pc = "accept" THEN "accepted" ELSE @]
          /\ UNCHANGED <<missed, faults>>
       \/ /\ sess[s].pc = "accept" /\ Faulty /\ Miss(s, Queued(s))
          /\ UNCHANGED told
    /\ sess' = [sess EXCEPT ![s] = Released(s)]
    /\ UNCHANGED <<queue, account, held, tries>>

Logout(s) ==
    /\ sess[s].pc = "idle"
    /\ sess[s].user # None
    /\ sess' = [sess EXCEPT ![s].user = None]
    /\ Leaves(s)
    /\ UNCHANGED <<queue, account, told, tries, missed, faults>>

(***************************************************************************)
(* The process dies; a session's jobs so far stay.                         *)
(***************************************************************************)
Crash ==
    /\ Faulty
    /\ sess' = [s \in Sessions |-> Idle]
    /\ missed' = [m \in Mails |-> [r \in Recipients |->
         missed[m][r] + Cardinality({s \in Sessions :
             sess[s].mail = m /\ r \in Queued(s)
             /\ sess[s].pc \in {"enqueue", "copy", "accept"}})]]
    /\ held' = [a \in Accounts |-> {}]
    /\ UNCHANGED <<queue, account, told, tries>>

(***************************************************************************)
(* Some of an account's jobs are older than an hour.                       *)
(***************************************************************************)
HourPasses(a) ==
    /\ recent[a] > 0
    /\ \E n \in 0..(recent[a] - 1) : recent' = [recent EXCEPT ![a] = n]
    /\ UNCHANGED <<sess, jobs, copies, account, held, told, tries, missed, faults>>

SessionStep(s) ==
    \/ (\E a \in Accounts : LookUp(s, a)) \/ VerifyCredential(s) \/ Logout(s)
    \/ (\E m \in Mails : Mail(s, m))
    \/ CheckSendLimit(s) \/ SignAndStore(s)
    \/ (\E r \in Recipients : Enqueue(s, r) \/ EnqueueUnheard(s, r))
    \/ EnqueueFails(s)
    \/ FileSentCopy(s) \/ Answer(s)

Next ==
    \/ \E s \in Sessions : SessionStep(s)
    \/ \E a \in Accounts : HourPasses(a) \/ SetActive(a)
    \/ Crash

Spec == Init /\ [][Next]_vars

-----------------------------------------------------------------------------
(***************************************************************************)
(* Properties                                                              *)
(***************************************************************************)

\* Sessions and counters stay in their types; a session with a message acts
\* for somebody.
TypeOK ==
    /\ sess \in [Sessions -> [pc: Points, user: Accounts \cup {None},
                              mail: Mails \cup {None}, left: SUBSET Recipients]]
    /\ \A s \in Sessions : sess[s].mail # None => sess[s].user # None
    /\ jobs \in [Mails -> [Recipients -> Nat]]
    /\ recent \in [Accounts -> Nat]
    /\ copies \in [Mails -> Nat]
    /\ active \in [Accounts -> BOOLEAN]
    /\ admin \in 0..MaxAdmin
    /\ held \in [Accounts -> SUBSET Sessions]
    /\ told \in [Mails -> {"pending", "accepted"}]
    /\ tries \in [Mails -> 0..MaxTries]
    /\ missed \in [Mails -> [Recipients -> Nat]]
    /\ faults \in 0..MaxFaults

\* A copy in Sent means every recipient has a job: a refused or failed
\* submission never leaves one behind, as Submit's comment has it.
SentCopyMeansQueued ==
    \A m \in Mails : copies[m] > 0 => \A r \in Recipients : jobs[m][r] > 0

\* An accepted message has a job for every recipient, and more than one only
\* for each time it was handed in and its end failed or was missed.
JobsAreExplained ==
    \A m \in Mails, r \in Recipients :
        /\ told[m] = "accepted" => jobs[m][r] > 0
        /\ jobs[m][r] <= 1 + missed[m][r]

\* The limit is checked before the jobs are there: sessions side by side can
\* pass it together, each with one message.
LimitOverrunIsBounded ==
    Limit > 0 => \A a \in Accounts :
        recent[a] <= Limit + (Cardinality(Sessions) - 1)
                             * Cardinality(Recipients)

\* After a suspension only the sessions it found open, or past the look at the
\* record, go on sending; once they end nothing is handed in for the account,
\* although no session looks at the record again.
SuspendedIsShutOut ==
    \A s \in Sessions :
        sess[s].mail # None /\ ~active[sess[s].user] => s \in held[sess[s].user]
=============================================================================
