-------------------------- MODULE SubmissionProofs --------------------------
(***************************************************************************)
(* Proofs about Submission, for any number of sessions, messages, accounts *)
(* and recipients, and any number of failures, retries and suspensions.    *)
(***************************************************************************)
EXTENDS Submission, FiniteSetTheorems, TLAPS

Session == [pc: Points, user: Accounts \cup {None}, mail: Mails \cup {None},
            left: SUBSET Recipients]

\* Nobody acts for an account after it was suspended but the sessions the
\* suspension found, whether or not they have a message in hand.
HeldActs ==
    \A s \in Sessions :
        sess[s].user # None /\ ~active[sess[s].user]
            => s \in held[sess[s].user]

-----------------------------------------------------------------------------
\* The parts of the type invariant that are not about sessions or about the
\* jobs left behind.
RestOK ==
    /\ jobs \in [Mails -> [Recipients -> Nat]]
    /\ recent \in [Accounts -> Nat]
    /\ copies \in [Mails -> Nat]
    /\ active \in [Accounts -> BOOLEAN]
    /\ admin \in 0..MaxAdmin
    /\ held \in [Accounts -> SUBSET Sessions]
    /\ told \in [Mails -> {"pending", "accepted"}]
    /\ tries \in [Mails -> 0..MaxTries]
    /\ faults \in 0..MaxFaults

\* What a session is at each point: it has a message from MAIL to the answer,
\* the message is its own account's, and "left" tells how far Submit got.
Shape(v) ==
    /\ v.mail = None <=> v.pc \in {"idle", "verify"}
    /\ v.mail # None => v.user = Owner[v.mail]
    /\ v.pc \in {"limit", "sign"} => v.left = Recipients
    /\ v.pc \in {"copy", "accept"} => v.left = {}

SessOK ==
    /\ sess \in [Sessions -> Session]
    /\ \A s \in Sessions : Shape(sess[s])

MissedOK == missed \in [Mails -> [Recipients -> Nat]]

Parts == SessOK /\ RestOK /\ MissedOK

\* The three parts of the types make the type invariant.
LEMMA TypeParts == SessOK /\ RestOK /\ MissedOK => TypeOK
<1> SUFFICES ASSUME SessOK, RestOK, MissedOK PROVE TypeOK
    OBVIOUS
<1>1. ASSUME NEW s \in Sessions, sess[s].mail # None PROVE sess[s].user # None
  <2>1. sess[s].mail \in Mails /\ sess[s].user = Owner[sess[s].mail]
      BY <1>1 DEF SessOK, Session, Shape
  <2> QED
      BY <2>1, SubmissionAssumption
<1> QED
    BY <1>1 DEF TypeOK, SessOK, RestOK, MissedOK, Session

\* They hold at the start.
LEMMA PartsInit == Init => SessOK /\ RestOK /\ MissedOK
BY SubmissionAssumption
   DEF Init, SessOK, RestOK, MissedOK, Session, Shape, Idle, Points

\* One session changes to a session.
LEMMA SessionChanges ==
    ASSUME SessOK, NEW s \in Sessions, NEW v \in Session, Shape(v),
           sess' = [sess EXCEPT ![s] = v]
    PROVE  SessOK'
<1>1. sess' \in [Sessions -> Session]
    BY DEF SessOK
<1>2. ASSUME NEW t \in Sessions PROVE Shape(sess'[t])
  <2>1. sess'[t] = IF t = s THEN v ELSE sess[t]
      BY DEF SessOK
  <2> QED
      BY <2>1 DEF SessOK
<1> QED
    BY <1>1, <1>2 DEF SessOK, Shape

\* A try that failed adds at most one to the jobs left behind.
LEMMA MissType ==
    ASSUME MissedOK, NEW s \in Sessions, NEW behind, Miss(s, behind)
    PROVE  MissedOK'
<1>1. CASE sess[s].mail \in Mails
  <2>1. missed[sess[s].mail] \in [Recipients -> Nat]
      BY <1>1 DEF MissedOK
  <2>2. [r \in Recipients |-> IF r \in behind
             THEN missed[sess[s].mail][r] + 1 ELSE missed[sess[s].mail][r]]
             \in [Recipients -> Nat]
      BY <2>1
  <2> QED
      BY <1>1, <2>2 DEF MissedOK, Miss
<1>2. CASE sess[s].mail \notin Mails
    BY <1>2 DEF MissedOK, Miss
<1> QED
    BY <1>1, <1>2

\* The sessions a crash finds with a job of m for r in the queue.
AtWork(m, r) ==
    {s \in Sessions : sess[s].mail = m /\ r \in Queued(s)
                      /\ sess[s].pc \in {"enqueue", "copy", "accept"}}

\* The sessions at work on a recipient are finitely many.
LEMMA AtWorkCount ==
    \A m, r : IsFiniteSet(AtWork(m, r)) /\ Cardinality(AtWork(m, r)) \in Nat
<1> TAKE m, r
<1>1. AtWork(m, r) \subseteq Sessions
    BY DEF AtWork
<1> QED
    BY <1>1, SubmissionAssumption, FS_Subset, FS_CardinalityType

\* Each step keeps sessions in shape and the tables in their types.
LEMMA PartsStep ==
    SessOK /\ RestOK /\ MissedOK /\ [Next]_vars
        => SessOK' /\ RestOK' /\ MissedOK'
<1> SUFFICES ASSUME SessOK, RestOK, MissedOK, [Next]_vars
             PROVE  SessOK' /\ RestOK' /\ MissedOK'
    OBVIOUS
<1>a. \A s \in Sessions : sess[s] \in Session /\ Shape(sess[s])
    BY DEF SessOK
<1>c. UNCHANGED missed => MissedOK'
    BY DEF MissedOK
<1> USE SubmissionAssumption DEF queue, account
<1>1. ASSUME NEW s \in Sessions, NEW a \in Accounts, LookUp(s, a)
      PROVE  SessOK' /\ RestOK' /\ MissedOK'
  <2> DEFINE v == [sess[s] EXCEPT !.pc = "verify", !.user = a]
  <2>1. v \in Session /\ Shape(v)
      BY <1>1, <1>a DEF LookUp, Session, Points, Shape
  <2>2. sess' = [sess EXCEPT ![s] = v]
      BY <1>1 DEF LookUp, SessOK
  <2> QED
      BY <1>1, <1>c, <2>1, <2>2, SessionChanges DEF LookUp, RestOK
<1>2. ASSUME NEW s \in Sessions, VerifyCredential(s)
      PROVE  SessOK' /\ RestOK' /\ MissedOK'
  <2> DEFINE v == [sess[s] EXCEPT !.pc = "idle"]
  <2>1. v \in Session /\ Shape(v) /\ Idle \in Session /\ Shape(Idle)
      BY <1>2, <1>a DEF VerifyCredential, Session, Points, Shape, Idle
  <2>2. sess' = [sess EXCEPT ![s] = v] \/ sess' = [sess EXCEPT ![s] = Idle]
      BY <1>2 DEF VerifyCredential, Goes, SessOK
  <2> QED
      BY <1>2, <1>c, <2>1, <2>2, SessionChanges
         DEF VerifyCredential, RestOK, Leaves
<1>3. ASSUME NEW s \in Sessions, Logout(s)
      PROVE  SessOK' /\ RestOK' /\ MissedOK'
  <2> DEFINE v == [sess[s] EXCEPT !.user = None]
  <2>1. v \in Session /\ Shape(v)
      BY <1>3, <1>a DEF Logout, Session, Points, Shape
  <2>2. sess' = [sess EXCEPT ![s] = v]
      BY <1>3 DEF Logout, SessOK
  <2> QED
      BY <1>3, <1>c, <2>1, <2>2, SessionChanges DEF Logout, RestOK, Leaves
<1>4. ASSUME NEW s \in Sessions, NEW m \in Mails, Mail(s, m)
      PROVE  SessOK' /\ RestOK' /\ MissedOK'
  <2> DEFINE v == [sess[s] EXCEPT !.pc = "limit", !.mail = m,
                                  !.left = Recipients]
  <2>1. v \in Session /\ Shape(v)
      BY <1>4, <1>a DEF Mail, AuthorizeSender, Session, Points, Shape
  <2>2. sess' = [sess EXCEPT ![s] = v]
      BY <1>4 DEF Mail, SessOK
  <2>3. SessOK'
      BY <2>1, <2>2, SessionChanges
  <2>4. tries' \in [Mails -> 0..MaxTries]
      BY <1>4 DEF Mail, RestOK
  <2> QED
      BY <1>4, <1>c, <2>3, <2>4 DEF Mail, RestOK
<1>5. ASSUME NEW s \in Sessions, CheckSendLimit(s)
      PROVE  SessOK' /\ RestOK' /\ MissedOK'
  <2>1. PICK p \in {"sign", "defer"} : Goes(s, p)
      BY <1>5 DEF CheckSendLimit
  <2> DEFINE v == [sess[s] EXCEPT !.pc = p]
  <2>2. v \in Session /\ Shape(v)
      BY <1>5, <1>a DEF CheckSendLimit, Session, Points, Shape
  <2>3. sess' = [sess EXCEPT ![s] = v]
      BY <2>1 DEF Goes, SessOK
  <2>4. SessOK'
      BY <2>2, <2>3, SessionChanges
  <2>5. faults' \in 0..MaxFaults
      BY <1>5 DEF CheckSendLimit, RestOK, Faulty
  <2> QED
      BY <1>5, <1>c, <2>4, <2>5 DEF CheckSendLimit, RestOK
<1>6. ASSUME NEW s \in Sessions, SignAndStore(s)
      PROVE  SessOK' /\ RestOK' /\ MissedOK'
  <2>1. PICK p \in {"enqueue", "defer"} : Goes(s, p)
      BY <1>6 DEF SignAndStore
  <2> DEFINE v == [sess[s] EXCEPT !.pc = p]
  <2>2. v \in Session /\ Shape(v)
      BY <1>6, <1>a DEF SignAndStore, Session, Points, Shape
  <2>3. sess' = [sess EXCEPT ![s] = v]
      BY <2>1 DEF Goes, SessOK
  <2>4. SessOK'
      BY <2>2, <2>3, SessionChanges
  <2>5. faults' \in 0..MaxFaults
      BY <1>6 DEF SignAndStore, RestOK, Faulty
  <2> QED
      BY <1>6, <1>c, <2>4, <2>5 DEF SignAndStore, RestOK
<1>7. ASSUME NEW s \in Sessions, NEW r \in Recipients, Enqueue(s, r)
      PROVE  SessOK' /\ RestOK' /\ MissedOK'
  <2> DEFINE v == [sess[s] EXCEPT
                     !.left = @ \ {r},
                     !.pc = IF sess[s].left = {r} THEN "copy" ELSE @]
  <2>1. v \in Session /\ Shape(v)
      BY <1>7, <1>a DEF Enqueue, Session, Points, Shape
  <2>2. sess' = [sess EXCEPT ![s] = v]
      BY <1>7 DEF Enqueue, SessOK
  <2>3. sess[s].mail \in Mails /\ sess[s].user \in Accounts
      BY <1>7, <1>a DEF Enqueue, Session, Shape
  <2>4. jobs[sess[s].mail] \in [Recipients -> Nat] /\ recent[sess[s].user] \in Nat
      BY <2>3 DEF RestOK
  <2>5. jobs' \in [Mails -> [Recipients -> Nat]]
      BY <1>7, <2>3, <2>4 DEF RestOK, Enqueue, Insert
  <2>6. recent' \in [Accounts -> Nat]
      BY <1>7, <2>3, <2>4 DEF RestOK, Enqueue, Insert
  <2> QED
      BY <1>7, <1>c, <2>1, <2>2, <2>5, <2>6, SessionChanges
         DEF Enqueue, RestOK
<1>8. ASSUME NEW s \in Sessions, EnqueueFails(s)
      PROVE  SessOK' /\ RestOK' /\ MissedOK'
  <2> DEFINE v == [sess[s] EXCEPT !.pc = "defer"]
  <2>1. v \in Session /\ Shape(v)
      BY <1>8, <1>a DEF EnqueueFails, Session, Points, Shape
  <2>2. sess' = [sess EXCEPT ![s] = v]
      BY <1>8 DEF EnqueueFails, Goes, SessOK
  <2>3. SessOK' /\ MissedOK'
      BY <1>8, <2>1, <2>2, SessionChanges, MissType DEF EnqueueFails
  <2> QED
      BY <1>8, <2>3 DEF EnqueueFails, RestOK, Faulty
<1>8b. ASSUME NEW s \in Sessions, NEW r \in Recipients, EnqueueUnheard(s, r)
       PROVE  SessOK' /\ RestOK' /\ MissedOK'
  <2> DEFINE v == [sess[s] EXCEPT !.pc = "defer"]
  <2>1. v \in Session /\ Shape(v)
      BY <1>8b, <1>a DEF EnqueueUnheard, Session, Points, Shape
  <2>2. sess' = [sess EXCEPT ![s] = v]
      BY <1>8b DEF EnqueueUnheard, Goes, SessOK
  <2>3. SessOK' /\ MissedOK'
      BY <1>8b, <2>1, <2>2, SessionChanges, MissType DEF EnqueueUnheard
  <2>4. sess[s].mail \in Mails /\ sess[s].user \in Accounts
      BY <1>8b, <1>a DEF EnqueueUnheard, Session, Shape
  <2>5. jobs[sess[s].mail] \in [Recipients -> Nat] /\ recent[sess[s].user] \in Nat
      BY <2>4 DEF RestOK
  <2>6. jobs' \in [Mails -> [Recipients -> Nat]] /\ recent' \in [Accounts -> Nat]
      BY <1>8b, <2>4, <2>5 DEF RestOK, EnqueueUnheard, Insert
  <2> QED
      BY <1>8b, <2>3, <2>6 DEF EnqueueUnheard, RestOK, Faulty
<1>9. ASSUME NEW s \in Sessions, FileSentCopy(s)
      PROVE  SessOK' /\ RestOK' /\ MissedOK'
  <2> DEFINE v == [sess[s] EXCEPT !.pc = "accept"]
  <2>1. v \in Session /\ Shape(v)
      BY <1>9, <1>a DEF FileSentCopy, Session, Points, Shape
  <2>2. sess' = [sess EXCEPT ![s] = v]
      BY <1>9 DEF FileSentCopy, Goes, SessOK
  <2>3. SessOK' /\ MissedOK'
      BY <1>9, <1>c, <2>1, <2>2, SessionChanges DEF FileSentCopy
  <2>4. copies' \in [Mails -> Nat] /\ faults' \in 0..MaxFaults
      BY <1>9 DEF FileSentCopy, RestOK, Faulty
  <2> QED
      BY <1>9, <2>3, <2>4 DEF FileSentCopy, RestOK
<1>10. ASSUME NEW s \in Sessions, Answer(s)
       PROVE  SessOK' /\ RestOK' /\ MissedOK'
  <2>1. Released(s) \in Session /\ Shape(Released(s))
      BY <1>10, <1>a DEF Released, Idle, Session, Points, Shape
  <2>2. sess' = [sess EXCEPT ![s] = Released(s)]
      BY <1>10 DEF Answer
  <2>3. SessOK' /\ MissedOK'
      BY <1>10, <1>c, <2>1, <2>2, SessionChanges, MissType DEF Answer
  <2>4. told' \in [Mails -> {"pending", "accepted"}] /\ faults' \in 0..MaxFaults
      BY <1>10 DEF Answer, RestOK, Faulty
  <2> QED
      BY <1>10, <2>3, <2>4 DEF Answer, RestOK
<1>11. ASSUME NEW a \in Accounts, HourPasses(a)
       PROVE  SessOK' /\ RestOK' /\ MissedOK'
    BY <1>11, <1>c DEF HourPasses, RestOK, SessOK, Shape
<1>12. ASSUME NEW a \in Accounts, SetActive(a)
       PROVE  SessOK' /\ RestOK' /\ MissedOK'
    BY <1>12, <1>c DEF SetActive, RestOK, SessOK, Shape
<1>13. CASE Crash
  <2>1. SessOK'
      BY <1>13 DEF Crash, SessOK, Shape, Session, Idle, Points
  <2>2. \A m \in Mails, r \in Recipients :
            missed[m][r] + Cardinality(AtWork(m, r)) \in Nat
      BY AtWorkCount DEF MissedOK
  <2>3. missed' = [m \in Mails |-> [r \in Recipients |->
                     missed[m][r] + Cardinality(AtWork(m, r))]]
      BY <1>13 DEF Crash, AtWork
  <2>4. MissedOK'
      BY <2>2, <2>3 DEF MissedOK
  <2> QED
      BY <1>13, <2>1, <2>4 DEF Crash, Faulty, RestOK
<1>14. CASE UNCHANGED vars
    BY <1>14 DEF vars, SessOK, Shape, RestOK, MissedOK
<1> QED
    BY <1>1, <1>2, <1>3, <1>4, <1>5, <1>6, <1>7, <1>8, <1>8b, <1>9, <1>10,
       <1>11, <1>12, <1>13, <1>14 DEF Next, SessionStep

\* Sessions, tables and counters keep their types, and a session with a
\* message acts for somebody.
THEOREM TypeCorrect == Spec => []TypeOK
<1>1. Init => Parts
    BY PartsInit DEF Parts
<1>2. Parts /\ [Next]_vars => Parts'
    BY PartsStep DEF Parts
<1>3. Parts => TypeOK
    BY TypeParts DEF Parts
<1> QED
    BY <1>1, <1>2, <1>3, PTL DEF Spec
-----------------------------------------------------------------------------
\* Nobody comes to act for a suspended account, and the sessions that did
\* stay among those the suspension found until they end.
LEMMA HeldStep == Parts /\ HeldActs /\ [Next]_vars => HeldActs'
<1> SUFFICES ASSUME SessOK, RestOK, HeldActs, [Next]_vars PROVE HeldActs'
    BY DEF Parts
<1>a. \A s \in Sessions : sess[s] \in Session
    BY DEF SessOK
<1>b. \A a \in Accounts : held[a] \subseteq Sessions /\ active[a] \in BOOLEAN
    BY DEF RestOK
<1> USE SubmissionAssumption DEF queue, account
\* A step that changes neither whom sessions act for nor any account.
<1>1. ASSUME UNCHANGED <<active, held>>,
             \A s \in Sessions : sess'[s].user = sess[s].user
      PROVE  HeldActs'
    BY <1>1 DEF HeldActs
<1>2. ASSUME NEW s \in Sessions, NEW a \in Accounts, LookUp(s, a)
      PROVE  HeldActs'
  <2>1. ASSUME NEW t \in Sessions
        PROVE  sess'[t].user = IF t = s THEN a ELSE sess[t].user
      BY <1>2, <1>a DEF LookUp, SessOK, Session
  <2> QED
      BY <1>2, <2>1 DEF LookUp, FindByAddress, HeldActs
\* A session that ends acts for nobody and leaves every account's list.
<1>3. ASSUME NEW s \in Sessions, Leaves(s), UNCHANGED active,
             \A t \in Sessions :
                 sess'[t].user = IF t = s THEN None ELSE sess[t].user
      PROVE  HeldActs'
  <2> SUFFICES ASSUME NEW t \in Sessions, sess'[t].user # None,
                      ~active'[sess'[t].user]
               PROVE  t \in held'[sess'[t].user]
      BY DEF HeldActs
  <2>1. t # s /\ sess'[t].user = sess[t].user
      BY <1>3
  <2>2. t \in held[sess[t].user] /\ sess[t].user \in Accounts
      BY <1>3, <1>a, <2>1 DEF HeldActs, Session
  <2> QED
      BY <1>3, <2>1, <2>2 DEF Leaves
<1>4. ASSUME NEW s \in Sessions, VerifyCredential(s) PROVE HeldActs'
  <2>1. CASE Goes(s, "idle") /\ UNCHANGED held
    <3>1. \A t \in Sessions : sess'[t].user = sess[t].user
        BY <2>1, <1>a DEF Goes, SessOK, Session
    <3> QED
        BY <1>1, <1>4, <2>1, <3>1 DEF VerifyCredential
  <2>2. CASE sess' = [sess EXCEPT ![s] = Idle] /\ Leaves(s)
    <3>1. \A t \in Sessions :
              sess'[t].user = IF t = s THEN None ELSE sess[t].user
        BY <2>2, <1>a DEF Idle, SessOK
    <3> QED
        BY <1>3, <1>4, <2>2, <3>1 DEF VerifyCredential
  <2> QED
      BY <1>4, <2>1, <2>2 DEF VerifyCredential
<1>5. ASSUME NEW s \in Sessions, Logout(s) PROVE HeldActs'
  <2>1. \A t \in Sessions :
            sess'[t].user = IF t = s THEN None ELSE sess[t].user
      BY <1>5, <1>a DEF Logout, SessOK, Session
  <2> QED
      BY <1>3, <1>5, <2>1 DEF Logout
<1>6. ASSUME NEW s \in Sessions, NEW p, Goes(s, p)
      PROVE  \A t \in Sessions : sess'[t].user = sess[t].user
    BY <1>6, <1>a DEF Goes, SessOK, Session
<1>7. ASSUME NEW s \in Sessions,
             \/ \E m \in Mails : Mail(s, m)
             \/ \E r \in Recipients : Enqueue(s, r)
             \/ Answer(s)
      PROVE  HeldActs'
  <2>1. ASSUME NEW m \in Mails, Mail(s, m)
        PROVE  \A t \in Sessions : sess'[t].user = sess[t].user
      BY <2>1, <1>a DEF Mail, SessOK, Session
  <2>2. ASSUME NEW r \in Recipients, Enqueue(s, r)
        PROVE  \A t \in Sessions : sess'[t].user = sess[t].user
      BY <2>2, <1>a DEF Enqueue, SessOK, Session
  <2>3. ASSUME Answer(s)
        PROVE  \A t \in Sessions : sess'[t].user = sess[t].user
      BY <2>3, <1>a DEF Answer, Released, Idle, SessOK, Session
  <2> QED
      BY <1>1, <1>7, <2>1, <2>2, <2>3 DEF Mail, Enqueue, Answer
<1>8. ASSUME NEW s \in Sessions,
             \/ CheckSendLimit(s) \/ SignAndStore(s) \/ EnqueueFails(s)
             \/ (\E r \in Recipients : EnqueueUnheard(s, r))
             \/ FileSentCopy(s)
      PROVE  HeldActs'
  <2>1. \E p : Goes(s, p)
      BY <1>8 DEF CheckSendLimit, SignAndStore, EnqueueFails, EnqueueUnheard,
                  FileSentCopy
  <2> QED
      BY <1>1, <1>6, <1>8, <2>1
         DEF CheckSendLimit, SignAndStore, EnqueueFails, EnqueueUnheard,
             FileSentCopy
<1>9. ASSUME NEW a \in Accounts, HourPasses(a) PROVE HeldActs'
    BY <1>1, <1>9 DEF HourPasses
<1>10. ASSUME NEW a \in Accounts, SetActive(a) PROVE HeldActs'
  <2> SUFFICES ASSUME NEW t \in Sessions, sess[t].user # None,
                      ~active'[sess[t].user]
               PROVE  t \in held'[sess[t].user]
      BY <1>10 DEF SetActive, HeldActs
  <2>1. sess[t].user \in Accounts
      BY <1>a DEF Session
  <2>2. CASE sess[t].user = a
      BY <1>10, <1>b, <2>2 DEF SetActive, RestOK
  <2>3. CASE sess[t].user # a
      BY <1>10, <2>1, <2>3 DEF SetActive, RestOK, HeldActs
  <2> QED
      BY <2>2, <2>3
<1>11. CASE Crash
    BY <1>11 DEF Crash, Idle, HeldActs
<1>12. CASE UNCHANGED vars
    BY <1>12 DEF vars, HeldActs
<1> QED
    BY <1>2, <1>4, <1>5, <1>7, <1>8, <1>9, <1>10, <1>11, <1>12
       DEF Next, SessionStep

\* After a suspension only the sessions it found open go on sending for the
\* account, whatever other sessions, answers and crashes come between.
THEOREM SuspendedShutOut == Spec => []SuspendedIsShutOut
<1>1. Init => Parts /\ HeldActs
    BY PartsInit DEF Init, Idle, HeldActs, Parts
<1>2. Parts /\ HeldActs /\ [Next]_vars => Parts' /\ HeldActs'
    BY PartsStep, HeldStep DEF Parts
<1>3. Parts /\ HeldActs => SuspendedIsShutOut
    BY TypeParts DEF Parts, TypeOK, HeldActs, SuspendedIsShutOut
<1> QED
    BY <1>1, <1>2, <1>3, PTL DEF Spec

-----------------------------------------------------------------------------
\* A message is in one session at a time.
Alone ==
    \A s, t \in Sessions :
        sess[s].mail # None /\ sess[s].mail = sess[t].mail => s = t

\* The jobs of m for r: none but those of tries that are over, and one of a
\* session at work on m or of the try that was accepted.
Counted(m, r) ==
    /\ told[m] = "accepted" =>
           jobs[m][r] > 0 /\ \A s \in Sessions : sess[s].mail # m
    /\ AtWork(m, r) # {} => jobs[m][r] > 0
    /\ told[m] = "pending" /\ AtWork(m, r) = {} => jobs[m][r] <= missed[m][r]
    /\ jobs[m][r] <= 1 + missed[m][r]
    /\ copies[m] > 0 => jobs[m][r] > 0

JobInv == Alone /\ \A m \in Mails, r \in Recipients : Counted(m, r)

\* A session that goes from one point to another with its message and its
\* recipients leaves the rest of the sessions alone.
LEMMA GoesOnly ==
    ASSUME SessOK, NEW s \in Sessions, NEW p, Goes(s, p)
    PROVE  /\ \A t \in Sessions : sess'[t].mail = sess[t].mail
           /\ \A t \in Sessions : sess'[t].left = sess[t].left
           /\ \A t \in Sessions : sess'[t].pc = IF t = s THEN p ELSE sess[t].pc
<1>1. \A t \in Sessions : sess[t] \in Session
    BY DEF SessOK
<1> QED
    BY <1>1 DEF Goes, SessOK, Session

\* A message's jobs are explained after every step.
LEMMA JobStep == Parts /\ JobInv /\ [Next]_vars => JobInv'
<1> SUFFICES ASSUME SessOK, RestOK, MissedOK, JobInv, [Next]_vars PROVE JobInv'
    BY DEF Parts
<1>a. \A s \in Sessions : sess[s] \in Session /\ Shape(sess[s])
    BY DEF SessOK
<1>b. \A m \in Mails, r \in Recipients :
          jobs[m][r] \in Nat /\ missed[m][r] \in Nat /\ copies[m] \in Nat
    BY DEF RestOK, MissedOK
<1>c. \A m \in Mails : told[m] \in {"pending", "accepted"}
    BY DEF RestOK
<1>d. \A s \in Sessions : sess[s].mail \in Mails \cup {None}
    BY <1>a DEF Session
<1> USE SubmissionAssumption DEF queue, account
\* A step that takes no message, ends no try and creates no job.
<1>1. ASSUME UNCHANGED <<jobs, copies, told, missed>>,
             \A t \in Sessions : sess'[t].mail = sess[t].mail,
             \A m \in Mails, r \in Recipients : AtWork(m, r)' = AtWork(m, r)
      PROVE  JobInv'
  <2>1. Alone'
      BY <1>1 DEF JobInv, Alone
  <2>2. \A m \in Mails, r \in Recipients : Counted(m, r)'
      BY <1>1 DEF JobInv, Counted
  <2> QED
      BY <2>1, <2>2 DEF JobInv
<1>2. ASSUME NEW s \in Sessions,
             \A t \in Sessions \ {s} : sess'[t] = sess[t],
             sess[s].pc \in {"idle", "verify"}, sess'[s].pc \in {"idle", "verify"},
             sess[s].mail = sess'[s].mail,
             UNCHANGED <<jobs, copies, told, missed>>
      PROVE  JobInv'
  <2>1. \A m \in Mails, r \in Recipients : AtWork(m, r)' = AtWork(m, r)
      BY <1>2 DEF AtWork, Queued
  <2> QED
      BY <1>1, <1>2, <2>1
<1>3. ASSUME NEW s \in Sessions, NEW a \in Accounts, LookUp(s, a) PROVE JobInv'
  <2>1. \A t \in Sessions :
            IF t = s THEN sess'[t].pc = "verify" /\ sess'[t].mail = sess[t].mail
                     ELSE sess'[t] = sess[t]
      BY <1>3, <1>a DEF LookUp, SessOK, Session
  <2> QED
      BY <1>2, <1>3, <2>1 DEF LookUp
<1>4. ASSUME NEW s \in Sessions, VerifyCredential(s) PROVE JobInv'
  <2>1. \A t \in Sessions :
            IF t = s THEN sess'[t].pc = "idle" /\ sess'[t].mail = sess[t].mail
                     ELSE sess'[t] = sess[t]
      BY <1>4, <1>a DEF VerifyCredential, Goes, Idle, SessOK, Session, Shape
  <2> QED
      BY <1>2, <1>4, <2>1 DEF VerifyCredential
<1>5. ASSUME NEW s \in Sessions, Logout(s) PROVE JobInv'
  <2>1. \A t \in Sessions :
            IF t = s THEN sess'[t].pc = "idle" /\ sess'[t].mail = sess[t].mail
                     ELSE sess'[t] = sess[t]
      BY <1>5, <1>a DEF Logout, SessOK, Session
  <2> QED
      BY <1>2, <1>5, <2>1 DEF Logout
<1>6. ASSUME NEW s \in Sessions, NEW m \in Mails, Mail(s, m) PROVE JobInv'
  <2>1. \A t \in Sessions :
            IF t = s THEN sess'[t].pc = "limit" /\ sess'[t].mail = m
                     ELSE sess'[t] = sess[t]
      BY <1>6, <1>a DEF Mail, SessOK, Session
  <2>2. \A n \in Mails, r \in Recipients : AtWork(n, r)' = AtWork(n, r)
      BY <1>6, <2>1 DEF Mail, AtWork, Queued
  <2>3. Alone'
      BY <1>6, <2>1 DEF Mail, JobInv, Alone
  <2>4. ASSUME NEW n \in Mails, NEW r \in Recipients PROVE Counted(n, r)'
    <3>1. Counted(n, r)
        BY DEF JobInv
    <3>2. told[m] # "accepted"
        BY <1>6 DEF Mail
    <3> QED
        BY <1>6, <2>1, <2>2, <3>1, <3>2 DEF Mail, Counted
  <2> QED
      BY <2>3, <2>4 DEF JobInv
<1>7. ASSUME NEW s \in Sessions, CheckSendLimit(s) PROVE JobInv'
  <2>1. PICK p \in {"sign", "defer"} : Goes(s, p)
      BY <1>7 DEF CheckSendLimit
  <2>2. \A m \in Mails, r \in Recipients : AtWork(m, r)' = AtWork(m, r)
      BY <1>7, <2>1, GoesOnly DEF CheckSendLimit, AtWork, Queued
  <2> QED
      BY <1>1, <1>7, <2>1, <2>2, GoesOnly DEF CheckSendLimit
<1>8. ASSUME NEW s \in Sessions, SignAndStore(s) PROVE JobInv'
  <2>1. PICK p \in {"enqueue", "defer"} : Goes(s, p)
      BY <1>8 DEF SignAndStore
  <2>2. sess[s].left = Recipients
      BY <1>8, <1>a DEF SignAndStore, Shape
  <2>3. \A m \in Mails, r \in Recipients : AtWork(m, r)' = AtWork(m, r)
      BY <1>8, <2>1, <2>2, GoesOnly DEF SignAndStore, AtWork, Queued
  <2> QED
      BY <1>1, <1>8, <2>1, <2>3, GoesOnly DEF SignAndStore
<1>9. ASSUME NEW s \in Sessions, NEW r \in Recipients, Enqueue(s, r)
      PROVE  JobInv'
  <2> DEFINE m == sess[s].mail
  <2>1. m \in Mails
      BY <1>9, <1>a, <1>d DEF Enqueue, Shape
  <2>2. /\ \A t \in Sessions : sess'[t].mail = sess[t].mail
        /\ \A t \in Sessions \ {s} : sess'[t] = sess[t]
        /\ sess'[s].left = sess[s].left \ {r}
        /\ sess'[s].pc \in {"enqueue", "copy"}
      BY <1>9, <1>a DEF Enqueue, SessOK, Session
  <2>4. AtWork(m, r) = {}
    <3>1. s \notin AtWork(m, r)
        BY <1>9 DEF Enqueue, AtWork, Queued
    <3>2. AtWork(m, r) \subseteq {s}
        BY <2>1 DEF AtWork, JobInv, Alone
    <3> QED
        BY <3>1, <3>2
  <2>5. told[m] = "pending"
      BY <1>9, <1>c, <2>1 DEF JobInv, Counted
  <2>6. \A n \in Mails, q \in Recipients :
            jobs'[n][q] = IF n = m /\ q = r THEN jobs[n][q] + 1 ELSE jobs[n][q]
      BY <1>9, <2>1 DEF Enqueue, Insert, RestOK
  <2>7. Alone'
      BY <2>2 DEF JobInv, Alone
  <2>8. ASSUME NEW n \in Mails, NEW q \in Recipients PROVE Counted(n, q)'
    <3>1. Counted(n, q) /\ jobs[n][q] \in Nat /\ missed[n][q] \in Nat
        BY <1>b DEF JobInv
    <3>2. UNCHANGED <<told, missed, copies>>
        BY <1>9 DEF Enqueue
    <3>3. CASE n = m /\ q = r
      <4>1. jobs[n][q] <= missed[n][q]
          BY <2>4, <2>5, <3>1, <3>3 DEF Counted
      <4>2. jobs'[n][q] = jobs[n][q] + 1 /\ told'[n] = "pending"
          BY <2>5, <2>6, <3>2, <3>3
      <4>3. s \in AtWork(n, q)'
          BY <2>2, <3>3 DEF AtWork, Queued
      <4> QED
          BY <3>1, <3>2, <4>1, <4>2, <4>3 DEF Counted
    <3>4. CASE ~(n = m /\ q = r)
      <4>1. jobs'[n][q] = jobs[n][q]
          BY <2>6, <3>4
      <4>2. ASSUME NEW t \in Sessions
            PROVE  t \in AtWork(n, q)' <=> t \in AtWork(n, q)
        <5>1. CASE t # s
            BY <2>2, <5>1 DEF AtWork, Queued
        <5>2. CASE t = s
            BY <1>9, <2>2, <3>4, <5>2 DEF Enqueue, AtWork, Queued
        <5> QED
            BY <5>1, <5>2
      <4>3. AtWork(n, q)' = AtWork(n, q)
          BY <4>2 DEF AtWork
      <4> QED
          BY <2>2, <3>1, <3>2, <4>1, <4>3 DEF Counted
    <3> QED
        BY <3>3, <3>4
  <2> QED
      BY <2>7, <2>8 DEF JobInv
\* A try ends at s, whose message is m: the jobs it made are left behind.
<1>10. ASSUME NEW s \in Sessions, Miss(s, Queued(s)), UNCHANGED <<jobs, told, copies>>,
              sess[s].pc \in {"enqueue", "copy", "accept"},
              \A t \in Sessions \ {s} : sess'[t] = sess[t],
              sess'[s].pc \notin {"enqueue", "copy", "accept"},
              sess'[s].mail \in {sess[s].mail, None}
       PROVE  JobInv'
  <2> DEFINE m == sess[s].mail
  <2>1. m \in Mails
      BY <1>10, <1>a, <1>d DEF Shape
  <2>a. \A t \in Sessions : sess'[t].mail \in {sess[t].mail, None}
      BY <1>10
  <2>b. UNCHANGED <<jobs, told, copies>>
      BY <1>10
  <2>2. Alone'
      BY <2>a DEF JobInv, Alone
  <2>3. ASSUME NEW n \in Mails, NEW r \in Recipients PROVE Counted(n, r)'
    <3>1. Counted(n, r) /\ jobs[n][r] \in Nat /\ missed[n][r] \in Nat
        BY <1>b DEF JobInv
    <3>2. AtWork(n, r)' = AtWork(n, r) \ {s}
        BY <1>10 DEF AtWork, Queued
    <3>3. missed'[n][r] = IF n = m /\ r \in Queued(s) THEN missed[n][r] + 1
                                                      ELSE missed[n][r]
        BY <1>10, <2>1 DEF Miss, MissedOK
    <3>4. s \in AtWork(n, r) <=> n = m /\ r \in Queued(s)
        BY <1>10 DEF AtWork
    <3>6. told'[n] = "accepted" => \A t \in Sessions : sess'[t].mail # n
        BY <2>a, <2>b, <3>1 DEF Counted
    <3>7. CASE s \in AtWork(n, r)
        BY <2>b, <3>1, <3>2, <3>3, <3>4, <3>6, <3>7 DEF Counted
    <3>8. CASE s \notin AtWork(n, r)
      <4>1. AtWork(n, r)' = AtWork(n, r) /\ missed'[n][r] = missed[n][r]
          BY <3>2, <3>3, <3>4, <3>8
      <4> QED
          BY <2>b, <3>1, <3>6, <4>1 DEF Counted
    <3> QED
        BY <3>7, <3>8
  <2> QED
      BY <2>2, <2>3 DEF JobInv
<1>11. ASSUME NEW s \in Sessions, EnqueueFails(s) PROVE JobInv'
  <2>1. /\ \A t \in Sessions \ {s} : sess'[t] = sess[t]
        /\ sess'[s].pc = "defer" /\ sess'[s].mail = sess[s].mail
      BY <1>11, <1>a DEF EnqueueFails, Goes, SessOK, Session
  <2> QED
      BY <1>10, <1>11, <2>1 DEF EnqueueFails
\* The last job of the try is there and was not heard of.
<1>11b. ASSUME NEW s \in Sessions, NEW r \in Recipients, EnqueueUnheard(s, r)
        PROVE  JobInv'
  <2> DEFINE m == sess[s].mail
             behind == Queued(s) \cup {r}
  <2>1. m \in Mails
      BY <1>11b, <1>a, <1>d DEF EnqueueUnheard, Shape
  <2>2. /\ \A t \in Sessions : sess'[t].mail = sess[t].mail
        /\ \A t \in Sessions \ {s} : sess'[t] = sess[t]
        /\ sess'[s].pc = "defer"
      BY <1>11b, <1>a DEF EnqueueUnheard, Goes, SessOK, Session
  <2>3. \A n \in Mails, q \in Recipients : AtWork(n, q)' = AtWork(n, q) \ {s}
      BY <2>2 DEF AtWork, Queued
  <2>4. \A q \in Recipients : AtWork(m, q) \subseteq {s}
      BY <2>1 DEF AtWork, JobInv, Alone
  <2>5. \A n \in Mails, q \in Recipients :
            s \in AtWork(n, q) <=> n = m /\ q \in Queued(s)
      BY <1>11b DEF EnqueueUnheard, AtWork
  <2>6. told[m] = "pending" /\ r \notin Queued(s)
      BY <1>11b, <1>c, <2>1 DEF EnqueueUnheard, JobInv, Counted, Queued
  <2>7. \A n \in Mails, q \in Recipients :
            jobs'[n][q] = IF n = m /\ q = r THEN jobs[n][q] + 1 ELSE jobs[n][q]
      BY <1>11b, <2>1 DEF EnqueueUnheard, Insert, RestOK
  <2>8. \A n \in Mails, q \in Recipients :
            missed'[n][q] = IF n = m /\ q \in behind THEN missed[n][q] + 1
                                                     ELSE missed[n][q]
      BY <1>11b, <2>1 DEF EnqueueUnheard, Miss, MissedOK
  <2>9. Alone'
      BY <2>2 DEF JobInv, Alone
  <2>10. ASSUME NEW n \in Mails, NEW q \in Recipients PROVE Counted(n, q)'
    <3>1. Counted(n, q) /\ jobs[n][q] \in Nat /\ missed[n][q] \in Nat
        BY <1>b DEF JobInv
    <3>2. UNCHANGED <<told, copies>>
        BY <1>11b DEF EnqueueUnheard
    <3>3. CASE n = m /\ q = r
      <4>1. AtWork(n, q) = {} /\ AtWork(n, q)' = {}
          BY <2>1, <2>3, <2>4, <2>5, <2>6, <3>3
      <4>2. jobs[n][q] <= missed[n][q]
          BY <2>6, <3>1, <3>3, <4>1 DEF Counted
      <4>3. /\ jobs'[n][q] = jobs[n][q] + 1 /\ missed'[n][q] = missed[n][q] + 1
            /\ told'[n] = "pending"
          BY <2>6, <2>7, <2>8, <3>2, <3>3
      <4> QED
          BY <3>1, <3>2, <4>1, <4>2, <4>3 DEF Counted
    <3>4. CASE n = m /\ q # r /\ q \in Queued(s)
      <4>1. AtWork(n, q)' = {} /\ AtWork(n, q) # {}
          BY <2>1, <2>3, <2>4, <2>5, <3>4
      <4>2. /\ jobs'[n][q] = jobs[n][q] /\ missed'[n][q] = missed[n][q] + 1
            /\ told'[n] = "pending"
          BY <2>6, <2>7, <2>8, <3>2, <3>4
      <4> QED
          BY <3>1, <3>2, <4>1, <4>2 DEF Counted
    <3>5. CASE ~(n = m /\ q \in behind)
      <4>1. AtWork(n, q)' = AtWork(n, q)
        <5>1. s \notin AtWork(n, q)
            BY <2>5, <3>5
        <5>2. AtWork(n, q)' = AtWork(n, q) \ {s}
            BY <2>3
        <5> QED
            BY <5>1, <5>2
      <4>2. jobs'[n][q] = jobs[n][q] /\ missed'[n][q] = missed[n][q]
          BY <2>7, <2>8, <3>5
      <4> QED
          BY <2>2, <3>1, <3>2, <4>1, <4>2 DEF Counted
    <3> QED
        BY <3>3, <3>4, <3>5
  <2> QED
      BY <2>9, <2>10 DEF JobInv
<1>12. ASSUME NEW s \in Sessions, FileSentCopy(s) PROVE JobInv'
  <2> DEFINE m == sess[s].mail
  <2>1. m \in Mails /\ sess[s].left = {}
      BY <1>12, <1>a, <1>d DEF FileSentCopy, Shape
  <2>2. Goes(s, "accept")
      BY <1>12 DEF FileSentCopy
  <2>3. /\ \A t \in Sessions : sess'[t].mail = sess[t].mail
        /\ \A n \in Mails, r \in Recipients : AtWork(n, r)' = AtWork(n, r)
      BY <1>12, <2>2, GoesOnly DEF FileSentCopy, AtWork, Queued
  <2>4. \A r \in Recipients : s \in AtWork(m, r)
      BY <1>12, <2>1 DEF FileSentCopy, AtWork, Queued
  <2>5. \A r \in Recipients : jobs[m][r] > 0
      BY <2>1, <2>4 DEF JobInv, Counted
  <2>6. \A n \in Mails : n # m => copies'[n] = copies[n]
      BY <1>12 DEF FileSentCopy, RestOK
  <2>7. Alone'
      BY <2>3 DEF JobInv, Alone
  <2>8. ASSUME NEW n \in Mails, NEW r \in Recipients PROVE Counted(n, r)'
    <3>1. Counted(n, r)
        BY DEF JobInv
    <3>2. UNCHANGED <<jobs, told, missed>>
        BY <1>12 DEF FileSentCopy
    <3> QED
        BY <2>3, <2>5, <2>6, <3>1, <3>2 DEF Counted
  <2> QED
      BY <2>7, <2>8 DEF JobInv
<1>13. ASSUME NEW s \in Sessions, Answer(s) PROVE JobInv'
  <2> DEFINE m == sess[s].mail
  <2>1. m \in Mails /\ (sess[s].pc = "accept" => sess[s].left = {})
      BY <1>13, <1>a, <1>d DEF Answer, Shape
  <2>2. /\ \A t \in Sessions \ {s} : sess'[t] = sess[t]
        /\ sess'[s].pc = "idle" /\ sess'[s].mail = None
      BY <1>13, <1>a DEF Answer, Released, Idle, SessOK
  <2>3. CASE sess[s].pc = "accept" /\ Miss(s, Queued(s)) /\ UNCHANGED told
      BY <1>10, <1>13, <2>2, <2>3 DEF Answer
  <2>4. CASE /\ UNCHANGED missed
             /\ told' = [told EXCEPT ![m] =
                           IF sess[s].pc = "accept" THEN "accepted" ELSE @]
    <3>1. Alone'
        BY <2>2 DEF JobInv, Alone
    <3>2. ASSUME NEW n \in Mails, NEW r \in Recipients PROVE Counted(n, r)'
      <4>1. Counted(n, r) /\ jobs[n][r] \in Nat /\ missed[n][r] \in Nat
          BY <1>b DEF JobInv
      <4>2. AtWork(n, r)' = AtWork(n, r) \ {s}
          BY <2>2 DEF AtWork, Queued
      <4>3. UNCHANGED <<jobs, copies, missed>>
          BY <1>13, <2>4 DEF Answer
      <4>4. CASE n = m /\ sess[s].pc = "accept"
        <5>1. s \in AtWork(n, r) /\ told'[n] = "accepted"
            BY <2>1, <2>4, <4>4 DEF AtWork, Queued, RestOK
        <5>2. \A t \in Sessions : sess'[t].mail # n
            BY <2>1, <2>2, <4>4 DEF JobInv, Alone
        <5> QED
            BY <4>1, <4>3, <5>1, <5>2 DEF Counted
      <4>5. CASE ~(n = m /\ sess[s].pc = "accept")
        <5>1. s \notin AtWork(n, r)
            BY <1>13, <4>5 DEF Answer, AtWork
        <5>2. told'[n] = told[n]
            BY <2>1, <2>4, <4>5 DEF RestOK
        <5>3. \A t \in Sessions : sess'[t].mail \in {sess[t].mail, None}
            BY <2>2
        <5>4. AtWork(n, r)' = AtWork(n, r)
            BY <4>2, <5>1
        <5> QED
            BY <4>1, <4>3, <5>2, <5>3, <5>4 DEF Counted
      <4> QED
          BY <4>4, <4>5
    <3> QED
        BY <3>1, <3>2 DEF JobInv
  <2> QED
      BY <1>13, <2>3, <2>4 DEF Answer
<1>14. ASSUME NEW a \in Accounts, HourPasses(a) \/ SetActive(a) PROVE JobInv'
  <2>1. UNCHANGED <<sess, jobs, copies, told, missed>>
      BY <1>14 DEF HourPasses, SetActive
  <2> QED
      BY <1>1, <2>1 DEF AtWork, Queued
<1>15. CASE Crash
  <2>1. \A s \in Sessions : sess'[s].mail = None /\ sess'[s].pc = "idle"
      BY <1>15 DEF Crash, Idle
  <2>2. Alone'
      BY <2>1 DEF Alone
  <2>3. ASSUME NEW m \in Mails, NEW r \in Recipients PROVE Counted(m, r)'
    <3>1. Counted(m, r) /\ jobs[m][r] \in Nat /\ missed[m][r] \in Nat
        BY <1>b DEF JobInv
    <3>2. missed'[m][r] = missed[m][r] + Cardinality(AtWork(m, r))
        BY <1>15 DEF Crash, AtWork
    <3>3. AtWork(m, r) # {} => Cardinality(AtWork(m, r)) > 0
        BY AtWorkCount, FS_EmptySet
    <3>4. Cardinality(AtWork(m, r)) \in Nat
        BY AtWorkCount
    <3>5. \A s \in Sessions : sess'[s].mail # m
        BY <2>1
    <3>6. UNCHANGED <<jobs, told, copies>> /\ AtWork(m, r)' = {}
        BY <1>15, <2>1 DEF Crash, AtWork
    <3>7. told[m] \in {"pending", "accepted"}
        BY <1>c
    <3> QED
        BY <3>1, <3>2, <3>3, <3>4, <3>5, <3>6, <3>7 DEF Counted
  <2> QED
      BY <2>2, <2>3 DEF JobInv
<1>16. CASE UNCHANGED vars
    BY <1>1, <1>16 DEF vars, AtWork, Queued
<1> QED
    BY <1>3, <1>4, <1>5, <1>6, <1>7, <1>8, <1>9, <1>11, <1>11b, <1>12, <1>13,
       <1>14, <1>15, <1>16 DEF Next, SessionStep

\* The account of the jobs holds at the start.
LEMMA JobInit == Init => JobInv
BY SubmissionAssumption DEF Init, Idle, JobInv, Alone, Counted, AtWork

\* A copy in Sent is only ever there with a job for every recipient.
THEOREM SentCopyQueued == Spec => []SentCopyMeansQueued
<1>1. Init => Parts /\ JobInv
    BY PartsInit, JobInit DEF Parts
<1>2. Parts /\ JobInv /\ [Next]_vars => Parts' /\ JobInv'
    BY PartsStep, JobStep DEF Parts
<1>3. Parts /\ JobInv => SentCopyMeansQueued
    BY DEF JobInv, Counted, SentCopyMeansQueued
<1> QED
    BY <1>1, <1>2, <1>3, PTL DEF Spec

\* An accepted message has a job for every recipient, and a recipient has a
\* second one only for each try that failed or whose answer was lost.
THEOREM JobsExplained == Spec => []JobsAreExplained
<1>1. Init => Parts /\ JobInv
    BY PartsInit, JobInit DEF Parts
<1>2. Parts /\ JobInv /\ [Next]_vars => Parts' /\ JobInv'
    BY PartsStep, JobStep DEF Parts
<1>3. Parts /\ JobInv => JobsAreExplained
    BY DEF JobInv, Counted, JobsAreExplained
<1> QED
    BY <1>1, <1>2, <1>3, PTL DEF Spec

-----------------------------------------------------------------------------
\* The jobs sessions of account a may still create without another look at
\* the limit, as pairs of session and recipient.
Unchecked(a) ==
    {p \in Sessions \X Recipients :
        /\ sess[p[1]].user = a
        /\ sess[p[1]].pc \in {"sign", "enqueue"}
        /\ p[2] \in sess[p[1]].left}

MaxOverrun == (Cardinality(Sessions) - 1) * Cardinality(Recipients)

\* The jobs of the last hour, and those no check will stop any more.
LimitInv ==
    Limit > 0 => \A a \in Accounts :
        recent[a] + Cardinality(Unchecked(a)) <= Limit + MaxOverrun

\* Session and recipient pairs are bounded by the overrun and one message.
LEMMA PairsCount ==
    ASSUME NEW P \in SUBSET (Sessions \X Recipients)
    PROVE  /\ IsFiniteSet(P) /\ Cardinality(P) \in Nat
           /\ MaxOverrun \in Nat
           /\ Cardinality(Recipients) \in Nat
           /\ Cardinality(P) <= MaxOverrun + Cardinality(Recipients)
<1> DEFINE S == Cardinality(Sessions)
           R == Cardinality(Recipients)
<1>1. S \in Nat /\ R \in Nat /\ S > 0
    BY SubmissionAssumption, FS_CardinalityType, FS_EmptySet
<1>2. IsFiniteSet(Sessions \X Recipients)
      /\ Cardinality(Sessions \X Recipients) = S * R
    BY SubmissionAssumption, FS_Product
<1>3. IsFiniteSet(P) /\ Cardinality(P) \in Nat /\ Cardinality(P) <= S * R
    BY <1>2, FS_Subset, FS_CardinalityType
<1>4. MaxOverrun = (S - 1) * R
    BY DEF MaxOverrun
<1> HIDE DEF S, R
<1>5. (S - 1) * R \in Nat /\ S * R = (S - 1) * R + R
    BY <1>1
<1>6. MaxOverrun \in Nat /\ Cardinality(P) <= MaxOverrun + R
    BY <1>1, <1>3, <1>4, <1>5
<1> QED
    BY <1>1, <1>3, <1>6 DEF R

\* Nothing new to create for a when no session comes past its check.
LEMMA UncheckedShrinks ==
    ASSUME NEW a,
           \A t \in Sessions : sess'[t].pc \in {"sign", "enqueue"} =>
               /\ sess[t].pc \in {"sign", "enqueue"}
               /\ sess'[t].user = sess[t].user
               /\ sess'[t].left \subseteq sess[t].left
    PROVE  Cardinality(Unchecked(a)') <= Cardinality(Unchecked(a))
<1>1. Unchecked(a)' \subseteq Unchecked(a)
  <2> SUFFICES ASSUME NEW p \in Unchecked(a)' PROVE p \in Unchecked(a)
      OBVIOUS
  <2>1. p \in Sessions \X Recipients /\ p[1] \in Sessions
      BY DEF Unchecked
  <2>2. /\ sess'[p[1]].user = a /\ sess'[p[1]].pc \in {"sign", "enqueue"}
        /\ p[2] \in sess'[p[1]].left
      BY DEF Unchecked
  <2> QED
      BY <2>1, <2>2 DEF Unchecked
<1>2. IsFiniteSet(Unchecked(a))
    BY PairsCount DEF Unchecked
<1> QED
    BY <1>1, <1>2, FS_Subset

\* A check counts the jobs so far and the message's own, so what other
\* sessions may still create is all that can go over the limit.
LEMMA LimitStep == Parts /\ LimitInv /\ [Next]_vars => LimitInv'
<1> SUFFICES ASSUME SessOK, RestOK, LimitInv, [Next]_vars, Limit > 0,
                    NEW a \in Accounts
             PROVE  recent'[a] + Cardinality(Unchecked(a)') <= Limit + MaxOverrun
    BY DEF Parts, LimitInv, MaxOverrun
<1> DEFINE Goal == recent'[a] + Cardinality(Unchecked(a)') <= Limit + MaxOverrun
           Past == {"sign", "enqueue"}
<1>a. \A s \in Sessions : sess[s] \in Session /\ Shape(sess[s])
    BY DEF SessOK
<1>b. /\ recent[a] \in Nat /\ Limit \in Nat
      /\ recent[a] + Cardinality(Unchecked(a)) <= Limit + MaxOverrun
    BY SubmissionAssumption DEF RestOK, LimitInv
<1>c. /\ Cardinality(Unchecked(a)) \in Nat /\ IsFiniteSet(Unchecked(a))
      /\ MaxOverrun \in Nat /\ Cardinality(Recipients) \in Nat
    BY PairsCount DEF Unchecked
<1>d. /\ Cardinality(Unchecked(a)') \in Nat
      /\ Cardinality(Unchecked(a)') <= MaxOverrun + Cardinality(Recipients)
    BY PairsCount DEF Unchecked
<1> USE DEF queue, account
<1>1. ASSUME \A t \in Sessions : sess'[t].pc \in Past =>
                 /\ sess[t].pc \in Past
                 /\ sess'[t].user = sess[t].user
                 /\ sess'[t].left \subseteq sess[t].left,
             recent'[a] \in Nat, recent'[a] <= recent[a]
      PROVE  Goal
  <2>1. Cardinality(Unchecked(a)') <= Cardinality(Unchecked(a))
      BY <1>1, UncheckedShrinks
  <2> QED
      BY <1>1, <1>b, <1>c, <1>d, <2>1
<1>2. ASSUME NEW s \in Sessions, NEW b \in Accounts, LookUp(s, b) PROVE Goal
  <2>1. \A t \in Sessions : IF t = s THEN sess'[t].pc = "verify"
                                     ELSE sess'[t] = sess[t]
      BY <1>2, <1>a DEF LookUp, SessOK, Session
  <2>2. recent' = recent
      BY <1>2 DEF LookUp
  <2> QED
      BY <1>1, <1>b, <2>1, <2>2
<1>3. ASSUME NEW s \in Sessions, VerifyCredential(s) PROVE Goal
  <2>1. \A t \in Sessions : IF t = s THEN sess'[t].pc = "idle"
                                     ELSE sess'[t] = sess[t]
      BY <1>3, <1>a DEF VerifyCredential, Goes, Idle, SessOK, Session
  <2> QED
      BY <1>1, <1>3, <1>b, <2>1 DEF VerifyCredential
<1>4. ASSUME NEW s \in Sessions, Logout(s) PROVE Goal
  <2>1. \A t \in Sessions : IF t = s THEN sess'[t].pc = "idle"
                                     ELSE sess'[t] = sess[t]
      BY <1>4, <1>a DEF Logout, SessOK, Session
  <2> QED
      BY <1>1, <1>4, <1>b, <2>1 DEF Logout
<1>5. ASSUME NEW s \in Sessions, NEW m \in Mails, Mail(s, m) PROVE Goal
  <2>1. \A t \in Sessions : IF t = s THEN sess'[t].pc = "limit"
                                     ELSE sess'[t] = sess[t]
      BY <1>5, <1>a DEF Mail, SessOK, Session
  <2>2. recent' = recent
      BY <1>5 DEF Mail
  <2> QED
      BY <1>1, <1>b, <2>1, <2>2
<1>6. ASSUME NEW s \in Sessions, CheckSendLimit(s) PROVE Goal
  <2>1. CASE Goes(s, "defer")
    <3>1. \A t \in Sessions : IF t = s THEN sess'[t].pc = "defer"
                                       ELSE sess'[t] = sess[t]
        BY <2>1, <1>a DEF Goes, SessOK, Session
    <3> QED
        BY <1>1, <1>6, <1>b, <3>1 DEF CheckSendLimit
  <2>2. CASE /\ Goes(s, "sign")
             /\ WithinLimit(sess[s].user, Cardinality(Recipients))
    <3>1. CASE sess[s].user = a
      <4>1. recent[a] + Cardinality(Recipients) <= Limit /\ recent' = recent
          BY <1>6, <1>b, <2>2, <3>1 DEF WithinLimit, CheckSendLimit
      <4> QED
          BY <1>b, <1>c, <1>d, <4>1
    <3>2. CASE sess[s].user # a
      <4>1. \A t \in Sessions :
                IF t = s THEN sess'[t].user = sess[t].user
                         ELSE sess'[t] = sess[t]
          BY <2>2, <1>a DEF Goes, SessOK, Session
      <4>2. ASSUME NEW p \in Unchecked(a)' PROVE p \in Unchecked(a)
        <5>1. /\ p \in Sessions \X Recipients /\ p[1] \in Sessions
              /\ sess'[p[1]].user = a
            BY DEF Unchecked
        <5>2. p[1] # s /\ sess'[p[1]] = sess[p[1]]
            BY <3>2, <4>1, <5>1
        <5> QED
            BY <5>1, <5>2 DEF Unchecked
      <4>3. Cardinality(Unchecked(a)') <= Cardinality(Unchecked(a))
          BY <1>c, <4>2, FS_Subset
      <4> QED
          BY <1>6, <1>b, <1>c, <1>d, <4>3 DEF CheckSendLimit
    <3> QED
        BY <3>1, <3>2
  <2> QED
      BY <1>6, <2>1, <2>2 DEF CheckSendLimit
<1>7. ASSUME NEW s \in Sessions,
             SignAndStore(s) \/ EnqueueFails(s) \/ FileSentCopy(s)
      PROVE  Goal
  <2>1. PICK p : Goes(s, p) /\ (p \in Past => sess[s].pc \in Past)
      BY <1>7 DEF SignAndStore, EnqueueFails, FileSentCopy
  <2>2. \A t \in Sessions :
            IF t = s THEN sess'[t].pc = p /\ sess'[t].user = sess[t].user
                          /\ sess'[t].left = sess[t].left
                     ELSE sess'[t] = sess[t]
      BY <2>1, <1>a DEF Goes, SessOK, Session
  <2>3. recent' = recent
      BY <1>7 DEF SignAndStore, EnqueueFails, FileSentCopy
  <2> QED
      BY <1>1, <1>b, <2>1, <2>2, <2>3
<1>8. ASSUME NEW s \in Sessions, NEW r \in Recipients,
             Enqueue(s, r) \/ EnqueueUnheard(s, r)
      PROVE  Goal
  <2>1. \A t \in Sessions :
            IF t = s THEN /\ sess'[t].user = sess[t].user
                          /\ sess'[t].pc \in Past =>
                                 sess'[t].left = sess[t].left \ {r}
                     ELSE sess'[t] = sess[t]
    <3>1. CASE Enqueue(s, r)
        BY <1>a, <3>1 DEF Enqueue, SessOK, Session
    <3>2. CASE EnqueueUnheard(s, r)
        BY <1>a, <3>2 DEF EnqueueUnheard, Goes, SessOK, Session
    <3> QED
        BY <1>8, <3>1, <3>2
  <2>2. sess[s].pc = "enqueue" /\ r \in sess[s].left /\ Insert(s, r)
      BY <1>8 DEF Enqueue, EnqueueUnheard
  <2>3. CASE sess[s].user # a
    <3>1. recent'[a] = recent[a]
        BY <2>2, <2>3 DEF Insert, RestOK
    <3> QED
        BY <1>1, <1>b, <2>1, <2>2, <3>1
  <2>4. CASE sess[s].user = a
    <3>1. recent'[a] = recent[a] + 1
        BY <1>b, <2>2, <2>4 DEF Insert, RestOK
    <3>2. <<s, r>> \in Unchecked(a)
        BY <2>2, <2>4 DEF Unchecked
    <3>3. ASSUME NEW p \in Unchecked(a)' PROVE p \in Unchecked(a) \ {<<s, r>>}
      <4>1. /\ p \in Sessions \X Recipients /\ p[1] \in Sessions
            /\ sess'[p[1]].user = a /\ sess'[p[1]].pc \in Past
            /\ p[2] \in sess'[p[1]].left
          BY DEF Unchecked
      <4>2. CASE p[1] = s
          BY <2>1, <2>2, <2>4, <4>1, <4>2 DEF Unchecked
      <4>3. CASE p[1] # s
          BY <2>1, <4>1, <4>3 DEF Unchecked
      <4> QED
          BY <4>2, <4>3
    <3>4. Cardinality(Unchecked(a)') <= Cardinality(Unchecked(a) \ {<<s, r>>})
        BY <1>c, <3>3, FS_Subset, FS_RemoveElement
    <3>5. Cardinality(Unchecked(a) \ {<<s, r>>}) = Cardinality(Unchecked(a)) - 1
        BY <1>c, <3>2, FS_RemoveElement
    <3> QED
        BY <1>b, <1>c, <1>d, <3>1, <3>4, <3>5
  <2> QED
      BY <2>3, <2>4
<1>9. ASSUME NEW s \in Sessions, Answer(s) PROVE Goal
  <2>1. \A t \in Sessions : IF t = s THEN sess'[t].pc = "idle"
                                     ELSE sess'[t] = sess[t]
      BY <1>9, <1>a DEF Answer, Released, Idle, SessOK
  <2> QED
      BY <1>1, <1>9, <1>b, <2>1 DEF Answer
<1>10. ASSUME NEW b \in Accounts, HourPasses(b) PROVE Goal
  <2>1. recent'[a] \in Nat /\ recent'[a] <= recent[a]
      BY <1>10, <1>b DEF HourPasses, RestOK
  <2> QED
      BY <1>1, <1>10, <2>1 DEF HourPasses
<1>11. ASSUME NEW b \in Accounts, SetActive(b) PROVE Goal
    BY <1>1, <1>11, <1>b DEF SetActive
<1>12. CASE Crash
  <2>1. \A t \in Sessions : sess'[t].pc = "idle"
      BY <1>12 DEF Crash, Idle
  <2> QED
      BY <1>1, <1>12, <1>b, <2>1 DEF Crash
<1>13. CASE UNCHANGED vars
    BY <1>1, <1>13, <1>b DEF vars
<1> QED
    BY <1>2, <1>3, <1>4, <1>5, <1>6, <1>7, <1>8, <1>9, <1>10, <1>11, <1>12,
       <1>13 DEF Next, SessionStep

\* The bound on the overrun holds at the start.
LEMMA LimitInit == Init => LimitInv
<1> SUFFICES ASSUME Init, NEW a \in Accounts
             PROVE  recent[a] + Cardinality(Unchecked(a)) <= Limit + MaxOverrun
    BY DEF LimitInv
<1>1. Unchecked(a) = {} /\ recent[a] = 0
    BY DEF Init, Idle, Unchecked
<1>2. MaxOverrun \in Nat /\ Limit \in Nat
    BY PairsCount, SubmissionAssumption
<1> QED
    BY <1>1, <1>2, FS_EmptySet

\* The jobs of an hour pass the limit by at most one message for each other
\* session, however the checks and the inserts of the sessions interleave.
THEOREM LimitOverrunBounded == Spec => []LimitOverrunIsBounded
<1>1. Init => Parts /\ LimitInv
    BY PartsInit, LimitInit DEF Parts
<1>2. Parts /\ LimitInv /\ [Next]_vars => Parts' /\ LimitInv'
    BY PartsStep, LimitStep DEF Parts
<1>3. Parts /\ LimitInv => LimitOverrunIsBounded
  <2> SUFFICES ASSUME RestOK, LimitInv, Limit > 0, NEW a \in Accounts
               PROVE  recent[a] <= Limit + MaxOverrun
      BY DEF Parts, LimitOverrunIsBounded, MaxOverrun
  <2>1. Cardinality(Unchecked(a)) \in Nat /\ MaxOverrun \in Nat
      BY PairsCount DEF Unchecked
  <2>2. recent[a] \in Nat /\ Limit \in Nat
      BY SubmissionAssumption DEF RestOK
  <2>3. recent[a] + Cardinality(Unchecked(a)) <= Limit + MaxOverrun
      BY DEF LimitInv
  <2> QED
      BY <2>1, <2>2, <2>3
<1> QED
    BY <1>1, <1>2, <1>3, PTL DEF Spec
=============================================================================
