----------------------- MODULE InboundDeliveryProofs -----------------------
(***************************************************************************)
(* Proofs about InboundDelivery, for any number of sessions, messages,     *)
(* mailboxes, addresses and aliases, any rules, and any number of faults   *)
(* and retries.                                                            *)
(***************************************************************************)
EXTENDS InboundDelivery, FiniteSetTheorems, TLAPS

Pairs == Addresses \X Mailboxes

Session == [pc: Points, mail: Mails \cup {None}, rcpts: SUBSET Addresses,
            folder: FolderNames, decision: [Pairs -> Decisions \cup {"keep"}],
            replies: SUBSET Pairs, sent: SUBSET Pairs,
            counts: [Mailboxes -> Nat], heard: BOOLEAN]

\* The sender is past RCPT and the copies are not written yet; they are
\* written, or every mailbox dropped its own.
Early(v) == v.pc \in {"scan", "store", "rules", "persist"}
Past(v)  == v.pc \in {"reply", "record", "notify", "announce", "accept"}

\* p is a copy the session has to make: an address taken, and a mailbox it
\* leads to.
IsTarget(v, p) == p[1] \in v.rcpts /\ p[2] \in Resolve[p[1]]

\* What a session is at each point: it has a message while it is not idle, a
\* sender while the envelope is being told, a reply in hand while it records
\* one, and it took no address that leads nowhere.
Shape(v) ==
    /\ v.pc = "idle" => v = Idle
    /\ v.pc # "idle" => v.mail \in Mails
    /\ v.pc = "rcpt" => v.heard
    /\ \A a \in v.rcpts : Resolve[a] # {}
    /\ \A p \in v.replies : IsTarget(v, p)
    /\ v.pc # "record" => v.sent = {}
    /\ v.pc = "record" => \E p \in v.replies : p[1] \in Direct /\ v.sent = {p}

SessOK ==
    /\ sess \in [Sessions -> Session]
    /\ \A s \in Sessions : Shape(sess[s])

SenderOK ==
    /\ outcome \in [Mails -> [Addresses -> {"pending", "accepted", "refused"}]]
    /\ tries \in 0..MaxTries
    /\ lost \in [Mails -> Nat]

RowsOK ==
    /\ used \in [Mailboxes -> Nat]
    /\ unchecked \in [Mailboxes -> Nat]
    /\ copies \in [Mails -> [Pairs -> Nat]]
    /\ box \in [Mailboxes -> [FolderNames -> Nat]]

RestOK ==
    /\ discarded \subseteq Mails \X Pairs
    /\ reports \subseteq Mails
    /\ log \subseteq Mailboxes
    /\ told \in [Mailboxes -> Nat]
    /\ overlap \in BOOLEAN
    /\ announced \in [Mailboxes -> [FolderNames -> Nat]]
    /\ faults \in 0..MaxFaults

TypeInv == SessOK /\ SenderOK /\ RowsOK /\ RestOK

\* The invariant of the proofs contains the type invariant.
LEMMA InvIsTyped == TypeInv => TypeOK
<1> SUFFICES ASSUME TypeInv PROVE TypeOK
    OBVIOUS
<1>1. \A s \in Sessions : sess[s].pc = "record" => sess[s].sent # {}
    BY DEF TypeInv, SessOK, Shape
<1> QED
    BY <1>1 DEF TypeInv, TypeOK, SessOK, SenderOK, RowsOK, RestOK, Session, Pairs

\* A session at rest has its type and its shape.
LEMMA IdleIsSession == Idle \in Session /\ Shape(Idle)
BY DEF Idle, Session, Shape, Pairs, Points, FolderNames

\* The types hold at the start.
LEMMA TypeInit == Init => TypeInv
<1> SUFFICES ASSUME Init PROVE TypeInv
    OBVIOUS
<1>1. SessOK
    BY IdleIsSession DEF Init, SessOK
<1>2. SenderOK
    BY InboundAssumption DEF Init, SenderOK
<1>3. RowsOK
    BY DEF Init, RowsOK, Pairs
<1>4. RestOK
  <2>1. faults \in 0..MaxFaults
      BY InboundAssumption DEF Init
  <2>2. told \in [Mailboxes -> Nat] /\ announced \in [Mailboxes -> [FolderNames -> Nat]]
      BY DEF Init
  <2> QED
      BY <2>1, <2>2 DEF Init, RestOK
<1> QED
    BY <1>1, <1>2, <1>3, <1>4 DEF TypeInv

\* One session changes to a session.
LEMMA SessionChanges ==
    ASSUME SessOK, NEW s \in Sessions, NEW v \in Session, Shape(v),
           sess' = [sess EXCEPT ![s] = v]
    PROVE  SessOK'
<1>1. sess' \in [Sessions -> Session]
    BY DEF SessOK
<1>2. ASSUME NEW t \in Sessions PROVE Shape(sess'[t])
  <2>1. sess'[t] = IF t = s THEN v ELSE sess[t]
      BY DEF SessOK
  <2> QED
      BY <2>1 DEF SessOK
<1> QED
    BY <1>1, <1>2 DEF SessOK, Shape, IsTarget

\* A session in the pipeline goes from one point of it to another.
LEMMA GoesShape ==
    ASSUME SessOK, NEW s \in Sessions,
           NEW p \in Points \ {"idle", "rcpt", "record"}, Goes(s, p),
           sess[s].pc \notin {"idle", "record"}
    PROVE  SessOK'
<1> DEFINE v == [sess[s] EXCEPT !.pc = p]
<1>1. sess[s] \in Session /\ Shape(sess[s])
    BY DEF SessOK
<1>2. v \in Session
    BY <1>1 DEF Session
<1>3. Shape(v)
    BY <1>1 DEF Session, Shape, IsTarget
<1>4. sess' = [sess EXCEPT ![s] = v]
    BY DEF Goes, SessOK
<1> QED
    BY <1>2, <1>3, <1>4, SessionChanges

\* A fault stays within its bound.
LEMMA FaultyType == ASSUME RestOK, Faulty PROVE faults' \in 0..MaxFaults
BY InboundAssumption DEF Faulty, RestOK

\* Copies of a mailbox among finitely many are a number of copies.
LEMMA CountType ==
    \A P \in SUBSET Pairs : IsFiniteSet(P) /\ Cardinality(P) \in Nat
<1>1. IsFiniteSet(Pairs)
    BY InboundAssumption, FS_Product DEF Pairs
<1> QED
    BY <1>1, FS_Subset, FS_CardinalityType

\* What is written is rows: one more per copy, for the mailbox it is for.
LEMMA FiledRows ==
    ASSUME TypeInv, NEW s \in Sessions, sess[s].mail \in Mails,
           NEW P \in SUBSET Pairs, Filed(s, P)
    PROVE  /\ RowsOK'
           /\ \A m \in Mails, p \in Pairs :
                copies'[m][p] = IF m = sess[s].mail /\ p \in P
                                THEN copies[m][p] + 1 ELSE copies[m][p]
           /\ \A b \in Mailboxes :
                /\ used'[b] = used[b] + Cardinality({p \in P : p[2] = b})
                /\ unchecked'[b] = IF sess[s].mail \in Local
                       THEN unchecked[b] + Cardinality({p \in P : p[2] = b})
                       ELSE unchecked[b]
<1> DEFINE In(b, F) == {p \in P : p[2] = b /\ FiledIn(s, p) \in F}
           m0 == sess[s].mail
<1>1. \A b, F : Cardinality(In(b, F)) \in Nat
    BY CountType
<1>2. copies[m0] \in [Pairs -> Nat]
    BY DEF TypeInv, RowsOK
<1>3. [p \in Pairs |-> IF p \in P THEN copies[m0][p] + 1 ELSE copies[m0][p]]
          \in [Pairs -> Nat]
    BY <1>2
<1>4. copies' = [copies EXCEPT ![m0] =
           [p \in Pairs |-> IF p \in P THEN copies[m0][p] + 1 ELSE copies[m0][p]]]
    BY DEF Filed, Pairs, TypeInv, RowsOK
<1>5. copies' \in [Mails -> [Pairs -> Nat]]
    BY <1>3, <1>4 DEF TypeInv, RowsOK
<1>6. /\ used' = [b \in Mailboxes |-> used[b] + Cardinality(In(b, FolderNames))]
      /\ box' = [b \in Mailboxes |-> [f \in FolderNames |->
                   box[b][f] + Cardinality(In(b, {f}))]]
      /\ unchecked' = IF ByWorker(s)
           THEN [b \in Mailboxes |-> unchecked[b] + Cardinality(In(b, FolderNames))]
           ELSE unchecked
    BY DEF Filed, ByWorker
<1> HIDE DEF In
<1>7. /\ used' \in [Mailboxes -> Nat] /\ unchecked' \in [Mailboxes -> Nat]
      /\ box' \in [Mailboxes -> [FolderNames -> Nat]]
  <2>1. \A b \in Mailboxes : /\ used[b] + Cardinality(In(b, FolderNames)) \in Nat
                              /\ unchecked[b] + Cardinality(In(b, FolderNames)) \in Nat
                              /\ unchecked[b] \in Nat
      BY <1>1 DEF TypeInv, RowsOK
  <2>2. \A b \in Mailboxes, f \in FolderNames :
            box[b][f] + Cardinality(In(b, {f})) \in Nat
      BY <1>1 DEF TypeInv, RowsOK
  <2> QED
      BY <1>6, <2>1, <2>2 DEF TypeInv, RowsOK
<1>8. \A p \in Pairs : FiledIn(s, p) \in FolderNames
  <2> TAKE p \in Pairs
  <2>1. sess[s].folder \in FolderNames
      BY DEF TypeInv, SessOK, Session
  <2> QED
      BY <2>1 DEF FiledIn, FolderNames
<1>9. \A b : In(b, FolderNames) = {p \in P : p[2] = b}
    BY <1>8 DEF In
<1>10. \A m \in Mails, p \in Pairs :
          copies'[m][p] = IF m = m0 /\ p \in P THEN copies[m][p] + 1
                                               ELSE copies[m][p]
    BY <1>4 DEF TypeInv, RowsOK
<1> QED
    BY <1>5, <1>6, <1>7, <1>9, <1>10 DEF RowsOK, ByWorker

\* Each step keeps sessions in shape and the tables in their types.
LEMMA TypeStep == TypeInv /\ [Next]_vars => TypeInv'
<1> SUFFICES ASSUME SessOK, SenderOK, RowsOK, RestOK, [Next]_vars
             PROVE  SessOK' /\ SenderOK' /\ RowsOK' /\ RestOK'
    BY DEF TypeInv
<1>a. \A s \in Sessions : sess[s] \in Session /\ Shape(sess[s])
    BY DEF SessOK
<1>b. UNCHANGED sender => SenderOK'
    BY DEF sender, SenderOK
<1>c. UNCHANGED <<used, unchecked, copies, box>> => RowsOK'
    BY DEF RowsOK
<1>d. UNCHANGED <<discarded, reports, vacation, announced, faults>> => RestOK'
    BY DEF vacation, RestOK
<1>e. UNCHANGED store =>
          UNCHANGED <<used, unchecked, copies, box, discarded, reports>>
    BY DEF store
<1>f. \A s \in Sessions : sess[s].pc # "idle" => sess[s].mail \in Mails
    BY <1>a DEF Shape
<1> DEFINE Goal == SessOK' /\ SenderOK' /\ RowsOK' /\ RestOK'
<1>1. ASSUME NEW s \in Sessions, NEW m \in Mails, Mail(s, m) PROVE Goal
  <2> DEFINE v == [Idle EXCEPT !.pc = "rcpt", !.mail = m]
  <2>1. v \in Session /\ Shape(v)
      BY IdleIsSession DEF Idle, Session, Shape, Points
  <2>2. sess' = [sess EXCEPT ![s] = v]
      BY <1>1 DEF Mail
  <2>3. SessOK'
      BY <2>1, <2>2, SessionChanges
  <2>4. tries' \in 0..MaxTries
      BY <1>1, InboundAssumption DEF Mail, Begins, SenderOK
  <2> QED
      BY <1>1, <1>c, <1>d, <1>e, <2>3, <2>4 DEF Mail, Begins, SenderOK
<1>0. ASSUME NEW s \in Sessions, NEW m \in Local, NEW a \in Addresses,
             HandOver(s, m, a)
      PROVE  Goal
  <2> DEFINE v == [Idle EXCEPT !.pc = "scan", !.mail = m, !.rcpts = {a}]
  <2>1. v \in Session /\ Shape(v)
      BY <1>0, IdleIsSession, InboundAssumption
         DEF HandOver, Idle, Session, Shape, Points
  <2>2. sess' = [sess EXCEPT ![s] = v]
      BY <1>0 DEF HandOver
  <2>3. SessOK'
      BY <2>1, <2>2, SessionChanges
  <2>4. tries' \in 0..MaxTries
      BY <1>0, InboundAssumption DEF HandOver, Begins, SenderOK
  <2> QED
      BY <1>0, <1>c, <1>d, <1>e, <2>3, <2>4 DEF HandOver, Begins, SenderOK
<1>2. ASSUME NEW s \in Sessions, NEW a \in Addresses, Rcpt(s, a) PROVE Goal
  <2> DEFINE m == sess[s].mail
  <2>1. m \in Mails
      BY <1>2, <1>f DEF Rcpt
  <2>2. CASE Resolve[a] = {}
    <3>1. outcome' = [outcome EXCEPT ![m][a] = "refused"] /\ UNCHANGED sess
        BY <1>2, <2>2 DEF Rcpt
    <3>2. SessOK'
        BY <3>1 DEF SessOK, Shape, IsTarget
    <3>3. outcome' \in [Mails -> [Addresses -> {"pending", "accepted", "refused"}]]
        BY <2>1, <3>1 DEF SenderOK
    <3> QED
        BY <1>2, <1>c, <1>d, <1>e, <3>2, <3>3 DEF Rcpt, SenderOK
  <2>3. CASE Resolve[a] # {}
    <3> DEFINE v == [sess[s] EXCEPT !.rcpts = @ \cup {a}]
    <3>1. sess' = [sess EXCEPT ![s] = v] /\ UNCHANGED outcome
        BY <1>2, <2>3 DEF Rcpt, SessOK
    <3>2. v \in Session
        BY <1>2, <1>a DEF Session
    <3>3. Shape(v)
        BY <1>2, <1>a, <2>3 DEF Rcpt, Session, Shape, IsTarget
    <3>4. SessOK'
        BY <3>1, <3>2, <3>3, SessionChanges
    <3> QED
        BY <1>2, <1>c, <1>d, <1>e, <3>1, <3>4 DEF Rcpt, SenderOK
  <2> QED
      BY <2>2, <2>3
<1>3. ASSUME NEW s \in Sessions, Data(s) PROVE Goal
  <2>1. SessOK'
    <3>1. CASE Goes(s, "scan")
        BY <1>3, <3>1, GoesShape DEF Data, Points
    <3>2. CASE sess' = [sess EXCEPT ![s] = Idle]
        BY <3>2, IdleIsSession, SessionChanges
    <3> QED
        BY <1>3, <3>1, <3>2 DEF Data
  <2> QED
      BY <1>3, <1>b, <1>c, <1>d, <1>e, <2>1 DEF Data
<1>4. ASSUME NEW s \in Sessions, Scan(s) PROVE Goal
  <2>1. PICK v \in ScanResults :
           IF v \in {"refuse", "defer"}
           THEN Goes(s, v) /\ UNCHANGED reports
           ELSE /\ sess' = [sess EXCEPT ![s].pc = "store",
                       ![s].folder = IF IsReport(s) THEN "Reports" ELSE v]
                /\ IngestReport(s)
      BY <1>4 DEF Scan
  <2>2. SessOK'
    <3>1. CASE v \in {"refuse", "defer"}
        BY <1>4, <2>1, <3>1, GoesShape DEF Scan, Points
    <3>2. CASE v \notin {"refuse", "defer"}
      <4> DEFINE f == IF IsReport(s) THEN "Reports" ELSE v
                 w == [sess[s] EXCEPT !.pc = "store", !.folder = f]
      <4>1. sess' = [sess EXCEPT ![s] = w]
          BY <2>1, <3>2 DEF SessOK
      <4>2. f \in FolderNames
          BY <3>2 DEF ScanResults, FolderNames
      <4> HIDE DEF f
      <4>3. w \in Session
          BY <1>a, <4>2 DEF Session, Points
      <4>4. Shape(w)
          BY <1>4, <1>a DEF Scan, Session, Shape, IsTarget
      <4> QED
          BY <4>1, <4>3, <4>4, SessionChanges
    <3> QED
        BY <3>1, <3>2
  <2>3. reports' \subseteq Mails
      BY <1>4, <1>f, <2>1 DEF Scan, IngestReport, RestOK
  <2>4. RestOK'
      BY <1>4, <2>3 DEF Scan, RestOK, vacation
  <2> QED
      BY <1>4, <1>b, <1>c, <2>2, <2>4 DEF Scan
<1>5. ASSUME NEW s \in Sessions, StoreBlob(s) PROVE Goal
  <2>1. SessOK'
      BY <1>5, GoesShape DEF StoreBlob, Points
  <2>2. faults' \in 0..MaxFaults
      BY <1>5, FaultyType DEF StoreBlob, RestOK
  <2>3. RestOK'
      BY <1>5, <1>e, <2>2 DEF StoreBlob, RestOK, vacation
  <2> QED
      BY <1>5, <1>b, <1>c, <1>e, <2>1, <2>3 DEF StoreBlob
<1>6. ASSUME NEW s \in Sessions, ApplyRules(s) PROVE Goal
  <2>1. PICK d \in [Targets(s) -> Decisions], unread \in BOOLEAN :
          LET replies == {p \in Targets(s) :
                            d[p] = "vacation" /\ (unread \/ ShouldReply(p[2]))}
              dropped == {p \in Targets(s) : d[p] = "discard"}
          IN  /\ IF unread THEN Faulty ELSE UNCHANGED faults
              /\ sess' = [sess EXCEPT
                   ![s].pc = IF dropped = Targets(s) THEN "reply" ELSE "persist",
                   ![s].decision = [p \in Addresses \X Mailboxes |->
                                      IF p \in Targets(s) THEN d[p] ELSE "keep"],
                   ![s].replies = replies]
              /\ discarded' = discarded \cup {<<sess[s].mail, p>> : p \in dropped}
              /\ overlap' = (overlap \/ \E t \in Sessions \ {s} :
                               \E p \in replies, q \in sess[t].replies :
                                 p[2] = q[2])
      BY <1>6 DEF ApplyRules
  <2> DEFINE R == {p \in Targets(s) :
                     d[p] = "vacation" /\ (unread \/ ShouldReply(p[2]))}
             dropped == {p \in Targets(s) : d[p] = "discard"}
             pc == IF dropped = Targets(s) THEN "reply" ELSE "persist"
             dec == [p \in Pairs |-> IF p \in Targets(s) THEN d[p] ELSE "keep"]
             w == [sess[s] EXCEPT !.pc = pc, !.decision = dec, !.replies = R]
  <2>2. Targets(s) \subseteq Pairs
      BY <1>a DEF Targets, Session, Pairs
  <2>3. dec \in [Pairs -> Decisions \cup {"keep"}]
      BY <2>2
  <2>4. R \subseteq Pairs /\ \A p \in R : IsTarget(sess[s], p)
      BY <2>2 DEF Targets, IsTarget
  <2>5. sess' = [sess EXCEPT ![s] = w]
      BY <2>1 DEF SessOK, Pairs
  <2>6. discarded' = discarded \cup {<<sess[s].mail, p>> : p \in dropped}
        /\ (faults' = faults \/ Faulty)
      BY <2>1
  <2>7. overlap' \in BOOLEAN
      BY <2>1
  <2>8. pc \in {"reply", "persist"} /\ dropped \subseteq Pairs
      BY <2>2
  <2> HIDE DEF R, dec, pc, dropped
  <2>9. w \in Session
      BY <1>a, <2>3, <2>4, <2>8 DEF Session, Points
  <2>10. Shape(w)
      BY <1>6, <1>a, <2>4, <2>8 DEF ApplyRules, Session, Shape, IsTarget
  <2>11. SessOK'
      BY <2>5, <2>9, <2>10, SessionChanges
  <2>12. discarded' \subseteq Mails \X Pairs
    <3>1. sess[s].mail \in Mails
        BY <1>6, <1>f DEF ApplyRules
    <3>2. {<<sess[s].mail, p>> : p \in dropped} \subseteq Mails \X Pairs
        BY <2>8, <3>1
    <3> QED
        BY <2>6, <3>2 DEF RestOK
  <2>13. faults' \in 0..MaxFaults
      BY <2>6, FaultyType DEF RestOK
  <2>14. UNCHANGED <<reports, log, told, announced>>
      BY <1>6 DEF ApplyRules
  <2>15. RestOK'
      BY <2>7, <2>12, <2>13, <2>14 DEF RestOK
  <2> QED
      BY <1>6, <1>b, <1>c, <2>11, <2>15 DEF ApplyRules
<1>7. ASSUME NEW s \in Sessions, PersistAll(s) PROVE Goal
  <2>1. sess[s].mail \in Mails
      BY <1>7, <1>f DEF PersistAll
  <2>2. Kept(s) \in SUBSET Pairs
      BY <1>a DEF Kept, Targets, Session, Pairs
  <2>3. SessOK'
      BY <1>7, GoesShape DEF PersistAll, Points
  <2>4. RowsOK'
      BY <1>7, <1>c, <2>1, <2>2, FiledRows DEF PersistAll, PersistFails, TypeInv
  <2>5. faults' \in 0..MaxFaults
      BY <1>7, FaultyType DEF PersistAll, RestOK
  <2>6. lost' \in [Mails -> Nat]
      BY <1>7, <2>1 DEF PersistAll, SenderOK
  <2>7. SenderOK'
      BY <1>7, <2>6 DEF PersistAll, SenderOK
  <2>8. RestOK'
      BY <1>7, <2>5 DEF PersistAll, RestOK, vacation
  <2> QED
      BY <2>3, <2>4, <2>7, <2>8
<1>8. ASSUME NEW s \in Sessions, NEW p \in sess[s].replies,
             SendVacationReply(s, p)
      PROVE  Goal
  <2>1. p \in Pairs /\ p[2] \in Mailboxes
      BY <1>a DEF Session, Pairs
  <2>2. SessOK'
    <3>1. CASE p[1] \in Direct /\ sess' = [sess EXCEPT ![s].pc = "record",
                                                      ![s].sent = {p}]
      <4> DEFINE v == [sess[s] EXCEPT !.pc = "record", !.sent = {p}]
      <4>1. v \in Session
          BY <1>a, <2>1 DEF Session, Points
      <4>2. Shape(v)
          BY <1>8, <1>a, <3>1 DEF SendVacationReply, Session, Shape, IsTarget
      <4>3. sess' = [sess EXCEPT ![s] = v]
          BY <3>1 DEF SessOK
      <4> QED
          BY <4>1, <4>2, <4>3, SessionChanges
    <3>2. CASE sess' = [sess EXCEPT ![s].replies = @ \ {p}]
      <4> DEFINE v == [sess[s] EXCEPT !.replies = @ \ {p}]
      <4>1. v \in Session
          BY <1>a DEF Session
      <4>2. Shape(v)
          BY <1>8, <1>a DEF SendVacationReply, Session, Shape, IsTarget
      <4>3. sess' = [sess EXCEPT ![s] = v]
          BY <3>2 DEF SessOK
      <4> QED
          BY <4>1, <4>2, <4>3, SessionChanges
    <3> QED
        BY <1>8, <3>1, <3>2 DEF SendVacationReply
  <2>3. told' \in [Mailboxes -> Nat]
      BY <1>8, <2>1 DEF SendVacationReply, RestOK
  <2>4. faults' \in 0..MaxFaults
      BY <1>8, FaultyType DEF SendVacationReply, RestOK
  <2>5. RestOK'
      BY <1>8, <1>e, <2>3, <2>4 DEF SendVacationReply, RestOK
  <2> QED
      BY <1>8, <1>b, <1>c, <1>e, <2>2, <2>5 DEF SendVacationReply
<1>9. ASSUME NEW s \in Sessions, RecordReply(s) PROVE Goal
  <2> DEFINE v == [sess[s] EXCEPT !.pc = "reply", !.sent = {},
                                  !.replies = @ \ sess[s].sent]
  <2>1. v \in Session
      BY <1>a DEF Session, Points
  <2>2. Shape(v)
      BY <1>9, <1>a DEF RecordReply, Session, Shape, IsTarget
  <2>3. sess' = [sess EXCEPT ![s] = v]
      BY <1>9 DEF RecordReply, SessOK
  <2>4. SessOK'
      BY <2>1, <2>2, <2>3, SessionChanges
  <2>5. log' \subseteq Mailboxes
    <3>1. \A p \in sess[s].sent : p[2] \in Mailboxes
        BY <1>a DEF Session, Pairs
    <3> QED
        BY <1>9, <3>1 DEF RecordReply, RestOK
  <2>6. faults' \in 0..MaxFaults
      BY <1>9, FaultyType DEF RecordReply, RestOK
  <2>7. RestOK'
      BY <1>9, <1>e, <2>5, <2>6 DEF RecordReply, RestOK
  <2> QED
      BY <1>9, <1>b, <1>c, <1>e, <2>4, <2>7 DEF RecordReply
<1>10. ASSUME NEW s \in Sessions, RepliesSent(s) PROVE Goal
  <2>1. SessOK'
      BY <1>10, GoesShape DEF RepliesSent, Points
  <2> QED
      BY <1>10, <1>b, <1>c, <1>d, <1>e, <2>1 DEF RepliesSent
<1>11. ASSUME NEW s \in Sessions, ReadCounts(s) PROVE Goal
  <2> DEFINE c == [b \in Mailboxes |-> box[b][sess[s].folder]]
             v == [sess[s] EXCEPT !.pc = "announce", !.counts = c]
  <2>1. c \in [Mailboxes -> Nat]
      BY <1>a DEF Session, RowsOK
  <2>2. sess' = [sess EXCEPT ![s] = v]
      BY <1>11 DEF ReadCounts, SessOK
  <2> HIDE DEF c
  <2>3. v \in Session
      BY <1>a, <2>1 DEF Session, Points
  <2>4. Shape(v)
      BY <1>11, <1>a DEF ReadCounts, Session, Shape, IsTarget
  <2>5. SessOK'
      BY <2>2, <2>3, <2>4, SessionChanges
  <2> QED
      BY <1>11, <1>b, <1>c, <1>d, <1>e, <2>5 DEF ReadCounts
<1>12. ASSUME NEW s \in Sessions, Notify(s) PROVE Goal
  <2>1. SessOK'
      BY <1>12, GoesShape DEF Notify, Points
  <2>2. announced' \in [Mailboxes -> [FolderNames -> Nat]]
    <3>1. sess[s].counts \in [Mailboxes -> Nat] /\ sess[s].folder \in FolderNames
        BY <1>a DEF Session
    <3>2. \A b \in Mailboxes : sess[s].counts[b] \in Nat
                              /\ announced[b] \in [FolderNames -> Nat]
        BY <3>1 DEF RestOK
    <3>3. \A b \in Mailboxes :
            [announced[b] EXCEPT ![sess[s].folder] = sess[s].counts[b]]
                \in [FolderNames -> Nat]
        BY <3>1, <3>2
    <3> QED
        BY <1>12, <3>2, <3>3 DEF Notify
  <2>3. RestOK'
      BY <1>12, <1>e, <2>2 DEF Notify, RestOK, vacation
  <2> QED
      BY <1>12, <1>b, <1>c, <1>e, <2>1, <2>3 DEF Notify
<1>13. ASSUME NEW s \in Sessions, Reply(s) PROVE Goal
  <2> DEFINE m == sess[s].mail
             o == [a \in Addresses |-> IF a \in sess[s].rcpts
                                       THEN Answer(s) ELSE outcome[m][a]]
  <2>1. m \in Mails /\ sess[s].pc \in {"accept", "refuse", "defer"}
      BY <1>13, <1>f DEF Reply, Verdict
  <2>2. Answer(s) \in {"pending", "accepted", "refused"}
      BY <2>1 DEF Answer, Verdict
  <2>3. o \in [Addresses -> {"pending", "accepted", "refused"}]
      BY <2>1, <2>2 DEF SenderOK
  <2>4. outcome' = outcome \/ outcome' = [outcome EXCEPT ![m] = o]
      BY <1>13, <2>1 DEF Reply, SenderOK
  <2> HIDE DEF o
  <2>5. outcome' \in [Mails -> [Addresses -> {"pending", "accepted", "refused"}]]
      BY <2>3, <2>4 DEF SenderOK
  <2>6. SenderOK'
      BY <1>13, <2>5 DEF Reply, SenderOK
  <2>7. SessOK'
      BY <1>13, IdleIsSession, SessionChanges DEF Reply
  <2> QED
      BY <1>13, <1>c, <1>d, <1>e, <2>6, <2>7 DEF Reply
<1>14. ASSUME NEW s \in Sessions, SenderTimesOut(s) PROVE Goal
  <2> DEFINE v == [sess[s] EXCEPT !.heard = FALSE]
  <2>1. v \in Session
      BY <1>a DEF Session
  <2>2. Shape(v)
      BY <1>14, <1>a DEF SenderTimesOut, Session, Shape, IsTarget
  <2>3. sess' = [sess EXCEPT ![s] = v]
      BY <1>14 DEF SenderTimesOut, SessOK
  <2>4. SessOK'
      BY <2>1, <2>2, <2>3, SessionChanges
  <2>5. sess[s].mail \in Mails
      BY <1>14, <1>f DEF SenderTimesOut
  <2>6. lost' \in [Mails -> Nat]
      BY <1>14, <2>5 DEF SenderTimesOut, SenderOK
  <2>7. RestOK'
      BY <1>14, <1>e, FaultyType DEF SenderTimesOut, RestOK, vacation
  <2> QED
      BY <1>14, <1>c, <1>e, <2>4, <2>6, <2>7 DEF SenderTimesOut, SenderOK
<1>15. ASSUME NEW b \in Mailboxes, PeriodEnds(b) PROVE Goal
  <2>1. SessOK'
      BY <1>15 DEF PeriodEnds, SessOK, Shape, IsTarget
  <2>2. RestOK'
      BY <1>15, <1>e DEF PeriodEnds, RestOK
  <2> QED
      BY <1>15, <1>b, <1>c, <1>e, <2>1, <2>2 DEF PeriodEnds
<1>16. CASE Crash
  <2>1. SessOK'
      BY <1>16, IdleIsSession DEF Crash, SessOK
  <2>2. \A m \in Mails : Cardinality({s \in Sessions : sess[s].mail = m
                                                  /\ sess[s].heard}) \in Nat
      BY InboundAssumption, FS_Subset, FS_CardinalityType
  <2>3. lost' \in [Mails -> Nat]
    <3> DEFINE c(m) == Cardinality({s \in Sessions : sess[s].mail = m
                                                     /\ sess[s].heard})
    <3>1. lost' = [m \in Mails |-> lost[m] + c(m)]
        BY <1>16 DEF Crash
    <3>2. \A m \in Mails : c(m) \in Nat
        BY <2>2
    <3> HIDE DEF c
    <3> QED
        BY <3>1, <3>2 DEF SenderOK
  <2>4. RestOK'
      BY <1>16, <1>e, FaultyType DEF Crash, RestOK, vacation
  <2> QED
      BY <1>16, <1>c, <1>e, <2>1, <2>3, <2>4 DEF Crash, SenderOK
<1>17. CASE UNCHANGED vars
    BY <1>17, <1>b, <1>c, <1>d, <1>e DEF vars, SessOK, Shape, IsTarget
<1> QED
    BY <1>0, <1>1, <1>2, <1>3, <1>4, <1>5, <1>6, <1>7, <1>8, <1>9, <1>10,
       <1>11, <1>12, <1>13, <1>14, <1>15, <1>16, <1>17 DEF Next, SessionStep

\* Sessions, rows and what the sender knows keep their types.
THEOREM TypeCorrect == Spec => []TypeOK
<1>1. TypeInv /\ [Next]_vars => TypeInv'
    BY TypeStep
<1> QED
    BY <1>1, TypeInit, InvIsTyped, PTL DEF Spec
-----------------------------------------------------------------------------
\* A step of session s that writes no row and tells the sender nothing: it
\* ends an empty transaction, or goes on with its message and its envelope.
\* It reaches the far side of the write without writing only when every
\* mailbox dropped its copy.
Quiet(s) ==
    /\ UNCHANGED <<outcome, lost, used, unchecked, copies>>
    /\ discarded \subseteq discarded'
    /\ \A t \in Sessions \ {s} : sess'[t] = sess[t]
    /\ \/ sess[s].pc = "rcpt" /\ sess[s].rcpts = {} /\ sess'[s] = Idle
       \/ /\ sess'[s].mail = sess[s].mail
          /\ sess'[s].rcpts = sess[s].rcpts
          /\ sess'[s].heard = sess[s].heard
          /\ sess'[s].pc # "rcpt"
          /\ Past(sess[s]) => Past(sess'[s])
          /\ Early(sess'[s]) => Early(sess[s]) \/ sess[s].pc = "rcpt"
          /\ Past(sess'[s]) /\ ~Past(sess[s]) =>
                \A p \in Pairs : IsTarget(sess[s], p)
                                    => <<sess[s].mail, p>> \in discarded'
          /\ sess'[s].pc = "persist" =>
                \A p \in Pairs :
                    IsTarget(sess[s], p) /\ sess'[s].decision[p] = "discard"
                        => <<sess[s].mail, p>> \in discarded'

\* The copies of a session are rows now; the answer may be lost.
Files(s) ==
    /\ sess[s].pc = "persist"
    /\ Filed(s, Kept(s))
    /\ UNCHANGED <<outcome, discarded>>
    /\ \/ Goes(s, "reply") /\ UNCHANGED lost
       \/ /\ Goes(s, "defer")
          /\ lost' = [lost EXCEPT ![sess[s].mail] = @ + 1]

Still == UNCHANGED <<sess, outcome, lost, used, unchecked, copies, discarded>>

\* Where a session goes when only its point changes.
LEMMA GoesOnly ==
    ASSUME SessOK, NEW s \in Sessions, NEW p, Goes(s, p)
    PROVE  /\ \A t \in Sessions \ {s} : sess'[t] = sess[t]
           /\ sess'[s] = [sess[s] EXCEPT !.pc = p]
           /\ sess'[s].pc = p
           /\ sess'[s].mail = sess[s].mail
           /\ sess'[s].rcpts = sess[s].rcpts
           /\ sess'[s].heard = sess[s].heard
           /\ sess'[s].decision = sess[s].decision
           /\ sess'[s].replies = sess[s].replies
           /\ sess'[s].sent = sess[s].sent
<1>1. sess[s] \in Session
    BY DEF SessOK
<1>2. sess'[s] = [sess[s] EXCEPT !.pc = p]
      /\ \A t \in Sessions \ {s} : sess'[t] = sess[t]
    BY DEF Goes, SessOK
<1> QED
    BY <1>1, <1>2 DEF Session

\* The steps of deliveries, by what they do to rows and senders.
LEMMA StepShapes ==
    ASSUME TypeInv, [Next]_vars
    PROVE  \/ Still
           \/ \E s \in Sessions : Quiet(s) \/ Files(s) \/ Reply(s)
                                  \/ SenderTimesOut(s)
           \/ \E s \in Sessions, m \in Mails : Mail(s, m)
           \/ \E s \in Sessions, m \in Local, a \in Addresses : HandOver(s, m, a)
           \/ \E s \in Sessions, a \in Addresses : Rcpt(s, a)
           \/ Crash
<1>a. SessOK /\ \A s \in Sessions : sess[s] \in Session /\ Shape(sess[s])
    BY DEF TypeInv, SessOK
<1> USE DEF sender, store, vacation
<1>1. ASSUME NEW s \in Sessions, Data(s) PROVE Quiet(s)
  <2>1. CASE Goes(s, "scan")
    <3>1. PICK v \in {"scan"} : Goes(s, v)
        BY <2>1
    <3> QED
        BY <1>1, <1>a, <3>1, GoesOnly DEF Data, Quiet, Early, Past
  <2>2. CASE sess[s].rcpts = {} /\ sess' = [sess EXCEPT ![s] = Idle]
      BY <1>1, <1>a, <2>2 DEF Data, Quiet, SessOK
  <2> QED
      BY <1>1, <2>1, <2>2 DEF Data
<1>2. ASSUME NEW s \in Sessions, Scan(s) PROVE Quiet(s)
  <2>1. \/ \E v \in {"refuse", "defer"} : Goes(s, v)
        \/ \E f : sess' = [sess EXCEPT ![s].pc = "store", ![s].folder = f]
      BY <1>2 DEF Scan
  <2>2. sess[s].pc = "scan"
        /\ UNCHANGED <<outcome, lost, used, unchecked, copies, discarded>>
      BY <1>2 DEF Scan
  <2>3. CASE \E v \in {"refuse", "defer"} : Goes(s, v)
      BY <1>a, <2>2, <2>3, GoesOnly DEF Quiet, Early, Past
  <2>4. CASE \E f : sess' = [sess EXCEPT ![s].pc = "store", ![s].folder = f]
    <3>1. /\ \A t \in Sessions \ {s} : sess'[t] = sess[t]
          /\ sess'[s].pc = "store" /\ sess'[s].mail = sess[s].mail
          /\ sess'[s].rcpts = sess[s].rcpts /\ sess'[s].heard = sess[s].heard
        BY <1>a, <2>4 DEF SessOK, Session
    <3> QED
        BY <2>2, <3>1 DEF Quiet, Early, Past
  <2> QED
      BY <2>1, <2>3, <2>4
<1>3. ASSUME NEW s \in Sessions, StoreBlob(s) PROVE Quiet(s)
  <2>1. PICK v \in {"rules", "defer"} : Goes(s, v)
      BY <1>3 DEF StoreBlob
  <2> QED
      BY <1>3, <1>a, <2>1, GoesOnly DEF StoreBlob, Quiet, Early, Past
<1>4. ASSUME NEW s \in Sessions, ApplyRules(s) PROVE Quiet(s)
  <2>0. PICK d \in [Targets(s) -> Decisions] : \E R :
          LET dropped == {p \in Targets(s) : d[p] = "discard"} IN
          /\ sess' = [sess EXCEPT
               ![s].pc = IF dropped = Targets(s) THEN "reply" ELSE "persist",
               ![s].decision = [p \in Addresses \X Mailboxes |->
                                  IF p \in Targets(s) THEN d[p] ELSE "keep"],
               ![s].replies = R]
          /\ discarded' = discarded \cup {<<sess[s].mail, p>> : p \in dropped}
      BY <1>4 DEF ApplyRules
  <2>1. PICK R :
          LET dropped == {p \in Targets(s) : d[p] = "discard"} IN
          /\ sess' = [sess EXCEPT
               ![s].pc = IF dropped = Targets(s) THEN "reply" ELSE "persist",
               ![s].decision = [p \in Addresses \X Mailboxes |->
                                  IF p \in Targets(s) THEN d[p] ELSE "keep"],
               ![s].replies = R]
          /\ discarded' = discarded \cup {<<sess[s].mail, p>> : p \in dropped}
      BY <2>0
  <2> DEFINE dropped == {p \in Targets(s) : d[p] = "discard"}
  <2>2. /\ \A t \in Sessions \ {s} : sess'[t] = sess[t]
        /\ sess'[s].mail = sess[s].mail
        /\ sess'[s].rcpts = sess[s].rcpts /\ sess'[s].heard = sess[s].heard
      BY <1>a, <2>1 DEF SessOK, Session
  <2>3. sess'[s].pc = IF dropped = Targets(s) THEN "reply" ELSE "persist"
      BY <1>a, <2>1 DEF SessOK, Session
  <2>4. sess'[s].decision = [p \in Pairs |-> IF p \in Targets(s) THEN d[p]
                                                               ELSE "keep"]
      BY <1>a, <2>1 DEF SessOK, Session, Pairs
  <2>5. \A p \in Pairs : IsTarget(sess[s], p) => p \in Targets(s)
      BY DEF Pairs, IsTarget, Targets
  <2>6. \A p \in Pairs : IsTarget(sess[s], p) /\ d[p] = "discard"
                             => <<sess[s].mail, p>> \in discarded'
      BY <2>1, <2>5
  <2>7. sess[s].pc = "rules"
        /\ UNCHANGED <<outcome, lost, used, unchecked, copies>>
      BY <1>4 DEF ApplyRules
  <2>8. sess'[s].pc = "reply" => \A p \in Pairs :
            IsTarget(sess[s], p) => <<sess[s].mail, p>> \in discarded'
      BY <2>3, <2>5, <2>6
  <2>9. \A p \in Pairs : IsTarget(sess[s], p) /\ sess'[s].decision[p] = "discard"
                             => <<sess[s].mail, p>> \in discarded'
      BY <2>4, <2>5, <2>6
  <2>10. sess'[s].pc \in {"reply", "persist"} /\ discarded \subseteq discarded'
      BY <2>1, <2>3
  <2> QED
      BY <2>2, <2>7, <2>8, <2>9, <2>10 DEF Quiet, Early, Past
<1>5. ASSUME NEW s \in Sessions, PersistAll(s) PROVE Quiet(s) \/ Files(s)
  <2>1. CASE Goes(s, "defer") /\ PersistFails(s) /\ UNCHANGED lost
    <3>1. PICK v \in {"defer"} : Goes(s, v)
        BY <2>1
    <3> QED
        BY <1>5, <1>a, <2>1, <3>1, GoesOnly
           DEF PersistAll, PersistFails, Quiet, Early, Past
  <2> QED
      BY <1>5, <2>1 DEF PersistAll, Files
<1>6. ASSUME NEW s \in Sessions, NEW p, SendVacationReply(s, p) PROVE Quiet(s)
  <2>1. /\ \A t \in Sessions \ {s} : sess'[t] = sess[t]
        /\ sess'[s].pc \in {"reply", "record"} /\ sess'[s].mail = sess[s].mail
        /\ sess'[s].rcpts = sess[s].rcpts /\ sess'[s].heard = sess[s].heard
      BY <1>6, <1>a DEF SendVacationReply, SessOK, Session
  <2> QED
      BY <1>6, <2>1 DEF SendVacationReply, Quiet, Early, Past
<1>7. ASSUME NEW s \in Sessions, RecordReply(s) PROVE Quiet(s)
  <2>1. /\ \A t \in Sessions \ {s} : sess'[t] = sess[t]
        /\ sess'[s].pc = "reply" /\ sess'[s].mail = sess[s].mail
        /\ sess'[s].rcpts = sess[s].rcpts /\ sess'[s].heard = sess[s].heard
      BY <1>7, <1>a DEF RecordReply, SessOK, Session
  <2> QED
      BY <1>7, <2>1 DEF RecordReply, Quiet, Early, Past
<1>8. ASSUME NEW s \in Sessions, RepliesSent(s) PROVE Quiet(s)
  <2>1. PICK v \in {"accept", "notify"} : Goes(s, v)
      BY <1>8 DEF RepliesSent
  <2> QED
      BY <1>8, <1>a, <2>1, GoesOnly DEF RepliesSent, Quiet, Early, Past
<1>9. ASSUME NEW s \in Sessions, ReadCounts(s) PROVE Quiet(s)
  <2>1. /\ \A t \in Sessions \ {s} : sess'[t] = sess[t]
        /\ sess'[s].pc = "announce" /\ sess'[s].mail = sess[s].mail
        /\ sess'[s].rcpts = sess[s].rcpts /\ sess'[s].heard = sess[s].heard
      BY <1>9, <1>a DEF ReadCounts, SessOK, Session
  <2> QED
      BY <1>9, <2>1 DEF ReadCounts, Quiet, Early, Past
<1>10. ASSUME NEW s \in Sessions, Notify(s) PROVE Quiet(s)
  <2>1. PICK v \in {"accept"} : Goes(s, v)
      BY <1>10 DEF Notify
  <2> QED
      BY <1>10, <1>a, <2>1, GoesOnly DEF Notify, Quiet, Early, Past
<1>11. ASSUME NEW b \in Mailboxes, PeriodEnds(b) PROVE Still
    BY <1>11 DEF PeriodEnds, Still
<1>12. UNCHANGED vars => Still
    BY DEF vars, Still
<1> QED
    BY <1>1, <1>2, <1>3, <1>4, <1>5, <1>6, <1>7, <1>8, <1>9, <1>10, <1>11,
       <1>12 DEF Next, SessionStep
-----------------------------------------------------------------------------
\* A sender waits for one answer about a message at a time, and only about
\* addresses it has no answer for.
Waits ==
    /\ \A s, t \in Sessions :
          /\ sess[s].mail \in Mails /\ sess[s].mail = sess[t].mail
          /\ sess[s].heard /\ sess[t].heard
          => s = t
    /\ \A s \in Sessions :
          sess[s].mail \in Mails /\ sess[s].heard =>
              \A a \in sess[s].rcpts : outcome[sess[s].mail][a] = "pending"

\* Every step keeps one session to a message that is still waited for.
LEMMA WaitsStep == TypeInv /\ Waits /\ [Next]_vars => Waits'
<1> SUFFICES ASSUME TypeInv, Waits, [Next]_vars PROVE Waits'
    OBVIOUS
<1>a. \A s \in Sessions : sess[s] \in Session /\ Shape(sess[s])
    BY DEF TypeInv, SessOK
<1>b. SessOK /\ None \notin Mails
    BY InboundAssumption DEF TypeInv
<1>c. Idle.mail = None /\ Idle.rcpts = {} /\ Idle.heard
    BY DEF Idle
\* No sender learns anything, and no session takes a message or an address.
<1>1. ASSUME UNCHANGED outcome,
             \A t \in Sessions : sess'[t].mail \in Mails =>
                 /\ sess'[t].mail = sess[t].mail
                 /\ sess'[t].rcpts = sess[t].rcpts
                 /\ sess'[t].heard => sess[t].heard
      PROVE  Waits'
    BY <1>1 DEF Waits
<1>2. CASE Still
    BY <1>1, <1>2 DEF Still
<1>3. ASSUME NEW s \in Sessions, Quiet(s) PROVE Waits'
    BY <1>1, <1>3, <1>b, <1>c DEF Quiet
<1>4. ASSUME NEW s \in Sessions, Files(s) PROVE Waits'
  <2>1. PICK p : Goes(s, p)
      BY <1>4 DEF Files
  <2> QED
      BY <1>1, <1>4, <1>b, <2>1, GoesOnly DEF Files
<1>5. ASSUME NEW s \in Sessions, SenderTimesOut(s) PROVE Waits'
  <2>1. \A t \in Sessions : /\ sess'[t].mail = sess[t].mail
                            /\ sess'[t].rcpts = sess[t].rcpts
                            /\ sess'[t].heard => sess[t].heard
      BY <1>5, <1>a, <1>b DEF SenderTimesOut, SessOK, Session
  <2> QED
      BY <1>1, <1>5, <2>1 DEF SenderTimesOut
<1>6. CASE Crash
    BY <1>1, <1>6, <1>b, <1>c DEF Crash
<1>7. ASSUME NEW s \in Sessions, NEW m \in Mails, Mail(s, m) PROVE Waits'
  <2>1. /\ \A t \in Sessions \ {s} : sess'[t] = sess[t]
        /\ sess'[s].mail = m /\ sess'[s].rcpts = {}
      BY <1>7, <1>b DEF Mail, Idle, SessOK
  <2>2. \A t \in Sessions : sess[t].mail = m => ~sess[t].heard
      BY <1>7 DEF Mail, Begins
  <2>3. UNCHANGED outcome
      BY <1>7 DEF Mail, Begins
  <2> QED
      BY <2>1, <2>2, <2>3 DEF Waits
<1>10. ASSUME NEW s \in Sessions, NEW m \in Local, NEW a \in Addresses,
              HandOver(s, m, a)
       PROVE  Waits'
  <2>1. /\ \A t \in Sessions \ {s} : sess'[t] = sess[t]
        /\ sess'[s].mail = m /\ sess'[s].rcpts = {a}
      BY <1>10, <1>b DEF HandOver, Idle, SessOK
  <2>2. \A t \in Sessions : sess[t].mail = m => ~sess[t].heard
      BY <1>10 DEF HandOver, Begins
  <2>3. UNCHANGED outcome /\ outcome[m][a] = "pending"
      BY <1>10 DEF HandOver, Begins, Pending
  <2> QED
      BY <2>1, <2>2, <2>3 DEF Waits
<1>8. ASSUME NEW s \in Sessions, NEW a \in Addresses, Rcpt(s, a) PROVE Waits'
  <2> DEFINE m == sess[s].mail
  <2>1. m \in Mails /\ sess[s].heard /\ outcome[m][a] = "pending"
        /\ a \notin sess[s].rcpts
      BY <1>8, <1>a DEF Rcpt, Shape, Pending
  <2>2. CASE Resolve[a] = {}
    <3>1. UNCHANGED sess /\ outcome' = [outcome EXCEPT ![m][a] = "refused"]
        BY <1>8, <2>2 DEF Rcpt
    <3>2. \A n \in Mails, c \in Addresses :
              ~(n = m /\ c = a) => outcome'[n][c] = outcome[n][c]
        BY <3>1 DEF TypeInv, SenderOK
    <3>3. ASSUME NEW t \in Sessions, sess[t].mail \in Mails, sess[t].heard,
                 NEW c \in sess[t].rcpts
          PROVE  outcome'[sess[t].mail][c] = "pending"
      <4>1. c \in Addresses /\ outcome[sess[t].mail][c] = "pending"
          BY <1>a, <3>3 DEF Session, Waits
      <4>2. ~(sess[t].mail = m /\ c = a)
          BY <2>1, <3>3 DEF Waits
      <4> QED
          BY <3>2, <3>3, <4>1, <4>2
    <3> QED
        BY <3>1, <3>3 DEF Waits
  <2>3. CASE Resolve[a] # {}
    <3>1. /\ \A t \in Sessions \ {s} : sess'[t] = sess[t]
          /\ sess'[s].mail = m /\ sess'[s].heard = sess[s].heard
          /\ sess'[s].rcpts = sess[s].rcpts \cup {a}
          /\ UNCHANGED outcome
        BY <1>8, <1>a, <1>b, <2>3 DEF Rcpt, SessOK, Session
    <3> QED
        BY <2>1, <3>1 DEF Waits
  <2> QED
      BY <2>2, <2>3
<1>9. ASSUME NEW s \in Sessions, Reply(s) PROVE Waits'
  <2> DEFINE m == sess[s].mail
  <2>1. /\ \A t \in Sessions \ {s} : sess'[t] = sess[t]
        /\ sess'[s].mail = None
      BY <1>9, <1>b DEF Reply, Idle, SessOK
  <2>2. CASE ~sess[s].heard
      BY <1>1, <1>9, <1>b, <2>1, <2>2 DEF Reply
  <2>3. CASE sess[s].heard
    <3>1. \A n \in Mails : n # m => outcome'[n] = outcome[n]
        BY <1>9, <2>3 DEF Reply, TypeInv, SenderOK
    <3>2. \A t \in Sessions \ {s} :
              sess[t].mail \in Mails /\ sess[t].heard => sess[t].mail # m
        BY <2>3 DEF Waits
    <3> QED
        BY <1>b, <2>1, <3>1, <3>2 DEF Waits
  <2> QED
      BY <2>2, <2>3
<1> QED
    BY <1>2, <1>3, <1>4, <1>5, <1>6, <1>7, <1>8, <1>9, <1>10, StepShapes

-----------------------------------------------------------------------------
\* With rows c and dropped copies d, the copy p of message m is a row, or the
\* mailbox's own rules dropped it.
Has(c, d, m, p) == c[m][p] > 0 \/ <<m, p>> \in d

\* Past the write every copy of a session is accounted for, before it those
\* that will not be written are.
Settled(v, c, d) ==
    \A p \in Pairs : IsTarget(v, p) =>
        /\ Past(v) => Has(c, d, v.mail, p)
        /\ v.pc = "persist" /\ v.decision[p] = "discard" => <<v.mail, p>> \in d

\* And so is every copy the sender was told of.
Stored ==
    /\ \A s \in Sessions : Settled(sess[s], copies, discarded)
    /\ \A m \in Mails, p \in Pairs :
          outcome[m][p[1]] = "accepted" /\ p[2] \in Resolve[p[1]]
              => Has(copies, discarded, m, p)

\* Rows and notes of dropped copies stay.
LEMMA SettledStays ==
    ASSUME NEW v, Past(v) => v.mail \in Mails, NEW c, NEW d, NEW cc, NEW dd,
           \A m \in Mails, p \in Pairs : Has(c, d, m, p) => Has(cc, dd, m, p),
           d \subseteq dd, Settled(v, c, d)
    PROVE  Settled(v, cc, dd)
BY DEF Settled

\* Every step keeps what a session will answer true of what is stored.
LEMMA StoredStep == TypeInv /\ Waits /\ Stored /\ [Next]_vars => Stored'
<1> SUFFICES ASSUME TypeInv, Waits, Stored, [Next]_vars PROVE Stored'
    OBVIOUS
<1>a. \A s \in Sessions : sess[s] \in Session /\ Shape(sess[s])
    BY DEF TypeInv, SessOK
<1>b. SessOK
    BY DEF TypeInv
<1>c. \A c, d : Settled(Idle, c, d)
    BY DEF Idle, Settled, IsTarget
<1>d. \A s \in Sessions : sess[s].pc # "idle" => sess[s].mail \in Mails
    BY <1>a DEF Shape
<1>e. \A p \in Pairs : p[1] \in Addresses /\ p[2] \in Mailboxes
    BY DEF Pairs
<1>f. \A s \in Sessions : Past(sess[s]) => sess[s].mail \in Mails
    BY <1>d DEF Past
\* No row or note of a dropped copy goes away, and one session changes.
<1>1. ASSUME \A m \in Mails, p \in Pairs :
                 Has(copies, discarded, m, p) => Has(copies', discarded', m, p),
             discarded \subseteq discarded',
             \A m \in Mails, p \in Pairs : outcome'[m][p[1]] = "accepted"
                 /\ p[2] \in Resolve[p[1]] /\ outcome[m][p[1]] # "accepted"
                 => Has(copies', discarded', m, p),
             NEW s \in Sessions, \A t \in Sessions \ {s} : sess'[t] = sess[t],
             Settled(sess'[s], copies', discarded')
      PROVE  Stored'
  <2>1. ASSUME NEW t \in Sessions PROVE Settled(sess'[t], copies', discarded')
    <3>1. CASE t = s
        BY <1>1, <3>1
    <3>2. CASE t # s
      <4>1. sess'[t] = sess[t] /\ Settled(sess[t], copies, discarded)
          BY <1>1, <3>2 DEF Stored
      <4> HIDE DEF Settled
      <4>2. Settled(sess[t], copies', discarded')
          BY <1>1, <1>f, <4>1, SettledStays
      <4> QED
          BY <4>1, <4>2
    <3> QED
        BY <3>1, <3>2
  <2> QED
      BY <1>1, <2>1 DEF Stored
<1>2. CASE Still
    BY <1>2 DEF Still, Stored
<1>3. ASSUME NEW s \in Sessions, Quiet(s) PROVE Stored'
  <2>1. /\ UNCHANGED <<outcome, copies>> /\ discarded \subseteq discarded'
        /\ \A t \in Sessions \ {s} : sess'[t] = sess[t]
      BY <1>3 DEF Quiet
  <2>2. \A m \in Mails, p \in Pairs :
            Has(copies, discarded, m, p) => Has(copies', discarded', m, p)
      BY <2>1 DEF Has
  <2>3. CASE sess'[s] = Idle
      BY <1>1, <1>c, <2>1, <2>2, <2>3
  <2>4. CASE sess'[s] # Idle
    <3>1. ASSUME NEW p \in Pairs, IsTarget(sess'[s], p)
          PROVE  /\ Past(sess'[s]) => Has(copies', discarded', sess'[s].mail, p)
                 /\ sess'[s].pc = "persist" /\ sess'[s].decision[p] = "discard"
                       => <<sess'[s].mail, p>> \in discarded'
      <4>1. IsTarget(sess[s], p) /\ sess'[s].mail = sess[s].mail
          BY <1>3, <2>4, <3>1 DEF Quiet, IsTarget
      <4>2. CASE Past(sess'[s]) /\ Past(sess[s])
          BY <1>f, <2>2, <4>1, <4>2 DEF Stored, Settled, Past
      <4>3. CASE Past(sess'[s]) /\ ~Past(sess[s])
          BY <1>3, <2>4, <4>1, <4>3 DEF Quiet, Has, Past
      <4>4. CASE ~Past(sess'[s])
          BY <1>3, <2>4, <4>1, <4>4 DEF Quiet
      <4> QED
          BY <4>2, <4>3, <4>4
    <3>2. Settled(sess'[s], copies', discarded')
        BY <3>1 DEF Settled
    <3> QED
        BY <1>1, <2>1, <2>2, <3>2
  <2> QED
      BY <2>3, <2>4
<1>4. ASSUME NEW s \in Sessions, Files(s) PROVE Stored'
  <2> DEFINE m == sess[s].mail
  <2>1. m \in Mails /\ sess[s].pc = "persist"
        /\ UNCHANGED <<outcome, discarded>>
      BY <1>4, <1>d DEF Files
  <2>2. Kept(s) \in SUBSET Pairs
      BY <1>a DEF Kept, Targets, Session, Pairs
  <2>3. \A n \in Mails, p \in Pairs :
            copies'[n][p] = IF n = m /\ p \in Kept(s)
                            THEN copies[n][p] + 1 ELSE copies[n][p]
      BY <1>4, <2>1, <2>2, FiledRows DEF Files
  <2>4. \A n \in Mails, p \in Pairs : copies[n][p] \in Nat
      BY DEF TypeInv, RowsOK
  <2>5. \A n \in Mails, p \in Pairs :
            Has(copies, discarded, n, p) => Has(copies', discarded', n, p)
      BY <2>1, <2>3, <2>4 DEF Has
  <2>6. PICK q \in {"reply", "defer"} : Goes(s, q)
      BY <1>4 DEF Files
  <2>7. /\ \A t \in Sessions \ {s} : sess'[t] = sess[t]
        /\ sess'[s].mail = m /\ sess'[s].rcpts = sess[s].rcpts
        /\ sess'[s].pc = q
      BY <1>b, <2>6, GoesOnly
  <2>8. ASSUME NEW p \in Pairs, IsTarget(sess[s], p)
        PROVE  Has(copies', discarded', m, p)
    <3>1. CASE p \in Kept(s)
        BY <2>1, <2>3, <2>4, <3>1 DEF Has
    <3>2. CASE p \notin Kept(s)
      <4>1. p \in Targets(s)
          BY <2>8 DEF Pairs, IsTarget, Targets
      <4>2. sess[s].decision[p] = "discard"
          BY <3>2, <4>1 DEF Kept
      <4>3. Settled(sess[s], copies, discarded)
          BY DEF Stored
      <4> QED
          BY <2>1, <2>8, <4>2, <4>3 DEF Settled, Has
    <3> QED
        BY <3>1, <3>2
  <2>9. Settled(sess'[s], copies', discarded')
      BY <2>7, <2>8 DEF Settled, IsTarget
  <2> QED
      BY <1>1, <2>1, <2>5, <2>7, <2>9
<1>5. ASSUME NEW s \in Sessions, SenderTimesOut(s) PROVE Stored'
  <2>1. /\ \A t \in Sessions \ {s} : sess'[t] = sess[t]
        /\ sess'[s].mail = sess[s].mail /\ sess'[s].rcpts = sess[s].rcpts
        /\ sess'[s].pc = sess[s].pc /\ sess'[s].decision = sess[s].decision
      BY <1>5, <1>a, <1>b DEF SenderTimesOut, SessOK, Session
  <2>2. UNCHANGED <<outcome, copies, discarded>>
      BY <1>5 DEF SenderTimesOut, store
  <2>3. Settled(sess[s], copies, discarded)
      BY DEF Stored
  <2>4. Settled(sess'[s], copies', discarded')
      BY <2>1, <2>2, <2>3 DEF Settled, IsTarget, Past
  <2> QED
      BY <1>1, <2>1, <2>2, <2>4
<1>6. CASE Crash
  <2>1. UNCHANGED <<outcome, copies, discarded>> /\ \A t \in Sessions : sess'[t] = Idle
      BY <1>6 DEF Crash, store
  <2> QED
      BY <1>c, <2>1 DEF Stored
<1>7. ASSUME NEW s \in Sessions, NEW m \in Mails, Mail(s, m) PROVE Stored'
  <2>1. /\ \A t \in Sessions \ {s} : sess'[t] = sess[t]
        /\ sess'[s].rcpts = {}
      BY <1>7, <1>b DEF Mail, Idle, SessOK
  <2>2. UNCHANGED <<outcome, copies, discarded>>
      BY <1>7 DEF Mail, Begins, store
  <2>3. Settled(sess'[s], copies', discarded')
      BY <2>1 DEF Settled, IsTarget
  <2> QED
      BY <1>1, <2>1, <2>2, <2>3
<1>10. ASSUME NEW s \in Sessions, NEW m \in Local, NEW a \in Addresses,
              HandOver(s, m, a)
       PROVE  Stored'
  <2>1. /\ \A t \in Sessions \ {s} : sess'[t] = sess[t]
        /\ sess'[s].pc = "scan"
      BY <1>10, <1>b DEF HandOver, Idle, SessOK
  <2>2. UNCHANGED <<outcome, copies, discarded>>
      BY <1>10 DEF HandOver, Begins, store
  <2>3. Settled(sess'[s], copies', discarded')
      BY <2>1 DEF Settled, Past
  <2> QED
      BY <1>1, <2>1, <2>2, <2>3
<1>8. ASSUME NEW s \in Sessions, NEW a \in Addresses, Rcpt(s, a) PROVE Stored'
  <2>1. /\ \A t \in Sessions \ {s} : sess'[t] = sess[t]
        /\ sess'[s].pc = "rcpt"
      BY <1>8, <1>a, <1>b DEF Rcpt, SessOK, Session
  <2>2. UNCHANGED <<copies, discarded>>
      BY <1>8 DEF Rcpt, store
  <2>3. \A n \in Mails, c \in Addresses :
            outcome'[n][c] = "accepted" => outcome[n][c] = "accepted"
      BY <1>8 DEF Rcpt, TypeInv, SenderOK
  <2>4. Settled(sess'[s], copies', discarded')
      BY <2>1 DEF Settled, Past
  <2> QED
      BY <1>1, <1>e, <2>1, <2>2, <2>3, <2>4
<1>9. ASSUME NEW s \in Sessions, Reply(s) PROVE Stored'
  <2> DEFINE m == sess[s].mail
  <2>1. /\ \A t \in Sessions \ {s} : sess'[t] = sess[t]
        /\ sess'[s] = Idle
      BY <1>9, <1>b DEF Reply, SessOK
  <2>2. UNCHANGED <<copies, discarded>>
      BY <1>9 DEF Reply, store
  <2>3. m \in Mails
      BY <1>9, <1>d DEF Reply, Verdict
  <2>4. ASSUME NEW n \in Mails, NEW p \in Pairs, outcome'[n][p[1]] = "accepted",
               p[2] \in Resolve[p[1]], outcome[n][p[1]] # "accepted"
        PROVE  Has(copies, discarded, n, p)
    <3>1. /\ n = m /\ p[1] \in sess[s].rcpts
          /\ Answer(s) = "accepted"
        BY <1>9, <1>e, <2>3, <2>4 DEF Reply, TypeInv, SenderOK
    <3>2. sess[s].pc = "accept"
        BY <1>9, <3>1 DEF Reply, Answer, Verdict
    <3>3. Settled(sess[s], copies, discarded)
        BY DEF Stored
    <3> QED
        BY <2>4, <3>1, <3>2, <3>3 DEF Settled, Past, IsTarget
  <2> QED
      BY <1>1, <1>c, <2>1, <2>2, <2>4
<1> QED
    BY <1>2, <1>3, <1>4, <1>5, <1>6, <1>7, <1>8, <1>9, <1>10, StepShapes

-----------------------------------------------------------------------------
\* Sessions that may still write copies of m though nobody waits for them.
Late(m) ==
    {s \in Sessions : sess[s].mail = m /\ ~sess[s].heard /\ Early(sess[s])}

\* A sender was told, or will be unless it stops listening, that the copies of
\* m for address a are written.
Explained(m, a) ==
    \/ outcome[m][a] = "accepted"
    \/ \E s \in Sessions : /\ sess[s].mail = m /\ sess[s].heard
                            /\ Past(sess[s]) /\ a \in sess[s].rcpts

\* The copies there are and those to come nobody waits for: no more than the
\* ends that were missed, and one more when a sender knows or will know.
Account(m, p) ==
    /\ copies[m][p] + Cardinality(Late(m)) <= lost[m] + 1
    /\ ~Explained(m, p[1]) => copies[m][p] + Cardinality(Late(m)) <= lost[m]

Accounted == \A m \in Mails, p \in Pairs : Account(m, p)

\* The sessions that nobody listens to any more are finitely many.
LEMMA LateCount ==
    \A m : IsFiniteSet(Late(m)) /\ Cardinality(Late(m)) \in Nat
<1> TAKE m
<1>1. Late(m) \subseteq Sessions
    BY DEF Late
<1> QED
    BY <1>1, InboundAssumption, FS_Subset, FS_CardinalityType

\* Every step keeps the account of the copies: a copy more is a settled recipient
\* or the end of a transaction that was missed.
LEMMA AccountStep == TypeInv /\ Waits /\ Accounted /\ [Next]_vars => Accounted'
<1> SUFFICES ASSUME TypeInv, Waits, Accounted, [Next]_vars,
                    NEW m \in Mails, NEW p \in Pairs
             PROVE  Account(m, p)'
    BY DEF Accounted
<1> DEFINE a == p[1]
<1>a. \A s \in Sessions : sess[s] \in Session /\ Shape(sess[s])
    BY DEF TypeInv, SessOK
<1>b. SessOK /\ TypeInv'
    BY TypeStep DEF TypeInv
<1>c. Idle.mail = None /\ Idle.pc = "idle" /\ None \notin Mails
    BY InboundAssumption DEF Idle
<1>d. /\ copies[m][p] \in Nat /\ copies'[m][p] \in Nat
      /\ lost[m] \in Nat /\ lost'[m] \in Nat
    BY <1>b DEF TypeInv, RowsOK, SenderOK
<1>e. /\ IsFiniteSet(Late(m)) /\ Cardinality(Late(m)) \in Nat
      /\ IsFiniteSet(Late(m)') /\ Cardinality(Late(m)') \in Nat
    <2>1. Late(m)' \subseteq Sessions
        BY DEF Late
    <2> QED
        BY <2>1, LateCount, InboundAssumption, FS_Subset, FS_CardinalityType
<1>f. Account(m, p) /\ a \in Addresses
    BY DEF Accounted, Pairs
<1>g. \A s \in Sessions : sess[s].pc # "idle" => sess[s].mail \in Mails
    BY <1>a DEF Shape
\* The sum does not grow by more than the ends that were missed.
<1>1. ASSUME copies'[m][p] + Cardinality(Late(m)') - lost'[m]
                 <= copies[m][p] + Cardinality(Late(m)) - lost[m],
             Explained(m, a) => Explained(m, a)'
      PROVE  Account(m, p)'
    BY <1>1, <1>d, <1>e, <1>f DEF Account
<1>2. ASSUME Late(m)' \subseteq Late(m), copies'[m][p] = copies[m][p],
             lost'[m] = lost[m], Explained(m, a) => Explained(m, a)'
      PROVE  Account(m, p)'
  <2>1. Cardinality(Late(m)') <= Cardinality(Late(m))
      BY <1>2, <1>e, FS_Subset
  <2> QED
      BY <1>1, <1>2, <1>d, <1>e, <2>1
<1>3. CASE Still
    BY <1>2, <1>3 DEF Still, Late, Explained
<1>4. ASSUME NEW s \in Sessions, Quiet(s) PROVE Account(m, p)'
  <2>1. UNCHANGED <<outcome, lost, copies>>
        /\ \A t \in Sessions \ {s} : sess'[t] = sess[t]
      BY <1>4 DEF Quiet
  <2>2. sess[s].pc = "rcpt" => sess[s].heard
      BY <1>a DEF Shape
  <2>3. s \in Late(m)' => s \in Late(m)
      BY <1>4, <1>c, <2>2 DEF Quiet, Late, Early
  <2>4. Late(m)' \subseteq Late(m)
      BY <2>1, <2>3 DEF Late
  <2>5. sess[s].mail = m /\ sess[s].heard /\ Past(sess[s]) /\ a \in sess[s].rcpts
          => sess'[s].mail = m /\ sess'[s].heard /\ Past(sess'[s])
             /\ a \in sess'[s].rcpts
      BY <1>4 DEF Quiet, Past
  <2>6. Explained(m, a) => Explained(m, a)'
      BY <2>1, <2>5 DEF Explained
  <2> QED
      BY <1>2, <2>1, <2>4, <2>6
<1>5. ASSUME NEW s \in Sessions, NEW n \in Mails, Mail(s, n)
      PROVE  Account(m, p)'
  <2>1. /\ \A t \in Sessions \ {s} : sess'[t] = sess[t]
        /\ sess'[s].pc = "rcpt" /\ sess[s].pc = "idle"
        /\ UNCHANGED <<outcome, lost, copies>>
      BY <1>5, <1>b DEF Mail, Begins, Idle, SessOK, store
  <2>2. Late(m)' \subseteq Late(m)
      BY <2>1 DEF Late, Early
  <2>3. Explained(m, a) => Explained(m, a)'
      BY <2>1 DEF Explained, Past
  <2> QED
      BY <1>2, <2>1, <2>2, <2>3
<1>11. ASSUME NEW s \in Sessions, NEW n \in Local, NEW c \in Addresses,
              HandOver(s, n, c)
       PROVE  Account(m, p)'
  <2>1. /\ \A t \in Sessions \ {s} : sess'[t] = sess[t]
        /\ sess'[s].heard /\ sess[s].pc = "idle"
        /\ UNCHANGED <<outcome, lost, copies>>
      BY <1>11, <1>b DEF HandOver, Begins, Idle, SessOK, store
  <2>2. Late(m)' \subseteq Late(m)
      BY <2>1 DEF Late
  <2>3. Explained(m, a) => Explained(m, a)'
      BY <2>1 DEF Explained, Past
  <2> QED
      BY <1>2, <2>1, <2>2, <2>3
<1>6. ASSUME NEW s \in Sessions, NEW c \in Addresses, Rcpt(s, c)
      PROVE  Account(m, p)'
  <2>1. /\ \A t \in Sessions \ {s} : sess'[t] = sess[t]
        /\ sess'[s].pc = "rcpt" /\ sess[s].pc = "rcpt"
      BY <1>6, <1>a, <1>b DEF Rcpt, SessOK, Session
  <2>2. UNCHANGED <<lost, copies>>
      BY <1>6 DEF Rcpt, store
  <2>3. outcome[m][a] = "accepted" => outcome'[m][a] = "accepted"
      BY <1>6, <1>f DEF Rcpt, Pending, TypeInv, SenderOK
  <2>4. Late(m)' \subseteq Late(m)
      BY <2>1 DEF Late, Early
  <2>5. Explained(m, a) => Explained(m, a)'
      BY <2>1, <2>3 DEF Explained, Past
  <2> QED
      BY <1>2, <2>2, <2>4, <2>5
<1>7. ASSUME NEW s \in Sessions, Files(s) PROVE Account(m, p)'
  <2>1. sess[s].mail \in Mails /\ sess[s].pc = "persist" /\ UNCHANGED outcome
      BY <1>7, <1>g DEF Files
  <2>2. Kept(s) \in SUBSET Pairs /\ \A q \in Kept(s) : q[1] \in sess[s].rcpts
      BY <1>a DEF Kept, Targets, Session, Pairs
  <2>3. copies'[m][p] = IF m = sess[s].mail /\ p \in Kept(s)
                        THEN copies[m][p] + 1 ELSE copies[m][p]
      BY <1>7, <2>1, <2>2, FiledRows DEF Files
  <2>4. PICK q \in {"reply", "defer"} :
          Goes(s, q) /\ lost' = IF q = "reply" THEN lost ELSE
                                  [lost EXCEPT ![sess[s].mail] = @ + 1]
      BY <1>7 DEF Files
  <2>5. /\ \A t \in Sessions \ {s} : sess'[t] = sess[t]
        /\ sess'[s].mail = sess[s].mail /\ sess'[s].rcpts = sess[s].rcpts
        /\ sess'[s].pc = q /\ sess'[s].heard = sess[s].heard
      BY <1>b, <2>4, GoesOnly
  <2>6. lost'[m] >= lost[m] /\ (q = "defer" /\ m = sess[s].mail
                                   => lost'[m] = lost[m] + 1)
      BY <1>d, <2>4 DEF TypeInv, SenderOK
  <2>7. Late(m)' = Late(m) \ {s}
      BY <2>1, <2>5 DEF Late, Early
  <2>8. Explained(m, a) => Explained(m, a)'
      BY <2>1, <2>5 DEF Explained, Past
  <2>9. CASE ~(m = sess[s].mail /\ p \in Kept(s))
    <3>1. Cardinality(Late(m)') <= Cardinality(Late(m))
        BY <1>e, <2>7, FS_Subset
    <3> QED
        BY <1>1, <1>d, <1>e, <2>3, <2>6, <2>8, <2>9, <3>1
  <2>10. CASE m = sess[s].mail /\ p \in Kept(s) /\ ~sess[s].heard
    <3>1. s \in Late(m)
        BY <2>1, <2>10 DEF Late, Early
    <3>2. Cardinality(Late(m)') = Cardinality(Late(m)) - 1
        BY <1>e, <2>7, <3>1, FS_RemoveElement
    <3> QED
        BY <1>1, <1>d, <1>e, <2>3, <2>6, <2>8, <2>10, <3>2
  <2>11. CASE m = sess[s].mail /\ p \in Kept(s) /\ sess[s].heard
    <3>1. Late(m)' = Late(m)
        BY <2>7, <2>11 DEF Late
    <3>2. ~Explained(m, a)
      <4>1. outcome[m][a] = "pending"
          BY <2>2, <2>11 DEF Waits
      <4>2. \A t \in Sessions : sess[t].mail = m /\ sess[t].heard => t = s
          BY <2>1, <2>11 DEF Waits
      <4> QED
          BY <2>1, <4>1, <4>2 DEF Explained, Past
    <3>3. copies[m][p] + Cardinality(Late(m)) <= lost[m]
        BY <1>f, <3>2 DEF Account
    <3>4. CASE q = "defer"
        BY <1>1, <1>d, <1>e, <2>3, <2>6, <2>8, <2>11, <3>1, <3>4
    <3>5. CASE q = "reply"
      <4>1. Explained(m, a)'
          BY <2>2, <2>5, <2>11, <3>5 DEF Explained, Past
      <4> QED
          BY <1>d, <1>e, <2>3, <2>6, <2>11, <3>1, <3>3, <4>1 DEF Account
    <3> QED
        BY <3>4, <3>5
  <2> QED
      BY <2>9, <2>10, <2>11
<1>8. ASSUME NEW s \in Sessions, Reply(s) PROVE Account(m, p)'
  <2>1. /\ \A t \in Sessions \ {s} : sess'[t] = sess[t]
        /\ sess'[s].pc = "idle" /\ UNCHANGED <<lost, copies>>
        /\ sess[s].pc \in {"accept", "refuse", "defer"}
      BY <1>8, <1>b DEF Reply, Idle, SessOK, store, Verdict
  <2>2. sess[s].mail \in Mails
      BY <1>g, <2>1
  <2>3. Late(m)' \subseteq Late(m)
      BY <2>1 DEF Late, Early
  <2>4. outcome'[m][a] = IF /\ sess[s].heard /\ m = sess[s].mail
                            /\ a \in sess[s].rcpts
                         THEN Answer(s) ELSE outcome[m][a]
      BY <1>8, <1>f, <2>2 DEF Reply, TypeInv, SenderOK
  <2>5. outcome[m][a] = "accepted" => outcome'[m][a] = "accepted"
      BY <2>2, <2>4 DEF Waits
  <2>6. (sess[s].mail = m /\ sess[s].heard /\ Past(sess[s])
            /\ a \in sess[s].rcpts)
         => outcome'[m][a] = "accepted"
      BY <2>1, <2>4 DEF Past, Answer, Verdict
  <2>7. Explained(m, a) => Explained(m, a)'
      BY <2>1, <2>5, <2>6 DEF Explained
  <2> QED
      BY <1>2, <2>1, <2>3, <2>7
<1>9. ASSUME NEW s \in Sessions, SenderTimesOut(s) PROVE Account(m, p)'
  <2>1. /\ \A t \in Sessions \ {s} : sess'[t] = sess[t]
        /\ sess'[s].mail = sess[s].mail /\ sess'[s].rcpts = sess[s].rcpts
        /\ sess'[s].pc = sess[s].pc /\ sess[s].heard
      BY <1>9, <1>a, <1>b DEF SenderTimesOut, SessOK, Session
  <2>2. /\ UNCHANGED <<outcome, copies>> /\ sess[s].mail \in Mails
        /\ lost'[m] = IF m = sess[s].mail THEN lost[m] + 1 ELSE lost[m]
      BY <1>9, <1>g DEF SenderTimesOut, store, TypeInv, SenderOK
  <2>3. CASE m # sess[s].mail
    <3>1. Late(m)' \subseteq Late(m)
        BY <2>1, <2>3 DEF Late, Early
    <3>2. Explained(m, a) => Explained(m, a)'
        BY <2>1, <2>2, <2>3 DEF Explained
    <3> QED
        BY <1>2, <2>2, <2>3, <3>1, <3>2
  <2>4. CASE m = sess[s].mail /\ Early(sess[s])
    <3>1. Late(m)' \subseteq Late(m) \cup {s} /\ s \notin Late(m)
        BY <2>1 DEF Late, Early
    <3>2. Cardinality(Late(m) \cup {s}) = Cardinality(Late(m)) + 1
          /\ IsFiniteSet(Late(m) \cup {s})
        BY <1>e, <3>1, FS_AddElement
    <3>3. Cardinality(Late(m)') <= Cardinality(Late(m)) + 1
        BY <3>1, <3>2, FS_Subset
    <3>4. Explained(m, a) => Explained(m, a)'
        BY <2>1, <2>2, <2>4 DEF Explained, Early, Past
    <3> QED
        BY <1>1, <1>d, <1>e, <2>2, <2>4, <3>3, <3>4
  <2>5. CASE m = sess[s].mail /\ ~Early(sess[s])
    <3>1. Late(m)' \subseteq Late(m)
        BY <2>1, <2>5 DEF Late, Early
    <3>2. Cardinality(Late(m)') <= Cardinality(Late(m))
        BY <1>e, <3>1, FS_Subset
    <3> QED
        BY <1>d, <1>e, <1>f, <2>2, <2>5, <3>2 DEF Account
  <2> QED
      BY <2>3, <2>4, <2>5
<1>10. CASE Crash
  <2> DEFINE Heard == {s \in Sessions : sess[s].mail = m /\ sess[s].heard}
  <2>1. /\ \A t \in Sessions : sess'[t] = Idle
        /\ UNCHANGED <<outcome, copies>>
        /\ lost'[m] = lost[m] + Cardinality(Heard)
      BY <1>10 DEF Crash, store
  <2>2. IsFiniteSet(Heard) /\ Cardinality(Heard) \in Nat
      BY InboundAssumption, FS_Subset, FS_CardinalityType
  <2>3. Heard # {} => Cardinality(Heard) > 0
      BY <2>2, FS_EmptySet
  <2>4. Cardinality(Late(m)') = 0
    <3>1. \A t \in Sessions : sess'[t].mail # m
        BY <1>c, <2>1
    <3>2. Late(m)' = {}
        BY <3>1 DEF Late
    <3> QED
        BY <3>2, FS_EmptySet
  <2>5. CASE outcome[m][a] = "accepted"
      BY <1>d, <1>e, <1>f, <2>1, <2>2, <2>4, <2>5 DEF Account, Explained
  <2>6. CASE Heard # {}
      BY <1>d, <1>e, <1>f, <2>1, <2>2, <2>3, <2>4, <2>6 DEF Account
  <2>7. CASE outcome[m][a] # "accepted" /\ Heard = {}
    <3>1. ~Explained(m, a)
        BY <2>7 DEF Explained
    <3> QED
        BY <1>d, <1>e, <1>f, <2>1, <2>2, <2>4, <3>1 DEF Account
  <2> QED
      BY <2>5, <2>6, <2>7
<1> QED
    BY <1>3, <1>4, <1>5, <1>6, <1>7, <1>8, <1>9, <1>10, <1>11, StepShapes

DeliveryInv == TypeInv /\ Waits /\ Stored /\ Accounted

\* The invariant of the delivery holds at the start.
LEMMA DeliveryInit == Init => DeliveryInv
<1> SUFFICES ASSUME Init PROVE DeliveryInv
    OBVIOUS
<1>a. \A s \in Sessions : sess[s] = Idle
    BY DEF Init
<1>b. Idle.mail = None /\ Idle.pc = "idle" /\ Idle.rcpts = {} /\ None \notin Mails
    BY InboundAssumption DEF Idle
<1>c. \A p \in Pairs : p[1] \in Addresses
    BY DEF Pairs
<1>1. TypeInv
    BY TypeInit
<1>2. Waits
    BY <1>a, <1>b DEF Waits
<1>3. Stored
    BY <1>a, <1>b, <1>c DEF Init, Stored, Settled, IsTarget
<1>4. ASSUME NEW m \in Mails, NEW p \in Pairs PROVE Account(m, p)
  <2>1. Late(m) = {}
      BY <1>a, <1>b DEF Late
  <2>2. Cardinality(Late(m)) = 0
      BY <2>1, FS_EmptySet
  <2>3. copies[m][p] = 0 /\ lost[m] = 0
      BY DEF Init, Pairs
  <2> QED
      BY <2>2, <2>3 DEF Account
<1> QED
    BY <1>1, <1>2, <1>3, <1>4 DEF DeliveryInv, Accounted

\* Every step keeps it.
LEMMA DeliveryStep == DeliveryInv /\ [Next]_vars => DeliveryInv'
BY TypeStep, WaitsStep, StoredStep, AccountStep DEF DeliveryInv

\* 250 after DATA means that every mailbox the address leads to has the row or
\* dropped it by its own rules, whatever failed, timed out or was retried.
THEOREM AcceptedStored == Spec => []AcceptedIsStored
<1>1. DeliveryInv => AcceptedIsStored
  <2> SUFFICES ASSUME DeliveryInv, NEW m \in Mails, NEW a \in Addresses,
                      outcome[m][a] = "accepted", NEW b \in Resolve[a]
               PROVE  copies[m][<<a, b>>] > 0 \/ <<m, <<a, b>>>> \in discarded
      BY DEF AcceptedIsStored
  <2>1. <<a, b>> \in Pairs
      BY InboundAssumption DEF Pairs
  <2>2. <<a, b>>[1] = a /\ <<a, b>>[2] = b
      OBVIOUS
  <2> QED
      BY <2>1, <2>2 DEF DeliveryInv, Stored, Has
<1> QED
    BY <1>1, DeliveryInit, DeliveryStep, PTL DEF Spec

\* A mailbox has no more copies of a message by one address than one and the
\* transactions whose end the sender or the server missed.
THEOREM CopiesExplained == Spec => []CopiesAreExplained
<1>1. DeliveryInv => CopiesAreExplained
  <2> SUFFICES ASSUME DeliveryInv, NEW m \in Mails, NEW a \in Addresses,
                      NEW b \in Mailboxes
               PROVE  copies[m][<<a, b>>] <= 1 + lost[m]
      BY DEF CopiesAreExplained
  <2>1. <<a, b>> \in Pairs
      BY DEF Pairs
  <2>2. copies[m][<<a, b>>] \in Nat /\ lost[m] \in Nat
      BY <2>1 DEF DeliveryInv, TypeInv, RowsOK, SenderOK
  <2>3. copies[m][<<a, b>>] + Cardinality(Late(m)) <= lost[m] + 1
      BY <2>1 DEF DeliveryInv, Accounted, Account
  <2> QED
      BY <2>2, <2>3, LateCount
<1> QED
    BY <1>1, DeliveryInit, DeliveryStep, PTL DEF Spec

\* A sender that bounces a message to its author tells the truth: nobody has
\* it, unless the end of an earlier transaction was missed.
THEOREM RefusedNotStored == Spec => []RefusedIsNotStored
<1>1. DeliveryInv => RefusedIsNotStored
  <2> SUFFICES ASSUME DeliveryInv, NEW m \in Mails, NEW a \in Addresses,
                      outcome[m][a] = "refused", lost[m] = 0,
                      NEW b \in Mailboxes
               PROVE  copies[m][<<a, b>>] = 0
      BY DEF RefusedIsNotStored
  <2>1. <<a, b>> \in Pairs /\ <<a, b>>[1] = a
      BY DEF Pairs
  <2>2. copies[m][<<a, b>>] \in Nat
      BY <2>1 DEF DeliveryInv, TypeInv, RowsOK
  <2>3. ~Explained(m, a)
      BY DEF DeliveryInv, Waits, Explained
  <2>4. copies[m][<<a, b>>] + Cardinality(Late(m)) <= lost[m]
      BY <2>1, <2>3 DEF DeliveryInv, Accounted, Account
  <2> QED
      BY <2>2, <2>4, LateCount
<1> QED
    BY <1>1, DeliveryInit, DeliveryStep, PTL DEF Spec

-----------------------------------------------------------------------------
\* The addresses that lead to a mailbox.
To(b) == {a \in Addresses : b \in Resolve[a]}

\* The copies sessions may still write for b without another look at its
\* quota, as pairs of session and address.
Open(v) == v.mail \notin Local /\ (v.pc = "rcpt" \/ Early(v))
ToCome(b) ==
    {q \in Sessions \X To(b) : q[2] \in sess[q[1]].rcpts /\ Open(sess[q[1]])}

MaxToCome(b) == Cardinality(Sessions) * Cardinality(To(b))

\* What is charged and what no check will stop any more.
QuotaInv ==
    \A b \in Mailboxes :
        used[b] + Cardinality(ToCome(b)) < Quota + unchecked[b] + MaxToCome(b)

\* There are at most as many such pairs as sessions times addresses.
LEMMA PairCount ==
    ASSUME NEW b, NEW P \in SUBSET (Sessions \X To(b))
    PROVE  /\ IsFiniteSet(P) /\ Cardinality(P) \in Nat
           /\ MaxToCome(b) \in Nat
           /\ Cardinality(P) <= MaxToCome(b)
<1>1. IsFiniteSet(Sessions) /\ IsFiniteSet(To(b))
    BY InboundAssumption, FS_Subset DEF To
<1>2. IsFiniteSet(Sessions \X To(b))
      /\ Cardinality(Sessions \X To(b)) = MaxToCome(b)
    BY <1>1, FS_Product DEF MaxToCome
<1> QED
    BY <1>2, FS_Subset, FS_CardinalityType

\* A copy is charged when the session that took the address is done with it.
LEMMA QuotaStep == TypeInv /\ QuotaInv /\ [Next]_vars => QuotaInv'
<1> SUFFICES ASSUME TypeInv, QuotaInv, [Next]_vars, NEW b \in Mailboxes
             PROVE  used'[b] + Cardinality(ToCome(b)')
                        < Quota + unchecked'[b] + MaxToCome(b)
    BY DEF QuotaInv, MaxToCome, To
<1> DEFINE Goal == used'[b] + Cardinality(ToCome(b)')
                       < Quota + unchecked'[b] + MaxToCome(b)
<1>a. SessOK /\ \A s \in Sessions : sess[s] \in Session /\ Shape(sess[s])
    BY DEF TypeInv, SessOK
<1>b. /\ ToCome(b) \in SUBSET (Sessions \X To(b))
      /\ ToCome(b)' \in SUBSET (Sessions \X To(b))
    BY DEF ToCome, To
<1>c. /\ IsFiniteSet(ToCome(b)) /\ Cardinality(ToCome(b)) \in Nat
      /\ IsFiniteSet(ToCome(b)') /\ Cardinality(ToCome(b)') \in Nat
      /\ MaxToCome(b) \in Nat /\ Cardinality(ToCome(b)') <= MaxToCome(b)
    BY <1>b, PairCount
<1>d. /\ used[b] \in Nat /\ unchecked[b] \in Nat /\ Quota \in Nat
      /\ used[b] + Cardinality(ToCome(b)) < Quota + unchecked[b] + MaxToCome(b)
    BY InboundAssumption DEF TypeInv, RowsOK, QuotaInv
\* Nothing is charged, and no address of b is taken.
<1>1. ASSUME used' = used, unchecked' = unchecked,
             \A t \in Sessions, a \in To(b) :
                 a \in sess'[t].rcpts /\ Open(sess'[t])
                     => a \in sess[t].rcpts /\ Open(sess[t])
      PROVE  Goal
  <2>1. ASSUME NEW q \in ToCome(b)' PROVE q \in ToCome(b)
    <3>1. /\ q \in Sessions \X To(b) /\ q[1] \in Sessions /\ q[2] \in To(b)
          /\ q[2] \in sess'[q[1]].rcpts /\ Open(sess'[q[1]])
        BY <1>b DEF ToCome, Open, Early, To
    <3> QED
        BY <1>1, <3>1 DEF ToCome
  <2>2. Cardinality(ToCome(b)') <= Cardinality(ToCome(b))
      BY <1>c, <2>1, FS_Subset
  <2> QED
      BY <1>1, <1>c, <1>d, <2>2
<1>2. CASE Still
    BY <1>1, <1>2 DEF Still
<1>3. ASSUME NEW s \in Sessions, Quiet(s) PROVE Goal
  <2>1. Open(sess'[s]) => Open(sess[s]) /\ sess'[s].rcpts = sess[s].rcpts
      BY <1>3 DEF Quiet, Open, Early, Idle
  <2>2. /\ used' = used /\ unchecked' = unchecked
        /\ \A t \in Sessions \ {s} : sess'[t] = sess[t]
      BY <1>3 DEF Quiet
  <2> QED
      BY <1>1, <2>1, <2>2
<1>4. ASSUME NEW s \in Sessions, NEW m \in Mails, Mail(s, m) PROVE Goal
  <2>1. /\ \A t \in Sessions \ {s} : sess'[t] = sess[t]
        /\ sess'[s].rcpts = {} /\ used' = used /\ unchecked' = unchecked
      BY <1>4, <1>a DEF Mail, Begins, Idle, SessOK, store
  <2> QED
      BY <1>1, <2>1
<1>10. ASSUME NEW s \in Sessions, NEW m \in Local, NEW a \in Addresses,
              HandOver(s, m, a)
       PROVE  Goal
  <2>1. /\ \A t \in Sessions \ {s} : sess'[t] = sess[t]
        /\ ~Open(sess'[s]) /\ used' = used /\ unchecked' = unchecked
      BY <1>10, <1>a DEF HandOver, Begins, SessOK, store, Open, Idle
  <2> QED
      BY <1>1, <2>1
<1>5. ASSUME NEW s \in Sessions, NEW a \in Addresses, Rcpt(s, a) PROVE Goal
  <2>1. used' = used /\ unchecked' = unchecked
      BY <1>5 DEF Rcpt, store
  <2>2. CASE b \in Resolve[a]
    <3>1. used[b] < Quota
        BY <1>5, <2>2 DEF Rcpt, HasRoom
    <3> QED
        BY <1>c, <1>d, <2>1, <3>1
  <2>3. CASE b \notin Resolve[a]
    <3>1. /\ \A t \in Sessions \ {s} : sess'[t] = sess[t]
          /\ sess'[s].rcpts \subseteq sess[s].rcpts \cup {a}
          /\ sess[s].pc = "rcpt" /\ sess'[s].mail = sess[s].mail
        BY <1>5, <1>a DEF Rcpt, SessOK, Session
    <3>2. a \notin To(b)
        BY <2>3 DEF To
    <3> QED
        BY <1>1, <2>1, <3>1, <3>2 DEF Open
  <2> QED
      BY <2>2, <2>3
<1>6. ASSUME NEW s \in Sessions, Files(s) PROVE Goal
  <2> DEFINE K == {p \in Kept(s) : p[2] = b}
             Gone == {q \in ToCome(b) : q[1] = s}
             f == [q \in Gone |-> <<q[2], b>>]
  <2>1. sess[s].mail \in Mails /\ sess[s].pc = "persist"
      BY <1>6, <1>a DEF Files, Shape
  <2>2. Kept(s) \in SUBSET Pairs
      BY <1>a DEF Kept, Targets, Session, Pairs
  <2>3. /\ used'[b] = used[b] + Cardinality(K)
        /\ unchecked'[b] = IF sess[s].mail \in Local THEN unchecked[b] + Cardinality(K)
                           ELSE unchecked[b]
      BY <1>6, <2>1, <2>2, FiledRows DEF Files
  <2>4. PICK pc \in {"reply", "defer"} : Goes(s, pc)
      BY <1>6 DEF Files
  <2>5. /\ \A t \in Sessions \ {s} : sess'[t] = sess[t]
        /\ sess'[s].pc = pc
      BY <1>a, <2>4, GoesOnly
  <2>6. ~Open(sess'[s])
      BY <2>5 DEF Open, Early
  <2>7. ASSUME NEW q \in ToCome(b)' PROVE q \in ToCome(b) \ Gone
    <3>1. /\ q \in Sessions \X To(b) /\ q[1] \in Sessions
          /\ q[2] \in sess'[q[1]].rcpts /\ Open(sess'[q[1]])
        BY <1>b DEF ToCome, Open, Early, To
    <3>2. q[1] # s
        BY <2>6, <3>1
    <3>3. sess'[q[1]] = sess[q[1]]
        BY <2>5, <3>1, <3>2
    <3> QED
        BY <3>1, <3>2, <3>3 DEF ToCome
  <2>8. IsFiniteSet(Gone) /\ Cardinality(Gone) \in Nat
      BY <1>c, FS_Subset, FS_CardinalityType
  <2>9. Cardinality(ToCome(b) \ Gone) = Cardinality(ToCome(b)) - Cardinality(Gone)
        /\ IsFiniteSet(ToCome(b) \ Gone)
    <3>1. ToCome(b) \cap Gone = Gone
        OBVIOUS
    <3> QED
        BY <1>c, <2>8, <3>1, FS_Difference, FS_Subset
  <2>10. Cardinality(ToCome(b)') <= Cardinality(ToCome(b)) - Cardinality(Gone)
      BY <2>7, <2>9, FS_Subset
  <2>11. ASSUME sess[s].mail \notin Local, NEW p \in K PROVE \E q \in Gone : f[q] = p
    <3>1. /\ p \in Pairs /\ p[1] \in Addresses /\ p[2] = b /\ p = <<p[1], p[2]>>
          /\ p[1] \in sess[s].rcpts /\ p[2] \in Resolve[p[1]]
        BY <2>2 DEF Kept, Targets, Pairs
    <3>2. <<s, p[1]>> \in Gone
        BY <2>1, <2>11, <3>1 DEF ToCome, To, Open, Early
    <3> QED
        BY <3>1, <3>2
  <2>12. sess[s].mail \notin Local => K \subseteq {f[q] : q \in Gone}
      BY <2>11
  <2>13. /\ IsFiniteSet({f[q] : q \in Gone})
         /\ Cardinality({f[q] : q \in Gone}) <= Cardinality(Gone)
    <3>1. f \in Surjection(Gone, {f[q] : q \in Gone})
        BY DEF Surjection
    <3> QED
        BY <2>8, <3>1, FS_Surjection
  <2>14. ASSUME sess[s].mail \notin Local
         PROVE  Cardinality(K) \in Nat /\ Cardinality(K) <= Cardinality(Gone)
    <3>1. IsFiniteSet(K) /\ Cardinality(K) <= Cardinality({f[q] : q \in Gone})
        BY <2>12, <2>13, <2>14, FS_Subset
    <3>2. Cardinality(K) \in Nat /\ Cardinality({f[q] : q \in Gone}) \in Nat
        BY <2>13, <3>1, FS_CardinalityType
    <3> QED
        BY <2>8, <2>13, <3>1, <3>2
  <2>15. Cardinality(K) \in Nat
      BY <2>2, CountType
  <2> HIDE DEF K, Gone
  <2>16. CASE sess[s].mail \notin Local
      BY <1>c, <1>d, <2>3, <2>8, <2>10, <2>14, <2>16
  <2>17. CASE sess[s].mail \in Local
      BY <1>c, <1>d, <2>3, <2>8, <2>10, <2>15, <2>17
  <2> QED
      BY <2>16, <2>17
<1>7. ASSUME NEW s \in Sessions, Reply(s) PROVE Goal
  <2>1. /\ \A t \in Sessions \ {s} : sess'[t] = sess[t]
        /\ sess'[s].rcpts = {} /\ used' = used /\ unchecked' = unchecked
      BY <1>7, <1>a DEF Reply, Idle, SessOK, store
  <2> QED
      BY <1>1, <2>1
<1>8. ASSUME NEW s \in Sessions, SenderTimesOut(s) PROVE Goal
  <2>1. /\ \A t \in Sessions \ {s} : sess'[t] = sess[t]
        /\ sess'[s].rcpts = sess[s].rcpts /\ sess'[s].pc = sess[s].pc
        /\ sess'[s].mail = sess[s].mail
        /\ used' = used /\ unchecked' = unchecked
      BY <1>8, <1>a DEF SenderTimesOut, SessOK, Session, store
  <2> QED
      BY <1>1, <2>1 DEF Open, Early
<1>9. CASE Crash
  <2>1. /\ used' = used /\ unchecked' = unchecked
        /\ \A t \in Sessions : sess'[t].rcpts = {}
      BY <1>9 DEF Crash, Idle, store
  <2> QED
      BY <1>1, <2>1
<1> QED
    BY <1>2, <1>3, <1>4, <1>5, <1>6, <1>7, <1>8, <1>9, <1>10, StepShapes

\* A mailbox goes over its quota by less than one copy for each session
\* and each address that leads to it, however many pass the check before
\* anything is charged, and what workers delivered to it without a check.
THEOREM QuotaOverrunBounded == Spec => []QuotaOverrunIsBounded
<1>1. Init => TypeInv /\ QuotaInv
  <2> SUFFICES ASSUME Init, NEW b \in Mailboxes
               PROVE  used[b] + Cardinality(ToCome(b)) < Quota + unchecked[b] + MaxToCome(b)
      BY TypeInit DEF QuotaInv
  <2>1. ToCome(b) = {} /\ used[b] = 0 /\ unchecked[b] = 0
      BY DEF Init, Idle, ToCome
  <2>2. Cardinality(ToCome(b)) = 0
      BY <2>1, FS_EmptySet
  <2>3. MaxToCome(b) \in Nat /\ Quota \in Nat \ {0}
      BY PairCount, InboundAssumption
  <2> QED
      BY <2>1, <2>2, <2>3
<1>2. TypeInv /\ QuotaInv /\ [Next]_vars => TypeInv' /\ QuotaInv'
    BY TypeStep, QuotaStep
<1>3. TypeInv /\ QuotaInv => QuotaOverrunIsBounded
  <2> SUFFICES ASSUME TypeInv, QuotaInv, NEW b \in Mailboxes
               PROVE  used[b] < Quota + unchecked[b] + MaxToCome(b)
      BY DEF QuotaOverrunIsBounded, MaxToCome, To
  <2>1. ToCome(b) \in SUBSET (Sessions \X To(b))
      BY DEF ToCome
  <2>2. Cardinality(ToCome(b)) \in Nat /\ MaxToCome(b) \in Nat
      BY <2>1, PairCount
  <2>3. used[b] \in Nat /\ unchecked[b] \in Nat /\ Quota \in Nat
      BY InboundAssumption DEF TypeInv, RowsOK
  <2>4. used[b] + Cardinality(ToCome(b)) < Quota + unchecked[b] + MaxToCome(b)
      BY DEF QuotaInv
  <2> QED
      BY <2>2, <2>3, <2>4
<1> QED
    BY <1>1, <1>2, <1>3, PTL DEF Spec

-----------------------------------------------------------------------------
\* While no two replies were decided at once and nothing failed: the replies
\* in hand are for different mailboxes in different sessions, a mailbox that
\* told the correspondent is in the log or about to be, and a reply that can
\* be sent has not been sent or is the one about to be recorded.
VacationInv ==
    ~overlap /\ faults = 0 =>
        /\ \A s, t \in Sessions :
              \A p \in sess[s].replies, q \in sess[t].replies :
                  p[2] = q[2] => s = t
        /\ \A b \in Mailboxes : told[b] > 0 =>
              b \in log \/ \E s \in Sessions : \E p \in sess[s].sent : p[2] = b
        /\ \A s \in Sessions : \A p \in sess[s].replies :
              p[1] \in Direct => told[p[2]] = 0 \/ p \in sess[s].sent
        /\ \A b \in Mailboxes : told[b] <= 1

\* An address of a mailbox's own leads to that mailbox only, and no other
\* such address leads there.
LEMMA DirectIsUnique ==
    ASSUME NEW a \in Direct, NEW c \in Direct, NEW b,
           b \in Resolve[a], b \in Resolve[c]
    PROVE  a = c
<1>1. ASSUME NEW d \in Direct, b \in Resolve[d] PROVE Resolve[d] = {b}
  <2>1. Resolve[d] \subseteq Mailboxes /\ Cardinality(Resolve[d]) = 1
      BY InboundAssumption
  <2>2. IsFiniteSet(Resolve[d])
      BY <2>1, InboundAssumption, FS_Subset
  <2>3. PICK e : Resolve[d] = {e}
      BY <2>1, <2>2, FS_Singleton
  <2> QED
      BY <1>1, <2>3
<1>2. Resolve[a] = {b} /\ Resolve[c] = {b}
    BY <1>1
<1> QED
    BY <1>2, InboundAssumption

\* Every step keeps what the log says of the replies sent and about to be.
LEMMA VacationStep == TypeInv /\ VacationInv /\ [Next]_vars => VacationInv'
<1> SUFFICES ASSUME TypeInv, VacationInv, [Next]_vars, ~overlap', faults' = 0
             PROVE  VacationInv'
    BY DEF VacationInv
<1>a. SessOK /\ \A s \in Sessions : sess[s] \in Session /\ Shape(sess[s])
    BY DEF TypeInv, SessOK
<1>b. faults \in Nat /\ \A b \in Mailboxes : told[b] \in Nat
    BY DEF TypeInv, RestOK
<1>c. \A s \in Sessions : sess[s].pc # "record" => sess[s].sent = {}
    BY <1>a DEF Shape
<1>d. Idle.replies = {} /\ Idle.sent = {}
    BY DEF Idle
<1>e. ~Faulty
    BY <1>b DEF Faulty
<1>f. \A s \in Sessions : \A p \in sess[s].replies :
          p \in Pairs /\ p[1] \in Addresses /\ p[2] \in Mailboxes
    BY <1>a DEF Session, Pairs
\* Nobody is told, and no reply comes up.
<1>1. ASSUME UNCHANGED <<told, log>>, overlap => overlap', faults' = faults,
             \A t \in Sessions : sess'[t].replies \subseteq sess[t].replies
                                /\ sess'[t].sent = sess[t].sent
      PROVE  VacationInv'
    BY <1>1 DEF VacationInv
<1>2. ASSUME NEW s \in Sessions, NEW pc, Goes(s, pc)
      PROVE  \A t \in Sessions : sess'[t].replies = sess[t].replies
                                 /\ sess'[t].sent = sess[t].sent
    BY <1>2, <1>a, GoesOnly
<1> USE DEF sender, store, vacation
<1>3. ASSUME NEW s \in Sessions,
             \/ \E m \in Mails : Mail(s, m)
             \/ \E m \in Local, a \in Addresses : HandOver(s, m, a)
             \/ Data(s) \/ Reply(s)
      PROVE  VacationInv'
  <2>1. sess[s].sent = {}
      BY <1>3, <1>c DEF Mail, HandOver, Begins, Data, Reply, Verdict
  <2>2. ASSUME sess'[s].replies = {}, sess'[s].sent = {},
               \A t \in Sessions \ {s} : sess'[t] = sess[t]
        PROVE  VacationInv'
    <3>1. \A t \in Sessions : sess'[t].replies \subseteq sess[t].replies
                              /\ sess'[t].sent = sess[t].sent
        BY <2>1, <2>2
    <3> QED
        BY <1>1, <1>3, <3>1 DEF Mail, HandOver, Begins, Data, Reply
  <2>3. CASE \E m \in Mails : Mail(s, m)
      BY <1>a, <2>2, <2>3 DEF Mail, Idle, SessOK
  <2>6. CASE \E m \in Local, a \in Addresses : HandOver(s, m, a)
      BY <1>a, <2>2, <2>6 DEF HandOver, Idle, SessOK
  <2>4. CASE sess' = [sess EXCEPT ![s] = Idle]
      BY <1>a, <1>d, <2>2, <2>4 DEF SessOK
  <2>5. CASE \E pc : Goes(s, pc)
      BY <1>1, <1>2, <1>3, <2>5 DEF Mail, HandOver, Begins, Data, Reply
  <2> QED
      BY <1>3, <2>3, <2>4, <2>5, <2>6 DEF Data, Reply
<1>4. ASSUME NEW s \in Sessions,
             \/ \E a \in Addresses : Rcpt(s, a)
             \/ Scan(s) \/ ReadCounts(s) \/ SenderTimesOut(s)
      PROVE  VacationInv'
  <2>1. CASE \E a \in Addresses : Rcpt(s, a)
    <3>1. \A t \in Sessions : sess'[t].replies = sess[t].replies
                              /\ sess'[t].sent = sess[t].sent
        BY <1>a, <2>1 DEF Rcpt, SessOK, Session
    <3> QED
        BY <1>1, <2>1, <3>1 DEF Rcpt
  <2>2. CASE Scan(s)
    <3>1. \/ \E pc : Goes(s, pc)
          \/ \E f : sess' = [sess EXCEPT ![s].pc = "store", ![s].folder = f]
        BY <2>2 DEF Scan
    <3>2. \A t \in Sessions : sess'[t].replies = sess[t].replies
                              /\ sess'[t].sent = sess[t].sent
        BY <1>2, <1>a, <3>1 DEF SessOK, Session
    <3>3. UNCHANGED <<told, log, overlap, faults>>
        BY <2>2 DEF Scan
    <3> QED
        BY <1>1, <3>2, <3>3
  <2>3. CASE ReadCounts(s)
    <3>1. \A t \in Sessions : sess'[t].replies = sess[t].replies
                              /\ sess'[t].sent = sess[t].sent
        BY <1>a, <2>3 DEF ReadCounts, SessOK, Session
    <3> QED
        BY <1>1, <2>3, <3>1 DEF ReadCounts
  <2>4. CASE SenderTimesOut(s)
      BY <1>e, <2>4 DEF SenderTimesOut
  <2> QED
      BY <1>4, <2>1, <2>2, <2>3, <2>4
<1>5. ASSUME NEW s \in Sessions,
             StoreBlob(s) \/ PersistAll(s) \/ RepliesSent(s) \/ Notify(s)
      PROVE  VacationInv'
  <2>1. \E pc : Goes(s, pc)
      BY <1>5 DEF StoreBlob, PersistAll, RepliesSent, Notify
  <2>2. UNCHANGED <<told, log, overlap, faults>>
      BY <1>5, <1>e DEF StoreBlob, PersistAll, RepliesSent, Notify
  <2> QED
      BY <1>1, <1>2, <2>1, <2>2
<1>6. ASSUME NEW s \in Sessions, ApplyRules(s) PROVE VacationInv'
  <2>1. PICK R \in SUBSET Targets(s) :
          /\ \A p \in R : ShouldReply(p[2])
          /\ \A t \in Sessions \ {s} : sess'[t] = sess[t]
          /\ sess'[s].replies = R /\ sess'[s].sent = sess[s].sent
          /\ overlap' = (overlap \/ \E t \in Sessions \ {s} :
                           \E p \in R, q \in sess[t].replies : p[2] = q[2])
    <3>1. PICK d \in [Targets(s) -> Decisions], unread \in BOOLEAN :
          LET replies == {p \in Targets(s) :
                            d[p] = "vacation" /\ (unread \/ ShouldReply(p[2]))}
              dropped == {p \in Targets(s) : d[p] = "discard"}
          IN  /\ IF unread THEN Faulty ELSE UNCHANGED faults
              /\ sess' = [sess EXCEPT
                   ![s].pc = IF dropped = Targets(s) THEN "reply" ELSE "persist",
                   ![s].decision = [p \in Addresses \X Mailboxes |->
                                      IF p \in Targets(s) THEN d[p] ELSE "keep"],
                   ![s].replies = replies]
              /\ discarded' = discarded \cup {<<sess[s].mail, p>> : p \in dropped}
              /\ overlap' = (overlap \/ \E t \in Sessions \ {s} :
                               \E p \in replies, q \in sess[t].replies :
                                 p[2] = q[2])
        BY <1>6 DEF ApplyRules
    <3> DEFINE R == {p \in Targets(s) :
                       d[p] = "vacation" /\ (unread \/ ShouldReply(p[2]))}
    <3>2. ~unread
        BY <1>e, <3>1
    <3>3. R \in SUBSET Targets(s) /\ \A p \in R : ShouldReply(p[2])
        BY <3>2
    <3>4. PICK pc, dec :
            sess' = [sess EXCEPT ![s].pc = pc, ![s].decision = dec, ![s].replies = R]
        BY <3>1
    <3>5. overlap' = (overlap \/ \E t \in Sessions \ {s} :
                        \E p \in R, q \in sess[t].replies : p[2] = q[2])
        BY <3>1
    <3> HIDE DEF R
    <3>6. /\ \A t \in Sessions \ {s} : sess'[t] = sess[t]
          /\ sess'[s].replies = R /\ sess'[s].sent = sess[s].sent
        BY <1>a, <3>4 DEF SessOK, Session
    <3> QED
        BY <3>3, <3>5, <3>6
  <2>2. ~overlap /\ faults = 0 /\ sess[s].sent = {} /\ UNCHANGED <<told, log>>
    <3>1. faults' = faults /\ UNCHANGED <<told, log>> /\ sess[s].pc = "rules"
        BY <1>6, <1>e DEF ApplyRules
    <3> QED
        BY <1>c, <2>1, <3>1
  <2>3. \A t \in Sessions \ {s} : \A p \in R, q \in sess[t].replies : p[2] # q[2]
      BY <2>1
  <2>4. \A p \in R : p[2] \in Mailboxes /\ p[2] \notin log
      BY <2>1 DEF Targets, ShouldReply
  <2>5. \A t \in Sessions : \A p \in sess[t].sent : p \in sess[t].replies
      BY <1>a, <1>c DEF Shape
  <2>6. \A p \in R : told[p[2]] = 0
    <3> SUFFICES ASSUME NEW p \in R, told[p[2]] # 0 PROVE FALSE
        OBVIOUS
    <3>1. PICK t \in Sessions : \E q \in sess[t].sent : q[2] = p[2]
        BY <1>b, <2>2, <2>4 DEF VacationInv
    <3> QED
        BY <2>2, <2>3, <2>5, <3>1
  <2>7. \A t, u \in Sessions :
            \A p \in sess'[t].replies, q \in sess'[u].replies :
                p[2] = q[2] => t = u
    <3> SUFFICES ASSUME NEW t \in Sessions, NEW u \in Sessions,
                        NEW p \in sess'[t].replies, NEW q \in sess'[u].replies,
                        p[2] = q[2]
                 PROVE  t = u
        OBVIOUS
    <3>1. CASE t = s \/ u = s
        BY <2>1, <2>3, <3>1
    <3>2. CASE t # s /\ u # s
        BY <2>1, <2>2, <3>2 DEF VacationInv
    <3> QED
        BY <3>1, <3>2
  <2>8. \A b \in Mailboxes : told'[b] > 0 =>
            b \in log' \/ \E t \in Sessions : \E p \in sess'[t].sent : p[2] = b
      BY <2>1, <2>2 DEF VacationInv
  <2>9. \A t \in Sessions : \A p \in sess'[t].replies :
            p[1] \in Direct => told'[p[2]] = 0 \/ p \in sess'[t].sent
      BY <2>1, <2>2, <2>6 DEF VacationInv
  <2>10. \A b \in Mailboxes : told'[b] <= 1
      BY <2>2 DEF VacationInv
  <2> QED
      BY <2>7, <2>8, <2>9, <2>10 DEF VacationInv
<1>7. ASSUME NEW s \in Sessions, NEW p \in sess[s].replies,
             SendVacationReply(s, p)
      PROVE  VacationInv'
  <2>1. sess[s].pc = "reply" /\ sess[s].sent = {} /\ UNCHANGED <<log, overlap>>
        /\ faults' = faults
      BY <1>7, <1>c, <1>e DEF SendVacationReply
  <2>2. ~overlap /\ faults = 0
      BY <2>1
  <2>3. CASE sess' = [sess EXCEPT ![s].replies = @ \ {p}] /\ UNCHANGED told
    <3>1. \A t \in Sessions : sess'[t].replies \subseteq sess[t].replies
                              /\ sess'[t].sent = sess[t].sent
        BY <1>a, <2>3 DEF SessOK, Session
    <3> QED
        BY <1>1, <2>1, <2>3, <3>1
  <2>4. CASE /\ p[1] \in Direct
             /\ told' = [told EXCEPT ![p[2]] = @ + 1]
             /\ sess' = [sess EXCEPT ![s].pc = "record", ![s].sent = {p}]
    <3>1. \A t \in Sessions : sess'[t].replies = sess[t].replies
                              /\ sess'[t].sent = IF t = s THEN {p} ELSE sess[t].sent
        BY <1>a, <2>4 DEF SessOK, Session
    <3>2. p[2] \in Mailboxes /\ told[p[2]] = 0
        BY <1>f, <2>1, <2>2, <2>4 DEF VacationInv
    <3>3. \A b \in Mailboxes : told'[b] = IF b = p[2] THEN 1 ELSE told[b]
        BY <2>4, <3>2 DEF TypeInv, RestOK
    <3>4. \A t, u \in Sessions :
              \A q \in sess'[t].replies, r \in sess'[u].replies :
                  q[2] = r[2] => t = u
        BY <2>2, <3>1 DEF VacationInv
    <3>5. ASSUME NEW b \in Mailboxes, told'[b] > 0
          PROVE  b \in log' \/ \E t \in Sessions : \E q \in sess'[t].sent : q[2] = b
      <4>1. CASE b = p[2]
          BY <3>1, <4>1
      <4>2. CASE b # p[2]
        <5>1. b \in log \/ \E t \in Sessions : \E q \in sess[t].sent : q[2] = b
            BY <2>2, <3>3, <3>5, <4>2 DEF VacationInv
        <5> QED
            BY <2>1, <3>1, <5>1
      <4> QED
          BY <4>1, <4>2
    <3>6. ASSUME NEW t \in Sessions, NEW q \in sess'[t].replies, q[1] \in Direct
          PROVE  told'[q[2]] = 0 \/ q \in sess'[t].sent
      <4>1. q \in sess[t].replies /\ q[2] \in Mailboxes /\ q \in Pairs
          BY <1>f, <3>1
      <4>2. CASE q[2] # p[2]
        <5>1. told'[q[2]] = told[q[2]]
            BY <3>3, <4>1, <4>2
        <5>2. told[q[2]] = 0 \/ q \in sess[t].sent
            BY <2>2, <3>6, <4>1 DEF VacationInv
        <5> QED
            BY <2>1, <3>1, <5>1, <5>2
      <4>3. CASE q[2] = p[2]
        <5>1. t = s
            BY <2>2, <4>1, <4>3 DEF VacationInv
        <5>2. p[2] \in Resolve[p[1]] /\ p[2] \in Resolve[q[1]]
            BY <1>a, <4>1, <4>3, <5>1 DEF Shape, IsTarget
        <5>3. p[1] = q[1]
            BY <2>4, <3>6, <5>2, DirectIsUnique
        <5>4. q = p
          <6>1. p \in Pairs /\ q \in Pairs
              BY <1>f, <4>1
          <6> QED
              BY <4>3, <5>3, <6>1 DEF Pairs
        <5> QED
            BY <3>1, <5>1, <5>4
      <4> QED
          BY <4>2, <4>3
    <3>7. \A b \in Mailboxes : told'[b] <= 1
        BY <2>2, <3>3 DEF VacationInv
    <3> QED
        BY <3>4, <3>5, <3>6, <3>7 DEF VacationInv
  <2> QED
      BY <1>7, <2>3, <2>4 DEF SendVacationReply
<1>8. ASSUME NEW s \in Sessions, RecordReply(s) PROVE VacationInv'
  <2>1. /\ UNCHANGED <<told, overlap, faults>>
        /\ log' = log \cup {p[2] : p \in sess[s].sent}
      BY <1>8, <1>e DEF RecordReply
  <2>2. ~overlap /\ faults = 0
      BY <2>1
  <2>3. /\ \A t \in Sessions \ {s} : sess'[t] = sess[t]
        /\ sess'[s].sent = {} /\ sess'[s].replies = sess[s].replies \ sess[s].sent
      BY <1>8, <1>a DEF RecordReply, SessOK, Session
  <2>4. \A t, u \in Sessions :
            \A q \in sess'[t].replies, r \in sess'[u].replies :
                q[2] = r[2] => t = u
    <3>1. \A t \in Sessions : sess'[t].replies \subseteq sess[t].replies
        BY <2>3
    <3> QED
        BY <2>2, <3>1 DEF VacationInv
  <2>5. ASSUME NEW b \in Mailboxes, told[b] > 0
        PROVE  b \in log' \/ \E t \in Sessions : \E q \in sess'[t].sent : q[2] = b
    <3>1. b \in log \/ \E t \in Sessions : \E q \in sess[t].sent : q[2] = b
        BY <2>2, <2>5 DEF VacationInv
    <3> QED
        BY <2>1, <2>3, <3>1
  <2>6. \A t \in Sessions : \A q \in sess'[t].replies :
            q[1] \in Direct => told[q[2]] = 0 \/ q \in sess'[t].sent
      BY <2>2, <2>3 DEF VacationInv
  <2>7. \A b \in Mailboxes : told[b] <= 1
      BY <2>2 DEF VacationInv
  <2> QED
      BY <2>1, <2>4, <2>5, <2>6, <2>7 DEF VacationInv
<1>9. ASSUME NEW b \in Mailboxes, PeriodEnds(b) PROVE VacationInv'
  <2>1. /\ UNCHANGED <<sess, overlap, faults>> /\ log' = log \ {b}
        /\ \A c \in Mailboxes : told'[c] = IF c = b THEN 0 ELSE told[c]
      BY <1>9 DEF PeriodEnds, TypeInv, RestOK
  <2>2. ~overlap /\ faults = 0
      BY <2>1
  <2>3. \A s \in Sessions : \A p \in sess[s].replies : p[2] # b
      BY <1>9 DEF PeriodEnds
  <2> QED
      BY <1>b, <1>f, <2>1, <2>2, <2>3 DEF VacationInv
<1>10. CASE Crash
    BY <1>e, <1>10 DEF Crash
<1>11. CASE UNCHANGED vars
    BY <1>1, <1>11 DEF vars
<1> QED
    BY <1>3, <1>4, <1>5, <1>6, <1>7, <1>8, <1>9, <1>10, <1>11
       DEF Next, SessionStep

\* The correspondent is told at most once in a period, as long as no two of
\* its messages were decided at once and the log worked.
THEOREM CorrespondentToldOnce == Spec => []ToldOnce
<1>1. Init => TypeInv /\ VacationInv
    BY TypeInit DEF Init, Idle, VacationInv
<1>2. TypeInv /\ VacationInv /\ [Next]_vars => TypeInv' /\ VacationInv'
    BY TypeStep, VacationStep
<1>3. VacationInv => ToldOnce
    BY DEF VacationInv, ToldOnce
<1> QED
    BY <1>1, <1>2, <1>3, PTL DEF Spec
=============================================================================
