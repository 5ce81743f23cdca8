------------------------ MODULE OutboundQueueProofs ------------------------
(***************************************************************************)
(* Proofs about OutboundQueue, for any number of jobs, workers, MX hosts,  *)
(* faults, reclaims and operator actions, and any batch size, lease and    *)
(* delivery window; and about SecureDelivery, for any destination and any  *)
(* ages of its policies.                                                   *)
(***************************************************************************)
EXTENDS SecureDelivery, FiniteSetTheorems, TLAPS

-----------------------------------------------------------------------------
(***************************************************************************)
(* Types                                                                   *)
(***************************************************************************)

\* The schedule never puts the next attempt before now, nor past the window.
LEMMA BackoffType ==
    ASSUME NEW t \in Nat, NEW failed \in Nat, NEW expires \in Nat,
           NEW b \in CalculateNextBackoff(t, failed, expires)
    PROVE  b.next \in Nat /\ b.next >= t
<1>1. \A n \in Nat : BaseDelay(n) \in Nat
    BY DEF BaseDelay
<1>2. ASSUME NEW n \in Nat, NEW d \in Delays(n) PROVE d \in Nat
  <2>1. CASE n >= 5
    <3>1. PICK p \in JitterPercent : d = (BaseDelay(n) * p) \div 100
        BY <2>1 DEF Delays
    <3>2. p \in Nat /\ BaseDelay(n) \in Nat
        BY <1>1, RetryAssumption
    <3>3. BaseDelay(n) * p \in Nat
        BY <3>2
    <3>4. \A x \in Nat : x \div 100 \in Nat
        OBVIOUS
    <3> QED
        BY <3>1, <3>3, <3>4
  <2>2. CASE ~(n >= 5)
      BY <1>1, <2>2 DEF Delays
  <2> QED
      BY <2>1, <2>2
<1>3. CASE t >= expires
    BY <1>3 DEF CalculateNextBackoff
<1>4. CASE ~(t >= expires)
  <2>1. PICK d \in Delays(failed + 1) :
            b.next = IF t + d > expires THEN expires ELSE t + d
      BY <1>4 DEF CalculateNextBackoff
  <2>2. d \in Nat
      BY <1>2
  <2> QED
      BY <1>4, <2>1, <2>2
<1> QED
    BY <1>3, <1>4

\* What a worker in the middle of a job has: a host to try, and copies of
\* jobs none of which it holds twice.
LocalOK ==
    \A w \in Workers :
        /\ pc[w] = "smtp" => hosts[w] > 0
        /\ \A c, d \in batch[w] : c.job = d.job => c = d
        /\ pc[w] # "idle" => \A c \in batch[w] : c.job # cur[w].job

TypeInv == TypeOK /\ LocalOK

\* The types hold at the start.
LEMMA TypeInit == Init => TypeInv
BY QueueAssumption
   DEF Init, TypeInv, TypeOK, LocalOK, Row, Absent, Status, PC, Copy, NoCopy,
       ErrorClasses, Observation, NoLock

\* The row as a copy is written back.
Written(c, status) ==
    [row[c.job] EXCEPT !.status = status, !.attempt = c.attempt,
                       !.next = c.next, !.delayDsnSent = c.delayDsnSent,
                       !.lockedUntil = NoLock]

\* What UpdateJob writes is a row.
LEMMA WrittenType ==
    ASSUME TypeOK, NEW c \in Copy, NEW status \in Status
    PROVE  Written(c, status) \in Row
<1>1. row[c.job] \in Row
    BY DEF TypeOK, Copy
<1>2. c.attempt \in Nat /\ c.next \in Nat /\ c.delayDsnSent \in BOOLEAN
    BY DEF Copy
<1> QED
    BY <1>1, <1>2 DEF Written, Row

\* UpdateJob either writes the copy back, in one row, or is a fault.
LEMMA UpdateRow ==
    ASSUME TypeOK, NEW w \in Workers, cur[w] \in Copy, NEW status \in Status,
           UpdateJob(w, status)
    PROVE  /\ row' \in [Jobs -> Row]
           /\ faults' \in 0..MaxFaults
           /\ \/ row' = [row EXCEPT ![cur[w].job] = Written(cur[w], status)]
              \/ row' = row
<1>1. cur[w].job \in Jobs /\ row[cur[w].job] \in Row
    BY DEF TypeOK, Copy
<1>2. CASE UNCHANGED faults /\ row' # row
  <2>1. row' = [row EXCEPT ![cur[w].job] = Written(cur[w], status)]
      BY <1>1, <1>2 DEF UpdateJob, Written, TypeOK, Row
  <2> QED
      BY <1>1, <1>2, <2>1, WrittenType DEF TypeOK
<1>3. CASE row' = row
    BY <1>3, QueueAssumption DEF UpdateJob, TypeOK
<1> QED
    BY <1>2, <1>3 DEF UpdateJob

\* A step that begins no job and fetches none keeps workers in order.
LEMMA LocalKeeps ==
    ASSUME LocalOK,
           \A v \in Workers :
               /\ batch'[v] \subseteq batch[v]
               /\ pc'[v] # "idle" => pc[v] # "idle" /\ cur'[v].job = cur[v].job
               /\ pc'[v] = "smtp" => hosts'[v] > 0
    PROVE  LocalOK'
BY DEF LocalOK

\* A worker that is done with a job is left in its type.
LEMMA DoneType ==
    ASSUME TypeOK, NEW w \in Workers, Done(w)
    PROVE  /\ pc' \in [Workers -> PC]
           /\ cur' \in [Workers -> Copy \cup {NoCopy}]
           /\ \A v \in Workers : pc'[v] # "idle" => v # w /\ pc[v] # "idle"
                                    /\ pc'[v] = pc[v] /\ cur'[v] = cur[v]
                                    /\ hosts'[v] = hosts[v]
           /\ \A v \in Workers : pc'[v] # "idle" => cur'[v] \in Copy
           /\ err' \in [Workers -> ErrorClasses]
           /\ hosts' \in [Workers -> 0..MaxMX]
<1> USE DEF Done, TypeOK
<1>1. pc' \in [Workers -> PC] /\ err' \in [Workers -> ErrorClasses]
    BY DEF PC, ErrorClasses
<1>2. hosts' \in [Workers -> 0..MaxMX]
    BY QueueAssumption
<1>3. cur' \in [Workers -> Copy \cup {NoCopy}]
    OBVIOUS
<1>4. \A v \in Workers : pc'[v] # "idle" => v # w /\ pc[v] # "idle"
                             /\ pc'[v] = pc[v] /\ cur'[v] = cur[v]
                             /\ hosts'[v] = hosts[v]
    OBVIOUS
<1> QED
    BY <1>1, <1>2, <1>3, <1>4

\* A DSN is counted, or its failure is.
LEMMA SendDsnType ==
    ASSUME TypeOK, NEW j \in Jobs, NEW kind, SendDsn(j, kind)
    PROVE  obs' \in [Jobs -> Observation] /\ faults' \in 0..MaxFaults
<1>1. obs[j] \in Observation
    BY DEF TypeOK
<1>2. /\ [obs[j] EXCEPT !.failed = @ + 1] \in Observation
      /\ [obs[j] EXCEPT !.delayed = @ + 1] \in Observation
    BY <1>1 DEF Observation
<1>3. \/ obs' = obs
      \/ obs' = [obs EXCEPT ![j] = [obs[j] EXCEPT !.failed = @ + 1]]
      \/ obs' = [obs EXCEPT ![j] = [obs[j] EXCEPT !.delayed = @ + 1]]
    BY DEF SendDsn, TypeOK
<1>4. obs' \in [Jobs -> Observation]
    BY <1>2, <1>3 DEF TypeOK
<1>5. faults' \in 0..MaxFaults
    BY QueueAssumption DEF SendDsn, TypeOK
<1> QED
    BY <1>4, <1>5

\* After a host failed the worker goes on with the next, or has no host left.
LEMMA HostFailsType ==
    ASSUME TypeOK, LocalOK, NEW w \in Workers, pc[w] = "smtp",
           NEW class \in {"temporary", "permanent"}, HostFails(w, class)
    PROVE  /\ err' \in [Workers -> ErrorClasses]
           /\ hosts' \in [Workers -> 0..MaxMX]
           /\ pc' = [pc EXCEPT ![w] = IF hosts[w] = 1 THEN "failed" ELSE "smtp"]
           /\ \A v \in Workers : pc'[v] = "smtp" => hosts'[v] > 0
<1>1. hosts[w] \in 1..MaxMX
    BY QueueAssumption DEF TypeOK, LocalOK
<1> QED
    BY <1>1, QueueAssumption DEF HostFails, TypeOK, LocalOK, ErrorClasses

\* Every step keeps the types.
LEMMA TypeStep == TypeInv /\ [Next]_vars => TypeInv'
<1> SUFFICES ASSUME TypeOK, LocalOK, [Next]_vars PROVE TypeOK' /\ LocalOK'
    BY DEF TypeInv
<1> USE DEF rows, local
<1>a. \A w \in Workers : pc[w] # "idle" => cur[w] \in Copy /\ cur[w].job \in Jobs
    BY DEF TypeOK, Copy
\* A worker moves to another point of the same job.
<1>b. ASSUME NEW w \in Workers, pc[w] # "idle", NEW p \in PC \ {"idle", "smtp"},
             pc' = [pc EXCEPT ![w] = p], UNCHANGED <<batch, hosts>>,
             \A v \in Workers : cur'[v].job = cur[v].job
      PROVE  LocalOK' /\ pc' \in [Workers -> PC]
  <2>1. pc' \in [Workers -> PC]
      BY <1>b DEF TypeOK
  <2>2. LocalOK'
      BY <1>b, LocalKeeps DEF TypeOK, LocalOK
  <2> QED
      BY <2>1, <2>2
<1>1. ASSUME NEW w \in Workers, FetchNextReady(w) PROVE TypeOK' /\ LocalOK'
  <2>1. PICK S \in (SUBSET Jobs) \ {{}} :
            /\ row' = [j \in Jobs |->
                         IF j \in S
                         THEN [row[j] EXCEPT !.status = "SENDING",
                                             !.lockedUntil = now + Lease]
                         ELSE row[j]]
            /\ batch' = [batch EXCEPT ![w] = {CopyOf(j) : j \in S}]
            /\ obs' = [j \in Jobs |->
                         IF j \in S /\ row[j].status = "SENDING"
                         THEN [obs[j] EXCEPT !.reclaims = @ + 1]
                         ELSE obs[j]]
      BY <1>1 DEF FetchNextReady
  <2>2. ASSUME NEW j \in Jobs
        PROVE  /\ [row[j] EXCEPT !.status = "SENDING",
                                 !.lockedUntil = now + Lease] \in Row
               /\ [obs[j] EXCEPT !.reclaims = @ + 1] \in Observation
               /\ CopyOf(j) \in Copy
    <3>1. row[j] \in Row /\ obs[j] \in Observation /\ now \in Nat
        BY DEF TypeOK
    <3>2. [obs[j] EXCEPT !.reclaims = @ + 1] \in Observation
        BY <3>1 DEF Observation
    <3>3. CopyOf(j) \in Copy
        BY <3>1 DEF CopyOf, Copy, Row
    <3>4. now + Lease \in Nat \cup {NoLock} /\ "SENDING" \in Status
        BY <3>1, QueueAssumption DEF Status
    <3>5. [row[j] EXCEPT !.status = "SENDING",
                         !.lockedUntil = now + Lease] \in Row
        BY <3>1, <3>4 DEF Row
    <3> QED
        BY <3>2, <3>3, <3>5
  <2>3. row' \in [Jobs -> Row]
      BY <2>1, <2>2 DEF TypeOK
  <2>4. obs' \in [Jobs -> Observation]
      BY <2>1, <2>2 DEF TypeOK
  <2>5. batch' \in [Workers -> SUBSET Copy]
    <3>1. {CopyOf(j) : j \in S} \in SUBSET Copy
        BY <2>2
    <3> QED
        BY <2>1, <3>1 DEF TypeOK
  <2>6. TypeOK'
      BY <1>1, <2>3, <2>4, <2>5 DEF FetchNextReady, TypeOK
  <2>7. LocalOK'
    <3> SUFFICES ASSUME NEW v \in Workers
                 PROVE  /\ pc[v] = "smtp" => hosts[v] > 0
                        /\ \A c, d \in batch'[v] : c.job = d.job => c = d
                        /\ pc[v] # "idle" =>
                               \A c \in batch'[v] : c.job # cur[v].job
        BY <1>1 DEF LocalOK, FetchNextReady
    <3>1. CASE v = w
      <4>1. ASSUME NEW c \in batch'[v], NEW d \in batch'[v], c.job = d.job
            PROVE  c = d
        <5>1. batch'[v] = {CopyOf(j) : j \in S}
            BY <2>1, <3>1 DEF TypeOK
        <5>2. PICK j \in S, k \in S : c = CopyOf(j) /\ d = CopyOf(k)
            BY <5>1
        <5>3. c.job = j /\ d.job = k
            BY <5>2 DEF CopyOf
        <5> QED
            BY <4>1, <5>2, <5>3
      <4> QED
          BY <1>1, <3>1, <4>1 DEF FetchNextReady
    <3>2. CASE v # w
        BY <2>1, <3>2 DEF TypeOK, LocalOK
    <3> QED
        BY <3>1, <3>2
  <2> QED
      BY <2>6, <2>7
<1>2. ASSUME NEW w \in Workers, BeginJob(w) PROVE TypeOK' /\ LocalOK'
  <2>1. PICK c \in batch[w] :
            /\ cur' = [cur EXCEPT ![w] = [c EXCEPT !.attempt = @ + 1]]
            /\ batch' = [batch EXCEPT ![w] = @ \ {c}]
      BY <1>2 DEF BeginJob
  <2>2. c \in Copy
      BY DEF TypeOK
  <2>3. /\ [c EXCEPT !.attempt = @ + 1] \in Copy
        /\ [c EXCEPT !.attempt = @ + 1].job = c.job
      BY <2>2 DEF Copy
  <2>4. /\ batch' \in [Workers -> SUBSET Copy]
        /\ cur' \in [Workers -> Copy \cup {NoCopy}]
        /\ pc' \in [Workers -> PC]
      BY <1>2, <2>1, <2>3 DEF BeginJob, TypeOK, PC
  <2>5. \A v \in Workers : pc'[v] # "idle" => cur'[v] \in Copy
      BY <1>2, <2>1, <2>3 DEF BeginJob, TypeOK
  <2>6. LocalOK'
    <3> SUFFICES ASSUME NEW v \in Workers
                 PROVE  /\ pc'[v] = "smtp" => hosts[v] > 0
                        /\ \A d, e \in batch'[v] : d.job = e.job => d = e
                        /\ pc'[v] # "idle" =>
                               \A d \in batch'[v] : d.job # cur'[v].job
        BY <1>2 DEF LocalOK, BeginJob
    <3>1. CASE v = w
      <4>1. batch'[v] = batch[v] \ {c} /\ cur'[v].job = c.job /\ pc'[v] = "route"
          BY <1>2, <2>1, <2>3, <3>1 DEF BeginJob, TypeOK
      <4> QED
          BY <3>1, <4>1 DEF LocalOK
    <3>2. CASE v # w
        BY <1>2, <2>1, <3>2 DEF BeginJob, TypeOK, LocalOK
    <3> QED
        BY <3>1, <3>2
  <2> QED
      BY <1>2, <2>4, <2>5, <2>6 DEF BeginJob, TypeOK
<1>3. ASSUME NEW w \in Workers, ReadBlobFails(w) PROVE TypeOK' /\ LocalOK'
  <2>1. LocalOK' /\ pc' \in [Workers -> PC]
      BY <1>3, <1>b DEF ReadBlobFails, Fails, PC
  <2>2. err' \in [Workers -> ErrorClasses]
      BY <1>3 DEF ReadBlobFails, Fails, TypeOK, ErrorClasses
  <2>3. \A v \in Workers : pc'[v] # "idle" => cur'[v] \in Copy
      BY <1>3, <1>a DEF ReadBlobFails, Fails, TypeOK
  <2> QED
      BY <1>3, <2>1, <2>2, <2>3 DEF ReadBlobFails, TypeOK
<1>4. ASSUME NEW w \in Workers, DeliverLocally(w) PROVE TypeOK' /\ LocalOK'
  <2>1. PICK p \in {"delivered", "failed"} : pc' = [pc EXCEPT ![w] = p]
      BY <1>4 DEF DeliverLocally, Fails
  <2>2. LocalOK' /\ pc' \in [Workers -> PC]
      BY <1>4, <1>b, <2>1 DEF DeliverLocally, PC
  <2>3. err' \in [Workers -> ErrorClasses]
      BY <1>4 DEF DeliverLocally, Fails, TypeOK, ErrorClasses
  <2>4. \A v \in Workers : pc'[v] # "idle" => cur'[v] \in Copy
      BY <1>4, <1>a, <2>1 DEF DeliverLocally, TypeOK
  <2>5. obs' \in [Jobs -> Observation]
    <3>1. cur[w].job \in Jobs
        BY <1>4, <1>a DEF DeliverLocally
    <3>2. obs[cur[w].job] \in Observation
        BY <3>1 DEF TypeOK
    <3>3. /\ [obs[cur[w].job] EXCEPT !.accepted = @ + 1] \in Observation
          /\ [obs[cur[w].job] EXCEPT !.accepted = @ + 1, !.lostAnswers = @ + 1]
                 \in Observation
      <4>1. /\ obs[cur[w].job].accepted + 1 \in Nat
            /\ obs[cur[w].job].lostAnswers + 1 \in Nat
          BY <3>2 DEF Observation
      <4> QED
          BY <3>2, <4>1 DEF Observation
    <3>4. \/ obs' = obs
          \/ obs' = [obs EXCEPT ![cur[w].job] =
                        [obs[cur[w].job] EXCEPT !.accepted = @ + 1]]
          \/ obs' = [obs EXCEPT ![cur[w].job] =
                        [obs[cur[w].job] EXCEPT !.accepted = @ + 1,
                                                !.lostAnswers = @ + 1]]
        BY <1>4, <3>1 DEF DeliverLocally, TypeOK
    <3> QED
        BY <3>1, <3>3, <3>4 DEF TypeOK
  <2> QED
      BY <1>4, <2>2, <2>3, <2>4, <2>5 DEF DeliverLocally, TypeOK
<1>5. ASSUME NEW w \in Workers, RouteRemote(w) PROVE TypeOK' /\ LocalOK'
  <2>1. PICK n \in 1..MaxMX : hosts' = [hosts EXCEPT ![w] = n]
      BY <1>5 DEF RouteRemote
  <2>2. hosts' \in [Workers -> 0..MaxMX] /\ pc' \in [Workers -> PC]
      BY <1>5, <2>1, QueueAssumption DEF RouteRemote, TypeOK, PC
  <2>3. \A v \in Workers : pc'[v] # "idle" => cur'[v] \in Copy
      BY <1>5, <1>a DEF RouteRemote, TypeOK
  <2>4. LocalOK'
      BY <1>5, <2>1, LocalKeeps, QueueAssumption
         DEF RouteRemote, TypeOK, LocalOK
  <2> QED
      BY <1>5, <2>2, <2>3, <2>4 DEF RouteRemote, TypeOK
<1>6. ASSUME NEW w \in Workers, TryHost(w) PROVE TypeOK' /\ LocalOK'
  <2> DEFINE j == cur[w].job
  <2>1. pc[w] = "smtp" /\ j \in Jobs
      BY <1>6, <1>a DEF TryHost
  <2>2. obs' \in [Jobs -> Observation]
    <3>1. obs[j] \in Observation
        BY <2>1 DEF TypeOK
    <3>2. /\ [obs[j] EXCEPT !.accepted = @ + 1] \in Observation
          /\ [obs[j] EXCEPT !.accepted = @ + 1, !.lostAnswers = @ + 1]
                 \in Observation
      <4>1. obs[j].accepted + 1 \in Nat /\ obs[j].lostAnswers + 1 \in Nat
          BY <3>1 DEF Observation
      <4> QED
          BY <3>1, <4>1 DEF Observation
    <3>3. \/ obs' = obs
          \/ obs' = [obs EXCEPT ![j] = [obs[j] EXCEPT !.accepted = @ + 1]]
          \/ obs' = [obs EXCEPT ![j] = [obs[j] EXCEPT !.accepted = @ + 1,
                                                      !.lostAnswers = @ + 1]]
        BY <1>6, <2>1 DEF TryHost, TypeOK
    <3> QED
        BY <2>1, <3>2, <3>3 DEF TypeOK
  <2>3. /\ err' \in [Workers -> ErrorClasses]
        /\ hosts' \in [Workers -> 0..MaxMX]
        /\ \E p \in {"delivered", "failed", "smtp"} : pc' = [pc EXCEPT ![w] = p]
        /\ \A v \in Workers : pc'[v] = "smtp" => hosts'[v] > 0
    <3>1. ASSUME NEW class \in {"temporary", "permanent"}, HostFails(w, class)
          PROVE  <2>3!1 /\ <2>3!2 /\ <2>3!3 /\ <2>3!4
        BY <2>1, <3>1, HostFailsType
    <3>2. ASSUME pc' = [pc EXCEPT ![w] = "delivered"],
                 hosts' = [hosts EXCEPT ![w] = 0], UNCHANGED err
          PROVE  <2>3!1 /\ <2>3!2 /\ <2>3!3 /\ <2>3!4
        BY <3>2, QueueAssumption DEF TypeOK, LocalOK
    <3> QED
        BY <1>6, <3>1, <3>2 DEF TryHost
  <2>4. pc' \in [Workers -> PC]
      BY <2>3 DEF TypeOK, PC
  <2>5. \A v \in Workers : pc'[v] # "idle" => pc[v] # "idle"
      BY <2>1, <2>3 DEF TypeOK
  <2>6. LocalOK'
      BY <1>6, <2>3, <2>5, LocalKeeps DEF TryHost
  <2>7. \A v \in Workers : pc'[v] # "idle" => cur'[v] \in Copy
      BY <1>6, <1>a, <2>5 DEF TryHost
  <2> QED
      BY <1>6, <2>2, <2>3, <2>4, <2>6, <2>7 DEF TryHost, TypeOK
\* A worker is done with its job.
<1>c. ASSUME NEW w \in Workers, Done(w), \A v \in Workers : batch'[v] \subseteq batch[v]
      PROVE  LocalOK'
    BY <1>c, DoneType, LocalKeeps DEF LocalOK
<1>7. ASSUME NEW w \in Workers, RecordDelivered(w) PROVE TypeOK' /\ LocalOK'
  <2>1. row' \in [Jobs -> Row] /\ faults' \in 0..MaxFaults
      BY <1>7, <1>a, UpdateRow DEF RecordDelivered, Status
  <2>2. LocalOK'
      BY <1>7, <1>c DEF RecordDelivered
  <2> QED
      BY <1>7, <2>1, <2>2, DoneType DEF RecordDelivered, TypeOK
<1>8. ASSUME NEW w \in Workers, Bounce(w) PROVE TypeOK' /\ LocalOK'
  <2>1. row' \in [Jobs -> Row] /\ faults' \in 0..MaxFaults
      BY <1>8, <1>a, UpdateRow DEF Bounce, Status
  <2>2. LocalOK' /\ pc' \in [Workers -> PC]
      BY <1>8, <1>b DEF Bounce, PC
  <2>3. \A v \in Workers : pc'[v] # "idle" => cur'[v] \in Copy
      BY <1>8, <1>a DEF Bounce, TypeOK
  <2> QED
      BY <1>8, <2>1, <2>2, <2>3 DEF Bounce, TypeOK
<1>9. ASSUME NEW w \in Workers, SendFailedDsn(w) PROVE TypeOK' /\ LocalOK'
  <2>1. obs' \in [Jobs -> Observation] /\ faults' \in 0..MaxFaults
      BY <1>9, <1>a, SendDsnType DEF SendFailedDsn
  <2>2. LocalOK'
      BY <1>9, <1>c DEF SendFailedDsn
  <2> QED
      BY <1>9, <2>1, <2>2, DoneType DEF SendFailedDsn, TypeOK
<1>10. ASSUME NEW w \in Workers, Defer(w) PROVE TypeOK' /\ LocalOK'
  <2>1. cur[w] \in Copy /\ cur[w].job \in Jobs /\ cur[w].attempt \in Nat
      BY <1>10, <1>a DEF Defer, Copy
  <2>2. row[cur[w].job].expires \in Nat /\ now \in Nat
      BY <2>1 DEF TypeOK, Row
  <2>3. PICK b \in CalculateNextBackoff(now, cur[w].attempt,
                                        row[cur[w].job].expires) :
            IF b.delayDsn /\ ~cur[w].delayDsnSent
            THEN /\ SendDsn(cur[w].job, "delayed")
                 /\ cur' = [cur EXCEPT ![w].next = b.next,
                                       ![w].delayDsnSent = TRUE]
            ELSE /\ cur' = [cur EXCEPT ![w].next = b.next]
                 /\ UNCHANGED <<faults, obs>>
      BY <1>10 DEF Defer
  <2>4. b.next \in Nat
      BY <2>1, <2>2, BackoffType
  <2> HIDE <2>3
  <2>5. PICK c \in Copy : c.job = cur[w].job /\ cur' = [cur EXCEPT ![w] = c]
    <3>1. /\ [cur[w] EXCEPT !.next = b.next, !.delayDsnSent = TRUE] \in Copy
          /\ [cur[w] EXCEPT !.next = b.next] \in Copy
        BY <2>1, <2>4 DEF Copy
    <3>2. \/ cur' = [cur EXCEPT ![w] = [cur[w] EXCEPT !.next = b.next,
                                                      !.delayDsnSent = TRUE]]
          \/ cur' = [cur EXCEPT ![w] = [cur[w] EXCEPT !.next = b.next]]
        BY <2>3 DEF TypeOK
    <3>3. /\ [cur[w] EXCEPT !.next = b.next, !.delayDsnSent = TRUE].job = cur[w].job
          /\ [cur[w] EXCEPT !.next = b.next].job = cur[w].job
        BY <2>1 DEF Copy
    <3> QED
        BY <3>1, <3>2, <3>3
  <2>6. obs' \in [Jobs -> Observation] /\ faults' \in 0..MaxFaults
      BY <2>1, <2>3, SendDsnType DEF TypeOK
  <2>7. cur' \in [Workers -> Copy \cup {NoCopy}]
        /\ \A v \in Workers : cur'[v].job = cur[v].job
      BY <2>5 DEF TypeOK
  <2>8. LocalOK' /\ pc' \in [Workers -> PC]
      BY <1>10, <1>b, <2>7 DEF Defer, PC
  <2>9. \A v \in Workers : pc'[v] # "idle" => cur'[v] \in Copy
      BY <1>10, <1>a, <2>5 DEF Defer, TypeOK
  <2> QED
      BY <1>10, <2>6, <2>7, <2>8, <2>9 DEF Defer, TypeOK
<1>11. ASSUME NEW w \in Workers, RecordDeferred(w) PROVE TypeOK' /\ LocalOK'
  <2>1. row' \in [Jobs -> Row] /\ faults' \in 0..MaxFaults
      BY <1>11, <1>a, UpdateRow DEF RecordDeferred, Status
  <2>2. LocalOK'
      BY <1>11, <1>c DEF RecordDeferred
  <2> QED
      BY <1>11, <2>1, <2>2, DoneType DEF RecordDeferred, TypeOK
<1>12. ASSUME NEW w \in Workers, Crash(w) PROVE TypeOK' /\ LocalOK'
  <2>1. batch' \in [Workers -> SUBSET Copy]
        /\ \A v \in Workers : batch'[v] \subseteq batch[v]
      BY <1>12 DEF Crash, TypeOK
  <2>2. LocalOK'
      BY <1>12, <1>c, <2>1 DEF Crash
  <2>3. faults' \in 0..MaxFaults
      BY <1>12, QueueAssumption DEF Crash, TypeOK
  <2> QED
      BY <1>12, <2>1, <2>2, <2>3, DoneType DEF Crash, TypeOK
<1>d. ASSUME UNCHANGED local PROVE LocalOK'
    BY <1>d DEF LocalOK
\* One row changes to another row, in the operator's or a submission's hands.
<1>e. ASSUME NEW j \in Jobs, NEW r \in Row, row' = [row EXCEPT ![j] = r]
      PROVE  row' \in [Jobs -> Row]
    BY <1>e DEF TypeOK
<1>13. ASSUME NEW j \in Jobs, Enqueue(j) PROVE TypeOK' /\ LocalOK'
  <2> DEFINE r == [row[j] EXCEPT !.status = "QUEUED", !.next = now,
                                 !.expires = now + DeliveryWindow]
  <2>1. row[j] \in Row /\ now \in Nat
      BY DEF TypeOK
  <2>a. now + DeliveryWindow \in Nat /\ "QUEUED" \in Status
      BY <2>1, RetryAssumption DEF Status
  <2>2. r \in Row
      BY <2>1, <2>a DEF Row
  <2>3. row' = [row EXCEPT ![j] = r]
      BY <1>13 DEF Enqueue, TypeOK
  <2> QED
      BY <1>13, <1>d, <1>e, <2>2, <2>3 DEF Enqueue, TypeOK
<1>14. ASSUME NEW j \in Jobs, RetryJob(j) PROVE TypeOK' /\ LocalOK'
  <2>1. row[j] \in Row /\ now \in Nat
      BY DEF TypeOK
  <2>2. Retried(j) \in Row
      BY <2>1 DEF Retried, Row, Status
  <2>3. row' \in [Jobs -> Row] /\ admin' \in 0..MaxAdmin
      BY <1>14, <1>e, <2>2, QueueAssumption DEF RetryJob, TypeOK
  <2> QED
      BY <1>14, <1>d, <2>3 DEF RetryJob, TypeOK
<1>15. ASSUME NEW j \in Jobs, CancelJob(j) PROVE TypeOK' /\ LocalOK'
  <2> DEFINE r == [row[j] EXCEPT !.status = "CANCELLED"]
  <2>1. row[j] \in Row
      BY DEF TypeOK
  <2>2. r \in Row
      BY <2>1 DEF Row, Status
  <2>3. row' = [row EXCEPT ![j] = r]
      BY <1>15 DEF CancelJob, TypeOK
  <2>4. row' \in [Jobs -> Row] /\ admin' \in 0..MaxAdmin
      BY <1>15, <1>e, <2>2, <2>3, QueueAssumption DEF CancelJob, TypeOK
  <2> QED
      BY <1>15, <1>d, <2>4 DEF CancelJob, TypeOK
<1>16. ASSUME NEW j \in Jobs, SetMailboxActive(j) \/ DeleteMailbox(j)
       PROVE  TypeOK' /\ LocalOK'
  <2>1. /\ sender' \in [Jobs -> {"active", "suspended", "gone"}]
        /\ away' \subseteq Jobs /\ admin' \in 0..MaxAdmin
      BY <1>16, QueueAssumption DEF SetMailboxActive, DeleteMailbox, TypeOK
  <2> QED
      BY <1>16, <1>d, <2>1 DEF SetMailboxActive, DeleteMailbox, TypeOK
<1>17. CASE Tick
  <2>1. now' \in Nat
    <3>1. PICK t \in Deadlines : t > now /\ now' = t
        BY <1>17 DEF Tick
    <3>2. t \in Nat \cup {NoLock}
        BY DEF Deadlines, TypeOK, Row
    <3> QED
        BY <3>1, <3>2 DEF TypeOK, NoLock
  <2> QED
      BY <1>17, <1>d, <2>1 DEF Tick, TypeOK
<1>18. CASE UNCHANGED vars
    BY <1>18, <1>d DEF vars, TypeOK
<1> QED
    BY <1>1, <1>2, <1>3, <1>4, <1>5, <1>6, <1>7, <1>8, <1>9, <1>10, <1>11,
       <1>12, <1>13, <1>14, <1>15, <1>16, <1>17, <1>18
       DEF Next, WorkerStep, OwnStep

\* Rows, copies and observations keep their types.
THEOREM TypeCorrect == Spec => []TypeOK
<1>1. TypeInv => TypeOK
    BY DEF TypeInv
<1> QED
    BY <1>1, TypeInit, TypeStep, PTL DEF Spec

-----------------------------------------------------------------------------
(***************************************************************************)
(* What a step does to one job                                             *)
(***************************************************************************)

\* The points of an attempt that has not been taken nor given up yet.
Attempting == {"route", "smtp", "failed", "defer"}

\* Worker w may still hand job j to the destination.
Carries(w, j) ==
    \/ \E c \in batch[w] : c.job = j
    \/ pc[w] \in Attempting /\ cur[w].job = j

\* And it may still send the delay notice.
CarriesFresh(w, j) ==
    \/ \E c \in batch[w] : c.job = j /\ ~c.delayDsnSent
    \/ pc[w] \in Attempting /\ cur[w].job = j /\ ~cur[w].delayDsnSent

Writers(j)  == {w \in Workers : WillWrite(w, j)}
Carriers(j) == {w \in Workers : Carries(w, j)}
Fresh(j)    == {w \in Workers : CarriesFresh(w, j)}

Fewer(j) ==
    /\ Writers(j)' \subseteq Writers(j)
    /\ Carriers(j)' \subseteq Carriers(j)
    /\ Fresh(j)' \subseteq Fresh(j)

Counts(j) == <<obs[j].accepted, obs[j].reclaims, obs[j].lostAnswers,
               obs[j].delayed>>

\* The step is about other jobs, or forgets copies of this one.
Still(j) == row'[j] = row[j] /\ Counts(j)' = Counts(j) /\ Fewer(j)

\* Worker w takes the job: out of the queue, or over from another claim.
Claimed(j, w) ==
    /\ row[j].status \in {"QUEUED", "DEFERRED"}
    /\ row'[j].status = "SENDING"
    /\ Counts(j)' = Counts(j)
    /\ Writers(j)' \subseteq Writers(j) \cup {w}
    /\ Carriers(j)' \subseteq Carriers(j) \cup {w}
    /\ row[j].delayDsnSent => Fresh(j)' \subseteq Fresh(j)
    /\ Fresh(j)' \subseteq Fresh(j) \cup {w}

Reclaimed(j, w) ==
    /\ row[j].status = "SENDING" /\ row'[j].status = "SENDING"
    /\ obs'[j] = [obs[j] EXCEPT !.reclaims = @ + 1]
    /\ Writers(j)' \subseteq Writers(j) \cup {w}
    /\ Carriers(j)' \subseteq Carriers(j) \cup {w}
    /\ Fresh(j)' \subseteq Fresh(j) \cup {w}

\* The destination takes the message from w, and says so or not.
Accepted(j, w) ==
    /\ row'[j] = row[j] /\ Fewer(j)
    /\ w \in Carriers(j) /\ w \in Writers(j)
    /\ \/ /\ obs'[j] = [obs[j] EXCEPT !.accepted = @ + 1]
          /\ w \notin Carriers(j)'
       \/ obs'[j] = [obs[j] EXCEPT !.accepted = @ + 1, !.lostAnswers = @ + 1]

Noticed(j, w) ==
    /\ row'[j] = row[j] /\ Fewer(j)
    /\ w \in Fresh(j) /\ w \notin Fresh(j)'
    /\ obs'[j] = [obs[j] EXCEPT !.delayed = @ + 1]

\* Worker w writes the row back.
WroteBack(j, w) ==
    /\ Counts(j)' = Counts(j) /\ Fewer(j)
    /\ w \in Writers(j) /\ w \notin Writers(j)'
    /\ \/ row'[j].status = "DELIVERED" /\ obs[j].accepted > 0
       \/ /\ row'[j].status \in {"BOUNCED", "DEFERRED"}
          /\ w \in Carriers(j) /\ w \notin Carriers(j)'
          /\ ~row'[j].delayDsnSent => w \in Fresh(j) /\ w \notin Fresh(j)'

\* Submission or the operator changes the row.
Changed(j) ==
    /\ Counts(j)' = Counts(j) /\ Fewer(j)
    /\ row'[j].delayDsnSent = row[j].delayDsnSent
    /\ \/ row[j].status = "ABSENT" /\ row'[j].status = "QUEUED"
       \/ row[j].status \in Retriable /\ row'[j].status = "QUEUED"
       \/ row[j].status \in Cancellable /\ row'[j].status = "CANCELLED"

Happens(j) ==
    \/ Changed(j)
    \/ \E w \in Workers : Accepted(j, w) \/ Noticed(j, w) \/ WroteBack(j, w)

\* A message counted as delivered was taken.
DeliveredWasTaken ==
    \A w \in Workers : pc[w] = "delivered" => obs[cur[w].job].accepted > 0

\* Only worker w changes, and it holds nothing new.
LEMMA FewerAt ==
    ASSUME NEW w \in Workers, NEW j \in Jobs,
           \A v \in Workers \ {w} : batch'[v] = batch[v] /\ pc'[v] = pc[v]
                                    /\ cur'[v] = cur[v],
           WillWrite(w, j)' => WillWrite(w, j),
           Carries(w, j)' => Carries(w, j),
           CarriesFresh(w, j)' => CarriesFresh(w, j)
    PROVE  Fewer(j)
BY DEF Fewer, Writers, Carriers, Fresh, WillWrite, Carries, CarriesFresh

\* Worker w goes on with the copy it has.
LEMMA FewerGoing ==
    ASSUME TypeOK, NEW w \in Workers, NEW j \in Jobs, NEW p,
           pc[w] \in Attempting, p \in Attempting \cup {"delivered", "bounceDsn"},
           pc' = [pc EXCEPT ![w] = p], UNCHANGED <<batch, cur>>
    PROVE  Fewer(j)
<1>1. pc'[w] = p /\ \A v \in Workers \ {w} : pc'[v] = pc[v]
    BY DEF TypeOK
<1> QED
    BY <1>1, FewerAt DEF WillWrite, Carries, CarriesFresh, Attempting

\* Worker w is through with its copy, perhaps with its batch too.
LEMMA FewerDone ==
    ASSUME TypeOK, NEW w \in Workers, NEW j \in Jobs, Done(w),
           \A v \in Workers \ {w} : batch'[v] = batch[v],
           batch'[w] \subseteq batch[w]
    PROVE  Fewer(j)
<1>1. /\ pc'[w] = "idle"
      /\ \A v \in Workers \ {w} : pc'[v] = pc[v] /\ cur'[v] = cur[v]
    BY DEF TypeOK, Done
<1> QED
    BY <1>1, FewerAt DEF WillWrite, Carries, CarriesFresh, Attempting

\* Nothing a worker holds changes.
LEMMA FewerSame ==
    ASSUME NEW j \in Jobs, UNCHANGED <<batch, pc, cur>>
    PROVE  Fewer(j)
BY DEF Fewer, Writers, Carriers, Fresh, WillWrite, Carries, CarriesFresh

\* A row written back by a worker that has no other copy of the job.
LEMMA UpdateWrites ==
    ASSUME TypeInv, NEW w \in Workers, cur[w] \in Copy,
           NEW status \in {"DELIVERED", "BOUNCED", "DEFERRED"},
           UpdateJob(w, status), UNCHANGED <<batch, obs>>,
           pc[w] = "delivered" \/ pc[w] \in Attempting,
           status = "DELIVERED" => obs[cur[w].job].accepted > 0,
           status # "DELIVERED" => pc[w] \in Attempting,
           pc'[w] \in {"idle", "bounceDsn"},
           \A j \in Jobs : Fewer(j)
    PROVE  \/ \A j \in Jobs : Still(j)
           \/ \E k \in Jobs : /\ WroteBack(k, w)
                              /\ \A j \in Jobs \ {k} : Still(j)
<1>1. PICK k \in Jobs : k = cur[w].job
    BY DEF Copy
<1>2. status \in Status /\ TypeOK /\ row[k] \in Row
    BY DEF TypeInv, TypeOK, Status
<1>3. \A j \in Jobs : Counts(j)' = Counts(j)
    BY DEF Counts
<1>4. CASE row' = row
    BY <1>3, <1>4 DEF Still
<1>5. CASE row' = [row EXCEPT ![k] = Written(cur[w], status)]
  <2>1. \A j \in Jobs \ {k} : Still(j)
      BY <1>2, <1>3, <1>5 DEF Still, TypeOK
  <2>2. row'[k].status = status /\ row'[k].delayDsnSent = cur[w].delayDsnSent
      BY <1>1, <1>2, <1>5 DEF Written, TypeOK, Row
  <2>3. \A c \in batch[w] : c.job # k
      BY <1>1 DEF TypeInv, LocalOK, Attempting
  <2>4. w \in Writers(k)
      BY <1>1 DEF Writers, WillWrite, Attempting
  <2>5. w \notin Writers(k)' /\ w \notin Carriers(k)' /\ w \notin Fresh(k)'
      BY <2>3 DEF Writers, WillWrite, Carriers, Carries, Fresh, CarriesFresh,
                  Attempting
  <2>6. status # "DELIVERED" =>
            /\ w \in Carriers(k)
            /\ ~cur[w].delayDsnSent => w \in Fresh(k)
      BY <1>1 DEF Carriers, Carries, Fresh, CarriesFresh
  <2>7. WroteBack(k, w)
      BY <1>1, <1>3, <2>2, <2>4, <2>5, <2>6 DEF WroteBack
  <2> QED
      BY <2>1, <2>7
<1> QED
    BY <1>1, <1>2, <1>4, <1>5, UpdateRow

\* What a step is to the jobs.
StepShape ==
    \/ \A j \in Jobs : Still(j)
    \/ \E k \in Jobs : Happens(k) /\ \A j \in Jobs \ {k} : Still(j)
    \/ \E w \in Workers : \A j \in Jobs :
           Still(j) \/ Claimed(j, w) \/ Reclaimed(j, w)

\* One worker claims several jobs; every other step is about one job at most.
LEMMA StepShapes == TypeInv /\ DeliveredWasTaken /\ [Next]_vars => StepShape
<1> SUFFICES ASSUME TypeInv, DeliveredWasTaken, [Next]_vars PROVE StepShape
    OBVIOUS
<1> USE DEF rows, local
<1>a. TypeOK /\ LocalOK
    BY DEF TypeInv
<1>b. \A w \in Workers : pc[w] # "idle" => cur[w] \in Copy /\ cur[w].job \in Jobs
    BY <1>a DEF TypeOK, Copy
<1>c. ASSUME UNCHANGED <<row, obs>>, \A j \in Jobs : Fewer(j) PROVE StepShape
    BY <1>c DEF StepShape, Still, Counts
<1>1. ASSUME NEW w \in Workers, FetchNextReady(w) PROVE StepShape
  <2>1. PICK S \in (SUBSET Jobs) \ {{}} :
            /\ EarliestReady(S)
            /\ row' = [j \in Jobs |->
                         IF j \in S
                         THEN [row[j] EXCEPT !.status = "SENDING",
                                             !.lockedUntil = now + Lease]
                         ELSE row[j]]
            /\ batch' = [batch EXCEPT ![w] = {CopyOf(j) : j \in S}]
            /\ obs' = [j \in Jobs |->
                         IF j \in S /\ row[j].status = "SENDING"
                         THEN [obs[j] EXCEPT !.reclaims = @ + 1]
                         ELSE obs[j]]
      BY <1>1 DEF FetchNextReady
  <2>2. /\ pc[w] = "idle" /\ batch'[w] = {CopyOf(j) : j \in S}
        /\ \A v \in Workers \ {w} : batch'[v] = batch[v]
        /\ UNCHANGED <<pc, cur>>
      BY <1>1, <1>a, <2>1 DEF FetchNextReady, TypeOK
  <2>3. ASSUME NEW c \in batch'[w]
        PROVE  /\ c.job \in S
               /\ c.delayDsnSent = row[c.job].delayDsnSent
      BY <2>2 DEF CopyOf
  <2>4. ASSUME NEW j \in Jobs
        PROVE  Still(j) \/ Claimed(j, w) \/ Reclaimed(j, w)
    <3>1. \A v \in Workers \ {w} :
              /\ WillWrite(v, j)' <=> WillWrite(v, j)
              /\ Carries(v, j)' <=> Carries(v, j)
              /\ CarriesFresh(v, j)' <=> CarriesFresh(v, j)
        BY <2>2 DEF WillWrite, Carries, CarriesFresh
    <3>2. /\ Writers(j)' \subseteq Writers(j) \cup {w}
          /\ Carriers(j)' \subseteq Carriers(j) \cup {w}
          /\ Fresh(j)' \subseteq Fresh(j) \cup {w}
        BY <3>1 DEF Writers, Carriers, Fresh
    <3>3. CASE j \notin S
      <4>1. ~WillWrite(w, j)' /\ ~Carries(w, j)' /\ ~CarriesFresh(w, j)'
          BY <2>2, <2>3, <3>3 DEF WillWrite, Carries, CarriesFresh, Attempting
      <4>2. Fewer(j)
          BY <3>1, <4>1 DEF Fewer, Writers, Carriers, Fresh
      <4>3. row'[j] = row[j] /\ obs'[j] = obs[j]
          BY <2>1, <3>3
      <4> QED
          BY <4>2, <4>3 DEF Still, Counts
    <3>4. CASE j \in S
      <4>1. row[j].status \in {"QUEUED", "DEFERRED", "SENDING"}
          BY <2>1, <3>4 DEF EarliestReady, Ready
      <4>2. row[j] \in Row /\ obs[j] \in Observation
          BY <1>a DEF TypeOK
      <4>3. row'[j] = [row[j] EXCEPT !.status = "SENDING",
                                     !.lockedUntil = now + Lease]
          BY <2>1, <3>4
      <4>4. row'[j].status = "SENDING"
          BY <4>2, <4>3 DEF Row
      <4>5. CASE row[j].status = "SENDING"
        <5>1. obs'[j] = [obs[j] EXCEPT !.reclaims = @ + 1]
            BY <2>1, <3>4, <4>5
        <5> QED
            BY <3>2, <4>4, <4>5, <5>1 DEF Reclaimed
      <4>6. CASE row[j].status # "SENDING"
        <5>1. obs'[j] = obs[j]
            BY <2>1, <4>6
        <5>2. ASSUME row[j].delayDsnSent PROVE Fresh(j)' \subseteq Fresh(j)
          <6>1. ~CarriesFresh(w, j)'
              BY <2>2, <2>3, <5>2 DEF CarriesFresh, Attempting
          <6> QED
              BY <3>1, <6>1 DEF Fresh
        <5> QED
            BY <3>2, <4>1, <4>4, <4>6, <5>1, <5>2 DEF Claimed, Counts
      <4> QED
          BY <4>5, <4>6
    <3> QED
        BY <3>3, <3>4
  <2> QED
      BY <2>4 DEF StepShape
<1>2. ASSUME NEW w \in Workers, BeginJob(w) PROVE StepShape
  <2>1. PICK c \in batch[w] :
            /\ cur' = [cur EXCEPT ![w] = [c EXCEPT !.attempt = @ + 1]]
            /\ batch' = [batch EXCEPT ![w] = @ \ {c}]
      BY <1>2 DEF BeginJob
  <2>2. c \in Copy
      BY <1>a DEF TypeOK
  <2>3. /\ \A v \in Workers \ {w} : batch'[v] = batch[v] /\ pc'[v] = pc[v]
                                    /\ cur'[v] = cur[v]
        /\ batch'[w] \subseteq batch[w] /\ cur'[w].job = c.job
        /\ cur'[w].delayDsnSent = c.delayDsnSent
      BY <1>2, <1>a, <2>1, <2>2 DEF BeginJob, TypeOK, Copy
  <2>4. \A j \in Jobs : Fewer(j)
      BY <2>3, FewerAt DEF WillWrite, Carries, CarriesFresh
  <2> QED
      BY <1>2, <1>c, <2>4 DEF BeginJob
\* The attempt goes on, or fails, without the destination taking anything.
<1>3. ASSUME NEW w \in Workers, pc[w] \in Attempting, NEW p \in Attempting,
             pc' = [pc EXCEPT ![w] = p], UNCHANGED <<row, batch, cur, obs>>
      PROVE  StepShape
  <2>1. \A j \in Jobs : Fewer(j)
      BY <1>3, <1>a, FewerGoing
  <2> QED
      BY <1>3, <1>c, <2>1
<1>4. ASSUME NEW w \in Workers, ReadBlobFails(w) \/ RouteRemote(w)
      PROVE  StepShape
    BY <1>3, <1>4 DEF ReadBlobFails, RouteRemote, Fails, Attempting
\* The destination takes the message.
<1>5. ASSUME NEW w \in Workers, pc[w] \in {"route", "smtp"},
             NEW p \in Attempting \cup {"delivered"},
             pc' = [pc EXCEPT ![w] = p], UNCHANGED <<row, batch, cur>>,
             \/ /\ p = "delivered"
                /\ obs' = [obs EXCEPT ![cur[w].job].accepted = @ + 1]
             \/ obs' = [obs EXCEPT ![cur[w].job].accepted = @ + 1,
                                   ![cur[w].job].lostAnswers = @ + 1]
      PROVE  StepShape
  <2>1. PICK k \in Jobs : k = cur[w].job
      BY <1>5, <1>b
  <2>a. pc[w] \in Attempting /\ p \in Attempting \cup {"delivered", "bounceDsn"}
      BY <1>5 DEF Attempting
  <2>2. \A j \in Jobs : Fewer(j)
      BY <1>5, <1>a, <2>a, FewerGoing
  <2>3. \A j \in Jobs \ {k} : Still(j)
      BY <1>5, <1>a, <2>1, <2>2 DEF Still, Counts, TypeOK
  <2>4. w \in Carriers(k) /\ w \in Writers(k)
      BY <1>5, <2>1 DEF Carriers, Carries, Writers, WillWrite, Attempting
  <2>5. \A c \in batch[w] : c.job # k
      BY <1>5, <1>a, <2>1 DEF LocalOK
  <2>6. p = "delivered" => w \notin Carriers(k)'
      BY <1>5, <1>a, <2>5 DEF Carriers, Carries, Attempting, TypeOK
  <2>7. obs[k] \in Observation
      BY <1>a DEF TypeOK
  <2>8. \/ /\ p = "delivered"
           /\ obs'[k] = [obs[k] EXCEPT !.accepted = @ + 1]
        \/ obs'[k] = [obs[k] EXCEPT !.accepted = @ + 1, !.lostAnswers = @ + 1]
      BY <1>5, <1>a, <2>1 DEF TypeOK
  <2>9. Accepted(k, w)
      BY <1>5, <2>2, <2>4, <2>6, <2>8 DEF Accepted
  <2> QED
      BY <2>3, <2>9 DEF StepShape, Happens
<1>6. ASSUME NEW w \in Workers, DeliverLocally(w) PROVE StepShape
  <2>1. CASE Fails(w, "local") /\ UNCHANGED obs
      BY <1>3, <1>6, <2>1 DEF DeliverLocally, Fails, Attempting
  <2>2. CASE /\ obs' = [obs EXCEPT ![cur[w].job].accepted = @ + 1]
             /\ pc' = [pc EXCEPT ![w] = "delivered"]
      BY <1>5, <1>6, <2>2 DEF DeliverLocally
  <2>3. CASE /\ Fails(w, "local")
             /\ obs' = [obs EXCEPT ![cur[w].job].accepted = @ + 1,
                                   ![cur[w].job].lostAnswers = @ + 1]
      BY <1>5, <1>6, <2>3 DEF DeliverLocally, Fails, Attempting
  <2> QED
      BY <1>6, <2>1, <2>2, <2>3 DEF DeliverLocally
<1>7. ASSUME NEW w \in Workers, TryHost(w) PROVE StepShape
  <2>1. pc[w] = "smtp" /\ UNCHANGED <<row, batch, cur>>
      BY <1>7 DEF TryHost
  <2>2. ASSUME NEW class, HostFails(w, class)
        PROVE  \E p \in {"failed", "smtp"} : pc' = [pc EXCEPT ![w] = p]
      BY <2>2 DEF HostFails
  <2>3. CASE /\ \E class \in {"temporary", "permanent"} : HostFails(w, class)
             /\ UNCHANGED obs
      BY <1>3, <2>1, <2>2, <2>3 DEF Attempting
  <2>4. CASE /\ \E class \in {"temporary", "permanent"} : HostFails(w, class)
             /\ obs' = [obs EXCEPT ![cur[w].job].accepted = @ + 1,
                                   ![cur[w].job].lostAnswers = @ + 1]
      BY <1>5, <2>1, <2>2, <2>4 DEF Attempting
  <2>5. CASE /\ obs' = [obs EXCEPT ![cur[w].job].accepted = @ + 1]
             /\ pc' = [pc EXCEPT ![w] = "delivered"]
      BY <1>5, <2>1, <2>5
  <2> QED
      BY <1>7, <2>3, <2>4, <2>5 DEF TryHost
<1>8. ASSUME NEW w \in Workers, RecordDelivered(w) PROVE StepShape
  <2>1. \A j \in Jobs : Fewer(j)
      BY <1>8, <1>a, FewerDone DEF RecordDelivered
  <2>2. pc'[w] = "idle" /\ obs[cur[w].job].accepted > 0 /\ cur[w] \in Copy
      BY <1>8, <1>a, <1>b DEF RecordDelivered, Done, TypeOK, DeliveredWasTaken
  <2>3. \/ \A j \in Jobs : Still(j)
        \/ \E k \in Jobs : /\ WroteBack(k, w)
                           /\ \A j \in Jobs \ {k} : Still(j)
      BY <1>8, <2>1, <2>2, UpdateWrites DEF RecordDelivered
  <2> QED
      BY <2>3 DEF StepShape, Happens
<1>9. ASSUME NEW w \in Workers, Bounce(w) PROVE StepShape
  <2>a. pc[w] \in Attempting
      BY <1>9 DEF Bounce, Attempting
  <2>1. \A j \in Jobs : Fewer(j)
      BY <1>9, <1>a, <2>a, FewerGoing DEF Bounce
  <2>2. pc'[w] = "bounceDsn" /\ cur[w] \in Copy
      BY <1>9, <1>a, <1>b DEF Bounce, TypeOK
  <2>3. \/ \A j \in Jobs : Still(j)
        \/ \E k \in Jobs : /\ WroteBack(k, w)
                           /\ \A j \in Jobs \ {k} : Still(j)
      BY <1>9, <2>1, <2>2, UpdateWrites DEF Bounce, Attempting
  <2> QED
      BY <2>3 DEF StepShape, Happens
<1>10. ASSUME NEW w \in Workers, RecordDeferred(w) PROVE StepShape
  <2>1. \A j \in Jobs : Fewer(j)
      BY <1>10, <1>a, FewerDone DEF RecordDeferred
  <2>2. pc'[w] = "idle" /\ cur[w] \in Copy
      BY <1>10, <1>a, <1>b DEF RecordDeferred, Done, TypeOK
  <2>3. \/ \A j \in Jobs : Still(j)
        \/ \E k \in Jobs : /\ WroteBack(k, w)
                           /\ \A j \in Jobs \ {k} : Still(j)
      BY <1>10, <2>1, <2>2, UpdateWrites DEF RecordDeferred, Attempting
  <2> QED
      BY <2>3 DEF StepShape, Happens
<1>11. ASSUME NEW w \in Workers, SendFailedDsn(w) PROVE StepShape
  <2>1. \A j \in Jobs : Fewer(j)
      BY <1>11, <1>a, FewerDone DEF SendFailedDsn
  <2>2. \/ obs' = obs
        \/ obs' = [obs EXCEPT ![cur[w].job].failed = @ + 1]
      BY <1>11 DEF SendFailedDsn, SendDsn
  <2>3. \A j \in Jobs : Counts(j)' = Counts(j)
      BY <1>a, <2>2 DEF Counts, TypeOK, Observation
  <2> QED
      BY <1>11, <2>1, <2>3 DEF SendFailedDsn, StepShape, Still
<1>12. ASSUME NEW w \in Workers, Defer(w) PROVE StepShape
  <2>1. pc[w] = "failed" /\ cur[w] \in Copy /\ UNCHANGED <<row, batch>>
      BY <1>12, <1>b DEF Defer
  <2>2. PICK k \in Jobs : k = cur[w].job
      BY <2>1 DEF Copy
  <2>3. PICK b \in CalculateNextBackoff(now, cur[w].attempt,
                                        row[cur[w].job].expires) :
            IF b.delayDsn /\ ~cur[w].delayDsnSent
            THEN /\ SendDsn(cur[w].job, "delayed")
                 /\ cur' = [cur EXCEPT ![w].next = b.next,
                                       ![w].delayDsnSent = TRUE]
            ELSE /\ cur' = [cur EXCEPT ![w].next = b.next]
                 /\ UNCHANGED <<faults, obs>>
      BY <1>12 DEF Defer
  <2>4. /\ \A v \in Workers \ {w} : batch'[v] = batch[v] /\ pc'[v] = pc[v]
                                    /\ cur'[v] = cur[v]
        /\ pc'[w] = "defer" /\ cur'[w].job = k
      BY <1>12, <1>a, <2>1, <2>2, <2>3 DEF Defer, TypeOK, Copy
  <2>5. cur[w].delayDsnSent \in BOOLEAN
      BY <2>1 DEF Copy
  <2>6. \/ /\ ~cur[w].delayDsnSent /\ SendDsn(k, "delayed")
           /\ cur'[w].delayDsnSent = TRUE
        \/ cur'[w].delayDsnSent = cur[w].delayDsnSent /\ UNCHANGED obs
      BY <1>a, <2>1, <2>2, <2>3 DEF TypeOK, Copy
  <2>7. ASSUME NEW j \in Jobs PROVE Fewer(j)
    <3>1. CarriesFresh(w, j)' => CarriesFresh(w, j)
        BY <2>1, <2>2, <2>4, <2>6 DEF CarriesFresh, Attempting
    <3>2. /\ WillWrite(w, j)' => WillWrite(w, j)
          /\ Carries(w, j)' => Carries(w, j)
        BY <2>1, <2>2, <2>4 DEF WillWrite, Carries, Attempting
    <3> QED
        BY <2>4, <3>1, <3>2, FewerAt
  <2>8. CASE UNCHANGED obs
      BY <1>c, <2>1, <2>7, <2>8
  <2>9. CASE obs' # obs
    <3>1. /\ ~cur[w].delayDsnSent /\ cur'[w].delayDsnSent = TRUE
          /\ obs' = [obs EXCEPT ![k].delayed = @ + 1]
        BY <2>6, <2>9 DEF SendDsn
    <3>2. /\ obs'[k] = [obs[k] EXCEPT !.delayed = @ + 1]
          /\ \A j \in Jobs \ {k} : obs'[j] = obs[j]
        BY <1>a, <3>1 DEF TypeOK
    <3>3. w \in Fresh(k)
        BY <2>1, <2>2, <3>1 DEF Fresh, CarriesFresh, Attempting
    <3>4. \A c \in batch[w] : c.job # k
        BY <1>a, <2>1, <2>2 DEF LocalOK
    <3>5. w \notin Fresh(k)'
        BY <2>1, <3>1, <3>4 DEF Fresh, CarriesFresh
    <3>6. Noticed(k, w)
        BY <2>1, <2>7, <3>2, <3>3, <3>5 DEF Noticed
    <3>7. \A j \in Jobs \ {k} : Still(j)
        BY <2>1, <2>7, <3>2 DEF Still, Counts
    <3> QED
        BY <3>6, <3>7 DEF StepShape, Happens
  <2> QED
      BY <2>8, <2>9
<1>13. ASSUME NEW w \in Workers, Crash(w) PROVE StepShape
  <2>1. \A j \in Jobs : Fewer(j)
    <3>1. /\ \A v \in Workers \ {w} : batch'[v] = batch[v]
          /\ batch'[w] \subseteq batch[w]
        BY <1>13, <1>a DEF Crash, TypeOK
    <3> QED
        BY <1>13, <1>a, <3>1, FewerDone DEF Crash
  <2> QED
      BY <1>13, <1>c, <2>1 DEF Crash
\* Submission or the operator changes one row; no worker notices.
<1>14. ASSUME NEW k \in Jobs, UNCHANGED <<local, obs>>, NEW r \in Row,
              row' = [row EXCEPT ![k] = r], r.delayDsnSent = row[k].delayDsnSent,
              \/ row[k].status \in {"ABSENT"} \cup Retriable /\ r.status = "QUEUED"
              \/ row[k].status \in Cancellable /\ r.status = "CANCELLED"
       PROVE  StepShape
  <2>1. \A j \in Jobs : Fewer(j) /\ Counts(j)' = Counts(j)
      BY <1>14, FewerSame DEF Counts
  <2>2. Changed(k)
      BY <1>14, <1>a, <2>1 DEF Changed, TypeOK
  <2>3. \A j \in Jobs \ {k} : Still(j)
      BY <1>14, <1>a, <2>1 DEF Still, TypeOK
  <2> QED
      BY <2>2, <2>3 DEF StepShape, Happens
<1>15. ASSUME NEW k \in Jobs, Enqueue(k) PROVE StepShape
  <2> DEFINE r == [row[k] EXCEPT !.status = "QUEUED", !.next = now,
                                 !.expires = now + DeliveryWindow]
  <2>1. row[k] \in Row /\ now \in Nat /\ now + DeliveryWindow \in Nat
      BY <1>a, RetryAssumption DEF TypeOK
  <2>2. /\ r \in Row /\ r.delayDsnSent = row[k].delayDsnSent
        /\ r.status = "QUEUED"
      BY <2>1 DEF Row, Status
  <2>3. row' = [row EXCEPT ![k] = r]
      BY <1>15, <1>a DEF Enqueue, TypeOK
  <2> HIDE DEF r
  <2> QED
      BY <1>14, <1>15, <2>2, <2>3 DEF Enqueue
<1>16. ASSUME NEW k \in Jobs, RetryJob(k) PROVE StepShape
  <2>1. row[k] \in Row /\ now \in Nat
      BY <1>a DEF TypeOK
  <2>2. /\ Retried(k) \in Row /\ Retried(k).delayDsnSent = row[k].delayDsnSent
        /\ Retried(k).status = "QUEUED"
      BY <2>1 DEF Row, Status, Retried
  <2> QED
      BY <1>14, <1>16, <2>2 DEF RetryJob
<1>17. ASSUME NEW k \in Jobs, CancelJob(k) PROVE StepShape
  <2> DEFINE r == [row[k] EXCEPT !.status = "CANCELLED"]
  <2>1. row[k] \in Row
      BY <1>a DEF TypeOK
  <2>2. /\ r \in Row /\ r.delayDsnSent = row[k].delayDsnSent
        /\ r.status = "CANCELLED"
      BY <2>1 DEF Row, Status
  <2>3. row' = [row EXCEPT ![k] = r]
      BY <1>17, <1>a DEF CancelJob, TypeOK
  <2> HIDE DEF r
  <2> QED
      BY <1>14, <1>17, <2>2, <2>3 DEF CancelJob
<1>18. ASSUME NEW k \in Jobs, SetMailboxActive(k) \/ DeleteMailbox(k)
       PROVE  StepShape
    BY <1>c, <1>18, FewerSame DEF SetMailboxActive, DeleteMailbox
<1>19. CASE Tick
    BY <1>c, <1>19, FewerSame DEF Tick
<1>20. CASE UNCHANGED vars
    BY <1>c, <1>20, FewerSame DEF vars
<1> QED
    BY <1>1, <1>2, <1>4, <1>6, <1>7, <1>8, <1>9, <1>10, <1>11, <1>12, <1>13,
       <1>15, <1>16, <1>17, <1>18, <1>19, <1>20 DEF Next, WorkerStep, OwnStep

-----------------------------------------------------------------------------
(***************************************************************************)
(* The invariant of a job                                                  *)
(***************************************************************************)

Doubts(j) == obs[j].reclaims + obs[j].lostAnswers

\* The row is in nobody's claim, and a claim may come.
Waiting(j) == row[j].status \in {"ABSENT", "QUEUED", "DEFERRED", "BOUNCED"}

\* The copies under way are those the claims of the row account for.
ClaimOK(j) ==
    /\ Writers(j) # {} => row[j].status # "ABSENT"
    /\ obs[j].reclaims = 0 =>
           \A v, w \in Writers(j) : v = w /\ row[j].status = "SENDING"

\* Each copy under way may be taken once: together with what was taken, one
\* more than the doubts, and none more while the row waits.
TakenOK(j) ==
    /\ obs[j].accepted + Cardinality(Carriers(j)) <= Doubts(j) + 1
    /\ Waiting(j) =>
           obs[j].accepted + Cardinality(Carriers(j)) <= Doubts(j)

\* The same of the delay notices.
NoticeOK(j) ==
    /\ obs[j].delayed + Cardinality(Fresh(j)) <= obs[j].reclaims + 1
    /\ Waiting(j) /\ ~row[j].delayDsnSent =>
           obs[j].delayed + Cardinality(Fresh(j)) <= obs[j].reclaims

JobOK(j) == ClaimOK(j) /\ TakenOK(j) /\ NoticeOK(j)

QueueInv ==
    TypeInv /\ DeliveredWasTaken /\ \A j \in Jobs : JobOK(j)

\* How sets of workers compare in number.
LEMMA WorkerCounts ==
    ASSUME NEW A \in SUBSET Workers, NEW B \in SUBSET Workers
    PROVE  /\ Cardinality(A) \in Nat /\ Cardinality(B) \in Nat
           /\ A \subseteq B => Cardinality(A) <= Cardinality(B)
           /\ \A w \in Workers :
                 /\ A \subseteq B /\ w \in B /\ w \notin A
                        => Cardinality(A) + 1 <= Cardinality(B)
                 /\ A \subseteq B \cup {w}
                        => Cardinality(A) <= Cardinality(B) + 1
<1>1. IsFiniteSet(A) /\ IsFiniteSet(B)
    BY QueueAssumption, FS_Subset
<1>2. Cardinality(A) \in Nat /\ Cardinality(B) \in Nat
    BY <1>1, FS_CardinalityType
<1>3. A \subseteq B => Cardinality(A) <= Cardinality(B)
    BY <1>1, FS_Subset
<1>4. ASSUME NEW w \in Workers, A \subseteq B, w \in B, w \notin A
      PROVE  Cardinality(A) + 1 <= Cardinality(B)
  <2>1. A \subseteq B \ {w}
      BY <1>4
  <2>2. IsFiniteSet(B \ {w}) /\ Cardinality(B \ {w}) = Cardinality(B) - 1
      BY <1>1, <1>4, FS_RemoveElement
  <2>3. Cardinality(A) <= Cardinality(B \ {w})
      BY <2>1, <2>2, FS_Subset
  <2> QED
      BY <1>2, <2>2, <2>3
<1>5. ASSUME NEW w \in Workers, A \subseteq B \cup {w}
      PROVE  Cardinality(A) <= Cardinality(B) + 1
  <2>1. /\ IsFiniteSet(B \cup {w})
        /\ \/ Cardinality(B \cup {w}) = Cardinality(B) + 1
           \/ Cardinality(B \cup {w}) = Cardinality(B)
      BY <1>1, FS_AddElement
  <2>2. Cardinality(A) <= Cardinality(B \cup {w})
      BY <1>5, <2>1, FS_Subset
  <2> QED
      BY <1>2, <2>1, <2>2
<1> QED
    BY <1>2, <1>3, <1>4, <1>5

\* The numbers of a job, before and after a step.
LEMMA JobNumbers ==
    ASSUME TypeOK, NEW j \in Jobs
    PROVE  /\ obs[j].accepted \in Nat /\ obs[j].reclaims \in Nat
           /\ obs[j].lostAnswers \in Nat /\ obs[j].delayed \in Nat
           /\ obs[j] \in Observation
           /\ row[j].delayDsnSent \in BOOLEAN
           /\ row[j].status \in Status
BY DEF TypeOK, Observation, Row

\* A worker that carries a job is to write its row, unless it has delivered.
LEMMA CarriersWrite ==
    \A j \in Jobs : Carriers(j) \subseteq Writers(j) /\ Fresh(j) \subseteq Carriers(j)
BY DEF Carriers, Writers, Fresh, Carries, CarriesFresh, WillWrite, Attempting

\* What a claim changes in a job.
LEMMA ClaimKeeps ==
    ASSUME TypeOK, NEW j \in Jobs, JobOK(j), NEW w \in Workers,
           Claimed(j, w) \/ Reclaimed(j, w)
    PROVE  JobOK(j)'
<1>a. /\ Writers(j) \subseteq Workers /\ Carriers(j) \in SUBSET Workers
      /\ Fresh(j) \in SUBSET Workers /\ Carriers(j)' \in SUBSET Workers
      /\ Fresh(j)' \in SUBSET Workers
    BY DEF Writers, Carriers, Fresh
<1>b. /\ Cardinality(Carriers(j)) \in Nat /\ Cardinality(Carriers(j)') \in Nat
      /\ Cardinality(Fresh(j)) \in Nat /\ Cardinality(Fresh(j)') \in Nat
      /\ Cardinality(Carriers(j)') <= Cardinality(Carriers(j)) + 1
      /\ Cardinality(Fresh(j)') <= Cardinality(Fresh(j)) + 1
    BY <1>a, WorkerCounts DEF Claimed, Reclaimed
<1>c. row'[j].status = "SENDING"
    BY DEF Claimed, Reclaimed
<1>1. CASE Claimed(j, w)
  <2>1. /\ obs'[j].accepted = obs[j].accepted
        /\ obs'[j].reclaims = obs[j].reclaims
        /\ obs'[j].lostAnswers = obs[j].lostAnswers
        /\ obs'[j].delayed = obs[j].delayed
      BY <1>1 DEF Claimed, Counts
  <2>2. ClaimOK(j)'
    <3>1. obs[j].reclaims = 0 => Writers(j) = {}
        BY <1>1 DEF Claimed, JobOK, ClaimOK
    <3>2. obs[j].reclaims = 0 => Writers(j)' \subseteq {w}
        BY <1>1, <3>1 DEF Claimed
    <3> QED
        BY <1>c, <2>1, <3>2 DEF ClaimOK
  <2>3. TakenOK(j)'
      BY <1>1, <1>b, <1>c, <2>1, JobNumbers
         DEF Claimed, JobOK, TakenOK, Waiting, Doubts
  <2>4. NoticeOK(j)'
    <3>1. CASE row[j].delayDsnSent
      <4>1. Cardinality(Fresh(j)') <= Cardinality(Fresh(j))
          BY <1>1, <1>a, <3>1, WorkerCounts DEF Claimed
      <4> QED
          BY <1>b, <1>c, <2>1, <4>1, JobNumbers DEF JobOK, NoticeOK, Waiting
    <3>2. CASE ~row[j].delayDsnSent
        BY <1>1, <1>b, <1>c, <2>1, <3>2, JobNumbers
           DEF Claimed, JobOK, NoticeOK, Waiting
    <3> QED
        BY <3>1, <3>2
  <2> QED
      BY <2>2, <2>3, <2>4 DEF JobOK
<1>2. CASE Reclaimed(j, w)
  <2>1. /\ obs'[j].accepted = obs[j].accepted
        /\ obs'[j].reclaims = obs[j].reclaims + 1
        /\ obs'[j].lostAnswers = obs[j].lostAnswers
        /\ obs'[j].delayed = obs[j].delayed
      BY <1>2, JobNumbers DEF Reclaimed, Observation
  <2>2. ClaimOK(j)'
      BY <1>c, <2>1, JobNumbers DEF ClaimOK
  <2>3. TakenOK(j)'
      BY <1>b, <1>c, <2>1, JobNumbers DEF JobOK, TakenOK, Waiting, Doubts
  <2>4. NoticeOK(j)'
      BY <1>b, <1>c, <2>1, JobNumbers DEF JobOK, NoticeOK, Waiting
  <2> QED
      BY <2>2, <2>3, <2>4 DEF JobOK
<1> QED
    BY <1>1, <1>2

\* A job that is still, or about which something happens, stays in order.
LEMMA JobKeeps ==
    ASSUME TypeOK, TypeOK', NEW j \in Jobs, JobOK(j), Still(j) \/ Happens(j)
    PROVE  JobOK(j)'
<1>a. /\ Writers(j) \subseteq Workers /\ Carriers(j) \in SUBSET Workers
      /\ Fresh(j) \in SUBSET Workers /\ Carriers(j)' \in SUBSET Workers
      /\ Fresh(j)' \in SUBSET Workers
    BY DEF Writers, Carriers, Fresh
<1>b. Fewer(j)
    BY DEF Still, Happens, Changed, Accepted, Noticed, WroteBack
<1>c. /\ Cardinality(Carriers(j)) \in Nat /\ Cardinality(Carriers(j)') \in Nat
      /\ Cardinality(Fresh(j)) \in Nat /\ Cardinality(Fresh(j)') \in Nat
      /\ Cardinality(Carriers(j)') <= Cardinality(Carriers(j))
      /\ Cardinality(Fresh(j)') <= Cardinality(Fresh(j))
    BY <1>a, <1>b, WorkerCounts DEF Fewer
<1>d. ASSUME Counts(j)' = Counts(j)
      PROVE  /\ obs'[j].accepted = obs[j].accepted
             /\ obs'[j].reclaims = obs[j].reclaims
             /\ obs'[j].lostAnswers = obs[j].lostAnswers
             /\ obs'[j].delayed = obs[j].delayed
    BY <1>d DEF Counts
<1>1. CASE Still(j)
  <2>1. row'[j] = row[j] /\ Counts(j)' = Counts(j)
      BY <1>1 DEF Still
  <2>2. ClaimOK(j)'
      BY <1>b, <1>d, <2>1 DEF ClaimOK, JobOK, Fewer
  <2>3. TakenOK(j)'
      BY <1>c, <1>d, <2>1, JobNumbers DEF TakenOK, JobOK, Waiting, Doubts
  <2>4. NoticeOK(j)'
      BY <1>c, <1>d, <2>1, JobNumbers DEF NoticeOK, JobOK, Waiting
  <2> QED
      BY <2>2, <2>3, <2>4 DEF JobOK
<1>2. CASE Changed(j)
  <2>1. Counts(j)' = Counts(j) /\ row'[j].delayDsnSent = row[j].delayDsnSent
      BY <1>2 DEF Changed
  <2>2. ClaimOK(j)'
    <3>1. obs[j].reclaims = 0 => Writers(j) = {}
        BY <1>2 DEF Changed, ClaimOK, JobOK, Retriable, Cancellable
    <3> QED
        BY <1>2, <1>b, <1>d, <2>1, <3>1 DEF Changed, ClaimOK, Fewer
  <2>3. TakenOK(j)'
      BY <1>2, <1>c, <1>d, <2>1, JobNumbers
         DEF Changed, TakenOK, JobOK, Waiting, Doubts, Retriable, Cancellable
  <2>4. NoticeOK(j)'
      BY <1>2, <1>c, <1>d, <2>1, JobNumbers
         DEF Changed, NoticeOK, JobOK, Waiting, Retriable, Cancellable
  <2> QED
      BY <2>2, <2>3, <2>4 DEF JobOK
<1>3. ASSUME NEW w \in Workers, Accepted(j, w) PROVE JobOK(j)'
  <2>1. /\ row'[j] = row[j]
        /\ obs'[j].accepted = obs[j].accepted + 1
        /\ obs'[j].reclaims = obs[j].reclaims
        /\ obs'[j].delayed = obs[j].delayed
        /\ \/ /\ obs'[j].lostAnswers = obs[j].lostAnswers
              /\ w \notin Carriers(j)'
           \/ obs'[j].lostAnswers = obs[j].lostAnswers + 1
      BY <1>3, JobNumbers DEF Accepted, Observation
  <2>2. ClaimOK(j)'
      BY <1>b, <2>1 DEF ClaimOK, JobOK, Fewer
  <2>3. TakenOK(j)'
    <3>1. w \notin Carriers(j)' =>
              Cardinality(Carriers(j)') + 1 <= Cardinality(Carriers(j))
        BY <1>3, <1>a, <1>b, WorkerCounts DEF Accepted, Fewer
    <3> QED
        BY <1>c, <2>1, <3>1, JobNumbers DEF TakenOK, JobOK, Waiting, Doubts
  <2>4. NoticeOK(j)'
      BY <1>c, <2>1, JobNumbers DEF NoticeOK, JobOK, Waiting
  <2> QED
      BY <2>2, <2>3, <2>4 DEF JobOK
<1>4. ASSUME NEW w \in Workers, Noticed(j, w) PROVE JobOK(j)'
  <2>1. /\ row'[j] = row[j]
        /\ obs'[j].accepted = obs[j].accepted
        /\ obs'[j].reclaims = obs[j].reclaims
        /\ obs'[j].lostAnswers = obs[j].lostAnswers
        /\ obs'[j].delayed = obs[j].delayed + 1
      BY <1>4, JobNumbers DEF Noticed, Observation
  <2>2. ClaimOK(j)'
      BY <1>b, <2>1 DEF ClaimOK, JobOK, Fewer
  <2>3. TakenOK(j)'
      BY <1>c, <2>1, JobNumbers DEF TakenOK, JobOK, Waiting, Doubts
  <2>4. NoticeOK(j)'
    <3>1. Cardinality(Fresh(j)') + 1 <= Cardinality(Fresh(j))
        BY <1>4, <1>a, <1>b, WorkerCounts DEF Noticed, Fewer
    <3> QED
        BY <1>c, <2>1, <3>1, JobNumbers DEF NoticeOK, JobOK, Waiting
  <2> QED
      BY <2>2, <2>3, <2>4 DEF JobOK
<1>5. ASSUME NEW w \in Workers, WroteBack(j, w) PROVE JobOK(j)'
  <2>1. Counts(j)' = Counts(j) /\ w \in Writers(j) /\ w \notin Writers(j)'
        /\ row'[j].status # "ABSENT"
      BY <1>5 DEF WroteBack
  <2>2. ClaimOK(j)'
    <3>1. obs[j].reclaims = 0 => Writers(j)' = {}
        BY <1>b, <2>1 DEF ClaimOK, JobOK, Fewer
    <3> QED
        BY <1>d, <2>1, <3>1 DEF ClaimOK
  <2>3. CASE row'[j].status = "DELIVERED"
    <3>1. TakenOK(j)'
        BY <1>c, <1>d, <2>1, <2>3, JobNumbers DEF TakenOK, JobOK, Waiting, Doubts
    <3>2. NoticeOK(j)'
        BY <1>c, <1>d, <2>1, <2>3, JobNumbers DEF NoticeOK, JobOK, Waiting
    <3> QED
        BY <2>2, <3>1, <3>2 DEF JobOK
  <2>4. CASE /\ w \in Carriers(j) /\ w \notin Carriers(j)'
             /\ ~row'[j].delayDsnSent => w \in Fresh(j) /\ w \notin Fresh(j)'
    <3>1. Cardinality(Carriers(j)') + 1 <= Cardinality(Carriers(j))
        BY <1>a, <1>b, <2>4, WorkerCounts DEF Fewer
    <3>2. ~row'[j].delayDsnSent =>
              Cardinality(Fresh(j)') + 1 <= Cardinality(Fresh(j))
        BY <1>a, <1>b, <2>4, WorkerCounts DEF Fewer
    <3>3. TakenOK(j)'
        BY <1>c, <1>d, <2>1, <3>1, JobNumbers DEF TakenOK, JobOK, Waiting, Doubts
    <3>4. NoticeOK(j)'
        BY <1>c, <1>d, <2>1, <3>2, JobNumbers DEF NoticeOK, JobOK, Waiting
    <3> QED
        BY <2>2, <3>3, <3>4 DEF JobOK
  <2> QED
      BY <1>5, <2>3, <2>4 DEF WroteBack
<1> QED
    BY <1>1, <1>2, <1>3, <1>4, <1>5 DEF Happens

\* What was taken stays taken.
LEMMA TakenGrows ==
    ASSUME TypeOK, StepShape, NEW j \in Jobs
    PROVE  obs'[j].accepted >= obs[j].accepted
<1>1. obs[j] \in Observation /\ obs[j].accepted \in Nat
    BY DEF TypeOK, Observation
<1>2. Still(j) \/ Happens(j) \/ \E w \in Workers : Claimed(j, w) \/ Reclaimed(j, w)
    BY DEF StepShape
<1>3. \/ obs'[j].accepted = obs[j].accepted
      \/ obs'[j].accepted = obs[j].accepted + 1
    BY <1>1, <1>2 DEF Still, Happens, Claimed, Reclaimed, Changed, Accepted,
                      Noticed, WroteBack, Counts, Observation
<1> QED
    BY <1>1, <1>3

\* A worker believes a message delivered only when it was just taken.
LEMMA DeliveredStep ==
    TypeInv /\ DeliveredWasTaken /\ [Next]_vars => DeliveredWasTaken'
<1> SUFFICES ASSUME TypeInv, DeliveredWasTaken, [Next]_vars,
                    NEW v \in Workers, pc'[v] = "delivered"
             PROVE  obs'[cur'[v].job].accepted > 0
    BY DEF DeliveredWasTaken
<1> USE DEF rows, local
<1>a. TypeOK /\ StepShape
    BY StepShapes DEF TypeInv
<1>1. CASE pc[v] = "delivered" /\ cur'[v] = cur[v]
  <2>1. cur[v].job \in Jobs /\ obs[cur[v].job].accepted > 0
      BY <1>1, <1>a DEF TypeOK, Copy, DeliveredWasTaken
  <2>2. PICK k \in Jobs : k = cur[v].job
      BY <2>1
  <2>3. obs'[k].accepted >= obs[k].accepted /\ obs[k].accepted \in Nat
        /\ obs'[k].accepted \in Nat
      BY <1>a, TakenGrows, TypeStep DEF TypeInv, TypeOK, Observation
  <2> QED
      BY <1>1, <2>1, <2>2, <2>3
<1>2. ASSUME pc[v] \in {"route", "smtp"}, cur' = cur,
             \/ obs' = [obs EXCEPT ![cur[v].job].accepted = @ + 1]
             \/ obs' = [obs EXCEPT ![cur[v].job].accepted = @ + 1,
                                   ![cur[v].job].lostAnswers = @ + 1]
      PROVE  obs'[cur'[v].job].accepted > 0
  <2>1. PICK k \in Jobs : k = cur[v].job
      BY <1>2, <1>a DEF TypeOK, Copy
  <2>2. obs[k] \in Observation /\ obs[k].accepted \in Nat
      BY <1>a DEF TypeOK, Observation
  <2>3. obs'[k].accepted = obs[k].accepted + 1
      BY <1>2, <1>a, <2>1, <2>2 DEF TypeOK, Observation
  <2> QED
      BY <1>2, <2>1, <2>2, <2>3
<1>3. ASSUME DeliverLocally(v) \/ TryHost(v)
      PROVE  obs'[cur'[v].job].accepted > 0
  <2>1. cur' = cur /\ pc[v] \in {"route", "smtp"}
      BY <1>3 DEF DeliverLocally, TryHost
  <2>2. ~Fails(v, "local") /\ \A class : ~HostFails(v, class)
      BY <1>a DEF Fails, HostFails, TypeOK
  <2>3. obs' = [obs EXCEPT ![cur[v].job].accepted = @ + 1]
      BY <1>3, <2>2 DEF DeliverLocally, TryHost
  <2> QED
      BY <1>2, <2>1, <2>3
\* No other step makes a worker believe so.
<1>4. ASSUME NEW w \in Workers, WorkerStep(w) \/ Crash(w),
             ~DeliverLocally(v), ~TryHost(v)
      PROVE  pc[v] = "delivered" /\ cur'[v] = cur[v]
  <2>1. ASSUME FetchNextReady(w) PROVE pc' = pc /\ cur' = cur
      BY <2>1 DEF FetchNextReady
  <2>2. ASSUME BeginJob(w)
        PROVE  pc'[w] = "route" /\ (v # w => pc'[v] = pc[v] /\ cur'[v] = cur[v])
      BY <2>2, <1>a DEF BeginJob, TypeOK
  <2>3. ASSUME NEW p \in {"failed", "smtp", "bounceDsn", "defer", "delivered"},
               pc' = [pc EXCEPT ![w] = p],
               v # w => cur'[v] = cur[v], v = w => p # "delivered"
        PROVE  pc[v] = "delivered" /\ cur'[v] = cur[v]
      BY <2>3, <1>a DEF TypeOK
  <2>4. ASSUME Done(w) PROVE v # w /\ pc'[v] = pc[v] /\ cur'[v] = cur[v]
      BY <2>4, <1>a DEF Done, TypeOK
  <2>5. CASE ReadBlobFails(w) \/ RouteRemote(w) \/ Bounce(w)
      BY <2>3, <2>5 DEF ReadBlobFails, RouteRemote, Bounce, Fails
  <2>6. CASE DeliverLocally(w)
      BY <1>4, <2>3, <2>6 DEF DeliverLocally, Fails
  <2>7. CASE TryHost(w)
      BY <1>4, <2>3, <2>7 DEF TryHost, HostFails
  <2>8. CASE Defer(w)
    <3>1. v # w => cur'[v] = cur[v]
        BY <1>a, <2>8 DEF Defer, TypeOK
    <3>2. pc' = [pc EXCEPT ![w] = "defer"]
        BY <2>8 DEF Defer
    <3> QED
        BY <2>3, <3>1, <3>2
  <2>9. CASE RecordDelivered(w) \/ SendFailedDsn(w) \/ RecordDeferred(w)
             \/ Crash(w)
      BY <2>4, <2>9 DEF RecordDelivered, SendFailedDsn, RecordDeferred, Crash
  <2> QED
      BY <1>4, <2>1, <2>2, <2>5, <2>6, <2>7, <2>8, <2>9 DEF WorkerStep, OwnStep
<1>5. ASSUME UNCHANGED local PROVE pc[v] = "delivered" /\ cur'[v] = cur[v]
    BY <1>5
<1>6. ASSUME NEW j \in Jobs,
             \/ Enqueue(j) \/ RetryJob(j) \/ CancelJob(j)
             \/ SetMailboxActive(j) \/ DeleteMailbox(j)
      PROVE  UNCHANGED local
    BY <1>6 DEF Enqueue, RetryJob, CancelJob, SetMailboxActive, DeleteMailbox
<1> QED
    BY <1>1, <1>3, <1>4, <1>5, <1>6 DEF Next, Tick, vars

\* The invariant of the queue holds at the start.
LEMMA QueueInit == Init => QueueInv
<1> SUFFICES ASSUME Init PROVE QueueInv
    OBVIOUS
<1>1. DeliveredWasTaken
    BY DEF Init, DeliveredWasTaken
<1>2. ASSUME NEW j \in Jobs PROVE JobOK(j)
  <2>1. Writers(j) = {} /\ Carriers(j) = {} /\ Fresh(j) = {}
      BY DEF Init, Writers, Carriers, Fresh, WillWrite, Carries, CarriesFresh,
             Attempting
  <2>2. /\ obs[j].accepted = 0 /\ obs[j].reclaims = 0 /\ obs[j].lostAnswers = 0
        /\ obs[j].delayed = 0
      BY DEF Init
  <2> QED
      BY <2>1, <2>2, FS_EmptySet DEF JobOK, ClaimOK, TakenOK, NoticeOK, Doubts
<1> QED
    BY <1>1, <1>2, TypeInit DEF QueueInv

\* Every step keeps it.
LEMMA QueueStep == QueueInv /\ [Next]_vars => QueueInv'
<1> SUFFICES ASSUME QueueInv, [Next]_vars PROVE QueueInv'
    OBVIOUS
<1>1. TypeInv' /\ DeliveredWasTaken' /\ StepShape /\ TypeOK /\ TypeOK'
    BY TypeStep, DeliveredStep, StepShapes DEF QueueInv, TypeInv
<1>2. ASSUME NEW j \in Jobs PROVE JobOK(j)'
  <2>1. Still(j) \/ Happens(j)
        \/ \E w \in Workers : Claimed(j, w) \/ Reclaimed(j, w)
      BY <1>1 DEF StepShape
  <2> QED
      BY <1>1, <2>1, JobKeeps, ClaimKeeps DEF QueueInv
<1> QED
    BY <1>1, <1>2 DEF QueueInv

\* Until a claim expires it is exclusive, whatever the other workers and the
\* operator do.
THEOREM ClaimExclusive == Spec => []ClaimIsExclusive
<1>1. QueueInv => ClaimIsExclusive
    BY DEF QueueInv, JobOK, ClaimOK, Writers, ClaimIsExclusive
<1> QED
    BY <1>1, QueueInit, QueueStep, PTL DEF Spec

\* The delay notice goes out once, and once more for each claim taken over.
THEOREM DelayNoticeSentOnce == Spec => []DelayNoticeOnce
<1>1. QueueInv => DelayNoticeOnce
  <2> SUFFICES ASSUME QueueInv, NEW j \in Jobs
               PROVE  obs[j].delayed <= 1 + obs[j].reclaims
      BY DEF DelayNoticeOnce
  <2>1. NoticeOK(j) /\ TypeOK
      BY DEF QueueInv, JobOK, TypeInv
  <2>2. Cardinality(Fresh(j)) \in Nat
      BY WorkerCounts DEF Fresh
  <2> QED
      BY <2>1, <2>2, JobNumbers DEF NoticeOK
<1> QED
    BY <1>1, QueueInit, QueueStep, PTL DEF Spec

-----------------------------------------------------------------------------
(***************************************************************************)
(* The sender is told of a bounce                                          *)
(***************************************************************************)

\* A sender who never was without a mailbox has one.
SendersOK == \A j \in Jobs : j \notin away => sender[j] = "active"

\* Suspending and deleting are the only ways to lose it.
LEMMA SendersStep == TypeInv /\ SendersOK /\ [Next]_vars => SendersOK'
<1> SUFFICES ASSUME TypeInv, SendersOK, [Next]_vars PROVE SendersOK'
    OBVIOUS
<1> USE DEF rows, local
<1>1. ASSUME NEW j \in Jobs, SetMailboxActive(j) \/ DeleteMailbox(j)
      PROVE  SendersOK'
    BY <1>1 DEF SetMailboxActive, DeleteMailbox, SendersOK, TypeInv, TypeOK
<1>2. ASSUME UNCHANGED <<sender, away>> PROVE SendersOK'
    BY <1>2 DEF SendersOK
<1>3. ASSUME NEW w \in Workers, WorkerStep(w) \/ Crash(w)
      PROVE  UNCHANGED <<sender, away>>
  <2>1. CASE FetchNextReady(w) \/ BeginJob(w) \/ ReadBlobFails(w)
             \/ DeliverLocally(w) \/ RouteRemote(w) \/ TryHost(w)
      BY <2>1 DEF FetchNextReady, BeginJob, ReadBlobFails, DeliverLocally,
                  RouteRemote, TryHost
  <2>2. CASE RecordDelivered(w) \/ Bounce(w) \/ SendFailedDsn(w) \/ Defer(w)
             \/ RecordDeferred(w) \/ Crash(w)
      BY <2>2 DEF RecordDelivered, Bounce, SendFailedDsn, Defer,
                  RecordDeferred, Crash
  <2> QED
      BY <1>3, <2>1, <2>2 DEF WorkerStep, OwnStep
<1>4. ASSUME NEW j \in Jobs, Enqueue(j) \/ RetryJob(j) \/ CancelJob(j)
      PROVE  UNCHANGED <<sender, away>>
    BY <1>4 DEF Enqueue, RetryJob, CancelJob
<1>5. CASE Tick \/ UNCHANGED vars
    BY <1>2, <1>5 DEF Tick, vars
<1> QED
    BY <1>1, <1>2, <1>3, <1>4, <1>5 DEF Next

\* A bounce is written and told by the same worker, one after the other.
LEMMA ToldStep ==
    TypeInv /\ SendersOK /\ BouncedMeansTold /\ [Next]_vars
        => BouncedMeansTold'
<1> SUFFICES ASSUME TypeInv, SendersOK, BouncedMeansTold, [Next]_vars,
                    NEW j \in Jobs,
                    row'[j].status = "BOUNCED", faults' = 0, j \notin away'
             PROVE  \/ obs'[j].failed > 0
                    \/ \E w \in Workers : pc'[w] = "bounceDsn" /\ cur'[w].job = j
    BY DEF BouncedMeansTold
<1> DEFINE Goal == \/ obs'[j].failed > 0
                   \/ \E w \in Workers : pc'[w] = "bounceDsn" /\ cur'[w].job = j
<1> USE DEF rows, local
<1>a. /\ TypeOK /\ faults \in Nat /\ obs[j] \in Observation /\ row[j] \in Row
      /\ obs[j].failed \in Nat
    BY QueueAssumption DEF TypeInv, TypeOK, Observation
\* A step that bounces no row, tells nobody and leaves the workers about to
\* tell somebody alone.
<1>1. ASSUME row[j].status = "BOUNCED", faults = 0, j \notin away,
             obs'[j].failed = obs[j].failed,
             \A w \in Workers : pc[w] = "bounceDsn" =>
                 pc'[w] = "bounceDsn" /\ cur'[w].job = cur[w].job
      PROVE  Goal
    BY <1>1 DEF BouncedMeansTold
<1>2. ASSUME NEW w \in Workers, FetchNextReady(w) PROVE Goal
  <2>a. PICK S \in SUBSET Jobs :
            /\ row'[j] = IF j \in S
                         THEN [row[j] EXCEPT !.status = "SENDING",
                                             !.lockedUntil = now + Lease]
                         ELSE row[j]
            /\ obs'[j] = IF j \in S /\ row[j].status = "SENDING"
                         THEN [obs[j] EXCEPT !.reclaims = @ + 1]
                         ELSE obs[j]
      BY <1>2 DEF FetchNextReady
  <2>1. row[j].status = "BOUNCED" /\ obs'[j].failed = obs[j].failed
      BY <1>a, <2>a DEF Row, Observation
  <2> QED
      BY <1>1, <1>2, <2>1 DEF FetchNextReady
\* A worker that is not about to tell goes on with its job.
<1>3. ASSUME NEW w \in Workers, pc[w] # "bounceDsn", NEW p,
             pc' = [pc EXCEPT ![w] = p],
             \A v \in Workers \ {w} : cur'[v] = cur[v],
             row[j].status = "BOUNCED", faults = 0, UNCHANGED away,
             obs'[j].failed = obs[j].failed
      PROVE  Goal
    BY <1>1, <1>3, <1>a DEF TypeOK
<1>4. ASSUME NEW w \in Workers, BeginJob(w) PROVE Goal
    BY <1>3, <1>4, <1>a DEF BeginJob, TypeOK
<1>5. ASSUME NEW w \in Workers, ReadBlobFails(w) \/ RouteRemote(w) PROVE Goal
    BY <1>3, <1>5 DEF ReadBlobFails, RouteRemote, Fails
<1>6. ASSUME NEW w \in Workers, DeliverLocally(w) PROVE Goal
  <2>1. obs'[j].failed = obs[j].failed
      BY <1>6, <1>a DEF DeliverLocally, TypeOK, Observation
  <2> QED
      BY <1>3, <1>6, <2>1 DEF DeliverLocally, Fails
<1>7. ASSUME NEW w \in Workers, TryHost(w) PROVE Goal
  <2>1. obs'[j].failed = obs[j].failed
      BY <1>7, <1>a DEF TryHost, TypeOK, Observation
  <2>2. \E p : pc' = [pc EXCEPT ![w] = p]
      BY <1>7 DEF TryHost, HostFails
  <2> QED
      BY <1>3, <1>7, <2>1, <2>2 DEF TryHost
\* A row written back.
<1>8. ASSUME NEW w \in Workers, NEW status \in {"DELIVERED", "DEFERRED", "BOUNCED"},
             UpdateJob(w, status), cur[w] \in Copy
      PROVE  /\ faults = 0
             /\ \/ row[j].status = "BOUNCED"
                \/ status = "BOUNCED" /\ cur[w].job = j
  <2>1. faults = 0
      BY <1>8, <1>a DEF UpdateJob
  <2>2. \/ row' = [row EXCEPT ![cur[w].job] = Written(cur[w], status)]
        \/ row' = row
      BY <1>8, <1>a, UpdateRow DEF Status
  <2>3. CASE cur[w].job # j
      BY <1>a, <2>1, <2>2, <2>3 DEF TypeOK
  <2>4. CASE cur[w].job = j
    <3>1. row' = row \/ row'[j].status = status
      <4>1. Written(cur[w], status).status = status
          BY <1>a, <2>4 DEF Written, Row
      <4> QED
          BY <1>a, <2>2, <2>4, <4>1 DEF TypeOK
    <3> QED
        BY <2>1, <2>4, <3>1
  <2> QED
      BY <2>3, <2>4
<1>9. ASSUME NEW w \in Workers, RecordDelivered(w) \/ RecordDeferred(w) PROVE Goal
  <2>1. /\ pc[w] \in {"delivered", "defer"} /\ cur[w] \in Copy
        /\ \E status \in {"DELIVERED", "DEFERRED"} : UpdateJob(w, status)
        /\ Done(w) /\ UNCHANGED <<away, obs>>
      BY <1>9, <1>a DEF RecordDelivered, RecordDeferred, TypeOK
  <2>2. faults = 0 /\ row[j].status = "BOUNCED"
      BY <1>8, <2>1
  <2> QED
      BY <1>3, <1>a, <2>1, <2>2 DEF Done, TypeOK
<1>10. ASSUME NEW w \in Workers, Bounce(w) PROVE Goal
  <2>1. /\ cur[w] \in Copy /\ pc'[w] = "bounceDsn" /\ cur' = cur
        /\ UpdateJob(w, "BOUNCED")
      BY <1>10, <1>a DEF Bounce, TypeOK
  <2>2. CASE cur[w].job = j
      BY <2>1, <2>2
  <2>3. CASE cur[w].job # j
    <3>1. faults = 0 /\ row[j].status = "BOUNCED"
        BY <1>8, <2>1, <2>3
    <3> QED
        BY <1>3, <1>10, <3>1 DEF Bounce
  <2> QED
      BY <2>2, <2>3
<1>11. ASSUME NEW w \in Workers, SendFailedDsn(w) PROVE Goal
  <2>1. /\ cur[w].job \in Jobs /\ SendDsn(cur[w].job, "failed") /\ Done(w)
        /\ UNCHANGED <<row, away>> /\ pc[w] = "bounceDsn"
      BY <1>11, <1>a DEF SendFailedDsn, TypeOK, Copy
  <2>2. faults = 0 /\ row[j].status = "BOUNCED"
      BY <1>a, <2>1 DEF SendDsn
  <2>3. CASE cur[w].job = j
    <3>1. obs' = [obs EXCEPT ![j].failed = @ + 1]
        BY <1>a, <2>1, <2>2, <2>3 DEF SendDsn, SendersOK
    <3>2. obs'[j].failed = obs[j].failed + 1
        BY <1>a, <3>1 DEF TypeOK, Observation
    <3> QED
        BY <1>a, <3>2
  <2>4. CASE cur[w].job # j
    <3>1. obs'[j] = obs[j]
        BY <1>a, <2>1, <2>4 DEF SendDsn, TypeOK
    <3>2. \A v \in Workers \ {w} : pc'[v] = pc[v] /\ cur'[v] = cur[v]
        BY <1>a, <2>1 DEF Done, TypeOK
    <3>3. \/ obs[j].failed > 0
          \/ \E v \in Workers \ {w} : pc[v] = "bounceDsn" /\ cur[v].job = j
        BY <2>1, <2>2, <2>4 DEF BouncedMeansTold
    <3> QED
        BY <3>1, <3>2, <3>3
  <2> QED
      BY <2>3, <2>4
<1>12. ASSUME NEW w \in Workers, Defer(w) PROVE Goal
  <2>1. obs'[j].failed = obs[j].failed /\ faults = 0
      BY <1>12, <1>a DEF Defer, SendDsn, TypeOK, Observation
  <2>2. \A v \in Workers \ {w} : cur'[v] = cur[v]
      BY <1>12, <1>a DEF Defer, TypeOK
  <2> QED
      BY <1>3, <1>12, <2>1, <2>2 DEF Defer
<1>13. ASSUME NEW w \in Workers, Crash(w) PROVE Goal
    BY <1>13, <1>a DEF Crash
<1>14. ASSUME NEW k \in Jobs, Enqueue(k) \/ RetryJob(k) \/ CancelJob(k)
                              \/ SetMailboxActive(k) \/ DeleteMailbox(k)
       PROVE  Goal
  <2>a. row[j].status = "BOUNCED"
    <3>1. CASE Enqueue(k) \/ RetryJob(k) \/ CancelJob(k)
      <4>1. CASE k # j
          BY <3>1, <4>1, <1>a DEF Enqueue, RetryJob, CancelJob, TypeOK
      <4>2. CASE k = j
        <5>1. Retried(j).status = "QUEUED"
            BY <1>a DEF Retried, Row
        <5>2. row'[j].status \in {"QUEUED", "CANCELLED"}
            BY <3>1, <4>2, <5>1, <1>a
               DEF Enqueue, RetryJob, CancelJob, TypeOK, Row
        <5> QED
            BY <5>2
      <4> QED
          BY <4>1, <4>2
    <3>2. CASE SetMailboxActive(k) \/ DeleteMailbox(k)
        BY <3>2 DEF SetMailboxActive, DeleteMailbox
    <3> QED
        BY <1>14, <3>1, <3>2
  <2>b. j \notin away
      BY <1>14 DEF Enqueue, RetryJob, CancelJob, SetMailboxActive,
                   DeleteMailbox
  <2>1. row[j].status = "BOUNCED" /\ j \notin away
      BY <2>a, <2>b
  <2>2. UNCHANGED <<local, faults, obs>>
      BY <1>14 DEF Enqueue, RetryJob, CancelJob, SetMailboxActive, DeleteMailbox
  <2> QED
      BY <1>1, <2>1, <2>2
<1>15. CASE Tick \/ UNCHANGED vars
    BY <1>1, <1>15 DEF Tick, vars
<1> QED
    BY <1>2, <1>4, <1>5, <1>6, <1>7, <1>9, <1>10, <1>11, <1>12, <1>13, <1>14,
       <1>15 DEF Next, WorkerStep, OwnStep

\* Without a fault a bounced row means that a sender whose mailbox was there
\* and active all the time was told or is about to be.
THEOREM BounceIsTold == Spec => []BouncedMeansTold
<1>1. Init => BouncedMeansTold /\ SendersOK
    BY DEF Init, Absent, BouncedMeansTold, SendersOK
<1> QED
    BY <1>1, TypeInit, TypeStep, SendersStep, ToldStep, PTL DEF Spec

-----------------------------------------------------------------------------
(***************************************************************************)
(* The queue implements JobLife                                            *)
(***************************************************************************)

\* What JobLife sees of a job does not change.
SameLife(j) ==
    /\ StateOf(j)' = StateOf(j)
    /\ obs'[j].accepted = obs[j].accepted
    /\ Doubts(j)' = Doubts(j)

\* Each status is seen as one state.
StateSeen(status) ==
    CASE status = "ABSENT"    -> "absent"
      [] status \in {"QUEUED", "SENDING", "DEFERRED"} -> "open"
      [] status = "DELIVERED" -> "delivered"
      [] status = "BOUNCED"   -> "bounced"
      [] status = "CANCELLED" -> "cancelled"

\* The state of a job in JobLife, as a function of the status of its row.
LEMMA StateSeenOf == \A j \in Jobs : StateOf(j) = StateSeen(row[j].status)
BY DEF StateOf, Open, StateSeen

\* Every step of the queue is one of JobLife, or one JobLife does not see.
LEMMA LifeStep ==
    QueueInv /\ [Next]_vars => [Life!Next]_(Life!vars)
<1> SUFFICES ASSUME QueueInv, [Next]_vars
             PROVE  Life!Next \/ UNCHANGED Life!vars
    OBVIOUS
<1>a. TypeOK /\ TypeOK' /\ StepShape /\ \A j \in Jobs : JobOK(j)
    BY StepShapes, TypeStep DEF QueueInv, TypeInv
<1>b. \A j \in Jobs :
          /\ StateOf(j) = StateSeen(row[j].status)
          /\ StateOf(j)' = StateSeen(row'[j].status)
    BY StateSeenOf DEF StateOf, Open, StateSeen
<1>c. \A j \in Jobs : row[j].status \in Status /\ row'[j].status \in Status
    BY <1>a DEF TypeOK, Row
<1>d. ASSUME NEW j \in Jobs, Still(j) PROVE SameLife(j)
    BY <1>b, <1>d DEF Still, SameLife, Counts, Doubts
<1>e. ASSUME \A j \in Jobs : SameLife(j) PROVE UNCHANGED Life!vars
    BY <1>e DEF Life!vars, SameLife, Doubts
<1>1. CASE \A j \in Jobs : Still(j)
    BY <1>1, <1>d, <1>e
<1>2. ASSUME NEW w \in Workers,
             \A j \in Jobs : Still(j) \/ Claimed(j, w) \/ Reclaimed(j, w)
      PROVE  Life!Next
  <2>a. \E T \in SUBSET Jobs : T = {j \in Jobs : Reclaimed(j, w)}
      OBVIOUS
  <2>b. PICK S \in SUBSET Jobs : S = {j \in Jobs : Reclaimed(j, w)}
      BY <2>a
  <2>1. ASSUME NEW j \in Jobs \ S PROVE SameLife(j)
    <3>1. CASE Still(j)
        BY <1>d, <3>1
    <3>2. CASE Claimed(j, w)
        BY <1>b, <3>2 DEF Claimed, SameLife, Counts, Doubts, StateSeen
    <3> QED
        BY <1>2, <2>b, <3>1, <3>2
  <2>2. ASSUME NEW j \in S
        PROVE  /\ StateOf(j) = "open" /\ StateOf(j)' = "open"
               /\ obs'[j].accepted = obs[j].accepted
               /\ Doubts(j)' = Doubts(j) + 1
    <3>1. j \in Jobs /\ Reclaimed(j, w)
        BY <2>b
    <3>2. obs[j] \in Observation
        BY <1>a, <3>1 DEF TypeOK
    <3>3. /\ obs'[j].accepted = obs[j].accepted
          /\ obs'[j].reclaims = obs[j].reclaims + 1
          /\ obs'[j].lostAnswers = obs[j].lostAnswers
        BY <3>1, <3>2 DEF Reclaimed, Observation
    <3>4. StateOf(j) = "open" /\ StateOf(j)' = "open"
        BY <1>b, <3>1 DEF Reclaimed, StateSeen
    <3>5. obs[j].reclaims \in Nat /\ obs[j].lostAnswers \in Nat
        BY <3>2 DEF Observation
    <3> QED
        BY <3>3, <3>4, <3>5 DEF Doubts
  <2>3. \A j \in Jobs :
            /\ StateOf(j)' = StateOf(j)
            /\ obs'[j].accepted = obs[j].accepted
            /\ Doubts(j)' = IF j \in S THEN Doubts(j) + 1 ELSE Doubts(j)
      BY <2>1, <2>2 DEF SameLife
  <2>4. S \in SUBSET Jobs /\ \A j \in S : StateOf(j) = "open"
      BY <2>2
  <2>5. Life!LoseTrack(S)
      BY <2>3, <2>4 DEF Life!LoseTrack, Doubts
  <2> QED
      BY <2>4, <2>5 DEF Life!Next
<1>3. ASSUME NEW k \in Jobs, Happens(k), \A j \in Jobs \ {k} : Still(j)
      PROVE  Life!Next \/ UNCHANGED Life!vars
  <2>a. \A j \in Jobs \ {k} : SameLife(j)
      BY <1>3, <1>d
  <2>b. SameLife(k) => UNCHANGED Life!vars
      BY <1>e, <2>a
  <2>c. /\ obs[k] \in Observation /\ obs[k].accepted \in Nat
        /\ obs[k].reclaims \in Nat /\ obs[k].lostAnswers \in Nat
        /\ Cardinality(Carriers(k)) \in Nat
      BY <1>a, WorkerCounts DEF TypeOK, Observation, Carriers
  \* The job's state alone changes.
  <2>d. ASSUME Counts(k)' = Counts(k), NEW v, StateOf(k)' = v
        PROVE  /\ [j \in Jobs |-> StateOf(j)]' =
                      [[j \in Jobs |-> StateOf(j)] EXCEPT ![k] = v]
               /\ [j \in Jobs |-> obs[j].accepted]' =
                      [j \in Jobs |-> obs[j].accepted]
               /\ [j \in Jobs |-> obs[j].reclaims + obs[j].lostAnswers]' =
                      [j \in Jobs |-> obs[j].reclaims + obs[j].lostAnswers]
      BY <2>a, <2>d DEF SameLife, Counts, Doubts
  <2>e. obs[k].reclaims + obs[k].lostAnswers = 0 /\ Waiting(k)
            => obs[k].accepted = 0
      BY <1>a, <2>c DEF JobOK, TakenOK, Doubts
  <2>1. CASE Changed(k)
    <3>a. Counts(k)' = Counts(k)
        BY <2>1 DEF Changed
    <3>1. CASE row[k].status = "ABSENT" /\ row'[k].status = "QUEUED"
      <4>1. StateOf(k) = "absent" /\ StateOf(k)' = "open"
          BY <1>b, <3>1 DEF StateSeen
      <4>2. Life!Submit(k)
          BY <2>d, <3>a, <4>1 DEF Life!Submit
      <4> QED
          BY <4>2 DEF Life!Next
    <3>2. CASE row[k].status = "DEFERRED" /\ row'[k].status = "QUEUED"
        BY <1>b, <2>b, <3>2, <3>a DEF StateSeen, SameLife, Counts, Doubts
    <3>3. CASE row[k].status = "BOUNCED" /\ row'[k].status = "QUEUED"
      <4>1. StateOf(k) = "bounced" /\ StateOf(k)' = "open"
          BY <1>b, <3>3 DEF StateSeen
      <4>2. Life!Retry(k)
          BY <2>d, <3>a, <4>1 DEF Life!Retry
      <4> QED
          BY <4>2 DEF Life!Next
    <3>4. CASE row[k].status \in Cancellable /\ row'[k].status = "CANCELLED"
      <4>1. StateOf(k) = "open" /\ StateOf(k)' = "cancelled" /\ Waiting(k)
          BY <1>b, <3>4 DEF StateSeen, Cancellable, Waiting
      <4>2. Life!Settle(k, "cancelled")
          BY <2>d, <2>e, <3>a, <4>1 DEF Life!Settle
      <4> QED
          BY <4>2 DEF Life!Next, Life!Settled
    <3> QED
        BY <2>1, <3>1, <3>2, <3>3, <3>4 DEF Changed, Retriable
  <2>2. ASSUME NEW w \in Workers, Noticed(k, w) PROVE UNCHANGED Life!vars
    <3>1. SameLife(k)
        BY <1>b, <2>2, <2>c DEF Noticed, SameLife, Doubts, Observation
    <3> QED
        BY <2>b, <3>1
  \* A worker with a copy to write has an open row, or the queue is in doubt.
  <2>f. ASSUME Writers(k) # {}, StateOf(k) # "open"
        PROVE  /\ StateOf(k) \in {"delivered", "bounced", "cancelled"}
               /\ obs[k].reclaims + obs[k].lostAnswers > 0
    <3>1. row[k].status \notin {"ABSENT", "QUEUED", "SENDING", "DEFERRED"}
        BY <1>a, <1>b, <2>f DEF JobOK, ClaimOK, StateSeen
    <3>2. obs[k].reclaims # 0
        BY <1>a, <2>f, <3>1 DEF JobOK, ClaimOK
    <3> QED
        BY <1>b, <1>c, <2>c, <3>1, <3>2 DEF StateSeen, Status
  <2>3. ASSUME NEW w \in Workers, Accepted(k, w) PROVE Life!Next
    <3>1. PICK d \in {0, 1} :
              /\ obs'[k].accepted = obs[k].accepted + 1
              /\ obs'[k].reclaims + obs'[k].lostAnswers
                     = obs[k].reclaims + obs[k].lostAnswers + d
      <4>1. CASE obs'[k] = [obs[k] EXCEPT !.accepted = @ + 1]
        <5>1. /\ obs'[k].accepted = obs[k].accepted + 1
              /\ obs'[k].reclaims + obs'[k].lostAnswers
                     = obs[k].reclaims + obs[k].lostAnswers + 0
            BY <2>c, <4>1 DEF Observation
        <5> QED
            BY <5>1
      <4>2. CASE obs'[k] = [obs[k] EXCEPT !.accepted = @ + 1,
                                          !.lostAnswers = @ + 1]
        <5>1. /\ obs'[k].accepted = obs[k].accepted + 1
              /\ obs'[k].reclaims + obs'[k].lostAnswers
                     = obs[k].reclaims + obs[k].lostAnswers + 1
            BY <2>c, <4>2 DEF Observation
        <5> QED
            BY <5>1
      <4> QED
          BY <2>3, <4>1, <4>2 DEF Accepted
    <3>2. StateOf(k)' = StateOf(k)
        BY <1>b, <2>3 DEF Accepted
    <3>3. obs[k].accepted <= obs[k].reclaims + obs[k].lostAnswers
      <4>1. Cardinality(Carriers(k)) # 0
          BY <2>3, QueueAssumption, FS_Subset, FS_EmptySet DEF Accepted, Carriers
      <4> QED
          BY <1>a, <2>c, <4>1 DEF JobOK, TakenOK, Doubts
    <3>4. StateOf(k) = "open" \/ obs[k].reclaims + obs[k].lostAnswers > 0
        BY <2>3, <2>f DEF Accepted
    <3>5. Life!Take(k)
        BY <2>a, <3>1, <3>2, <3>3, <3>4 DEF Life!Take, SameLife, Doubts
    <3> QED
        BY <3>5 DEF Life!Next
  <2>4. ASSUME NEW w \in Workers, WroteBack(k, w)
        PROVE  Life!Next \/ UNCHANGED Life!vars
    <3>a. Counts(k)' = Counts(k) /\ Writers(k) # {}
        BY <2>4 DEF WroteBack
    <3>1. StateOf(k)' \in {"open", "delivered", "bounced"}
        BY <1>b, <2>4 DEF WroteBack, StateSeen
    <3>2. CASE StateOf(k) # "open"
      <4>1. Life!Overwrite(k)
          BY <2>d, <2>f, <3>1, <3>2, <3>a DEF Life!Overwrite, Life!Settled
      <4> QED
          BY <4>1 DEF Life!Next
    <3>3. CASE StateOf(k) = "open" /\ StateOf(k)' = "open"
        BY <2>b, <3>3, <3>a DEF SameLife, Counts, Doubts
    <3>4. CASE StateOf(k) = "open" /\ StateOf(k)' = "delivered"
      <4>1. obs[k].accepted > 0
          BY <1>b, <2>4, <3>4 DEF WroteBack, StateSeen
      <4>2. Life!Settle(k, "delivered")
          BY <2>d, <3>4, <3>a, <4>1 DEF Life!Settle
      <4> QED
          BY <4>2 DEF Life!Next, Life!Settled
    <3>5. CASE StateOf(k) = "open" /\ StateOf(k)' = "bounced"
      <4>1. w \in Carriers(k)
          BY <1>b, <2>4, <3>5 DEF WroteBack, StateSeen
      <4>2. Cardinality(Carriers(k)) # 0
          BY <4>1, QueueAssumption, FS_Subset, FS_EmptySet DEF Carriers
      <4>3. obs[k].reclaims + obs[k].lostAnswers = 0 => obs[k].accepted = 0
          BY <1>a, <2>c, <4>2 DEF JobOK, TakenOK, Doubts
      <4>4. Life!Settle(k, "bounced")
          BY <2>c, <2>d, <3>5, <3>a, <4>3 DEF Life!Settle
      <4> QED
          BY <4>4 DEF Life!Next, Life!Settled
    <3> QED
        BY <3>1, <3>2, <3>3, <3>4, <3>5
  <2> QED
      BY <1>3, <2>1, <2>2, <2>3, <2>4 DEF Happens
<1> QED
    BY <1>a, <1>1, <1>2, <1>3 DEF StepShape

\* The queue implements JobLife: a job is settled as it was taken or not, and
\* is taken twice only for each claim taken over and each answer lost.
THEOREM QueueImplementsJobLife == Spec => ImplementsJobLife
<1>1. Init => Life!Init
    BY DEF Init, Absent, Life!Init, StateOf, Open
<1> QED
    BY <1>1, QueueInit, QueueStep, LifeStep, PTL
       DEF Spec, ImplementsJobLife, Life!Spec

-----------------------------------------------------------------------------
(***************************************************************************)
(* The queue with the transport security policy in front of every host.    *)
(***************************************************************************)

\* A host passed over because its policy cannot be had, or is not met, is a
\* host that fails: every step of the detailed queue is a step of the queue
\* or changes nothing of it.
LEMMA SecureStep == [SecureNext]_secureVars => [Next]_vars
<1> SUFFICES ASSUME [SecureNext]_secureVars PROVE [Next]_vars
    OBVIOUS
<1>1. CASE UNCHANGED secureVars
    BY <1>1 DEF secureVars
<1>2. ASSUME NEW w \in Workers, SecureWorkerStep(w) \/ CrashSecure(w)
      PROVE  [Next]_vars
  <2>1. ASSUME pc[w] = "smtp", HostFails(w, "temporary"),
               UNCHANGED <<now, rows, batch, cur, faults, admin, obs>>
        PROVE  Next
    <3>1. TryHost(w)
        BY <2>1 DEF TryHost
    <3> QED
        BY <3>1 DEF WorkerStep, Next
  <2>2. CASE ResolveFails(w)
      BY <2>1, <2>2 DEF ResolveFails, AtHost
  <2>3. CASE RefuseHost(w)
      BY <2>1, <2>3 DEF RefuseHost
  <2>4. CASE ResolveDane(w) \/ ResolveCached(w) \/ ResolveFetched(w)
      BY <2>4 DEF ResolveDane, ResolveCached, ResolveFetched
  <2>5. CASE DeliverToMX(w)
      BY <2>5 DEF DeliverToMX, WorkerStep, Next
  <2>6. CASE pc[w] # "smtp" /\ WorkerStep(w) /\ UNCHANGED tls
      BY <2>6 DEF Next
  <2>7. CASE CrashSecure(w)
      BY <2>7 DEF CrashSecure, Next
  <2> QED
      BY <1>2, <2>2, <2>3, <2>4, <2>5, <2>6, <2>7 DEF SecureWorkerStep
<1>3. ASSUME NEW j \in Jobs,
             \/ Enqueue(j) \/ RetryJob(j) \/ CancelJob(j)
             \/ SetMailboxActive(j) \/ DeleteMailbox(j)
      PROVE  [Next]_vars
    BY <1>3 DEF Next
<1>4. CASE ChangeSite
    BY <1>4 DEF ChangeSite
<1>5. CASE SecureTick
    BY <1>5 DEF SecureTick, Next
<1> QED
    BY <1>1, <1>2, <1>3, <1>4, <1>5 DEF SecureNext

\* The queue with transport policies implements the queue: whatever DANE and
\* MTA-STS refuse, resolve late or fail to fetch, OutboundQueue already allows.
THEOREM SecureImplementsQueue == SecureSpec => Spec
<1>1. SecureInit => Init
    BY DEF SecureInit
<1> QED
    BY <1>1, SecureStep, PTL DEF SecureSpec, Spec

\* So claims are exclusive, bounces told and delays told once there too, and
\* no message is taken twice but for a claim that ran out or a lost answer.
THEOREM SecureKeepsQueuePromises ==
    SecureSpec => /\ [](ClaimIsExclusive /\ DelayNoticeOnce /\ BouncedMeansTold)
                  /\ ImplementsJobLife
BY SecureImplementsQueue, ClaimExclusive, DelayNoticeSentOnce, BounceIsTold,
   QueueImplementsJobLife, PTL

-----------------------------------------------------------------------------
Entry == [holds: {"nothing", "absent", "policy"}, enforce: BOOLEAN,
          mx: SUBSET Nat, until: Nat]

SecureTypes ==
    /\ site \in Sites
    /\ cache \in Entry
    /\ policy = [w \in Workers |-> policy[w]]
    /\ noticeBy \in Nat /\ pinnedBy \in Nat
    /\ cache.holds = "absent" => ~cache.enforce

\* What the cache holds runs out no later than the age its answer has in the
\* destination as it is, or by noticeBy when the destination has changed.
BelievedLong ==
    /\ cache.holds = "absent" =>
         cache.until <= now + AbsentFor \/ cache.until <= noticeBy
    /\ cache.holds = "policy" =>
         cache.until <= now + Kept \/ cache.until <= noticeBy

\* An entry that hides a demand runs out by noticeBy.
HidesUntil ==
    site.sts = "enforce" /\ cache.holds # "nothing" /\ ~cache.enforce
        => cache.until <= noticeBy

\* An entry that enforces runs out by pinnedBy once the demand is withdrawn,
\* and until then within what the file says.
PinsUntil ==
    cache.holds = "policy" /\ cache.enforce =>
        \/ cache.until <= pinnedBy
        \/ site.sts = "enforce" /\ cache.until <= now + Kept

CacheInv == SecureTypes /\ BelievedLong /\ HidesUntil /\ PinsUntil

\* The larger of two, and of three, times.
LEMMA MaxOfTimes ==
    /\ \A a, b \in Nat : /\ Max({a, b}) \in Nat
                         /\ a <= Max({a, b}) /\ b <= Max({a, b})
    /\ \A a, b, c \in Nat : /\ Max({a, b, c}) \in Nat
                            /\ a <= Max({a, b, c})
                            /\ b <= Max({a, b, c}) /\ c <= Max({a, b, c})
<1>1. ASSUME NEW S, S \subseteq Nat,
             \E x \in S : \A y \in S : x >= y
      PROVE  Max(S) \in S /\ \A y \in S : Max(S) >= y
    BY <1>1 DEF Max
<1>2. ASSUME NEW a \in Nat, NEW b \in Nat
      PROVE  \E x \in {a, b} : \A y \in {a, b} : x >= y
    OBVIOUS
<1>3. ASSUME NEW a \in Nat, NEW b \in Nat, NEW c \in Nat
      PROVE  \E x \in {a, b, c} : \A y \in {a, b, c} : x >= y
    OBVIOUS
<1>4. ASSUME NEW a \in Nat, NEW b \in Nat
      PROVE  Max({a, b}) \in {a, b} /\ \A y \in {a, b} : Max({a, b}) >= y
    BY <1>1, <1>2
<1>5. ASSUME NEW a \in Nat, NEW b \in Nat, NEW c \in Nat
      PROVE  Max({a, b, c}) \in {a, b, c}
             /\ \A y \in {a, b, c} : Max({a, b, c}) >= y
    BY <1>1, <1>3
<1> QED
    BY <1>4, <1>5

\* A max_age is believed no longer than Kept says, whatever the file holds.
LEMMA AgeIsKept ==
    ASSUME site \in Sites
    PROVE  /\ Kept \in Nat
           /\ EffectiveAge(site.age) \in Nat
           /\ site.sts # "none" => EffectiveAge(site.age) <= Kept
<1>1. site.age \in Nat /\ site.sts \in {"none", "testing", "enforce"}
    BY SecureAssumption DEF Site
<1>2. /\ AgeCap \in Nat /\ DefaultAge \in Nat /\ AgeCap >= DefaultAge
    BY SecureAssumption
<1>3. ASSUME NEW a \in Nat, NEW b \in Nat
      PROVE  Min({a, b}) = IF a <= b THEN a ELSE b
  <2>1. \E x \in {a, b} : \A y \in {a, b} : x =< y
      OBVIOUS
  <2>2. Min({a, b}) \in {a, b} /\ \A y \in {a, b} : Min({a, b}) =< y
      BY <2>1 DEF Min
  <2> QED
      BY <2>2
<1>4. Min({site.age, AgeCap}) = IF site.age <= AgeCap THEN site.age ELSE AgeCap
    BY <1>1, <1>2, <1>3
<1>5. CASE site.sts = "none"
    BY <1>1, <1>2, <1>5 DEF Kept, EffectiveAge
<1>6. CASE site.sts # "none" /\ site.age = 0
    BY <1>1, <1>2, <1>6 DEF Kept, EffectiveAge
<1>7. CASE site.sts # "none" /\ site.age # 0
  <2>1. Kept = Min({site.age, AgeCap})
      BY <1>7 DEF Kept
  <2> QED
      BY <1>1, <1>2, <1>4, <1>7, <2>1 DEF EffectiveAge
<1> QED
    BY <1>5, <1>6, <1>7

\* The clock only rises.
LEMMA ClockRises ==
    ASSUME TypeOK, TypeOK', [Next]_vars
    PROVE  now \in Nat /\ now' \in Nat /\ now <= now'
<1>1. now \in Nat /\ now' \in Nat
    BY DEF TypeOK
<1>2. CASE Tick
    BY <1>1, <1>2 DEF Tick
<1>3. CASE UNCHANGED vars
    BY <1>1, <1>3 DEF vars
<1>4. ASSUME NEW w \in Workers, WorkerStep(w) \/ Crash(w)
      PROVE  now' = now
  <2>1. CASE FetchNextReady(w)
      BY <2>1, Zenon DEF FetchNextReady
  <2>6. CASE BeginJob(w) \/ Crash(w)
      BY <2>6 DEF BeginJob, Crash
  <2>2. CASE ReadBlobFails(w) \/ DeliverLocally(w) \/ RouteRemote(w)
      BY <2>2 DEF ReadBlobFails, DeliverLocally, RouteRemote
  <2>3. CASE TryHost(w)
      BY <2>3 DEF TryHost
  <2>4. CASE RecordDelivered(w) \/ RecordDeferred(w)
      BY <2>4 DEF RecordDelivered, RecordDeferred
  <2>5. CASE Bounce(w) \/ SendFailedDsn(w) \/ Defer(w)
      BY <2>5 DEF Bounce, SendFailedDsn, Defer
  <2> QED
      BY <1>4, <2>1, <2>2, <2>3, <2>4, <2>5, <2>6 DEF WorkerStep, OwnStep
<1>5. ASSUME NEW j \in Jobs,
             \/ Enqueue(j) \/ RetryJob(j) \/ CancelJob(j)
             \/ SetMailboxActive(j) \/ DeleteMailbox(j)
      PROVE  now' = now
    BY <1>5 DEF Enqueue, RetryJob, CancelJob, SetMailboxActive, DeleteMailbox
<1> QED
    BY <1>1, <1>2, <1>3, <1>4, <1>5 DEF Next

\* The kinds of step that matter to the cache: it is left alone or emptied,
\* with a worker done with its host or none; a policy is resolved, from
\* elsewhere, from the cache or by fetching; the destination changes.
Keeps ==
    /\ UNCHANGED <<site, noticeBy, pinnedBy>>
    /\ cache' \in {cache, NoEntry}
    /\ policy' = policy
       \/ \E w \in Workers : policy' = [policy EXCEPT ![w] = Unresolved]

ResolveKinds(w) == ResolveDane(w) \/ ResolveCached(w) \/ ResolveFetched(w)

\* Every step is one of them.
LEMMA SecureShapes ==
    ASSUME [SecureNext]_secureVars
    PROVE  Keeps \/ ChangeSite \/ \E w \in Workers : ResolveKinds(w)
<1>1. CASE UNCHANGED secureVars
    BY <1>1 DEF secureVars, tls, Keeps
<1>2. ASSUME NEW w \in Workers, SecureWorkerStep(w) \/ CrashSecure(w)
      PROVE  Keeps \/ ResolveKinds(w)
    BY <1>2 DEF SecureWorkerStep, CrashSecure, ResolveFails, RefuseHost,
       DeliverToMX, Resolves, tls, Keeps, ResolveKinds
<1>3. CASE UNCHANGED tls
    BY <1>3 DEF tls, Keeps
<1> QED
    BY <1>1, <1>2, <1>3 DEF SecureNext, SecureTick

\* What fetching puts in the cache.
LEMMA FetchedEntry ==
    ASSUME site \in Sites, now \in Nat, NEW reached \in BOOLEAN
    PROVE  /\ Fetched(reached) \in Entry
           /\ Fetched(reached).holds # "nothing"
           /\ Fetched(reached).holds = "absent" =>
                /\ Fetched(reached).until = now + AbsentFor
                /\ ~Fetched(reached).enforce
                /\ ~reached \/ site.sts = "none"
           /\ Fetched(reached).holds = "policy" =>
                /\ Fetched(reached).until <= now + Kept
                /\ Fetched(reached).enforce <=> site.sts = "enforce"
<1>1. site.mx \in SUBSET Nat
    BY SecureAssumption DEF Site
<1>2. AbsentFor \in Nat
    BY SecureAssumption
<1>3. CASE reached /\ site.sts # "none"
  <2>1. now + EffectiveAge(site.age) \in Nat
        /\ now + EffectiveAge(site.age) <= now + Kept
      BY <1>3, AgeIsKept
  <2> QED
      BY <1>1, <1>3, <2>1 DEF Fetched, Entry
<1>4. CASE ~(reached /\ site.sts # "none")
  <2>1. Fetched(reached) = [holds |-> "absent", enforce |-> FALSE, mx |-> {},
                            until |-> now + AbsentFor]
      BY <1>4 DEF Fetched, NoEntry
  <2> QED
      BY <1>2, <1>4, <2>1 DEF Entry
<1> QED
    BY <1>3, <1>4

\* No step leaves an entry that is believed too long.
LEMMA CacheStep ==
    ASSUME TypeOK, TypeOK', CacheInv, [SecureNext]_secureVars
    PROVE  CacheInv'
<1> USE DEF CacheInv
<1>1. now \in Nat /\ now' \in Nat /\ now <= now'
    BY SecureStep, ClockRises
<1>2. /\ cache \in Entry /\ cache.until \in Nat /\ cache.enforce \in BOOLEAN
      /\ site \in Sites /\ noticeBy \in Nat /\ pinnedBy \in Nat
      /\ AbsentFor \in Nat /\ Kept \in Nat
    BY AgeIsKept, SecureAssumption DEF SecureTypes, Entry
<1>3. NoEntry \in Entry /\ NoEntry.holds = "nothing"
    BY DEF NoEntry, Entry
<1>4. CASE Keeps
  <2>1. SecureTypes'
    <3>1. policy' = [w \in Workers |-> policy'[w]]
        BY <1>4 DEF Keeps, SecureTypes
    <3> QED
        BY <1>2, <1>3, <1>4, <3>1 DEF Keeps, SecureTypes
  <2>2. Kept' = Kept
      BY <1>4 DEF Keeps, Kept
  <2>3. CASE cache' = NoEntry
      BY <1>3, <2>1, <2>3 DEF BelievedLong, HidesUntil, PinsUntil
  <2>4. CASE cache' = cache
    <3>1. BelievedLong'
        BY <1>1, <1>2, <1>4, <2>2, <2>4 DEF BelievedLong, Keeps
    <3>2. HidesUntil'
        BY <1>4, <2>4 DEF HidesUntil, Keeps
    <3>3. PinsUntil'
        BY <1>1, <1>2, <1>4, <2>2, <2>4 DEF PinsUntil, Keeps
    <3> QED
        BY <2>1, <3>1, <3>2, <3>3
  <2> QED
      BY <1>4, <2>3, <2>4 DEF Keeps
<1>5. CASE ChangeSite
  <2>1. /\ noticeBy' \in Nat /\ noticeBy <= noticeBy'
        /\ now + AbsentFor <= noticeBy' /\ now + Kept <= noticeBy'
    <3>1. now + AbsentFor \in Nat /\ now + Kept \in Nat
        BY <1>1, <1>2
    <3> QED
        BY <1>2, <1>5, <3>1, MaxOfTimes DEF ChangeSite
  <2>2. /\ pinnedBy' \in Nat /\ pinnedBy <= pinnedBy'
        /\ site.sts = "enforce" => now + Kept <= pinnedBy'
    <3>1. now + Kept \in Nat
        BY <1>1, <1>2
    <3> QED
        BY <1>2, <1>5, <3>1, MaxOfTimes DEF ChangeSite
  <2>3. site' \in Sites /\ cache' = cache /\ policy' = policy
      BY <1>5 DEF ChangeSite
  <2>4. SecureTypes'
      BY <1>2, <2>1, <2>2, <2>3 DEF SecureTypes
  <2>5. cache.holds # "nothing" => cache.until <= noticeBy'
      BY <1>1, <1>2, <2>1 DEF BelievedLong, Entry
  <2>6. cache.holds = "policy" /\ cache.enforce => cache.until <= pinnedBy'
      BY <1>1, <1>2, <2>2 DEF PinsUntil
  <2> QED
      BY <2>3, <2>4, <2>5, <2>6 DEF BelievedLong, HidesUntil, PinsUntil
<1>6. ASSUME NEW w \in Workers, ResolveDane(w) \/ ResolveCached(w)
      PROVE  CacheInv'
  <2>1. UNCHANGED <<now, site, cache, noticeBy, pinnedBy>>
      BY <1>6 DEF ResolveDane, ResolveCached, vars
  <2>2. policy' = [v \in Workers |-> policy'[v]]
      BY <1>6 DEF ResolveDane, ResolveCached, Resolves, SecureTypes
  <2>3. Kept' = Kept
      BY <2>1 DEF Kept
  <2> QED
      BY <2>1, <2>2, <2>3 DEF SecureTypes, BelievedLong, HidesUntil, PinsUntil
<1>7. ASSUME NEW w \in Workers, ResolveFetched(w)
      PROVE  CacheInv'
  <2>1. PICK reached \in BOOLEAN :
              /\ cache' = Fetched(reached)
              /\ \/ reached /\ UNCHANGED noticeBy
                 \/ ~reached /\ noticeBy' = Max({noticeBy, now + AbsentFor})
      BY <1>7 DEF ResolveFetched
  <2>2. UNCHANGED <<now, site, pinnedBy>>
      BY <1>7 DEF ResolveFetched, vars
  <2>3. policy' = [v \in Workers |-> policy'[v]]
      BY <1>7 DEF ResolveFetched, Resolves, SecureTypes
  <2>4. Kept' = Kept
      BY <2>2 DEF Kept
  <2>5. /\ noticeBy' \in Nat
        /\ ~reached => now + AbsentFor <= noticeBy'
    <3>1. now + AbsentFor \in Nat
        BY <1>1, <1>2
    <3> QED
        BY <1>2, <2>1, <3>1, MaxOfTimes
  <2> DEFINE e == Fetched(reached)
  <2>6. /\ e \in Entry
        /\ e.holds # "nothing"
        /\ e.holds = "absent" => /\ e.until = now + AbsentFor
                                 /\ ~e.enforce
                                 /\ ~reached \/ site.sts = "none"
        /\ e.holds = "policy" => /\ e.until <= now + Kept
                                 /\ e.enforce <=> site.sts = "enforce"
      BY <1>1, <1>2, FetchedEntry
  <2>7. cache' = e
      BY <2>1
  <2> HIDE DEF e
  <2>8. SecureTypes'
      BY <1>2, <2>2, <2>3, <2>5, <2>6, <2>7 DEF SecureTypes
  <2>9. BelievedLong'
    <3>1. e.until <= now + AbsentFor \/ e.holds # "absent"
        BY <1>1, <1>2, <2>6
    <3> QED
        BY <2>2, <2>4, <2>6, <2>7, <3>1 DEF BelievedLong
  <2>10. HidesUntil'
    <3> SUFFICES ASSUME site.sts = "enforce", ~e.enforce
                 PROVE  e.until <= noticeBy'
        BY <2>2, <2>7 DEF HidesUntil
    <3>1. e.holds = "absent"
        BY <2>6 DEF Entry
    <3> QED
        BY <2>5, <2>6, <3>1
  <2>11. PinsUntil'
      BY <2>2, <2>4, <2>6, <2>7 DEF PinsUntil
  <2> QED
      BY <2>8, <2>9, <2>10, <2>11
<1> QED
    BY <1>4, <1>5, <1>6, <1>7, SecureShapes DEF ResolveKinds

\* Nothing is in the cache at the start.
LEMMA CacheInit == SecureInit => CacheInv
BY DEF SecureInit, CacheInv, SecureTypes, BelievedLong, HidesUntil, PinsUntil,
   NoEntry, Entry

\* The types and what the cache believes, together.
LEMMA SecureInvariant == SecureSpec => [](TypeInv /\ CacheInv)
<1>1. SecureInit => TypeInv /\ CacheInv
    BY TypeInit, CacheInit DEF SecureInit
<1>2. TypeInv /\ CacheInv /\ [SecureNext]_secureVars => (TypeInv /\ CacheInv)'
  <2> SUFFICES ASSUME TypeInv, CacheInv, [SecureNext]_secureVars
               PROVE  TypeInv' /\ CacheInv'
      OBVIOUS
  <2>1. TypeInv'
      BY SecureStep, TypeStep
  <2> QED
      BY <2>1, CacheStep DEF TypeInv
<1> QED
    BY <1>1, <1>2, PTL DEF SecureSpec

\* What a worker's policy becomes in a step that resolves it.
LEMMA ResolvedPolicy ==
    ASSUME CacheInv, [SecureNext]_secureVars, NEW v \in Workers, Resolved(v)
    PROVE  ResolveKinds(v)
<1>1. CASE Keeps
    BY <1>1 DEF Keeps, Resolved, CacheInv, SecureTypes
<1>2. CASE ChangeSite
    BY <1>2 DEF ChangeSite, Resolved
<1>3. ASSUME NEW w \in Workers, ResolveKinds(w)
      PROVE  w = v
    BY <1>3 DEF ResolveKinds, ResolveDane, ResolveCached, ResolveFetched,
       Resolves, Resolved, CacheInv, SecureTypes
<1> QED
    BY <1>1, <1>2, <1>3, SecureShapes

\* A worker resolves what it reads of an entry.
LEMMA EntryEnforces ==
    ASSUME NEW e \in Entry
    PROVE  FromEntry(e).enforce <=> e.holds = "policy" /\ e.enforce
BY DEF FromEntry, Opportunistic, Entry

\* A demand of the destination is honoured at every host, at once for signed
\* TLSA records, and for a policy file from when the answer it replaced has
\* run out: for any destination, any ages and any number of workers.
THEOREM PolicyNoticed == SecureSpec => PolicyIsNoticed
<1>1. ASSUME TypeInv, CacheInv, [SecureNext]_secureVars,
             NEW w \in Workers, Resolved(w), Demanded
      PROVE  policy'[w].enforce \/ (~Signed /\ now <= noticeBy')
  <2>1. /\ ResolveKinds(w) /\ cache \in Entry /\ site \in Sites
        /\ now \in Nat /\ noticeBy \in Nat /\ AbsentFor \in Nat
        /\ policy = [v \in Workers |-> policy[v]]
      BY <1>1, ResolvedPolicy, SecureAssumption
         DEF CacheInv, SecureTypes, TypeInv, TypeOK
  <2>2. CASE ResolveDane(w)
      BY <2>1, <2>2 DEF ResolveDane, Resolves, NewDanePolicy
  <2>3. CASE ResolveCached(w)
    <3>1. ~Signed /\ MtaStsEnabled /\ site.sts = "enforce" /\ Cached
          /\ policy'[w] = FromEntry(cache) /\ noticeBy' = noticeBy
      <4>1. ~Dane /\ UNCHANGED noticeBy
          BY <2>3 DEF ResolveCached
      <4>2. ~Signed
          BY <4>1 DEF Signed, Dane
      <4>3. MtaStsEnabled /\ site.sts = "enforce"
          BY <1>1, <4>2 DEF Demanded
      <4> QED
          BY <2>1, <2>3, <4>1, <4>2, <4>3 DEF ResolveCached, Resolves
    <3>2. CASE cache.holds = "policy" /\ cache.enforce
        BY <2>1, <3>1, <3>2, EntryEnforces
    <3>3. CASE ~(cache.holds = "policy" /\ cache.enforce)
      <4>1. ~cache.enforce \/ cache.holds = "absent"
          BY <2>1, <3>1, <3>3 DEF Cached, Entry
      <4>2. cache.until <= noticeBy
          BY <1>1, <3>1, <4>1 DEF CacheInv, SecureTypes, HidesUntil, Cached
      <4>3. now <= cache.until
          BY <2>1, <3>1 DEF Cached, Entry
      <4>4. cache.until \in Nat
          BY <2>1 DEF Entry
      <4> QED
          BY <2>1, <3>1, <4>2, <4>3, <4>4
    <3> QED
        BY <3>2, <3>3
  <2>4. CASE ResolveFetched(w)
    <3>1. PICK reached \in BOOLEAN :
                /\ policy' = [policy EXCEPT ![w] = FromEntry(Fetched(reached))]
                /\ \/ reached
                   \/ ~reached /\ noticeBy' = Max({noticeBy, now + AbsentFor})
        BY <2>4 DEF ResolveFetched, Resolves
    <3>2. ~Signed /\ site.sts = "enforce"
        BY <1>1, <2>4 DEF ResolveFetched, Demanded, Signed, Dane
    <3>3. CASE reached
      <4>1. Fetched(reached).holds = "policy" /\ Fetched(reached).enforce
          BY <3>2, <3>3 DEF Fetched
      <4>2. Fetched(reached) \in Entry
          BY <2>1, FetchedEntry
      <4> QED
          BY <2>1, <3>1, <4>1, <4>2, EntryEnforces
    <3>4. CASE ~reached
      <4>1. now + AbsentFor \in Nat /\ now <= now + AbsentFor
          BY <2>1
      <4>2. now + AbsentFor <= noticeBy' /\ noticeBy' \in Nat
          BY <2>1, <3>1, <3>4, <4>1, MaxOfTimes
      <4> QED
          BY <2>1, <3>2, <4>1, <4>2
    <3> QED
        BY <3>3, <3>4
  <2> QED
      BY <2>1, <2>2, <2>3, <2>4 DEF ResolveKinds
<1>2. TypeInv /\ CacheInv /\ [SecureNext]_secureVars
        => [\A w \in Workers :
              Resolved(w) /\ Demanded =>
                  policy'[w].enforce
                  \/ (~Signed /\ now <= noticeBy')]_secureVars
    BY <1>1
<1> QED
    BY <1>2, SecureInvariant, PTL DEF SecureSpec, PolicyIsNoticed

\* A policy that was withdrawn is enforced no longer than its age told, and
\* never past AgeCap, however often retries ask.
THEOREM PolicyNotPinned == SecureSpec => PolicyIsNotPinned
<1>1. ASSUME TypeInv, CacheInv, [SecureNext]_secureVars,
             NEW w \in Workers, Resolved(w), policy'[w].enforce, ~Demanded
      PROVE  now <= pinnedBy
  <2>1. /\ ResolveKinds(w) /\ cache \in Entry /\ site \in Sites
        /\ now \in Nat /\ pinnedBy \in Nat
        /\ policy = [v \in Workers |-> policy[v]]
      BY <1>1, ResolvedPolicy DEF CacheInv, SecureTypes, TypeInv, TypeOK
  <2>2. ~ResolveDane(w)
      BY <1>1 DEF ResolveDane, Dane, Demanded, Signed
  <2>3. CASE ResolveCached(w)
    <3>1. /\ policy'[w] = IF MtaStsEnabled THEN FromEntry(cache)
                                           ELSE Opportunistic
          /\ MtaStsEnabled => Cached
        BY <2>1, <2>3 DEF ResolveCached, Resolves
    <3>2. MtaStsEnabled
        BY <1>1, <3>1 DEF Opportunistic
    <3>3. cache.holds = "policy" /\ cache.enforce /\ site.sts # "enforce"
        BY <1>1, <2>1, <3>1, <3>2, EntryEnforces DEF Demanded
    <3>4. cache.until <= pinnedBy
        BY <1>1, <3>3 DEF CacheInv, PinsUntil
    <3>5. cache.until \in Nat /\ now <= cache.until
        BY <2>1, <3>1, <3>2 DEF Cached, Entry
    <3> QED
        BY <2>1, <3>4, <3>5
  <2>4. CASE ResolveFetched(w)
    <3>1. PICK reached \in BOOLEAN :
                policy' = [policy EXCEPT ![w] = FromEntry(Fetched(reached))]
        BY <2>4 DEF ResolveFetched, Resolves
    <3>2. Fetched(reached) \in Entry
          /\ (Fetched(reached).holds = "policy" =>
                (Fetched(reached).enforce <=> site.sts = "enforce"))
        BY <2>1, FetchedEntry
    <3>3. MtaStsEnabled /\ site.sts = "enforce"
        BY <1>1, <2>1, <2>4, <3>1, <3>2, EntryEnforces DEF ResolveFetched
    <3> QED
        BY <1>1, <3>3 DEF Demanded
  <2> QED
      BY <2>1, <2>2, <2>3, <2>4 DEF ResolveKinds
<1>2. TypeInv /\ CacheInv /\ [SecureNext]_secureVars
        => [\A w \in Workers :
              Resolved(w) /\ policy'[w].enforce /\ ~Demanded
                  => now <= pinnedBy]_secureVars
    BY <1>1
<1> QED
    BY <1>2, SecureInvariant, PTL DEF SecureSpec, PolicyIsNotPinned
=============================================================================
