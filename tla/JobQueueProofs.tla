---------------------------- MODULE JobQueueProofs ---------------------------
(***************************************************************************)
(* The workers, the network and the shutdowns of JobQueue do nothing to    *)
(* the table that the free clients of JobStore could not do, so what is    *)
(* proved of JobStore holds of the whole system.                           *)
(***************************************************************************)
EXTENDS JobQueue, JobStoreProofs

\* What is executed was handed out.
ExecutionsAreClaims == DOMAIN exec \subseteq claims

\* No claim is ever forgotten.
LEMMA ClaimsGrow == [Next]_vars => claims \subseteq claims'
  BY DEF Next, vars, history, SubmitJob, ClaimSelect, ClaimCommit, ClaimAbort, Ack,
     NAckRead, NAckBury, NAckReschedule, NAckGivesUp, ExtendLease, ReapExpiredLeases,
     ResetDeadJob, Tick

\* The lease a worker asks for is one the server may be asked for.
LEMMA AskedLease == LeaseDuration \in ClaimLeases /\ LeaseDuration \in RequestedLeases
  BY QueueAssumption DEF ClaimLeases

\* Every step of the system is a step of the table or leaves it alone.
LEMMA StoreStep ==
  ASSUME [QueueNext]_queueVars
  PROVE  [Next]_vars
  <1>1. CASE Submit
    BY <1>1 DEF Submit, Next
  <1>2. CASE Revive
    BY <1>2 DEF Revive, Next
  <1>3. CASE Reap
    BY <1>3 DEF Reap, Next
  <1>4. CASE Pass
    BY <1>4 DEF Pass, Next
  <1>5. ASSUME NEW w \in Workers, LoopStep(w)
        PROVE  [Next]_vars
    <2>1. CASE ServeClaim(w)
      BY <2>1, AskedLease DEF ServeClaim, Next
    <2>2. CASE PollClaim(w) \/ ServeNoJob(w)
      BY <2>2 DEF PollClaim, ServeNoJob
    <2>3. QED  BY <1>5, <2>1, <2>2 DEF LoopStep
  <1>6. ASSUME NEW w \in Workers,
               ClaimTimeout(w) \/ Stop(w) \/ Exit(w) \/ Crash(w) \/ Restart(w)
        PROVE  [Next]_vars
    BY <1>6 DEF ClaimTimeout, Stop, Exit, Crash, Restart
  <1>7. ASSUME NEW l \in claiming, ClaimStep(l)
        PROVE  [Next]_vars
    BY <1>7 DEF ClaimStep, CommitClaim, OrphanClaim, FailClaim, Next
  <1>8. ASSUME NEW c \in DOMAIN exec,
               \/ \E kind \in Outcomes : HandlerReturns(c, kind)
               \/ ReceiveJob(c) \/ JobTimeout(c) \/ ReportTimeout(c)
               \/ HeartbeatStep(c) \/ HeartbeatLost(c)
        PROVE  [Next]_vars
    BY <1>8
    DEF HandlerReturns, ReceiveJob, JobTimeout, ReportTimeout, HeartbeatStep,
        SendHeartbeat, HeartbeatAccepted, HeartbeatRefused, HeartbeatLost
  <1>9. ASSUME NEW c \in claims, ServeHeartbeat(c)
        PROVE  [Next]_vars
    BY <1>9, AskedLease DEF ServeHeartbeat, Next
  <1>10. ASSUME NEW c \in claims, ServeReport(c)
         PROVE  [Next]_vars
    <2>1. CASE ServeAck(c)
      BY <2>1 DEF ServeAck, Next
    <2>2. ASSUME NEW kind \in {"nack", "permanent"}, ServeNAck(c, kind)
          PROVE  [Next]_vars
      BY <2>2 DEF ServeNAck, Next
    <2>3. QED  BY <1>10, <2>1, <2>2 DEF ServeReport
  <1>11. ASSUME NEW n \in nacks, FinishNAck(n) \/ FailNAck(n)
         PROVE  [Next]_vars
    BY <1>11 DEF FinishNAck, FailNAck, Next
  <1>12. ASSUME NEW m \in net, DropRequest(m)
         PROVE  [Next]_vars
    BY <1>12 DEF DropRequest
  <1>13. CASE UNCHANGED queueVars
    BY <1>13 DEF queueVars
  <1>14. QED
    BY <1>1, <1>2, <1>3, <1>4, <1>5, <1>6, <1>7, <1>8, <1>9, <1>10, <1>11, <1>12,
       <1>13 DEF QueueNext

LEMMA WithoutDomain == \A C : DOMAIN Without(C) = DOMAIN exec \ C
  BY DEF Without

\* Executions begin with a claim just handed out, and only end afterwards.
LEMMA ExecutionsStep ==
  ASSUME ExecutionsAreClaims, [QueueNext]_queueVars
  PROVE  ExecutionsAreClaims'
  <1>0. claims \subseteq claims'
    BY StoreStep, ClaimsGrow
  <1>1. ASSUME DOMAIN exec' \subseteq DOMAIN exec
        PROVE  ExecutionsAreClaims'
    BY <1>0, <1>1 DEF ExecutionsAreClaims
  <1>2. ASSUME UNCHANGED exec
        PROVE  ExecutionsAreClaims'
    BY <1>1, <1>2
  <1>3. ASSUME NEW l \in claiming, CommitClaim(l)
        PROVE  ExecutionsAreClaims'
    <2> DEFINE n == NextClaim(l.job, l.worker)
    <2>1. n \in claims'
      BY <1>3 DEF CommitClaim, ClaimCommit
    <2>2. \E e : exec' = With(n, e)
      BY <1>3 DEF CommitClaim
    <2>3. DOMAIN exec' = DOMAIN exec \cup {n}
      BY <2>2 DEF With
    <2>4. QED  BY <1>0, <2>1, <2>3 DEF ExecutionsAreClaims
  <1>4. ASSUME NEW l \in claiming, OrphanClaim(l) \/ FailClaim(l)
        PROVE  ExecutionsAreClaims'
    BY <1>2, <1>4 DEF OrphanClaim, FailClaim
  <1>5. ASSUME NEW w \in Workers, ClaimTimeout(w) \/ Stop(w) \/ Crash(w)
        PROVE  ExecutionsAreClaims'
    BY <1>1, <1>5, WithoutDomain DEF ClaimTimeout, Stop, Crash
  <1>6. ASSUME NEW w \in Workers, LoopStep(w) \/ Exit(w) \/ Restart(w)
        PROVE  ExecutionsAreClaims'
    BY <1>2, <1>6
    DEF LoopStep, PollClaim, ServeClaim, ServeNoJob, Exit, Restart
  <1>7. ASSUME NEW c \in DOMAIN exec, NEW kind \in Outcomes, HandlerReturns(c, kind)
        PROVE  ExecutionsAreClaims'
    BY <1>1, <1>7, WithoutDomain DEF HandlerReturns
  <1>8. ASSUME NEW c \in DOMAIN exec,
               \/ ReceiveJob(c) \/ JobTimeout(c)
               \/ HeartbeatStep(c) \/ HeartbeatLost(c)
        PROVE  ExecutionsAreClaims'
    BY <1>1, <1>8
    DEF ReceiveJob, JobTimeout, HeartbeatStep, SendHeartbeat, HeartbeatAccepted,
        HeartbeatRefused, HeartbeatLost
  <1>9. ASSUME NEW c \in DOMAIN exec, ReportTimeout(c)
        PROVE  ExecutionsAreClaims'
    BY <1>1, <1>9, WithoutDomain DEF ReportTimeout
  <1>10. ASSUME NEW c \in claims, ServeReport(c) \/ ServeHeartbeat(c)
         PROVE  ExecutionsAreClaims'
    BY <1>1, <1>2, <1>10, WithoutDomain
    DEF ServeReport, ServeAck, ServeNAck, ServeHeartbeat
  <1>11. ASSUME NEW n \in nacks, FinishNAck(n) \/ FailNAck(n)
         PROVE  ExecutionsAreClaims'
    BY <1>1, <1>11, WithoutDomain DEF FinishNAck, FailNAck
  <1>12. CASE Pass
    BY <1>1, <1>12 DEF Pass
  <1>13. ASSUME Submit \/ Revive \/ Reap \/ UNCHANGED queueVars
                \/ \E m \in net : DropRequest(m)
         PROVE  ExecutionsAreClaims'
    BY <1>2, <1>13 DEF Submit, Revive, Reap, DropRequest, queueVars
  <1>14. QED
    BY <1>3, <1>4, <1>5, <1>6, <1>7, <1>8, <1>9, <1>10, <1>11, <1>12, <1>13
    DEF QueueNext, ClaimStep

\* What is proved of the free clients of JobStore holds of the real ones.
LEMMA QueueSteps == QueueSpec => Spec /\ []ExecutionsAreClaims
  <1>1. QueueInit => Init /\ ExecutionsAreClaims
    BY DEF QueueInit, ExecutionsAreClaims
  <1>2. [QueueNext]_queueVars => [Next]_vars
    BY StoreStep
  <1>3. ExecutionsAreClaims /\ [QueueNext]_queueVars => ExecutionsAreClaims'
    BY ExecutionsStep
  <1>4. QED  BY <1>1, <1>2, <1>3, PTL DEF QueueSpec, Spec

\* So no fault of a worker or of the network makes a job run more often than
\* its budget allows, or a stale report count before an operator's retry.
THEOREM QueueKeepsBudget == QueueSpec => []AttemptBudget /\ FencedWithinRevival
  <1>1. QED  BY QueueSteps, Budget, Fencing, PTL

-----------------------------------------------------------------------------
(* Slots *)

\* The slots of a worker, the one that waits for a claim included, are counted
\* right, and only finitely many are in use.
SlotInv ==
  /\ loop \in [Workers -> LoopStates]
  /\ \A w \in Workers : IsFiniteSet(Executions(w))
  /\ SlotsAreEnough

LEMMA SlotInit == QueueInit => SlotInv
  <1> SUFFICES ASSUME QueueInit PROVE SlotInv
    OBVIOUS
  <1>1. loop = [w \in Workers |-> "waiting"] /\ DOMAIN exec = {}
    BY DEF QueueInit
  <1>2. \A w \in Workers : Executions(w) = {}
    BY <1>1 DEF Executions
  <1>. QED
    BY <1>1, <1>2, FS_EmptySet, QueueAssumption DEF SlotInv, SlotsAreEnough, LoopStates

\* A step that begins no execution and sends no claim takes no slot.
LEMMA NoSlotTaken ==
  ASSUME SlotInv, loop' \in [Workers -> LoopStates],
         DOMAIN exec' \subseteq DOMAIN exec,
         \A w \in Workers : loop'[w] = "claiming" => loop[w] = "claiming"
  PROVE  SlotInv'
  <1>1. ASSUME NEW w \in Workers
        PROVE  /\ IsFiniteSet(Executions(w)')
               /\ Cardinality(Executions(w)') + (IF loop'[w] = "claiming" THEN 1 ELSE 0)
                    <= Concurrency
    <2>1. IsFiniteSet(Executions(w)) /\ Executions(w)' \subseteq Executions(w)
      BY DEF SlotInv, Executions
    <2>2. /\ IsFiniteSet(Executions(w)')
          /\ Cardinality(Executions(w)') <= Cardinality(Executions(w))
      BY <2>1, FS_Subset
    <2>3. Cardinality(Executions(w)') \in Nat /\ Cardinality(Executions(w)) \in Nat
      BY <2>1, <2>2, FS_CardinalityType
    <2>4. Cardinality(Executions(w)) + (IF loop[w] = "claiming" THEN 1 ELSE 0)
            <= Concurrency
      BY DEF SlotInv, SlotsAreEnough
    <2>. QED  BY <2>2, <2>3, <2>4, QueueAssumption
  <1>. QED  BY <1>1 DEF SlotInv, SlotsAreEnough

LEMMA SlotStep ==
  ASSUME IInv, SlotInv, [QueueNext]_queueVars
  PROVE  SlotInv'
  <1>0. loop \in [Workers -> LoopStates]
    BY DEF SlotInv
  <1>1. ASSUME UNCHANGED loop, DOMAIN exec' \subseteq DOMAIN exec
        PROVE  SlotInv'
    BY <1>0, <1>1, NoSlotTaken
  <1>2. ASSUME NEW w \in Workers, NEW p \in LoopStates \ {"claiming"},
               loop' = [loop EXCEPT ![w] = p], DOMAIN exec' \subseteq DOMAIN exec
        PROVE  SlotInv'
    BY <1>0, <1>2, NoSlotTaken
  <1>3. ASSUME NEW w \in Workers, PollClaim(w)
        PROVE  SlotInv'
    <2>1. /\ loop' = [loop EXCEPT ![w] = "claiming"] /\ exec' = exec
          /\ Cardinality(Executions(w)) < Concurrency
      BY <1>3 DEF PollClaim
    <2>2. \A v \in Workers : Executions(v)' = Executions(v)
      BY <2>1 DEF Executions
    <2>3. loop' \in [Workers -> LoopStates]
      BY <1>0, <2>1 DEF LoopStates
    <2>4. Cardinality(Executions(w)) \in Nat
      BY FS_CardinalityType DEF SlotInv
    <2>5. Cardinality(Executions(w)) + 1 <= Concurrency
      BY <2>1, <2>4, QueueAssumption
    <2>6. ASSUME NEW v \in Workers
          PROVE  Cardinality(Executions(v)) + (IF loop'[v] = "claiming" THEN 1 ELSE 0)
                   <= Concurrency
      <3>1. CASE v = w
        BY <1>0, <2>1, <2>5, <3>1
      <3>2. CASE v # w
        <4>1. loop'[v] = loop[v]
          BY <1>0, <2>1, <3>2
        <4>. QED  BY <4>1 DEF SlotInv, SlotsAreEnough
      <3>. QED  BY <3>1, <3>2
    <2>. QED  BY <2>2, <2>3, <2>6 DEF SlotInv, SlotsAreEnough
  <1>4. ASSUME NEW l \in claiming, CommitClaim(l)
        PROVE  SlotInv'
    <2> DEFINE w == l.worker
               n == NextClaim(l.job, w)
    <2>1. w \in Workers /\ n.worker = w
      BY DEF IInv, TypeOK, Claimings, NextClaim
    <2>2. loop[w] = "claiming" /\ loop' = [loop EXCEPT ![w] = "receiving"]
      BY <1>4 DEF CommitClaim
    <2>3. \E e : exec' = With(n, e)
      BY <1>4 DEF CommitClaim
    <2> HIDE DEF w, n
    <2>4. DOMAIN exec' = DOMAIN exec \cup {n}
      BY <2>3 DEF With
    <2>5. /\ Executions(w)' = Executions(w) \cup {n}
          /\ \A v \in Workers \ {w} : Executions(v)' = Executions(v)
      BY <2>1, <2>4 DEF Executions
    <2>6. loop' \in [Workers -> LoopStates]
      BY <1>0, <2>2 DEF LoopStates
    <2>7. IsFiniteSet(Executions(w)) /\ Cardinality(Executions(w)) + 1 <= Concurrency
      BY <2>1, <2>2 DEF SlotInv, SlotsAreEnough
    <2>8. /\ IsFiniteSet(Executions(w)') /\ Cardinality(Executions(w)') \in Nat
          /\ Cardinality(Executions(w)) \in Nat
          /\ Cardinality(Executions(w)') <= Cardinality(Executions(w)) + 1
      <3> DEFINE E == Executions(w)
                 F == Executions(w)'
      <3>1. F = E \cup {n} /\ IsFiniteSet(E)
        BY <2>5, <2>7
      <3> HIDE DEF E, F
      <3>2. Cardinality(E) \in Nat
        BY <3>1, FS_CardinalityType
      <3>3. IsFiniteSet(F) /\ Cardinality(F) = IF n \in E THEN Cardinality(E) ELSE Cardinality(E) + 1
        BY <3>1, FS_AddElement
      <3> QED BY <3>2, <3>3 DEF E, F
    <2>9. ASSUME NEW v \in Workers
          PROVE  /\ IsFiniteSet(Executions(v)')
                 /\ Cardinality(Executions(v)') + (IF loop'[v] = "claiming" THEN 1 ELSE 0)
                      <= Concurrency
      <3>1. CASE v = w
        <4>1. loop'[v] = "receiving"
          BY <1>0, <2>1, <2>2, <3>1
        <4>. QED  BY <2>7, <2>8, <3>1, <4>1, QueueAssumption
      <3>2. CASE v # w
        <4>1. loop'[v] = loop[v] /\ Executions(v)' = Executions(v)
          BY <1>0, <2>2, <2>5, <3>2
        <4>. QED  BY <4>1 DEF SlotInv, SlotsAreEnough
      <3>. QED  BY <3>1, <3>2
    <2>. QED  BY <2>6, <2>9 DEF SlotInv, SlotsAreEnough
  <1>5. ASSUME NEW w \in Workers, ServeClaim(w) \/ ServeNoJob(w)
        PROVE  SlotInv'
    BY <1>1, <1>2, <1>5 DEF ServeClaim, ServeNoJob, LoopStates
  <1>6. ASSUME NEW l \in claiming, OrphanClaim(l) \/ FailClaim(l)
        PROVE  SlotInv'
    <2>1. l.worker \in Workers
      BY DEF IInv, TypeOK, Claimings
    <2>. QED  BY <1>1, <1>2, <1>6, <2>1 DEF OrphanClaim, FailClaim, LoopStates
  <1>7. ASSUME NEW w \in Workers,
               ClaimTimeout(w) \/ Stop(w) \/ Exit(w) \/ Crash(w) \/ Restart(w)
        PROVE  SlotInv'
    <2>1. DOMAIN exec' \subseteq DOMAIN exec
      BY <1>7, WithoutDomain DEF ClaimTimeout, Stop, Exit, Crash, Restart
    <2>2. \E p \in {"draining", "stopping", "down", "waiting"} :
            loop' = [loop EXCEPT ![w] = p]
      BY <1>7 DEF ClaimTimeout, Stop, Exit, Crash, Restart
    <2>. QED  BY <1>2, <2>1, <2>2 DEF LoopStates
  <1>8. ASSUME NEW c \in DOMAIN exec,
               \/ \E kind \in Outcomes : HandlerReturns(c, kind)
               \/ JobTimeout(c) \/ ReportTimeout(c)
               \/ HeartbeatStep(c) \/ HeartbeatLost(c)
        PROVE  SlotInv'
    BY <1>1, <1>8, WithoutDomain
    DEF HandlerReturns, JobTimeout, ReportTimeout, HeartbeatStep, SendHeartbeat,
        HeartbeatAccepted, HeartbeatRefused, HeartbeatLost
  <1>13. ASSUME NEW c \in DOMAIN exec, ReceiveJob(c)
         PROVE  SlotInv'
    <2>1. DOMAIN exec' \subseteq DOMAIN exec /\ loop' = [loop EXCEPT ![c.worker] = "waiting"]
      BY <1>13 DEF ReceiveJob
    <2>2. loop' \in [Workers -> LoopStates]
      BY <1>0, <2>1 DEF LoopStates
    <2>. QED  BY <1>0, <2>1, <2>2, NoSlotTaken
  <1>9. ASSUME NEW c \in claims, ServeReport(c) \/ ServeHeartbeat(c)
        PROVE  SlotInv'
    BY <1>1, <1>9, WithoutDomain DEF ServeReport, ServeAck, ServeNAck, ServeHeartbeat
  <1>10. ASSUME NEW n \in nacks, FinishNAck(n) \/ FailNAck(n)
         PROVE  SlotInv'
    BY <1>1, <1>10, WithoutDomain DEF FinishNAck, FailNAck
  <1>11. CASE Pass
    BY <1>1, <1>11 DEF Pass
  <1>12. ASSUME Submit \/ Revive \/ Reap \/ UNCHANGED queueVars
                \/ \E m \in net : DropRequest(m)
         PROVE  SlotInv'
    BY <1>1, <1>12 DEF Submit, Revive, Reap, DropRequest, queueVars
  <1>. QED
    BY <1>3, <1>4, <1>5, <1>6, <1>7, <1>8, <1>9, <1>10, <1>11, <1>12, <1>13
    DEF QueueNext, LoopStep, ClaimStep

\* No worker has more jobs in hand than its concurrency, however its claims,
\* reports and executions end.
THEOREM Slots == QueueSpec => []SlotsAreEnough
  <1>1. QueueSpec => []IInv
    BY QueueSteps, Invariant, PTL
  <1>2. IInv /\ SlotInv /\ [QueueNext]_queueVars => SlotInv'
    BY SlotStep
  <1>3. SlotInv => SlotsAreEnough
    BY DEF SlotInv
  <1>. QED  BY <1>1, <1>2, <1>3, SlotInit, PTL DEF QueueSpec

-----------------------------------------------------------------------------
(* Heartbeats *)

\* Terms of the invariant, of one execution e.  It is at work when it is on its
\* way or has a handler whose context is not done.
Active(e) == e.pc = "arriving" \/ (e.pc = "handling" /\ e.live)

\* Its lease was set, and the answer that says so has not arrived.
Fresh(e) == e.pc = "arriving" \/ e.pulse.ask = "renewed"

Patience == HeartbeatEvery + ClientTimeout

\* The lease covers the heartbeats that have failed, and the one under way.
Fits(e) ==
  Patience + (IF Fresh(e) THEN 0
              ELSE (e.pulse.missed + (IF e.pulse.ask = "no" THEN 0 ELSE 1)) * Round)
    <= LeaseDuration

\* How long ago the lease was set at most: the wait for the present answer, what
\* came before it, and the time to the next heartbeat, which is not used up yet.
Spent(e) ==
  (IF Fresh(e) THEN 0 ELSE Patience + e.pulse.missed * Round)
    + (IF AwaitsAnswer(e) THEN ClientTimeout - e.pulse.left
       ELSE IF e.pulse.due THEN 0 ELSE 0 - e.pulse.beat)

\* The loop runs when a job has arrived and its handler's context is not done,
\* and a tick that has not come yet is as near as the time since the heartbeat
\* went out makes it.
Sound(e) ==
  /\ e.pc = "arriving" => ~e.live
  /\ ~e.live => e.pulse.ask = "no"
  /\ (e.pulse.ask # "no" /\ ~e.pulse.due) =>
       e.pulse.beat + (ClientTimeout - e.pulse.left) <= HeartbeatEvery

Working(c) == Active(exec[c]) /\ Fits(exec[c])

Holds(c) ==
  Matches(c) /\ Current(c) /\ jobs[c.job].lease_until >= LeaseDuration - Spent(exec[c])

\* A handler at work has reported nothing, and while it misses few heartbeats
\* it holds its job under a lease that covers them.
HoldInv ==
  /\ \A c \in DOMAIN exec : exec[c] \in Execution /\ Sound(exec[c])
  /\ \A l \in claiming : l.lease = LeaseDuration
  /\ \A m \in net : m.kind # "claim" => m.claim \in claims
  /\ \A c \in DOMAIN exec : exec[c].pc # "reporting" => ~Reported(c)
  /\ \A c \in DOMAIN exec : Working(c) => Holds(c)

\* The operator has retried no job.
NoRetries == \A j \in Jobs : revived[j] = 0

LEMMA HoldInit == QueueInit => HoldInv
  BY DEF QueueInit, HoldInv, Init

\* Without operator retries a token belongs to one claim, the last.
LEMMA OneHolder ==
  ASSUME IInv, NoRetries, NEW c \in claims, NEW d \in claims,
         Matches(c), Matches(d), c.job = d.job
  PROVE  c = d
  <1>1. c.revival = 0 /\ d.revival = 0
    BY ClaimFacts DEF ClaimOK, NoRetries
  <1>. QED  BY <1>1 DEF IInv, DistinctTokens, Matches

LEMMA HolderIsLast ==
  IInv /\ NoRetries => \A c \in claims : Matches(c) => Current(c)
  <1> SUFFICES ASSUME IInv, NoRetries, NEW c \in claims, Matches(c)
               PROVE  Current(c)
    OBVIOUS
  <1>1. c.job \in Jobs /\ c.revival = 0 /\ c.revival = revived[c.job]
    BY ClaimFacts DEF ClaimOK, NoRetries
  <1>2. issued[c.job] - c.seq = jobs[c.job].lease_token - c.token
    BY <1>1, ClaimFacts DEF ClaimOK
  <1>. QED
    BY <1>1, <1>2, ClaimFacts, RowFacts DEF Matches, Current

LEMMA HolderIsLastNext ==
  IInv' /\ NoRetries' => \A c \in claims' : Matches(c)' => Current(c)'
  <1>1. (IInv /\ NoRetries => \A c \in claims : Matches(c) => Current(c))'
    BY HolderIsLast, PTL
  <1>. QED  BY <1>1

\* A claim handed out is a new one.
LEMMA NewClaim ==
  ASSUME IInv, NEW l \in claiming
  PROVE  NextClaim(l.job, l.worker) \notin claims
  <1> DEFINE n == NextClaim(l.job, l.worker)
  <1>1. n.job = l.job /\ n.seq = issued[l.job] + 1
    BY DEF NextClaim
  <1>2. l.job \in Jobs
    BY DEF IInv, TypeOK, Claimings
  <1> HIDE DEF n
  <1>3. n \notin claims
    BY <1>1, <1>2, ClaimFacts, RowFacts DEF ClaimOK
  <1>. QED  BY <1>3 DEF n

\* A step keeps the row of a claim that holds its job and has reported nothing.
HolderKeepsRow(c) ==
  (Matches(c) /\ jobs[c.job].lease_until >= 0 /\ ~Reported(c)) =>
    jobs'[c.job] = jobs[c.job]

\* Another claim that matches is one of another job.
LEMMA OthersRow ==
  ASSUME IInv, NoRetries, NEW c \in claims, NEW d \in claims, d # c, Matches(d),
         NEW r, jobs' = [jobs EXCEPT ![d.job] = r]
  PROVE  HolderKeepsRow(c)
  <1>1. ASSUME Matches(c) PROVE jobs'[c.job] = jobs[c.job]
    BY <1>1, OneHolder, ClaimFacts DEF IInv, TypeOK
  <1>. QED  BY <1>1 DEF HolderKeepsRow

\* Submitting, claiming and retrying write rows that nobody holds.
LEMMA FreeRow ==
  ASSUME IInv, NEW c \in claims, NEW k \in Jobs, jobs[k].status # "running",
         NEW r, jobs' = [jobs EXCEPT ![k] = r]
  PROVE  HolderKeepsRow(c)
  BY ClaimFacts DEF IInv, TypeOK, HolderKeepsRow, Matches

LEMMA ReapedRow ==
  ASSUME IInv, NEW c \in claims, ReapExpiredLeases
  PROVE  HolderKeepsRow(c)
  <1>1. ASSUME Matches(c), jobs[c.job].lease_until >= 0
        PROVE  jobs'[c.job] = jobs[c.job]
    <2>1. c.job \in Jobs /\ jobs[c.job].lease_until \in Int
      BY <1>1, ClaimFacts, RowFacts DEF Matches, RowOK
    <2>2. ~Expired(c.job)
      BY <1>1, <2>1 DEF Expired
    <2>. QED  BY <2>1, <2>2 DEF ReapExpiredLeases
  <1>. QED  BY <1>1 DEF HolderKeepsRow

\* The constants of the bounds are numbers.
LEMMA Spans ==
  /\ HeartbeatEvery \in Nat \ {0} /\ ClientTimeout \in Nat \ {0}
  /\ Round \in Nat /\ HeartbeatEvery <= Round /\ ClientTimeout <= Round
  /\ Patience \in Nat /\ Patience = HeartbeatEvery + ClientTimeout
  /\ LeaseDuration \in Nat
  BY QueueAssumption, StoreAssumption DEF Round, Patience, ClaimLeases

\* Execution f is what may become of e: at work with the lease that covers it,
\* it was so before, and its lease need be no longer.
Follows(f, e) ==
  /\ f \in Execution /\ Sound(f)
  /\ f.pc # "reporting" => e.pc # "reporting"
  /\ Active(f) /\ Fits(f) => Active(e) /\ Fits(e) /\ Spent(e) <= Spent(f)

GoesOn(c) == c \in DOMAIN exec /\ Follows(exec'[c], exec[c])

LEMMA PulseTerms ==
  ASSUME NEW e \in Execution
  PROVE  /\ e.pulse \in Pulse
         /\ e.pulse.beat \in Nat /\ 1 <= e.pulse.beat /\ e.pulse.beat <= HeartbeatEvery
         /\ e.pulse.left \in Nat /\ e.pulse.left <= ClientTimeout
         /\ e.pulse.missed \in Nat /\ e.pulse.missed * Round \in Nat
         /\ e.pulse.due \in BOOLEAN
  BY Spans DEF Execution, Pulse

\* What the invariant reckons with.
LEMMA SpentTerms ==
  ASSUME NEW e \in Execution
  PROVE  /\ Spent(e) \in Nat
         /\ Fits(e) => Spent(e) <= LeaseDuration
  <1> DEFINE paid == e.pulse.missed * Round
  <1>1. paid \in Nat
    BY PulseTerms
  <1>2. (e.pulse.missed + 1) * Round = paid + Round /\ (e.pulse.missed + 0) * Round = paid
    BY PulseTerms, Spans
  <1>3. Spent(e) = (IF Fresh(e) THEN 0 ELSE Patience + paid)
                     + (IF AwaitsAnswer(e) THEN ClientTimeout - e.pulse.left
                        ELSE IF e.pulse.due THEN 0 ELSE 0 - e.pulse.beat)
    BY DEF Spent
  <1>4. Fits(e) => Patience + (IF Fresh(e) THEN 0
                               ELSE IF e.pulse.ask = "no" THEN paid ELSE paid + Round)
                     <= LeaseDuration
    BY <1>2 DEF Fits
  <1> HIDE DEF paid
  <1>5. /\ AwaitsAnswer(e) => Fresh(e) \/ e.pulse.ask # "no"
        /\ Fresh(e) => AwaitsAnswer(e)
    BY DEF AwaitsAnswer, Fresh
  <1>. QED  BY <1>1, <1>3, <1>4, <1>5, PulseTerms, Spans

LEMMA FollowsItself ==
  ASSUME NEW e \in Execution, Sound(e)
  PROVE  Follows(e, e)
  <1>1. Spent(e) <= Spent(e)
    BY SpentTerms
  <1>. QED  BY <1>1 DEF Follows

\* What is left of a lease is known to the invariant.
LEMMA HolderFacts ==
  ASSUME IInv, HoldInv, NEW c \in claims, c \in DOMAIN exec, Working(c)
  PROVE  /\ Matches(c) /\ ~Reported(c)
         /\ Spent(exec[c]) \in Nat /\ Spent(exec[c]) <= LeaseDuration
         /\ jobs[c.job].lease_until \in Int
         /\ jobs[c.job].lease_until >= LeaseDuration - Spent(exec[c])
         /\ jobs[c.job].lease_until >= 0
  <1>1. Holds(c) /\ exec[c] \in Execution /\ exec[c].pc # "reporting"
    BY DEF HoldInv, Working, Active
  <1>2. ~Reported(c)
    BY <1>1 DEF HoldInv
  <1>3. jobs[c.job].lease_until \in Int
    BY <1>1, ClaimFacts, RowFacts DEF Holds, Matches, RowOK
  <1>4. Spent(exec[c]) \in Nat /\ Spent(exec[c]) <= LeaseDuration
    BY <1>1, SpentTerms DEF Working
  <1>. QED  BY <1>1, <1>2, <1>3, <1>4, Spans DEF Holds

\* Most steps leave a handler at work what it has.
LEMMA HoldsOn ==
  ASSUME IInv, IInv', HoldInv, NoRetries', NEW c \in claims, c \in claims',
         GoesOn(c), Working(c)', HolderKeepsRow(c)
  PROVE  Holds(c)'
  <1>1. /\ c \in DOMAIN exec /\ exec'[c] \in Execution
        /\ Active(exec'[c]) /\ Fits(exec'[c])
    BY DEF GoesOn, Follows, Working
  <1>2. Working(c) /\ Spent(exec[c]) <= Spent(exec'[c])
    BY <1>1 DEF GoesOn, Follows, Working
  <1>3. jobs'[c.job] = jobs[c.job]
    BY <1>1, <1>2, HolderFacts DEF HolderKeepsRow
  <1>4. Matches(c)'
    BY <1>1, <1>2, <1>3, HolderFacts DEF Matches
  <1>5. Current(c)'
    BY <1>4, HolderIsLastNext
  <1>6. jobs'[c.job].lease_until >= LeaseDuration - Spent(exec'[c])
    BY <1>1, <1>2, <1>3, HolderFacts, SpentTerms, Spans
  <1>. QED  BY <1>4, <1>5, <1>6 DEF Holds

\* A step that hands out no job, renews no lease and lets no time pass.
LEMMA QuietHold ==
  ASSUME IInv, IInv', HoldInv, NoRetries', ExecutionsAreClaims, claims \subseteq claims',
         \A c \in DOMAIN exec' : GoesOn(c) /\ HolderKeepsRow(c),
         \A l \in claiming' : l.lease = LeaseDuration,
         \A m \in net' : m.kind # "claim" => m.claim \in claims,
         \A c \in DOMAIN exec' : exec'[c].pc # "reporting" => (Reported(c)' => Reported(c))
  PROVE  HoldInv'
  <1>1. (\A m \in net : m.kind # "claim" => m.claim \in claims)'
    OBVIOUS
  <1>2. (\A c \in DOMAIN exec : exec[c].pc # "reporting" => ~Reported(c))'
    BY DEF HoldInv, GoesOn, Follows
  <1>3. (\A c \in DOMAIN exec : Working(c) => Holds(c))'
    <2>1. \A c \in DOMAIN exec' : c \in claims /\ c \in claims'
      BY DEF GoesOn, ExecutionsAreClaims
    <2>. QED  BY <2>1, HoldsOn
  <1>4. /\ (\A c \in DOMAIN exec : exec[c] \in Execution /\ Sound(exec[c]))'
        /\ (\A l \in claiming : l.lease = LeaseDuration)'
    BY DEF GoesOn, Follows
  <1>5. QED
    BY <1>1, <1>2, <1>3, <1>4 DEF HoldInv

\* With, Without and EXCEPT, execution by execution.
LEMMA WithExecution ==
  ASSUME NEW n, NEW e, exec' = With(n, e)
  PROVE  /\ DOMAIN exec' = DOMAIN exec \cup {n}
         /\ exec'[n] = e
         /\ \A c \in DOMAIN exec \ {n} : exec'[c] = exec[c]
  BY DEF With

LEMMA SameExecutions ==
  ASSUME HoldInv
  PROVE  \A c \in DOMAIN exec : exec'[c] = exec[c] => GoesOn(c)
  BY FollowsItself DEF GoesOn, HoldInv

LEMMA WithoutExecution ==
  ASSUME HoldInv, NEW C, exec' = Without(C)
  PROVE  \A c \in DOMAIN exec' : c \notin C /\ GoesOn(c)
  BY SameExecutions DEF Without

LEMMA OneExecution ==
  ASSUME HoldInv, NEW c \in DOMAIN exec, NEW f, Follows(f, exec[c]),
         exec' = [exec EXCEPT ![c] = f]
  PROVE  \A d \in DOMAIN exec' : GoesOn(d)
  <1>1. exec'[c] = f /\ \A d \in DOMAIN exec : d # c => exec'[d] = exec[d]
    OBVIOUS
  <1>2. GoesOn(c)
    BY <1>1 DEF GoesOn
  <1>. QED  BY <1>1, <1>2, SameExecutions

-----------------------------------------------------------------------------
(* What may become of an execution *)

LEMMA IdlePulse ==
  /\ Idle \in Pulse /\ Idle.beat = HeartbeatEvery /\ ~Idle.due /\ Idle.ask = "no"
  /\ Idle.left = 0 /\ Idle.missed = 0
  BY Spans DEF Idle, Pulse

\* The context of a handler is done, or its outcome is sent.
LEMMA EndedFollows ==
  ASSUME NEW e \in Execution, e.pc # "arriving"
  PROVE  Follows(Ended(e), e)
  <1> DEFINE f == [e EXCEPT !.live = FALSE]
  <1>1. f \in Execution /\ f.pc = e.pc /\ ~f.live
    BY DEF Execution
  <1>2. Ended(e) = [f EXCEPT !.pulse = Idle]
    BY DEF Ended
  <1> HIDE DEF f
  <1>3. /\ Ended(e) \in Execution /\ Ended(e).pc = e.pc /\ ~Ended(e).live
        /\ Ended(e).pulse = Idle
    BY <1>1, <1>2, IdlePulse DEF Execution
  <1>4. Sound(Ended(e)) /\ ~Active(Ended(e))
    BY <1>3, IdlePulse DEF Sound, Active
  <1>. QED  BY <1>3, <1>4 DEF Follows

LEMMA ReportingFollows ==
  ASSUME NEW e \in Execution, Sound(e)
  PROVE  Follows([e EXCEPT !.pc = "reporting"], e)
  <1> DEFINE f == [e EXCEPT !.pc = "reporting"]
  <1>1. f \in Execution /\ f.pc = "reporting" /\ f.pulse = e.pulse
    BY DEF Execution
  <1>2. Sound(f) /\ ~Active(f)
    BY <1>1 DEF Sound, Active
  <1>. QED  BY <1>1, <1>2 DEF Follows

\* The job arrives: a handler starts, or its failure is sent.
LEMMA ReceivedFollows ==
  ASSUME NEW e \in Execution, e.pc = "arriving"
  PROVE  /\ Follows([pc |-> "handling", live |-> TRUE, pulse |-> Idle], e)
         /\ Follows([pc |-> "reporting", live |-> FALSE, pulse |-> Idle], e)
  <1> DEFINE f == [pc |-> "handling", live |-> TRUE, pulse |-> Idle]
             g == [pc |-> "reporting", live |-> FALSE, pulse |-> Idle]
  <1>1. f \in Execution /\ f.pc = "handling" /\ f.pulse = Idle
    BY IdlePulse DEF Execution
  <1>2. g \in Execution /\ g.pc = "reporting" /\ g.pulse = Idle
    BY IdlePulse DEF Execution
  <1> HIDE DEF f, g
  <1>3. Follows(g, e)
    BY <1>2, IdlePulse DEF Follows, Sound, Active
  <1>4. Sound(f)
    BY <1>1, IdlePulse DEF Sound
  <1>5. Spent(f) = Patience - HeartbeatEvery
    BY <1>1, IdlePulse, Spans DEF Spent, Fresh, AwaitsAnswer
  <1>6. Spent(e) = ClientTimeout - e.pulse.left
    BY PulseTerms, Spans DEF Spent, Fresh, AwaitsAnswer
  <1>7. Fits(f) => Fits(e)
    BY <1>1, IdlePulse, Spans DEF Fits, Fresh
  <1>8. Spent(e) <= Spent(f)
    BY <1>5, <1>6, PulseTerms, Spans
  <1>9. Follows(f, e)
    BY <1>1, <1>4, <1>7, <1>8 DEF Follows, Active
  <1>. QED  BY <1>3, <1>9 DEF f, g

\* An execution with another pulse.
LEMMA PulseChanges ==
  ASSUME NEW e \in Execution, NEW p \in Pulse
  PROVE  LET f == [e EXCEPT !.pulse = p]
         IN  /\ f \in Execution
             /\ f.pc = e.pc /\ (f.live <=> e.live) /\ f.pulse = p
  BY DEF Execution

\* A heartbeat goes out.
LEMMA AskingFollows ==
  ASSUME NEW e \in Execution, Sound(e), e.live, e.pulse.due, e.pulse.ask = "no"
  PROVE  Follows([e EXCEPT !.pulse = Asking(@)], e)
  <1> DEFINE p == e.pulse
             q == Asking(p)
             f == [e EXCEPT !.pulse = q]
             paid == p.missed * Round
  <1>1. /\ q \in Pulse /\ q.beat = p.beat /\ ~q.due /\ q.ask = "asked"
        /\ q.left = ClientTimeout /\ q.missed = p.missed
    <2> DEFINE r == [p EXCEPT !.due = FALSE]
               t == [r EXCEPT !.ask = "asked"]
    <2>1. r \in Pulse /\ r.beat = p.beat /\ ~r.due /\ r.missed = p.missed
      BY PulseTerms DEF Pulse
    <2> HIDE DEF r
    <2>2. t \in Pulse /\ t.beat = p.beat /\ ~t.due /\ t.missed = p.missed /\ t.ask = "asked"
      BY <2>1 DEF Pulse
    <2>3. q = [t EXCEPT !.left = ClientTimeout]
      BY DEF Asking, t, r
    <2> HIDE DEF t, q
    <2>. QED  BY <2>2, <2>3, Spans DEF Pulse
  <1> HIDE DEF q
  <1>2. f \in Execution /\ f.pc = e.pc /\ f.live /\ f.pulse = q
    BY <1>1, PulseChanges
  <1> HIDE DEF f
  <1>3. e.pc # "arriving" /\ f.pc # "arriving"
    BY <1>2 DEF Sound
  <1>4. Sound(f)
    BY <1>1, <1>2, <1>3, PulseTerms, Spans DEF Sound
  <1>5. paid \in Nat /\ (p.missed + 1) * Round = paid + Round /\ (p.missed + 0) * Round = paid
    BY PulseTerms, Spans
  <1>6. /\ Spent(e) = Patience + paid + 0
        /\ Spent(f) = Patience + paid + (ClientTimeout - ClientTimeout)
    BY <1>1, <1>2, <1>3 DEF Spent, Fresh, AwaitsAnswer
  <1>7. /\ Fits(e) <=> Patience + paid <= LeaseDuration
        /\ Fits(f) <=> Patience + (paid + Round) <= LeaseDuration
    BY <1>1, <1>2, <1>3, <1>5 DEF Fits, Fresh
  <1> HIDE DEF paid
  <1>8. (Fits(f) => Fits(e)) /\ Spent(e) <= Spent(f)
    BY <1>5, <1>6, <1>7, Spans
  <1>9. Active(f) => Active(e)
    BY <1>2, <1>3 DEF Active
  <1>10. Follows(f, e)
    BY <1>2, <1>3, <1>4, <1>8, <1>9 DEF Follows
  <1>. QED  BY <1>10 DEF f, q, p

\* The server refuses a heartbeat: nothing changes until the loop learns of it.
LEMMA RefusedFollows ==
  ASSUME NEW e \in Execution, Sound(e), e.pulse.ask = "asked"
  PROVE  Follows([e EXCEPT !.pulse = [@ EXCEPT !.ask = "refused"]], e)
  <1> DEFINE q == [e.pulse EXCEPT !.ask = "refused"]
             f == [e EXCEPT !.pulse = q]
  <1>1. /\ q \in Pulse /\ q.ask = "refused" /\ q.beat = e.pulse.beat
        /\ (q.due <=> e.pulse.due) /\ q.left = e.pulse.left /\ q.missed = e.pulse.missed
    BY PulseTerms DEF Pulse
  <1> HIDE DEF q
  <1>2. f \in Execution /\ f.pc = e.pc /\ (f.live <=> e.live) /\ f.pulse = q
    BY <1>1, PulseChanges
  <1> HIDE DEF f
  <1>3. Sound(f) /\ (Active(f) <=> Active(e))
    BY <1>1, <1>2 DEF Sound, Active
  <1>4. Fits(f) <=> Fits(e)
    BY <1>1, <1>2 DEF Fits, Fresh
  <1>5. Spent(f) = Spent(e)
    BY <1>1, <1>2 DEF Spent, Fresh, AwaitsAnswer
  <1>6. Spent(e) \in Nat
    BY SpentTerms
  <1>7. Follows(f, e)
    BY <1>2, <1>3, <1>4, <1>5, <1>6 DEF Follows
  <1>. QED  BY <1>7 DEF f, q

LEMMA AnsweredPulse ==
  ASSUME NEW p \in Pulse, NEW m \in Nat
  PROVE  LET q == Answered(p, m)
         IN  /\ q \in Pulse /\ q.beat = p.beat /\ (q.due <=> p.due) /\ q.ask = "no"
             /\ q.left = 0 /\ q.missed = m
  <1> DEFINE q == Answered(p, m)
             r == [p EXCEPT !.ask = "no"]
             t == [r EXCEPT !.left = 0]
  <1>1. r \in Pulse /\ r.beat = p.beat /\ (r.due <=> p.due) /\ r.ask = "no"
    BY DEF Pulse
  <1> HIDE DEF r
  <1>2. t \in Pulse /\ t.beat = p.beat /\ (t.due <=> p.due) /\ t.ask = "no" /\ t.left = 0
    BY <1>1, Spans DEF Pulse
  <1>3. q = [t EXCEPT !.missed = m]
    BY DEF Answered, t, r
  <1> HIDE DEF t, q
  <1>4. /\ q \in Pulse /\ q.beat = p.beat /\ (q.due <=> p.due) /\ q.ask = "no"
        /\ q.left = 0 /\ q.missed = m
    BY <1>2, <1>3 DEF Pulse
  <1>. QED  BY <1>4 DEF q

\* A heartbeat is answered, or comes to nothing: the time it took is the round
\* it is charged, and the next tick is no further away than that.
LEMMA AnsweredFollows ==
  ASSUME NEW e \in Execution, Sound(e), e.pulse.ask # "no", NEW m \in Nat,
         m = e.pulse.missed + 1 \/ (m = 0 /\ e.pulse.ask = "renewed")
  PROVE  Follows([e EXCEPT !.pulse = Answered(@, m)], e)
  <1> DEFINE p == e.pulse
             q == Answered(p, m)
             f == [e EXCEPT !.pulse = q]
             paid == p.missed * Round
             owed == m * Round
  <1>0. p \in Pulse
    BY PulseTerms
  <1>1. /\ q \in Pulse /\ q.beat = p.beat /\ (q.due <=> p.due) /\ q.ask = "no"
        /\ q.left = 0 /\ q.missed = m
    BY <1>0, AnsweredPulse
  <1> HIDE DEF q
  <1>2. f \in Execution /\ f.pc = e.pc /\ (f.live <=> e.live) /\ f.pulse = q
    BY <1>1, PulseChanges
  <1> HIDE DEF f
  <1>3. e.pc # "arriving" /\ f.pc # "arriving"
    BY <1>2 DEF Sound
  <1>4. Sound(f)
    BY <1>1, <1>2, <1>3 DEF Sound
  <1>5. /\ paid \in Nat /\ owed \in Nat
        /\ m = p.missed + 1 => owed = paid + Round
        /\ (p.missed + 1) * Round = paid + Round
        /\ (m + 0) * Round = owed
    BY PulseTerms, Spans
  <1>6. /\ Spent(e) = (IF p.ask = "renewed" THEN 0 ELSE Patience + paid)
                        + (ClientTimeout - p.left)
        /\ Spent(f) = Patience + owed + (IF p.due THEN 0 ELSE 0 - p.beat)
    BY <1>1, <1>2, <1>3 DEF Spent, Fresh, AwaitsAnswer
  <1>7. /\ Fits(e) <=> Patience + (IF p.ask = "renewed" THEN 0 ELSE paid + Round)
                         <= LeaseDuration
        /\ Fits(f) <=> Patience + owed <= LeaseDuration
    BY <1>1, <1>2, <1>3, <1>5 DEF Fits, Fresh
  <1>8. ~p.due => p.beat + (ClientTimeout - p.left) <= HeartbeatEvery
    BY DEF Sound
  <1>9. /\ p.beat \in Nat /\ p.beat <= HeartbeatEvery /\ p.left \in Nat
        /\ p.left <= ClientTimeout
    BY PulseTerms
  <1>10. p.ask # "renewed" => m = p.missed + 1
    OBVIOUS
  <1> HIDE DEF paid, owed, p
  <1>11. Fits(f) => Fits(e)
    BY <1>5, <1>7, <1>10, Spans
  <1>12. Spent(e) <= Spent(f)
    BY <1>5, <1>6, <1>8, <1>9, <1>10, Spans
  <1>13. Active(f) => Active(e)
    BY <1>2, <1>3 DEF Active
  <1>14. Follows(f, e)
    BY <1>2, <1>3, <1>4, <1>11, <1>12, <1>13 DEF Follows
  <1>. QED  BY <1>14 DEF f, q, p

\* A tick brings the lease and the answer, or the next heartbeat, nearer by one.
LEMMA TickingPulse ==
  ASSUME NEW p \in Pulse
  PROVE  LET q == Ticking(p)
         IN  /\ q \in Pulse /\ q.ask = p.ask /\ q.left = p.left /\ q.missed = p.missed
             /\ ~q.due => ~p.due /\ q.beat = p.beat - 1
             /\ (q.due /\ ~p.due) => p.beat = 1
  <1> DEFINE r == [p EXCEPT !.beat = HeartbeatEvery]
             t == [r EXCEPT !.due = TRUE]
             u == [p EXCEPT !.beat = p.beat - 1]
  <1>1. CASE p.beat = 1
    <2>1. r \in Pulse /\ r.ask = p.ask /\ r.left = p.left /\ r.missed = p.missed
      BY Spans DEF Pulse
    <2>2. Ticking(p) = t
      BY <1>1 DEF Ticking
    <2> HIDE DEF r
    <2>3. t \in Pulse /\ t.ask = p.ask /\ t.left = p.left /\ t.missed = p.missed /\ t.due
      BY <2>1 DEF Pulse
    <2>. QED  BY <1>1, <2>2, <2>3
  <1>2. CASE p.beat # 1
    <2>1. p.beat - 1 \in 1..HeartbeatEvery
      BY <1>2, Spans DEF Pulse
    <2>2. Ticking(p) = u
      BY <1>2 DEF Ticking
    <2>3. /\ u \in Pulse /\ u.ask = p.ask /\ u.left = p.left /\ u.missed = p.missed
          /\ (u.due <=> p.due) /\ u.beat = p.beat - 1
      BY <2>1 DEF Pulse
    <2>. QED  BY <2>2, <2>3
  <1>. QED  BY <1>1, <1>2

\* An execution a tick later has used up one tick more of the same lease.
LEMMA LaterExecution ==
  ASSUME NEW e \in Execution, Sound(e), AwaitsAnswer(e) => e.pulse.left > 0,
         ~(e.live /\ e.pulse.due /\ e.pulse.ask = "no")
  PROVE  /\ Later(e) \in Execution /\ Sound(Later(e)) /\ Later(e).pc = e.pc
         /\ Active(Later(e)) /\ Fits(Later(e)) =>
              Active(e) /\ Fits(e) /\ Spent(Later(e)) >= Spent(e) + 1
  <1> DEFINE p == IF e.live THEN Ticking(e.pulse) ELSE e.pulse
             l == p.left - 1
             q == IF AwaitsAnswer(e) THEN [p EXCEPT !.left = l] ELSE p
             f == Later(e)
             paid == e.pulse.missed * Round
  <1>1. /\ p \in Pulse /\ p.ask = e.pulse.ask /\ p.left = e.pulse.left
        /\ p.missed = e.pulse.missed
        /\ e.live => /\ ~p.due => ~e.pulse.due /\ p.beat = e.pulse.beat - 1
                     /\ (p.due /\ ~e.pulse.due) => e.pulse.beat = 1
        /\ ~e.live => p = e.pulse
    BY PulseTerms, TickingPulse
  <1>2. f = [e EXCEPT !.pulse = q]
    BY DEF Later
  <1> HIDE DEF p
  <1>3. AwaitsAnswer(e) => l \in 0..ClientTimeout
    BY <1>1, PulseTerms, Spans
  <1>4. /\ q \in Pulse /\ q.beat = p.beat /\ (q.due <=> p.due) /\ q.ask = p.ask
        /\ q.missed = p.missed
        /\ q.left = IF AwaitsAnswer(e) THEN e.pulse.left - 1 ELSE e.pulse.left
    <2>1. CASE AwaitsAnswer(e)
      <3>1. q = [p EXCEPT !.left = l]
        BY <2>1
      <3> HIDE DEF q
      <3>. QED  BY <1>1, <1>3, <2>1, <3>1 DEF Pulse
    <2>2. CASE ~AwaitsAnswer(e)
      BY <1>1, <2>2
    <2>. QED  BY <2>1, <2>2
  <1> HIDE DEF q
  <1>5. f \in Execution /\ f.pc = e.pc /\ (f.live <=> e.live) /\ f.pulse = q
    BY <1>2, <1>4, PulseChanges
  <1> HIDE DEF f
  <1>6. /\ e.pulse.beat \in Nat /\ 1 <= e.pulse.beat /\ e.pulse.left \in Nat
        /\ e.pulse.left <= ClientTimeout
        /\ p.beat \in Nat /\ p.beat <= HeartbeatEvery
    <2>1. p.beat \in 1..HeartbeatEvery
      BY <1>1 DEF Pulse
    <2>. QED  BY <2>1, PulseTerms, Spans
  <1>7. (AwaitsAnswer(f) <=> AwaitsAnswer(e)) /\ (Fresh(f) <=> Fresh(e)) /\ (Active(f) <=> Active(e))
    BY <1>1, <1>4, <1>5 DEF AwaitsAnswer, Fresh, Active
  <1>8. Fits(f) <=> Fits(e)
    BY <1>1, <1>4, <1>5, <1>7 DEF Fits
  <1>9. paid \in Nat
    BY PulseTerms
  <1>10. /\ Spent(e) = (IF Fresh(e) THEN 0 ELSE Patience + paid)
                         + (IF AwaitsAnswer(e) THEN ClientTimeout - e.pulse.left
                            ELSE IF e.pulse.due THEN 0 ELSE 0 - e.pulse.beat)
         /\ Spent(f) = (IF Fresh(e) THEN 0 ELSE Patience + paid)
                         + (IF AwaitsAnswer(e) THEN ClientTimeout - (e.pulse.left - 1)
                            ELSE IF p.due THEN 0 ELSE 0 - p.beat)
    BY <1>1, <1>4, <1>5, <1>7 DEF Spent
  <1> HIDE DEF paid
  <1>11. ASSUME Active(e)
         PROVE  Spent(f) >= Spent(e) + 1
    <2>1. CASE AwaitsAnswer(e)
      BY <1>6, <1>9, <1>10, <2>1, Spans
    <2>2. CASE ~AwaitsAnswer(e)
      <3>1. e.live /\ ~e.pulse.due /\ ~Fresh(e)
        BY <1>11, <2>2 DEF Active, AwaitsAnswer, Fresh
      <3>2. CASE p.due
        BY <1>1, <1>6, <1>9, <1>10, <2>2, <3>1, <3>2, Spans
      <3>3. CASE ~p.due
        BY <1>1, <1>6, <1>9, <1>10, <2>2, <3>1, <3>3, Spans
      <3>. QED  BY <3>2, <3>3
    <2>. QED  BY <2>1, <2>2
  <1>12. Sound(f)
    <2>1. (f.pc = "arriving" => ~f.live) /\ (~f.live => f.pulse.ask = "no")
      BY <1>1, <1>4, <1>5 DEF Sound
    <2>2. ASSUME f.pulse.ask # "no", ~f.pulse.due
          PROVE  f.pulse.beat + (ClientTimeout - f.pulse.left) <= HeartbeatEvery
      <3>1. AwaitsAnswer(e) /\ e.pulse.ask # "no" /\ ~p.due
        BY <1>1, <1>4, <1>5, <2>2 DEF AwaitsAnswer
      <3>2. f.pulse.left = e.pulse.left - 1 /\ f.pulse.beat = p.beat
        BY <1>4, <1>5, <3>1
      <3>3. e.live
        BY <3>1 DEF Sound
      <3>4. ~e.pulse.due /\ p.beat = e.pulse.beat - 1
        BY <1>1, <3>1, <3>3
      <3>5. e.pulse.beat + (ClientTimeout - e.pulse.left) <= HeartbeatEvery
        BY <3>1, <3>4 DEF Sound
      <3>. QED  BY <1>6, <3>2, <3>4, <3>5, Spans
    <2>. QED  BY <2>1, <2>2 DEF Sound
  <1>. QED  BY <1>5, <1>7, <1>8, <1>11, <1>12 DEF f

-----------------------------------------------------------------------------
(* The steps that hand out a job, renew a lease or let time pass *)

LEMMA CommitHolds ==
  ASSUME IInv, IInv', HoldInv, NoRetries', ExecutionsAreClaims, claims \subseteq claims',
         NEW l \in claiming, CommitClaim(l)
  PROVE  HoldInv'
  <1> DEFINE j == l.job
  <1>0. PICK n, r : n = NextClaim(j, l.worker) /\ r = Grant(j, l.worker, l.lease)
    OBVIOUS
  <1>1. /\ j \in Jobs /\ l.worker \in Workers /\ l.lease = LeaseDuration
        /\ l.lease \in Nat /\ jobs[j].status = "pending"
    BY DEF IInv, TypeOK, Claimings, HoldInv, LockedRowStaysClaimable, Claimable
  <1>2. n.job = j /\ n.token = jobs[j].lease_token + 1
    BY <1>0, <1>1, RowFacts, GrantType DEF NextClaim
  <1>3. r.status = "running" /\ r.lease_until = LeaseDuration
        /\ r.lease_token = jobs[j].lease_token + 1
    BY <1>0, <1>1, RowFacts, GrantType
  <1> DEFINE q == [Idle EXCEPT !.left = ClientTimeout]
             begun == [pc |-> "arriving", live |-> FALSE, pulse |-> q]
  <1>4. /\ jobs' = [jobs EXCEPT ![j] = r] /\ claiming' = claiming \ {l} /\ nacks' = nacks
        /\ net' = net /\ exec' = With(n, begun)
    BY <1>0 DEF CommitClaim, ClaimCommit
  <1>5. n \notin claims /\ n \in claims'
    BY <1>0, NewClaim DEF CommitClaim, ClaimCommit
  <1> HIDE DEF j
  <1>6. jobs'[j] = r
    BY <1>1, <1>4 DEF IInv, TypeOK
  <1>7. Matches(n)'
    BY <1>2, <1>3, <1>6 DEF Matches
  <1>8. q \in Pulse /\ q.ask = "no" /\ q.left = ClientTimeout
    BY IdlePulse, Spans DEF Pulse
  <1> HIDE DEF q
  <1>9. /\ begun \in Execution /\ begun.pc = "arriving" /\ ~begun.live /\ begun.pulse = q
    BY <1>8 DEF Execution
  <1> HIDE DEF begun
  <1>10. Sound(begun) /\ Spent(begun) = 0
    BY <1>8, <1>9, Spans DEF Sound, Spent, Fresh, AwaitsAnswer
  <1>11. /\ DOMAIN exec' = DOMAIN exec \cup {n}
         /\ exec'[n] = begun
         /\ \A c \in DOMAIN exec : c # n /\ exec'[c] = exec[c]
    BY <1>4, <1>5, WithExecution DEF ExecutionsAreClaims
  <1>12. \A c \in DOMAIN exec : GoesOn(c)
    BY <1>11, SameExecutions
  <1>13. \A c : Reported(c)' <=> Reported(c)
    BY <1>4 DEF Reported
  <1>14. ASSUME NEW c \in DOMAIN exec', exec'[c].pc # "reporting"
         PROVE  ~Reported(c)'
    <2>1. CASE c \in DOMAIN exec
      BY <1>11, <1>13, <1>14, <2>1 DEF HoldInv
    <2>2. CASE c = n
      <3>1. ~Reported(c)
        BY <1>5, <2>2 DEF Reported, HoldInv, IInv, TypeOK
      <3>. QED  BY <1>13, <3>1
    <2>. QED  BY <1>11, <2>1, <2>2
  <1>15. ASSUME NEW c \in DOMAIN exec', Working(c)'
         PROVE  Holds(c)'
    <2>1. CASE c # n
      <3>1. c \in DOMAIN exec /\ c \in claims
        BY <1>11, <2>1 DEF ExecutionsAreClaims
      <3>2. HolderKeepsRow(c)
        BY <1>1, <1>4, <3>1, FreeRow
      <3>. QED  BY <1>12, <1>15, <3>1, <3>2, HoldsOn
    <2>2. CASE c = n
      <3>1. Current(n)'
        BY <1>5, <1>7, HolderIsLastNext
      <3>. QED  BY <1>2, <1>3, <1>6, <1>7, <1>10, <1>11, <2>2, <3>1, Spans DEF Holds
    <2>. QED  BY <2>1, <2>2
  <1>16. /\ \A c \in DOMAIN exec' : exec'[c] \in Execution /\ Sound(exec'[c])
         /\ \A k \in claiming' : k.lease = LeaseDuration
         /\ \A m \in net' : m.kind # "claim" => m.claim \in claims'
    BY <1>4, <1>9, <1>10, <1>11 DEF HoldInv
  <1>. QED  BY <1>14, <1>15, <1>16 DEF HoldInv

\* A renewal is for no less than the worker asked for: no less than its claim got.
RenewalsAreWhole == HeartbeatLease(LeaseDuration) >= LeaseDuration

\* It is, unless leases may be shorter than the heartbeat handler's own minimum
\* (which is also the configuration's, where nothing else is set).
LEMMA RenewalsByDefault == HeartbeatFloor <= MinLease => RenewalsAreWhole
  <1>1. LeaseDuration = 0 \/ LeaseDuration \in MinLease..MaxLease
    BY QueueAssumption DEF ClaimLeases
  <1>. QED  BY <1>1, StoreAssumption DEF RenewalsAreWhole, HeartbeatLease

\* The server renews a lease: to no less than any heartbeat loop counts on.
LEMMA RenewalHolds ==
  ASSUME IInv, IInv', HoldInv, NoRetries, NoRetries', ExecutionsAreClaims,
         claims \subseteq claims', RenewalsAreWhole,
         NEW c \in claims, Heartbeat(c) \in net, net' = net \ {Heartbeat(c)},
         ExtendLease(c, LeaseDuration),
         IF c \in DOMAIN exec /\ exec[c].pulse.ask = "asked"
         THEN exec' = [exec EXCEPT ![c].pulse.ask = "renewed"]
         ELSE UNCHANGED exec
  PROVE  HoldInv'
  <1>1. /\ c.job \in Jobs /\ Matches(c) /\ claims' = claims /\ issued' = issued
        /\ jobs' = [jobs EXCEPT ![c.job] = Renewed(c.job, LeaseDuration)]
        /\ claiming' = claiming /\ nacks' = nacks
    BY ClaimFacts DEF ExtendLease, history
  <1>2. /\ DOMAIN exec' = DOMAIN exec
        /\ \A d \in DOMAIN exec : d # c => exec'[d] = exec[d]
    OBVIOUS
  <1>3. \A d \in DOMAIN exec : d \in claims /\ exec[d] \in Execution /\ Sound(exec[d])
    BY DEF ExecutionsAreClaims, HoldInv
  <1>4. ASSUME c \in DOMAIN exec
        PROVE  /\ exec'[c] \in Execution /\ Sound(exec'[c])
               /\ exec'[c].pc = exec[c].pc
    <2>1. CASE exec[c].pulse.ask = "asked"
      <3> DEFINE q == [exec[c].pulse EXCEPT !.ask = "renewed"]
      <3>1. exec'[c] = [exec[c] EXCEPT !.pulse = q]
        BY <1>4, <2>1
      <3>2. /\ q \in Pulse /\ q.ask = "renewed" /\ q.beat = exec[c].pulse.beat
            /\ (q.due <=> exec[c].pulse.due) /\ q.left = exec[c].pulse.left
        BY <1>3, <1>4, PulseTerms DEF Pulse
      <3> HIDE DEF q
      <3>3. /\ exec'[c] \in Execution /\ exec'[c].pc = exec[c].pc
            /\ (exec'[c].live <=> exec[c].live) /\ exec'[c].pulse = q
        BY <1>3, <1>4, <3>1, <3>2, PulseChanges
      <3>4. Sound(exec'[c])
        BY <1>3, <1>4, <2>1, <3>2, <3>3 DEF Sound
      <3>. QED  BY <3>3, <3>4
    <2>2. CASE exec[c].pulse.ask # "asked"
      BY <1>3, <1>4, <2>2
    <2>. QED  BY <2>1, <2>2
  <1>5. /\ jobs'[c.job].status = jobs[c.job].status
        /\ jobs'[c.job].lease_token = jobs[c.job].lease_token
        /\ jobs'[c.job].lease_until = HeartbeatLease(LeaseDuration)
    BY <1>1, RowFacts DEF Renewed, Row, IInv, TypeOK
  <1>6. HeartbeatLease(LeaseDuration) \in Int
    BY Spans, StoreAssumption DEF HeartbeatLease
  <1>7. Matches(c)' /\ c \in claims'
    BY <1>1, <1>5 DEF Matches
  <1>8. ASSUME NEW d \in DOMAIN exec', Working(d)'
        PROVE  Holds(d)'
    <2>1. CASE d = c
      <3>1. Spent(exec'[c]) \in Nat
        BY <1>2, <1>4, <2>1, SpentTerms
      <3>2. jobs'[c.job].lease_until >= LeaseDuration - Spent(exec'[c])
        BY <1>5, <1>6, <3>1, Spans DEF RenewalsAreWhole
      <3>3. Current(c)'
        BY <1>7, HolderIsLastNext
      <3>. QED  BY <1>7, <2>1, <3>2, <3>3 DEF Holds
    <2>2. CASE d # c
      <3>1. d \in claims /\ d \in claims' /\ GoesOn(d)
        BY <1>1, <1>2, <1>3, <2>2, SameExecutions
      <3>2. HolderKeepsRow(d)
        BY <1>1, <2>2, <3>1, OthersRow
      <3>. QED  BY <1>8, <3>1, <3>2, HoldsOn
    <2>. QED  BY <2>1, <2>2
  <1>9. \A d \in DOMAIN exec' : exec'[d] \in Execution /\ Sound(exec'[d])
                               /\ exec'[d].pc = exec[d].pc
    BY <1>2, <1>3, <1>4
  <1>10. \A d : Reported(d)' => Reported(d)
    BY <1>1 DEF Reported
  <1>11. \A d \in DOMAIN exec' : exec'[d].pc # "reporting" => ~Reported(d)'
    BY <1>2, <1>9, <1>10 DEF HoldInv
  <1>12. /\ \A l \in claiming' : l.lease = LeaseDuration
         /\ \A m \in net' : m.kind # "claim" => m.claim \in claims'
    BY <1>1 DEF HoldInv
  <1>. QED  BY <1>8, <1>9, <1>11, <1>12 DEF HoldInv

\* A tick takes as much of the lease as of what covers it.
LEMMA PassHolds ==
  ASSUME IInv, IInv', HoldInv, NoRetries', ExecutionsAreClaims, Pass
  PROVE  HoldInv'
  <1>1. /\ jobs' = [j \in Jobs |-> Aged(j)]
        /\ claims' = claims /\ issued' = issued
        /\ claiming' = claiming /\ nacks' = nacks /\ net' = net
        /\ \A c \in DOMAIN exec : ~HeartbeatDue(c) /\ (AwaitsAnswer(exec[c]) => exec[c].pulse.left > 0)
        /\ exec' = [c \in DOMAIN exec |-> Later(exec[c])]
    BY DEF Pass, Tick, history
  <1>2. \A c \in DOMAIN exec : c \in claims /\ exec[c] \in Execution /\ Sound(exec[c])
    BY DEF ExecutionsAreClaims, HoldInv
  <1>3. ASSUME NEW c \in DOMAIN exec
        PROVE  /\ exec'[c] \in Execution /\ Sound(exec'[c]) /\ exec'[c].pc = exec[c].pc
               /\ Active(exec'[c]) /\ Fits(exec'[c]) =>
                    Active(exec[c]) /\ Fits(exec[c]) /\ Spent(exec'[c]) >= Spent(exec[c]) + 1
    BY <1>1, <1>2, LaterExecution DEF HeartbeatDue
  <1>4. DOMAIN exec' = DOMAIN exec /\ \A d : Reported(d)' <=> Reported(d)
    BY <1>1 DEF Reported
  <1>5. ASSUME NEW c \in DOMAIN exec', Working(c)'
        PROVE  Holds(c)'
    <2>1. c \in claims /\ c \in claims' /\ c \in DOMAIN exec
      BY <1>1, <1>2
    <2>2. Working(c) /\ Spent(exec'[c]) >= Spent(exec[c]) + 1
      BY <1>3, <1>5, <2>1 DEF Working
    <2>3. /\ Matches(c) /\ c.job \in Jobs
          /\ Spent(exec[c]) \in Nat /\ Spent(exec[c]) <= LeaseDuration
          /\ jobs[c.job].lease_until \in Int
          /\ jobs[c.job].lease_until >= LeaseDuration - Spent(exec[c])
      BY <2>1, <2>2, HolderFacts, ClaimFacts
    <2>4. /\ jobs'[c.job].status = jobs[c.job].status
          /\ jobs'[c.job].lease_token = jobs[c.job].lease_token
          /\ jobs'[c.job].lease_until \in Int
          /\ jobs'[c.job].lease_until >= jobs[c.job].lease_until - 1
      <3>1. jobs'[c.job] = Aged(c.job) /\ jobs[c.job].lease_until # NULL
        BY <1>1, <2>3, NoNULL
      <3>2. /\ Countdown(jobs[c.job].lease_until, -1) \in Int
            /\ Countdown(jobs[c.job].lease_until, -1) >= jobs[c.job].lease_until - 1
        BY <2>3 DEF Countdown
      <3>3. Aged(c.job).lease_until = Countdown(jobs[c.job].lease_until, -1)
        BY <2>3, <3>1, RowFacts DEF Aged, Row
      <3>. QED  BY <2>3, <3>1, <3>2, <3>3, RowFacts, AgedType
    <2>5. Matches(c)'
      BY <2>3, <2>4 DEF Matches
    <2>6. Current(c)'
      BY <2>1, <2>5, HolderIsLastNext
    <2>7. Spent(exec'[c]) \in Nat
      BY <1>3, <2>1, SpentTerms
    <2>8. jobs'[c.job].lease_until >= LeaseDuration - Spent(exec'[c])
      BY <2>2, <2>3, <2>4, <2>7, Spans
    <2>. QED  BY <2>5, <2>6, <2>8 DEF Holds
  <1>6. \A c \in DOMAIN exec' : exec'[c].pc # "reporting" => ~Reported(c)'
    BY <1>3, <1>4 DEF HoldInv
  <1>7. (\A m \in net : m.kind # "claim" => m.claim \in claims)'
    BY <1>1 DEF HoldInv
  <1>8. (\A l \in claiming : l.lease = LeaseDuration)'
    BY <1>1 DEF HoldInv
  <1>. QED  BY <1>3, <1>4, <1>5, <1>6, <1>7, <1>8 DEF HoldInv

LEMMA HoldStep ==
  ASSUME IInv, IInv', HoldInv, NoRetries, NoRetries', ExecutionsAreClaims,
         RenewalsAreWhole, [QueueNext]_queueVars
  PROVE  HoldInv'
  <1>1. claims \subseteq claims' /\ \A c \in DOMAIN exec : c \in claims
    BY StoreStep, ClaimsGrow DEF ExecutionsAreClaims
  <1> DEFINE Executing == \A c \in DOMAIN exec' : GoesOn(c)
             Rows == \A c \in DOMAIN exec' : HolderKeepsRow(c)
             Silent == \A c \in DOMAIN exec' :
                         exec'[c].pc # "reporting" => (Reported(c)' => Reported(c))
  \* What the quiet steps have in common.
  <1>2. ASSUME Executing, Rows, claiming' \subseteq claiming, Silent,
               \A m \in net' : m \in net \/ m.kind = "claim" \/ m.claim \in claims
        PROVE  HoldInv'
    <2>1. /\ \A l \in claiming' : l.lease = LeaseDuration
          /\ \A m \in net' : m.kind # "claim" => m.claim \in claims
      BY <1>2 DEF HoldInv
    <2>. QED  BY <1>1, <1>2, <2>1, QuietHold
  <1>3. UNCHANGED jobs => Rows
    BY DEF HolderKeepsRow
  <1>4. UNCHANGED exec => Executing
    BY SameExecutions
  <1>5. \A C : exec' = Without(C) => Executing /\ \A c \in DOMAIN exec' : c \notin C
    BY WithoutExecution
  <1>6. (\A m \in net' : m \in net \/ m.kind \in {"claim", "heartbeat"})
        /\ nacks' \subseteq nacks
        => Silent
    BY DEF Reported
  <1>7. Executing => \A c \in DOMAIN exec' : c \in claims
    BY <1>1 DEF GoesOn
  <1>8. \A w : ClaimRequest(w).kind = "claim"
    BY DEF ClaimRequest
  <1> HIDE DEF Executing, Rows, Silent
  <1>9. ASSUME NEW k \in Jobs, jobs[k].status # "running", NEW r,
               jobs' = [jobs EXCEPT ![k] = r], Executing
        PROVE  Rows
    BY <1>7, <1>9, FreeRow DEF Rows
  <1>10. ASSUME NEW d \in claims, Matches(d), NEW r, jobs' = [jobs EXCEPT ![d.job] = r],
                exec' = Without({d})
         PROVE  Rows
    BY <1>5, <1>7, <1>10, OthersRow DEF Rows
  <1>11. CASE Submit
    <2>1. PICK k \in Jobs, q \in Queues, p \in Priorities, m \in RequestedBudgets,
               d \in RequestedDelays : SubmitJob(k, q, p, m, d)
      BY <1>11 DEF Submit
    <2>2. UNCHANGED <<exec, net, claiming, nacks>> /\ Rows
      BY <1>4, <1>9, <1>11, <2>1 DEF Submit, SubmitJob
    <2>. QED  BY <1>2, <1>4, <1>6, <2>2
  <1>12. CASE Revive
    <2>1. PICK k \in Jobs : ResetDeadJob(k)
      BY <1>12 DEF Revive
    <2>2. UNCHANGED <<exec, net, claiming, nacks>> /\ Rows
      BY <1>4, <1>9, <1>12, <2>1 DEF Revive, ResetDeadJob
    <2>. QED  BY <1>2, <1>4, <1>6, <2>2
  <1>13. CASE Reap
    <2>1. UNCHANGED <<exec, net, claiming, nacks>>
      BY <1>13 DEF Reap, ReapExpiredLeases
    <2>2. Rows
      BY <1>4, <1>7, <1>13, <2>1, ReapedRow DEF Rows, Reap
    <2>. QED  BY <1>2, <1>4, <1>6, <2>1, <2>2
  <1>14. ASSUME NEW w \in Workers, PollClaim(w) \/ ServeNoJob(w) \/ Exit(w) \/ Restart(w)
         PROVE  HoldInv'
    <2>1. /\ UNCHANGED <<exec, jobs, claiming, nacks>>
          /\ \A m \in net' : m \in net \/ m = ClaimRequest(w)
      BY <1>14 DEF PollClaim, ServeNoJob, Exit, Restart, vars
    <2>. QED  BY <1>2, <1>3, <1>4, <1>6, <1>8, <2>1
  <1>15. ASSUME NEW w \in Workers, ServeClaim(w)
         PROVE  HoldInv'
    <2>1. PICK j \in Jobs : ClaimSelect(j, w, Queues, LeaseDuration)
      BY <1>15 DEF ServeClaim
    <2>2. /\ UNCHANGED <<exec, jobs, nacks>> /\ net' \subseteq net
          /\ \A l \in claiming' : l.lease = LeaseDuration
      BY <1>15, <2>1 DEF ServeClaim, ClaimSelect, HoldInv
    <2>3. Executing /\ Rows /\ Silent
      BY <1>3, <1>4, <1>6, <2>2
    <2>. QED  BY <1>1, <2>2, <2>3, QuietHold DEF Executing, Rows, Silent, HoldInv
  <1>16. ASSUME NEW w \in Workers, Stop(w)
         PROVE  HoldInv'
    <2>1. UNCHANGED <<jobs, claiming, nacks, net>>
      BY <1>16 DEF Stop, vars
    <2>2. ASSUME NEW c \in DOMAIN exec'
          PROVE  GoesOn(c)
      <3>1. c \in DOMAIN exec /\ exec[c] \in Execution
        BY <1>16, <2>2 DEF Stop, HoldInv
      <3>2. CASE exec'[c] = exec[c]
        BY <3>1, <3>2, SameExecutions
      <3>3. CASE c.worker = w
        <4>1. exec[c].pc = "handling" /\ exec'[c] = Ended(exec[c])
          BY <1>16, <2>2, <3>3 DEF Stop, Executions, Execution
        <4>. QED  BY <3>1, <4>1, EndedFollows DEF GoesOn
      <3>. QED  BY <1>16, <2>2, <3>2, <3>3 DEF Stop
    <2>3. Executing
      BY <2>2 DEF Executing
    <2>. QED  BY <1>2, <1>3, <1>6, <2>1, <2>3
  <1>17. ASSUME NEW w \in Workers, ClaimTimeout(w) \/ Crash(w)
         PROVE  HoldInv'
    <2>1. UNCHANGED <<jobs, claiming, nacks, net>> /\ \E C : exec' = Without(C)
      BY <1>17 DEF ClaimTimeout, Crash, vars
    <2>. QED  BY <1>2, <1>3, <1>5, <1>6, <2>1
  <1>18. ASSUME NEW l \in claiming, CommitClaim(l)
         PROVE  HoldInv'
    BY <1>1, <1>18, CommitHolds
  <1>19. ASSUME NEW l \in claiming, OrphanClaim(l) \/ FailClaim(l)
         PROVE  HoldInv'
    <2>1. UNCHANGED <<exec, net, nacks>> /\ claiming' \subseteq claiming
      BY <1>19 DEF OrphanClaim, FailClaim, ClaimCommit, ClaimAbort
    <2>2. l.job \in Jobs /\ jobs[l.job].status = "pending"
      BY DEF IInv, TypeOK, Claimings, LockedRowStaysClaimable, Claimable
    <2>3. Rows
      BY <1>3, <1>4, <1>9, <1>19, <2>1, <2>2
      DEF OrphanClaim, FailClaim, ClaimCommit, ClaimAbort
    <2>. QED  BY <1>2, <1>4, <1>6, <2>1, <2>3
  <1>20. ASSUME NEW c \in DOMAIN exec, NEW kind \in Outcomes, HandlerReturns(c, kind)
         PROVE  HoldInv'
    <2>1. UNCHANGED <<jobs, claiming, nacks>>
      BY <1>20 DEF HandlerReturns, vars
    <2>2. CASE loop[c.worker] = "stopping"
      BY <1>2, <1>3, <1>5, <1>6, <1>20, <2>1, <2>2 DEF HandlerReturns
    <2>3. CASE loop[c.worker] # "stopping"
      <3>1. /\ exec' = [exec EXCEPT ![c].pc = "reporting"]
            /\ net' = net \cup {Report(kind, c)}
        BY <1>20, <2>3 DEF HandlerReturns
      <3>2. Executing
        <4>1. exec[c] \in Execution /\ Sound(exec[c])
          BY DEF HoldInv
        <4>. QED  BY <3>1, <4>1, ReportingFollows, OneExecution DEF Executing
      <3>3. Report(kind, c).claim = c /\ exec[c] \in Execution
        BY DEF Report, HoldInv
      <3>4. exec'[c].pc = "reporting"
        BY <3>1, <3>3 DEF Execution
      <3>5. Silent
        BY <2>1, <3>1, <3>3, <3>4 DEF Silent, Reported
      <3>. QED  BY <1>1, <1>2, <1>3, <2>1, <3>1, <3>2, <3>3, <3>5
    <2>. QED  BY <2>2, <2>3
  <1>21. ASSUME NEW c \in DOMAIN exec,
                \/ JobTimeout(c) \/ SendHeartbeat(c) \/ HeartbeatAccepted(c)
                \/ HeartbeatRefused(c) \/ HeartbeatLost(c)
         PROVE  HoldInv'
    <2>1. /\ UNCHANGED <<jobs, claiming, nacks>>
          /\ \A m \in net' : m \in net \/ m = Heartbeat(c)
      BY <1>21
      DEF JobTimeout, SendHeartbeat, HeartbeatAccepted, HeartbeatRefused, HeartbeatLost, vars
    <2>2. Heartbeat(c).kind = "heartbeat" /\ Heartbeat(c).claim = c
      BY DEF Heartbeat
    <2>3. exec[c] \in Execution /\ Sound(exec[c])
      BY DEF HoldInv
    <2>4. CASE JobTimeout(c) \/ HeartbeatRefused(c)
      <3>1. exec' = [exec EXCEPT ![c] = Ended(exec[c])] /\ exec[c].pc # "arriving"
        BY <2>3, <2>4 DEF JobTimeout, HeartbeatRefused, Sound
      <3>2. Executing
        BY <2>3, <3>1, EndedFollows, OneExecution DEF Executing
      <3>. QED  BY <1>1, <1>2, <1>3, <1>6, <2>1, <2>2, <3>2
    <2>5. CASE SendHeartbeat(c)
      <3>1. exec' = [exec EXCEPT ![c] = [exec[c] EXCEPT !.pulse = Asking(@)]]
        BY <2>5 DEF SendHeartbeat
      <3>2. Executing
        BY <2>3, <2>5, <3>1, AskingFollows, OneExecution
        DEF Executing, SendHeartbeat, HeartbeatDue
      <3>. QED  BY <1>1, <1>2, <1>3, <1>6, <2>1, <2>2, <3>2
    <2>6. ASSUME NEW m \in Nat, exec' = [exec EXCEPT ![c].pulse = Answered(@, m)],
                 exec[c].pulse.ask # "no",
                 \/ m = exec[c].pulse.missed + 1
                 \/ m = 0 /\ exec[c].pulse.ask = "renewed"
          PROVE  HoldInv'
      <3>1. exec' = [exec EXCEPT ![c] = [exec[c] EXCEPT !.pulse = Answered(@, m)]]
        BY <2>6
      <3>2. Executing
        BY <2>3, <2>6, <3>1, AnsweredFollows, OneExecution DEF Executing
      <3>. QED  BY <1>1, <1>2, <1>3, <1>6, <2>1, <2>2, <3>2
    <2>7. CASE HeartbeatAccepted(c)
      BY <2>6, <2>7 DEF HeartbeatAccepted
    <2>8. CASE HeartbeatLost(c)
      <3>1. exec[c].pulse.missed + 1 \in Nat
        BY <2>3, PulseTerms
      <3>2. exec' = [exec EXCEPT ![c].pulse = Answered(@, exec[c].pulse.missed + 1)]
        BY <2>8 DEF HeartbeatLost
      <3>. QED  BY <2>6, <2>8, <3>1, <3>2 DEF HeartbeatLost
    <2>. QED  BY <1>21, <2>4, <2>5, <2>7, <2>8
  <1>22. ASSUME NEW c \in DOMAIN exec, ReportTimeout(c)
         PROVE  HoldInv'
    <2>1. UNCHANGED <<jobs, claiming, nacks, net>> /\ exec' = Without({c})
      BY <1>22 DEF ReportTimeout, vars
    <2>. QED  BY <1>2, <1>3, <1>5, <1>6, <2>1
  <1>23. ASSUME NEW c \in claims, ServeAck(c)
         PROVE  HoldInv'
    <2>1. UNCHANGED <<claiming, nacks>> /\ exec' = Without({c}) /\ net' \subseteq net
      BY <1>23 DEF ServeAck, Ack, vars
    <2>2. Rows
      BY <1>3, <1>10, <1>23, <2>1 DEF ServeAck, Ack, vars
    <2>. QED  BY <1>2, <1>5, <1>6, <2>1, <2>2
  <1>24. ASSUME NEW c \in claims, NEW kind \in {"nack", "permanent"}, ServeNAck(c, kind)
         PROVE  HoldInv'
    <2>1. UNCHANGED <<jobs, claiming>> /\ net' \subseteq net /\ Report(kind, c) \in net
      BY <1>24 DEF ServeNAck, NAckRead, vars
    <2>2. CASE NAckRead(c, kind = "permanent") /\ UNCHANGED exec
      <3>1. Reported(c)
        BY <2>1 DEF Reported, Report
      <3>2. \A n \in nacks' : n \in nacks \/ n.claim = c
        BY <2>2 DEF NAckRead
      <3>3. Silent
        BY <2>1, <3>1, <3>2 DEF Silent, Reported
      <3>. QED  BY <1>2, <1>3, <1>4, <2>1, <2>2, <3>3
    <2>3. CASE exec' = Without({c}) /\ UNCHANGED vars
      BY <1>2, <1>3, <1>5, <1>6, <2>1, <2>3 DEF vars
    <2>. QED  BY <1>24, <2>2, <2>3 DEF ServeNAck
  <1>25. ASSUME NEW n \in nacks, FinishNAck(n) \/ FailNAck(n)
         PROVE  HoldInv'
    <2>1. /\ UNCHANGED <<claiming, net>> /\ exec' = Without({n.claim})
          /\ nacks' \subseteq nacks
      BY <1>25
      DEF FinishNAck, FailNAck, NAckBury, NAckReschedule, NAckGivesUp
    <2>2. n.claim \in claims
      BY DEF IInv, TypeOK
    <2>3. Rows
      BY <1>3, <1>10, <1>25, <2>1, <2>2
      DEF FinishNAck, FailNAck, NAckBury, NAckReschedule, NAckGivesUp
    <2>. QED  BY <1>2, <1>5, <1>6, <2>1, <2>3
  <1>26. ASSUME NEW m \in net, DropRequest(m)
         PROVE  HoldInv'
    <2>1. UNCHANGED <<jobs, claiming, nacks, exec>> /\ net' \subseteq net
      BY <1>26 DEF DropRequest, vars
    <2>. QED  BY <1>2, <1>3, <1>4, <1>6, <2>1
  <1>27. CASE UNCHANGED queueVars
    BY <1>2, <1>3, <1>4, <1>6, <1>27 DEF queueVars, vars
  <1>28. ASSUME NEW c \in DOMAIN exec, ReceiveJob(c)
         PROVE  HoldInv'
    <2>1. /\ UNCHANGED <<jobs, claiming, nacks>> /\ exec[c] \in Execution
          /\ exec[c].pc = "arriving"
      BY <1>28 DEF ReceiveJob, vars, HoldInv
    <2>2. Report("permanent", c).claim = c
      BY DEF Report
    <2>3. CASE c.job \notin UnknownJobs
      <3>1. /\ net' = net
            /\ exec' = [exec EXCEPT ![c] = [pc |-> "handling", live |-> TRUE, pulse |-> Idle]]
        BY <1>28, <2>3 DEF ReceiveJob
      <3>2. Executing
        BY <2>1, <3>1, ReceivedFollows, OneExecution DEF Executing
      <3>. QED  BY <1>2, <1>3, <1>6, <2>1, <3>1, <3>2
    <2>4. CASE c.job \in UnknownJobs
      <3>1. /\ net' = net \cup {Report("permanent", c)}
            /\ exec' = [exec EXCEPT ![c] = [pc |-> "reporting", live |-> FALSE, pulse |-> Idle]]
        BY <1>28, <2>4 DEF ReceiveJob
      <3>2. Executing
        BY <2>1, <3>1, ReceivedFollows, OneExecution DEF Executing
      <3>3. exec'[c].pc = "reporting"
        BY <3>1
      <3>4. Silent
        BY <2>1, <2>2, <3>1, <3>3 DEF Silent, Reported
      <3>. QED  BY <1>1, <1>2, <1>3, <2>1, <2>2, <3>1, <3>2, <3>4
    <2>. QED  BY <2>3, <2>4
  <1>29. ASSUME NEW c \in claims, ServeHeartbeat(c)
         PROVE  HoldInv'
    <2>0. net' \subseteq net
      BY <1>29 DEF ServeHeartbeat
    <2>1. PICK answer \in {"renewed", "refused"} :
            /\ IF answer = "renewed" THEN ExtendLease(c, LeaseDuration)
                                     ELSE ~Renewable(c) /\ UNCHANGED vars
            /\ IF c \in DOMAIN exec /\ exec[c].pulse.ask = "asked"
               THEN exec' = [exec EXCEPT ![c].pulse.ask = answer]
               ELSE UNCHANGED exec
      BY <1>29 DEF ServeHeartbeat
    <2>2. CASE answer = "renewed"
      BY <1>1, <1>29, <2>1, <2>2, RenewalHolds DEF ServeHeartbeat
    <2>3. CASE answer = "refused"
      <3>1. UNCHANGED <<jobs, claiming, nacks>>
        BY <2>1, <2>3 DEF vars
      <3>2. CASE c \in DOMAIN exec /\ exec[c].pulse.ask = "asked"
        <4>1. exec[c] \in Execution /\ Sound(exec[c])
          BY <3>2 DEF HoldInv
        <4>2. exec' = [exec EXCEPT ![c] = [exec[c] EXCEPT !.pulse = [@ EXCEPT !.ask = "refused"]]]
          BY <2>1, <2>3, <3>2
        <4>3. Executing
          BY <3>2, <4>1, <4>2, RefusedFollows, OneExecution DEF Executing
        <4>. QED  BY <1>2, <1>3, <1>6, <2>0, <3>1, <4>3
      <3>3. CASE UNCHANGED exec
        BY <1>2, <1>3, <1>4, <1>6, <2>0, <3>1, <3>3
      <3>. QED  BY <2>1, <3>2, <3>3
    <2>. QED  BY <2>2, <2>3
  <1>. QED
    BY <1>11, <1>12, <1>13, <1>14, <1>15, <1>16, <1>17, <1>18, <1>19, <1>20, <1>21,
       <1>22, <1>23, <1>24, <1>25, <1>26, <1>27, <1>28, <1>29, PassHolds
    DEF QueueNext, LoopStep, ClaimStep, HeartbeatStep, ServeReport

\* As long as the operator retries nothing and the heartbeat handler grants no
\* less than a worker asks for (as it does by default), a handler whose
\* heartbeats are lost or slow, but cost no more rounds than its lease covers,
\* is alone with its job.
THEOREM HeartbeatsHold ==
  ASSUME RenewalsAreWhole
  PROVE  QueueSpec /\ []NoRetries => []LeaseOutlivesLostHeartbeats
  <1>1. QueueSpec => []IInv /\ []ExecutionsAreClaims
    BY QueueSteps, Invariant, PTL
  <1>2. /\ IInv /\ IInv' /\ HoldInv /\ NoRetries /\ NoRetries' /\ ExecutionsAreClaims
        /\ [QueueNext]_queueVars
        => HoldInv'
    BY HoldStep
  <1>3. IInv /\ HoldInv /\ ExecutionsAreClaims => LeaseOutlivesLostHeartbeats
    <2> SUFFICES ASSUME IInv, HoldInv, ExecutionsAreClaims, NEW c \in DOMAIN exec,
                        exec[c].pc = "handling", exec[c].live,
                        Silence(exec[c].pulse) <= LeaseDuration
                 PROVE  Matches(c) /\ Current(c) /\ jobs[c.job].lease_until >= 0
      BY DEF LeaseOutlivesLostHeartbeats
    <2>1. c \in claims /\ exec[c] \in Execution
      BY DEF ExecutionsAreClaims, HoldInv
    <2>2. Fits(exec[c])
      <3> DEFINE rounds == (exec[c].pulse.missed
                              + (IF exec[c].pulse.ask = "no" THEN 0 ELSE 1)) * Round
      <3>1. rounds \in Nat
        BY <2>1, PulseTerms, Spans
      <3>2. Patience + rounds <= LeaseDuration
        BY DEF Silence, Patience
      <3>3. Fits(exec[c]) <=> Patience + (IF Fresh(exec[c]) THEN 0 ELSE rounds) <= LeaseDuration
        BY DEF Fits
      <3> HIDE DEF rounds
      <3>. QED  BY <3>1, <3>2, <3>3, Spans
    <2>3. Working(c)
      BY <2>2 DEF Working, Active
    <2>. QED  BY <2>1, <2>3, HolderFacts DEF HoldInv, Holds
  <1>. QED  BY <1>1, <1>2, <1>3, HoldInit, PTL DEF QueueSpec
=============================================================================
