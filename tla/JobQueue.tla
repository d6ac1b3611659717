------------------------------ MODULE JobQueue ------------------------------
(***************************************************************************)
(* jobq as it runs: the server of JobStore, the network, and the worker    *)
(* processes of the Go SDK, each with its claim loop, its slots, one       *)
(* handler and one heartbeat loop per job, its shutdown and its crashes.   *)
(*                                                                         *)
(* An execution is known by the claim it works under, so `exec' is a       *)
(* function on the claims being executed.  Requests wait in `net' until    *)
(* the server takes them up, in any order; a client that stops waiting     *)
(* leaves its request there.  The replies to a claim and to a heartbeat    *)
(* may take as long as the client waits for them.  The heartbeat loop asks *)
(* and waits in one goroutine: while it waits, the first tick of its       *)
(* ticker is kept in the channel and later ones are dropped.  A heartbeat  *)
(* that is due goes out before time moves on, and no client waits longer   *)
(* than its timeout.                                                       *)
(***************************************************************************)
EXTENDS JobStore

CONSTANTS
  Concurrency,     \* slots of a worker
  LeaseDuration,   \* lease a worker asks for
  HeartbeatEvery,  \* period of the ticker of a heartbeat loop
  ClientTimeout,   \* ticks the HTTP client waits for an answer
  UnknownJobs,     \* jobs whose type has no handler registered
  MaxLosses,       \* bound: requests, replies or statements lost or too late
  MaxFaults        \* bound: crashes and shutdowns of workers

ASSUME QueueAssumption ==
  /\ Concurrency \in Nat \ {0}
  /\ LeaseDuration \in ClaimLeases
  /\ HeartbeatEvery \in Nat \ {0}
  /\ ClientTimeout \in Nat \ {0}
  /\ UnknownJobs \subseteq Jobs
  /\ MaxLosses \in Nat /\ MaxFaults \in Nat

VARIABLES
  loop,    \* worker -> where its Run loop is
  exec,    \* claim under execution -> state of the execution
  net,     \* requests the server has not taken up yet
  losses,  \* losses so far
  faults,  \* faults so far
  unsent   \* history: claims whose handler succeeded and whose ack was never sent

queueVars == <<vars, loop, exec, net, losses, faults, unsent>>

\* The Run loop waits for a free slot or for the next poll, waits for the
\* server to take up its claim, waits for the job it was handed, has returned
\* and waits for its executions (draining after a failed claim, stopping after
\* its context was cancelled), or the process is gone.
LoopStates == {"waiting", "claiming", "receiving", "draining", "stopping", "down"}

\* A heartbeat loop.  beat: ticks until its ticker fires.  due: a tick is in
\* the channel.  ask: the heartbeat it waits for, if any, has not been answered
\* by the server, or has and the answer is on its way.  left: how long the
\* client still waits.  missed: heartbeats in a row that came to nothing.
Pulse == [beat: 1..HeartbeatEvery, due: BOOLEAN,
          ask: {"no", "asked", "renewed", "refused"},
          left: 0..ClientTimeout, missed: Nat]

\* live: the handler's context is not done, and its heartbeats go out.  A job
\* that is arriving has been handed out; left is for the reply to the claim.
Execution == [pc: {"arriving", "handling", "reporting"}, live: BOOLEAN, pulse: Pulse]

Request == [kind: {"claim"}, worker: Workers]
           \cup [kind: {"ack", "nack", "permanent", "heartbeat"}, claim: Claims]

QueueTypeOK ==
  /\ TypeOK
  /\ loop \in [Workers -> LoopStates]
  /\ DOMAIN exec \in SUBSET claims
  /\ \A c \in DOMAIN exec : exec[c] \in Execution
  /\ net \in SUBSET Request
  /\ losses \in 0..MaxLosses
  /\ faults \in 0..MaxFaults
  /\ unsent \in SUBSET claims

QueueInit ==
  /\ Init
  /\ loop = [w \in Workers |-> "waiting"]
  /\ exec = <<>>
  /\ net = {}
  /\ losses = 0
  /\ faults = 0
  /\ unsent = {}

-----------------------------------------------------------------------------
ClaimRequest(w) == [kind |-> "claim", worker |-> w]
Report(kind, c) == [kind |-> kind, claim |-> c]
Heartbeat(c) == [kind |-> "heartbeat", claim |-> c]

Executions(w) == {c \in DOMAIN exec : c.worker = w}

\* exec with execution e of claim c, and without the executions in C.
With(c, e) == [d \in DOMAIN exec \cup {c} |-> IF d = c THEN e ELSE exec[d]]
Without(C) == [c \in DOMAIN exec \ C |-> exec[c]]

Lose == losses < MaxLosses /\ losses' = losses + 1
Fault == faults < MaxFaults /\ faults' = faults + 1

\* A claim of w whose answer may still come.
Unanswered(w) ==
  \/ ClaimRequest(w) \in net
  \/ \E l \in claiming : l.worker = w
  \/ loop[w] = "receiving"

\* A report of c that the server has not answered.
Reported(c) ==
  \/ \E m \in net : m.kind \notin {"claim", "heartbeat"} /\ m.claim = c
  \/ \E n \in nacks : n.claim = c

-----------------------------------------------------------------------------
(* Producers and operators *)

Submit ==
  /\ \E j \in Jobs, q \in Queues, p \in Priorities,
        m \in RequestedBudgets, d \in RequestedDelays : SubmitJob(j, q, p, m, d)
  /\ UNCHANGED <<loop, exec, net, losses, faults, unsent>>

Revive ==
  /\ \E j \in Jobs : ResetDeadJob(j)
  /\ UNCHANGED <<loop, exec, net, losses, faults, unsent>>

-----------------------------------------------------------------------------
(* The Run loop *)

\* Mutation: no slot is taken.
PollClaimWithoutSlot(w) ==
  /\ loop[w] = "waiting"
  /\ ~Unanswered(w)
  /\ loop' = [loop EXCEPT ![w] = "claiming"]
  /\ net' = net \cup {ClaimRequest(w)}
  /\ UNCHANGED <<vars, exec, losses, faults, unsent>>

\* A free slot is taken and a claim is sent.  (Bound: a claim that the worker
\* gave up on earlier has been answered by then.)
PollClaim(w) ==
  /\ loop[w] = "waiting"
  /\ Cardinality(Executions(w)) < Concurrency
  /\ ~Unanswered(w)
  /\ loop' = [loop EXCEPT ![w] = "claiming"]
  /\ net' = net \cup {ClaimRequest(w)}
  /\ UNCHANGED <<vars, exec, losses, faults, unsent>>

\* The server takes a claim up and locks a row for it ...
ServeClaim(w) ==
  /\ ClaimRequest(w) \in net
  /\ \E j \in Jobs : ClaimSelect(j, w, Queues, LeaseDuration)
  /\ net' = net \ {ClaimRequest(w)}
  /\ UNCHANGED <<loop, exec, losses, faults, unsent>>

\* ... or answers 204, and the loop sleeps for the poll interval.
ServeNoJob(w) ==
  /\ ClaimRequest(w) \in net
  /\ ~\E j \in Jobs \ Locked : Claimable(j, Queues)
  /\ net' = net \ {ClaimRequest(w)}
  /\ loop' = IF loop[w] = "claiming" THEN [loop EXCEPT ![w] = "waiting"] ELSE loop
  /\ UNCHANGED <<vars, exec, losses, faults, unsent>>

\* A heartbeat loop that has just started, or has ended.
Idle == [beat |-> HeartbeatEvery, due |-> FALSE, ask |-> "no", left |-> 0, missed |-> 0]

\* The claim commits and the job is on its way to its worker ...
CommitClaim(l) ==
  /\ loop[l.worker] = "claiming"
  /\ ClaimCommit(l)
  /\ exec' = With(NextClaim(l.job, l.worker),
                  [pc |-> "arriving", live |-> FALSE,
                   pulse |-> [Idle EXCEPT !.left = ClientTimeout]])
  /\ loop' = [loop EXCEPT ![l.worker] = "receiving"]
  /\ UNCHANGED <<net, losses, faults, unsent>>

\* ... where a handler is started for it, with its heartbeat loop; a job of a
\* type without a handler is reported as failed for good.
ReceiveJob(c) ==
  /\ exec[c].pc = "arriving"
  /\ IF c.job \in UnknownJobs
     THEN /\ exec' = [exec EXCEPT ![c] = [pc |-> "reporting", live |-> FALSE, pulse |-> Idle]]
          /\ net' = net \cup {Report("permanent", c)}
     ELSE /\ exec' = [exec EXCEPT ![c] = [pc |-> "handling", live |-> TRUE, pulse |-> Idle]]
          /\ UNCHANGED net
  /\ loop' = [loop EXCEPT ![c.worker] = "waiting"]
  /\ UNCHANGED <<vars, losses, faults, unsent>>

\* The claim commits for a worker that no longer waits.
OrphanClaim(l) ==
  /\ loop[l.worker] # "claiming"
  /\ ClaimCommit(l)
  /\ UNCHANGED <<loop, exec, net, losses, faults, unsent>>

\* The claim statement fails; the worker gets a 500.
FailClaim(l) ==
  /\ ClaimAbort(l)
  /\ Lose
  /\ loop' = IF loop[l.worker] = "claiming"
             THEN [loop EXCEPT ![l.worker] = "draining"] ELSE loop
  /\ UNCHANGED <<exec, net, faults, unsent>>

\* Any error but "no job" ends the Run loop: the client gave up on a claim,
\* answered too late or never.
ClaimTimeout(w) ==
  /\ loop[w] \in {"claiming", "receiving"}
  /\ IF Unanswered(w) THEN Lose ELSE UNCHANGED losses
  /\ loop' = [loop EXCEPT ![w] = "draining"]
  /\ exec' = Without({c \in Executions(w) : exec[c].pc = "arriving"})
  /\ UNCHANGED <<vars, net, faults, unsent>>

-----------------------------------------------------------------------------
(* Executions *)

\* The handler returns and its outcome is sent, under the context of Run: once
\* that is cancelled the request fails before it leaves the worker.
HandlerReturns(c, kind) ==
  /\ exec[c].pc = "handling"
  /\ IF loop[c.worker] = "stopping"
     THEN /\ exec' = Without({c})
          /\ unsent' = IF kind = "ack" THEN unsent \cup {c} ELSE unsent
          /\ UNCHANGED net
     ELSE /\ exec' = [exec EXCEPT ![c].pc = "reporting"]
          /\ net' = net \cup {Report(kind, c)}
          /\ UNCHANGED unsent
  /\ UNCHANGED <<vars, loop, losses, faults>>

\* The handler's context is done, its heartbeat loop with it.
Ended(e) == [e EXCEPT !.live = FALSE, !.pulse = Idle]

\* That is so after JobTimeout, the handler notwithstanding.
JobTimeout(c) ==
  /\ exec[c].live
  /\ exec' = [exec EXCEPT ![c] = Ended(@)]
  /\ UNCHANGED <<vars, loop, net, losses, faults, unsent>>

HeartbeatDue(c) == exec[c].live /\ exec[c].pulse.due /\ exec[c].pulse.ask = "no"

Asking(p) == [p EXCEPT !.due = FALSE, !.ask = "asked", !.left = ClientTimeout]
Answered(p, missed) == [p EXCEPT !.ask = "no", !.left = 0, !.missed = missed]

\* The loop takes the tick, sends a heartbeat and waits for the answer.
SendHeartbeat(c) ==
  /\ HeartbeatDue(c)
  /\ net' = net \cup {Heartbeat(c)}
  /\ exec' = [exec EXCEPT ![c].pulse = Asking(@)]
  /\ UNCHANGED <<vars, loop, losses, faults, unsent>>

Renewable(c) == Matches(c) /\ jobs[c.job].lease_owner = c.worker

\* The answer is on its way to whoever still waits for it.
ServeHeartbeat(c) ==
  /\ Heartbeat(c) \in net
  /\ net' = net \ {Heartbeat(c)}
  /\ \E answer \in {"renewed", "refused"} :
       /\ IF answer = "renewed" THEN ExtendLease(c, LeaseDuration)
                                ELSE ~Renewable(c) /\ UNCHANGED vars
       /\ IF c \in DOMAIN exec /\ exec[c].pulse.ask = "asked"
          THEN exec' = [exec EXCEPT ![c].pulse.ask = answer]
          ELSE UNCHANGED exec
  /\ UNCHANGED <<loop, losses, faults, unsent>>

HeartbeatAccepted(c) ==
  /\ exec[c].pulse.ask = "renewed"
  /\ exec' = [exec EXCEPT ![c].pulse = Answered(@, 0)]
  /\ UNCHANGED <<vars, loop, net, losses, faults, unsent>>

\* 409: the handler's context is cancelled.
HeartbeatRefused(c) ==
  /\ exec[c].pulse.ask = "refused"
  /\ exec' = [exec EXCEPT ![c] = Ended(@)]
  /\ UNCHANGED <<vars, loop, net, losses, faults, unsent>>

\* A heartbeat whose answer may still come.
Awaited(c) == Heartbeat(c) \in net \/ exec[c].pulse.ask # "asked"

\* Any other error, the timeout of the client the slowest of them, is logged
\* and the loop goes on.
HeartbeatLost(c) ==
  /\ exec[c].pulse.ask # "no"
  /\ IF Awaited(c) THEN Lose ELSE UNCHANGED losses
  /\ exec' = [exec EXCEPT ![c].pulse = Answered(@, @.missed + 1)]
  /\ UNCHANGED <<vars, loop, net, faults, unsent>>

\* The server's answer to an ack frees the slot, whatever it says.
ServeAck(c) ==
  /\ Report("ack", c) \in net
  /\ Ack(c) \/ (~Matches(c) /\ UNCHANGED vars)
  /\ net' = net \ {Report("ack", c)}
  /\ exec' = Without({c})
  /\ UNCHANGED <<loop, losses, faults, unsent>>

\* The first statement of a nack; a mismatch answers at once.
ServeNAck(c, kind) ==
  /\ Report(kind, c) \in net
  /\ kind # "ack"
  /\ \/ NAckRead(c, kind = "permanent") /\ UNCHANGED exec
     \/ ~Matches(c) /\ exec' = Without({c}) /\ UNCHANGED vars
  /\ net' = net \ {Report(kind, c)}
  /\ UNCHANGED <<loop, losses, faults, unsent>>

\* The second one, found a match or not.
FinishNAck(n) ==
  /\ NAckBury(n) \/ NAckReschedule(n) \/ (~Matches(n.claim) /\ NAckGivesUp(n))
  /\ exec' = Without({n.claim})
  /\ UNCHANGED <<loop, net, losses, faults, unsent>>

\* The server stops, or loses the database, between the two.
FailNAck(n) ==
  /\ Matches(n.claim)
  /\ NAckGivesUp(n)
  /\ Lose
  /\ exec' = Without({n.claim})
  /\ UNCHANGED <<loop, net, faults, unsent>>

\* The client stops waiting for the answer to a report.  The request may still
\* be served later.
ReportTimeout(c) ==
  /\ exec[c].pc = "reporting"
  /\ IF Reported(c) THEN Lose ELSE UNCHANGED losses
  /\ exec' = Without({c})
  /\ UNCHANGED <<vars, loop, net, faults, unsent>>

\* A request is lost on its way.
DropRequest(m) ==
  /\ Lose
  /\ net' = net \ {m}
  /\ UNCHANGED <<vars, loop, exec, faults, unsent>>

-----------------------------------------------------------------------------
(* Worker processes *)

\* The context of Run is cancelled.  Handlers see their context done, requests
\* under way are abandoned by the client.
Stop(w) ==
  /\ loop[w] \notin {"stopping", "down"}
  /\ Fault
  /\ loop' = [loop EXCEPT ![w] = "stopping"]
  /\ exec' = [c \in DOMAIN exec \ {e \in Executions(w) : exec[e].pc # "handling"} |->
                IF c.worker = w THEN Ended(exec[c]) ELSE exec[c]]
  /\ UNCHANGED <<vars, net, losses, unsent>>

\* Run waits for its executions before it returns.
Exit(w) ==
  /\ loop[w] \in {"draining", "stopping"}
  /\ Executions(w) = {}
  /\ loop' = [loop EXCEPT ![w] = "down"]
  /\ UNCHANGED <<vars, exec, net, losses, faults, unsent>>

Crash(w) ==
  /\ loop[w] # "down"
  /\ Fault
  /\ loop' = [loop EXCEPT ![w] = "down"]
  /\ exec' = Without(Executions(w))
  /\ UNCHANGED <<vars, net, losses, unsent>>

\* A new process under the same worker id.
Restart(w) ==
  /\ loop[w] = "down"
  /\ loop' = [loop EXCEPT ![w] = "waiting"]
  /\ UNCHANGED <<vars, exec, net, losses, faults, unsent>>

-----------------------------------------------------------------------------
Reap ==
  /\ ReapExpiredLeases
  /\ UNCHANGED <<loop, exec, net, losses, faults, unsent>>

\* A client waits for the job, or for an answer to its heartbeat.
AwaitsAnswer(e) == e.pc = "arriving" \/ e.pulse.ask # "no"

\* The ticker puts a tick into the channel, which holds one.
Ticking(p) ==
  IF p.beat = 1 THEN [p EXCEPT !.beat = HeartbeatEvery, !.due = TRUE]
                ELSE [p EXCEPT !.beat = @ - 1]

\* An execution a tick later.
Later(e) ==
  LET p == IF e.live THEN Ticking(e.pulse) ELSE e.pulse
  IN  [e EXCEPT !.pulse = IF AwaitsAnswer(e) THEN [p EXCEPT !.left = @ - 1] ELSE p]

Pass ==
  /\ \A c \in DOMAIN exec : ~HeartbeatDue(c) /\ (AwaitsAnswer(exec[c]) => exec[c].pulse.left > 0)
  /\ Tick
  /\ exec' = [c \in DOMAIN exec |-> Later(exec[c])]
  /\ UNCHANGED <<loop, net, losses, faults, unsent>>

Outcomes == {"ack", "nack"}

LoopStep(w) == PollClaim(w) \/ ServeClaim(w) \/ ServeNoJob(w)

ClaimStep(l) == CommitClaim(l) \/ OrphanClaim(l) \/ FailClaim(l)

HeartbeatStep(c) == SendHeartbeat(c) \/ HeartbeatAccepted(c) \/ HeartbeatRefused(c)

ServeReport(c) ==
  \/ ServeAck(c)
  \/ \E kind \in {"nack", "permanent"} : ServeNAck(c, kind)

QueueNext ==
  \/ Submit \/ Revive \/ Reap \/ Pass
  \/ \E w \in Workers : \/ LoopStep(w) \/ ClaimTimeout(w)
                        \/ Stop(w) \/ Exit(w) \/ Crash(w) \/ Restart(w)
  \/ \E l \in claiming : ClaimStep(l)
  \/ \E c \in DOMAIN exec : \/ \E kind \in Outcomes : HandlerReturns(c, kind)
                            \/ ReceiveJob(c) \/ JobTimeout(c) \/ ReportTimeout(c)
                            \/ HeartbeatStep(c) \/ HeartbeatLost(c)
  \/ \E c \in claims : ServeReport(c) \/ ServeHeartbeat(c)
  \/ \E n \in nacks : FinishNAck(n) \/ FailNAck(n)
  \/ \E m \in net : DropRequest(m)

QueueSpec == QueueInit /\ [][QueueNext]_queueVars

\* Time passes, the reaper's ticker fires, the server answers what reaches it
\* and its answers arrive, heartbeats go out and are waited for no longer than
\* they can be answered, handlers return (they are given a context with a
\* timeout), and a worker that ended is started again.  Nothing makes a
\* request or a worker fail, and nothing protects one from it.
Fairness ==
  /\ WF_queueVars(Pass)
  /\ WF_queueVars(Reap)
  /\ \A w \in Workers :
       /\ WF_queueVars(LoopStep(w))
       /\ WF_queueVars(ClaimTimeout(w) /\ ~Unanswered(w))
       /\ WF_queueVars(Exit(w))
       /\ WF_queueVars(Restart(w))
  /\ WF_queueVars(\E l \in claiming : CommitClaim(l) \/ OrphanClaim(l))
  /\ WF_queueVars(\E c \in DOMAIN exec : ReceiveJob(c))
  /\ WF_queueVars(\E c \in DOMAIN exec : \E kind \in Outcomes : HandlerReturns(c, kind))
  /\ WF_queueVars(\E c \in DOMAIN exec : HeartbeatStep(c))
  /\ WF_queueVars(\E c \in DOMAIN exec : HeartbeatLost(c) /\ ~Awaited(c))
  /\ WF_queueVars(\E c \in claims : ServeReport(c))
  /\ WF_queueVars(\E c \in claims : ServeHeartbeat(c))
  /\ WF_queueVars(\E n \in nacks : FinishNAck(n))
  /\ WF_queueVars(\E c \in DOMAIN exec : ReportTimeout(c) /\ ~Reported(c))

FairQueueSpec == QueueSpec /\ Fairness

-----------------------------------------------------------------------------
(* Properties *)

\* A worker never has more jobs in hand than its concurrency, the one it is
\* about to be handed included, whatever is lost and however it ends.
SlotsAreEnough ==
  \A w \in Workers :
    Cardinality(Executions(w)) + (IF loop[w] = "claiming" THEN 1 ELSE 0) <= Concurrency

\* The longest a heartbeat that came to nothing holds up the next one.
Round == IF HeartbeatEvery > ClientTimeout THEN HeartbeatEvery ELSE ClientTimeout

\* How old the lease may be for what its heartbeat loop has seen: the reply to
\* the claim (or to the last renewal) came late, the first heartbeat went out
\* an interval later, and every one that was missed or is under way has taken
\* a round.
Silence(p) ==
  HeartbeatEvery + ClientTimeout
    + (p.missed + (IF p.ask = "no" THEN 0 ELSE 1)) * Round

\* The interval (a third of the lease by default, in NewWorker) and the timeout
\* of the client against the lease: as long as the lease covers the heartbeats
\* that were lost in a row, however slowly they were lost, a handler whose
\* context is not done works under the job's last claim and a lease that has
\* not ended.  Nobody else is given its job meanwhile.
LeaseOutlivesLostHeartbeats ==
  \A c \in DOMAIN exec :
    (/\ exec[c].pc = "handling"
     /\ exec[c].live
     /\ Silence(exec[c].pulse) <= LeaseDuration) =>
       /\ Matches(c) /\ Current(c)
       /\ jobs[c.job].lease_until >= 0

\* The last attempt was taken back by the reaper: no claim takes the job any
\* more and nothing buries it.
Stranded(j) ==
  /\ jobs[j].status = "pending"
  /\ jobs[j].attempts >= jobs[j].max_attempts

\* Crashes, shutdowns, lost requests, lost replies, late answers and slow
\* handlers delay a job but never lose it: it is completed, dead, or in the
\* one state the code has no way out of.
EveryJobEnds ==
  \A j \in Jobs :
    jobs[j].status # "absent" ~>
      (jobs[j].status \in {"completed", "dead"} \/ Stranded(j))

\* What the documentation says of a shutdown: a job in flight when the context
\* of Run is cancelled is allowed to finish (documentation/phase2.md, "Graceful
\* Shutdown"), and the test of it expects the job to be completed.  The code
\* reports the outcome under the cancelled context.
ShutdownReportsFinishedWork == unsent = {}
=============================================================================
