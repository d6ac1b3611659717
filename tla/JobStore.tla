------------------------------ MODULE JobStore ------------------------------
(***************************************************************************)
(* The jobq server: the jobs table in PostgreSQL, the HTTP handlers that   *)
(* change it (submit, claim, ack, nack, heartbeat, retry) and the lease    *)
(* reaper.                                                                 *)
(*                                                                         *)
(* A SQL statement is one atomic step, but for two cases.  A claim picks   *)
(* its row with FOR UPDATE SKIP LOCKED and holds it locked until it        *)
(* commits: in between it is in `claiming', and other claims pass the row  *)
(* over.  A nack is two statements, a SELECT that decides and an UPDATE    *)
(* that writes, with no transaction around them: the decision waits in     *)
(* `nacks' and anything may happen in between.                             *)
(*                                                                         *)
(* The clients are left entirely free: any claim ever handed out may be    *)
(* presented again, at any time and any number of times.  A slow worker,   *)
(* a delayed or repeated request, a worker that died and the request it    *)
(* left in the network are all special cases of this.                      *)
(*                                                                         *)
(* Time is relative.  run_at is the number of ticks until the job is due,  *)
(* 0 for "run_at <= now()"; lease_until is the number of ticks until the   *)
(* lease ends, 0 for "lease_until = now()" and -1 for "lease_until <       *)
(* now()", which is where Tick stops counting.                             *)
(***************************************************************************)
EXTENDS Integers, FiniteSets

CONSTANTS
  Jobs,             \* job ids
  Workers,          \* worker ids, the lease_owner column
  Queues,           \* queue names
  Priorities,       \* priorities a producer may give
  RequestedBudgets, \* max_attempts values a producer may send
  RequestedDelays,  \* delays (in ticks) until run_at a producer may ask for
  RequestedLeases,  \* lease durations (in ticks) a worker may ask for
  DefaultBudget,    \* max_attempts when none, or none positive, is sent
  DefaultLease,     \* LeaseDurationIncrement of the configuration
  MinLease,         \* MinLeaseDurationSeconds
  MaxLease,         \* MaxLeaseDurationSeconds
  HeartbeatFloor,   \* the 5 seconds written in the heartbeat handler
  HeartbeatCeiling, \* the 600 seconds written in the heartbeat handler
  MaxDelay,         \* cap of the backoff
  BaseDelay,        \* base of the backoff
  GlobalMaxAttempts,\* cap of the backoff's exponent
  MaxRevivals,      \* bound: operator retries of one job
  MaxPendingNacks,  \* bound: nack handlers between their two statements
  NULL              \* SQL NULL

ASSUME StoreAssumption ==
  /\ IsFiniteSet(Jobs)
  /\ Priorities \subseteq Int
  /\ RequestedBudgets \subseteq Int
  /\ RequestedDelays \subseteq Nat
  /\ RequestedLeases \subseteq Nat
  /\ DefaultBudget \in Nat \ {0}
  /\ MinLease \in Nat /\ MaxLease \in Nat /\ DefaultLease \in Nat
  /\ MinLease < MaxLease
  /\ HeartbeatFloor \in Nat /\ HeartbeatCeiling \in Nat
  /\ MaxDelay \in Nat /\ BaseDelay \in Nat /\ GlobalMaxAttempts \in 1..30
  /\ MaxRevivals \in Nat /\ MaxPendingNacks \in Nat
  /\ NULL \notin Int \cup Workers \cup Queues

VARIABLES
  jobs,     \* the table: job id -> row
  claiming, \* claim statements that hold their row locked
  nacks,    \* MarkFailure calls between SELECT and UPDATE
  claims,   \* history: every claim handed out
  issued,   \* history: job id -> number of claims handed out
  revived,  \* history: job id -> number of operator retries
  settled   \* history: the claims whose ack or nack was accepted

vars == <<jobs, claiming, nacks, claims, issued, revived, settled>>
history == <<claims, issued, revived, settled>>

-----------------------------------------------------------------------------
Statuses == {"absent", "pending", "running", "completed", "dead"}

Row == [status: Statuses, queue: Queues \cup {NULL}, priority: Int,
        attempts: Nat, max_attempts: Nat, run_at: Nat, created_at: Nat,
        lease_owner: Workers \cup {NULL}, lease_until: Int \cup {NULL},
        lease_token: Nat]

\* A job id no row has yet.
NoRow == [status |-> "absent", queue |-> NULL, priority |-> 0,
          attempts |-> 0, max_attempts |-> 0, run_at |-> 0, created_at |-> 0,
          lease_owner |-> NULL, lease_until |-> NULL, lease_token |-> 0]

\* What a worker got from a claim: the job and its token.  seq and revival
\* tell the claims of a job apart; the server never sees them.
Claims == [job: Jobs, worker: Workers, token: Nat, seq: Nat, revival: Nat]

Claimings == [job: Jobs, worker: Workers, lease: Nat]

Nacks == [claim: Claims, attempts: Nat, max_attempts: Nat, permanent: BOOLEAN]

TypeOK ==
  /\ jobs \in [Jobs -> Row]
  /\ claiming \in SUBSET Claimings
  /\ nacks \in SUBSET Nacks
  /\ \A n \in nacks : n.claim \in claims
  /\ claims \in SUBSET Claims
  /\ issued \in [Jobs -> Nat]
  /\ revived \in [Jobs -> Nat]
  /\ settled \in SUBSET claims

Init ==
  /\ jobs = [j \in Jobs |-> NoRow]
  /\ claiming = {}
  /\ nacks = {}
  /\ claims = {}
  /\ issued = [j \in Jobs |-> 0]
  /\ revived = [j \in Jobs |-> 0]
  /\ settled = {}

-----------------------------------------------------------------------------
(* Producers *)

Submitted == {j \in Jobs : jobs[j].status # "absent"}

EffectiveBudget(m) == IF m <= 0 THEN DefaultBudget ELSE m

\* created_at is the rank of the INSERT.
NewRow(q, p, m, d) ==
  [status |-> "pending", queue |-> q, priority |-> p,
   attempts |-> 0, max_attempts |-> EffectiveBudget(m),
   run_at |-> d, created_at |-> Cardinality(Submitted),
   lease_owner |-> NULL, lease_until |-> NULL, lease_token |-> 0]

\* POST /v1/jobs
SubmitJob(j, q, p, m, d) ==
  /\ jobs[j].status = "absent"
  /\ jobs' = [jobs EXCEPT ![j] = NewRow(q, p, m, d)]
  /\ UNCHANGED <<claiming, nacks, history>>

-----------------------------------------------------------------------------
(* Claims *)

\* 0 passes the validation of a claim as it is: the lease ends at once.
ClaimLeases == {d \in RequestedLeases : d = 0 \/ d \in MinLease..MaxLease}

\* Mutation: the budget is not looked at.
ClaimableOverBudget(j, qs) ==
  jobs[j].status = "pending" /\ jobs[j].run_at = 0 /\ jobs[j].queue \in qs

Claimable(j, qs) ==
  /\ jobs[j].status = "pending"
  /\ jobs[j].run_at = 0
  /\ jobs[j].attempts < jobs[j].max_attempts
  /\ jobs[j].queue \in qs

\* Mutation: created_at DESC.
NewestPrecedes(i, j) ==
  \/ jobs[i].priority > jobs[j].priority
  \/ jobs[i].priority = jobs[j].priority /\ jobs[i].created_at >= jobs[j].created_at

\* ORDER BY priority DESC, created_at ASC
Precedes(i, j) ==
  \/ jobs[i].priority > jobs[j].priority
  \/ /\ jobs[i].priority = jobs[j].priority
     /\ jobs[i].created_at <= jobs[j].created_at

\* Mutations: the token is not incremented; no lease_until is set.
GrantSameToken(j, w, d) ==
  [jobs[j] EXCEPT !.status = "running", !.lease_owner = w, !.lease_until = d,
                  !.attempts = @ + 1]
GrantWithoutLease(j, w, d) ==
  [jobs[j] EXCEPT !.status = "running", !.lease_owner = w,
                  !.attempts = @ + 1, !.lease_token = @ + 1]

Grant(j, w, d) ==
  [jobs[j] EXCEPT !.status = "running", !.lease_owner = w, !.lease_until = d,
                  !.attempts = @ + 1, !.lease_token = @ + 1]

\* The claim that the next grant of job j to worker w would hand out.
NextClaim(j, w) ==
  [job |-> j, worker |-> w, token |-> Grant(j, w, 0).lease_token,
   seq |-> issued[j] + 1, revival |-> revived[j]]

Locked == {l.job : l \in claiming}

\* Mutation: no FOR UPDATE SKIP LOCKED.
ClaimSelectUnlocked(j, w, qs, d) ==
  /\ \A l \in claiming : l.worker # w
  /\ Claimable(j, qs)
  /\ \A i \in Jobs : Claimable(i, qs) => Precedes(j, i)
  /\ claiming' = claiming \cup {[job |-> j, worker |-> w, lease |-> d]}
  /\ UNCHANGED <<jobs, nacks, history>>

\* POST /v1/jobs/claim: the first claimable row that no other claim holds
\* locked (204 when there is none).  Each worker has one claim under way.
ClaimSelect(j, w, qs, d) ==
  /\ \A l \in claiming : l.worker # w
  /\ Claimable(j, qs)
  /\ j \notin Locked
  /\ \A i \in Jobs \ Locked : Claimable(i, qs) => Precedes(j, i)
  /\ claiming' = claiming \cup {[job |-> j, worker |-> w, lease |-> d]}
  /\ UNCHANGED <<jobs, nacks, history>>

\* The statement commits: the row is running under a new token.
ClaimCommit(l) ==
  /\ jobs' = [jobs EXCEPT ![l.job] = Grant(l.job, l.worker, l.lease)]
  /\ claiming' = claiming \ {l}
  /\ claims' = claims \cup {NextClaim(l.job, l.worker)}
  /\ issued' = [issued EXCEPT ![l.job] = @ + 1]
  /\ UNCHANGED <<nacks, revived, settled>>

\* The statement fails or its request is cancelled; the lock goes with it.
ClaimAbort(l) ==
  /\ claiming' = claiming \ {l}
  /\ UNCHANGED <<jobs, nacks, history>>

-----------------------------------------------------------------------------
(* Outcomes *)

\* Mutations: one half of the WHERE is missing.
MatchesAnyStatus(c) == jobs[c.job].lease_token = c.token
MatchesAnyToken(c) == jobs[c.job].status = "running"

\* WHERE id = $1 AND status = 'running' AND lease_token = $2
Matches(c) ==
  /\ jobs[c.job].status = "running"
  /\ jobs[c.job].lease_token = c.token

\* The owner stays in the row.
Completed(j) == [jobs[j] EXCEPT !.status = "completed", !.lease_until = NULL]

\* POST /v1/jobs/{id}/ack, accepted (a mismatch is a 409 and changes nothing).
Ack(c) ==
  /\ Matches(c)
  /\ jobs' = [jobs EXCEPT ![c.job] = Completed(c.job)]
  /\ settled' = settled \cup {c}
  /\ UNCHANGED <<claiming, nacks, claims, issued, revived>>

\* POST /v1/jobs/{id}/nack, first statement: the budget is read under the
\* token.  A mismatch is a 409.
NAckRead(c, permanent) ==
  /\ Matches(c)
  /\ Cardinality(nacks) < MaxPendingNacks
  /\ nacks' = nacks \cup {[claim |-> c, permanent |-> permanent,
                           attempts |-> jobs[c.job].attempts,
                           max_attempts |-> jobs[c.job].max_attempts]}
  /\ UNCHANGED <<jobs, claiming, history>>

\* Full jitter: any delay up to the capped exponential, the exponent capped
\* as well.
BackoffDelays(attempts) ==
  LET exponent == IF attempts > GlobalMaxAttempts THEN GlobalMaxAttempts ELSE attempts
  IN  {d \in 0..MaxDelay : d <= BaseDelay * 2^exponent}

\* Mutation: off by one.
ExhaustedLate(n) == n.permanent \/ n.attempts > n.max_attempts

Exhausted(n) == n.permanent \/ n.attempts >= n.max_attempts

\* Second statement, when the row still matches: dead, or due again later.
Release(j, status, delay) ==
  [jobs[j] EXCEPT !.status = status, !.run_at = delay,
                  !.lease_owner = NULL, !.lease_until = NULL]

NAckBury(n) ==
  /\ Exhausted(n)
  /\ Matches(n.claim)
  /\ jobs' = [jobs EXCEPT ![n.claim.job] =
                Release(n.claim.job, "dead", jobs[n.claim.job].run_at)]
  /\ settled' = settled \cup {n.claim}
  /\ nacks' = nacks \ {n}
  /\ UNCHANGED <<claiming, claims, issued, revived>>

NAckReschedule(n) ==
  /\ ~Exhausted(n)
  /\ Matches(n.claim)
  /\ \E d \in BackoffDelays(n.attempts) :
       jobs' = [jobs EXCEPT ![n.claim.job] = Release(n.claim.job, "pending", d)]
  /\ settled' = settled \cup {n.claim}
  /\ nacks' = nacks \ {n}
  /\ UNCHANGED <<claiming, claims, issued, revived>>

\* The second statement finds no row (409), or never runs: the request is
\* cancelled, the statement fails, the server stops between the two.
NAckGivesUp(n) ==
  /\ nacks' = nacks \ {n}
  /\ UNCHANGED <<jobs, claiming, history>>

-----------------------------------------------------------------------------
(* Leases *)

\* The handler's clamping of a heartbeat's duration, in its order.  The
\* limits it compares with are its own, the values it falls back on the
\* configuration's.
HeartbeatLease(d) ==
  LET positive == IF d <= 0 THEN DefaultLease ELSE d
      floored  == IF positive < HeartbeatFloor THEN MinLease ELSE positive
  IN  IF floored > HeartbeatCeiling THEN MaxLease ELSE floored

\* Mutation: every renewal is for the minimum.
RenewedAtMinimum(j, d) == [jobs[j] EXCEPT !.lease_until = MinLease]

Renewed(j, d) == [jobs[j] EXCEPT !.lease_until = HeartbeatLease(d)]

\* POST /v1/jobs/{id}/heartbeat, accepted.  The row need only be running
\* under this token and owner: an expired lease that the reaper has not
\* collected yet is renewed as well.
ExtendLease(c, d) ==
  /\ Matches(c)
  /\ jobs[c.job].lease_owner = c.worker
  /\ jobs' = [jobs EXCEPT ![c.job] = Renewed(c.job, d)]
  /\ UNCHANGED <<claiming, nacks, history>>

\* Mutation: lease_until <= now().
ExpiredEarly(j) ==
  /\ jobs[j].status = "running"
  /\ jobs[j].lease_until # NULL
  /\ jobs[j].lease_until <= 0

Expired(j) ==
  /\ jobs[j].status = "running"
  /\ jobs[j].lease_until # NULL
  /\ jobs[j].lease_until < 0

\* One statement of the reaper takes back every expired lease.
ReapExpiredLeases ==
  /\ \E j \in Jobs : Expired(j)
  /\ jobs' = [j \in Jobs |->
                IF Expired(j) THEN Release(j, "pending", jobs[j].run_at)
                              ELSE jobs[j]]
  /\ UNCHANGED <<claiming, nacks, history>>

-----------------------------------------------------------------------------
(* Operators *)

\* Mutation: the attempts stay.
RevivedUsedUp(j) == [Release(j, "pending", 0) EXCEPT !.lease_token = 0]

\* The token starts again from 0.
Revived(j) == [Release(j, "pending", 0) EXCEPT !.attempts = 0, !.lease_token = 0]

\* Mutation: any job can be retried.
ResetAnyJob(j) ==
  /\ jobs[j].status # "absent"
  /\ revived[j] < MaxRevivals
  /\ jobs' = [jobs EXCEPT ![j] = Revived(j)]
  /\ revived' = [revived EXCEPT ![j] = @ + 1]
  /\ UNCHANGED <<claiming, nacks, claims, issued, settled>>

\* POST /v1/jobs/{id}/retry
ResetDeadJob(j) ==
  /\ jobs[j].status = "dead"
  /\ revived[j] < MaxRevivals
  /\ jobs' = [jobs EXCEPT ![j] = Revived(j)]
  /\ revived' = [revived EXCEPT ![j] = @ + 1]
  /\ UNCHANGED <<claiming, nacks, claims, issued, settled>>

-----------------------------------------------------------------------------
(* The clock of the database *)

Countdown(t, floor) == IF t > floor THEN t - 1 ELSE t

Aged(j) ==
  [jobs[j] EXCEPT
     !.run_at = Countdown(@, 0),
     !.lease_until = IF @ = NULL THEN NULL ELSE Countdown(@, -1)]

Tick ==
  /\ jobs' = [j \in Jobs |-> Aged(j)]
  /\ UNCHANGED <<claiming, nacks, history>>

-----------------------------------------------------------------------------
Next ==
  \/ \E j \in Jobs, q \in Queues, p \in Priorities,
        m \in RequestedBudgets, d \in RequestedDelays : SubmitJob(j, q, p, m, d)
  \/ \E j \in Jobs, w \in Workers, qs \in SUBSET Queues, d \in ClaimLeases :
        ClaimSelect(j, w, qs, d)
  \/ \E l \in claiming : ClaimCommit(l)
  \/ \E l \in claiming : ClaimAbort(l)
  \/ \E c \in claims : Ack(c)
  \/ \E c \in claims, permanent \in BOOLEAN : NAckRead(c, permanent)
  \/ \E n \in nacks : NAckBury(n)
  \/ \E n \in nacks : NAckReschedule(n)
  \/ \E n \in nacks : NAckGivesUp(n)
  \/ \E c \in claims, d \in RequestedLeases : ExtendLease(c, d)
  \/ ReapExpiredLeases
  \/ \E j \in Jobs : ResetDeadJob(j)
  \/ Tick

Spec == Init /\ [][Next]_vars

-----------------------------------------------------------------------------
(* Properties *)

Current(c) == c.seq = issued[c.job]

\* The lease columns follow the status, in every statement that moves it: a
\* running job always has an owner and an end of lease, so the reaper, whose
\* WHERE skips a NULL lease_until, can always take it back; a job waiting or
\* dead holds no lease.  (A completed row keeps its lease_owner.)
LeaseFollowsStatus ==
  \A j \in Jobs :
    /\ jobs[j].status = "running" <=> jobs[j].lease_until # NULL
    /\ jobs[j].status = "running" => jobs[j].lease_owner # NULL
    /\ jobs[j].status \in {"pending", "dead"} => jobs[j].lease_owner = NULL

\* Attempts and token are two columns changed by four different statements;
\* they always agree.  It is why a nack that slips in under a token reused
\* after an operator retry still decides on the right number of attempts.
TokenCountsAttempts ==
  \A j \in Jobs : jobs[j].lease_token = jobs[j].attempts

\* Between two operator retries a job is handed out at most max_attempts
\* times, counted on the claims really given out and whatever became of them:
\* crashes, lost replies and reaped leases are all charged.
AttemptBudget ==
  \A j \in Jobs : \A r \in 0..revived[j] :
    Cardinality({c \in claims : c.job = j /\ c.revival = r}) <= jobs[j].max_attempts

\* The attempts a nack read are still those of the row when its UPDATE finds
\* a match, although other handlers, the reaper and the operator may have run
\* in between and no transaction holds the two statements together.
NAckDecisionIsFresh ==
  \A n \in nacks : Matches(n.claim) =>
    /\ n.attempts = jobs[n.claim.job].attempts
    /\ n.max_attempts = jobs[n.claim.job].max_attempts

\* A row that a claim has picked is held by that claim alone and stays what
\* the claim picked it for, because no other statement moves a pending row:
\* concurrent claims never hand out one job twice.
LockedRowStaysClaimable ==
  \A l \in claiming :
    /\ Claimable(l.job, Queues)
    /\ \A m \in claiming : m.job = l.job => m = l

\* Of two undelayed jobs of one queue, the one submitted first and with no
\* lower a priority is started first, whatever becomes of either (for claims
\* that do not overlap: a locked row is passed over).
FirstComeFirstStarted ==
  \A i, j \in Submitted :
    (/\ jobs[i].queue = jobs[j].queue
     /\ jobs[i].priority >= jobs[j].priority
     /\ jobs[i].created_at < jobs[j].created_at
     /\ issued[j] > 0) => issued[i] > 0

\* Fencing as far as the code provides it: as long as the operator has not
\* retried the job since, an outcome is accepted only from the claim handed
\* out last.
FencedWithinRevival ==
  [][\A c \in settled' \ settled :
       c.revival = revived[c.job] => Current(c)]_vars

\* A report that is repeated or delayed counts once: a claim whose outcome was
\* accepted is refused from then on, until an operator retries the job (and
\* then only as long as no new claim reaches its token).
SettledOnce ==
  \A c \in settled : c.revival = revived[c.job] => ~Matches(c)

\* The budget ends in burial: a running job whose attempts are used up goes
\* back to the queue only by the reaper's hand.  A nack, whose two statements
\* other handlers may come between, never puts it back.
OnlyTheReaperStrands ==
  [][\A j \in Jobs :
       (/\ jobs[j].status = "running"
        /\ jobs[j].attempts >= jobs[j].max_attempts
        /\ jobs'[j].status = "pending") => Expired(j)]_vars

\* A lease that has not ended is taken from its holder by nobody: while it
\* runs, the job stays running under the same token and owner until an
\* outcome is reported under that token, for the first time or, after an
\* operator retry, by a claim from before it.
LiveLeaseIsKept ==
  [][\A j \in Jobs :
       (jobs[j].status = "running" /\ jobs[j].lease_until >= 0) =>
         \/ /\ jobs'[j].status = "running"
            /\ jobs'[j].lease_token = jobs[j].lease_token
            /\ jobs'[j].lease_owner = jobs[j].lease_owner
         \/ \E c \in settled' :
               /\ c.job = j /\ c.token = jobs[j].lease_token
               /\ c \notin settled \/ c.revival < revived[j]]_vars

\* The table implements the life of a job: the row without its clocks, leases
\* and tokens.
LifeOf(j) == [status |-> jobs[j].status, tries |-> jobs[j].attempts,
              max |-> jobs[j].max_attempts]

Life == [j \in Jobs |-> LifeOf(j)]

Lifecycle == INSTANCE JobLifecycle WITH life <- Life

ImplementsLifecycle == Lifecycle!Spec

\* One row on its own: the lease columns follow the status, the token counts
\* the attempts, the attempts stay within the budget.
RowOK(r) ==
  /\ r.status = "running" <=> r.lease_until # NULL
  /\ r.status = "running" => r.lease_owner # NULL
  /\ r.status \in {"pending", "dead"} => r.lease_owner = NULL
  /\ r.lease_token = r.attempts
  /\ r.attempts <= r.max_attempts
  /\ r.status = "absent" <=> r.max_attempts = 0

RowsOK == \A j \in Jobs : RowOK(jobs[j])

\* The claims handed out since the last operator retry of their job count its
\* tokens: the distance of a claim from the last one is the distance of its
\* token from the row's.  It is what makes an equal token mean the last claim.
ClaimOK(c) ==
  /\ jobs[c.job].status # "absent"
  /\ c.token \in 1..jobs[c.job].max_attempts
  /\ c.seq <= issued[c.job]
  /\ c.revival <= revived[c.job]
  /\ c.revival = revived[c.job] =>
       issued[c.job] - c.seq = jobs[c.job].lease_token - c.token

ClaimsOK == \A c \in claims : ClaimOK(c)

\* A token is handed out once between two operator retries.
DistinctTokens ==
  \A c, d \in claims :
    (c.job = d.job /\ c.revival = d.revival /\ c.token = d.token) => c = d

\* What a nack read is what its token stands for.
NAcksOK ==
  \A n \in nacks : /\ n.attempts = n.claim.token
                   /\ n.max_attempts = jobs[n.claim.job].max_attempts

\* The invariant the proofs go by: types, rows, claims, pending nacks, locks.
IInv ==
  /\ TypeOK
  /\ RowsOK
  /\ ClaimsOK /\ DistinctTokens
  /\ NAcksOK
  /\ SettledOnce
  /\ LockedRowStaysClaimable

\* What the documentation says of the tokens: a stale worker is always refused
\* (documentation/phase3.md, "Fencing Tokens").  The code does not keep it.
StaleWorkersAreRefused ==
  [][\A c \in settled' \ settled : Current(c)]_vars

\* What the documentation says of the budget: a job that used up max_attempts
\* goes to the dead-letter queue (documentation/phase4.md, "Dead-Letter
\* Queue").  The code does not keep it.
ExhaustedJobsAreDead ==
  \A j \in Jobs : jobs[j].status = "pending" => jobs[j].attempts < jobs[j].max_attempts
=============================================================================
