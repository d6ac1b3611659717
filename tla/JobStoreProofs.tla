--------------------------- MODULE JobStoreProofs ---------------------------
(***************************************************************************)
(* The jobs table is right for every set of jobs and workers, every        *)
(* configuration and every interleaving.  Theorems about JobStore: its     *)
(* invariant, what a step of the table may never do, that the table lives  *)
(* the life of JobLifecycle, and the arithmetic of its retry delays.       *)
(***************************************************************************)
EXTENDS JobStore, Backoff, FiniteSetTheorems, TLAPS

-----------------------------------------------------------------------------
(* The rows the statements write, field by field *)

\* Changing one column to a value of its type leaves a row a row.
LEMMA RowUpdate ==
  ASSUME NEW r \in Row
  PROVE  /\ \A x \in Statuses : [r EXCEPT !.status = x] \in Row
         /\ \A x \in Nat : [r EXCEPT !.attempts = x] \in Row
         /\ \A x \in Nat : [r EXCEPT !.run_at = x] \in Row
         /\ \A x \in Workers \cup {NULL} : [r EXCEPT !.lease_owner = x] \in Row
         /\ \A x \in Int \cup {NULL} : [r EXCEPT !.lease_until = x] \in Row
         /\ \A x \in Nat : [r EXCEPT !.lease_token = x] \in Row
  BY DEF Row

\* Every heartbeat leaves a lease of some number of ticks.
LEMMA HeartbeatLeaseType == \A d \in Nat : HeartbeatLease(d) \in Nat
  BY StoreAssumption DEF HeartbeatLease

\* A job is submitted with a positive budget.
LEMMA BudgetType == \A m \in Int : EffectiveBudget(m) \in Nat \ {0}
  BY StoreAssumption DEF EffectiveBudget

LEMMA SubmittedCount == Cardinality(Submitted) \in Nat
  <1>1. Submitted \subseteq Jobs
    BY DEF Submitted
  <1>2. IsFiniteSet(Submitted)
    BY <1>1, FS_Subset, StoreAssumption
  <1>3. QED  BY <1>2, FS_CardinalityType

LEMMA NoRowType == NoRow \in Row
  BY DEF NoRow, Row, Statuses

LEMMA NewRowType ==
  ASSUME NEW q \in Queues, NEW p \in Int, NEW m \in Int, NEW d \in Nat
  PROVE  /\ NewRow(q, p, m, d) \in Row
         /\ NewRow(q, p, m, d).status = "pending"
         /\ NewRow(q, p, m, d).attempts = 0
         /\ NewRow(q, p, m, d).max_attempts \in Nat \ {0}
         /\ NewRow(q, p, m, d).lease_owner = NULL
         /\ NewRow(q, p, m, d).lease_until = NULL
         /\ NewRow(q, p, m, d).lease_token = 0
  BY BudgetType, SubmittedCount DEF NewRow, Row, Statuses

LEMMA GrantType ==
  ASSUME NEW j, jobs[j] \in Row, NEW w \in Workers, NEW d \in Nat
  PROVE  /\ Grant(j, w, d) \in Row
         /\ Grant(j, w, d).status = "running"
         /\ Grant(j, w, d).attempts = jobs[j].attempts + 1
         /\ Grant(j, w, d).max_attempts = jobs[j].max_attempts
         /\ Grant(j, w, d).lease_owner = w
         /\ Grant(j, w, d).lease_until = d
         /\ Grant(j, w, d).lease_token = jobs[j].lease_token + 1
  <1> DEFINE r1 == [jobs[j] EXCEPT !.status = "running"]
             r2 == [r1 EXCEPT !.lease_owner = w]
             r3 == [r2 EXCEPT !.lease_until = d]
             r4 == [r3 EXCEPT !.attempts = jobs[j].attempts + 1]
             r5 == [r4 EXCEPT !.lease_token = jobs[j].lease_token + 1]
  <1>1. jobs[j].attempts + 1 \in Nat /\ jobs[j].lease_token + 1 \in Nat
    BY DEF Row
  <1>2. Grant(j, w, d) = r5
    BY DEF Grant, Row
  <1>3. r5 \in Row
    <2> HIDE DEF r1, r2, r3, r4, r5
    <2>1. r1 \in Row  BY RowUpdate DEF r1, Statuses
    <2>2. r2 \in Row  BY <2>1, RowUpdate DEF r2
    <2>3. r3 \in Row  BY <2>2, RowUpdate DEF r3
    <2>4. r4 \in Row  BY <2>3, <1>1, RowUpdate DEF r4
    <2>5. QED  BY <2>4, <1>1, RowUpdate DEF r5
  <1>4. Grant(j, w, d) \in Row
    BY <1>2, <1>3
  <1>5. QED  BY <1>4 DEF Grant, Row

LEMMA CompletedType ==
  ASSUME NEW j, jobs[j] \in Row
  PROVE  /\ Completed(j) \in Row
         /\ Completed(j).status = "completed"
         /\ Completed(j).attempts = jobs[j].attempts
         /\ Completed(j).max_attempts = jobs[j].max_attempts
         /\ Completed(j).lease_until = NULL
         /\ Completed(j).lease_token = jobs[j].lease_token
  <1> DEFINE r1 == [jobs[j] EXCEPT !.status = "completed"]
             r2 == [r1 EXCEPT !.lease_until = NULL]
  <1>1. Completed(j) = r2
    BY DEF Completed, Row
  <1>2. r2 \in Row
    <2> HIDE DEF r1, r2
    <2>1. r1 \in Row  BY RowUpdate DEF r1, Statuses
    <2>2. QED  BY <2>1, RowUpdate DEF r2
  <1>3. Completed(j) \in Row
    BY <1>1, <1>2
  <1>4. QED  BY <1>3 DEF Completed, Row

LEMMA ReleaseType ==
  ASSUME NEW j, jobs[j] \in Row, NEW s \in Statuses, NEW d \in Nat
  PROVE  /\ Release(j, s, d) \in Row
         /\ Release(j, s, d).status = s
         /\ Release(j, s, d).attempts = jobs[j].attempts
         /\ Release(j, s, d).max_attempts = jobs[j].max_attempts
         /\ Release(j, s, d).lease_owner = NULL
         /\ Release(j, s, d).lease_until = NULL
         /\ Release(j, s, d).lease_token = jobs[j].lease_token
  <1> DEFINE r1 == [jobs[j] EXCEPT !.status = s]
             r2 == [r1 EXCEPT !.run_at = d]
             r3 == [r2 EXCEPT !.lease_owner = NULL]
             r4 == [r3 EXCEPT !.lease_until = NULL]
  <1>1. Release(j, s, d) = r4
    BY DEF Release, Row
  <1>2. r4 \in Row
    <2> HIDE DEF r1, r2, r3, r4
    <2>1. r1 \in Row  BY RowUpdate DEF r1
    <2>2. r2 \in Row  BY <2>1, RowUpdate DEF r2
    <2>3. r3 \in Row  BY <2>2, RowUpdate DEF r3
    <2>4. QED  BY <2>3, RowUpdate DEF r4
  <1>3. Release(j, s, d) \in Row
    BY <1>1, <1>2
  <1>4. QED  BY <1>3 DEF Release, Row

LEMMA RenewedType ==
  ASSUME NEW j, jobs[j] \in Row, NEW d \in Nat
  PROVE  /\ Renewed(j, d) \in Row
         /\ Renewed(j, d).status = jobs[j].status
         /\ Renewed(j, d).attempts = jobs[j].attempts
         /\ Renewed(j, d).max_attempts = jobs[j].max_attempts
         /\ Renewed(j, d).lease_owner = jobs[j].lease_owner
         /\ Renewed(j, d).lease_until \in Nat
         /\ Renewed(j, d).lease_token = jobs[j].lease_token
  <1>1. HeartbeatLease(d) \in Nat
    BY HeartbeatLeaseType
  <1>2. Renewed(j, d) \in Row
    BY <1>1, RowUpdate DEF Renewed
  <1>3. QED  BY <1>1, <1>2 DEF Renewed, Row

LEMMA RevivedType ==
  ASSUME NEW j, jobs[j] \in Row
  PROVE  /\ Revived(j) \in Row
         /\ Revived(j).status = "pending"
         /\ Revived(j).attempts = 0
         /\ Revived(j).max_attempts = jobs[j].max_attempts
         /\ Revived(j).lease_owner = NULL
         /\ Revived(j).lease_until = NULL
         /\ Revived(j).lease_token = 0
  <1> DEFINE r0 == Release(j, "pending", 0)
             r1 == [r0 EXCEPT !.attempts = 0]
             r2 == [r1 EXCEPT !.lease_token = 0]
  <1>0. /\ r0 \in Row
        /\ r0.status = "pending"
        /\ r0.max_attempts = jobs[j].max_attempts
        /\ r0.lease_owner = NULL
        /\ r0.lease_until = NULL
    BY ReleaseType DEF Statuses
  <1> HIDE DEF r0
  <1>1. Revived(j) = r2
    BY <1>0 DEF Revived, r0, Row
  <1>2. r2 \in Row
    <2> HIDE DEF r1, r2
    <2>1. r1 \in Row  BY <1>0, RowUpdate DEF r1
    <2>2. QED  BY <2>1, RowUpdate DEF r2
  <1>3. QED  BY <1>0, <1>1, <1>2 DEF Row

LEMMA AgedType ==
  ASSUME NEW j, jobs[j] \in Row
  PROVE  /\ Aged(j) \in Row
         /\ Aged(j).status = jobs[j].status
         /\ Aged(j).queue = jobs[j].queue
         /\ Aged(j).attempts = jobs[j].attempts
         /\ Aged(j).max_attempts = jobs[j].max_attempts
         /\ jobs[j].run_at = 0 => Aged(j).run_at = 0
         /\ Aged(j).lease_owner = jobs[j].lease_owner
         /\ Aged(j).lease_until = NULL <=> jobs[j].lease_until = NULL
         /\ Aged(j).lease_token = jobs[j].lease_token
  <1> DEFINE t == Countdown(jobs[j].run_at, 0)
             u == IF jobs[j].lease_until = NULL THEN NULL
                  ELSE Countdown(jobs[j].lease_until, -1)
             r1 == [jobs[j] EXCEPT !.run_at = t]
             r2 == [r1 EXCEPT !.lease_until = u]
  <1>1. t \in Nat /\ (jobs[j].run_at = 0 => t = 0)
    BY DEF Countdown, Row
  <1>2. u \in Int \cup {NULL} /\ (u = NULL <=> jobs[j].lease_until = NULL)
    BY StoreAssumption DEF Countdown, Row
  <1>3. Aged(j) = r2
    BY DEF Aged, Row
  <1> HIDE DEF t, u
  <1>4. r2 \in Row
    <2> HIDE DEF r1, r2
    <2>1. r1 \in Row  BY <1>1, RowUpdate DEF r1
    <2>2. QED  BY <2>1, <1>2, RowUpdate DEF r2
  <1>5. QED  BY <1>1, <1>2, <1>3, <1>4 DEF Row

-----------------------------------------------------------------------------
(* Types *)

\* A claim about to be handed out is a claim.
LEMMA NextClaimType ==
  ASSUME TypeOK, NEW j \in Jobs, NEW w \in Workers
  PROVE  /\ NextClaim(j, w) \in Claims
         /\ NextClaim(j, w).job = j
         /\ NextClaim(j, w).token = jobs[j].lease_token + 1
         /\ NextClaim(j, w).seq = issued[j] + 1
         /\ NextClaim(j, w).revival = revived[j]
  <1>1. jobs[j] \in Row /\ issued[j] \in Nat /\ revived[j] \in Nat
    BY DEF TypeOK
  <1>2. Grant(j, w, 0).lease_token = jobs[j].lease_token + 1
    BY <1>1, GrantType
  <1>3. jobs[j].lease_token + 1 \in Nat
    BY <1>1 DEF Row
  <1>4. QED  BY <1>1, <1>2, <1>3 DEF NextClaim, Claims

LEMMA TypeInit == Init => TypeOK
  BY NoRowType DEF Init, TypeOK

LEMMA TypeStep == TypeOK /\ [Next]_vars => TypeOK'
  <1> SUFFICES ASSUME TypeOK, [Next]_vars PROVE TypeOK'
    OBVIOUS
  <1> USE DEF TypeOK
  <1>1. ASSUME NEW j \in Jobs, NEW q \in Queues, NEW p \in Priorities,
               NEW m \in RequestedBudgets, NEW d \in RequestedDelays,
               SubmitJob(j, q, p, m, d)
        PROVE  TypeOK'
    <2>1. NewRow(q, p, m, d) \in Row
      BY NewRowType, StoreAssumption
    <2>2. QED  BY <1>1, <2>1 DEF SubmitJob, history
  <1>2. ASSUME NEW j \in Jobs, NEW w \in Workers, NEW qs \in SUBSET Queues,
               NEW d \in ClaimLeases, ClaimSelect(j, w, qs, d)
        PROVE  TypeOK'
    <2>1. d \in Nat
      BY StoreAssumption DEF ClaimLeases
    <2>2. [job |-> j, worker |-> w, lease |-> d] \in Claimings
      BY <2>1 DEF Claimings
    <2>3. QED  BY <1>2, <2>2 DEF ClaimSelect, history
  <1>3. ASSUME NEW l \in claiming, ClaimCommit(l)
        PROVE  TypeOK'
    <2>1. l.job \in Jobs /\ l.worker \in Workers /\ l.lease \in Nat
      BY DEF Claimings
    <2>2. Grant(l.job, l.worker, l.lease) \in Row
      BY <2>1, GrantType
    <2>3. NextClaim(l.job, l.worker) \in Claims
      BY <2>1, NextClaimType
    <2>4. QED  BY <1>3, <2>1, <2>2, <2>3 DEF ClaimCommit
  <1>4. ASSUME NEW l \in claiming, ClaimAbort(l)
        PROVE  TypeOK'
    BY <1>4 DEF ClaimAbort, history
  <1>5. ASSUME NEW c \in claims, Ack(c)
        PROVE  TypeOK'
    <2>1. c.job \in Jobs
      BY DEF Claims
    <2>2. Completed(c.job) \in Row
      BY <2>1, CompletedType
    <2>3. QED  BY <1>5, <2>1, <2>2 DEF Ack
  <1>6. ASSUME NEW c \in claims, NEW permanent \in BOOLEAN, NAckRead(c, permanent)
        PROVE  TypeOK'
    <2>1. c \in Claims /\ c.job \in Jobs
      BY DEF Claims
    <2>2. jobs[c.job].attempts \in Nat /\ jobs[c.job].max_attempts \in Nat
      BY <2>1 DEF Row
    <2>3. [claim |-> c, permanent |-> permanent, attempts |-> jobs[c.job].attempts,
           max_attempts |-> jobs[c.job].max_attempts] \in Nacks
      BY <2>1, <2>2 DEF Nacks
    <2>4. QED  BY <1>6, <2>3 DEF NAckRead, history
  <1>7. ASSUME NEW n \in nacks, NAckBury(n)
        PROVE  TypeOK'
    <2>1. n.claim \in claims /\ n.claim.job \in Jobs
      BY DEF Claims
    <2>2. jobs[n.claim.job].run_at \in Nat
      BY <2>1 DEF Row
    <2>3. Release(n.claim.job, "dead", jobs[n.claim.job].run_at) \in Row
      BY <2>1, <2>2, ReleaseType DEF Statuses
    <2>4. QED  BY <1>7, <2>1, <2>3 DEF NAckBury
  <1>8. ASSUME NEW n \in nacks, NAckReschedule(n)
        PROVE  TypeOK'
    <2>1. n.claim \in claims /\ n.claim.job \in Jobs
      BY DEF Claims
    <2>2. PICK d \in BackoffDelays(n.attempts) :
            jobs' = [jobs EXCEPT ![n.claim.job] = Release(n.claim.job, "pending", d)]
      BY <1>8 DEF NAckReschedule
    <2>3. d \in Nat
      BY StoreAssumption DEF BackoffDelays
    <2>4. Release(n.claim.job, "pending", d) \in Row
      BY <2>1, <2>3, ReleaseType DEF Statuses
    <2>5. QED  BY <1>8, <2>1, <2>2, <2>4 DEF NAckReschedule
  <1>9. ASSUME NEW n \in nacks, NAckGivesUp(n)
        PROVE  TypeOK'
    BY <1>9 DEF NAckGivesUp, history
  <1>10. ASSUME NEW c \in claims, NEW d \in RequestedLeases, ExtendLease(c, d)
         PROVE  TypeOK'
    <2>1. c.job \in Jobs /\ d \in Nat
      BY StoreAssumption DEF Claims
    <2>2. Renewed(c.job, d) \in Row
      BY <2>1, RenewedType
    <2>3. QED  BY <1>10, <2>1, <2>2 DEF ExtendLease, history
  <1>11. CASE ReapExpiredLeases
    <2>1. ASSUME NEW j \in Jobs
          PROVE  Release(j, "pending", jobs[j].run_at) \in Row
      <3>1. jobs[j].run_at \in Nat
        BY DEF Row
      <3>2. QED  BY <3>1, ReleaseType DEF Statuses
    <2>2. QED  BY <1>11, <2>1 DEF ReapExpiredLeases, history
  <1>12. ASSUME NEW j \in Jobs, ResetDeadJob(j)
         PROVE  TypeOK'
    <2>1. Revived(j) \in Row
      BY RevivedType
    <2>2. QED  BY <1>12, <2>1 DEF ResetDeadJob
  <1>13. CASE Tick
    <2>1. ASSUME NEW j \in Jobs
          PROVE  Aged(j) \in Row
      BY AgedType
    <2>2. QED  BY <1>13, <2>1 DEF Tick, history
  <1>14. CASE UNCHANGED vars
    BY <1>14 DEF vars
  <1>15. QED
    BY <1>1, <1>2, <1>3, <1>4, <1>5, <1>6, <1>7, <1>8, <1>9, <1>10, <1>11,
       <1>12, <1>13, <1>14 DEF Next

\* Every variable keeps its type.
THEOREM TypeCorrect == Spec => []TypeOK
  <1>1. QED  BY TypeInit, TypeStep, PTL DEF Spec

-----------------------------------------------------------------------------
(* The inductive invariant: rows *)

\* Writing one good row leaves all rows good.
LEMMA OneRow ==
  ASSUME TypeOK, RowsOK, NEW k \in Jobs, NEW r, RowOK(r),
         jobs' = [jobs EXCEPT ![k] = r]
  PROVE  RowsOK'
  <1>1. ASSUME NEW j \in Jobs
        PROVE  RowOK(jobs'[j])
    <2>1. CASE j = k
      <3>1. jobs'[j] = r
        BY <2>1 DEF TypeOK
      <3>2. QED  BY <3>1
    <2>2. CASE j # k
      <3>1. jobs'[j] = jobs[j]
        BY <2>2 DEF TypeOK
      <3>2. QED  BY <3>1 DEF RowsOK
    <2>3. QED  BY <2>1, <2>2
  <1>2. QED  BY <1>1 DEF RowsOK

LEMMA InitInv == Init => IInv
  <1> SUFFICES ASSUME Init PROVE IInv
    OBVIOUS
  <1>1. TypeOK
    BY TypeInit
  <1>2. RowsOK
    <2>1. RowOK(NoRow)
      BY StoreAssumption DEF RowOK, NoRow
    <2>2. QED  BY <2>1 DEF Init, RowsOK
  <1>3. ClaimsOK /\ DistinctTokens /\ NAcksOK /\ SettledOnce /\ LockedRowStaysClaimable
    BY DEF Init, ClaimsOK, DistinctTokens, NAcksOK, SettledOnce, LockedRowStaysClaimable
  <1>4. QED  BY <1>1, <1>2, <1>3 DEF IInv

\* The facts about a row that a step of its job starts from.
LEMMA RowFacts ==
  ASSUME IInv, NEW j \in Jobs
  PROVE  /\ jobs[j] \in Row
         /\ RowOK(jobs[j])
         /\ jobs[j].attempts \in Nat /\ jobs[j].max_attempts \in Nat
         /\ jobs[j].lease_token \in Nat /\ jobs[j].run_at \in Nat
         /\ jobs[j].status \in Statuses
         /\ jobs[j].lease_owner \in Workers \cup {NULL}
         /\ jobs[j].lease_until \in Int \cup {NULL}
         /\ issued[j] \in Nat /\ revived[j] \in Nat
  <1>1. jobs[j] \in Row /\ issued[j] \in Nat /\ revived[j] \in Nat
    BY DEF IInv, TypeOK
  <1>2. RowOK(jobs[j])
    BY DEF IInv, RowsOK
  <1>3. QED  BY <1>1, <1>2 DEF Row

LEMMA NoNULL == NULL \notin Int /\ NULL \notin Workers
  BY StoreAssumption

LEMMA RowsStep ==
  ASSUME IInv, [Next]_vars
  PROVE  RowsOK'
  <1>0. TypeOK /\ RowsOK
    BY DEF IInv
  <1>1. ASSUME NEW j \in Jobs, NEW q \in Queues, NEW p \in Priorities,
               NEW m \in RequestedBudgets, NEW d \in RequestedDelays,
               SubmitJob(j, q, p, m, d)
        PROVE  RowsOK'
    <2>1. m \in Int /\ p \in Int /\ d \in Nat
      BY StoreAssumption
    <2>2. RowOK(NewRow(q, p, m, d))
      <3> DEFINE r == NewRow(q, p, m, d)
      <3>1. /\ r.status = "pending" /\ r.attempts = 0 /\ r.lease_token = 0
            /\ r.max_attempts \in Nat \ {0}
            /\ r.lease_owner = NULL /\ r.lease_until = NULL
        BY <2>1, NewRowType
      <3> HIDE DEF r
      <3>2. RowOK(r)
        BY <3>1 DEF RowOK
      <3>3. QED  BY <3>2 DEF r
    <2>3. QED  BY <1>0, <1>1, <2>2, OneRow DEF SubmitJob
  <1>2. ASSUME NEW l \in claiming, ClaimCommit(l)
        PROVE  RowsOK'
    <2>1. l.job \in Jobs /\ l.worker \in Workers /\ l.lease \in Nat
      BY <1>0 DEF TypeOK, Claimings
    <2>2. jobs[l.job].attempts < jobs[l.job].max_attempts
      BY DEF IInv, LockedRowStaysClaimable, Claimable
    <2> DEFINE r == Grant(l.job, l.worker, l.lease)
    <2>3. RowOK(r)
      <3>1. /\ r.status = "running"
            /\ r.attempts = jobs[l.job].attempts + 1
            /\ r.max_attempts = jobs[l.job].max_attempts
            /\ r.lease_owner = l.worker /\ r.lease_until = l.lease
            /\ r.lease_token = jobs[l.job].lease_token + 1
        BY <2>1, RowFacts, GrantType
      <3>2. /\ jobs[l.job].attempts \in Nat /\ jobs[l.job].max_attempts \in Nat
            /\ jobs[l.job].lease_token = jobs[l.job].attempts
        BY <2>1, RowFacts DEF RowOK
      <3>3. l.worker # NULL /\ l.lease # NULL
        BY <2>1, NoNULL
      <3> HIDE DEF r
      <3>4. QED  BY <3>1, <3>2, <3>3, <2>2 DEF RowOK
    <2>4. QED  BY <1>0, <1>2, <2>1, <2>3, OneRow DEF ClaimCommit
  <1>3. ASSUME NEW c \in claims, Ack(c)
        PROVE  RowsOK'
    <2>1. c.job \in Jobs
      BY <1>0 DEF TypeOK, Claims
    <2> DEFINE r == Completed(c.job)
    <2>2. RowOK(r)
      <3>1. /\ r.status = "completed"
            /\ r.attempts = jobs[c.job].attempts
            /\ r.max_attempts = jobs[c.job].max_attempts
            /\ r.lease_until = NULL
            /\ r.lease_token = jobs[c.job].lease_token
        BY <2>1, RowFacts, CompletedType
      <3>2. jobs[c.job].status = "running" /\ RowOK(jobs[c.job])
        BY <1>3, <2>1, RowFacts DEF Ack, Matches
      <3> HIDE DEF r
      <3>3. QED  BY <3>1, <3>2 DEF RowOK
    <2>3. QED  BY <1>0, <1>3, <2>1, <2>2, OneRow DEF Ack
  <1>4. ASSUME NEW j \in Jobs, NEW s \in {"pending", "dead"}, NEW d \in Nat,
               jobs[j].status = "running"
        PROVE  RowOK(Release(j, s, d))
    <2> DEFINE r == Release(j, s, d)
    <2>1. /\ r.status = s
          /\ r.attempts = jobs[j].attempts
          /\ r.max_attempts = jobs[j].max_attempts
          /\ r.lease_owner = NULL /\ r.lease_until = NULL
          /\ r.lease_token = jobs[j].lease_token
      BY RowFacts, ReleaseType DEF Statuses
    <2>2. RowOK(jobs[j])
      BY RowFacts
    <2> HIDE DEF r
    <2>3. RowOK(r)
      BY <1>4, <2>1, <2>2 DEF RowOK
    <2>4. QED  BY <2>3 DEF r
  <1>5. ASSUME NEW n \in nacks, NAckBury(n)
        PROVE  RowsOK'
    <2>1. n.claim.job \in Jobs
      BY <1>0 DEF TypeOK, Claims
    <2>2. jobs[n.claim.job].status = "running" /\ jobs[n.claim.job].run_at \in Nat
      BY <1>5, <2>1, RowFacts DEF NAckBury, Matches
    <2>3. RowOK(Release(n.claim.job, "dead", jobs[n.claim.job].run_at))
      BY <1>4, <2>1, <2>2
    <2>4. QED  BY <1>0, <1>5, <2>1, <2>3, OneRow DEF NAckBury
  <1>6. ASSUME NEW n \in nacks, NAckReschedule(n)
        PROVE  RowsOK'
    <2>1. n.claim.job \in Jobs
      BY <1>0 DEF TypeOK, Claims
    <2>2. PICK d \in BackoffDelays(n.attempts) :
            jobs' = [jobs EXCEPT ![n.claim.job] = Release(n.claim.job, "pending", d)]
      BY <1>6 DEF NAckReschedule
    <2>3. d \in Nat
      BY StoreAssumption DEF BackoffDelays
    <2>4. RowOK(Release(n.claim.job, "pending", d))
      BY <1>4, <1>6, <2>1, <2>3 DEF NAckReschedule, Matches
    <2>5. QED  BY <1>0, <2>1, <2>2, <2>4, OneRow
  <1>7. ASSUME NEW c \in claims, NEW d \in RequestedLeases, ExtendLease(c, d)
        PROVE  RowsOK'
    <2>1. c.job \in Jobs /\ d \in Nat
      BY <1>0, StoreAssumption DEF TypeOK, Claims
    <2> DEFINE r == Renewed(c.job, d)
    <2>2. RowOK(r)
      <3>1. /\ r.status = jobs[c.job].status
            /\ r.attempts = jobs[c.job].attempts
            /\ r.max_attempts = jobs[c.job].max_attempts
            /\ r.lease_owner = jobs[c.job].lease_owner
            /\ r.lease_until \in Nat
            /\ r.lease_token = jobs[c.job].lease_token
        BY <2>1, RowFacts, RenewedType
      <3>2. jobs[c.job].status = "running" /\ RowOK(jobs[c.job])
        BY <1>7, <2>1, RowFacts DEF ExtendLease, Matches
      <3>3. r.lease_until # NULL
        BY <3>1, NoNULL
      <3> HIDE DEF r
      <3>4. QED  BY <3>1, <3>2, <3>3 DEF RowOK
    <2>3. QED  BY <1>0, <1>7, <2>1, <2>2, OneRow DEF ExtendLease
  <1>8. CASE ReapExpiredLeases
    <2>1. ASSUME NEW j \in Jobs
          PROVE  RowOK(jobs'[j])
      <3>1. CASE Expired(j)
        <4>1. jobs'[j] = Release(j, "pending", jobs[j].run_at)
          BY <1>8, <3>1 DEF ReapExpiredLeases
        <4>2. jobs[j].run_at \in Nat /\ jobs[j].status = "running"
          BY <3>1, RowFacts DEF Expired
        <4>3. QED  BY <1>4, <4>1, <4>2
      <3>2. CASE ~Expired(j)
        <4>1. jobs'[j] = jobs[j]
          BY <1>8, <3>2 DEF ReapExpiredLeases
        <4>2. QED  BY <4>1, RowFacts
      <3>3. QED  BY <3>1, <3>2
    <2>2. QED  BY <2>1 DEF RowsOK
  <1>9. ASSUME NEW j \in Jobs, ResetDeadJob(j)
        PROVE  RowsOK'
    <2> DEFINE r == Revived(j)
    <2>1. RowOK(r)
      <3>1. /\ r.status = "pending"
            /\ r.attempts = 0 /\ r.lease_token = 0
            /\ r.max_attempts = jobs[j].max_attempts
            /\ r.lease_owner = NULL /\ r.lease_until = NULL
        BY RowFacts, RevivedType
      <3>2. /\ jobs[j].status = "dead" /\ RowOK(jobs[j])
            /\ jobs[j].max_attempts \in Nat
        BY <1>9, RowFacts DEF ResetDeadJob
      <3> HIDE DEF r
      <3>3. QED  BY <3>1, <3>2 DEF RowOK
    <2>2. QED  BY <1>0, <1>9, <2>1, OneRow DEF ResetDeadJob
  <1>10. CASE Tick
    <2>1. ASSUME NEW j \in Jobs
          PROVE  RowOK(jobs'[j])
      <3>1. jobs'[j] = Aged(j)
        BY <1>10 DEF Tick
      <3> DEFINE r == Aged(j)
      <3>2. /\ r.status = jobs[j].status
            /\ r.attempts = jobs[j].attempts
            /\ r.max_attempts = jobs[j].max_attempts
            /\ r.lease_owner = jobs[j].lease_owner
            /\ r.lease_until = NULL <=> jobs[j].lease_until = NULL
            /\ r.lease_token = jobs[j].lease_token
        BY RowFacts, AgedType
      <3>3. RowOK(jobs[j])
        BY RowFacts
      <3> HIDE DEF r
      <3>4. RowOK(r)
        BY <3>2, <3>3 DEF RowOK
      <3>5. QED  BY <3>1, <3>4 DEF r
    <2>2. QED  BY <2>1 DEF RowsOK
  <1>11. ASSUME UNCHANGED jobs
         PROVE  RowsOK'
    BY <1>0, <1>11 DEF RowsOK
  <1>12. QED
    BY <1>1, <1>2, <1>3, <1>5, <1>6, <1>7, <1>8, <1>9, <1>10, <1>11
    DEF Next, vars, ClaimSelect, ClaimAbort, NAckRead, NAckGivesUp

-----------------------------------------------------------------------------
(* The inductive invariant: claims, nacks and locks *)

\* A row that exists keeps existing, with its budget; token and attempts move
\* only in a claim and in an operator's retry, and only a claim starts a job.
KeepsRow(r, s) ==
  /\ s.status = "running" => r.status = "running"
  /\ r.status # "absent" =>
       /\ s.status # "absent"
       /\ s.max_attempts = r.max_attempts
       /\ s.lease_token = r.lease_token
       /\ s.attempts = r.attempts

\* The steps that neither hand out a claim nor begin a new revival.
QuietStep ==
  /\ [Next]_vars
  /\ ~\E l \in claiming : ClaimCommit(l)
  /\ ~\E j \in Jobs : ResetDeadJob(j)

LEMMA OneRowKept ==
  ASSUME TypeOK, NEW k \in Jobs, NEW r, KeepsRow(jobs[k], r),
         jobs' = [jobs EXCEPT ![k] = r]
  PROVE  \A j \in Jobs : KeepsRow(jobs[j], jobs'[j])
  <1>1. ASSUME NEW j \in Jobs
        PROVE  KeepsRow(jobs[j], jobs'[j])
    <2>1. CASE j = k
      <3>1. jobs'[j] = r
        BY <2>1 DEF TypeOK
      <3>2. QED  BY <2>1, <3>1
    <2>2. CASE j # k
      <3>1. jobs'[j] = jobs[j]
        BY <2>2 DEF TypeOK
      <3>2. QED  BY <3>1 DEF KeepsRow
    <2>3. QED  BY <2>1, <2>2
  <1>2. QED  BY <1>1

LEMMA QuietRows ==
  ASSUME IInv, QuietStep
  PROVE  /\ \A j \in Jobs : KeepsRow(jobs[j], jobs'[j])
         /\ UNCHANGED <<claims, issued, revived>>
  <1>0. TypeOK
    BY DEF IInv
  <1> DEFINE Kept == /\ \A j \in Jobs : KeepsRow(jobs[j], jobs'[j])
                     /\ UNCHANGED <<claims, issued, revived>>
  <1>1. ASSUME NEW j \in Jobs, NEW q \in Queues, NEW p \in Priorities,
               NEW m \in RequestedBudgets, NEW d \in RequestedDelays,
               SubmitJob(j, q, p, m, d)
        PROVE  Kept
    <2>1. KeepsRow(jobs[j], NewRow(q, p, m, d))
      BY <1>1 DEF SubmitJob, NewRow, KeepsRow
    <2>2. QED  BY <1>0, <1>1, <2>1, OneRowKept DEF SubmitJob, history
  <1>2. ASSUME NEW j \in Jobs, NEW s \in {"pending", "dead"}, NEW d \in Nat
        PROVE  KeepsRow(jobs[j], Release(j, s, d))
    BY RowFacts, ReleaseType DEF KeepsRow, Statuses
  <1>3. ASSUME NEW c \in claims, Ack(c)
        PROVE  Kept
    <2>1. c.job \in Jobs
      BY <1>0 DEF TypeOK, Claims
    <2>2. KeepsRow(jobs[c.job], Completed(c.job))
      BY <2>1, RowFacts, CompletedType DEF KeepsRow
    <2>3. QED  BY <1>0, <1>3, <2>1, <2>2, OneRowKept DEF Ack
  <1>4. ASSUME NEW n \in nacks, NAckBury(n)
        PROVE  Kept
    <2>1. n.claim.job \in Jobs
      BY <1>0 DEF TypeOK, Claims
    <2>2. KeepsRow(jobs[n.claim.job],
                   Release(n.claim.job, "dead", jobs[n.claim.job].run_at))
      BY <1>2, <2>1, RowFacts
    <2>3. QED  BY <1>0, <1>4, <2>1, <2>2, OneRowKept DEF NAckBury
  <1>5. ASSUME NEW n \in nacks, NAckReschedule(n)
        PROVE  Kept
    <2>1. n.claim.job \in Jobs
      BY <1>0 DEF TypeOK, Claims
    <2>2. PICK d \in BackoffDelays(n.attempts) :
            jobs' = [jobs EXCEPT ![n.claim.job] = Release(n.claim.job, "pending", d)]
      BY <1>5 DEF NAckReschedule
    <2>3. d \in Nat
      BY StoreAssumption DEF BackoffDelays
    <2>4. KeepsRow(jobs[n.claim.job], Release(n.claim.job, "pending", d))
      BY <1>2, <2>1, <2>3
    <2>5. QED  BY <1>0, <1>5, <2>1, <2>2, <2>4, OneRowKept DEF NAckReschedule
  <1>6. ASSUME NEW c \in claims, NEW d \in RequestedLeases, ExtendLease(c, d)
        PROVE  Kept
    <2>1. c.job \in Jobs /\ d \in Nat
      BY <1>0, StoreAssumption DEF TypeOK, Claims
    <2>2. KeepsRow(jobs[c.job], Renewed(c.job, d))
      BY <2>1, RowFacts, RenewedType DEF KeepsRow
    <2>3. QED  BY <1>0, <1>6, <2>1, <2>2, OneRowKept DEF ExtendLease, history
  <1>7. CASE ReapExpiredLeases
    <2>1. ASSUME NEW j \in Jobs
          PROVE  KeepsRow(jobs[j], jobs'[j])
      <3>1. jobs'[j] = IF Expired(j) THEN Release(j, "pending", jobs[j].run_at)
                                     ELSE jobs[j]
        BY <1>7 DEF ReapExpiredLeases
      <3>2. KeepsRow(jobs[j], Release(j, "pending", jobs[j].run_at))
        BY <1>2, RowFacts
      <3>3. KeepsRow(jobs[j], jobs[j])
        BY DEF KeepsRow
      <3>4. QED  BY <3>1, <3>2, <3>3
    <2>2. QED  BY <1>7, <2>1 DEF ReapExpiredLeases, history
  <1>8. CASE Tick
    <2>1. ASSUME NEW j \in Jobs
          PROVE  KeepsRow(jobs[j], jobs'[j])
      <3>1. jobs'[j] = Aged(j)
        BY <1>8 DEF Tick
      <3>2. QED  BY <3>1, RowFacts, AgedType DEF KeepsRow
    <2>2. QED  BY <1>8, <2>1 DEF Tick, history
  <1>9. ASSUME UNCHANGED <<jobs, claims, issued, revived>>
        PROVE  Kept
    BY <1>9 DEF KeepsRow
  <1>10. QED
    BY <1>1, <1>3, <1>4, <1>5, <1>6, <1>7, <1>8, <1>9
    DEF QuietStep, Next, vars, history, ClaimSelect, ClaimAbort, NAckRead, NAckGivesUp

\* What ClaimsOK says of a claim, with the types that go with it.
LEMMA ClaimFacts ==
  ASSUME IInv, NEW c \in claims
  PROVE  /\ ClaimOK(c)
         /\ c.job \in Jobs /\ c.worker \in Workers
         /\ c.token \in Nat /\ c.seq \in Nat /\ c.revival \in Nat
  BY DEF IInv, ClaimsOK, TypeOK, Claims

LEMMA ClaimsStep ==
  ASSUME IInv, [Next]_vars
  PROVE  ClaimsOK'
  <1>0. TypeOK
    BY DEF IInv
  <1>1. ASSUME NEW l \in claiming, ClaimCommit(l)
        PROVE  ClaimsOK'
    <2> DEFINE j == l.job
               n == NextClaim(j, l.worker)
    <2>1. j \in Jobs /\ l.worker \in Workers /\ l.lease \in Nat
      BY <1>0 DEF TypeOK, Claimings
    <2>2. jobs[j].attempts < jobs[j].max_attempts /\ jobs[j].status = "pending"
      BY DEF IInv, LockedRowStaysClaimable, Claimable
    <2>3. /\ n.job = j /\ n.token = jobs[j].lease_token + 1
          /\ n.seq = issued[j] + 1 /\ n.revival = revived[j]
      BY <1>0, <2>1, NextClaimType
    <2>4. /\ jobs'[j].status = "running"
          /\ jobs'[j].max_attempts = jobs[j].max_attempts
          /\ jobs'[j].lease_token = jobs[j].lease_token + 1
      <3>1. jobs'[j] = Grant(j, l.worker, l.lease)
        BY <1>0, <1>1, <2>1 DEF ClaimCommit, TypeOK
      <3>2. QED  BY <2>1, <3>1, RowFacts, GrantType
    <2>5. issued'[j] = issued[j] + 1 /\ revived' = revived /\ claims' = claims \cup {n}
      BY <1>0, <1>1, <2>1 DEF ClaimCommit, TypeOK
    <2>6. /\ jobs[j].attempts \in Nat /\ jobs[j].max_attempts \in Nat
          /\ jobs[j].lease_token = jobs[j].attempts
          /\ issued[j] \in Nat /\ revived[j] \in Nat
      BY <2>1, RowFacts DEF RowOK
    <2> HIDE DEF j, n
    <2>7. ASSUME NEW c, c = n
          PROVE  ClaimOK(c)'
      <3>1. c.job = j
        BY <2>3, <2>7
      <3>2. /\ c.token = jobs[j].lease_token + 1
            /\ c.seq = issued[j] + 1 /\ c.revival = revived[j]
        BY <2>3, <2>7
      <3>3. QED  BY <2>2, <2>4, <2>5, <2>6, <3>1, <3>2 DEF ClaimOK
    <2>8. ASSUME NEW c \in claims
          PROVE  ClaimOK(c)'
      <3>1. CASE c.job = j
        BY <2>2, <2>4, <2>5, <2>6, <3>1, ClaimFacts DEF ClaimOK
      <3>2. CASE c.job # j
        <4>1. jobs'[c.job] = jobs[c.job] /\ issued'[c.job] = issued[c.job]
          BY <1>0, <1>1, <3>2, ClaimFacts DEF ClaimCommit, TypeOK, j
        <4>2. QED  BY <2>5, <4>1, ClaimFacts DEF ClaimOK
      <3>3. QED  BY <3>1, <3>2
    <2>9. ASSUME NEW c \in claims'
          PROVE  ClaimOK(c)'
      <3>1. c \in claims \/ c = n
        BY <2>5
      <3>2. QED  BY <2>7, <2>8, <3>1
    <2>10. QED  BY <2>9 DEF ClaimsOK
  <1>2. ASSUME NEW j \in Jobs, ResetDeadJob(j)
        PROVE  ClaimsOK'
    <2>1. /\ jobs'[j].status = "pending"
          /\ jobs'[j].max_attempts = jobs[j].max_attempts
      <3>1. jobs'[j] = Revived(j)
        BY <1>0, <1>2 DEF ResetDeadJob, TypeOK
      <3>2. QED  BY <3>1, RowFacts, RevivedType
    <2>2. /\ revived'[j] = revived[j] + 1 /\ issued' = issued /\ claims' = claims
          /\ revived[j] \in Nat
      BY <1>0, <1>2 DEF ResetDeadJob, TypeOK
    <2>3. ASSUME NEW c \in claims
          PROVE  ClaimOK(c)'
      <3>1. CASE c.job = j
        BY <2>1, <2>2, <3>1, ClaimFacts DEF ClaimOK
      <3>2. CASE c.job # j
        <4>1. jobs'[c.job] = jobs[c.job] /\ revived'[c.job] = revived[c.job]
          BY <1>0, <1>2, <3>2, ClaimFacts DEF ResetDeadJob, TypeOK
        <4>2. QED  BY <2>2, <4>1, ClaimFacts DEF ClaimOK
      <3>3. QED  BY <3>1, <3>2
    <2>4. QED  BY <2>2, <2>3 DEF ClaimsOK
  <1>3. CASE QuietStep
    <2>1. ASSUME NEW c \in claims
          PROVE  ClaimOK(c)'
      <3>1. KeepsRow(jobs[c.job], jobs'[c.job]) /\ UNCHANGED <<issued, revived>>
        BY <1>3, QuietRows, ClaimFacts
      <3>2. QED  BY <3>1, ClaimFacts DEF ClaimOK, KeepsRow
    <2>2. QED  BY <1>3, <2>1, QuietRows DEF ClaimsOK
  <1>4. QED  BY <1>1, <1>2, <1>3 DEF QuietStep

\* The budget of a row that exists never changes.
LEMMA BudgetKept ==
  ASSUME IInv, [Next]_vars, NEW j \in Jobs, jobs[j].status # "absent"
  PROVE  jobs'[j].max_attempts = jobs[j].max_attempts
  <1>0. TypeOK
    BY DEF IInv
  <1>1. ASSUME NEW l \in claiming, ClaimCommit(l)
        PROVE  jobs'[j].max_attempts = jobs[j].max_attempts
    <2>1. l.job \in Jobs /\ l.worker \in Workers /\ l.lease \in Nat
      BY <1>0 DEF TypeOK, Claimings
    <2>2. Grant(l.job, l.worker, l.lease).max_attempts = jobs[l.job].max_attempts
      BY <2>1, RowFacts, GrantType
    <2>3. jobs'[j] = IF j = l.job THEN Grant(l.job, l.worker, l.lease) ELSE jobs[j]
      BY <1>0, <1>1 DEF ClaimCommit, TypeOK
    <2>4. QED  BY <2>2, <2>3
  <1>2. ASSUME NEW k \in Jobs, ResetDeadJob(k)
        PROVE  jobs'[j].max_attempts = jobs[j].max_attempts
    <2>1. Revived(k).max_attempts = jobs[k].max_attempts
      BY RowFacts, RevivedType
    <2>2. jobs'[j] = IF j = k THEN Revived(k) ELSE jobs[j]
      BY <1>0, <1>2 DEF ResetDeadJob, TypeOK
    <2>3. QED  BY <2>1, <2>2
  <1>3. CASE QuietStep
    BY <1>3, QuietRows DEF KeepsRow
  <1>4. QED  BY <1>1, <1>2, <1>3 DEF QuietStep

\* nacks grows only in the first statement of a nack.
LEMMA NewNack ==
  ASSUME [Next]_vars, NEW n \in nacks', n \notin nacks
  PROVE  /\ jobs' = jobs
         /\ \E c \in claims : /\ Matches(c) /\ n.claim = c
                              /\ n.attempts = jobs[c.job].attempts
                              /\ n.max_attempts = jobs[c.job].max_attempts
  <1>1. PICK c \in claims, permanent \in BOOLEAN : NAckRead(c, permanent)
    BY DEF Next, vars, history, SubmitJob, ClaimSelect, ClaimCommit, ClaimAbort, Ack,
       NAckBury, NAckReschedule, NAckGivesUp, ExtendLease, ReapExpiredLeases,
       ResetDeadJob, Tick
  <1>2. n = [claim |-> c, permanent |-> permanent, attempts |-> jobs[c.job].attempts,
             max_attempts |-> jobs[c.job].max_attempts]
    BY <1>1 DEF NAckRead
  <1>3. QED  BY <1>1, <1>2 DEF NAckRead

LEMMA NAcksStep ==
  ASSUME IInv, [Next]_vars
  PROVE  NAcksOK'
  <1>0. TypeOK /\ NAcksOK
    BY DEF IInv
  <1>1. ASSUME NEW n \in nacks', n \in nacks
        PROVE  n.attempts = n.claim.token /\ n.max_attempts = jobs'[n.claim.job].max_attempts
    <2>1. n.claim \in claims
      BY <1>0, <1>1 DEF TypeOK
    <2>2. n.claim.job \in Jobs /\ jobs[n.claim.job].status # "absent"
      BY <2>1, ClaimFacts DEF ClaimOK
    <2>3. jobs'[n.claim.job].max_attempts = jobs[n.claim.job].max_attempts
      BY <2>2, BudgetKept
    <2>4. QED  BY <1>0, <1>1, <2>3 DEF NAcksOK
  <1>2. ASSUME NEW n \in nacks', n \notin nacks
        PROVE  n.attempts = n.claim.token /\ n.max_attempts = jobs'[n.claim.job].max_attempts
    <2>1. PICK c \in claims : /\ Matches(c) /\ n.claim = c
                              /\ n.attempts = jobs[c.job].attempts
                              /\ n.max_attempts = jobs[c.job].max_attempts
      BY <1>2, NewNack
    <2>2. jobs[c.job].attempts = c.token
      BY <2>1, ClaimFacts, RowFacts DEF Matches, RowOK
    <2>3. jobs' = jobs
      BY <1>2, NewNack
    <2>4. QED  BY <2>1, <2>2, <2>3
  <1>3. QED  BY <1>1, <1>2 DEF NAcksOK

\* No statement but the claim that locked it moves a pending row.
LEMMA LockedRowKept ==
  ASSUME IInv, [Next]_vars, NEW l \in claiming, l \in claiming'
  PROVE  Claimable(l.job, Queues)'
  <1>0. TypeOK /\ l.job \in Jobs
    BY DEF IInv, TypeOK, Claimings
  <1>1. Claimable(l.job, Queues) /\ \A m \in claiming : m.job = l.job => m = l
    BY DEF IInv, LockedRowStaysClaimable
  <1>2. ASSUME jobs'[l.job] = jobs[l.job]
        PROVE  Claimable(l.job, Queues)'
    BY <1>1, <1>2 DEF Claimable
  <1>3. ASSUME NEW k \in Jobs, NEW r, jobs[k].status # "pending",
               jobs' = [jobs EXCEPT ![k] = r]
        PROVE  Claimable(l.job, Queues)'
    BY <1>0, <1>1, <1>2, <1>3 DEF Claimable, TypeOK
  <1>4. ASSUME NEW j \in Jobs, NEW q \in Queues, NEW p \in Priorities,
               NEW m \in RequestedBudgets, NEW d \in RequestedDelays,
               SubmitJob(j, q, p, m, d)
        PROVE  Claimable(l.job, Queues)'
    BY <1>3, <1>4 DEF SubmitJob
  <1>5. ASSUME NEW m \in claiming, ClaimCommit(m)
        PROVE  Claimable(l.job, Queues)'
    <2>1. m # l
      BY <1>5 DEF ClaimCommit
    <2>2. m.job # l.job
      BY <1>1, <2>1
    <2>3. QED  BY <1>0, <1>2, <1>5, <2>2 DEF ClaimCommit, TypeOK
  <1>6. ASSUME NEW c \in claims, Ack(c)
        PROVE  Claimable(l.job, Queues)'
    BY <1>3, <1>6, ClaimFacts DEF Ack, Matches
  <1>7. ASSUME NEW n \in nacks, NAckBury(n) \/ NAckReschedule(n)
        PROVE  Claimable(l.job, Queues)'
    <2>1. n.claim.job \in Jobs
      BY <1>0, ClaimFacts DEF TypeOK
    <2>2. QED  BY <1>3, <1>7, <2>1 DEF NAckBury, NAckReschedule, Matches
  <1>8. ASSUME NEW c \in claims, NEW d \in RequestedLeases, ExtendLease(c, d)
        PROVE  Claimable(l.job, Queues)'
    BY <1>3, <1>8, ClaimFacts DEF ExtendLease, Matches
  <1>9. CASE ReapExpiredLeases
    <2>1. ~Expired(l.job)
      BY <1>1 DEF Claimable, Expired
    <2>2. jobs'[l.job] = jobs[l.job]
      BY <1>0, <1>9, <2>1 DEF ReapExpiredLeases
    <2>3. QED  BY <1>2, <2>2
  <1>10. ASSUME NEW j \in Jobs, ResetDeadJob(j)
         PROVE  Claimable(l.job, Queues)'
    BY <1>3, <1>10 DEF ResetDeadJob
  <1>11. CASE Tick
    <2>1. jobs'[l.job] = Aged(l.job)
      BY <1>0, <1>11 DEF Tick
    <2>2. QED  BY <1>0, <1>1, <2>1, RowFacts, AgedType DEF Claimable
  <1>12. ASSUME UNCHANGED jobs
         PROVE  Claimable(l.job, Queues)'
    BY <1>2, <1>12
  <1>13. QED
    BY <1>4, <1>5, <1>6, <1>7, <1>8, <1>9, <1>10, <1>11, <1>12
    DEF Next, vars, ClaimSelect, ClaimAbort, NAckRead, NAckGivesUp

\* claiming grows only by a claim of a row nobody holds.
LEMMA NewLock ==
  ASSUME TypeOK, [Next]_vars, NEW l \in claiming', l \notin claiming
  PROVE  /\ jobs' = jobs /\ claiming' = claiming \cup {l}
         /\ l.job \notin Locked
         /\ \E qs \in SUBSET Queues : Claimable(l.job, qs)
  <1>1. PICK j \in Jobs, w \in Workers, qs \in SUBSET Queues, d \in ClaimLeases :
          ClaimSelect(j, w, qs, d)
    BY DEF Next, vars, history, SubmitJob, ClaimCommit, ClaimAbort, Ack, NAckRead,
       NAckBury, NAckReschedule, NAckGivesUp, ExtendLease, ReapExpiredLeases,
       ResetDeadJob, Tick
  <1>2. l = [job |-> j, worker |-> w, lease |-> d]
    BY <1>1 DEF ClaimSelect
  <1>3. QED  BY <1>1, <1>2 DEF ClaimSelect

LEMMA LocksStep ==
  ASSUME IInv, [Next]_vars
  PROVE  LockedRowStaysClaimable'
  <1>0. TypeOK
    BY DEF IInv
  <1>1. ASSUME NEW l \in claiming'
        PROVE  Claimable(l.job, Queues)'
    <2>1. CASE l \in claiming
      BY <2>1, LockedRowKept
    <2>2. CASE l \notin claiming
      <3>1. PICK qs \in SUBSET Queues : Claimable(l.job, qs)
        BY <1>0, <2>2, NewLock
      <3>2. jobs' = jobs
        BY <1>0, <2>2, NewLock
      <3>3. QED  BY <3>1, <3>2 DEF Claimable
    <2>3. QED  BY <2>1, <2>2
  <1>2. ASSUME NEW l \in claiming', NEW m \in claiming', m.job = l.job
        PROVE  m = l
    <2>1. CASE l \in claiming /\ m \in claiming
      BY <1>2, <2>1 DEF IInv, LockedRowStaysClaimable
    <2>2. CASE l \notin claiming
      BY <1>0, <1>2, <2>2, NewLock DEF Locked
    <2>3. CASE m \notin claiming
      BY <1>0, <1>2, <2>3, NewLock DEF Locked
    <2>4. QED  BY <2>1, <2>2, <2>3
  <1>3. QED  BY <1>1, <1>2 DEF LockedRowStaysClaimable

LEMMA TokensStep ==
  ASSUME IInv, [Next]_vars
  PROVE  DistinctTokens'
  <1>0. TypeOK /\ DistinctTokens
    BY DEF IInv
  <1>1. ASSUME NEW l \in claiming, ClaimCommit(l)
        PROVE  DistinctTokens'
    <2> DEFINE n == NextClaim(l.job, l.worker)
    <2>1. l.job \in Jobs /\ l.worker \in Workers
      BY <1>0 DEF TypeOK, Claimings
    <2>2. /\ n.job = l.job /\ n.token = jobs[l.job].lease_token + 1
          /\ n.revival = revived[l.job]
      BY <1>0, <2>1, NextClaimType
    <2>3. claims' = claims \cup {n}
      BY <1>1 DEF ClaimCommit
    <2> HIDE DEF n
    <2>4. ASSUME NEW c \in claims, c.job = n.job, c.revival = n.revival
          PROVE  c.token # n.token
      <3>1. /\ issued[c.job] - c.seq = jobs[c.job].lease_token - c.token
            /\ c.seq <= issued[c.job]
        BY <2>2, <2>4, ClaimFacts DEF ClaimOK
      <3>2. /\ c.seq \in Nat /\ c.token \in Nat
            /\ issued[c.job] \in Nat /\ jobs[c.job].lease_token \in Nat
        BY ClaimFacts, RowFacts
      <3>3. QED  BY <2>2, <2>4, <3>1, <3>2
    <2>5. QED  BY <1>0, <2>3, <2>4 DEF DistinctTokens
  <1>2. ASSUME UNCHANGED claims
        PROVE  DistinctTokens'
    BY <1>0, <1>2 DEF DistinctTokens
  <1>3. ASSUME NEW j \in Jobs, ResetDeadJob(j)
        PROVE  DistinctTokens'
    BY <1>2, <1>3 DEF ResetDeadJob
  <1>4. CASE QuietStep
    BY <1>2, <1>4, QuietRows
  <1>5. QED  BY <1>1, <1>3, <1>4 DEF QuietStep

\* What accepts an outcome: it matched, and its row is running no more.
LEMMA NewlySettled ==
  ASSUME IInv, [Next]_vars, settled' # settled
  PROVE  \E c \in claims : /\ Matches(c)
                           /\ settled' = settled \cup {c}
                           /\ jobs'[c.job].status # "running"
                           /\ revived' = revived /\ claims' = claims
  <1>0. TypeOK
    BY DEF IInv
  <1>1. ASSUME NEW c \in claims, Ack(c)
        PROVE  jobs'[c.job].status # "running"
    <2>1. jobs'[c.job] = Completed(c.job) /\ c.job \in Jobs
      BY <1>0, <1>1, ClaimFacts DEF Ack, TypeOK
    <2>2. QED  BY <2>1, RowFacts, CompletedType
  <1>2. ASSUME NEW n \in nacks, NEW s \in {"pending", "dead"}, NEW d \in Nat,
               jobs' = [jobs EXCEPT ![n.claim.job] = Release(n.claim.job, s, d)]
        PROVE  jobs'[n.claim.job].status # "running"
    <2>1. n.claim \in claims /\ n.claim.job \in Jobs
      BY <1>0, ClaimFacts DEF TypeOK
    <2>2. jobs'[n.claim.job] = Release(n.claim.job, s, d)
      BY <1>0, <1>2, <2>1 DEF TypeOK
    <2>3. Release(n.claim.job, s, d).status = s
      BY <2>1, RowFacts, ReleaseType DEF Statuses
    <2>4. QED  BY <2>2, <2>3
  <1>3. ASSUME NEW n \in nacks, NAckBury(n)
        PROVE  jobs'[n.claim.job].status # "running"
    <2>1. n.claim.job \in Jobs
      BY <1>0, ClaimFacts DEF TypeOK
    <2>2. QED  BY <1>2, <1>3, <2>1, RowFacts DEF NAckBury
  <1>4. ASSUME NEW n \in nacks, NAckReschedule(n)
        PROVE  jobs'[n.claim.job].status # "running"
    <2>1. PICK d \in BackoffDelays(n.attempts) :
            jobs' = [jobs EXCEPT ![n.claim.job] = Release(n.claim.job, "pending", d)]
      BY <1>4 DEF NAckReschedule
    <2>2. d \in Nat
      BY StoreAssumption DEF BackoffDelays
    <2>3. QED  BY <1>2, <2>1, <2>2
  <1>5. \/ \E c \in claims : Ack(c)
        \/ \E n \in nacks : NAckBury(n) \/ NAckReschedule(n)
    BY DEF Next, vars, history, SubmitJob, ClaimSelect, ClaimCommit, ClaimAbort, NAckRead,
       NAckGivesUp, ExtendLease, ReapExpiredLeases, ResetDeadJob, Tick
  <1>6. CASE \E c \in claims : Ack(c)
    BY <1>1, <1>6 DEF Ack
  <1>7. CASE \E n \in nacks : NAckBury(n) \/ NAckReschedule(n)
    <2>1. PICK n \in nacks : NAckBury(n) \/ NAckReschedule(n)
      BY <1>7
    <2>2. n.claim \in claims
      BY <1>0 DEF TypeOK
    <2>3. QED  BY <1>3, <1>4, <2>1, <2>2 DEF NAckBury, NAckReschedule
  <1>8. QED  BY <1>5, <1>6, <1>7

LEMMA SettledStep ==
  ASSUME IInv, [Next]_vars
  PROVE  SettledOnce'
  <1>0. TypeOK /\ SettledOnce
    BY DEF IInv
  <1>1. ASSUME NEW l \in claiming, ClaimCommit(l), NEW c \in settled
        PROVE  c.revival = revived'[c.job] => ~Matches(c)'
    <2>1. c \in claims
      BY <1>0 DEF TypeOK
    <2>2. l.job \in Jobs /\ l.worker \in Workers /\ l.lease \in Nat
      BY <1>0 DEF TypeOK, Claimings
    <2>3. jobs'[c.job] = IF c.job = l.job THEN Grant(l.job, l.worker, l.lease)
                                          ELSE jobs[c.job]
      BY <1>0, <1>1, <2>1, ClaimFacts DEF ClaimCommit, TypeOK
    <2>4. Grant(l.job, l.worker, l.lease).lease_token = jobs[l.job].lease_token + 1
      BY <2>2, RowFacts, GrantType
    <2>5. revived' = revived
      BY <1>1 DEF ClaimCommit
    <2>6. CASE c.job = l.job /\ c.revival = revived[c.job]
      <3>1. /\ issued[c.job] - c.seq = jobs[c.job].lease_token - c.token
            /\ c.seq <= issued[c.job]
        BY <2>1, <2>6, ClaimFacts DEF ClaimOK
      <3>2. /\ c.seq \in Nat /\ c.token \in Nat
            /\ issued[c.job] \in Nat /\ jobs[c.job].lease_token \in Nat
        BY <2>1, ClaimFacts, RowFacts
      <3>3. jobs'[c.job].lease_token # c.token
        BY <2>3, <2>4, <2>6, <3>1, <3>2
      <3>4. QED  BY <3>3 DEF Matches
    <2>7. CASE c.job # l.job
      BY <1>0, <2>3, <2>5, <2>7 DEF SettledOnce, Matches
    <2>8. QED  BY <2>5, <2>6, <2>7
  <1>2. ASSUME NEW j \in Jobs, ResetDeadJob(j), NEW c \in settled
        PROVE  c.revival = revived'[c.job] => ~Matches(c)'
    <2>1. c \in claims
      BY <1>0 DEF TypeOK
    <2>2. CASE c.job = j
      <3>1. revived'[c.job] = revived[c.job] + 1 /\ revived[c.job] \in Nat
        BY <1>0, <1>2, <2>2 DEF ResetDeadJob, TypeOK
      <3>2. c.revival <= revived[c.job] /\ c.revival \in Nat
        BY <2>1, ClaimFacts DEF ClaimOK
      <3>3. QED  BY <3>1, <3>2
    <2>3. CASE c.job # j
      <3>1. jobs'[c.job] = jobs[c.job] /\ revived'[c.job] = revived[c.job]
        BY <1>0, <1>2, <2>1, <2>3, ClaimFacts DEF ResetDeadJob, TypeOK
      <3>2. QED  BY <1>0, <3>1 DEF SettledOnce, Matches
    <2>4. QED  BY <2>2, <2>3
  <1>3. ASSUME QuietStep, NEW c \in settled
        PROVE  c.revival = revived'[c.job] => ~Matches(c)'
    <2>1. c \in claims
      BY <1>0 DEF TypeOK
    <2>2. KeepsRow(jobs[c.job], jobs'[c.job]) /\ revived' = revived
      BY <1>3, <2>1, QuietRows, ClaimFacts
    <2>3. jobs[c.job].status # "absent"
      BY <2>1, ClaimFacts DEF ClaimOK
    <2>4. QED  BY <1>0, <2>2, <2>3 DEF SettledOnce, Matches, KeepsRow
  <1>4. ASSUME NEW c \in settled', c \notin settled
        PROVE  ~Matches(c)'
    <2>1. jobs'[c.job].status # "running"
      BY <1>4, NewlySettled
    <2>2. QED  BY <2>1 DEF Matches
  <1>5. ASSUME NEW c \in settled'
        PROVE  c.revival = revived'[c.job] => ~Matches(c)'
    BY <1>1, <1>2, <1>3, <1>4, <1>5 DEF QuietStep
  <1>6. QED  BY <1>5 DEF SettledOnce

LEMMA InvStep == IInv /\ [Next]_vars => IInv'
  <1> SUFFICES ASSUME IInv, [Next]_vars PROVE IInv'
    OBVIOUS
  <1>1. TypeOK'
    BY TypeStep DEF IInv
  <1>2. QED
    BY <1>1, RowsStep, ClaimsStep, TokensStep, NAcksStep, SettledStep, LocksStep
    DEF IInv

\* Rows, claims, decisions under way and row locks always agree.
THEOREM Invariant == Spec => []IInv
  <1>1. QED  BY InitInv, InvStep, PTL DEF Spec

-----------------------------------------------------------------------------
(* What the invariant gives *)

\* The lease columns follow the status: the reaper can take back every
\* running job whose worker went silent.
THEOREM LeaseColumns == Spec => []LeaseFollowsStatus
  <1>1. IInv => LeaseFollowsStatus
    BY DEF IInv, RowsOK, RowOK, LeaseFollowsStatus
  <1>2. QED  BY <1>1, Invariant, PTL

\* attempts and lease_token agree in every row.
THEOREM TokensCountAttempts == Spec => []TokenCountsAttempts
  <1>1. IInv => TokenCountsAttempts
    BY DEF IInv, RowsOK, RowOK, TokenCountsAttempts
  <1>2. QED  BY <1>1, Invariant, PTL

\* Concurrent claims never share a row, and the row a claim has locked is
\* still what the claim picked it for when it commits.
THEOREM LockedRows == Spec => []LockedRowStaysClaimable
  <1>1. IInv => LockedRowStaysClaimable
    BY DEF IInv
  <1>2. QED  BY <1>1, Invariant, PTL

\* A report that is repeated or delayed counts once, until an operator retries
\* the job.
THEOREM SettledClaims == Spec => []SettledOnce
  <1>1. IInv => SettledOnce
    BY DEF IInv
  <1>2. QED  BY <1>1, Invariant, PTL

\* MarkFailure's UPDATE never acts on attempts or a budget that its SELECT
\* read and that have changed since, with no transaction around the two.
THEOREM FreshNacks == Spec => []NAckDecisionIsFresh
  <1>1. ASSUME IInv PROVE NAckDecisionIsFresh
    <2>1. ASSUME NEW n \in nacks, Matches(n.claim)
          PROVE  /\ n.attempts = jobs[n.claim.job].attempts
                 /\ n.max_attempts = jobs[n.claim.job].max_attempts
      <3>1. n.claim \in claims
        BY <1>1 DEF IInv, TypeOK
      <3>2. jobs[n.claim.job].lease_token = jobs[n.claim.job].attempts
        BY <1>1, <3>1, ClaimFacts, RowFacts DEF RowOK
      <3>3. QED  BY <1>1, <2>1, <3>2 DEF IInv, NAcksOK, Matches
    <2>2. QED  BY <2>1 DEF NAckDecisionIsFresh
  <1>2. QED  BY <1>1, Invariant, PTL

\* Between two operator retries a job is handed out at most max_attempts
\* times: the claims of one revival have different tokens, and a token never
\* exceeds the budget.
THEOREM Budget == Spec => []AttemptBudget
  <1>1. ASSUME IInv, NEW j \in Jobs, NEW r \in 0..revived[j]
        PROVE  Cardinality({c \in claims : c.job = j /\ c.revival = r})
                 <= jobs[j].max_attempts
    <2> DEFINE S == {c \in claims : c.job = j /\ c.revival = r}
               T == 1..jobs[j].max_attempts
               f == [c \in S |-> c.token]
    <2>1. jobs[j].max_attempts \in Nat
      BY <1>1, RowFacts
    <2>2. IsFiniteSet(T) /\ Cardinality(T) = jobs[j].max_attempts
      <3> DEFINE m == jobs[j].max_attempts
      <3> HIDE DEF m
      <3>1. m \in Nat
        BY <2>1 DEF m
      <3>2. /\ IsFiniteSet(1..m)
            /\ Cardinality(1..m) = IF 1 > m THEN 0 ELSE m - 1 + 1
        BY <3>1, FS_Interval
      <3>3. Cardinality(1..m) = m
        BY <3>1, <3>2
      <3>4. QED  BY <3>2, <3>3 DEF m
    <2>3. f \in Injection(S, T)
      <3>1. \A c \in S : c.token \in T
        BY <1>1, ClaimFacts DEF ClaimOK
      <3>2. \A c, d \in S : c.token = d.token => c = d
        BY <1>1 DEF IInv, DistinctTokens
      <3>3. QED  BY <3>1, <3>2 DEF Injection, IsInjective
    <2> HIDE DEF S, T, f
    <2>4. Cardinality(S) <= Cardinality(T)
      BY <2>2, <2>3, FS_Injection
    <2>5. QED  BY <2>2, <2>4 DEF S
  <1>2. IInv => AttemptBudget
    BY <1>1 DEF AttemptBudget
  <1>3. QED  BY <1>2, Invariant, PTL

-----------------------------------------------------------------------------
(* What a step of the table may never do *)

\* As long as the operator has not retried the job since, an outcome is
\* accepted only from the claim handed out last: an equal token is an equal
\* claim.
THEOREM Fencing == Spec => FencedWithinRevival
  <1>1. IInv /\ [Next]_vars =>
          [\A c \in settled' \ settled : c.revival = revived[c.job] => Current(c)]_vars
    <2> SUFFICES ASSUME IInv, [Next]_vars, NEW c \in settled' \ settled,
                        c.revival = revived[c.job]
                 PROVE  Current(c)
      OBVIOUS
    <2>1. c \in claims /\ Matches(c)
      BY NewlySettled
    <2>2. issued[c.job] - c.seq = jobs[c.job].lease_token - c.token
      BY <2>1, ClaimFacts DEF ClaimOK
    <2>3. /\ jobs[c.job].lease_token = c.token
          /\ c.seq \in Nat /\ c.token \in Nat /\ issued[c.job] \in Nat
      BY <2>1, ClaimFacts, RowFacts DEF Matches
    <2>4. QED  BY <2>2, <2>3 DEF Current
  <1>2. QED  BY <1>1, Invariant, PTL DEF Spec, FencedWithinRevival

-----------------------------------------------------------------------------
(* Live leases *)

\* The holder's columns of a row.
SameHolder(j) ==
  /\ jobs'[j].status = "running"
  /\ jobs'[j].lease_token = jobs[j].lease_token
  /\ jobs'[j].lease_owner = jobs[j].lease_owner

\* A step in which no outcome is accepted leaves a live lease to its holder.
LEMMA LiveLeaseStep ==
  ASSUME IInv, [Next]_vars, NEW j \in Jobs,
         jobs[j].status = "running", jobs[j].lease_until >= 0,
         ~\E c \in claims : Ack(c),
         ~\E n \in nacks : NAckBury(n) \/ NAckReschedule(n)
  PROVE  SameHolder(j)
  <1>0. TypeOK
    BY DEF IInv
  <1>1. ASSUME jobs'[j] = jobs[j] PROVE SameHolder(j)
    BY <1>1 DEF SameHolder
  <1>2. ASSUME NEW k \in Jobs, NEW r, jobs[k].status # "running",
               jobs' = [jobs EXCEPT ![k] = r]
        PROVE  SameHolder(j)
    BY <1>0, <1>1, <1>2 DEF TypeOK
  <1>3. ASSUME NEW k \in Jobs, NEW q \in Queues, NEW p \in Priorities,
               NEW m \in RequestedBudgets, NEW d \in RequestedDelays,
               SubmitJob(k, q, p, m, d)
        PROVE  SameHolder(j)
    BY <1>2, <1>3 DEF SubmitJob
  <1>4. ASSUME NEW l \in claiming, ClaimCommit(l)
        PROVE  SameHolder(j)
    <2>1. l.job \in Jobs /\ jobs[l.job].status = "pending"
      BY <1>0 DEF TypeOK, Claimings, IInv, LockedRowStaysClaimable, Claimable
    <2>2. QED  BY <1>2, <1>4, <2>1 DEF ClaimCommit
  <1>5. ASSUME NEW c \in claims, NEW d \in RequestedLeases, ExtendLease(c, d)
        PROVE  SameHolder(j)
    <2>1. c.job \in Jobs /\ d \in Nat
      BY StoreAssumption, ClaimFacts
    <2>2. CASE c.job = j
      <3>1. jobs'[j] = Renewed(j, d)
        BY <1>0, <1>5, <2>2 DEF ExtendLease, TypeOK
      <3>2. QED  BY <2>1, <3>1, RowFacts, RenewedType DEF SameHolder
    <2>3. CASE c.job # j
      BY <1>0, <1>1, <1>5, <2>3 DEF ExtendLease, TypeOK
    <2>4. QED  BY <2>2, <2>3
  <1>6. CASE ReapExpiredLeases
    <2>1. ~Expired(j)
      <3>1. CASE jobs[j].lease_until = NULL
        BY <3>1 DEF Expired
      <3>2. CASE jobs[j].lease_until # NULL
        <4>1. jobs[j].lease_until \in Int
          BY <3>2, RowFacts
        <4>2. QED  BY <4>1 DEF Expired
      <3>3. QED  BY <3>1, <3>2
    <2>2. QED  BY <1>1, <1>6, <2>1 DEF ReapExpiredLeases
  <1>7. ASSUME NEW k \in Jobs, ResetDeadJob(k)
        PROVE  SameHolder(j)
    BY <1>2, <1>7 DEF ResetDeadJob
  <1>8. CASE Tick
    <2>1. jobs'[j] = Aged(j)
      BY <1>8 DEF Tick
    <2>2. QED  BY <2>1, RowFacts, AgedType DEF SameHolder
  <1>9. QED
    BY <1>1, <1>3, <1>4, <1>5, <1>6, <1>7, <1>8
    DEF Next, vars, ClaimSelect, ClaimAbort, NAckRead, NAckGivesUp

\* Nobody takes a lease that has not ended from its holder: not the reaper,
\* not another claim, not an operator, only an outcome under its token.
THEOREM LiveLeases == Spec => LiveLeaseIsKept
  <1> DEFINE Settles(j) == \E c \in settled' :
                             /\ c.job = j /\ c.token = jobs[j].lease_token
                             /\ c \notin settled \/ c.revival < revived[j]
             Live(j) == jobs[j].status = "running" /\ jobs[j].lease_until >= 0
  <1>1. ASSUME IInv, [Next]_vars, NEW j \in Jobs, Live(j)
        PROVE  SameHolder(j) \/ Settles(j)
    <2>0. TypeOK
      BY <1>1 DEF IInv
    <2>1. ASSUME NEW c \in claims, Matches(c), settled' = settled \cup {c}, c.job = j
          PROVE  Settles(j)
      <3>1. c.token = jobs[j].lease_token
        BY <2>1 DEF Matches
      <3>2. c \in settled => c.revival # revived[j]
        BY <1>1, <2>1 DEF IInv, SettledOnce
      <3>3. c.revival <= revived[j] /\ c.revival \in Nat /\ revived[j] \in Nat
        BY <1>1, <2>1, ClaimFacts, RowFacts DEF ClaimOK
      <3>4. c \notin settled \/ c.revival < revived[j]
        BY <3>2, <3>3
      <3>5. QED  BY <2>1, <3>1, <3>4
    <2>2. ASSUME NEW c \in claims, c.job # j, NEW r, jobs' = [jobs EXCEPT ![c.job] = r]
          PROVE  SameHolder(j)
      <3>1. jobs'[j] = jobs[j]
        BY <2>0, <2>2 DEF TypeOK
      <3>2. QED  BY <1>1, <3>1 DEF SameHolder
    <2>3. CASE \E c \in claims : Ack(c)
      BY <2>1, <2>2, <2>3 DEF Ack
    <2>4. CASE \E n \in nacks : NAckBury(n) \/ NAckReschedule(n)
      <3>1. PICK n \in nacks : NAckBury(n) \/ NAckReschedule(n)
        BY <2>4
      <3>2. n.claim \in claims
        BY <2>0 DEF TypeOK
      <3>3. QED  BY <2>1, <2>2, <3>1, <3>2 DEF NAckBury, NAckReschedule
    <2>5. QED  BY <1>1, <2>3, <2>4, LiveLeaseStep
  <1>2. IInv /\ [Next]_vars =>
          [\A j \in Jobs :
             (jobs[j].status = "running" /\ jobs[j].lease_until >= 0) =>
               \/ /\ jobs'[j].status = "running"
                  /\ jobs'[j].lease_token = jobs[j].lease_token
                  /\ jobs'[j].lease_owner = jobs[j].lease_owner
               \/ \E c \in settled' :
                    /\ c.job = j /\ c.token = jobs[j].lease_token
                    /\ c \notin settled \/ c.revival < revived[j]]_vars
    BY <1>1 DEF SameHolder
  <1>3. QED  BY <1>2, Invariant, PTL DEF Spec, LiveLeaseIsKept

-----------------------------------------------------------------------------
(* The end of the budget *)

\* What the first statement of a nack read still holds in the second.
LEMMA RescheduledWithinBudget ==
  ASSUME IInv, NEW n \in nacks, NAckReschedule(n)
  PROVE  jobs[n.claim.job].attempts < jobs[n.claim.job].max_attempts
  <1>1. n.claim \in claims /\ n \in Nacks
    BY DEF IInv, TypeOK
  <1>2. n.attempts \in Nat /\ n.max_attempts \in Nat
    BY <1>1 DEF Nacks
  <1>3. n.attempts = n.claim.token /\ n.max_attempts = jobs[n.claim.job].max_attempts
    BY DEF IInv, NAcksOK
  <1>4. jobs[n.claim.job].attempts = n.claim.token
    BY <1>1, ClaimFacts, RowFacts DEF NAckReschedule, Matches, RowOK
  <1>5. QED  BY <1>2, <1>3, <1>4 DEF NAckReschedule, Exhausted

\* A running job whose budget is used up goes back to the queue only when the
\* reaper takes its lease: a nack that reaches the server always buries it.
THEOREM BudgetEndsInBurial == Spec => OnlyTheReaperStrands
  <1> DEFINE UsedUp(j) == /\ jobs[j].status = "running"
                          /\ jobs[j].attempts >= jobs[j].max_attempts
  <1>1. ASSUME IInv, [Next]_vars, NEW j \in Jobs, UsedUp(j), jobs'[j].status = "pending"
        PROVE  Expired(j)
    <2>0. TypeOK
      BY <1>1 DEF IInv
    <2>1. jobs'[j] # jobs[j]
      BY <1>1
    <2>2. ASSUME NEW k \in Jobs, NEW r, jobs' = [jobs EXCEPT ![k] = r]
          PROVE  k = j /\ r.status = "pending"
      BY <1>1, <2>0, <2>1, <2>2 DEF TypeOK
    <2>3. ASSUME NEW k \in Jobs, NEW q \in Queues, NEW p \in Priorities,
                 NEW m \in RequestedBudgets, NEW d \in RequestedDelays,
                 SubmitJob(k, q, p, m, d)
          PROVE  FALSE
      BY <1>1, <2>2, <2>3 DEF SubmitJob
    <2>4. ASSUME NEW l \in claiming, ClaimCommit(l)
          PROVE  FALSE
      <3>1. l.job \in Jobs /\ jobs[l.job].status = "pending"
        BY <1>1, <2>0 DEF TypeOK, Claimings, IInv, LockedRowStaysClaimable, Claimable
      <3>2. QED  BY <1>1, <2>2, <2>4, <3>1 DEF ClaimCommit
    <2>5. ASSUME NEW c \in claims, Ack(c)
          PROVE  FALSE
      <3>1. c.job \in Jobs /\ Completed(c.job).status = "completed"
        BY <1>1, ClaimFacts, RowFacts, CompletedType
      <3>2. QED  BY <2>2, <2>5, <3>1 DEF Ack
    <2>6. ASSUME NEW n \in nacks, NAckBury(n)
          PROVE  FALSE
      <3>1. n.claim.job \in Jobs
        BY <1>1, <2>0, ClaimFacts DEF TypeOK
      <3>2. Release(n.claim.job, "dead", jobs[n.claim.job].run_at).status = "dead"
        BY <1>1, <3>1, RowFacts, ReleaseType DEF Statuses
      <3>3. QED  BY <2>2, <2>6, <3>1, <3>2 DEF NAckBury
    <2>7. ASSUME NEW n \in nacks, NAckReschedule(n)
          PROVE  FALSE
      <3>1. n.claim.job \in Jobs
        BY <1>1, <2>0, ClaimFacts DEF TypeOK
      <3>2. jobs[n.claim.job].attempts < jobs[n.claim.job].max_attempts
        BY <1>1, <2>7, RescheduledWithinBudget
      <3>3. jobs[j].attempts \in Nat /\ jobs[j].max_attempts \in Nat
        BY <1>1, RowFacts
      <3>4. QED  BY <1>1, <2>2, <2>7, <3>1, <3>2, <3>3 DEF NAckReschedule
    <2>8. ASSUME NEW c \in claims, NEW d \in RequestedLeases, ExtendLease(c, d)
          PROVE  FALSE
      <3>1. /\ c.job \in Jobs /\ jobs[c.job].status = "running"
            /\ Renewed(c.job, d).status = jobs[c.job].status
        BY <1>1, <2>8, StoreAssumption, ClaimFacts, RowFacts, RenewedType
        DEF ExtendLease, Matches
      <3>2. QED  BY <2>2, <2>8, <3>1 DEF ExtendLease
    <2>9. CASE ReapExpiredLeases
      BY <2>1, <2>9 DEF ReapExpiredLeases
    <2>10. ASSUME NEW k \in Jobs, ResetDeadJob(k)
           PROVE  FALSE
      BY <1>1, <2>2, <2>10 DEF ResetDeadJob
    <2>11. CASE Tick
      <3>1. jobs'[j].status = jobs[j].status
        BY <1>1, <2>11, RowFacts, AgedType DEF Tick
      <3>2. QED  BY <1>1, <3>1
    <2>12. QED
      BY <1>1, <2>1, <2>3, <2>4, <2>5, <2>6, <2>7, <2>8, <2>9, <2>10, <2>11
      DEF Next, vars, ClaimSelect, ClaimAbort, NAckRead, NAckGivesUp
  <1>2. IInv /\ [Next]_vars =>
          [\A j \in Jobs :
             (/\ jobs[j].status = "running"
              /\ jobs[j].attempts >= jobs[j].max_attempts
              /\ jobs'[j].status = "pending") => Expired(j)]_vars
    BY <1>1
  <1>3. QED  BY <1>2, Invariant, PTL DEF Spec, OnlyTheReaperStrands

-----------------------------------------------------------------------------
(* Refinement *)

\* Writing one row is writing one life.
LEMMA OneLife ==
  ASSUME TypeOK, NEW k \in Jobs, NEW r, jobs' = [jobs EXCEPT ![k] = r]
  PROVE  Life' = [Life EXCEPT ![k] = [status |-> r.status, tries |-> r.attempts,
                                      max |-> r.max_attempts]]
  BY DEF TypeOK, Life, LifeOf

LEMMA LifeInit == Init => Lifecycle!Init
  BY DEF Init, Lifecycle!Init, Lifecycle!Absent, Life, LifeOf, NoRow

LEMMA LifeStep == IInv /\ [Next]_vars => [Lifecycle!Next]_Life
  <1> SUFFICES ASSUME IInv, [Next]_vars PROVE [Lifecycle!Next]_Life
    OBVIOUS
  <1>0. TypeOK
    BY DEF IInv
  <1>1. ASSUME NEW j \in Jobs, NEW q \in Queues, NEW p \in Priorities,
               NEW m \in RequestedBudgets, NEW d \in RequestedDelays,
               SubmitJob(j, q, p, m, d)
        PROVE  Lifecycle!Submit(j)
    <2> DEFINE r == NewRow(q, p, m, d)
    <2>1. /\ r.status = "pending" /\ r.attempts = 0
          /\ r.max_attempts \in Nat \ {0}
      BY StoreAssumption, NewRowType
    <2>2. Life[j] = Lifecycle!Absent
      <3>1. jobs[j].status = "absent" /\ jobs[j].max_attempts = 0 /\ jobs[j].attempts = 0
        BY <1>1, RowFacts DEF SubmitJob, RowOK
      <3>2. QED  BY <3>1 DEF Life, LifeOf, Lifecycle!Absent
    <2> HIDE DEF r
    <2>3. jobs' = [jobs EXCEPT ![j] = r]
      BY <1>1 DEF SubmitJob, r
    <2>4. Life' = [Life EXCEPT ![j] = [status |-> "pending", tries |-> 0,
                                       max |-> r.max_attempts]]
      <3>1. Life' = [Life EXCEPT ![j] = [status |-> r.status, tries |-> r.attempts,
                                         max |-> r.max_attempts]]
        BY <1>0, <2>3, OneLife
      <3>2. QED  BY <2>1, <3>1
    <2>5. Life'[j].max = r.max_attempts
      BY <2>4 DEF Life
    <2>6. QED  BY <2>1, <2>2, <2>4, <2>5 DEF Lifecycle!Submit
  <1>2. ASSUME NEW l \in claiming, ClaimCommit(l)
        PROVE  Lifecycle!Start(l.job)
    <2> DEFINE j == l.job
               r == Grant(j, l.worker, l.lease)
    <2>1. j \in Jobs /\ l.worker \in Workers /\ l.lease \in Nat
      BY <1>0 DEF TypeOK, Claimings
    <2>2. /\ r.status = "running"
          /\ r.attempts = jobs[j].attempts + 1
          /\ r.max_attempts = jobs[j].max_attempts
      BY <2>1, RowFacts, GrantType
    <2>3. jobs[j].status = "pending" /\ jobs[j].attempts < jobs[j].max_attempts
      BY DEF IInv, LockedRowStaysClaimable, Claimable
    <2>4. jobs' = [jobs EXCEPT ![j] = r]
      BY <1>2 DEF ClaimCommit
    <2> HIDE DEF j, r
    <2>5. Life' = [Life EXCEPT ![j] = [status |-> "running",
                                       tries |-> jobs[j].attempts + 1,
                                       max |-> jobs[j].max_attempts]]
      <3>1. Life' = [Life EXCEPT ![j] = [status |-> r.status, tries |-> r.attempts,
                                         max |-> r.max_attempts]]
        BY <1>0, <2>1, <2>2, <2>4, OneLife
      <3>2. QED  BY <2>1, <2>2, <2>4, <3>1
    <2>6. Life[j] = [status |-> "pending", tries |-> jobs[j].attempts,
                     max |-> jobs[j].max_attempts]
      BY <2>1, <2>3 DEF Life, LifeOf
    <2>7. Lifecycle!Start(j)
      BY <2>3, <2>5, <2>6 DEF Lifecycle!Start, Lifecycle!Becomes
    <2>8. QED  BY <2>7 DEF j
  <1>3. ASSUME NEW c \in claims, Ack(c)
        PROVE  Lifecycle!Succeed(c.job)
    <2> DEFINE r == Completed(c.job)
    <2>1. c.job \in Jobs /\ jobs[c.job].status = "running"
      BY <1>3, ClaimFacts DEF Ack, Matches
    <2>2. /\ r.status = "completed"
          /\ r.attempts = jobs[c.job].attempts
          /\ r.max_attempts = jobs[c.job].max_attempts
      BY <2>1, RowFacts, CompletedType
    <2>3. jobs' = [jobs EXCEPT ![c.job] = r]
      BY <1>3 DEF Ack
    <2> HIDE DEF r
    <2>4. Life' = [Life EXCEPT ![c.job] = [status |-> "completed",
                                           tries |-> jobs[c.job].attempts,
                                           max |-> jobs[c.job].max_attempts]]
      <3>1. Life' = [Life EXCEPT ![c.job] = [status |-> r.status, tries |-> r.attempts,
                                         max |-> r.max_attempts]]
        BY <1>0, <2>1, <2>2, <2>3, OneLife
      <3>2. QED  BY <2>1, <2>2, <2>3, <3>1
    <2>5. Life[c.job] = [status |-> "running", tries |-> jobs[c.job].attempts,
                         max |-> jobs[c.job].max_attempts]
      BY <2>1 DEF Life, LifeOf
    <2>6. QED
      BY <2>4, <2>5 DEF Lifecycle!Succeed, Lifecycle!Becomes
  <1>4. ASSUME NEW n \in nacks, NAckBury(n)
        PROVE  Lifecycle!Bury(n.claim.job)
    <2> DEFINE j == n.claim.job
               r == Release(j, "dead", jobs[j].run_at)
    <2>1. j \in Jobs /\ jobs[j].status = "running"
      BY <1>0, <1>4, ClaimFacts DEF NAckBury, Matches, TypeOK
    <2>2. /\ r.status = "dead"
          /\ r.attempts = jobs[j].attempts
          /\ r.max_attempts = jobs[j].max_attempts
      BY <2>1, RowFacts, ReleaseType DEF Statuses
    <2>3. jobs' = [jobs EXCEPT ![j] = r]
      BY <1>4 DEF NAckBury
    <2> HIDE DEF j, r
    <2>4. Life' = [Life EXCEPT ![j] = [status |-> "dead", tries |-> jobs[j].attempts,
                                       max |-> jobs[j].max_attempts]]
      <3>1. Life' = [Life EXCEPT ![j] = [status |-> r.status, tries |-> r.attempts,
                                         max |-> r.max_attempts]]
        BY <1>0, <2>1, <2>2, <2>3, OneLife
      <3>2. QED  BY <2>1, <2>2, <2>3, <3>1
    <2>5. Life[j] = [status |-> "running", tries |-> jobs[j].attempts,
                     max |-> jobs[j].max_attempts]
      BY <2>1 DEF Life, LifeOf
    <2>6. Lifecycle!Bury(j)
      BY <2>4, <2>5 DEF Lifecycle!Bury, Lifecycle!Becomes
    <2>7. QED  BY <2>6 DEF j
  <1>5. ASSUME NEW n \in nacks, NAckReschedule(n)
        PROVE  Lifecycle!Reschedule(n.claim.job)
    <2> DEFINE j == n.claim.job
    <2>1. j \in Jobs /\ jobs[j].status = "running"
      BY <1>0, <1>5, ClaimFacts DEF NAckReschedule, Matches, TypeOK
    <2>2. PICK d \in BackoffDelays(n.attempts) :
            jobs' = [jobs EXCEPT ![j] = Release(j, "pending", d)]
      BY <1>5 DEF NAckReschedule
    <2>3. d \in Nat
      BY StoreAssumption DEF BackoffDelays
    <2> DEFINE r == Release(j, "pending", d)
    <2>4. /\ r.status = "pending"
          /\ r.attempts = jobs[j].attempts
          /\ r.max_attempts = jobs[j].max_attempts
      BY <2>1, <2>3, RowFacts, ReleaseType DEF Statuses
    <2>5. jobs[j].attempts < jobs[j].max_attempts
      BY <1>5, RescheduledWithinBudget
    <2> HIDE DEF j, r
    <2>6. Life' = [Life EXCEPT ![j] = [status |-> "pending", tries |-> jobs[j].attempts,
                                       max |-> jobs[j].max_attempts]]
      <3>1. Life' = [Life EXCEPT ![j] = [status |-> r.status, tries |-> r.attempts,
                                         max |-> r.max_attempts]]
        BY <1>0, <2>1, <2>2, <2>4, OneLife DEF r
      <3>2. QED  BY <2>1, <2>2, <2>4, <3>1
    <2>7. Life[j] = [status |-> "running", tries |-> jobs[j].attempts,
                     max |-> jobs[j].max_attempts]
      BY <2>1 DEF Life, LifeOf
    <2>8. Lifecycle!Reschedule(j)
      BY <2>5, <2>6, <2>7 DEF Lifecycle!Reschedule, Lifecycle!Becomes
    <2>9. QED  BY <2>8 DEF j
  <1>6. ASSUME NEW j \in Jobs, ResetDeadJob(j)
        PROVE  Lifecycle!Revive(j)
    <2> DEFINE r == Revived(j)
    <2>1. jobs[j].status = "dead" /\ jobs' = [jobs EXCEPT ![j] = r]
      BY <1>6 DEF ResetDeadJob
    <2>2. /\ r.status = "pending" /\ r.attempts = 0
          /\ r.max_attempts = jobs[j].max_attempts
      BY RowFacts, RevivedType
    <2> HIDE DEF r
    <2>3. Life' = [Life EXCEPT ![j] = [status |-> "pending", tries |-> 0,
                                       max |-> jobs[j].max_attempts]]
      <3>1. Life' = [Life EXCEPT ![j] = [status |-> r.status, tries |-> r.attempts,
                                         max |-> r.max_attempts]]
        BY <1>0, <2>1, <2>2, OneLife
      <3>2. QED  BY <2>1, <2>2, <3>1
    <2>4. Life[j] = [status |-> "dead", tries |-> jobs[j].attempts,
                     max |-> jobs[j].max_attempts]
      BY <2>1 DEF Life, LifeOf
    <2>5. QED
      BY <2>3, <2>4 DEF Lifecycle!Revive, Lifecycle!Becomes
  <1>7. ASSUME ReapExpiredLeases
        PROVE  Lifecycle!TakeBack({j \in Jobs : Expired(j)})
    <2> DEFINE S == {j \in Jobs : Expired(j)}
    <2>1. ASSUME NEW j \in Jobs
          PROVE  LifeOf(j)' = IF j \in S THEN [LifeOf(j) EXCEPT !.status = "pending"]
                                         ELSE LifeOf(j)
      <3>1. CASE Expired(j)
        <4> DEFINE r == Release(j, "pending", jobs[j].run_at)
        <4>1. /\ r.status = "pending"
              /\ r.attempts = jobs[j].attempts
              /\ r.max_attempts = jobs[j].max_attempts
          BY RowFacts, ReleaseType DEF Statuses
        <4>2. jobs'[j] = r
          BY <1>7, <3>1 DEF ReapExpiredLeases
        <4> HIDE DEF r
        <4>3. LifeOf(j)' = [status |-> "pending", tries |-> jobs[j].attempts,
                            max |-> jobs[j].max_attempts]
          BY <4>1, <4>2 DEF LifeOf
        <4>4. QED  BY <3>1, <4>3 DEF LifeOf
      <3>2. CASE ~Expired(j)
        <4>1. jobs'[j] = jobs[j]
          BY <1>7, <3>2 DEF ReapExpiredLeases
        <4>2. QED  BY <3>2, <4>1 DEF LifeOf
      <3>3. QED  BY <3>1, <3>2
    <2>2. \A j \in S : Life[j].status = "running"
      BY DEF Life, LifeOf, Expired
    <2> HIDE DEF S
    <2>3. Life' = [j \in Jobs |-> IF j \in S THEN [Life[j] EXCEPT !.status = "pending"]
                                             ELSE Life[j]]
      BY <2>1 DEF Life
    <2>4. Lifecycle!TakeBack(S)
      BY <2>2, <2>3 DEF Lifecycle!TakeBack
    <2>5. QED  BY <2>4 DEF S
  <1>8. ASSUME \A j \in Jobs : LifeOf(j)' = LifeOf(j)
        PROVE  UNCHANGED Life
    BY <1>8 DEF Life
  <1>9. ASSUME NEW c \in claims, NEW d \in RequestedLeases, ExtendLease(c, d)
        PROVE  UNCHANGED Life
    <2>1. c.job \in Jobs /\ d \in Nat
      BY StoreAssumption, ClaimFacts
    <2>2. ASSUME NEW j \in Jobs
          PROVE  LifeOf(j)' = LifeOf(j)
      <3>1. CASE j = c.job
        <4>1. jobs'[j] = Renewed(j, d)
          BY <1>0, <1>9, <3>1 DEF ExtendLease, TypeOK
        <4>2. QED  BY <2>1, <4>1, RowFacts, RenewedType DEF LifeOf
      <3>2. CASE j # c.job
        <4>1. jobs'[j] = jobs[j]
          BY <1>0, <1>9, <3>2 DEF ExtendLease, TypeOK
        <4>2. QED  BY <4>1 DEF LifeOf
      <3>3. QED  BY <3>1, <3>2
    <2>3. QED  BY <1>8, <2>2
  <1>10. CASE Tick
    <2>1. ASSUME NEW j \in Jobs
          PROVE  LifeOf(j)' = LifeOf(j)
      <3>1. jobs'[j] = Aged(j)
        BY <1>10 DEF Tick
      <3>2. QED  BY <3>1, RowFacts, AgedType DEF LifeOf
    <2>2. UNCHANGED Life
      BY <1>8, <2>1
    <2>3. QED  BY <2>2
  <1>11. ASSUME UNCHANGED jobs
         PROVE  UNCHANGED Life
    BY <1>11 DEF Life, LifeOf
  <1>12. CASE Next
    <2>1. CASE \E j \in Jobs, q \in Queues, p \in Priorities, m \in RequestedBudgets,
                  d \in RequestedDelays : SubmitJob(j, q, p, m, d)
      BY <1>1, <2>1 DEF Lifecycle!Next
    <2>2. CASE \E l \in claiming : ClaimCommit(l)
      BY <1>0, <1>2, <2>2 DEF Lifecycle!Next, TypeOK, Claimings
    <2>3. CASE \E c \in claims : Ack(c)
      BY <1>3, <2>3, ClaimFacts DEF Lifecycle!Next
    <2>4. CASE \E n \in nacks : NAckBury(n) \/ NAckReschedule(n)
      <3>1. \A n \in nacks : n.claim.job \in Jobs
        BY <1>0, ClaimFacts DEF TypeOK
      <3>2. QED  BY <1>4, <1>5, <2>4, <3>1 DEF Lifecycle!Next
    <2>5. CASE \E j \in Jobs : ResetDeadJob(j)
      BY <1>6, <2>5 DEF Lifecycle!Next
    <2>6. CASE ReapExpiredLeases
      BY <1>7, <2>6 DEF Lifecycle!Next
    <2>7. CASE \E c \in claims, d \in RequestedLeases : ExtendLease(c, d)
      BY <1>9, <2>7
    <2>8. CASE Tick
      BY <1>10, <2>8
    <2>9. CASE UNCHANGED jobs
      BY <1>11, <2>9
    <2>10. QED
      BY <1>12, <2>1, <2>2, <2>3, <2>4, <2>5, <2>6, <2>7, <2>8, <2>9
      DEF Next, ClaimSelect, ClaimAbort, NAckRead, NAckGivesUp
  <1>13. QED  BY <1>11, <1>12 DEF vars

\* The table implements the life of a job, for any number of jobs, workers,
\* claims, retries and clock ticks.
THEOREM Refinement == Spec => ImplementsLifecycle
  <1>1. QED
    BY Invariant, LifeInit, LifeStep, PTL DEF Spec, ImplementsLifecycle, Lifecycle!Spec

-----------------------------------------------------------------------------
(* First come, first started *)

\* The row keeps what orders it among the others.
SameRank(r, s) ==
  /\ s.status # "absent"
  /\ s.queue = r.queue /\ s.priority = r.priority /\ s.created_at = r.created_at

\* Job i is to be started before job j.
ComesBefore(i, j) ==
  /\ jobs[i].queue = jobs[j].queue
  /\ jobs[i].priority >= jobs[j].priority
  /\ jobs[i].created_at < jobs[j].created_at

\* A job that was never handed out waits, and is due.
Waits(j) == jobs[j].status = "pending" /\ jobs[j].run_at = 0 /\ jobs[j].attempts = 0

\* The order is that of the INSERTs; who was never handed out waits; and when a
\* claim has picked its row, all that come before it have been started.
OrderInv ==
  /\ \A j \in Jobs : jobs[j].status = "absent" => issued[j] = 0
  /\ \A j \in Submitted : jobs[j].created_at < Cardinality(Submitted)
  /\ \A j \in Submitted : issued[j] = 0 => Waits(j)
  /\ \A l \in claiming, i \in Submitted : ComesBefore(i, l.job) => issued[i] > 0
  /\ FirstComeFirstStarted

\* What a step may make of one row.
RowMoves(j) ==
  \/ jobs'[j] = jobs[j]
  \/ jobs'[j] = Aged(j)
  \/ /\ jobs[j].status = "running"
     /\ \/ jobs'[j] = Completed(j)
        \/ \E d \in Nat : jobs'[j] = Renewed(j, d)
        \/ \E s \in {"pending", "dead"}, d \in Nat : jobs'[j] = Release(j, s, d)
  \/ jobs[j].status = "dead" /\ jobs'[j] = Revived(j)

\* A step that neither submits a job nor hands one out leaves every row be, or
\* moves it on as its status allows, and touches no count.
LEMMA RowStep ==
  ASSUME IInv, [Next]_vars,
         ~\E k \in Jobs, q \in Queues, p \in Priorities,
             m \in RequestedBudgets, d \in RequestedDelays : SubmitJob(k, q, p, m, d),
         ~\E l \in claiming : ClaimCommit(l)
  PROVE  /\ \A j \in Jobs : RowMoves(j)
         /\ UNCHANGED issued
         /\ claiming' \subseteq claiming \/ jobs' = jobs
  <1>0. TypeOK
    BY DEF IInv
  <1> DEFINE Goal == /\ \A j \in Jobs : RowMoves(j)
                     /\ UNCHANGED issued
                     /\ claiming' \subseteq claiming \/ jobs' = jobs
  <1>1. ASSUME NEW k \in Jobs, NEW r, jobs' = [jobs EXCEPT ![k] = r],
               jobs'[k] = r => RowMoves(k)
        PROVE  \A j \in Jobs : RowMoves(j)
    <2>1. ASSUME NEW j \in Jobs, j # k PROVE RowMoves(j)
      BY <1>0, <1>1, <2>1 DEF TypeOK, RowMoves
    <2>2. jobs'[k] = r
      BY <1>0, <1>1 DEF TypeOK
    <2>. QED  BY <1>1, <2>1, <2>2
  <1>2. ASSUME NEW c \in claims, Matches(c), NEW d \in Nat,
               NEW r \in {Completed(c.job), Renewed(c.job, d),
                          Release(c.job, "pending", d), Release(c.job, "dead", d)},
               jobs' = [jobs EXCEPT ![c.job] = r]
        PROVE  \A j \in Jobs : RowMoves(j)
    <2>1. c.job \in Jobs
      BY ClaimFacts
    <2>2. jobs'[c.job] = r => RowMoves(c.job)
      BY <1>2 DEF Matches, RowMoves
    <2>. QED  BY <1>1, <1>2, <2>1, <2>2
  <1>3. ASSUME NEW c \in claims, Ack(c)
        PROVE  Goal
    <2>1. 0 \in Nat
      OBVIOUS
    <2>. QED  BY <1>2, <1>3, <2>1 DEF Ack
  <1>4. ASSUME NEW n \in nacks, NAckBury(n)
        PROVE  Goal
    <2>1. n.claim \in claims
      BY <1>0 DEF TypeOK
    <2>2. jobs[n.claim.job].run_at \in Nat
      BY <2>1, ClaimFacts, RowFacts DEF Row
    <2>. QED  BY <1>2, <1>4, <2>1, <2>2 DEF NAckBury
  <1>5. ASSUME NEW n \in nacks, NAckReschedule(n)
        PROVE  Goal
    <2>1. n.claim \in claims
      BY <1>0 DEF TypeOK
    <2>2. PICK d \in BackoffDelays(n.attempts) :
            jobs' = [jobs EXCEPT ![n.claim.job] = Release(n.claim.job, "pending", d)]
      BY <1>5 DEF NAckReschedule
    <2>3. d \in Nat
      BY StoreAssumption DEF BackoffDelays
    <2>. QED  BY <1>2, <1>5, <2>1, <2>2, <2>3 DEF NAckReschedule
  <1>6. ASSUME NEW c \in claims, NEW d \in RequestedLeases, ExtendLease(c, d)
        PROVE  Goal
    <2>1. d \in Nat
      BY StoreAssumption
    <2>. QED  BY <1>2, <1>6, <2>1 DEF ExtendLease, history
  <1>7. CASE ReapExpiredLeases
    <2>1. ASSUME NEW j \in Jobs
          PROVE  RowMoves(j)
      <3>1. jobs[j].run_at \in Nat
        BY RowFacts DEF Row
      <3>. QED  BY <1>7, <3>1 DEF ReapExpiredLeases, Expired, RowMoves
    <2>. QED  BY <1>7, <2>1 DEF ReapExpiredLeases, history
  <1>8. ASSUME NEW k \in Jobs, ResetDeadJob(k)
        PROVE  Goal
    <2>1. jobs'[k] = Revived(k) => RowMoves(k)
      BY <1>8 DEF ResetDeadJob, RowMoves
    <2>. QED  BY <1>1, <1>8, <2>1 DEF ResetDeadJob
  <1>9. CASE Tick
    BY <1>9 DEF Tick, history, RowMoves
  <1>10. ASSUME UNCHANGED <<jobs, issued>>
         PROVE  Goal
    BY <1>10 DEF RowMoves
  <1>. QED
    BY <1>3, <1>4, <1>5, <1>6, <1>7, <1>8, <1>9, <1>10
    DEF Next, vars, history, ClaimSelect, ClaimAbort, NAckRead, NAckGivesUp

\* The columns a row is ordered by are written once.
LEMMA RankIsKept ==
  ASSUME NEW j, jobs[j] \in Row, jobs[j].status # "absent", RowMoves(j)
  PROVE  SameRank(jobs[j], jobs'[j])
  <1>1. CASE jobs'[j] = Aged(j)
    BY <1>1 DEF Aged, Row, SameRank
  <1>2. CASE jobs'[j] = Completed(j) \/ \E d \in Nat : jobs'[j] = Renewed(j, d)
    BY <1>2 DEF Completed, Renewed, Row, SameRank
  <1>3. ASSUME NEW s \in {"pending", "dead"}, NEW d \in Nat, jobs'[j] = Release(j, s, d)
        PROVE  SameRank(jobs[j], jobs'[j])
    BY <1>3 DEF Release, Row, SameRank
  <1>4. CASE jobs'[j] = Revived(j)
    BY <1>4 DEF Revived, Release, Row, SameRank
  <1>. QED  BY <1>1, <1>2, <1>3, <1>4 DEF RowMoves, SameRank

\* The two facts an aged or untouched row keeps.
LEMMA SettledColumns ==
  ASSUME IInv, NEW j \in Jobs, RowMoves(j)
  PROVE  /\ jobs'[j].status = "absent" <=> jobs[j].status = "absent"
         /\ Waits(j) => Waits(j)'
  <1>0. jobs[j] \in Row /\ jobs[j].run_at \in Nat
    BY RowFacts
  <1>1. CASE jobs'[j] = jobs[j]
    BY <1>1 DEF Waits
  <1>2. CASE jobs'[j] = Aged(j)
    BY <1>0, <1>2, AgedType DEF Waits
  <1>3. CASE /\ jobs[j].status \in {"running", "dead"}
             /\ jobs'[j] # jobs[j] /\ jobs'[j] # Aged(j)
    <2>1. jobs'[j].status # "absent"
      BY <1>0, <1>3, RankIsKept DEF SameRank
    <2>. QED  BY <1>3, <2>1 DEF Waits
  <1>. QED  BY <1>1, <1>2, <1>3 DEF RowMoves

LEMMA OrderInit == Init => OrderInv
  BY DEF Init, OrderInv, Submitted, NoRow, FirstComeFirstStarted

\* Claims do not overlap: at most one statement holds a row locked.
ClaimsDoNotOverlap == \A l, m \in claiming : l = m

LEMMA OrderStep ==
  ASSUME RequestedDelays \subseteq {0}, IInv, OrderInv, [Next]_vars,
         ClaimsDoNotOverlap'
  PROVE  OrderInv'
  <1>0. TypeOK /\ IsFiniteSet(Submitted)
    <2>1. Submitted \subseteq Jobs
      BY DEF Submitted
    <2>. QED  BY <2>1, FS_Subset, StoreAssumption DEF IInv
  <1>1. ASSUME NEW k \in Jobs, NEW q \in Queues, NEW p \in Priorities,
               NEW m \in RequestedBudgets, NEW d \in RequestedDelays,
               SubmitJob(k, q, p, m, d)
        PROVE  OrderInv'
    <2> DEFINE n == Cardinality(Submitted)
               r == NewRow(q, p, m, d)
    <2>1. /\ r.status = "pending" /\ r.attempts = 0
          /\ r.run_at = 0 /\ r.created_at = n
      BY DEF NewRow
    <2> HIDE DEF r
    <2>2. k \notin Submitted /\ issued[k] = 0
      BY <1>1 DEF SubmitJob, Submitted, OrderInv
    <2>3. /\ jobs'[k] = r /\ \A j \in Jobs \ {k} : jobs'[j] = jobs[j]
          /\ issued' = issued /\ claiming' = claiming
      BY <1>0, <1>1 DEF SubmitJob, TypeOK, r, history
    <2>4. Submitted' = Submitted \cup {k}
      BY <2>1, <2>3 DEF Submitted
    <2>5. n \in Nat /\ Cardinality(Submitted') = n + 1
      BY <1>0, <2>2, <2>4, FS_AddElement, FS_CardinalityType
    <2>6. \A j \in Submitted : j \in Jobs /\ j # k /\ jobs[j].created_at < n
      BY <2>2 DEF Submitted, OrderInv
    <2>7. \A j \in Jobs : jobs[j].created_at \in Nat
      BY <1>0 DEF TypeOK, Row
    <2> HIDE DEF n
    <2>8. (\A j \in Jobs : jobs[j].status = "absent" => issued[j] = 0)'
      BY <2>1, <2>3 DEF OrderInv
    <2>9. (\A j \in Submitted : jobs[j].created_at < Cardinality(Submitted))'
      <3>1. ASSUME NEW j \in Submitted' PROVE jobs'[j].created_at < n + 1
        BY <2>1, <2>3, <2>4, <2>5, <2>6, <2>7
      <3>. QED  BY <2>5, <3>1
    <2>10. (\A j \in Submitted : issued[j] = 0 => Waits(j))'
      BY <2>1, <2>3, <2>4, <2>6 DEF OrderInv, Waits
    \* The new row comes before none.
    <2>11. ASSUME NEW i \in Submitted', NEW j \in Submitted, ComesBefore(i, j)'
           PROVE  i \in Submitted /\ ComesBefore(i, j)
      <3>1. i # k
        BY <2>1, <2>3, <2>5, <2>6, <2>7, <2>11 DEF ComesBefore
      <3>. QED  BY <2>3, <2>4, <2>6, <2>11, <3>1 DEF ComesBefore
    <2>12. (\A l \in claiming, i \in Submitted :
              ComesBefore(i, l.job) => issued[i] > 0)'
      <3>1. \A l \in claiming : l.job \in Submitted
        BY <1>0 DEF TypeOK, Claimings, IInv, LockedRowStaysClaimable, Claimable,
                    Submitted
      <3>. QED  BY <2>3, <2>11, <3>1 DEF OrderInv
    <2>13. FirstComeFirstStarted'
      <3>1. ASSUME NEW i \in Submitted', NEW j \in Submitted', ComesBefore(i, j)',
                   issued'[j] > 0
            PROVE  issued'[i] > 0
        <4>1. j \in Submitted
          BY <2>2, <2>3, <2>4, <3>1
        <4>. QED
          BY <2>3, <2>11, <3>1, <4>1 DEF OrderInv, FirstComeFirstStarted, ComesBefore
      <3>. QED  BY <3>1 DEF FirstComeFirstStarted, ComesBefore
    <2>. QED  BY <2>8, <2>9, <2>10, <2>12, <2>13 DEF OrderInv
  <1>2. ASSUME NEW l \in claiming, ClaimCommit(l)
        PROVE  OrderInv'
    <2> DEFINE k == l.job
               r == Grant(k, l.worker, l.lease)
    <2>1. /\ k \in Jobs /\ l.worker \in Workers /\ l.lease \in Nat
          /\ jobs[k].status = "pending" /\ jobs[k] \in Row
          /\ issued \in [Jobs -> Nat] /\ claiming' \subseteq claiming
      BY <1>0, <1>2 DEF TypeOK, Claimings, IInv, LockedRowStaysClaimable, Claimable,
                        ClaimCommit
    <2>2. r.status = "running" /\ SameRank(jobs[k], r)
      BY <2>1 DEF Grant, Row, SameRank
    <2>3. /\ jobs' = [jobs EXCEPT ![k] = r] /\ issued' = [issued EXCEPT ![k] = @ + 1]
      BY <1>2 DEF ClaimCommit
    <2> HIDE DEF k, r
    <2>4. /\ jobs'[k] = r /\ \A j \in Jobs \ {k} : jobs'[j] = jobs[j]
          /\ issued'[k] = issued[k] + 1
          /\ \A j \in Jobs \ {k} : issued'[j] = issued[j]
      BY <1>0, <2>1, <2>3 DEF TypeOK
    <2>5. Submitted' = Submitted /\ k \in Submitted
      BY <2>1, <2>2, <2>4 DEF Submitted
    <2>6. \A j \in Jobs : /\ jobs'[j].queue = jobs[j].queue
                          /\ jobs'[j].priority = jobs[j].priority
                          /\ jobs'[j].created_at = jobs[j].created_at
      BY <2>2, <2>4 DEF SameRank
    <2>7. \A i, j \in Submitted : ComesBefore(i, j)' <=> ComesBefore(i, j)
      BY <2>6 DEF ComesBefore, Submitted
    <2>8. \A j \in Jobs : issued[j] > 0 => issued'[j] > 0
      BY <2>1, <2>4
    <2>9. issued'[k] > 0 /\ \A i \in Submitted : ComesBefore(i, k) => issued[i] > 0
      BY <1>2, <2>1, <2>4 DEF OrderInv, k
    <2>10. (\A j \in Jobs : jobs[j].status = "absent" => issued[j] = 0)'
      BY <2>2, <2>4 DEF OrderInv
    <2>11. (\A j \in Submitted : jobs[j].created_at < Cardinality(Submitted))'
      BY <2>5, <2>6 DEF OrderInv, Submitted
    <2>12. (\A j \in Submitted : issued[j] = 0 => Waits(j))'
      <3>1. ASSUME NEW j \in Submitted, issued'[j] = 0 PROVE Waits(j)'
        <4>1. j # k /\ j \in Jobs
          BY <2>9, <3>1 DEF Submitted
        <4>. QED  BY <2>4, <3>1, <4>1 DEF OrderInv, Waits
      <3>. QED  BY <2>5, <3>1
    <2>13. (\A m \in claiming, i \in Submitted :
              ComesBefore(i, m.job) => issued[i] > 0)'
      <3>1. \A m \in claiming : m.job \in Submitted
        BY <1>0 DEF TypeOK, Claimings, IInv, LockedRowStaysClaimable, Claimable,
                    Submitted
      <3>. QED  BY <2>1, <2>5, <2>7, <2>8, <3>1 DEF OrderInv, Submitted
    <2>14. FirstComeFirstStarted'
      <3>1. ASSUME NEW i \in Submitted, NEW j \in Submitted, ComesBefore(i, j),
                   issued'[j] > 0
            PROVE  issued'[i] > 0
        <4>1. CASE j = k
          BY <2>8, <2>9, <3>1, <4>1 DEF Submitted
        <4>2. CASE j # k
          <5>1. issued[j] > 0
            BY <2>4, <3>1, <4>2 DEF Submitted
          <5>. QED
            BY <2>8, <3>1, <5>1
            DEF OrderInv, FirstComeFirstStarted, ComesBefore, Submitted
        <4>. QED  BY <4>1, <4>2
      <3>. QED  BY <2>5, <2>7, <3>1 DEF FirstComeFirstStarted, ComesBefore
    <2>. QED  BY <2>10, <2>11, <2>12, <2>13, <2>14 DEF OrderInv
  <1>3. ASSUME \A j \in Jobs : RowMoves(j), UNCHANGED issued,
               \A l \in claiming', i \in Submitted :
                 ComesBefore(i, l.job) => issued[i] > 0,
               \A l \in claiming' : l.job \in Submitted
        PROVE  OrderInv'
    <2>1. Submitted' = Submitted
      BY <1>3, SettledColumns DEF Submitted
    <2>2. \A j \in Submitted : SameRank(jobs[j], jobs'[j])
      BY <1>3, RowFacts, RankIsKept DEF Submitted
    <2>3. \A i, j \in Submitted : ComesBefore(i, j)' <=> ComesBefore(i, j)
      BY <2>2 DEF ComesBefore, SameRank
    <2>4. (\A j \in Jobs : jobs[j].status = "absent" => issued[j] = 0)'
      BY <1>3, SettledColumns DEF OrderInv
    <2>5. (\A j \in Submitted : jobs[j].created_at < Cardinality(Submitted))'
      BY <2>1, <2>2 DEF OrderInv, SameRank
    <2>6. (\A j \in Submitted : issued[j] = 0 => Waits(j))'
      <3>1. ASSUME NEW j \in Submitted, issued'[j] = 0 PROVE Waits(j)'
        BY <1>3, <3>1, SettledColumns DEF OrderInv, Submitted
      <3>. QED  BY <2>1, <3>1
    <2>7. (\A l \in claiming, i \in Submitted :
              ComesBefore(i, l.job) => issued[i] > 0)'
      BY <1>3, <2>1, <2>3
    <2>8. FirstComeFirstStarted'
      <3>1. \A i, j \in Submitted : ComesBefore(i, j) /\ issued[j] > 0 => issued[i] > 0
        BY DEF OrderInv, FirstComeFirstStarted, ComesBefore
      <3>2. \A i, j \in Submitted' :
              ComesBefore(i, j)' /\ issued'[j] > 0 => issued'[i] > 0
        BY <1>3, <2>1, <2>3, <3>1
      <3>. QED  BY <3>2 DEF FirstComeFirstStarted, ComesBefore
    <2>. QED  BY <2>4, <2>5, <2>6, <2>7, <2>8 DEF OrderInv
  <1>4. \A l \in claiming : l.job \in Submitted
    BY <1>0 DEF TypeOK, Claimings, IInv, LockedRowStaysClaimable, Claimable, Submitted
  \* The row a claim picks comes first of the claimable ones; a job that comes
  \* before it and was never started would be one of them.
  <1>5. ASSUME NEW k \in Jobs, NEW w \in Workers, NEW qs \in SUBSET Queues,
               NEW d \in ClaimLeases, ClaimSelect(k, w, qs, d)
        PROVE  OrderInv'
    <2> DEFINE lock == [job |-> k, worker |-> w, lease |-> d]
    <2>1. claiming' = claiming \cup {lock}
      BY <1>5 DEF ClaimSelect
    <2>2. claiming = {}
      <3>1. ASSUME NEW l \in claiming PROVE FALSE
        <4>1. l = lock
          BY <2>1 DEF ClaimsDoNotOverlap
        <4>. QED  BY <1>5, <4>1 DEF ClaimSelect
      <3>. QED  BY <3>1
    <2>3. jobs[k].status = "pending" /\ jobs[k].queue \in qs /\ k \in Submitted
      BY <1>5 DEF ClaimSelect, Claimable, Submitted
    <2>4. ASSUME NEW i \in Submitted, ComesBefore(i, k)
          PROVE  issued[i] > 0
      <3>0. i \in Jobs /\ issued[i] \in Nat
        BY RowFacts DEF Submitted
      <3>1. SUFFICES ASSUME Waits(i) PROVE FALSE
        BY <3>0 DEF OrderInv
      <3>2. jobs[i].attempts < jobs[i].max_attempts
        <4>1. RowOK(jobs[i]) /\ jobs[i].max_attempts \in Nat
          BY <3>0, RowFacts
        <4>. QED  BY <3>1, <4>1 DEF Waits, RowOK
      <3>3. Claimable(i, qs)
        BY <2>3, <2>4, <3>1, <3>2 DEF Claimable, Waits, ComesBefore
      <3>4. Precedes(k, i)
        BY <1>5, <2>2, <3>0, <3>3 DEF ClaimSelect, Locked
      <3>5. /\ jobs[i].priority \in Int /\ jobs[k].priority \in Int
            /\ jobs[i].created_at \in Nat /\ jobs[k].created_at \in Nat
        BY <1>0, <3>0 DEF TypeOK, Row
      <3>. QED  BY <2>4, <3>4, <3>5 DEF Precedes, ComesBefore
    <2>5. /\ \A j \in Jobs : RowMoves(j)
          /\ UNCHANGED issued
      BY <1>5 DEF ClaimSelect, history, RowMoves
    <2>. QED  BY <1>3, <2>1, <2>2, <2>3, <2>4, <2>5
  <1>6. CASE ~\E k \in Jobs, w \in Workers, qs \in SUBSET Queues, d \in ClaimLeases :
               ClaimSelect(k, w, qs, d)
    <2>1. claiming' \subseteq claiming
      BY <1>6 DEF Next, vars, history, SubmitJob, ClaimCommit, ClaimAbort, Ack, NAckRead,
             NAckBury, NAckReschedule, NAckGivesUp, ExtendLease, ReapExpiredLeases,
             ResetDeadJob, Tick
    <2>. QED  BY <1>1, <1>2, <1>3, <1>4, <2>1, RowStep DEF OrderInv
  <1>. QED  BY <1>5, <1>6

\* Undelayed jobs whose claims do not overlap are first started in the order
\* of priority and submission.
THEOREM StartOrder ==
  ASSUME RequestedDelays \subseteq {0}
  PROVE  Spec /\ []ClaimsDoNotOverlap => []FirstComeFirstStarted
  <1>1. IInv /\ OrderInv /\ [Next]_vars /\ ClaimsDoNotOverlap' => OrderInv'
    BY OrderStep
  <1>2. OrderInv => FirstComeFirstStarted
    BY DEF OrderInv
  <1>. QED  BY <1>1, <1>2, OrderInit, Invariant, PTL DEF Spec

-----------------------------------------------------------------------------
(* The delay of a retry in 64-bit arithmetic *)

\* A number that is not negative does not grow when it wraps around, and keeps
\* its value when it is in range.
LEMMA WrappedIsBelow ==
  ASSUME HalfRange \in Nat \ {0}, NEW x \in Nat
  PROVE  /\ Wrapped(x) \in Int
         /\ Wrapped(x) <= x
         /\ x < HalfRange => Wrapped(x) = x
<1> DEFINE D == 2 * HalfRange
           y == x + HalfRange
<1>1. D \in Nat \ {0} /\ y \in Nat
  OBVIOUS
<1>2. y % D \in 0..D-1 /\ y \div D \in Int /\ y = (D * (y \div D)) + (y % D)
  BY <1>1
<1>3. ASSUME x < HalfRange
      PROVE  y % D = y
  <2>1. y \in 0..D-1
    BY <1>3
  <2>. QED
    BY <1>1, <2>1
<1>4. y % D <= y
  <2>1. y \div D >= 0
    BY <1>1, <1>2
  <2>. HIDE DEF D, y
  <2>2. D * (y \div D) >= 0
    BY <1>1, <1>2, <2>1
  <2>. QED
    BY <1>1, <1>2, <2>2
<1>. QED
  BY <1>1, <1>2, <1>3, <1>4 DEF Wrapped

\* The retry of a failed job is never put off past the configured maximum, nor
\* is its delay negative, for every base delay, maximum and exponent, products
\* that wrap around among them; and every delay that may be drawn is one the
\* exact computation allows, so that a product that wraps around can only
\* shorten the delays there are to choose from.
THEOREM WrappingOnlyShortens ==
  ASSUME HalfRange \in Nat \ {0},
         NEW base \in Nat \ {0}, NEW max \in 1..(HalfRange - 1), NEW factor \in Nat \ {0}
  PROVE  /\ DrawnDelays(base, max, factor) \subseteq ExactDelays(base, max, factor)
         /\ 0 \in DrawnDelays(base, max, factor)
<1> DEFINE x == base * factor
<1>1. x \in Nat \ {0}
  OBVIOUS
<1>2. /\ Wrapped(x) \in Int /\ Wrapped(x) <= x
      /\ x < HalfRange => Wrapped(x) = x
  BY <1>1, WrappedIsBelow
<1>. HIDE DEF x
<1>3. CutToMax(Wrapped(x), max) \in 1..max
  BY <1>2 DEF CutToMax
<1>4. CutToMax(Wrapped(x), max) <= x
  <2>1. CASE Wrapped(x) > max
    BY <1>1, <1>2, <2>1 DEF CutToMax
  <2>2. CASE Wrapped(x) <= 0
    <3>1. x >= HalfRange
      BY <1>1, <1>2, <2>2
    <3>. QED
      BY <1>1, <3>1, <2>2 DEF CutToMax
  <2>3. CASE ~(Wrapped(x) > max) /\ ~(Wrapped(x) <= 0)
    BY <1>2, <2>3 DEF CutToMax
  <2>. QED
    BY <1>2, <2>1, <2>2, <2>3
<1>. QED
  BY <1>1, <1>3, <1>4 DEF x, DrawnDelays, ExactDelays

\* And the delays are the exact ones, as long as no product leaves the range:
\* then the exponential grows as documented.
THEOREM InRangeIsExact ==
  ASSUME HalfRange \in Nat \ {0},
         NEW base \in Nat \ {0}, NEW max \in 1..(HalfRange - 1), NEW factor \in Nat \ {0},
         base * factor < HalfRange
  PROVE  DrawnDelays(base, max, factor) = ExactDelays(base, max, factor)
<1> DEFINE x == base * factor
<1>1. x \in Nat \ {0}
  OBVIOUS
<1>2. Wrapped(x) = x
  BY <1>1, WrappedIsBelow
<1>. HIDE DEF x
<1>. QED
  BY <1>1, <1>2 DEF x, DrawnDelays, ExactDelays, CutToMax
=============================================================================
