---------------------------- MODULE JobLifecycle ----------------------------
(***************************************************************************)
(* What jobq promises about one job, with leases, tokens, priorities and   *)
(* clocks left out: a job is executed at most `max' times between two      *)
(* interventions of an operator, every failed attempt but the last one     *)
(* puts it back in the queue, a completed job never moves again, and a     *)
(* dead one moves only when the operator revives it.                       *)
(*                                                                         *)
(* The states are the ones the jobs table really uses.  'failed' and       *)
(* 'cancelled' are in the CHECK constraint of the table but no statement   *)
(* writes them.                                                            *)
(***************************************************************************)
EXTENDS Naturals

CONSTANT Jobs

VARIABLE life   \* job -> [status, tries, max]

Absent == [status |-> "absent", tries |-> 0, max |-> 0]

Init == life = [j \in Jobs |-> Absent]

Submit(j) ==
  /\ life[j] = Absent
  /\ life'[j].max \in Nat \ {0}     \* the producer's choice
  /\ life' = [life EXCEPT ![j] =
                [status |-> "pending", tries |-> 0, max |-> life'[j].max]]

\* Job j goes to another status, and its attempts with it.
Becomes(j, status, tries) ==
  life' = [life EXCEPT ![j] = [status |-> status, tries |-> tries, max |-> life[j].max]]

\* An attempt is charged when it starts, and only while the budget lasts.
Start(j) ==
  /\ life[j].status = "pending"
  /\ life[j].tries < life[j].max
  /\ Becomes(j, "running", life[j].tries + 1)

Succeed(j) ==
  /\ life[j].status = "running"
  /\ Becomes(j, "completed", life[j].tries)

\* A failure reported as retryable, with budget left.
Reschedule(j) ==
  /\ life[j].status = "running"
  /\ life[j].tries < life[j].max
  /\ Becomes(j, "pending", life[j].tries)

\* A failure reported as permanent, or the last of the budget.
Bury(j) ==
  /\ life[j].status = "running"
  /\ Becomes(j, "dead", life[j].tries)

\* The attempt of a worker that went silent is taken back, its charge kept.
\* One sweep of the reaper takes back any number of them.
TakeBack(S) ==
  /\ \A j \in S : life[j].status = "running"
  /\ life' = [j \in Jobs |->
                IF j \in S THEN [life[j] EXCEPT !.status = "pending"] ELSE life[j]]

\* The operator's retry: a full budget again.
Revive(j) ==
  /\ life[j].status = "dead"
  /\ Becomes(j, "pending", 0)

Next ==
  \/ \E j \in Jobs : \/ Submit(j) \/ Start(j) \/ Succeed(j)
                     \/ Reschedule(j) \/ Bury(j) \/ Revive(j)
  \/ \E S \in SUBSET Jobs : TakeBack(S)

Spec == Init /\ [][Next]_life
=============================================================================
