------------------------- MODULE WindowMiddleware -------------------------
(***************************************************************************)
(* The middleware of the two window limiters, which is the same in both:   *)
(* a request looks its host's manager up, drops it when it has been idle   *)
(* for too long, makes a new one when it has none, and asks the one it     *)
(* ends up with.  The map's mutex is taken and let go for each of these,   *)
(* so they are steps of their own.  A manager is known by the request that *)
(* made it.                                                                *)
(*                                                                         *)
(* What a manager does with a request is a parameter: NewCounter is its    *)
(* counter at first, Admit(counter, now) what the counter becomes and      *)
(* whether the request passes.                                             *)
(***************************************************************************)
EXTENDS Integers, FiniteSets

CONSTANTS
  Hosts, Requests,
  TTL,          \* idle time after which a manager is dropped
  WindowSize,   \* ticks in a window
  Limit,        \* requests a window admits
  Start,        \* the clock at the start, far from the epoch
  MaxTime,      \* bound: the clock
  None,
  NewCounter, Admit(_, _)

VARIABLES
  now,
  store,     \* host -> its manager, or None
  managers,  \* manager -> [counter, lastSeen]
  request,   \* request -> [pc, host, at, manager]
  passed,    \* history: [request, host, at] of the requests admitted
  overlap    \* history: hosts that had two requests in the middleware at once

vars == <<now, store, managers, request, passed, overlap>>

-----------------------------------------------------------------------------
Idle == [pc |-> "idle", host |-> None, at |-> 0, manager |-> None]

NewManager(t) == [counter |-> NewCounter, lastSeen |-> t]

Init ==
  /\ now = Start
  /\ store = [h \in Hosts |-> None]
  /\ managers = [r \in Requests |-> NewManager(Start)]
  /\ request = [r \in Requests |-> Idle]
  /\ passed = {}
  /\ overlap = {}

InMiddleware(h) == {r \in Requests : request[r].pc \notin {"idle", "done"} /\ request[r].host = h}

\* The clock is read, then the map.
LookUp(r, h) ==
  /\ request[r].pc = "idle"
  /\ request' = [request EXCEPT ![r] =
       [pc |-> IF store[h] = None THEN "creating" ELSE "checking",
        host |-> h, at |-> now, manager |-> store[h]]]
  /\ overlap' = IF InMiddleware(h) = {} THEN overlap ELSE overlap \cup {h}
  /\ UNCHANGED <<now, store, managers, passed>>

\* Mutation: the idle time is compared with nothing.
ExpiredAtOnce(r) == request[r].at - managers[request[r].manager].lastSeen >= 0

\* Under the manager's mutex, against the clock the request read.
Expired(r) == request[r].at - managers[request[r].manager].lastSeen >= TTL

Check(r) ==
  /\ request[r].pc = "checking"
  /\ request' = [request EXCEPT ![r].pc = IF Expired(r) THEN "dropping" ELSE "asking"]
  /\ UNCHANGED <<now, store, managers, passed, overlap>>

\* The double check: only the manager that was found expired is dropped.  A
\* request that comes too late for it goes on with the expired one.
Drop(r) ==
  /\ request[r].pc = "dropping"
  /\ LET h == request[r].host
         same == store[h] = request[r].manager
     IN  /\ store' = IF same THEN [store EXCEPT ![h] = None] ELSE store
         /\ request' = [request EXCEPT ![r].pc = IF same THEN "creating" ELSE "asking"]
  /\ UNCHANGED <<now, managers, passed, overlap>>

\* The new manager is put in the map whatever is there by now.
Create(r) ==
  /\ request[r].pc = "creating"
  /\ store' = [store EXCEPT ![request[r].host] = r]
  /\ managers' = [managers EXCEPT ![r] = NewManager(request[r].at)]
  /\ request' = [request EXCEPT ![r].pc = "asking", ![r].manager = r]
  /\ UNCHANGED <<now, passed, overlap>>

\* allow(), under the manager's mutex.
Ask(r) ==
  /\ request[r].pc = "asking"
  /\ LET m == request[r].manager
         answer == Admit(managers[m].counter, now)
     IN  /\ managers' = [managers EXCEPT ![m] = [counter |-> answer.counter, lastSeen |-> now]]
         /\ passed' = IF answer.passes
                      THEN passed \cup {[request |-> r, host |-> request[r].host, at |-> now]}
                      ELSE passed
  /\ request' = [request EXCEPT ![r].pc = "done"]
  /\ UNCHANGED <<now, store, overlap>>

Tick ==
  /\ now < MaxTime
  /\ now' = now + 1
  /\ UNCHANGED <<store, managers, request, passed, overlap>>

Next ==
  \/ \E r \in Requests, h \in Hosts : LookUp(r, h)
  \/ \E r \in Requests : Check(r) \/ Drop(r) \/ Create(r) \/ Ask(r)
  \/ Tick

Spec == Init /\ [][Next]_vars

-----------------------------------------------------------------------------
WindowOf(t) == t \div WindowSize

\* How many requests of h were admitted in window w.
PassedIn(h, w) == Cardinality({p \in passed : p.host = h /\ WindowOf(p.at) = w})

\* A window never admits more than the limit (README.md of the fixed window:
\* "new requests are dropped until a new time window starts").
WindowLimit ==
  \A h \in Hosts : \A w \in 0..WindowOf(MaxTime) : PassedIn(h, w) <= Limit

\* The limit as far as the code keeps it: for a host whose requests do not
\* overlap, across managers dropped for idleness and made anew.
SerialWindowLimit ==
  \A h \in Hosts \ overlap : \A w \in 0..WindowOf(MaxTime) : PassedIn(h, w) <= Limit
=============================================================================
