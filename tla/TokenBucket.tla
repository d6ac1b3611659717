---------------------------- MODULE TokenBucket ----------------------------
(***************************************************************************)
(* The token bucket limiter: a map from hosts to buckets under one mutex,  *)
(* a mutex in every bucket, request goroutines that find or create their   *)
(* bucket under the first and draw from it under the second, and the       *)
(* evictor that drops idle buckets.                                        *)
(*                                                                         *)
(* A critical section is one step; the evictor's, which holds the map's    *)
(* mutex from its first to its last bucket but each bucket's only while it *)
(* reads the idle time, is several.  A bucket is known by the request that *)
(* created it.                                                             *)
(***************************************************************************)
EXTENDS Integers

CONSTANTS
  Hosts, Requests,
  Capacity,   \* size of a bucket, in units
  Rate,       \* units a tick adds
  Cost,       \* units in a token
  TTL,        \* idle time after which a bucket is dropped
  MaxTime,    \* bound: ticks
  None

\* The last conjunct is how the flags are meant to be chosen; main does not
\* check it.  An idle bucket is full again before it is dropped.
ASSUME TokenAssumption ==
  /\ Capacity \in Nat /\ Rate \in Nat /\ Cost \in Nat \ {0}
  /\ TTL \in Nat /\ MaxTime \in Nat
  /\ None \notin Hosts \cup Requests
  /\ TTL * Rate >= Capacity

VARIABLES
  now,
  store,     \* host -> its bucket, or None
  buckets,   \* bucket -> [tokens, lastRefill, lastSeen]
  request,   \* request -> [pc, host, bucket]
  sweep,     \* the evictor: [pc, now, todo, doomed]
  admitted,  \* history: host -> requests admitted from its bucket
  refused,   \* history: host -> requests refused by its bucket
  late       \* history: host -> requests admitted from a bucket given up

vars == <<now, store, buckets, request, sweep, admitted, refused, late>>
history == <<admitted, refused, late>>

-----------------------------------------------------------------------------
Bucket == [tokens: 0..Capacity, lastRefill: Nat, lastSeen: Nat]

Idle == [pc |-> "idle", host |-> None, bucket |-> None]
Off == [pc |-> "off", now |-> 0, todo |-> {}, doomed |-> None]

TypeOK ==
  /\ now \in Nat
  /\ store \in [Hosts -> Requests \cup {None}]
  /\ buckets \in [Requests -> Bucket]
  /\ request \in [Requests -> [pc: {"idle", "found", "done"},
                               host: Hosts \cup {None},
                               bucket: Requests \cup {None}]]
  /\ sweep \in [pc: {"off", "read", "locked"}, now: Nat,
                todo: SUBSET Hosts, doomed: Hosts \cup {None}]
  /\ admitted \in [Hosts -> Nat] /\ refused \in [Hosts -> Nat] /\ late \in [Hosts -> Nat]

FullBucket == [tokens |-> Capacity, lastRefill |-> now, lastSeen |-> now]

Init ==
  /\ now = 0
  /\ store = [h \in Hosts |-> None]
  /\ buckets = [r \in Requests |-> FullBucket]
  /\ request = [r \in Requests |-> Idle]
  /\ sweep = Off
  /\ admitted = [h \in Hosts |-> 0]
  /\ refused = [h \in Hosts |-> 0]
  /\ late = [h \in Hosts |-> 0]

-----------------------------------------------------------------------------
(* Requests *)

\* Get or create, under the map's mutex.
Find(r, h) ==
  /\ request[r].pc = "idle"
  /\ sweep.pc # "locked"
  /\ IF store[h] = None
     THEN /\ store' = [store EXCEPT ![h] = r]
          /\ buckets' = [buckets EXCEPT ![r] = FullBucket]
     ELSE UNCHANGED <<store, buckets>>
  /\ request' = [request EXCEPT ![r] = [pc |-> "found", host |-> h, bucket |-> store'[h]]]
  /\ UNCHANGED <<now, sweep, history>>

Refilled(b) ==
  LET tokens == b.tokens + (now - b.lastRefill) * Rate
  IN  IF tokens > Capacity THEN Capacity ELSE tokens

\* The bucket still stands for its host: it is in the map and the evictor has
\* not decided to drop it.
Standing(r) ==
  LET h == request[r].host
  IN  store[h] = request[r].bucket /\ sweep.doomed # h

\* allow(), under the bucket's mutex.  Requests of one host that found the
\* same bucket take their turns.
Allow(r) ==
  /\ request[r].pc = "found"
  /\ LET h == request[r].host
         b == request[r].bucket
         tokens == Refilled(buckets[b])
         passes == tokens >= Cost
     IN  /\ buckets' = [buckets EXCEPT ![b] =
                          [tokens |-> IF passes THEN tokens - Cost ELSE tokens,
                           lastRefill |-> now, lastSeen |-> now]]
         /\ admitted' = IF passes /\ Standing(r) THEN [admitted EXCEPT ![h] = @ + 1] ELSE admitted
         /\ refused' = IF ~passes /\ Standing(r) THEN [refused EXCEPT ![h] = @ + 1] ELSE refused
         /\ late' = IF passes /\ ~Standing(r) THEN [late EXCEPT ![h] = @ + 1] ELSE late
  /\ request' = [request EXCEPT ![r].pc = "done"]
  /\ UNCHANGED <<now, store, sweep>>

-----------------------------------------------------------------------------
(* The evictor *)

\* The clock is read before the map's mutex is asked for.
SweepStarts ==
  /\ sweep.pc = "off"
  /\ sweep' = [sweep EXCEPT !.pc = "read", !.now = now]
  /\ UNCHANGED <<now, store, buckets, request, history>>

SweepLocks ==
  /\ sweep.pc = "read"
  /\ sweep' = [sweep EXCEPT !.pc = "locked", !.todo = {h \in Hosts : store[h] # None}]
  /\ UNCHANGED <<now, store, buckets, request, history>>

\* Mutation: the comparison is the wrong way round the mark.
ExpiredEarly(h) == sweep.now - buckets[store[h]].lastSeen >= 0

Expired(h) == sweep.now - buckets[store[h]].lastSeen > TTL

\* The bucket's mutex is let go before the bucket is dropped.
SweepChecks(h) ==
  /\ sweep.pc = "locked" /\ sweep.doomed = None
  /\ h \in sweep.todo
  /\ sweep' = [sweep EXCEPT !.todo = @ \ {h}, !.doomed = IF Expired(h) THEN h ELSE None]
  /\ UNCHANGED <<now, store, buckets, request, history>>

SweepDrops ==
  /\ sweep.doomed # None
  /\ store' = [store EXCEPT ![sweep.doomed] = None]
  /\ sweep' = [sweep EXCEPT !.doomed = None]
  /\ UNCHANGED <<now, buckets, request, history>>

SweepEnds ==
  /\ sweep.pc = "locked" /\ sweep.todo = {} /\ sweep.doomed = None
  /\ sweep' = Off
  /\ UNCHANGED <<now, store, buckets, request, history>>

Tick ==
  /\ now < MaxTime
  /\ now' = now + 1
  /\ UNCHANGED <<store, buckets, request, sweep, history>>

Next ==
  \/ \E r \in Requests, h \in Hosts : Find(r, h)
  \/ \E r \in Requests : Allow(r)
  \/ SweepStarts \/ SweepLocks \/ SweepDrops \/ SweepEnds
  \/ \E h \in Hosts : SweepChecks(h)
  \/ Tick

Spec == Init /\ [][Next]_vars

-----------------------------------------------------------------------------
(* Properties *)

\* What the account of a host holds: its bucket as the next request would find
\* it, or a full one when it would get a new one.
CreditOf(h) ==
  IF store[h] = None \/ sweep.doomed = h THEN Capacity ELSE Refilled(buckets[store[h]])

Credit == [h \in Hosts |-> CreditOf(h)]
=============================================================================
