--------------------------- MODULE LeakingBucket ---------------------------
(***************************************************************************)
(* The leaking bucket limiter.  There is no evictor: a request that finds  *)
(* its host's bucket idle for too long replaces it, holding the map's      *)
(* mutex while it looks and while it replaces, but the bucket's only while *)
(* it looks.  A bucket is known by the request that created it.            *)
(***************************************************************************)
EXTENDS Integers

CONSTANTS
  Hosts, Requests,
  Capacity,   \* size of a bucket, in units
  Rate,       \* units that leak out in a tick
  Cost,       \* units a request adds
  TTL,        \* idle time after which a bucket is replaced
  MaxTime,    \* bound: ticks
  None

\* The last conjunct is how the flags are meant to be chosen; main does not
\* check it.  An idle bucket is empty before it is replaced.
LeakingAssumption ==
  /\ Capacity \in Nat /\ Rate \in Nat /\ Cost \in Nat \ {0}
  /\ TTL \in Nat /\ MaxTime \in Nat
  /\ None \notin Hosts \cup Requests
  /\ TTL * Rate >= Capacity

VARIABLES
  now,
  store,     \* host -> its bucket, or None
  buckets,   \* bucket -> [level, lastDrain, lastSeen]
  request,   \* request -> [pc, host, bucket]
  admitted,  \* history: host -> requests admitted by its bucket
  refused,   \* history: host -> requests refused by its bucket
  late       \* history: host -> requests admitted by a bucket given up

vars == <<now, store, buckets, request, admitted, refused, late>>
history == <<admitted, refused, late>>

-----------------------------------------------------------------------------
Bucket == [level: 0..Capacity, lastDrain: Nat, lastSeen: Nat]

\* A request that is "replacing" holds the map's mutex.
TypeOK ==
  /\ now \in Nat
  /\ store \in [Hosts -> Requests \cup {None}]
  /\ buckets \in [Requests -> Bucket]
  /\ request \in [Requests -> [pc: {"idle", "replacing", "found", "done"},
                               host: Hosts \cup {None},
                               bucket: Requests \cup {None}]]
  /\ admitted \in [Hosts -> Nat] /\ refused \in [Hosts -> Nat] /\ late \in [Hosts -> Nat]

EmptyBucket == [level |-> 0, lastDrain |-> now, lastSeen |-> now]

Init ==
  /\ now = 0
  /\ store = [h \in Hosts |-> None]
  /\ buckets = [r \in Requests |-> EmptyBucket]
  /\ request = [r \in Requests |-> [pc |-> "idle", host |-> None, bucket |-> None]]
  /\ admitted = [h \in Hosts |-> 0]
  /\ refused = [h \in Hosts |-> 0]
  /\ late = [h \in Hosts |-> 0]

-----------------------------------------------------------------------------
MapIsFree == \A r \in Requests : request[r].pc # "replacing"

\* Some request is about to replace the bucket of h.
GivenUp(h) == \E r \in Requests : request[r].pc = "replacing" /\ request[r].host = h

\* Mutation: the comparison is with nothing.
ExpiredEarly(h) == now - buckets[store[h]].lastSeen >= 0

Expired(h) == now - buckets[store[h]].lastSeen > TTL

\* A bucket that is there and was used lately is taken ...
Find(r, h) ==
  /\ request[r].pc = "idle" /\ MapIsFree
  /\ store[h] # None /\ ~Expired(h)
  /\ request' = [request EXCEPT ![r] = [pc |-> "found", host |-> h, bucket |-> store[h]]]
  /\ UNCHANGED <<now, store, buckets, history>>

\* ... one that was not is given up, and its mutex let go ...
FindExpired(r, h) ==
  /\ request[r].pc = "idle" /\ MapIsFree
  /\ store[h] # None /\ Expired(h)
  /\ request' = [request EXCEPT ![r] = [pc |-> "replacing", host |-> h, bucket |-> None]]
  /\ UNCHANGED <<now, store, buckets, history>>

\* ... before it is replaced, or where there was none.
Create(r, h) ==
  /\ \/ request[r].pc = "idle" /\ MapIsFree /\ store[h] = None
     \/ request[r].pc = "replacing" /\ request[r].host = h
  /\ store' = [store EXCEPT ![h] = r]
  /\ buckets' = [buckets EXCEPT ![r] = EmptyBucket]
  /\ request' = [request EXCEPT ![r] = [pc |-> "found", host |-> h, bucket |-> r]]
  /\ UNCHANGED <<now, history>>

\* Mutation: the level goes below zero.
DrainedBelowZero(b) ==
  LET level == b.level - (now - b.lastDrain) * Rate
  IN  IF level > Capacity THEN Capacity ELSE level

\* The second cap of the code: a level is never above the capacity.
Drained(b) ==
  LET level == b.level - (now - b.lastDrain) * Rate
      floor == IF level < 0 THEN 0 ELSE level
  IN  IF floor > Capacity THEN Capacity ELSE floor

Standing(r) ==
  LET h == request[r].host
  IN  store[h] = request[r].bucket /\ ~GivenUp(h)

\* allow(), under the bucket's mutex.
Allow(r) ==
  /\ request[r].pc = "found"
  /\ LET h == request[r].host
         b == request[r].bucket
         level == Drained(buckets[b])
         passes == level + Cost <= Capacity
     IN  /\ buckets' = [buckets EXCEPT ![b] =
                          [level |-> IF passes THEN level + Cost ELSE level,
                           lastDrain |-> now, lastSeen |-> now]]
         /\ admitted' = IF passes /\ Standing(r) THEN [admitted EXCEPT ![h] = @ + 1] ELSE admitted
         /\ refused' = IF ~passes /\ Standing(r) THEN [refused EXCEPT ![h] = @ + 1] ELSE refused
         /\ late' = IF passes /\ ~Standing(r) THEN [late EXCEPT ![h] = @ + 1] ELSE late
  /\ request' = [request EXCEPT ![r].pc = "done"]
  /\ UNCHANGED <<now, store>>

Tick ==
  /\ now < MaxTime
  /\ now' = now + 1
  /\ UNCHANGED <<store, buckets, request, history>>

Next ==
  \/ \E r \in Requests, h \in Hosts : Find(r, h) \/ FindExpired(r, h) \/ Create(r, h)
  \/ \E r \in Requests : Allow(r)
  \/ Tick

Spec == Init /\ [][Next]_vars

-----------------------------------------------------------------------------
(* Properties *)

\* What the account of a host holds: the room left in its bucket as the next
\* request would find it.
CreditOf(h) ==
  IF store[h] = None \/ GivenUp(h) THEN Capacity ELSE Capacity - Drained(buckets[store[h]])

Credit == [h \in Hosts |-> CreditOf(h)]
=============================================================================
