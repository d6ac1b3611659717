------------------------------ MODULE HashRing ------------------------------
(***************************************************************************)
(* Consistent hashing: the sorted ring of the hashes of virtual nodes, the *)
(* map from a hash to its server, and lookups by binary search.            *)
(*                                                                         *)
(* The hash of a virtual node is any function of its server and number:    *)
(* two nodes may share one.  Additions and removals hold the write lock;   *)
(* a lookup reads the length of the ring before it takes the read lock.    *)
(* A key is known by its hash.  A server is known by its id.               *)
(***************************************************************************)
EXTENDS Integers, FiniteSets, Sequences, Functions, Sorting

CONSTANTS
  MaxServers,   \* bound: servers ever added
  NodesEach,    \* virtual nodes of a server
  Span,         \* hashes are 0..Span-1
  Readers,      \* goroutines that look keys up
  Nobody

RingAssumption ==
  /\ MaxServers \in Nat /\ NodesEach \in Nat /\ Span \in Nat \ {0}
  /\ Nobody \notin 0..MaxServers

Ids == 0..(MaxServers - 1)
Hashes == 0..(Span - 1)

VARIABLES
  hash,       \* <<server, number>> -> hash
  servers,
  nodeMap,    \* hash -> server
  hashRing,   \* the sorted hashes
  nextId,
  reader,     \* reader -> [pc, key]
  crashed     \* an index was out of range

vars == <<hash, servers, nodeMap, hashRing, nextId, reader, crashed>>

-----------------------------------------------------------------------------
TypeOK ==
  /\ hash \in [Ids \X (1..NodesEach) -> Hashes]
  /\ servers \subseteq Ids
  /\ nodeMap \in [Hashes -> Ids \cup {Nobody}]
  /\ hashRing \in Seq(Hashes)
  /\ nextId \in 0..MaxServers
  /\ reader \in [Readers -> [pc: {"idle", "searching"}, key: Hashes]]
  /\ crashed \in BOOLEAN

Init ==
  /\ hash \in [Ids \X (1..NodesEach) -> Hashes]
  /\ servers = {}
  /\ nodeMap = [h \in Hashes |-> Nobody]
  /\ hashRing = <<>>
  /\ nextId = 0
  /\ reader = [r \in Readers |-> [pc |-> "idle", key |-> 0]]
  /\ crashed = FALSE

-----------------------------------------------------------------------------
NodesOf(s) == [i \in 1..NodesEach |-> hash[s, i]]

HashesOf(s) == {hash[s, i] : i \in 1..NodesEach}

\* Mutation: the new nodes are put behind the others.
AddServerUnsorted ==
  /\ nextId < MaxServers
  /\ servers' = servers \cup {nextId}
  /\ nodeMap' = [h \in Hashes |-> IF h \in HashesOf(nextId) THEN nextId ELSE nodeMap[h]]
  /\ hashRing' = hashRing \o NodesOf(nextId)
  /\ nextId' = nextId + 1
  /\ UNCHANGED <<hash, reader, crashed>>

AddServer ==
  /\ nextId < MaxServers
  /\ servers' = servers \cup {nextId}
  /\ nodeMap' = [h \in Hashes |-> IF h \in HashesOf(nextId) THEN nextId ELSE nodeMap[h]]
  /\ hashRing' = Sorted(hashRing \o NodesOf(nextId), <)
  /\ nextId' = nextId + 1
  /\ UNCHANGED <<hash, reader, crashed>>

\* Mutation: the first node stays on the ring.
RemoveServerButOne(s) ==
  /\ s \in servers
  /\ servers' = servers \ {s}
  /\ nodeMap' = [h \in Hashes |-> IF h \in HashesOf(s) THEN Nobody ELSE nodeMap[h]]
  /\ hashRing' = Without(hashRing, {hash[s, i] : i \in 2..NodesEach})
  /\ UNCHANGED <<hash, nextId, reader, crashed>>

\* All that lies on a hash of the server goes, in the map and on the ring.
RemoveServer(s) ==
  /\ s \in servers
  /\ servers' = servers \ {s}
  /\ nodeMap' = [h \in Hashes |-> IF h \in HashesOf(s) THEN Nobody ELSE nodeMap[h]]
  /\ hashRing' = Without(hashRing, HashesOf(s))
  /\ UNCHANGED <<hash, nextId, reader, crashed>>

-----------------------------------------------------------------------------
(* Lookups *)

\* sort.Search: halve w[1]..w[2] until they meet.  Positions count from 0, and the
\* answer is the length of the ring when no hash is large enough.
SearchFrom(ring, key) ==
  LET n == Len(ring)
      search[w \in (0..n) \X (0..n)] ==
        LET mid == (w[1] + w[2]) \div 2
        IN  IF w[1] >= w[2] THEN w[1]
            ELSE IF ring[mid + 1] >= key THEN search[<<w[1], mid>>] ELSE search[<<mid + 1, w[2]>>]
  IN  search[<<0, n>>]

\* Mutation: no wrap.
PositionWithoutWrap(ring, key) ==
  LET idx == SearchFrom(ring, key) IN IF idx = Len(ring) THEN idx - 1 ELSE idx

\* Round the end of the ring to its start.
Position(ring, key) ==
  LET idx == SearchFrom(ring, key) IN IF idx = Len(ring) THEN 0 ELSE idx

ServerOf(key) == nodeMap[hashRing[Position(hashRing, key) + 1]]

\* Without the lock: an empty ring is answered with an error.
GetChecks(r, key) ==
  /\ reader[r].pc = "idle"
  /\ hashRing # <<>>
  /\ reader' = [reader EXCEPT ![r] = [pc |-> "searching", key |-> key]]
  /\ UNCHANGED <<hash, servers, nodeMap, hashRing, nextId, crashed>>

\* Under the read lock.  Nothing is on position 0 of a ring that is empty now.
GetSearches(r) ==
  /\ reader[r].pc = "searching"
  /\ crashed' = (hashRing = <<>>)
  /\ reader' = [reader EXCEPT ![r].pc = "idle"]
  /\ UNCHANGED <<hash, servers, nodeMap, hashRing, nextId>>

Next ==
  /\ ~crashed
  /\ \/ AddServer
     \/ \E s \in Ids : RemoveServer(s)
     \/ \E r \in Readers : GetSearches(r) \/ \E key \in Hashes : GetChecks(r, key)

Spec == Init /\ [][Next]_vars

-----------------------------------------------------------------------------
(* Properties *)

OnRing == Range(hashRing)

\* The map and the ring stay together whatever hashes coincide: what is on the
\* ring has a server that is there, and nothing else is in the map.
RingMatchesMap ==
  \A h \in Hashes : IF h \in OnRing THEN nodeMap[h] \in servers ELSE nodeMap[h] = Nobody

\* How far it is from a to b, clockwise.
Distance(a, b) == (b - a) % Span

\* The search finds the owner of the first hash clockwise from the key.
LookupIsClockwise ==
  hashRing # <<>> =>
    \A key \in Hashes :
      \E h \in OnRing :
        /\ \A g \in OnRing : Distance(key, h) <= Distance(key, g)
        /\ ServerOf(key) = nodeMap[h]

\* The server of every key, as a lookup would find it.
Assignment == IF hashRing = <<>> THEN [key \in Hashes |-> Nobody]
                                 ELSE [key \in Hashes |-> ServerOf(key)]

\* A new server takes keys, and nothing moves between the others.
ArrivalsOnlyTake ==
  [][\A s \in servers' \ servers :
       \A key \in Hashes : Assignment'[key] \in {Assignment[key], s}]_vars

\* The keys of a server that goes are spread, and nothing else moves, provided
\* that it shared no hash with a server that stays.
DeparturesOnlyGive ==
  [][\A s \in servers \ servers' :
       (\A t \in servers' : HashesOf(s) \cap HashesOf(t) = {}) =>
         \A key \in Hashes : Assignment[key] # s => Assignment'[key] = Assignment[key]]_vars
=============================================================================
