-------------------------- MODULE TieredStoreProofs --------------------------
(***************************************************************************)
(* Proof that a restart of the API refreshes what it loads, for any        *)
(* prefixes, servers and requests, any sizes of the tiers and any number   *)
(* of seedings.  The invariant: nothing that is on its way to Redis, and   *)
(* nothing in the collection, is older than what a calm server fetched;    *)
(* nor is a snapshot of Redis that was taken since it serves.              *)
(***************************************************************************)
EXTENDS TieredStore, FiniteSetTheorems, TLAPS

\* The collection, the write-backs under way and the pipelines of all servers
\* have version v of prefix p, or a later one.
NothingOlder(p, v) ==
  /\ mongo[p] >= v
  /\ \A r \in Calls : (call[r].pc = "writing" /\ call[r].prefix = p) => call[r].version >= v
  /\ \A t \in Servers : \A record \in Unsent(t) : record.prefix = p => record.version >= v

NotOlderInRedis(p, v) == redis[p] = Absent \/ redis[p] >= v

\* A prefix is fetched once.
Distinct(s) ==
  \A i, j \in DOMAIN server[s].records :
    server[s].records[i].prefix = server[s].records[j].prefix => i = j

\* All exchanges of a server that serves are over.
AllSent(s) == server[s].pc = "serving" => server[s].next > Len(server[s].records)

Refreshed(s) ==
  server[s].calm =>
    \A i \in DOMAIN server[s].records, p \in Keys, v \in Nat :
      server[s].records[i] = [prefix |-> p, version |-> v] =>
        NothingOlder(p, v) /\ (i < server[s].next => NotOlderInRedis(p, v))

\* The snapshot taken since a calm server serves has nothing older.
InSnapshot(s) ==
  (server[s].calm /\ server[s].kept) =>
    /\ server[s].pc = "serving"
    /\ \A i \in DOMAIN server[s].records, p \in Keys, v \in Nat :
         server[s].records[i] = [prefix |-> p, version |-> v] => saved[p] = Absent \/ saved[p] >= v

RInv ==
  /\ StoreTypeOK
  /\ \A s \in Servers : Distinct(s) /\ AllSent(s)
  /\ \A s \in Servers : Refreshed(s)
  /\ \A s \in Servers : InSnapshot(s)

-----------------------------------------------------------------------------
(* Types *)

LEMMA DocumentsCounted ==
  ASSUME StoreTypeOK
  PROVE  Smaller(RedisUnits, Cardinality(Documents)) \in Nat
<1>1. IsFiniteSet(Documents)
  BY FS_Subset, StoreAssumption DEF Documents
<1>2. Cardinality(Documents) \in Nat
  BY <1>1, FS_CardinalityType
<1>. QED
  BY <1>2, StoreAssumption DEF Smaller

\* What a server fetches is a sequence of records of the collection, each prefix
\* once.
LEMMA FetchedRecords ==
  ASSUME StoreTypeOK, NEW records \in TopPrefixes
  PROVE  /\ records \in Seq(Record)
         /\ \A i \in DOMAIN records : records[i].version = mongo[records[i].prefix]
         /\ \A i, j \in DOMAIN records : records[i].prefix = records[j].prefix => i = j
<1>. DEFINE n == Smaller(RedisUnits, Cardinality(Documents))
<1>1. n \in Nat
  BY DocumentsCounted
<1>2. PICK order \in {f \in [1..n -> Documents] : IsInjective(f)} :
        records = [i \in 1..n |-> [prefix |-> order[i], version |-> mongo[order[i]]]]
  BY DEF TopPrefixes
<1>3. \A i \in 1..n : order[i] \in Keys /\ mongo[order[i]] \in Nat
  BY <1>2 DEF Documents, StoreTypeOK
<1>4. \A i, j \in 1..n : order[i] = order[j] => i = j
  BY <1>2 DEF IsInjective
<1>5. records \in [1..n -> Record]
  BY <1>2, <1>3 DEF Record
<1>. QED
  BY <1>1, <1>2, <1>3, <1>4, <1>5

LEMMA StoredType ==
  ASSUME StoreTypeOK, NEW s \in Servers, NEW I \in SUBSET (DOMAIN server[s].records)
  PROVE  Stored(s, I) \in [Keys -> Nat \cup {Absent}]
<1>1. server[s].records \in Seq(Record)
  BY DEF StoreTypeOK, Server
<1>2. \A i \in I : server[s].records[i].version \in Nat
  <2>1. \A i \in DOMAIN server[s].records : server[s].records[i] \in Record
    BY <1>1
  <2>. QED
    BY <2>1 DEF Record
<1>3. ASSUME NEW p \in Keys, \E i \in I : server[s].records[i].prefix = p
      PROVE  (CHOOSE i \in I : server[s].records[i].prefix = p) \in I
  BY <1>3
<1>. QED
  BY <1>2, <1>3 DEF Stored, StoreTypeOK

\* An exchange has records that were unsent before it.
LEMMA PipelineIsUnsent ==
  ASSUME StoreTypeOK, NEW s \in Servers, server[s].pc = "loading",
         server[s].next <= Len(server[s].records)
  PROVE  /\ InPipeline(s) \subseteq DOMAIN server[s].records
         /\ \A i \in InPipeline(s) : server[s].records[i] \in Unsent(s)
         /\ PipelineEnd(s) + 1 \in Nat \ {0}
         /\ \A i \in DOMAIN server[s].records :
              i < PipelineEnd(s) + 1 => i < server[s].next \/ i \in InPipeline(s)
         /\ server[s].next <= PipelineEnd(s) + 1
<1>1. /\ server[s].records \in Seq(Record) /\ server[s].next \in Nat \ {0}
      /\ Len(server[s].records) \in Nat
      /\ DOMAIN server[s].records = 1..Len(server[s].records)
  BY DEF StoreTypeOK, Server
<1>2. PipelineSize \in Nat \ {0}
  BY StoreAssumption
<1>3. /\ PipelineEnd(s) \in Nat /\ PipelineEnd(s) <= Len(server[s].records)
      /\ server[s].next <= PipelineEnd(s)
  BY <1>1, <1>2 DEF PipelineEnd, Smaller
<1>4. Unsent(s) = {server[s].records[i] : i \in server[s].next..Len(server[s].records)}
  BY DEF Unsent
<1>5. InPipeline(s) \subseteq server[s].next..Len(server[s].records)
  BY <1>1, <1>3 DEF InPipeline
<1>6. \A i \in DOMAIN server[s].records :
        i < PipelineEnd(s) + 1 => i < server[s].next \/ i \in InPipeline(s)
  BY <1>1, <1>3 DEF InPipeline
<1>7. InPipeline(s) \subseteq DOMAIN server[s].records
  BY <1>1, <1>5
<1>. QED
  BY <1>1, <1>3, <1>4, <1>5, <1>6, <1>7

LEMMA InitTypes == StoreInit => StoreTypeOK
BY DEF StoreInit, StoreTypeOK, Down, Server, NoCall, Call

LEMMA NextTypes == StoreTypeOK /\ [StoreNext]_storeVars => StoreTypeOK'
<1>. SUFFICES ASSUME StoreTypeOK, [StoreNext]_storeVars
              PROVE  StoreTypeOK'
  OBVIOUS
<1>. USE DEF StoreTypeOK
<1>1. ASSUME NEW p \in Keys, SeedPrefix(p)
      PROVE  StoreTypeOK'
  BY <1>1 DEF SeedPrefix
<1>2. ASSUME NEW p \in Keys, Evict(p)
      PROVE  StoreTypeOK'
  BY <1>2 DEF Evict
<1>3. ASSUME NEW s \in Servers, FetchRecords(s)
      PROVE  StoreTypeOK'
  <2>1. PICK records \in TopPrefixes :
          server' = [server EXCEPT ![s] = [pc |-> "loading", records |-> records, next |-> 1,
                                           calm |-> NothingOldUnderWay, kept |-> FALSE]]
    BY <1>3 DEF FetchRecords
  <2>2. records \in Seq(Record)
    BY FetchedRecords
  <2>3. NothingOldUnderWay \in BOOLEAN
    BY DEF NothingOldUnderWay
  <2>4. [pc |-> "loading", records |-> records, next |-> 1, calm |-> NothingOldUnderWay,
         kept |-> FALSE] \in Server
    BY <2>2, <2>3 DEF Server
  <2>. QED
    BY <1>3, <2>1, <2>4 DEF FetchRecords
<1>4. ASSUME NEW s \in Servers, Flush(s)
      PROVE  StoreTypeOK'
  <2>1. PipelineEnd(s) + 1 \in Nat \ {0} /\ InPipeline(s) \subseteq DOMAIN server[s].records
    BY <1>4, PipelineIsUnsent DEF Flush
  <2>2. redis' \in [Keys -> Nat \cup {Absent}]
    BY <1>4, <2>1, StoredType DEF Flush
  <2>3. server' \in [Servers -> Server]
    BY <1>4, <2>1 DEF Flush, Server
  <2>. QED
    BY <1>4, <2>2, <2>3 DEF Flush
<1>5. ASSUME NEW s \in Servers, FlushFails(s)
      PROVE  StoreTypeOK'
  <2>1. PipelineEnd(s) + 1 \in Nat \ {0} /\ InPipeline(s) \subseteq DOMAIN server[s].records
    BY <1>5, PipelineIsUnsent DEF FlushFails
  <2>2. redis' \in [Keys -> Nat \cup {Absent}]
    BY <1>5, <2>1, StoredType DEF FlushFails
  <2>3. server' \in [Servers -> Server]
    <3> DEFINE failed == [server[s] EXCEPT !.next = PipelineEnd(s) + 1, !.calm = FALSE]
    <3>1. server \in [Servers -> Server] /\ server' = [server EXCEPT ![s] = failed]
      BY <1>5 DEF FlushFails, StoreTypeOK
    <3>2. failed \in Server
      <4>1. server[s] \in Server
        BY <3>1
      <4> QED BY <2>1, <4>1 DEF Server
    <3> HIDE DEF failed
    <3> QED BY <3>1, <3>2
  <2>. QED
    BY <1>5, <2>2, <2>3 DEF FlushFails
<1>6. ASSUME NEW s \in Servers, Serve(s)
      PROVE  StoreTypeOK'
  BY <1>6 DEF Serve, Server
<1>7. ASSUME NEW s \in Servers, Stop(s)
      PROVE  StoreTypeOK'
  BY <1>7 DEF Stop, Server, Down, NoCall, Call
<1>8. ASSUME NEW r \in Calls, Suggest(r)
      PROVE  StoreTypeOK'
  <2>1. ASSUME NEW s \in Servers, NEW p \in Keys, AskMemory(r, s, p)
        PROVE  StoreTypeOK'
    BY <2>1 DEF AskMemory, Call
  <2>2. CASE RedisAnswers(r) \/ MongoFails(r) \/ WriteBackFails(r)
    BY <2>2 DEF RedisAnswers, MongoFails, WriteBackFails, NoCall, Call
  <2>3. ASSUME call[r].pc # "idle"
        PROVE  /\ call[r] \in [pc: {"redis", "mongo", "writing"}, server: Servers,
                                prefix: Keys, version: Nat]
               /\ call[r].prefix \in Keys /\ call[r].version \in Nat
    BY <2>3 DEF Call
  <2>4. CASE RedisMisses(r)
    <3>1. [call[r] EXCEPT !.pc = "mongo"] \in Call
      BY <2>3, <2>4 DEF RedisMisses, Call
    <3>. QED
      BY <2>4, <3>1 DEF RedisMisses
  <2>5. CASE MongoAnswers(r)
    <3>1. mongo[call[r].prefix] \in Nat
      BY <2>3, <2>5 DEF MongoAnswers
    <3>2. [call[r] EXCEPT !.pc = "writing", !.version = mongo[call[r].prefix]] \in Call
      BY <2>3, <2>5, <3>1 DEF MongoAnswers, Call
    <3>. QED
      BY <2>5, <3>2 DEF MongoAnswers
  <2>6. CASE WriteBack(r)
    BY <2>3, <2>6 DEF WriteBack, NoCall, Call
  <2>. QED
    BY <1>8, <2>1, <2>2, <2>4, <2>5, <2>6 DEF Suggest
<1>9. CASE UNCHANGED storeVars
  BY <1>9 DEF storeVars
<1>10. CASE Snapshot
  BY <1>10 DEF Snapshot, Server
<1>11. CASE RedisRestarts
  BY <1>11 DEF RedisRestarts, Server
<1>. QED
  BY <1>1, <1>2, <1>3, <1>4, <1>5, <1>6, <1>7, <1>8, <1>9, <1>10, <1>11 DEF StoreNext, Loading

-----------------------------------------------------------------------------
(* The invariant *)

\* What is stored of an exchange is not older than what a calm server fetched.
LEMMA StoredIsNotOlder ==
  ASSUME StoreTypeOK, NEW s \in Servers, NEW I \in SUBSET InPipeline(s),
         server[s].pc = "loading", server[s].next <= Len(server[s].records),
         NEW p \in Keys, NEW v, NothingOlder(p, v), redis' = Stored(s, I)
  PROVE  /\ NotOlderInRedis(p, v) => NotOlderInRedis(p, v)'
         /\ (\E i \in I : server[s].records[i].prefix = p) => NotOlderInRedis(p, v)'
<1>1. \A i \in I : server[s].records[i] \in Unsent(s)
  BY PipelineIsUnsent
<1>2. CASE \E i \in I : server[s].records[i].prefix = p
  <2>. DEFINE k == CHOOSE i \in I : server[s].records[i].prefix = p
  <2>1. k \in I /\ server[s].records[k].prefix = p
    BY <1>2
  <2>2. redis'[p] = server[s].records[k].version
    BY <1>2 DEF Stored
  <2>3. server[s].records[k].version >= v
    BY <1>1, <2>1 DEF NothingOlder
  <2>. QED
    BY <2>2, <2>3 DEF NotOlderInRedis
<1>3. CASE ~\E i \in I : server[s].records[i].prefix = p
  <2>1. redis'[p] = redis[p]
    BY <1>3 DEF Stored
  <2>. QED
    BY <1>3, <2>1 DEF NotOlderInRedis
<1>. QED
  BY <1>2, <1>3

\* What the exchange leaves unsent was unsent before, and another server's
\* records are not touched.
LEMMA LessIsUnsent ==
  ASSUME StoreTypeOK, StoreTypeOK', NEW s \in Servers, NEW next,
         server[s].pc = "loading", server[s].next <= next, next \in Nat,
         \A t \in Servers : t # s => server'[t] = server[t],
         server'[s].records = server[s].records, server'[s].next = next
  PROVE  \A t \in Servers : Unsent(t)' \subseteq Unsent(t)
<1>. SUFFICES ASSUME NEW t \in Servers
              PROVE  Unsent(t)' \subseteq Unsent(t)
  OBVIOUS
<1>1. server[s].next \in Nat /\ Len(server[s].records) \in Nat
  BY DEF StoreTypeOK, Server
<1>2. CASE t # s
  BY <1>2 DEF Unsent
<1>3. CASE t = s
  <2>1. next..Len(server[s].records) \subseteq server[s].next..Len(server[s].records)
    BY <1>1
  <2>. QED
    BY <1>3, <2>1 DEF Unsent
<1>. QED
  BY <1>2, <1>3

\* Nothing older comes under way.
LEMMA StaysNotOlder ==
  ASSUME StoreTypeOK, NEW p \in Keys, NEW v \in Nat, NothingOlder(p, v),
         StoreTypeOK',
         mongo'[p] >= mongo[p],
         \A t \in Servers : Unsent(t)' \subseteq Unsent(t),
         \A r \in Calls : (call'[r].pc = "writing" /\ call'[r].prefix = p) =>
                           call'[r] = call[r] \/ call'[r].version = mongo[p]
  PROVE  NothingOlder(p, v)'
<1>1. mongo[p] \in Nat /\ mongo'[p] \in Nat
  BY DEF StoreTypeOK
<1>2. mongo'[p] >= v
  BY <1>1 DEF NothingOlder
<1>3. \A r \in Calls : (call'[r].pc = "writing" /\ call'[r].prefix = p) => call'[r].version >= v
  BY DEF NothingOlder
<1>4. \A t \in Servers : \A record \in Unsent(t)' : record.prefix = p => record.version >= v
  BY DEF NothingOlder
<1>. QED
  BY <1>2, <1>3, <1>4 DEF NothingOlder

\* A step that fetches nothing keeps what it says of server s, if it stores
\* nothing older in Redis.
LEMMA StaysRefreshed ==
  ASSUME RInv, StoreTypeOK', NEW s \in Servers,
         server'[s].calm => server[s].calm /\ server'[s].records = server[s].records,
         \A p \in Keys : mongo'[p] >= mongo[p],
         \A t \in Servers : Unsent(t)' \subseteq Unsent(t),
         \A r \in Calls : call'[r].pc = "writing" =>
                           call'[r] = call[r] \/ call'[r].version = mongo[call'[r].prefix],
         \A i \in DOMAIN server[s].records, p \in Keys, v \in Nat :
           (/\ server'[s].calm /\ server[s].records[i] = [prefix |-> p, version |-> v]
            /\ NothingOlder(p, v) /\ i < server'[s].next
            /\ i < server[s].next => NotOlderInRedis(p, v))
           => redis'[p] = Absent \/ redis'[p] >= v
  PROVE  Refreshed(s)'
<1>1. SUFFICES ASSUME server'[s].calm, NEW i \in DOMAIN server[s].records,
                      NEW p \in Keys, NEW v \in Nat,
                      server[s].records[i] = [prefix |-> p, version |-> v]
               PROVE  NothingOlder(p, v)' /\ (i < server'[s].next => NotOlderInRedis(p, v)')
  BY DEF Refreshed
<1>2. NothingOlder(p, v) /\ (i < server[s].next => NotOlderInRedis(p, v))
  BY <1>1 DEF RInv, Refreshed
<1>3. NothingOlder(p, v)'
  BY <1>2, StaysNotOlder DEF RInv
<1>4. i < server'[s].next => NotOlderInRedis(p, v)'
  BY <1>1, <1>2 DEF NotOlderInRedis
<1>. QED
  BY <1>3, <1>4

\* What the snapshot has stays there.
LEMMA StaysInSnapshot ==
  ASSUME RInv, NEW s \in Servers, saved' = saved,
         server'[s].calm /\ server'[s].kept =>
           /\ server[s].calm /\ server[s].kept
           /\ server[s].pc = "serving" =>
                server'[s].pc = "serving" /\ server'[s].records = server[s].records
  PROVE  InSnapshot(s)'
BY DEF RInv, InSnapshot

LEMMA InitRInv == StoreInit => RInv
<1>. SUFFICES ASSUME StoreInit
              PROVE  RInv
  OBVIOUS
<1>1. StoreTypeOK
  BY InitTypes
<1>2. \A s \in Servers : server[s] = Down
  BY DEF StoreInit
<1>. QED
  BY <1>1, <1>2 DEF RInv, Distinct, AllSent, Refreshed, InSnapshot, Down

\* What a server fetches when nothing older is under way.
LEMMA FetchRInv ==
  ASSUME RInv, StoreTypeOK', NEW s \in Servers, FetchRecords(s)
  PROVE  RInv'
<1>1. PICK records \in TopPrefixes :
        server' = [server EXCEPT ![s] = [pc |-> "loading", records |-> records, next |-> 1,
                                         calm |-> NothingOldUnderWay, kept |-> FALSE]]
  BY DEF FetchRecords
<1>2. /\ records \in Seq(Record)
      /\ \A i \in DOMAIN records : records[i].version = mongo[records[i].prefix]
      /\ \A i, j \in DOMAIN records : records[i].prefix = records[j].prefix => i = j
  BY FetchedRecords DEF RInv
<1>3. /\ server'[s] = [pc |-> "loading", records |-> records, next |-> 1,
                       calm |-> NothingOldUnderWay, kept |-> FALSE]
      /\ \A t \in Servers : t # s => server'[t] = server[t]
      /\ mongo' = mongo /\ redis' = redis /\ saved' = saved /\ call' = call
  BY <1>1 DEF FetchRecords, RInv, StoreTypeOK
<1>4. \A t \in Servers : Distinct(t)' /\ AllSent(t)'
  BY <1>2, <1>3 DEF RInv, Distinct, AllSent
<1>5. \A t \in Servers : t # s => Unsent(t)' = Unsent(t)
  BY <1>3 DEF Unsent
<1>6. \A record \in Unsent(s)' : record.version = mongo[record.prefix]
  <2>1. Unsent(s)' = {records[i] : i \in 1..Len(records)}
    BY <1>3 DEF Unsent
  <2>2. 1..Len(records) = DOMAIN records
    BY <1>2
  <2>. QED
    BY <1>2, <2>1, <2>2
<1>7. Refreshed(s)'
  <2>1. SUFFICES ASSUME NothingOldUnderWay, NEW i \in DOMAIN records, NEW p \in Keys, NEW v \in Nat,
                        records[i] = [prefix |-> p, version |-> v]
                 PROVE  NothingOlder(p, v)' /\ ~(i < 1)
    BY <1>3 DEF Refreshed
  <2>2. v = mongo[p] /\ mongo[p] \in Nat
    BY <1>2, <2>1 DEF RInv, StoreTypeOK
  <2>3. \A t \in Servers : \A record \in Unsent(t)' : record.prefix = p => record.version >= v
    BY <1>5, <1>6, <2>1, <2>2 DEF NothingOldUnderWay, UpToDate
  <2>4. \A r \in Calls : (call[r].pc = "writing" /\ call[r].prefix = p) => call[r].version >= v
    BY <2>1, <2>2 DEF NothingOldUnderWay, UpToDate
  <2>5. ~(i < 1)
    BY <1>2, <2>1
  <2>. QED
    BY <1>3, <2>2, <2>3, <2>4, <2>5 DEF NothingOlder
<1>8. ASSUME NEW t \in Servers, t # s
      PROVE  Refreshed(t)'
  <2>1. SUFFICES ASSUME server[t].calm, NEW i \in DOMAIN server[t].records,
                        NEW p \in Keys, NEW v \in Nat,
                        server[t].records[i] = [prefix |-> p, version |-> v]
                 PROVE  NothingOlder(p, v)' /\ (i < server[t].next => NotOlderInRedis(p, v)')
    BY <1>3, <1>8 DEF Refreshed
  <2>2. NothingOlder(p, v) /\ (i < server[t].next => NotOlderInRedis(p, v))
    BY <2>1 DEF RInv, Refreshed
  <2>3. \A u \in Servers : \A record \in Unsent(u)' : record.prefix = p => record.version >= v
    BY <1>5, <1>6, <2>2 DEF NothingOlder
  <2>. QED
    BY <1>3, <2>2, <2>3 DEF NothingOlder, NotOlderInRedis
<1>9. \A t \in Servers : InSnapshot(t)'
  BY <1>3, StaysInSnapshot
<1>. QED
  BY <1>4, <1>7, <1>8, <1>9 DEF RInv

\* An exchange of server s, stored in part or in full: the records that were
\* stored are in Redis, or something newer.
LEMMA ExchangeRInv ==
  ASSUME RInv, StoreTypeOK', NEW s \in Servers,
         server[s].pc = "loading", server[s].next <= Len(server[s].records),
         NEW I \in SUBSET InPipeline(s), redis' = Stored(s, I),
         mongo' = mongo, saved' = saved, call' = call,
         \A t \in Servers : t # s => server'[t] = server[t],
         server'[s].pc = "loading", server'[s].records = server[s].records,
         server'[s].next = PipelineEnd(s) + 1,
         server'[s].calm => server[s].calm /\ I = InPipeline(s),
         server'[s].kept = server[s].kept
  PROVE  RInv'
<1>0. StoreTypeOK
  BY DEF RInv
<1>1. \A t \in Servers : Distinct(t)' /\ AllSent(t)'
  <2>1. \A t \in Servers : server'[t].records = server[t].records
    OBVIOUS
  <2>2. \A t \in Servers : AllSent(t)'
    BY DEF RInv, AllSent
  <2>. QED
    BY <2>1, <2>2 DEF RInv, Distinct
<1>2. \A t \in Servers : Unsent(t)' \subseteq Unsent(t)
  <2>1. PipelineEnd(s) + 1 \in Nat /\ server[s].next <= PipelineEnd(s) + 1
    BY <1>0, PipelineIsUnsent
  <2>. QED
    BY <1>0, <2>1, LessIsUnsent
<1>3. \A p \in Keys : mongo'[p] >= mongo[p]
  BY <1>0 DEF StoreTypeOK
<1>4. ASSUME NEW t \in Servers
      PROVE  Refreshed(t)'
  <2>1. ASSUME NEW i \in DOMAIN server[t].records, NEW p \in Keys, NEW v \in Nat,
               server'[t].calm, server[t].records[i] = [prefix |-> p, version |-> v],
               NothingOlder(p, v), i < server'[t].next,
               i < server[t].next => NotOlderInRedis(p, v)
        PROVE  NotOlderInRedis(p, v)'
    <3>1. /\ NotOlderInRedis(p, v) => NotOlderInRedis(p, v)'
          /\ (\E j \in I : server[s].records[j].prefix = p) => NotOlderInRedis(p, v)'
      BY <1>0, <2>1, StoredIsNotOlder
    <3>2. CASE i < server[t].next
      BY <2>1, <3>1, <3>2
    <3>3. CASE ~(i < server[t].next)
      <4>1. t = s
        BY <2>1, <3>3
      <4>2. i \in InPipeline(s)
        BY <1>0, <2>1, <3>3, <4>1, PipelineIsUnsent
      <4>3. i \in I /\ server[s].records[i].prefix = p
        BY <2>1, <4>1, <4>2
      <4>. QED
        BY <3>1, <4>3
    <3>. QED
      BY <3>2, <3>3
  <2>2. server'[t].calm => server[t].calm /\ server'[t].records = server[t].records
    OBVIOUS
  <2>. QED
    BY <1>0, <1>2, <1>3, <2>1, <2>2, StaysRefreshed DEF NotOlderInRedis
<1>5. \A t \in Servers : InSnapshot(t)'
  BY StaysInSnapshot
<1>. QED
  BY <1>1, <1>4, <1>5 DEF RInv

\* A step that sends no record of any server: the collection may grow, a server
\* may begin to serve or go down, answers may be on their way.
LEMMA OtherRInv ==
  ASSUME RInv, StoreTypeOK', saved' = saved,
         \A p \in Keys : mongo'[p] >= mongo[p],
         \A t \in Servers :
           \/ server'[t] = server[t]
           \/ server'[t] = Down
           \/ /\ server[t].pc = "loading" /\ server[t].next > Len(server[t].records)
              /\ server'[t] = [server[t] EXCEPT !.pc = "serving"],
         \A r \in Calls : call'[r].pc = "writing" =>
                           call'[r] = call[r] \/ call'[r].version = mongo[call'[r].prefix],
         \A p \in Keys : \/ redis'[p] = redis[p] \/ redis'[p] = Absent
                         \/ \E r \in Calls : /\ call[r].pc = "writing" /\ call[r].prefix = p
                                             /\ redis'[p] = call[r].version
  PROVE  RInv'
<1>1. \A t \in Servers : Distinct(t)' /\ AllSent(t)'
  <2>1. ASSUME NEW t \in Servers
        PROVE  Distinct(t)' /\ AllSent(t)'
    <3>1. CASE server'[t] = server[t]
      BY <3>1 DEF RInv, Distinct, AllSent
    <3>2. CASE server'[t] = Down
      BY <3>2 DEF Distinct, AllSent, Down
    <3>3. CASE /\ server[t].pc = "loading" /\ server[t].next > Len(server[t].records)
               /\ server'[t] = [server[t] EXCEPT !.pc = "serving"]
      <4>1. server'[t].records = server[t].records /\ server'[t].next = server[t].next
        BY <3>3 DEF RInv, StoreTypeOK, Server
      <4>. QED
        BY <3>3, <4>1 DEF RInv, Distinct, AllSent
    <3>. QED
      BY <3>1, <3>2, <3>3
  <2>. QED
    BY <2>1
<1>2. \A t \in Servers : Unsent(t)' \subseteq Unsent(t)
  <2>1. ASSUME NEW t \in Servers
        PROVE  server'[t] = server[t] \/ server'[t].pc # "loading"
    <3>1. CASE server'[t] = Down
      BY <3>1 DEF Down
    <3>2. CASE server'[t] = [server[t] EXCEPT !.pc = "serving"]
      <4>1. server[t] \in Server
        BY DEF RInv, StoreTypeOK
      <4>. QED
        BY <3>2, <4>1 DEF Server
    <3>. QED
      BY <3>1, <3>2
  <2>. QED
    BY <2>1 DEF Unsent
<1>3. ASSUME NEW t \in Servers
      PROVE  Refreshed(t)'
  <2>1. server'[t].calm => server[t].calm /\ server'[t].records = server[t].records
                           /\ server'[t].next = server[t].next
    <3>1. CASE server'[t] = Down
      BY <3>1 DEF Down
    <3>2. CASE server'[t] = [server[t] EXCEPT !.pc = "serving"]
      <4>1. server[t] \in Server
        BY DEF RInv, StoreTypeOK
      <4>. QED
        BY <3>2, <4>1 DEF Server
    <3>. QED
      BY <3>1, <3>2
  <2>2. ASSUME NEW i \in DOMAIN server[t].records, NEW p \in Keys, NEW v \in Nat,
               server'[t].calm, NothingOlder(p, v), i < server'[t].next,
               i < server[t].next => NotOlderInRedis(p, v)
        PROVE  redis'[p] = Absent \/ redis'[p] >= v
    BY <2>1, <2>2 DEF NothingOlder, NotOlderInRedis
  <2>. QED
    BY <1>2, <2>1, <2>2, StaysRefreshed
<1>4. ASSUME NEW t \in Servers
      PROVE  InSnapshot(t)'
  <2>1. CASE server'[t] = server[t]
    BY <2>1, StaysInSnapshot
  <2>2. CASE server'[t] = Down
    BY <2>2 DEF InSnapshot, Down
  <2>3. CASE server[t].pc = "loading" /\ server'[t] = [server[t] EXCEPT !.pc = "serving"]
    <3>1. server[t] \in Server /\ InSnapshot(t)
      BY DEF RInv, StoreTypeOK
    <3>2. server'[t].calm = server[t].calm /\ server'[t].kept = server[t].kept
      BY <2>3, <3>1 DEF Server
    <3>3. ~(server[t].calm /\ server[t].kept)
      BY <2>3, <3>1 DEF InSnapshot
    <3>. QED
      BY <3>2, <3>3 DEF InSnapshot
  <2>. QED
    BY <2>1, <2>2, <2>3
<1>. QED
  BY <1>1, <1>3, <1>4 DEF RInv

\* A step between Redis and its volume: what a server has fetched and sent stays.
LEMMA VolumeRInv ==
  ASSUME RInv, StoreTypeOK', mongo' = mongo, call' = call,
         \A t \in Servers :
           /\ server'[t].pc = server[t].pc /\ server'[t].records = server[t].records
           /\ server'[t].next = server[t].next
           /\ server'[t].calm => server[t].calm,
         \A t \in Servers : InSnapshot(t)',
         redis' = redis \/ \A t \in Servers : server'[t].calm => server[t].kept /\ redis' = saved
  PROVE  RInv'
<1>1. \A t \in Servers : Distinct(t)' /\ AllSent(t)'
  BY DEF RInv, Distinct, AllSent
<1>2. \A t \in Servers : Unsent(t)' \subseteq Unsent(t)
  BY DEF Unsent
<1>3. \A p \in Keys : mongo'[p] >= mongo[p]
  BY DEF RInv, StoreTypeOK
<1>4. ASSUME NEW t \in Servers
      PROVE  Refreshed(t)'
  <2>1. ASSUME NEW i \in DOMAIN server[t].records, NEW p \in Keys, NEW v \in Nat,
               server'[t].calm, server[t].records[i] = [prefix |-> p, version |-> v],
               i < server'[t].next, i < server[t].next => NotOlderInRedis(p, v)
        PROVE  redis'[p] = Absent \/ redis'[p] >= v
    <3>1. CASE redis' = redis
      BY <2>1, <3>1 DEF NotOlderInRedis
    <3>2. CASE server[t].kept /\ redis' = saved
      BY <2>1, <3>2 DEF RInv, InSnapshot
    <3>. QED
      BY <2>1, <3>1, <3>2
  <2>. QED
    BY <1>2, <1>3, <2>1, StaysRefreshed
<1>. QED
  BY <1>1, <1>4 DEF RInv

LEMMA NextRInv == RInv /\ [StoreNext]_storeVars => RInv'
<1>. SUFFICES ASSUME RInv, [StoreNext]_storeVars
              PROVE  RInv'
  OBVIOUS
<1>0. StoreTypeOK /\ StoreTypeOK'
  BY NextTypes DEF RInv
<1>1. ASSUME NEW p \in Keys, SeedPrefix(p)
      PROVE  RInv'
  <2>1. \A q \in Keys : mongo'[q] >= mongo[q]
    BY <1>0, <1>1 DEF SeedPrefix, StoreTypeOK
  <2>. QED
    BY <1>0, <1>1, <2>1, OtherRInv DEF SeedPrefix
<1>2. ASSUME NEW p \in Keys, Evict(p)
      PROVE  RInv'
  <2>1. \A q \in Keys : mongo'[q] >= mongo[q] /\ redis'[q] \in {redis[q], Absent}
    BY <1>0, <1>2 DEF Evict, StoreTypeOK
  <2>. QED
    BY <1>0, <1>2, <2>1, OtherRInv DEF Evict
<1>3. ASSUME NEW s \in Servers, FetchRecords(s)
      PROVE  RInv'
  BY <1>0, <1>3, FetchRInv
<1>4. ASSUME NEW s \in Servers, Flush(s)
      PROVE  RInv'
  <2>1. server[s] \in Server /\ server'[s] = [server[s] EXCEPT !.next = PipelineEnd(s) + 1]
    BY <1>0, <1>4 DEF Flush, StoreTypeOK
  <2>2. /\ server'[s].pc = "loading" /\ server'[s].records = server[s].records
        /\ server'[s].next = PipelineEnd(s) + 1 /\ server'[s].calm = server[s].calm
        /\ server'[s].kept = server[s].kept
    BY <1>4, <2>1 DEF Flush, Server
  <2>3. \A t \in Servers : t # s => server'[t] = server[t]
    BY <1>0, <1>4 DEF Flush, StoreTypeOK
  <2>. QED
    BY <1>0, <1>4, <2>2, <2>3, ExchangeRInv DEF Flush
<1>5. ASSUME NEW s \in Servers, FlushFails(s)
      PROVE  RInv'
  <2>1. /\ server[s] \in Server
        /\ server'[s] = [server[s] EXCEPT !.next = PipelineEnd(s) + 1, !.calm = FALSE]
    BY <1>0, <1>5 DEF FlushFails, StoreTypeOK
  <2>2. /\ server'[s].pc = "loading" /\ server'[s].records = server[s].records
        /\ server'[s].next = PipelineEnd(s) + 1 /\ ~server'[s].calm
        /\ server'[s].kept = server[s].kept
    <3>1. server[s].pc = "loading"
      BY <1>5 DEF FlushFails
    <3>2. server[s] = [pc |-> server[s].pc, records |-> server[s].records,
                       next |-> server[s].next, calm |-> server[s].calm,
                       kept |-> server[s].kept]
      BY <2>1 DEF Server
    <3> HIDE <1>5
    <3> QED BY <2>1, <3>1, <3>2
  <2>3. \A t \in Servers : t # s => server'[t] = server[t]
    BY <1>0, <1>5 DEF FlushFails, StoreTypeOK
  <2>4. PICK I \in SUBSET InPipeline(s) : redis' = Stored(s, I)
    BY <1>5 DEF FlushFails
  <2>. QED
    BY <1>0, <1>5, <2>2, <2>3, <2>4, ExchangeRInv DEF FlushFails
<1>6. ASSUME NEW s \in Servers, Serve(s)
      PROVE  RInv'
  <2>1. \A q \in Keys : mongo'[q] >= mongo[q]
    BY <1>0, <1>6 DEF Serve, StoreTypeOK
  <2>2. \A t \in Servers : server'[t] = IF t = s THEN [server[t] EXCEPT !.pc = "serving"]
                                                 ELSE server[t]
    BY <1>0, <1>6 DEF Serve, StoreTypeOK
  <2>. QED
    BY <1>0, <1>6, <2>1, <2>2, OtherRInv DEF Serve
<1>7. ASSUME NEW s \in Servers, Stop(s)
      PROVE  RInv'
  <2>1. \A q \in Keys : mongo'[q] >= mongo[q]
    BY <1>0, <1>7 DEF Stop, StoreTypeOK
  <2>2. \A t \in Servers : server'[t] = server[t] \/ server'[t] = Down
    BY <1>0, <1>7 DEF Stop, StoreTypeOK
  <2>3. \A r \in Calls : call'[r].pc = "writing" => call'[r] = call[r]
    BY <1>7 DEF Stop, NoCall
  <2>. QED
    BY <1>0, <1>7, <2>1, <2>2, <2>3, OtherRInv DEF Stop
<1>8. ASSUME NEW r \in Calls, Suggest(r)
      PROVE  RInv'
  <2>1. \A q \in Keys : mongo'[q] >= mongo[q]
    BY <1>0, <1>8 DEF Suggest, AskMemory, RedisAnswers, RedisMisses, MongoAnswers, MongoFails,
                      WriteBack, WriteBackFails, StoreTypeOK
  <2>2. server' = server /\ saved' = saved
    BY <1>8 DEF Suggest, AskMemory, RedisAnswers, RedisMisses, MongoAnswers, MongoFails,
                WriteBack, WriteBackFails
  <2>3. \A x \in Calls : x # r => call'[x] = call[x]
    BY <1>0, <1>8 DEF Suggest, AskMemory, RedisAnswers, RedisMisses, MongoAnswers, MongoFails,
                      WriteBack, WriteBackFails, StoreTypeOK
  <2>4. CASE MongoAnswers(r)
    <3>1. call[r] \in [pc: {"redis", "mongo", "writing"}, server: Servers, prefix: Keys, version: Nat]
      BY <1>0, <2>4 DEF MongoAnswers, StoreTypeOK, Call
    <3>2. call'[r] = [call[r] EXCEPT !.pc = "writing", !.version = mongo[call[r].prefix]]
      BY <1>0, <2>4 DEF MongoAnswers, StoreTypeOK
    <3>3. call'[r].version = mongo[call'[r].prefix]
      BY <3>1, <3>2
    <3>. QED
      BY <1>0, <2>1, <2>2, <2>3, <2>4, <3>3, OtherRInv DEF MongoAnswers
  <2>5. CASE WriteBack(r)
    <3>1. \A q \in Keys : redis'[q] = IF q = call[r].prefix THEN call[r].version ELSE redis[q]
      BY <1>0, <2>5 DEF WriteBack, StoreTypeOK
    <3>2. call'[r].pc # "writing"
      BY <1>0, <2>5 DEF WriteBack, StoreTypeOK, NoCall
    <3>. QED
      BY <1>0, <2>1, <2>2, <2>3, <2>5, <3>1, <3>2, OtherRInv DEF WriteBack
  <2>6. CASE ~MongoAnswers(r) /\ ~WriteBack(r)
    <3>1. redis' = redis
      BY <1>8, <2>6 DEF Suggest, AskMemory, RedisAnswers, RedisMisses, MongoFails, WriteBackFails
    <3>2. call'[r].pc # "writing"
      BY <1>0, <1>8, <2>6 DEF Suggest, AskMemory, RedisAnswers, RedisMisses, MongoFails,
                              WriteBackFails, StoreTypeOK, NoCall, Call
    <3>. QED
      BY <1>0, <2>1, <2>2, <2>3, <3>1, <3>2, OtherRInv
  <2>. QED
    BY <2>4, <2>5, <2>6
<1>9. CASE UNCHANGED storeVars
  <2>1. \A q \in Keys : mongo'[q] >= mongo[q]
    BY <1>0, <1>9 DEF storeVars, StoreTypeOK
  <2>. QED
    BY <1>0, <1>9, <2>1, OtherRInv DEF storeVars
<1>10. CASE Snapshot
  <2>1. /\ saved' = redis /\ redis' = redis /\ mongo' = mongo /\ call' = call
        /\ \A t \in Servers :
             server'[t] = [server[t] EXCEPT !.kept = (server[t].pc = "serving" /\ server[t].calm)]
    BY <1>10 DEF Snapshot
  <2>2. ASSUME NEW t \in Servers
        PROVE  /\ server'[t].pc = server[t].pc /\ server'[t].records = server[t].records
               /\ server'[t].next = server[t].next /\ server'[t].calm = server[t].calm
               /\ server'[t].kept = (server[t].pc = "serving" /\ server[t].calm)
    <3>1. server[t] \in Server
      BY <1>0 DEF StoreTypeOK
    <3>. QED
      BY <2>1, <3>1 DEF Server
  <2>3. ASSUME NEW t \in Servers
        PROVE  InSnapshot(t)'
    <3>1. ASSUME server[t].pc = "serving", server[t].calm,
                 NEW i \in DOMAIN server[t].records, NEW p \in Keys, NEW v \in Nat,
                 server[t].records[i] = [prefix |-> p, version |-> v]
          PROVE  redis[p] = Absent \/ redis[p] >= v
      <4>1. server[t].records \in Seq(Record) /\ server[t].next \in Nat
        BY <1>0 DEF StoreTypeOK, Server
      <4>2. server[t].next > Len(server[t].records)
        BY <3>1 DEF RInv, AllSent
      <4>3. i < server[t].next
        BY <3>1, <4>1, <4>2
      <4>. QED
        BY <3>1, <4>3 DEF RInv, Refreshed, NotOlderInRedis
    <3>2. /\ server'[t].pc = server[t].pc /\ server'[t].records = server[t].records
          /\ server'[t].kept => server[t].pc = "serving" /\ server[t].calm
      BY <2>2
    <3>. QED
      BY <2>1, <3>1, <3>2 DEF InSnapshot
  <2>. QED
    BY <1>0, <2>1, <2>2, <2>3, VolumeRInv
<1>11. CASE RedisRestarts
  <2>1. /\ saved' = saved /\ redis' = saved /\ mongo' = mongo /\ call' = call
        /\ \A t \in Servers :
             server'[t] = [server[t] EXCEPT !.calm = server[t].calm /\ server[t].kept]
    BY <1>11 DEF RedisRestarts
  <2>2. ASSUME NEW t \in Servers
        PROVE  /\ server'[t].pc = server[t].pc /\ server'[t].records = server[t].records
               /\ server'[t].next = server[t].next /\ server'[t].kept = server[t].kept
               /\ server'[t].calm = (server[t].calm /\ server[t].kept)
    <3>1. server[t] \in Server
      BY <1>0 DEF StoreTypeOK
    <3>. QED
      BY <2>1, <3>1 DEF Server
  <2>3. \A t \in Servers : InSnapshot(t)'
    BY <2>1, <2>2, StaysInSnapshot
  <2>. QED
    BY <1>0, <2>1, <2>2, <2>3, VolumeRInv
<1>. QED
  BY <1>1, <1>2, <1>3, <1>4, <1>5, <1>6, <1>7, <1>8, <1>9, <1>10, <1>11 DEF StoreNext, Loading

LEMMA RInvRefreshes == RInv => RestartRefreshes
<1>. SUFFICES ASSUME RInv, NEW s \in Servers, server[s].pc = "serving", server[s].calm,
                     NEW i \in DOMAIN server[s].records
              PROVE  Answer(s, server[s].records[i].prefix) >= server[s].records[i].version
  BY DEF RestartRefreshes
<1>. DEFINE p == server[s].records[i].prefix
            v == server[s].records[i].version
<1>1. /\ server[s].records \in Seq(Record) /\ server[s].records[i] \in Record
      /\ Len(server[s].records) \in Nat /\ server[s].next \in Nat /\ i \in Nat
      /\ i <= Len(server[s].records)
  BY DEF RInv, StoreTypeOK, Server
<1>2. p \in Keys /\ v \in Nat /\ server[s].records[i] = [prefix |-> p, version |-> v]
  BY <1>1 DEF Record
<1>3. i < server[s].next
  BY <1>1 DEF RInv, AllSent
<1>4. NothingOlder(p, v) /\ NotOlderInRedis(p, v)
  BY <1>2, <1>3 DEF RInv, Refreshed
<1>5. CASE \E j \in InMemory(s) : server[s].records[j].prefix = p
  <2>. DEFINE k == CHOOSE j \in InMemory(s) : server[s].records[j].prefix = p
  <2>1. k \in InMemory(s) /\ server[s].records[k].prefix = p
    BY <1>5
  <2>2. InMemory(s) \subseteq 1..Len(server[s].records)
    BY <1>1, StoreAssumption DEF InMemory, Smaller
  <2>3. DOMAIN server[s].records = 1..Len(server[s].records)
    BY <1>1
  <2>. HIDE DEF k
  <2>4. k \in DOMAIN server[s].records
    BY <2>1, <2>2, <2>3
  <2>5. k = i
    BY <2>1, <2>4 DEF RInv, Distinct
  <2>6. Memory(s, p) = v
    BY <1>5, <2>5 DEF Memory, k
  <2>. QED
    BY <1>2, <2>6 DEF Answer, Absent
<1>6. CASE ~\E j \in InMemory(s) : server[s].records[j].prefix = p
  <2>1. Memory(s, p) = Absent
    BY <1>6 DEF Memory
  <2>. QED
    BY <1>4, <2>1 DEF Answer, NothingOlder, NotOlderInRedis
<1>. QED
  BY <1>5, <1>6

\* Tiers, servers and requests keep their types.
THEOREM StoreTypes == StoreSpec => []StoreTypeOK
BY InitTypes, NextTypes, PTL DEF StoreSpec

\* Whatever is evicted, fails, comes late, or is brought back by a restart of
\* Redis from a snapshot taken since it serves, a server that was started with
\* nothing older on its way to Redis, and stored all it fetched, never answers a
\* prefix it fetched with less than the collection had then.
THEOREM Refreshes == StoreSpec => []RestartRefreshes
BY InitRInv, NextRInv, RInvRefreshes, PTL DEF StoreSpec
=============================================================================
