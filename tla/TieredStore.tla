----------------------------- MODULE TieredStore -----------------------------
(***************************************************************************)
(* The serving side of the autocomplete: API servers that answer from      *)
(* their memory, from the Redis they share, or from the collection in      *)
(* MongoDB, in this order.  What the collection alone answered is written  *)
(* to Redis behind the answer.  A server that starts loads the best        *)
(* prefixes into both.  Seedings go on meanwhile.                          *)
(*                                                                         *)
(* The completions of a prefix are known by their version: 0 before the    *)
(* first seeding (no document: an empty answer), one more each time a      *)
(* seeding changes them.  Which prefixes have the highest frequencies is   *)
(* left open.                                                              *)
(***************************************************************************)
EXTENDS Integers, FiniteSets, Sequences, Functions

CONSTANTS
  Keys,         \* prefixes
  Servers,
  Calls,        \* requests at a time, with the goroutines they leave behind
  MemUnits, RedisUnits,
  PipelineSize, \* records in one exchange with Redis
  MaxVersion    \* bound: versions of a document

\* What Init insists on, and the constants it is called with.
ASSUME StoreAssumption ==
  /\ IsFiniteSet(Keys)
  /\ MemUnits \in Nat /\ RedisUnits \in Nat /\ MemUnits < RedisUnits
  /\ PipelineSize \in Nat \ {0}

VARIABLES
  mongo,         \* prefix -> version
  redis,         \* prefix -> version, or Absent
  saved,         \* the last snapshot of Redis on its volume
  server,        \* server -> [pc, records, next, calm, kept]
  call           \* request -> [pc, server, prefix, version]

storeVars == <<mongo, redis, saved, server, call>>

-----------------------------------------------------------------------------
Absent == -1

Record == [prefix: Keys, version: Nat]

\* records: what GetTopPrefixes returned; next: the first of them that is not in
\* the pipeline yet.  calm (history): when they were fetched nothing older was
\* on its way to Redis, no exchange of theirs has failed, and Redis has not been
\* restarted from a snapshot that may be from before they were stored.  kept
\* (history): it has been saved since.
Server == [pc: {"down", "loading", "serving"}, records: Seq(Record),
           next: Nat \ {0}, calm: BOOLEAN, kept: BOOLEAN]

\* Where a request is: about to ask Redis, about to ask MongoDB, or answered
\* from MongoDB with its goroutine about to write to Redis.
Call ==
  [pc: {"idle"}] \cup
  [pc: {"redis", "mongo", "writing"}, server: Servers, prefix: Keys, version: Nat]

StoreTypeOK ==
  /\ mongo \in [Keys -> Nat]
  /\ redis \in [Keys -> Nat \cup {Absent}]
  /\ saved \in [Keys -> Nat \cup {Absent}]
  /\ server \in [Servers -> Server]
  /\ call \in [Calls -> Call]

Down == [pc |-> "down", records |-> <<>>, next |-> 1, calm |-> FALSE, kept |-> FALSE]

NoCall == [pc |-> "idle"]

StoreInit ==
  /\ mongo = [p \in Keys |-> 0]
  /\ redis = [p \in Keys |-> Absent]
  /\ saved = [p \in Keys |-> Absent]
  /\ server = [s \in Servers |-> Down]
  /\ call = [r \in Calls |-> NoCall]

-----------------------------------------------------------------------------
(* The seeder and Redis *)

\* A batch of a seeding inserts the document, or puts the merged completions in it.
SeedPrefix(p) ==
  /\ mongo[p] < MaxVersion
  /\ mongo' = [mongo EXCEPT ![p] = @ + 1]
  /\ UNCHANGED <<redis, saved, server, call>>

\* Entries do not expire; Redis drops the least frequent one when it is full.
Evict(p) ==
  /\ redis[p] # Absent
  /\ redis' = [redis EXCEPT ![p] = Absent]
  /\ UNCHANGED <<mongo, saved, server, call>>

\* Redis saves itself to its volume now and then.
Snapshot ==
  /\ saved' = redis
  /\ server' = [s \in Servers |->
                  [server[s] EXCEPT !.kept = (server[s].pc = "serving" /\ server[s].calm)]]
  /\ UNCHANGED <<mongo, redis, call>>

\* After a crash it is started again and has what was saved last; whatever came
\* after is lost, and what had been there before is back.
RedisRestarts ==
  /\ redis' = saved
  /\ server' = [s \in Servers |-> [server[s] EXCEPT !.calm = server[s].calm /\ server[s].kept]]
  /\ UNCHANGED <<mongo, saved, call>>

-----------------------------------------------------------------------------
(* Init *)

Smaller(m, n) == IF m < n THEN m ELSE n

Documents == {p \in Keys : mongo[p] > 0}

\* The documents of the best prefixes in order, RedisUnits of them or all there
\* are.
TopPrefixes ==
  LET n == Smaller(RedisUnits, Cardinality(Documents))
  IN  {[i \in 1..n |-> [prefix |-> order[i], version |-> mongo[order[i]]]] :
         order \in {f \in [1..n -> Documents] : IsInjective(f)}}

\* The records of server s that Redis does not have from it yet.
Unsent(s) ==
  IF server[s].pc = "loading"
  THEN {server[s].records[i] : i \in server[s].next..Len(server[s].records)} ELSE {}

UpToDate(record) == record.version = mongo[record.prefix]

\* Nothing on its way to Redis is older than the collection.
NothingOldUnderWay ==
  /\ \A s \in Servers : \A record \in Unsent(s) : UpToDate(record)
  /\ \A r \in Calls : call[r].pc = "writing" => UpToDate(call[r])

\* A server reads the records and takes the first of them into its memory.
FetchRecords(s) ==
  /\ server[s].pc = "down"
  /\ \E records \in TopPrefixes :
       server' = [server EXCEPT ![s] = [pc |-> "loading", records |-> records, next |-> 1,
                                        calm |-> NothingOldUnderWay, kept |-> FALSE]]
  /\ UNCHANGED <<mongo, redis, saved, call>>

\* The pipeline is sent when it is full and at the last record.
PipelineEnd(s) == Smaller(server[s].next + PipelineSize - 1, Len(server[s].records))

InPipeline(s) == server[s].next..PipelineEnd(s)

\* Redis after the records of s with the numbers in I.
Stored(s, I) ==
  [p \in Keys |->
     IF \E i \in I : server[s].records[i].prefix = p
     THEN server[s].records[CHOOSE i \in I : server[s].records[i].prefix = p].version
     ELSE redis[p]]

Flush(s) ==
  /\ server[s].pc = "loading" /\ server[s].next <= Len(server[s].records)
  /\ redis' = Stored(s, InPipeline(s))
  /\ server' = [server EXCEPT ![s].next = PipelineEnd(s) + 1]
  /\ UNCHANGED <<mongo, saved, call>>

\* An exchange that fails may have stored a part; it is logged and no more.
FlushFails(s) ==
  /\ server[s].pc = "loading" /\ server[s].next <= Len(server[s].records)
  /\ \E I \in SUBSET InPipeline(s) : redis' = Stored(s, I)
  /\ server' = [server EXCEPT ![s].next = PipelineEnd(s) + 1, ![s].calm = FALSE]
  /\ UNCHANGED <<mongo, saved, call>>

\* Mutation: the last exchange is left out.
ServeEarly(s) ==
  /\ server[s].pc = "loading" /\ server[s].next >= Len(server[s].records)
  /\ server' = [server EXCEPT ![s].pc = "serving"]
  /\ UNCHANGED <<mongo, redis, saved, call>>

\* Init returns and the server listens.
Serve(s) ==
  /\ server[s].pc = "loading" /\ server[s].next > Len(server[s].records)
  /\ server' = [server EXCEPT ![s].pc = "serving"]
  /\ UNCHANGED <<mongo, redis, saved, call>>

\* The process ends, its memory and its requests with it.  What a goroutine has
\* sent to Redis may still be stored.
Stop(s) ==
  /\ server[s].pc # "down"
  /\ server' = [server EXCEPT ![s] = Down]
  /\ call' = [r \in Calls |->
                   IF call[r].pc \in {"redis", "mongo"} /\ call[r].server = s
                   THEN NoCall ELSE call[r]]
  /\ UNCHANGED <<mongo, redis, saved>>

-----------------------------------------------------------------------------
(* Suggest *)

\* The first MemUnits records.
InMemory(s) == 1..Smaller(MemUnits, Len(server[s].records))

Memory(s, p) ==
  IF \E i \in InMemory(s) : server[s].records[i].prefix = p
  THEN server[s].records[CHOOSE i \in InMemory(s) : server[s].records[i].prefix = p].version
  ELSE Absent

\* A prefix in memory is answered and changes nothing; another one is looked up.
AskMemory(r, s, p) ==
  /\ call[r].pc = "idle" /\ server[s].pc = "serving"
  /\ Memory(s, p) = Absent
  /\ call' = [call EXCEPT ![r] = [pc |-> "redis", server |-> s, prefix |-> p, version |-> 0]]
  /\ UNCHANGED <<mongo, redis, saved, server>>

\* What is in Redis is the answer.
RedisAnswers(r) ==
  /\ call[r].pc = "redis" /\ redis[call[r].prefix] # Absent
  /\ call' = [call EXCEPT ![r] = NoCall]
  /\ UNCHANGED <<mongo, redis, saved, server>>

\* A miss; and an error, or no answer within 50 ms, is a miss too.
RedisMisses(r) ==
  /\ call[r].pc = "redis"
  /\ call' = [call EXCEPT ![r].pc = "mongo"]
  /\ UNCHANGED <<mongo, redis, saved, server>>

\* The collection answers, with nothing for a prefix it does not have, and a
\* goroutine is left to write the answer to Redis.
MongoAnswers(r) ==
  /\ call[r].pc = "mongo"
  /\ call' = [call EXCEPT ![r].pc = "writing", ![r].version = mongo[call[r].prefix]]
  /\ UNCHANGED <<mongo, redis, saved, server>>

MongoFails(r) ==
  /\ call[r].pc = "mongo"
  /\ call' = [call EXCEPT ![r] = NoCall]
  /\ UNCHANGED <<mongo, redis, saved, server>>

\* Whatever is in Redis by now.
WriteBack(r) ==
  /\ call[r].pc = "writing"
  /\ redis' = [redis EXCEPT ![call[r].prefix] = call[r].version]
  /\ call' = [call EXCEPT ![r] = NoCall]
  /\ UNCHANGED <<mongo, saved, server>>

WriteBackFails(r) ==
  /\ call[r].pc = "writing"
  /\ call' = [call EXCEPT ![r] = NoCall]
  /\ UNCHANGED <<mongo, redis, saved, server>>

-----------------------------------------------------------------------------
Loading(s) == FetchRecords(s) \/ Flush(s) \/ FlushFails(s) \/ Serve(s)

Suggest(r) ==
  \/ \E s \in Servers, p \in Keys : AskMemory(r, s, p)
  \/ RedisAnswers(r) \/ RedisMisses(r) \/ MongoAnswers(r) \/ MongoFails(r)
  \/ WriteBack(r) \/ WriteBackFails(r)

StoreNext ==
  \/ \E p \in Keys : SeedPrefix(p) \/ Evict(p)
  \/ Snapshot \/ RedisRestarts
  \/ \E s \in Servers : Loading(s) \/ Stop(s)
  \/ \E r \in Calls : Suggest(r)

StoreSpec == StoreInit /\ [][StoreNext]_storeVars

-----------------------------------------------------------------------------
(* Properties *)

\* What a request to s that nothing disturbs is told of p.
Answer(s, p) ==
  IF Memory(s, p) # Absent THEN Memory(s, p)
  ELSE IF redis[p] # Absent THEN redis[p] ELSE mongo[p]

\* Restarting the API refreshes what it loads.  Nothing invalidates an entry, but
\* a server that was started when nothing older was on its way to Redis, and
\* stored all it fetched, never again answers a prefix it fetched with less than
\* the collection had then, as long as Redis is not restarted from a snapshot
\* from before it served.  Evictions, failing reads, late write-backs, other
\* servers' starts, broken off or not, and restarts of Redis from a later
\* snapshot do not bring back what was there before, an empty answer among it.
RestartRefreshes ==
  \A s \in Servers :
    (server[s].pc = "serving" /\ server[s].calm) =>
      \A i \in DOMAIN server[s].records :
        Answer(s, server[s].records[i].prefix) >= server[s].records[i].version
=============================================================================
