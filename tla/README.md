# Verification of the system-design implementations

The repository is a collection of independent Go systems. Each is a small model
of a real one: a durable job queue (`jobq`), four rate limiters, a chat server, a
consistent-hashing ring, a search-autocomplete service with its seeding pipeline,
a URL shortener and a concurrent file searcher. They share no code and do not
call each other, so every system has modules of its own and nothing composes
across systems. `jobq` is by far the largest, the only distributed one and the
only one that promises anything about failures; it comes first.

## 1. The systems

| System | State | Operations | Where it is hard |
| --- | --- | --- | --- |
| jobq server | the `jobs` table: status, attempts, max_attempts, run_at, lease owner/end/token | submit, claim, ack, nack, heartbeat, retry (HTTP), reap (ticker) | concurrent statements, nack in two statements, leases that end while reports travel, tokens reset by an operator |
| jobq SDK worker | claim loop, slots, one execution and one heartbeat loop per job | poll, execute, report, heartbeat, shut down | crashes, lost and late requests and replies, timeouts, cancelled contexts |
| rate limiters (fixed window, sliding window, token bucket, leaking bucket) | a map of clients and one manager with a mutex per client, an evicting ticker | middleware (get or create, admit), evict | two requests of a new client, a manager evicted while a request holds it, time arithmetic |
| chat server | rooms, client locations, one bounded channel per client | accept, read a line, hub event, broadcast worker, writer | one hub among unbuffered channels: blocking sends, kicks of slow clients, commands of a client that is gone |
| consistent hashing | sorted ring, node map, keys per server | get, add server, remove server | wrap-around, hash collisions, keys moved under concurrent reads |
| autocomplete seeder | bucket files, per-bucket tries, channels between scanner, workers, merger | scan, split, build, merge, upsert | pipeline shutdown, partial failure, repeated seeding |
| autocomplete trie and prefix index | a tree of runes, the best completions at its shallow nodes, a map from prefixes | insert, fill the caches, suggest | cached against computed suggestions, one goroutine for each first letter |
| autocomplete three-tier store | each server's memory, a shared Redis, the collection in MongoDB | load at the start, suggest, write back | entries that nothing invalidates, writes that come late, several servers and seedings |
| autocomplete corpus tools | the current user or ngram, the totals | read a row, end a file, rank and write | groups that end in the middle of passed over rows or with a file |
| URL shortener | a table with a unique code, a generator that starts from the clock | shorten, redirect | look-up and insert in two statements, ids repeated after a restart, spellings of one URL |
| file searcher | channel of matches, wait group, semaphore | search a directory | termination, close of the channel |

### jobq

A producer posts a job (`SubmitJob`), which is a row with status `pending`. A worker
claims the first claimable row (`ClaimPendingJob`: `FOR UPDATE SKIP LOCKED`, then
status `running`, one attempt and one token more, a lease). It works under heartbeats
(`ExtendLease`) and reports success (`MarkComplete`) or failure (`MarkFailure`: reads
the attempts, then writes `dead` or a later `run_at`), all under
`status = 'running' AND lease_token = $n`. A ticker in the server returns expired
leases to the queue (`ReapExpiredLeases`). An operator puts a dead job back
(`ResetDeadJob`). What makes it correct:

- a job is executed at most `max_attempts` times between two operator retries;
- nobody takes a lease that has not ended, and an expired one can always be taken back;
- a report counts once, and only from the worker that has the job;
- the two statements of a nack decide on one and the same row;
- a job is never lost: it ends completed or dead whatever crashes.

The last two of these have exceptions in the code, described under *Findings*.

### Rate limiters

Four programs with one shape: a middleware finds or makes the object that stands for the
client's address and asks it. The buckets (token, leaking) find or create under one lock
and let idle buckets go, in a background sweep or in the next request; what makes them
correct is that a client has one account, however its buckets come and go. The windows
(fixed, sliding) take the map's lock anew for looking up, dropping and storing; what makes
them correct is that the counts are of the requests really admitted.

### Chat server

One goroutine, the hub, owns the rooms and the clients' locations. Everybody else reaches it
over unbuffered channels: the accept loop with comers, a reader per client with lines and
the departure, the broadcast workers with kicks. It answers over a bounded channel per
client that the client's writer drains. What makes it correct: the two maps agree, nobody
is in a room after leaving, and nobody waits for the hub for ever.

### File searcher

A goroutine per directory, a semaphore, a wait group and a closer. It must end, send nothing
after the close, and print every match once.

### Consistent hashing

A sorted slice of hashes and a map from hash to virtual node, behind a read-write lock. A
lookup must find the next hash clockwise; an addition may only move keys to the new server,
a removal only keys of the one that goes. The command line that ships uses it from one
goroutine; the lock is there for others.

### Autocomplete seeder

`Seed` fills the collection of prefixes from a file of phrases. The main goroutine
cuts the file into buckets of neighbouring lines by their next letter (`Scan`) and splits those that are over a
memory budget (`processBucket`); six builders turn a bucket into an index from prefixes to
their best completions; one merger puts the indexes into MongoDB in batches. They are
connected by two bounded channels, which the main goroutine closes one after the other:
the jobs, then, when the builders it knows of have ended, the results. What makes it
correct: a phrase is in one bucket, a bucket is what the budget allows, the collection ends
up with the best completions however buckets, builders and batches interleave, and the
program ends. The failures are a batch that fails half way, a killed program, and a seeding
over what an earlier one left.

### Autocomplete trie, store and corpus tools

The corpus tools turn raw logs into a file of phrases with frequencies, in one pass that
knows the current user or ngram only; they must count as if they knew all rows. `Load`
builds the trie from such a file, then the completions of the shallow nodes, one goroutine
for each first letter, and on request the prefix index. The three ways to an answer (kept,
searched, looked up) must agree, and be the best words of the file. The API does not use the
trie but the store: its memory and the Redis that all servers share are filled from the
collection when a server starts, and Redis again, behind the answer, with whatever only the
collection could answer. What makes it correct is that an answer is not older than what the
server has loaded.

### URL shortener

A request looks its URL up in a normal form and, if it is not there, inserts it under a code
from a snowflake generator. What makes it correct: a code leads to the URL it was given
for and to no other, and spellings of one URL get one code.

## 2. Modules

| Module | Models | Kind |
| --- | --- | --- |
| `JobLifecycle` | what the table promises about one job: submit, start, succeed, reschedule, bury, take back, revive | abstract specification |
| `JobStore` | `internal/storage/job.go`, the HTTP handlers, the reaper's statement | server, under completely free clients |
| `JobQueue` | `sdk/go/worker.go`, `sdk/go/client.go`, `internal/leaser/reaper.go` and the network, on top of `JobStore` | whole system |
| `IdealBucket` | what a bucket limiter promises: an account that grows, pays or refuses | abstract specification |
| `TokenBucket`, `LeakingBucket` | the two bucket limiters, lock by lock | implement `IdealBucket` |
| `WindowMiddleware` | the middleware that both window limiters have, with the counter as a parameter | instantiated by the next two |
| `FixedWindow`, `SlidingWindow` | their counters | |
| `ChatHub` | accept loop, readers, hub, broadcast workers, writers | whole system |
| `FileSearch` | `searchDir`, the closer, the main loop | whole program |
| `HashRing` | additions, removals, lookups, any hash function | component |
| `Seeder` | scan, split, builders, merger, their channels; repeated seeding | whole program |
| `Trie` | building, caching, searching, the prefix index | whole program |
| `TieredStore` | API servers, Redis and the collection | whole system |
| `Corpus` | `preprocess_aol` and `preprocess_ngrams` | whole programs |
| `Shortener` | the normal form, shortening, redirecting, restarts | whole program |
| `Backoff` | the delay of a retry in 64-bit arithmetic | numeric |
| `Sorting` | what the library's sorts return, and a filter, by counting | operators of the ring, the shortener, the seeder, the trie and the corpus tools |
| `MCRateLimiters` | any of the four limiters, on one instance | instance for TLC |
| `MCServices` | any of the four limiters, or the store | instance for TLC |
| `MCPipelines` | the searcher or the seeder, with a tree and files | instance for TLC |
| `MCSmallPrograms` | the shortener, the trie, the corpus tools or the ring | instance for TLC |
| `JobStoreProofs` | type correctness, the inductive invariant, the safety theorems, the refinement of `JobLifecycle`; the delays of `Backoff` | proofs |
| `JobQueueProofs` | the budget and the fencing in the whole system; slots and heartbeats | proofs |
| `RateLimiterProofs` | both buckets refine `IdealBucket`, bursts, the counts of both windows | proofs |
| `ChatHubProofs` | the hub's maps, departures, zero clients | proofs |
| `PipelinesProofs` | safety of the searcher; the seeder's buckets, the sizes of their indexes, their way through the channels, and the tops they are merged into | proofs |
| `TieredStoreProofs` | types of the store, and that a start refreshes | proofs |
| `SortingProofs` | what sorting and filtering keep; that counts decide a sorted sequence | lemmas for the other proofs |
| `SmallProgramsProofs` | the shortener's codes; lookups and moved keys of the ring; exact counts of the corpus tools; the suggestions of the trie | proofs |

`JobQueue` EXTENDS `JobStore` and builds each server step from an action of it.
`JobStore` INSTANCEs `JobLifecycle` with a refinement mapping (`Life`).

The programs that an MC module puts together share no state and are never run together: a
variable says which of them runs, and the others keep still. It saves runs and nothing else; every property is of one program.

### JobStore: state and actions against the code

`jobs` is the table; a row has the columns the program decides on (payload, type, last
error and `updated_at` are left out: nothing is decided on them). A SQL statement is
atomic, with two exceptions that the code really has:

- a claim holds its row locked between selecting and committing; such a claim is an
  element of `claiming`, and `ClaimSelect` / `ClaimCommit` / `ClaimAbort` are its steps;
- a nack is two statements without a transaction; one that has read and not yet written
  is an element of `nacks`, with what it read.

`claims`, `issued`, `revived` and `settled` are history: they record what was handed out
and accepted, so that properties can speak about it, and no guard reads them apart from
the bound on `revived`. (`MaxPendingNacks` reads `nacks`.) Clients are free: any claim
ever handed out may be presented again at any time, as ack, nack or heartbeat. Time is
relative: `run_at` and `lease_until` count ticks down, and `lease_until = -1` is
"before now", the only value at which the reaper acts.

### JobQueue: state and actions against the code

`loop` is where `Worker.Run` is, `exec` the executions (`execute`) by the claim they work
under, `net` the requests that the server has not taken up. A request may be taken up
after its sender has given up; a reply may be lost (`OrphanClaim`, `ReportTimeout`); a
statement may fail (`FailClaim`, `FailNAck`). `Stop` cancels the context of `Run`:
handlers see it, requests under way are abandoned, and what is reported afterwards never
leaves the process, which is what `HandlerReturns` does in a stopping worker. `Crash`
drops everything a process had.

The replies to a claim and to a heartbeat take their time, up to the timeout of the HTTP client
(`ClientTimeout`, the 10 s of `client.go:24`): a worker that is `receiving` has been handed a job
and does not know it yet, while the lease runs. A heartbeat loop (`Pulse`) asks and waits in one
goroutine. While it waits, its ticker goes on (`beat`), the ticker's channel holds one tick
(`due`), and the ticks after that are dropped, so that a heartbeat that gets no answer
holds up the next one until the client gives up (`left`). `missed` counts those that came to nothing in a row.
A tick that is in the channel is taken before time moves on, and nobody waits
longer than the timeout.

### The other systems: state and actions against the code

*Buckets.* A bucket is known by the request that created it, so that a request may hold one
that is in the map no more. A critical section is one step; the sweep of the token bucket,
which takes each bucket's mutex in turn, is one per bucket and one per drop, and the leaking
bucket's replacement is one step for the look and one for the new bucket. Amounts are whole
units with `Cost` units to a token, so that fractions add up; floating-point rounding is
left out. `admitted`, `refused` and `late` are history. The refinement mapping takes the
account of a host to be the refilled contents of its bucket, or a full one when it has none
or it is about to be dropped. That an idle bucket is full before it is dropped
(`TTL * Rate >= Capacity`) is how the flags are meant to be set; the code does not check it,
and with a shorter time a client gets its credit back early.

*Windows.* Each lock of the middleware is a step (`LookUp`, `Check`, `Drop`, `Create`, `Ask`).
`passed` and `overlap` are history. The clock counts whole seconds as `now.Unix()` does; the
same clock serves for idle times. `FixedTTL` is at least one window and `SlidingTTL` two, as
the defaults are (five minutes against five seconds).

*Chat.* `rooms` and `where` are the hub's maps, `queue` the length of each client's channel,
`workers` the broadcast workers as a bag, since two of them may be in the same state. A line
read is in flight until the hub takes it, which is one step with all the hub does up to its
reply; the reply is a state of its own, since it may wait. Go maps answer a missing key with
a zero value: `hollow` has the clients for which that value got into a room, and `Nil`
says when a reply goes to a nil channel. A reader has a buffer, so lines may come after the
connection is closed. Addresses are not reused.

*Searcher.* Directories stand for their goroutines; the order of the entries is free; the
tree does not change meanwhile.

*Ring.* `hash` is any function, chosen in `Init` and kept. The binary search is the code's
loop as a recursive function and is compared with "nearest clockwise". `Sorted` and `Without`
are stated by counting (the k-th entry has k-1 before it) and not by an algorithm, so that
theorems can be proved of them.

*Trie.* A node is its path, a sequence of code points (a map from paths for the tree of
pointers). `Tops` is the recursion from the bottom up, of `TraverseAndBuild` and of
`walkForIndex`, which spell the word at a node in their own ways: from the first letter cut
to a byte (`SpelledFromByte`), or as it is. A goroutine of `BuildCacheParallel` touches only
its own subtree until it sends, and is one step. The order in which a map is walked, or a heap gives
out equal frequencies, is an arbitrary choice.

*Store.* The completions of a prefix are a version number. `FetchRecords`, `Flush` (one full
pipeline, or the last one) and `Serve` are `Init`; a lookup is the steps `AskMemory`,
`RedisAnswers` or `RedisMisses` (which is also an error and the timeout of 50 ms), and
`MongoAnswers`, after which the request is the goroutine that writes back. An exchange that
fails has stored any part of itself; that it stores nothing later, after its client has given
up, is an assumption. Redis evicts what it likes (`allkeys-lfu`), saves itself to its volume now and then
(`docker-compose.yml:32`, with the default snapshots) and is started again after a crash with
what it saved last (`saved`, `Snapshot`, `RedisRestarts`). `calm` and `kept` are history. A server is calm
if nothing older was under way when its records were
fetched, no exchange failed since, and Redis did not go back to a snapshot that may be from before they were
stored; `kept` says that a snapshot has been taken since the server serves, from which Redis may
be started again.

*Corpus.* A row is a user and a query, or an ngram and its counts. Rows come sorted, as the raw
files are, and no user or ngram is in two files. What the filters reject is one step
(`PassOver`) that counts nothing and ends no group.

*Shortener.* A URL is a record of its parts; a name that has capitals is "H". What is looked
up and inserted is the normal form. The generator gives each id once in a run; a restart
starts it from any id. `handed` and `raced` are history.

*Seeder.* A phrase is a sequence of letters, a position in the file the number of a line, a
size the number of prefixes (`Budget` is `memoryBudget / bytesPerPrefix`). `Scan` is one
step, since nothing else writes the file; the recursion of `processBucket` is a list of
buckets still to be looked at, one step for each (`QueueBucket`, which waits for a place in
the channel, or `SplitBucket`). The wait group is the builders that have been started and
not ended (`Counted`). `Wait` returns at once if there are none, or blocks until the last of
them ends, which wakes it up; it has then still to return (`waking`), and a builder that is added
before it has (they are added by a goroutine of their own) makes it panic, as a wait group reused too early
(`WaitPanics`). A batch is looked up and written in one step, since only the merger writes the
collection; a batch is any part of the index of its size, for it comes from an unordered
map, and one that fails has written any part of itself. `Kill` ends the program anywhere and
`SeedAgain` starts it over the same file and the collection as it is. `queued`, `split`,
`unready` and `trouble` are history. Of words of equal frequency the model keeps the earlier,
where the code leaves it to its heap and sort: no property tells them apart.

## 3. Runs

| Run | Question | Instance |
| --- | --- | --- |
| `JobStore` | safety and refinement of the server | 1 job, 2 workers, budgets 1 and 2 (0 is the default), leases of 0, 1 and too long, 1 operator retry, 2 nacks pending |
| `JobQueue_faults` | how many heartbeats may be lost, and how slowly; everything ends, under fairness | 1 worker, 2 slots, 1 job, a budget of 2, heartbeats every tick with answers within 2, a lease of 7, 3 losses, 1 crash or shutdown |
| `JobQueue_slots` | concurrency limit; claim order | 2 slots, 2 jobs of 2 priorities, one without a handler, 1 operator retry, 1 loss, 1 fault |
| `Services` | one account per host, in both buckets; limit and counts for a host whose requests do not overlap, in both windows; what a start of the store refreshes | 1 host, 3 requests, a capacity of one and a half tokens, several windows; 2 servers, 2 prefixes, 1 request, pipelines of 1, 3 versions, snapshots at any time |
| `ChatHub` | membership, departures, zero clients; nobody waits for ever but in two named ways, and writers are left with nothing to write, under fairness | 2 clients, 2 rooms, channels of 1, 2 lines |
| `Pipelines` | the searcher: safety and termination; the seeder: buckets, sizes, completions after one and after repeated seedings; its pipeline drains; under fairness | 7 directories, two unreadable, 4 matches, 2 slots; 4 files of 3 to 5 lines, 2 builders, channels of 1, batches of 3 prefixes, 1 failed batch, 1 kill, 2 seedings |
| `SmallPrograms` | the shortener: codes and spellings; the trie: best completions; the corpus tools: exact counts; the ring: lookups and moved keys | 6 URLs, 2 requests, 2 ids, 1 restart, 1 failure; 6 words, 5 lines, 2 completions; 3 users, 3 queries or ngrams, 5 rows; 3 servers of 2 nodes, all hash functions into 4 values, 1 reader |
| `JobStore_stale`, `JobStore_exhausted`, `JobQueue_shutdown`, `FixedWindow_race`, `Trie_letters` | statements of the documents that the code does not keep | the smallest instance that shows it; for the trie that of `SmallPrograms` |

Bounds and why they are enough: two claims of one job with an operator retry between
them are what it takes to repeat a token, so `MaxRevivals = 1`; two nacks between their
statements are what it takes for one to decide on what the other changed; a lease of seven covers the interval
before a heartbeat, the answer to the claim that comes as late as it may, and two heartbeats lost
as slowly as may be (1 + 2 + 2 * 2), and the third loss exceeds it; the answers take longer than the interval, so that ticks are dropped.
Lost or late messages and one crash reach every
exit of the worker's loops. `FirstComeFirstStarted` is about claims that do not overlap,
since a claim passes over rows that another has locked: the one worker of `JobQueue_slots`
has one claim at a time. The number of claims is finite by the budget itself. Every theorem of
section 5 is free of these bounds.

Hosts do not interact in the limiters (they share only the map's mutex), so one is enough;
three requests give one that holds an old bucket or manager, one that replaces it and one
that finds the new one. The clock of the windows starts far enough from the epoch that the
window 0 of a new counter is not the current one, as it is in the code. A channel of one
message is full as soon as a broadcast or reply is in it, so that kicks and waits happen
with two clients; a third client adds broadcasts of the same kind and was left out for its
states. The two lines may be of one client, read together, which is what lets one follow its
kick, or one of each. Seven directories give depth, breadth and two unreadable ones, as many as
there are slots: slots that were not given back would all be gone. Four hash values for six nodes force coinciding hashes, wrap-around
and rings with a gap in every combination. The first file of the seeder is
sorted, the others are in the order of frequencies in which the corpus tools write; together
they split buckets, twice, for nothing, and past a phrase that is a bucket's own prefix, have a prefix with
two buckets, a line that does not parse, a tie, and a phrase too short for its bucket between
two that are in it. The file that ends up in one bucket fits
into a channel, so that everything may be queued before a builder is started.
Channels of one place are full as soon as the next stage is busy. One failed batch and one
kill, in either seeding, are each enough for a collection that is partly seeded.

Two requests are what it takes to race for a URL, and two ids with a restart to repeat one.
In the store, two servers, one with two records to load in two exchanges, one request and three versions
(no document, and two seedings) give a load broken off between two exchanges, one undone
by another server's, and a write-back that comes after both; evictions, snapshots and restarts of
Redis may come at any time, so that a snapshot may be from before, between or after them. Prefixes are told
apart by nothing but themselves, and so are servers: the run treats either as symmetric. The
words of the trie have one inside another, two under one node, more under a node than are
kept, and a first letter that is not ASCII; the caches end above the deepest words. Five rows
give two groups with a passed over row in each and a file that ends between them.

## 4. Fairness

`EveryJobEnds` is the one liveness property of jobq. It assumes that time passes, that the
reaper's ticker fires (`Reaper.Start` loops until the server stops), that the server
takes up requests that have arrived and finishes statements, that handlers return (they
get a context with `JobTimeout`; a handler that ignores it for ever keeps its slot for
ever), that heartbeat loops run, that what the server answers arrives if it is not lost
or too late, that a client that gets no answer times out
(`http.Client.Timeout`, 10 s), and that a worker process that ended is started again. It
does not assume that any message arrives, that a claim or a report succeeds or that the
claim after a crash goes well: faults are never required to stop, they are only counted.
Submission and the operator's retry are never fair.

`EverybodyIsServed` assumes that the hub, the readers, the writers, the broadcast workers and
the accept loop go on whenever they can (goroutines are scheduled), that is weak fairness of
each. `select` picks among the ready channels at random, so no sender is passed over for
ever; in the model lines and clients are finitely many, and weak fairness of the hub as a
whole is enough. Nobody need connect, type or hang up, and a write may fail or succeed.
`SearchEnds` assumes the same of each directory's goroutine, the closer and the main loop, and
`SeedingEnds` of the main goroutine (a `Wait` that has been woken returns), the merger and each builder, whose start included: the
loop that starts the builders goes on. The database answers every batch in the end, if only
with an error. A kill and a second seeding are never required.

## 5. Proofs

Every theorem is for any number of clients, workers, jobs, hosts, servers, nodes, lines and
files, any limits and any bound of section 3; what it assumes of the constants is the named
assumption of its module. TLC evaluates these assumptions in the runs. Theorems with a
hypothesis besides say so below.

### jobq (`JobStoreProofs`, `JobQueueProofs`)

From `StoreAssumption` and `QueueAssumption`. `StoreAssumption` is what `config.Load`
guarantees of the configuration, and that the ids are finite.

The safety properties are not inductive alone. That an accepted report comes from the
last claim needs that an equal token means the last claim; that needs how tokens grow
with claims (`ClaimsOK`: the distance of a claim from the last one of its job is the
distance of its token from the row's, since the last operator retry), which needs that
the token counts the attempts and that attempts stay within the budget (`RowsOK`), which
needs that a row picked by a claim is still claimable when the claim commits
(`LockedRowStaysClaimable`). `IInv` is the conjunction; `JobStoreProofs` proves it inductive, one lemma per conjunct
and one step per action, and so no run repeats it.

- `Invariant`, `TypeCorrect`, `LeaseColumns` (who has a lease, and what it says), `TokensCountAttempts`, `LockedRows`,
  `FreshNacks`, `Budget`, `SettledClaims` follow from it. `Budget` counts: the claims of a job
  since a retry inject into `1..max_attempts` by their tokens.
- `Fencing`, `LiveLeases`, `BudgetEndsInBurial` are action properties: the invariant
  before a step and the step itself.
- `Refinement`: the table implements `JobLifecycle`, step by step.
- `StartOrder`: a job that has never been started stands before every younger one of no higher
  priority for good (`OrderInv`), so that a claim takes it first. Two hypotheses: submissions ask for no
  delay (a delayed job is not yet claimable), and two claims do not overlap (the second one passes over the
  row that the first has locked: that is what `SKIP LOCKED` is for). The run has both.
- `QueueKeepsBudget`: the budget and the fencing in the whole system. Every step of `JobQueue` is made of
  one of `JobStore` or leaves the table alone; with the fact that executions are of claims really
  handed out, that is a lemma (`QueueSteps`) that carries theorems over and shows nothing by itself.
- `Slots`: a poll claims only with a slot to spare, and the slot goes to the one execution that
  may come of the claim (`SlotInv`).
- `HeartbeatsHold`: a handler whose context is not done has a lease that has not ended, as long as
  `Silence <= LeaseDuration`. `Silence` is how long nobody can have renewed the lease: one
  interval, one timeout (the answer that the loop started from came late), and for every heartbeat that was missed
  or is under way the larger of the two. The invariant (`HoldInv`) has the same sum with
  the time that has passed: it relates what remains of the lease to the ticker, to the tick in its channel and to how long
  the client still waits. Two hypotheses. `RenewalsAreWhole`: the heartbeat handler grants no less than
  the worker asks for. It does by default (`RenewalsByDefault`); with a `MIN_LEASE_DURATION` below the 5 s written in
  that handler, a lease of 4 s is cut to that minimum by its first heartbeat.
  `NoRetries`: no operator has retried a job; after a retry a worker from before it
  may hold the token of a later claim, and its report or heartbeat ends or moves a lease that is
  alive (the first finding below). The run has both.
- `WrappingOnlyShortens`, for any word size, base delay, maximum and power of
  two: what the code draws after wrapping is a delay that the exact computation allows as well,
  so that what is proved and checked of jobq with `BackoffDelays` holds of it.
  `documentation/phase4.md:48` says that the capped exponent prevents a 64-bit overflow; it
  does not for a base delay of 9 s and more (9 s * 2^30 is past 2^63 ns). The theorem shows
  that the test after the product makes up for it. `InRangeIsExact` is the other side.

### Rate limiters (`RateLimiterProofs`)

- `BucketsAreIdeal`: both buckets implement `IdealBucket`, with the mapping of section 2, from
  `TokenAssumption` (in it `TTL * Rate >= Capacity`). The invariants (`TokenInv`, `LeakInv`) say
  whose bucket is whose, and that no time stamp is ahead of the clock; that a
  bucket about to be dropped is full is the arithmetic of each step.
- `BurstsAreBounded`: from any moment on, what a host was admitted and what it has left never
  exceed one capacity and the growth since then. It rests on `BucketsAreIdeal`. Requests that were
  admitted from a bucket given up meanwhile (`late`) are not counted in it.
- `FixedWindowsLimit`, `SlidingWindowsCount`: of hosts whose requests do not overlap. `MiddleInv`
  says whose manager is whose. `SerialInv` says of such a host where its request is and what it
  has found, and that no request was admitted since the last one its manager saw, nor, where the
  host has no manager or a new one, in the current window (fixed) or this and the last (sliding): that is where
  `FixedTTL >= WindowSize` and `SlidingTTL >= 2 * WindowSize` are needed. Both limiters share the proof of
  these; each adds that the counter counts what was admitted.

### Chat (`ChatHubProofs`)

`HubInv` is inductive: what a client's reader and the hub are at determines whether the hub may
know the client, whether a line or its departure may still come, and where a kick of it may
be. `HubTypes`, `RoomsStayTogether`, `Departures` and `ZeroClients` are its conjuncts.

### Searcher and seeder (`PipelinesProofs`)

The searcher is proved for any finite tree and number of slots. The
invariant has the counters count (`CountersOK`) and relates every entry of a directory to
what has become of it (`ProgressOK`): a subdirectory is started, and a match printed or
being sent, exactly when the entry was looked at. Then `closed` means that no goroutine is
live (`ClosedLast`, `NoPanic`), the open directories hold the slots (`Throttled`), and at the
end the directories searched are a set closed under subdirectories, so they are all that
can be reached (`Complete`).

`EveryLine` is about the seeder and any files of phrases of any letters. One scan of lines that all fit the
bucket's prefix (`ScanCuts`) gives buckets in line, whose lines fit one letter more, and passes
over no line that has such a letter: between two lines that open a child all agree with the
first, by the least one that would not. `LineInv` then says that the pending buckets are in line and after
the queued ones, that no two queued ones overlap, and that every phrase is in one, or in a split
one that it was too short for.

`Tops` and `FirstPlace` rest on it. `SeedInv` adds where each queued bucket is that has not been merged (`Way`):
among the jobs, with one builder that has not sent its index, among the results, or in the merger's hands,
and in no two of these (`Placed`); the index on the way is the index of that bucket (`Carried`). The collection
is then right for the rest (`Right`): for each prefix it has the best of the phrases merged, and after an
earlier run at least nothing that is merged is ahead of the first place. An index arrives in batches, so that
what is merged is said prefix by prefix (`Merged`): the bucket in the merger's hands counts for the prefixes
that its index has no longer. A merge of two lists of the best of sets that share nothing is the list of the best of
both (`MergedIsBest`): K entries that are no less than a word leave no room for one that is less (`NoneIsLess`,
by counting places). The sets share nothing as the buckets do not overlap (`PartsDiffer`), and that is where
`EveryLine` comes in. `Phases` says that a builder that was waited for has left nothing behind, so that a complete
run has merged all it queued (`NothingLeft`).

`WithinBudget` needs less than that: every bucket was found by some scan of lines that fit a prefix (`SizeInv`),
and a queued one was within the budget. The rest is about one child (`SizeOfChild`). Its prefixes are those of
its own prefix, as its lines all go on from that (`SizeOfAll`), and longer ones, each of which is new in the first
line that has it (`FirstIsNew`), since the line before cannot agree so far; so there are no more than were counted
(`LongAreCounted`). In order, a line between two that agree in their first letters agrees with them (`Between`), so
nothing is new twice (`NewIsFirst`), and the count is exact. That the longest common prefix is as long as
two words agree is `CommonLength`.

### Store (`TieredStoreProofs`)

`RestartRefreshes` is proved for any number of servers, prefixes and requests,
any pipeline size and any seedings, from `StoreAssumption`. Alone it is not inductive: that no older entry
comes back after a calm load needs that nothing older can be on its way, for every prefix
and version that the load has in Redis already. `RInv` says this of each server (`Refreshed`): what
is loaded and below `next` is in Redis as new, or evicted, and no unsent record of any server and
no write-back is older (`NothingOlder`), nor anything in a snapshot taken since the server serves
(`InSnapshot`), which is what Redis comes back with. It also needs that the records of a load are of different
prefixes (`Distinct`), and that a server serves only when all are sent (`AllSent`). `StoreTypes`
is its type invariant.

### Shortener, ring, corpus tools and trie (`SmallProgramsProofs`, `SortingProofs`)

`CodesLead`: codes are unique in the table (`CodesAreUnique`) and what was handed out is stored
(`HandedIsStored`). The proof uses nothing of the generator; the unique column does all the
work.

`OneCode` has a static half and a dynamic one. The normal forms of two plain URLs are equal
exactly when their meanings are: sorting changes no count (`CountsStay`), and two sorted sequences with equal
counts are equal, since an initial stretch of each is below any value (`CountsDecide`). The order of
pairs is total only because it compares values where keys are equal, which is what `sort.Strings(vals)` is
for. And the table has one row for each normal form that no two requests missed together
(`OneOfEach`), since a request that inserts has missed it and is the only one to.

`MapAndRing`: the ring is sorted and has the hashes of the map (`RingInv`), through additions that
overwrite nodes of others and removals that take them. `Lookups`: the loop of the binary search keeps an
interval with a smaller hash before and none after, and what it ends at is the least hash not below
the key or, past the end, the first; that is the least clockwise distance. As the distance does not
depend on how often a hash is in the ring, lookups depend on the set of hashes alone, and
`Arrivals` and `Partings` compare the nearest of a set and of a smaller one.

`Corpora` is about the corpus tools, of which either remembers one group at a time. `AolInv` and `NgramInv`
say that the totals are the count over all rows read but those of the current user or ngram
(`VotesOf`, `TotalsOf`), that the group has the rest, and that all other groups are behind (`UsersInOrder`,
`NgramsInOrder`): a group that has ended never returns, also not in the next file. So a flush, in the middle
or at the end of a file, makes the count full (`UserIsFlushed`, `NgramIsFlushed`). What comes out
is sorted and cut as it should be (`RankingIsExact`), as no two items have the same phrase. From
`CorpusAssumption` and a hypothesis that TLC cannot evaluate, `ScoresAreIntegers`:
`scoreAndFilter` rounds.

`Suggestions` is proved from `TrieAssumption` (words are not empty, frequencies are integers, K is not 0), for any file.
Everything speaks of one relation: a list is the best of a set (`BestOf`) if it has K of it, or all, once
each and in order, and nothing outside is better. The heap of a search keeps that for the
candidates it has seen (`Heaped`), a merge for what it has taken from its lists (`Merging`): a list
that is used up gave K entries, and then it does not matter what it was the best of, or it had all
(`MergeIsBest`, with `Pigeons`). That the lists are of sets that share nothing is where the shape of the tree comes in:
a word under a node is the node's own or under one child (`NodesAreNested`). So a node is right if its children are
(`NodeIsBest`), and all are, by the deepest that would not be (`TopsAreBest`).
`TInv` says what the nodes and the channel hold while the goroutines run: of the words as each goroutine spells them, which
is one spelling for one word under one letter in any case. Only the root mixes letters. With ASCII letters the
spelling is the word (`Spelling`), the letters that were sent are all the root has, each once, and
the root is right too (`RootOfAll`).

### Only model-checked

Liveness and what rests on fairness is out of the prover's reach: `EveryJobEnds`, `EverybodyIsServed`,
`WritersAreLeftIdle`, `SearchEnds`, `SeedingEnds`. Every safety property of a passing run has a theorem.
The library's induction theorems take an operator as a parameter, which no installed prover
instantiates: where a proof needs induction (the ring's search, the trie's recursion over its nodes, a merge,
a heap), it goes by a least counterexample (`LeastOfNaturals`), also to show that a recursive
function exists (`TopsAreThere`, `MergeIsThere`, `HeapIsThere`). The type
invariants that no theorem proves (of `JobQueue`, the limiters, the seeder, the ring,
the trie and the shortener) document the state; the runs spend their properties on others.

## 6. Findings

- **Tokens repeat after an operator retry** (`JobStore_stale`). `ResetDeadJob` sets
  `lease_token = 0`, against the "monotonic integer" of `documentation/phase3.md`. A worker
  from before the retry is accepted in the name of a later claim. `FencedWithinRevival` is
  what the code does keep.
- **Exhausted jobs can be stranded** (`JobStore_exhausted`). The reaper returns a job
  without attempts left to `pending`, where no claim takes it. `OnlyTheReaperStrands`
  proves that this is the only way there, and `EveryJobEnds` says that it is the only way for
  a job not to end.
- **Shutdown loses the outcome of running jobs** (`JobQueue_shutdown`).
- **Two first requests of a host get a counter each** (`FixedWindow_race`; the sliding window
  has the same middleware). `SerialWindowLimit` is what holds.
- **A first letter outside ASCII is cut to a byte** (`Trie_letters`). `BuildCacheParallel` starts
  from `[]byte{byte(key)}`: what the nodes under such a letter keep is not what a search of them
  finds. `SuggestionsAreBest` holds of the kept answers where first letters are ASCII, and
  of the prefix index everywhere.

Met on the way, in the model or in reading, and without a run of their own:

- A heartbeat that asks for more than 600 s gets the configured maximum, which may be more
  than the "Max 10 minutes per heartbeat" of the comment (`HeartbeatLease`).
- A request that found its token bucket before the evictor dropped it draws from a bucket that
  the host has no more (`late` counts them). `ImplementsIdeal` holds of the bucket that stands
  for the host.
- The sliding window estimates and rounds in favour of the client, so that a stretch of one
  window size may admit more than the limit; `CountsAreTrue` is what the estimate is made of.
- The SDK and the notes (`src/sdk/go/worker.go:56`, `src/notes.md:5`, `documentation/phase3.md:158`) take a third of the
  lease for the heartbeat interval and do not speak of the timeout of the client, 10 s whatever the lease. With the
  defaults (30 s and 10 s) the lease covers one heartbeat that is under way or was lost, and no second one. A lease
  of 6 s renewed every 2 s covers none: while one heartbeat waits for an answer that does not come, the lease ends, the
  reaper takes the job back and another worker starts it. `LeaseOutlivesLostHeartbeats` is what holds.
- The hub waits for slow clients (a reply is a plain send), against `prodcut_spec.md:19`, and
  for ever when the client's writer has given up or the client has no entry;
  `EverybodyIsServed` says that it waits for ever in no other way.
- A kick deletes the client's location, so that its departure is told to nobody, and no
  statement closes a client's channel, so that its writer stays.
- `RemoveServer` filters the ring by hash and takes the nodes of other servers that share one:
  with 100 virtual nodes, `Server_760#VN_91` and `Server_1065#VN_57` do.
  `DeparturesOnlyGive` is what holds.
- `Get` reads the length of the ring before the read lock, and may index a ring emptied in
  between (`crashed`).
- Seeding a file twice is said to be safe, "no duplicates or drift"
  (`src/search_autocomplete/README.md:279`). `mergeTop` puts the completions that are there
  and those that come together without comparing words, so a word is in a top twice and
  pushes another out. `RerunsKeepTheFirst` is what holds: the first place is right.
- A phrase that is the prefix of a bucket that was split is passed over by `Scan` and comes
  into no index at all (`EveryLineHasItsBucket`, `Indexed`).
- The builders are started by a goroutine of their own. If none was started by the time the
  main goroutine waits for them, the wait is over at once; then the program ends with buckets
  unread or in a send on a closed channel (`unready`). If those that were started have ended and the next is
  added before `Wait` has returned, `Wait` panics (`reused`). `SeedingEnds` says that a seeding breaks off
  in no other way. The merger ignores the error of a merge.
- The seeder's README and comments expect a sorted file; the corpus tools write it in the
  order of frequencies. A prefix then has a bucket for each stretch of neighbouring lines. The
  seeder merges their indexes and is right in the end (`TopsAreTheBest`), only with more
  buckets than there are letters.
- Nothing invalidates an entry of the store. A prefix that no start loads, among them one that
  had no completions when it was asked for, is answered as it was for as long as Redis keeps it,
  whatever has been seeded since; and a write-back under way when a server starts may put an
  old entry over a new one. After a crash Redis has what it saved last: entries from before the last start of the
  API are back, and a server that goes on serving answers prefixes beyond its memory with them until it is
  restarted. `RestartRefreshes` is what holds.
- The shortener inserts without looking again, and takes an error of the lookup for a miss: one
  URL may get several codes (`raced`). A URL without a scheme is not normalised beyond getting
  one (its host is in its path). Of an IPv6 literal with a default port, the host is cut at its
  first colon and is "[", so that two such URLs share a code (`CutHost`).
- `src/search_autocomplete/README.md:72` says that kept answers differ from searched ones for exact words. They do
  not any more: `DFS` begins with the word at the node itself, as the model has it.
- `src/search_autocomplete/README.md:235` lets the ngrams be lowercased; `preprocess_ngrams` does not. In
  `preprocess_aol`, a first counted row with an empty user writes to a map that nobody made; the logs have no such row, nor
  has the model.
- `main` of three of the limiters defines flags and never parses them; `DELETE /v1/jobs/{id}`
  answers "cancelled" and changes nothing; `GetQueueStats` goes on after its not-found answer;
  `documentation/phase2.md` still expects the status `failed`, which no statement writes.

## 7. Not modelled

jobq: reading endpoints, formatting, logging, configuration parsing and database set-up,
which change no state; `MarkDead` and `CancelJob` of the store, which have no caller. Database failures other than "the statement did not
happen" are not modelled: the connection pool of pgx is external, and a commit whose
reply is lost is `OrphanClaim` for a claim and `ReportTimeout` for a report.

Others: floating-point rounding in the limiters; the shutdown of the chat server, which
`main` never triggers; what a chat message says; the command lines and charts of the ring;
the filters and the score of the corpus tools, their raw mode, which counts every row, and
`mem_est`, which measures memory; the HTTP front of the autocomplete, a read of the store; the
seeder's drawing of its recursion; opaque URLs (`mailto:`) in the shortener.

## 8. Plan

Done: every program of the repository that keeps state, with the proofs of section 5. Left: a
chat with three clients, and a store whose failed exchanges with Redis may store late.
