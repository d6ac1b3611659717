------------------------------- MODULE Seeder -------------------------------
(***************************************************************************)
(* The seeder of the autocomplete index.  A file of phrases is cut into    *)
(* buckets of neighbouring lines that fit a budget; builders turn each     *)
(* bucket into an index from prefixes to their best completions; one       *)
(* merger puts the indexes into the collection in batches.  The three are  *)
(* connected by bounded channels, and the main goroutine closes them one   *)
(* after the other.                                                        *)
(*                                                                         *)
(* A phrase is a sequence of letters.  A position in the file is the       *)
(* number of a line; a line that does not parse has the phrase <<>>.  Of   *)
(* words of equal frequency the code's heap and sort may keep any; here it *)
(* is the first, and no property tells them apart.                         *)
(***************************************************************************)
EXTENDS Integers, FiniteSets, Sequences, SequencesExt, Sorting

CONSTANTS
  Files,        \* files to seed from: sequences of [word, freq]
  Budget,       \* distinct prefixes that fit the memory budget
  K,            \* completions kept for a prefix
  Builders,     \* the index building workers
  JobsCap,      \* capacity of indexBuildJobs
  ResultsCap,   \* capacity of indexResults
  BatchSize,    \* prefixes in one exchange with the collection
  MaxSeedings,  \* bound: runs of the program
  MaxFailures,  \* bound: batches that fail
  MaxKills      \* bound: runs that are killed

Phrase == [word: Seq(Nat), freq: Nat]

\* The preprocessing adds equal phrases up.  It orders a file by frequency.
SeederAssumption ==
  /\ Files \subseteq Seq(Phrase)
  /\ \A f \in Files : \A i, j \in DOMAIN f :
       (i # j /\ f[i].word # <<>>) => f[i].word # f[j].word
  /\ Budget \in Nat /\ K \in Nat \ {0} /\ IsFiniteSet(Builders)
  /\ JobsCap \in Nat \ {0} /\ ResultsCap \in Nat \ {0} /\ BatchSize \in Nat \ {0}

VARIABLES
  file,
  main,            \* "scanning", "waiting", "blocked", "waking", "draining", "ended", "panicked",
                   \* "reused": the panic of wg.Wait
  pending,         \* processBucket: the buckets still to be looked at, in order
  indexBuildJobs,  \* channel of buckets
  builder,         \* builder -> [pc, index]
  indexResults,    \* channel of indexes
  merger,          \* [pc, todo]: the index being merged, what is left of it
  collection,      \* prefix -> its top in MongoDB
  queued,          \* history: buckets queued in this run
  split,           \* history: buckets split in this run
  unready,         \* history: wg.Wait returned in this run before any builder was started
  trouble          \* history: [seedings, failures, kills, here], here: those of this run

history == <<queued, split, unready, trouble>>

vars == <<file, main, pending, indexBuildJobs, builder, indexResults, merger, collection, history>>

-----------------------------------------------------------------------------
(* Scan and processBucket *)

Entries(start, end) == {file[i] : i \in start..(end - 1)}

\* The prefix of the child that a line is in: one letter more.
Own(line, prefix) == SubSeq(file[line].word, 1, Len(prefix) + 1)

\* A line opens a child when it is not in that of the line before it.
Opens(line, lines, prefix) ==
  LET before == {l \in lines : l < line}
  IN  before = {} \/ Own(Max(before), prefix) # Own(line, prefix)

\* The phrase before, in the same child.
Previous(line, lines, prefix) ==
  IF Opens(line, lines, prefix) THEN <<>> ELSE file[Max({l \in lines : l < line})].word

\* Mutation: the child's own prefix is counted with its first line.
NewPrefixesWithOwn(line, lines, prefix) ==
  LET word == file[line].word
      previous == Previous(line, lines, prefix)
  IN  (Max({Len(prefix), Len(LongestCommonPrefix({word, previous}))}) + 1)..Len(word)

\* The prefixes longer than its child's that a line has and the line before it did
\* not have, by their lengths.
NewPrefixes(line, lines, prefix) ==
  LET word == file[line].word
      previous == Previous(line, lines, prefix)
  IN  (Max({Len(prefix) + 1, Len(LongestCommonPrefix({word, previous}))}) + 1)..Len(word)

\* Mutation: a child ends after the line that opens the next one.
EndLate(line, opening, end) == Min({l + 1 : l \in {l \in opening : l > line}} \cup {end})

\* A child ends where the next one is opened.
End(line, opening, end) == Min({l \in opening : l > line} \cup {end})

\* The lines that have a letter after the prefix; the others are passed over.
Lines(prefix, start, end) == {l \in start..(end - 1) : Len(file[l].word) > Len(prefix)}

Opening(lines, prefix) == {l \in lines : Opens(l, lines, prefix)}

\* The prefixes that the lines of a child have in all, counted line by line.
DistinctPrefixes(line, lines, prefix, end) ==
  Cardinality(UNION {{l} \X NewPrefixes(l, lines, prefix) : l \in lines \cap (line..(end - 1))})

Child(line, lines, prefix, end) ==
  [prefix |-> Own(line, prefix), start |-> line, end |-> end,
   distinctPrefixes |-> DistinctPrefixes(line, lines, prefix, end)]

\* One pass over the lines of a bucket: its children in order, and a prefix may
\* have several.
Scan(prefix, start, end) ==
  LET lines == Lines(prefix, start, end)
      opening == Opening(lines, prefix)
      children == [l \in opening |-> Child(l, lines, prefix, End(l, opening, end))]
  IN  Arranged(children, opening, {q \in opening \X opening : q[1] < q[2]})

Unborn == [pc |-> "unborn", index |-> <<>>]
Receiving == [pc |-> "receiving", todo |-> <<>>]

PrefixesOf(entries) == (UNION {Prefixes(e.word) : e \in entries}) \ {<<>>}

Init ==
  /\ file \in Files
  /\ main = "scanning"
  /\ pending = Scan(<<>>, 1, Len(file) + 1)
  /\ indexBuildJobs = <<>> /\ indexResults = <<>>
  /\ builder = [b \in Builders |-> Unborn]
  /\ merger = Receiving
  /\ collection = [p \in PrefixesOf(ToSet(file)) |-> <<>>]
  /\ queued = {} /\ split = {} /\ unready = FALSE
  /\ trouble = [seedings |-> 1, failures |-> 0, kills |-> 0, here |-> 0]

QueueBucket ==
  /\ main = "scanning" /\ pending # <<>>
  /\ LET child == Head(pending)
     IN  /\ child.distinctPrefixes <= Budget
         /\ Len(indexBuildJobs) < JobsCap
         /\ indexBuildJobs' = Append(indexBuildJobs, child)
         /\ queued' = queued \cup {child}
  /\ pending' = Tail(pending)
  /\ UNCHANGED <<file, main, builder, indexResults, merger, collection, split, unready, trouble>>

\* A bucket over the budget is scanned itself, before the ones after it.
SplitBucket ==
  /\ main = "scanning" /\ pending # <<>>
  /\ LET child == Head(pending)
     IN  /\ child.distinctPrefixes > Budget
         /\ pending' = Scan(child.prefix, child.start, child.end) \o Tail(pending)
         /\ split' = split \cup {child}
  /\ UNCHANGED <<file, main, indexBuildJobs, builder, indexResults, merger, collection, queued, unready, trouble>>

-----------------------------------------------------------------------------
(* Seed: closing the channels *)

CloseJobs ==
  /\ main = "scanning" /\ pending = <<>>
  /\ main' = "waiting"
  /\ UNCHANGED <<file, pending, indexBuildJobs, builder, indexResults, merger, collection, history>>

\* The builders that wg counts.  They are started by a goroutine of their own,
\* which may not have begun, or be anywhere among them.
Counted == {b \in Builders : builder[b].pc \in {"receiving", "sending"}}

\* wg.Wait is called, and returns at once when none is counted.
WaitReturnsAtOnce ==
  /\ main = "waiting" /\ Counted = {}
  /\ main' = "draining"
  /\ unready' = \A b \in Builders : builder[b].pc = "unborn"
  /\ UNCHANGED <<file, pending, indexBuildJobs, builder, indexResults, merger, collection, queued, split, trouble>>

WaitBlocks ==
  /\ main = "waiting" /\ Counted # {}
  /\ main' = "blocked"
  /\ UNCHANGED <<file, pending, indexBuildJobs, builder, indexResults, merger, collection, history>>

\* The count was 0, and nobody has been counted since, or ended again.
WaitReturns ==
  /\ main = "waking" /\ Counted = {}
  /\ main' = "draining"
  /\ UNCHANGED <<file, pending, indexBuildJobs, builder, indexResults, merger, collection, history>>

\* A builder is counted after the count was 0 and before Wait has returned: a
\* panic, "WaitGroup is reused", of Wait or of the one that counts it.
WaitPanics ==
  /\ main = "waking" /\ Counted # {}
  /\ main' = "reused"
  /\ UNCHANGED <<file, pending, indexBuildJobs, builder, indexResults, merger, collection, history>>

\* The merger is done: the program ends, whatever other goroutines do.
SeedReturns ==
  /\ main = "draining" /\ merger.pc = "ended"
  /\ main' = "ended"
  /\ UNCHANGED <<file, pending, indexBuildJobs, builder, indexResults, merger, collection, history>>

Running == main \in {"scanning", "waiting", "blocked", "waking", "draining"}

-----------------------------------------------------------------------------
(* Builders *)

StartBuilder(b) ==
  /\ Running /\ builder[b].pc = "unborn"
  /\ builder' = [builder EXCEPT ![b].pc = "receiving"]
  /\ UNCHANGED <<file, main, pending, indexBuildJobs, indexResults, merger, collection, history>>

\* The entries of s on the positions in P of the highest frequency, K or all of
\* them, the highest first.
Highest(s, P) ==
  LET higher == {q \in P \X P : \/ s[q[1]].freq > s[q[2]].freq
                               \/ (s[q[1]].freq = s[q[2]].freq /\ q[1] < q[2])}
  IN  SubSeq(Arranged(s, P, higher), 1, Min({K, Cardinality(P)}))

\* Mutation: one completion too few.
BestButOne(lines) == SubSeq(Highest(file, lines), 1, Min({K, Cardinality(lines)}) - 1)

\* The completions that the heap of a prefix ends with.
Best(lines) == Highest(file, lines)

Completing(prefix, start, end) == {l \in start..(end - 1) : IsPrefix(prefix, file[l].word)}

\* Every prefix of every phrase of the bucket, those shorter than the bucket's
\* own among them.
PrefixIndex(child) ==
  [p \in PrefixesOf(Entries(child.start, child.end)) |-> Best(Completing(p, child.start, child.end))]

BuildIndex(b) ==
  /\ Running /\ builder[b].pc = "receiving" /\ indexBuildJobs # <<>>
  /\ builder' = [builder EXCEPT ![b] = [pc |-> "sending", index |-> PrefixIndex(Head(indexBuildJobs))]]
  /\ indexBuildJobs' = Tail(indexBuildJobs)
  /\ UNCHANGED <<file, main, pending, indexResults, merger, collection, history>>

SendIndex(b) ==
  /\ Running /\ builder[b].pc = "sending"
  /\ main # "draining" /\ Len(indexResults) < ResultsCap
  /\ indexResults' = Append(indexResults, builder[b].index)
  /\ builder' = [builder EXCEPT ![b] = [pc |-> "receiving", index |-> <<>>]]
  /\ UNCHANGED <<file, main, pending, indexBuildJobs, merger, collection, history>>

\* A send on the closed channel ends the program.
SendPanics(b) ==
  /\ main = "draining" /\ builder[b].pc = "sending"
  /\ main' = "panicked"
  /\ UNCHANGED <<file, pending, indexBuildJobs, builder, indexResults, merger, collection, history>>

\* Mutation: builders are told to end by the close of the other channel.
EndBuilderLate(b) ==
  /\ main = "draining"
  /\ builder[b].pc = "receiving" /\ indexBuildJobs = <<>>
  /\ builder' = [builder EXCEPT ![b].pc = "ended"]
  /\ UNCHANGED <<file, main, pending, indexBuildJobs, indexResults, merger, collection, history>>

\* The channel is closed and empty.  The last one counted wakes wg.Wait up.
EndBuilder(b) ==
  /\ Running /\ main # "scanning"
  /\ builder[b].pc = "receiving" /\ indexBuildJobs = <<>>
  /\ builder' = [builder EXCEPT ![b].pc = "ended"]
  /\ main' = IF main = "blocked" /\ Counted = {b} THEN "waking" ELSE main
  /\ UNCHANGED <<file, pending, indexBuildJobs, indexResults, merger, collection, history>>

-----------------------------------------------------------------------------
(* The merger *)

ReceiveIndex ==
  /\ Running /\ merger.pc = "receiving" /\ indexResults # <<>>
  /\ merger' = [pc |-> "merging", todo |-> Head(indexResults)]
  /\ indexResults' = Tail(indexResults)
  /\ UNCHANGED <<file, main, pending, indexBuildJobs, builder, collection, history>>

\* Mutation: the incoming completions replace the ones there.
MergeTopReplacing(old, incoming) == incoming

\* Nothing is compared but frequencies: a word of both is there twice.
MergeTop(old, incoming) == Highest(old \o incoming, 1..(Len(old) + Len(incoming)))

\* The next batch, in the order of the map, which is any.
Batches ==
  {batch \in SUBSET DOMAIN merger.todo :
     Cardinality(batch) = Min({BatchSize, Cardinality(DOMAIN merger.todo)})}

Written(batch) ==
  [p \in DOMAIN collection |->
     IF p \in batch THEN MergeTop(collection[p], merger.todo[p]) ELSE collection[p]]

\* A batch is looked up and written; nobody else writes the collection.
Flush ==
  /\ Running /\ merger.pc = "merging" /\ DOMAIN merger.todo # {}
  /\ \E batch \in Batches :
       /\ collection' = Written(batch)
       /\ merger' = [merger EXCEPT !.todo = [p \in DOMAIN @ \ batch |-> @[p]]]
  /\ UNCHANGED <<file, main, pending, indexBuildJobs, builder, indexResults, history>>

\* The exchange fails after a part of the batch was written.  The error goes back
\* to MongoMergeWorker, which ignores it: the rest of the index is given up.
FlushFails ==
  /\ Running /\ merger.pc = "merging" /\ DOMAIN merger.todo # {}
  /\ trouble.failures < MaxFailures
  /\ \E batch \in Batches : \E part \in SUBSET batch : collection' = Written(part)
  /\ merger' = Receiving
  /\ trouble' = [trouble EXCEPT !.failures = @ + 1, !.here = @ + 1]
  /\ UNCHANGED <<file, main, pending, indexBuildJobs, builder, indexResults, queued, split, unready>>

FinishIndex ==
  /\ Running /\ merger.pc = "merging" /\ DOMAIN merger.todo = {}
  /\ merger' = Receiving
  /\ UNCHANGED <<file, main, pending, indexBuildJobs, builder, indexResults, collection, history>>

EndMerger ==
  /\ main = "draining" /\ merger.pc = "receiving" /\ indexResults = <<>>
  /\ merger' = [merger EXCEPT !.pc = "ended"]
  /\ UNCHANGED <<file, main, pending, indexBuildJobs, builder, indexResults, collection, history>>

-----------------------------------------------------------------------------
(* Runs of the program *)

Kill ==
  /\ Running /\ trouble.kills < MaxKills
  /\ main' = "panicked"
  /\ trouble' = [trouble EXCEPT !.kills = @ + 1, !.here = @ + 1]
  /\ UNCHANGED <<file, pending, indexBuildJobs, builder, indexResults, merger, collection, queued, split, unready>>

\* The same file is seeded once more, into the collection as it is.
SeedAgain ==
  /\ ~Running /\ trouble.seedings < MaxSeedings
  /\ main' = "scanning"
  /\ pending' = Scan(<<>>, 1, Len(file) + 1)
  /\ indexBuildJobs' = <<>> /\ indexResults' = <<>>
  /\ builder' = [b \in Builders |-> Unborn]
  /\ merger' = Receiving
  /\ queued' = {} /\ split' = {} /\ unready' = FALSE
  /\ trouble' = [trouble EXCEPT !.seedings = @ + 1, !.here = 0]
  /\ UNCHANGED <<file, collection>>

Waiting == WaitReturnsAtOnce \/ WaitBlocks \/ WaitReturns \/ WaitPanics

Scanning == QueueBucket \/ SplitBucket \/ CloseJobs \/ Waiting \/ SeedReturns

Building(b) == BuildIndex(b) \/ SendIndex(b) \/ SendPanics(b) \/ EndBuilder(b)

Merging == ReceiveIndex \/ Flush \/ FlushFails \/ FinishIndex \/ EndMerger

Next ==
  \/ Scanning \/ Merging
  \/ \E b \in Builders : StartBuilder(b) \/ Building(b)
  \/ Kill \/ SeedAgain

Spec == Init /\ [][Next]_vars

\* Every goroutine that can go on does.
Fairness ==
  /\ WF_vars(Scanning) /\ WF_vars(Merging)
  /\ \A b \in Builders : WF_vars(StartBuilder(b) \/ Building(b))

FairSpec == Spec /\ Fairness

-----------------------------------------------------------------------------
(* Properties *)

Buckets == queued \cup ToSet(pending)

Completions(entries, prefix) == {e \in entries : IsPrefix(prefix, e.word)}

TypeOK ==
  /\ main \in {"scanning", "waiting", "blocked", "waking", "draining", "ended", "panicked", "reused"}
  /\ Len(indexBuildJobs) <= JobsCap /\ ToSet(indexBuildJobs) \subseteq queued
  /\ Len(indexResults) <= ResultsCap
  /\ \A b \in Builders : builder[b].pc \in {"unborn", "receiving", "sending", "ended"}
  /\ merger.pc \in {"receiving", "merging", "ended"}
  /\ \A p \in DOMAIN collection :
       /\ Len(collection[p]) <= K
       /\ ToSet(collection[p]) \subseteq Completions(ToSet(file), p)
       /\ \A i \in 1..(Len(collection[p]) - 1) : collection[p][i].freq >= collection[p][i + 1].freq

Holds(bucket, line) == bucket.start <= line /\ line < bucket.end

\* Byte ranges cut the file: at any time of the recursion a phrase is in one
\* bucket, queued or pending, and never in two.  It is in none only if it is as
\* short as the prefix of a bucket it was in, and that bucket was split.
EveryLineHasItsBucket ==
  \A i \in DOMAIN file :
    file[i].word # <<>> =>
      LET buckets == {b \in Buckets : Holds(b, i)}
      IN  \/ Cardinality(buckets) = 1
          \/ buckets = {} /\ \E b \in split : Holds(b, i) /\ IsPrefix(file[i].word, b.prefix)

Before(v, w) ==
  \/ IsStrictPrefix(v, w)
  \/ \E i \in DOMAIN v \cap DOMAIN w :
       v[i] < w[i] /\ SubSeq(v, 1, i - 1) = SubSeq(w, 1, i - 1)

InOrder(b) ==
  LET phrases == {i \in b.start..(b.end - 1) : file[i].word # <<>>}
  IN  \A i, j \in phrases : i < j => Before(file[i].word, file[j].word)

\* The count of distinct prefixes made in one pass over neighbouring lines bounds
\* the index that a builder makes of the bucket, the bucket's own prefixes aside,
\* in whatever order the lines are: no index is larger than the budget foresees.
\* Of lines in order the count is exact.
IndexFitsBudget ==
  \A b \in queued :
    LET size == Cardinality(PrefixesOf(Entries(b.start, b.end)))
    IN  /\ b.distinctPrefixes <= Budget
        /\ size <= b.distinctPrefixes + Len(b.prefix)
        /\ InOrder(b) => size = b.distinctPrefixes + Len(b.prefix)

\* The phrases a run indexes, those in a bucket.
Indexed == UNION {{e \in Entries(b.start, b.end) : e.word # <<>>} : b \in queued}

\* A run that ended as it should: no batch failed, nobody killed it, and a
\* builder was started before it was waited for.
Complete == main = "ended" /\ trouble.here = 0 /\ ~unready

IsBest(top, entries) ==
  /\ Len(top) = Min({K, Cardinality(entries)})
  /\ IsInjective(top) /\ ToSet(top) \subseteq entries
  /\ \A d \in entries \ ToSet(top), e \in ToSet(top) : d.freq <= e.freq

\* A complete run into an empty collection leaves the best completions of every
\* prefix there, once each, whatever buckets they came from, in whatever order
\* the builders were done, and in whatever batches they were merged.
TopsAreTheBest ==
  (Complete /\ trouble.seedings = 1) =>
    \A p \in DOMAIN collection : IsBest(collection[p], Completions(Indexed, p))

\* A complete run after others, broken off or not, repairs the first place of
\* every prefix.  The other places it does not: the merge keeps a word that is
\* there and comes again twice, at the cost of others.
RerunsKeepTheFirst ==
  Complete =>
    \A p \in DOMAIN collection : \A e \in Completions(Indexed, p) :
      collection[p] # <<>> /\ collection[p][1].freq >= e.freq

\* The program ends: channels of any capacity are drained in the order they are
\* closed in.  Nothing but a kill breaks it off, a send on the closed channel when
\* no builder had been started by the time they were waited for, or wg.Wait, when
\* one is started after others have ended and before Wait has returned.
SeedingEnds ==
  main = "scanning" ~>
    \/ main = "ended"
    \/ main = "panicked" /\ (unready \/ trouble.here > 0)
    \/ main = "reused" /\ \E b \in Builders : builder[b].pc = "ended"
=============================================================================
