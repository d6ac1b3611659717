----------------------------- MODULE MCPipelines -----------------------------
(***************************************************************************)
(* Two programs made of goroutines and channels, either of them, on small  *)
(* instances for TLC: the file searcher and the seeder.  The variables of  *)
(* the one that does not run keep still.                                   *)
(*                                                                         *)
(* The tree: a root with three subdirectories, one that cannot be read,    *)
(* one with another such and one that can, and a directory nobody gets to. *)
(* The slots are as many as what cannot be read.                           *)
(*                                                                         *)
(* The files of phrases, of letters 1 and 2: the first splits a bucket     *)
(* that is a phrase itself, and one in it.  The others are ordered by      *)
(* frequency.  The second has a phrase too short for its bucket between    *)
(* two others.  The third has a prefix with two buckets, a line that does  *)
(* not parse, and a tie.  The fourth counts more prefixes than it has and  *)
(* is split for nothing: it ends up in one bucket, which fits into the     *)
(* channel before any builder is started.                                  *)
(***************************************************************************)
EXTENDS FileSearch, Sequences

CONSTANTS
  d1, d2, d3, d4, d5, d6, d7, m1, m2, m3, m4,
  Texts,      \* the files of phrases
  Budget, K, Builders, JobsCap, ResultsCap, BatchSize, MaxSeedings, MaxFailures, MaxKills

VARIABLES
  program,    \* which of the two runs
  file, seeding, buckets, indexBuildJobs, builder, indexResults, merger, collection,
  queued, split, unready, trouble

-----------------------------------------------------------------------------
MCDirs == {d1, d2, d3, d4, d5, d6, d7}
MCFiles == {m1, m2, m3, m4}

MCSub == [x \in MCDirs |-> CASE x = d1 -> {d2, d3, d7} [] x = d2 -> {d4, d5} [] x = d4 -> {d6}
                             [] OTHER -> {}]

MCMatches == [x \in MCDirs |-> CASE x = d1 -> {m1} [] x = d3 -> {m2} [] x = d5 -> {m3}
                                 [] x = d6 -> {m4} [] OTHER -> {}]

MCReadable == MCDirs \ {d4, d7}

Line(word, freq) == [word |-> word, freq |-> freq]

PhraseFiles == {
  <<Line(<<1>>, 9), Line(<<1, 1, 1>>, 2), Line(<<1, 1, 2, 2>>, 5)>>,
  <<Line(<<1, 1, 1, 1>>, 6), Line(<<1>>, 5), Line(<<1, 2>>, 4)>>,
  <<Line(<<1, 2>>, 6), Line(<<>>, 7), Line(<<2, 2>>, 4), Line(<<2>>, 4), Line(<<1, 2, 1>>, 1)>>,
  <<Line(<<1, 2>>, 4), Line(<<1>>, 3), Line(<<1, 2, 1>>, 1)>>}

Seeder == INSTANCE Seeder WITH Files <- Texts, main <- seeding, pending <- buckets

ASSUME TextsAssumption == Seeder!SeederAssumption

-----------------------------------------------------------------------------
seederOnly == <<file, seeding, buckets, indexBuildJobs, builder, indexResults, merger, collection,
                queued, split, unready, trouble>>

SearchOff ==
  /\ state = [x \in Dirs |-> "none"] /\ left = None /\ sending = None
  /\ busy = 0 /\ pending = 0 /\ closed = FALSE /\ printed = None
  /\ main = "off" /\ panicked = FALSE

SeedingOff ==
  /\ file = <<>> /\ seeding = "panicked" /\ buckets = <<>>
  /\ indexBuildJobs = <<>> /\ indexResults = <<>>
  /\ builder = [x \in Builders |-> Seeder!Unborn]
  /\ merger = Seeder!Receiving /\ collection = <<>>
  /\ queued = {} /\ split = {} /\ unready = FALSE
  /\ trouble = [seedings |-> MaxSeedings, failures |-> 0, kills |-> 1, here |-> 1]

PipelinesInit ==
  \/ program = "search" /\ Init /\ SeedingOff
  \/ program = "seeder" /\ Seeder!Init /\ SearchOff

PipelinesNext ==
  /\ UNCHANGED program
  /\ \/ program = "search" /\ Next /\ UNCHANGED seederOnly
     \/ program = "seeder" /\ Seeder!Next /\ UNCHANGED vars

\* Of the program that does not run, no action that is fair is ever enabled.
PipelinesSpec ==
  /\ PipelinesInit /\ [][PipelinesNext]_<<program, vars, seederOnly>>
  /\ Fairness /\ Seeder!Fairness

-----------------------------------------------------------------------------
\* A phrase is in one bucket, and never in two.
EveryLineHasItsBucket == Seeder!EveryLineHasItsBucket

\* The count of prefixes bounds the index of a bucket.
IndexFitsBudget == Seeder!IndexFitsBudget

\* A complete run leaves the best completions, once each.
TopsAreTheBest == Seeder!TopsAreTheBest

\* A complete run after others repairs the first place of every prefix.
RerunsKeepTheFirst == Seeder!RerunsKeepTheFirst

\* The seeder ends.
SeedingEnds == Seeder!SeedingEnds
=============================================================================
