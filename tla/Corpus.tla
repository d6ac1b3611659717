------------------------------- MODULE Corpus -------------------------------
(***************************************************************************)
(* The tools that make a file of phrases out of raw logs, each a pass over *)
(* rows that keeps no more than the current group: preprocess_aol counts   *)
(* the users who asked a query, preprocess_ngrams adds up the years of an  *)
(* ngram.                                                                  *)
(*                                                                         *)
(* Users, queries and ngrams are numbers, in the order their files are     *)
(* sorted by.  A row the tool passes over (a header, too few columns, a    *)
(* query that `clean' rejects, counts that are no numbers) counts nothing.  *)
(* Whether `keepPhrase' keeps an ngram, and the score of its totals, are   *)
(* parameters.                                                             *)
(***************************************************************************)
EXTENDS Integers, FiniteSets, Sequences, SequencesExt, Sorting

CONSTANTS
  Users, Phrases, \* numbers above 0
  Counts,         \* what a row of an ngram may count: [match, vol]
  Kept,           \* ngrams that pass keepPhrase
  Score(_),       \* of [match, vol]
  MinFreq,        \* preprocess_aol
  MinVol, MinMatch,
  TopN,           \* 0: all of them
  MaxRows         \* bound: rows of all files

CorpusAssumption ==
  /\ Users \subseteq Nat \ {0} /\ Phrases \subseteq Nat \ {0}
  /\ Counts \subseteq [match: Nat, vol: Nat] /\ Kept \subseteq Phrases
  /\ MinFreq \in Int /\ MinVol \in Int /\ MinMatch \in Int
  /\ TopN \in Nat /\ MaxRows \in Nat

VARIABLES
  tool,      \* "aol" or "ngrams"
  rows,      \* rows read, of all files
  last,      \* key of the last row read: the files are sorted by it
  group,     \* what the pass knows of the current user or ngram
  totals,    \* global and acc: query -> votes, ngram -> [match, vol]
  done,      \* the output has been written
  written,   \* the output
  seen       \* history: what was read and not passed over, a set of rows

corpusVars == <<tool, rows, last, group, totals, done, written, seen>>

-----------------------------------------------------------------------------
Nothing == 0

Min2(m, n) == IF m < n THEN m ELSE n

NoUser == [user |-> Nothing, queries |-> {}]
NoNgram == [phrase |-> Nothing, match |-> 0, vol |-> 0]

CorpusInit ==
  /\ tool \in {"aol", "ngrams"}
  /\ rows = 0 /\ last = Nothing
  /\ group = IF tool = "aol" THEN NoUser ELSE NoNgram
  /\ totals = <<>> /\ done = FALSE /\ written = <<>> /\ seen = {}

Reading == ~done /\ rows < MaxRows

\* A row that counts nothing. It ends no group.
PassOver(key) ==
  /\ Reading /\ key >= last
  /\ rows' = rows + 1 /\ last' = key
  /\ UNCHANGED <<tool, group, totals, done, written, seen>>

Into(f, x, value) == [y \in DOMAIN f \cup {x} |-> IF y = x THEN value ELSE f[y]]

-----------------------------------------------------------------------------
(* preprocess_aol *)

Votes(q) == IF q \in DOMAIN totals THEN totals[q] ELSE 0

\* One vote from the current user for each query.
UserFlushed == [q \in DOMAIN totals \cup group.queries |->
                  Votes(q) + (IF q \in group.queries THEN 1 ELSE 0)]

\* Mutation: the row that opens a user is not counted.
AolRowOpening(user, query) ==
  /\ tool = "aol" /\ Reading /\ user >= last
  /\ rows' = rows + 1 /\ last' = user
  /\ seen' = seen \cup {[user |-> user, query |-> query]}
  /\ IF user # group.user
     THEN group' = [user |-> user, queries |-> {}] /\ totals' = UserFlushed
     ELSE group' = [group EXCEPT !.queries = @ \cup {query}] /\ UNCHANGED totals
  /\ UNCHANGED <<tool, done, written>>

AolRow(user, query) ==
  /\ tool = "aol" /\ Reading /\ user >= last
  /\ rows' = rows + 1 /\ last' = user
  /\ seen' = seen \cup {[user |-> user, query |-> query]}
  /\ IF user # group.user
     THEN group' = [user |-> user, queries |-> {query}] /\ totals' = UserFlushed
     ELSE group' = [group EXCEPT !.queries = @ \cup {query}] /\ UNCHANGED totals
  /\ UNCHANGED <<tool, done, written>>

\* The last user is flushed and the next file starts; its users come later.
AolNextFile ==
  /\ tool = "aol" /\ Reading /\ group # NoUser
  /\ totals' = UserFlushed /\ group' = NoUser
  /\ last' = last + 1
  /\ UNCHANGED <<tool, rows, done, written, seen>>

-----------------------------------------------------------------------------
(* preprocess_ngrams *)

Enough(total) == total.vol >= MinVol /\ total.match >= MinMatch

NgramFlushed ==
  LET p == group.phrase
      old == IF p \in DOMAIN totals THEN totals[p] ELSE [match |-> 0, vol |-> 0]
  IN  IF p \in Kept /\ Enough(group)
      THEN Into(totals, p, [match |-> old.match + group.match, vol |-> old.vol + group.vol])
      ELSE totals

NgramRow(phrase, count) ==
  /\ tool = "ngrams" /\ Reading /\ phrase >= last
  /\ rows' = rows + 1 /\ last' = phrase
  /\ seen' = seen \cup {[phrase |-> phrase, row |-> rows, match |-> count.match, vol |-> count.vol]}
  /\ IF phrase # group.phrase
     THEN group' = [phrase |-> phrase, match |-> count.match, vol |-> count.vol]
          /\ totals' = NgramFlushed
     ELSE group' = [group EXCEPT !.match = @ + count.match, !.vol = @ + count.vol]
          /\ UNCHANGED totals
  /\ UNCHANGED <<tool, done, written>>

NgramNextFile ==
  /\ tool = "ngrams" /\ Reading /\ group # NoNgram
  /\ totals' = NgramFlushed /\ group' = NoNgram
  /\ last' = last + 1
  /\ UNCHANGED <<tool, rows, done, written, seen>>

-----------------------------------------------------------------------------
(* The end of main *)

AolItems(votes) ==
  {[phrase |-> q, freq |-> votes[q]] : q \in {r \in DOMAIN votes : votes[r] >= MinFreq}}

NgramItems(acc) ==
  {[phrase |-> p, freq |-> Score(acc[p])] : p \in {r \in DOMAIN acc : Enough(acc[r]) /\ acc[r].vol > 0}}

Precedes(a, b) == a.freq > b.freq \/ (a.freq = b.freq /\ a.phrase < b.phrase)

\* The most frequent first, equal ones by their phrases, cut to the first N.
Ranked(items) ==
  LET ranked == Arranged([d \in items |-> d], items,
                         {q \in items \X items : Precedes(q[1], q[2])})
  IN  IF TopN > 0 THEN SubSeq(ranked, 1, Min2(TopN, Len(ranked))) ELSE ranked

\* The last file ends and the output is written.
WriteOut ==
  /\ ~done /\ done' = TRUE
  /\ written' = Ranked(IF tool = "aol" THEN AolItems(UserFlushed) ELSE NgramItems(NgramFlushed))
  /\ totals' = IF tool = "aol" THEN UserFlushed ELSE NgramFlushed
  /\ group' = IF tool = "aol" THEN NoUser ELSE NoNgram
  /\ UNCHANGED <<tool, rows, last, seen>>

CorpusNext ==
  \/ \E key \in IF tool = "aol" THEN Users ELSE Phrases : PassOver(key)
  \/ \E user \in Users, query \in Phrases : AolRow(user, query)
  \/ AolNextFile
  \/ \E phrase \in Phrases, count \in Counts : NgramRow(phrase, count)
  \/ NgramNextFile
  \/ WriteOut

CorpusSpec == CorpusInit /\ [][CorpusNext]_corpusVars

-----------------------------------------------------------------------------
(* Properties *)

\* By definition: the users who asked, the sum of all rows.
Askers(q) == {r.user : r \in {s \in seen : s.query = q}}

RowsOf(p) == {r \in seen : r.phrase = p}

\* Each row counted as often as it says.
Matches(rs) == UNION {{r} \X (1..r.match) : r \in rs}
Volumes(rs) == UNION {{r} \X (1..r.vol) : r \in rs}

Total(p) == [match |-> Cardinality(Matches(RowsOf(p))), vol |-> Cardinality(Volumes(RowsOf(p)))]

Wanted ==
  IF tool = "aol"
  THEN {[phrase |-> q, freq |-> Cardinality(Askers(q))] :
          q \in {r \in Phrases : Askers(r) # {} /\ Cardinality(Askers(r)) >= MinFreq}}
  ELSE {[phrase |-> p, freq |-> Score(Total(p))] :
          p \in {r \in Kept : RowsOf(r) # {} /\ Total(r).vol > 0 /\ Enough(Total(r))}}

\* A pass that remembers one group at a time counts as if it had all rows before
\* it: no row lost or counted twice where one user, ngram or file gives way to
\* the next, rows passed over in between or not.  The best come out, in order.
CorpusIsExact ==
  done =>
    /\ IsInjective(written) /\ ToSet(written) \subseteq Wanted
    /\ Len(written) = IF TopN > 0 THEN Min2(TopN, Cardinality(Wanted)) ELSE Cardinality(Wanted)
    /\ \A i, j \in DOMAIN written : i < j => Precedes(written[i], written[j])
    /\ \A d \in Wanted \ ToSet(written), e \in ToSet(written) : Precedes(e, d)
=============================================================================
