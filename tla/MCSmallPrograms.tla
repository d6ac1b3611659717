--------------------------- MODULE MCSmallPrograms ---------------------------
(***************************************************************************)
(* Four programs that share nothing, any one of them, on small instances   *)
(* for TLC: the URL shortener, the trie, the corpus tools and the          *)
(* consistent hashing ring.  The variables of the three that do not run    *)
(* keep their initial values.                                              *)
(***************************************************************************)
EXTENDS Shortener

CONSTANTS
  TrieWords, TrieFreqs, K, CacheDepth, MaxLines,  \* Trie
  Users, Phrases, Counts, Kept, Score(_),    \* Corpus
  MinFreq, MinVol, MinMatch, TopN, MaxRows,
  MaxServers, NodesEach, Span, Readers, Nobody  \* HashRing

VARIABLES
  program,
  phase, node, top, results, lines, listed,
  tool, rows, last, group, totals, done, written, seen,
  hash, servers, nodeMap, hashRing, nextId, reader, crashed

-----------------------------------------------------------------------------
\* One URL in several spellings (case, default port, slash, fragment), a query
\* with a repeated key in two orders, another port for another scheme, and one
\* without a scheme.
Home == [scheme |-> "http", shouted |-> FALSE, host |-> "h", literal |-> FALSE, port |-> 0,
         path |-> "", query |-> <<>>, fragment |-> FALSE]

MCUrls ==
  {Home,
   [Home EXCEPT !.shouted = TRUE, !.host = "H", !.port = 80, !.path = "/", !.fragment = TRUE],
   [Home EXCEPT !.query = <<<<2, 1>>, <<1, 2>>, <<1, 1>>>>],
   [Home EXCEPT !.query = <<<<1, 1>>, <<2, 1>>, <<1, 2>>>>],
   [Home EXCEPT !.scheme = "https", !.port = 80],
   [Home EXCEPT !.scheme = "", !.host = "H"]}

\* a, ab, aba, abb, b and a word that begins with a letter of two bytes; cut to
\* one byte that letter is an a.
MCWords == {<<97>>, <<97, 98>>, <<97, 98, 97>>, <<97, 98, 98>>, <<98>>, <<353, 98>>}

MCScore(total) == 2 * total.vol + total.match

Trie == INSTANCE Trie WITH Words <- TrieWords, Freqs <- TrieFreqs

MCCounts == {[match |-> 1, vol |-> 1], [match |-> 2, vol |-> 1]}

Corpus == INSTANCE Corpus

Ring == INSTANCE HashRing

ASSUME ProgramsAssumption ==
  Trie!TrieAssumption /\ Ring!RingAssumption /\ Corpus!CorpusAssumption

-----------------------------------------------------------------------------
\* The values of a program that does not run.
ShortenerOff == ShortenerInit /\ \A id \in Numbers : next <= id
CorpusOff == Corpus!CorpusInit /\ tool = "aol"
RingOff == Ring!Init /\ \A v \in DOMAIN hash : hash[v] = 0

trieOnly == <<phase, node, top, results, lines, listed>>
corpusOnly == <<tool, rows, last, group, totals, done, written, seen>>
ringOnly == <<hash, servers, nodeMap, hashRing, nextId, reader, crashed>>

Programs == {"shortener", "trie", "corpus", "ring"}

ProgramsInit ==
  /\ program \in Programs
  /\ IF program = "shortener" THEN ShortenerInit ELSE ShortenerOff
  /\ Trie!TrieInit
  /\ IF program = "corpus" THEN Corpus!CorpusInit ELSE CorpusOff
  /\ IF program = "ring" THEN Ring!Init ELSE RingOff

ProgramsNext ==
  /\ UNCHANGED program
  /\ \/ program = "shortener" /\ ShortenerNext
     \/ program # "shortener" /\ UNCHANGED shortenerVars
  /\ \/ program = "trie" /\ Trie!TrieNext
     \/ program # "trie" /\ UNCHANGED trieOnly
  /\ \/ program = "corpus" /\ Corpus!CorpusNext
     \/ program # "corpus" /\ UNCHANGED corpusOnly
  /\ \/ program = "ring" /\ Ring!Next
     \/ program # "ring" /\ UNCHANGED ringOnly

programsVars == <<program, shortenerVars, trieOnly, corpusOnly, ringOnly>>

ProgramsSpec == ProgramsInit /\ [][ProgramsNext]_programsVars

-----------------------------------------------------------------------------
\* The trie: kept, searched and looked up, the answer is the best words of the
\* file (where the first letters are ASCII).
SuggestionsAreBest == Trie!SuggestionsAreBest

\* The nodes of the trie keep what a search of them would find.
CachedIsSearched == Trie!CachedIsSearched

\* The corpus tools count in one pass what all rows together say.
CorpusIsExact == Corpus!CorpusIsExact

\* The map of the ring has the servers that are on it and no others.
RingMatchesMap == Ring!RingMatchesMap

\* The binary search finds the first hash clockwise.
LookupIsClockwise == Ring!LookupIsClockwise

\* A new server only takes keys.
ArrivalsOnlyTake == Ring!ArrivalsOnlyTake

\* Only the keys of a server that goes move.
DeparturesOnlyGive == Ring!DeparturesOnlyGive
=============================================================================
