-------------------------------- MODULE Trie --------------------------------
(***************************************************************************)
(* The autocomplete trie: built from a file of phrases line by line, with  *)
(* the best completions of shallow nodes computed by one goroutine for     *)
(* each first letter; deeper nodes are searched when they are asked for.   *)
(* The prefix index is made from the trie, for every prefix.               *)
(*                                                                         *)
(* A node is known by its path, a sequence of code points.  The order in   *)
(* which a map is walked, and that of words with one frequency in a heap,  *)
(* are left to CHOOSE; the properties do not depend on it.                 *)
(***************************************************************************)
EXTENDS Integers, FiniteSets, Sequences, SequencesExt, Sorting

CONSTANTS
  Words,       \* phrases that lines may have
  Freqs,
  K,           \* completions of a prefix
  CacheDepth,  \* the deepest nodes that keep theirs
  MaxLines     \* bound: lines of the file

TrieAssumption == Words \subseteq Seq(Nat) \ {<<>>} /\ Freqs \subseteq Int /\ K \in Nat \ {0}

VARIABLES
  phase,     \* "reading", "caching", "serving"
  node,      \* path -> [isWord, freq]
  top,       \* path -> the completions kept at the node, if any are
  results,   \* channel: the completions of the first letters done
  lines,     \* lines read
  listed     \* history: word -> frequency on the last line with it

trieVars == <<phase, node, top, results, lines, listed>>

-----------------------------------------------------------------------------
Letters == UNION {ToSet(w) : w \in Words}

Inner == [isWord |-> FALSE, freq |-> 0]

TrieTypeOK ==
  /\ phase \in {"reading", "caching", "serving"}
  /\ \A p \in DOMAIN node : p # <<>> => Front(p) \in DOMAIN node
  /\ DOMAIN top \subseteq DOMAIN node
  /\ lines \in 0..MaxLines
  /\ DOMAIN listed \subseteq Words

TrieInit ==
  /\ phase = "reading"
  /\ node = [p \in {<<>>} |-> Inner]
  /\ top = <<>> /\ results = <<>>
  /\ lines = 0 /\ listed = <<>>

-----------------------------------------------------------------------------
(* BuildTrie *)

With(f, x, value) == [y \in DOMAIN f \cup {x} |-> IF y = x THEN value ELSE f[y]]

\* The nodes on the way are made where they are missing; a word that comes
\* again gets the later frequency.  A line that does not parse is passed over.
Insert(word, freq) ==
  /\ phase = "reading" /\ lines < MaxLines
  /\ node' = With([p \in DOMAIN node \cup Prefixes(word) |->
                     IF p \in DOMAIN node THEN node[p] ELSE Inner],
                  word, [isWord |-> TRUE, freq |-> freq])
  /\ lines' = lines + 1
  /\ listed' = With(listed, word, freq)
  /\ UNCHANGED <<phase, top, results>>

EndOfFile ==
  /\ phase = "reading"
  /\ phase' = "caching"
  /\ UNCHANGED <<node, top, results, lines, listed>>

-----------------------------------------------------------------------------
(* BuildCacheParallel and BuildPrefixIndex *)

\* Mutation: the smallest head is taken.
MergeTopKSmallest(lists) ==
  LET merged[n \in 0..K] ==
        IF n = 0 THEN [out |-> <<>>, at |-> [l \in DOMAIN lists |-> 1]]
        ELSE LET m == merged[n - 1]
                 left == {l \in DOMAIN lists : m.at[l] <= Len(lists[l])}
                 Head_(l) == lists[l][m.at[l]]
                 l == CHOOSE l \in left : \A j \in left : Head_(l).freq <= Head_(j).freq
             IN  IF left = {} THEN m
                 ELSE [out |-> Append(m.out, Head_(l)), at |-> [m.at EXCEPT ![l] = @ + 1]]
  IN  merged[K].out

\* K times the largest of the heads of sorted lists.
MergeTopK(lists) ==
  LET merged[n \in 0..K] ==
        IF n = 0 THEN [out |-> <<>>, at |-> [l \in DOMAIN lists |-> 1]]
        ELSE LET m == merged[n - 1]
                 left == {l \in DOMAIN lists : m.at[l] <= Len(lists[l])}
                 Head_(l) == lists[l][m.at[l]]
                 l == CHOOSE l \in left : \A j \in left : Head_(l).freq >= Head_(j).freq
             IN  IF left = {} THEN m
                 ELSE [out |-> Append(m.out, Head_(l)), at |-> [m.at EXCEPT ![l] = @ + 1]]
  IN  merged[K].out

Children(p) == {q \in DOMAIN node : Len(q) = Len(p) + 1 /\ IsPrefix(p, q)}

Own(p, word) == IF node[p].isWord THEN <<<<[word |-> word, freq |-> node[p].freq]>>>> ELSE <<>>

\* The completions of every node in S, from the bottom up.  spelled[p] is what
\* the walk takes for the word at p.
Tops(S, spelled) ==
  LET tops[p \in S] ==
        LET below == SetToSeq(Children(p))
            lists == Own(p, spelled[p]) \o [i \in DOMAIN below |-> tops[below[i]]]
        IN  IF Len(lists) = 1 THEN lists[1] ELSE MergeTopK(lists)
  IN  tops

\* A code point cut to a byte, and that byte as a string: another letter, or one
\* that is no letter.
Byte(letter) == IF letter % 256 < 128 THEN letter % 256 ELSE -1

\* A goroutine starts from the first letter as a byte, not as a rune.
SpelledFromByte(p) == <<Byte(Head(p))>> \o Tail(p)

\* The goroutine of a first letter: it walks its own subtree, keeps completions
\* down to the depth, and sends those of the letter.
CacheBranch(letter) ==
  LET branch == {p \in DOMAIN node : p # <<>> /\ p[1] = letter}
      tops == Tops(branch, [p \in branch |-> SpelledFromByte(p)])
  IN  /\ phase = "caching" /\ branch # {} /\ <<letter>> \notin {r.from : r \in ToSet(results)}
      /\ top' = [p \in DOMAIN top \cup {q \in branch : Len(q) <= CacheDepth} |->
                   IF p \in DOMAIN top THEN top[p] ELSE tops[p]]
      /\ results' = Append(results, [from |-> <<letter>>, top |-> tops[<<letter>>]])
      /\ UNCHANGED <<phase, node, lines, listed>>

\* All have been received, in the order they came in.
MergeRoot ==
  /\ phase = "caching" /\ Len(results) = Cardinality(Children(<<>>))
  /\ top' = With(top, <<>>, MergeTopK([i \in DOMAIN results |-> results[i].top]))
  /\ phase' = "serving"
  /\ UNCHANGED <<node, results, lines, listed>>

TrieNext ==
  \/ \E word \in Words, freq \in Freqs : Insert(word, freq)
  \/ EndOfFile
  \/ \E letter \in Letters : CacheBranch(letter)
  \/ MergeRoot

TrieSpec == TrieInit /\ [][TrieNext]_trieVars

-----------------------------------------------------------------------------
(* Suggest *)

\* The candidates go through a heap of K with the least on top.
TopK(candidates) ==
  LET heap[n \in 0..Len(candidates)] ==
        IF n = 0 THEN {}
        ELSE LET kept == heap[n - 1]
                 c == candidates[n]
                 least == CHOOSE d \in kept : \A e \in kept : d.freq <= e.freq
             IN  IF Cardinality(kept) < K THEN kept \cup {c}
                 ELSE IF least.freq < c.freq THEN (kept \ {least}) \cup {c} ELSE kept
  IN  Sorted(SetToSeq(heap[Len(candidates)]), LAMBDA c, d : c.freq > d.freq)

\* Every word under p, spelled from p.
Found(p) ==
  SetToSeq({[word |-> q, freq |-> node[q].freq] :
              q \in {q \in DOMAIN node : IsPrefix(p, q) /\ node[q].isWord}})

Search(p) == p \in DOMAIN node

SuggestFromTrie(p) ==
  IF ~Search(p) THEN <<>>
  ELSE IF p \in DOMAIN top THEN top[p] ELSE TopK(Found(p))

Index == Tops(DOMAIN node, [p \in DOMAIN node |-> p])

SuggestFromIndex(p) == IF p \in DOMAIN node THEN Index[p] ELSE <<>>

-----------------------------------------------------------------------------
(* Properties *)

Completions(p) == {w \in DOMAIN listed : IsPrefix(p, w)}

Smaller(m, n) == IF m < n THEN m ELSE n

\* The K most frequent words under p, each once, in order.
AreBest(recos, p) ==
  LET words == {recos[i].word : i \in DOMAIN recos}
  IN  /\ words \subseteq Completions(p)
      /\ Len(recos) = Smaller(K, Cardinality(Completions(p))) /\ Cardinality(words) = Len(recos)
      /\ \A i \in DOMAIN recos : recos[i].freq = listed[recos[i].word]
      /\ \A i, j \in DOMAIN recos : i < j => recos[i].freq >= recos[j].freq
      /\ \A w \in Completions(p) \ words, v \in words : listed[v] >= listed[w]

\* Words under p begin with a letter that is one byte.
FromAscii(p) == \A w \in Completions(p) : Head(w) < 128

\* The three ways to an answer (kept at the node, searched below it, looked up in
\* the index) give the same: the best words of the file, for every prefix and
\* whatever order the goroutines are done in.  What the nodes keep is right only
\* of words whose first letter is ASCII.
SuggestionsAreBest ==
  phase = "serving" =>
    \A p \in DOMAIN node \cup {<<letter>> : letter \in Letters} :
      /\ AreBest(SuggestFromIndex(p), p)
      /\ FromAscii(p) => AreBest(SuggestFromTrie(p), p)

\* The exit criteria of the phrase corpus say that what the nodes keep is what a
\* search of them would find (README.md of search_autocomplete, "cached = DFS").
CachedIsSearched ==
  phase = "serving" =>
    \A p \in DOMAIN top : ToSet(top[p]) \subseteq ToSet(Found(p))
=============================================================================
