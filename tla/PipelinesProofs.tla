-------------------------- MODULE PipelinesProofs ---------------------------
(***************************************************************************)
(* The file searcher: its safety, for any tree and any number of slots.    *)
(*                                                                         *)
(* The seeder: any file of phrases, of any letters, is cut into buckets    *)
(* that hold every phrase once, however deep they are split.  Each queued  *)
(* bucket is in one place on its way to the collection, and the collection *)
(* is right for those that have arrived.  No index is larger than the scan *)
(* of its lines foretold.                                                  *)
(***************************************************************************)
EXTENDS MCPipelines, SortingProofs

-----------------------------------------------------------------------------
(* The file searcher *)

\* The sets the counters count are finite.
LEMMA Finite ==
  /\ IsFiniteSet(Live) /\ Cardinality(Live) \in Nat
  /\ IsFiniteSet(Opened) /\ Cardinality(Opened) \in Nat
<1>1. Live \subseteq Dirs /\ Opened \subseteq Dirs
  BY DEF Live, Opened
<1> QED BY <1>1, TreeAssumption, FS_Subset, FS_CardinalityType

\* The closed sets of directories are given by the tree alone.
LEMMA RootReached == Root \in Reached
  BY TreeAssumption DEF Reached, Closed

LEMMA SubReached == \A d \in Reached \cap Readable : Sub[d] \subseteq Reached
  BY TreeAssumption DEF Reached, Closed

LEMMA InitInv == Init => IInv
<1> SUFFICES ASSUME Init PROVE IInv
  OBVIOUS
<1> USE TreeAssumption DEF Init
<1>1. TypeOK
  BY DEF TypeOK, States
<1>2. Live = {Root} /\ Opened = {}
  BY DEF Live, Opened
<1>3. Cardinality(Live) = 1 /\ Cardinality(Opened) = 0
  BY <1>2, FS_Singleton, FS_EmptySet
<1>5. CountersOK
  BY <1>3 DEF CountersOK
<1>4. ProgressOK
  BY RootReached DEF ProgressOK, Untouched
<1> QED BY <1>1, <1>5, <1>4 DEF IInv

LEMMA OpenInv == ASSUME IInv, NEW d \in Dirs, Open(d) PROVE IInv'
<1> USE TreeAssumption
<1>0. (IF d \in Readable THEN Sub[d] \cup Matches[d] ELSE {}) \in SUBSET (Dirs \cup Files)
  OBVIOUS
<1>1. TypeOK'
  BY <1>0 DEF IInv, TypeOK, States, Open
<1>2. Live' = Live
  BY DEF IInv, TypeOK, Open, Live
<1>3. Opened' = Opened \cup {d} /\ d \notin Opened
  BY DEF IInv, TypeOK, Open, Opened
<1>4. Cardinality(Opened') = Cardinality(Opened) + 1
  BY <1>3, Finite, FS_AddElement
<1>5. CountersOK'
  BY <1>2, <1>4 DEF IInv, TypeOK, CountersOK, Open
<1>6. ProgressOK'
  BY DEF IInv, TypeOK, CountersOK, ProgressOK, Untouched, Open
<1> QED BY <1>1, <1>5, <1>6 DEF IInv, Open

LEMMA DescendInv == ASSUME IInv, NEW d \in Dirs, NEW e \in Dirs, Descend(d, e) PROVE IInv'
<1> USE TreeAssumption
<1>0. d \in Readable /\ e \in Sub[d]
  BY DEF IInv, ProgressOK, Descend
<1>1. d \in Readable /\ e \in Sub[d] /\ state[e] = "none" /\ d # e
  BY <1>0 DEF IInv, ProgressOK, Untouched, Descend
<1>2. TypeOK'
  BY DEF IInv, TypeOK, States, Descend
<1>3. Live' = Live \cup {e} /\ e \notin Live
  BY <1>1 DEF IInv, TypeOK, Descend, Live
<1>4. Cardinality(Live') = Cardinality(Live) + 1
  BY <1>3, Finite, FS_AddElement
<1>5. Opened' = Opened
  BY <1>1 DEF IInv, TypeOK, Descend, Opened
<1>6. d \in Live
  BY DEF Descend, Live
<1>7. pending # 0
  BY <1>6, Finite, FS_EmptySet DEF IInv, CountersOK
<1>8. CountersOK'
  BY <1>1, <1>4, <1>5, <1>7 DEF IInv, TypeOK, CountersOK, Descend
<1>9. ProgressOK'
  <2>1. /\ state' = [state EXCEPT ![e] = "waiting"]
        /\ left' = [left EXCEPT ![d] = @ \ {e}]
        /\ UNCHANGED <<sending, printed>>
    BY DEF Descend
  <2>2. state'[Root] # "none" /\ \A x \in Dirs : state'[x] # "none" => x \in Reached
    BY <1>1, <2>1, SubReached DEF IInv, TypeOK, ProgressOK, Descend
  <2>3. \A x \in Dirs : left'[x] \subseteq left[x] /\ (x # d => left'[x] = left[x])
    BY <2>1 DEF IInv, TypeOK
  <2>4. \A x \in Dirs : x # d => Untouched(x)' = Untouched(x)
    BY <1>1, <2>1, <2>3 DEF IInv, TypeOK, Untouched
  <2>5. Untouched(d) = left[d] /\ Untouched(d)' = left[d] \ {e}
    BY <1>1, <2>1 DEF IInv, TypeOK, Untouched, Descend
  <2>6. \A x \in Dirs : \A y \in Sub[x] :
          (state'[y] = "none") <=> (x \notin Readable \/ y \in Untouched(x)')
    BY <1>1, <2>1, <2>4, <2>5 DEF IInv, TypeOK, ProgressOK
  <2>7. \A x \in Dirs : \A f \in Matches[x] : f \in Untouched(x)' <=> f \in Untouched(x)
    BY <2>4, <2>5
  <2> QED BY <2>1, <2>2, <2>3, <2>6, <2>7 DEF IInv, ProgressOK
<1> QED BY <1>2, <1>8, <1>9 DEF IInv, Descend

LEMMA MatchInv == ASSUME IInv, NEW d \in Dirs, NEW f \in Files, Match(d, f) PROVE IInv'
<1> USE TreeAssumption
<1>1. d \in Readable /\ f \in Matches[d]
  BY DEF IInv, TypeOK, ProgressOK, Untouched, Match
<1>2. TypeOK'
  BY DEF IInv, TypeOK, Match
<1>3. Live' = Live /\ Opened' = Opened
  BY DEF Match, Live, Opened
<1>4. CountersOK'
  BY <1>3 DEF IInv, TypeOK, CountersOK, Match
<1>5. ProgressOK'
  <2>1. /\ left' = [left EXCEPT ![d] = @ \ {f}]
        /\ sending' = [sending EXCEPT ![d] = f]
        /\ UNCHANGED <<state, printed>>
    BY DEF Match
  <2>2. \A x \in Dirs : x # d => Untouched(x)' = Untouched(x) /\ sending'[x] = sending[x]
    BY <2>1 DEF IInv, TypeOK, Untouched
  <2>3. /\ Untouched(d) = left[d] /\ Untouched(d)' = left[d] \ {f}
        /\ sending[d] = None /\ sending'[d] = f
    BY <2>1 DEF IInv, TypeOK, Untouched, Match
  <2>4. \A x \in Dirs : \A y \in Sub[x] : y \in Untouched(x)' <=> y \in Untouched(x)
    BY <2>2, <2>3
  <2>5. \A x \in Dirs : \A g \in Matches[x] :
          (g \in Untouched(x)' \/ sending'[x] = g) <=> (g \in Untouched(x) \/ sending[x] = g)
    BY <2>2, <2>3 DEF Match
  <2>6. \A x \in Dirs : left'[x] \subseteq left[x] /\ (x # d => left'[x] = left[x])
    BY <2>1 DEF IInv, TypeOK
  <2>7. \A x \in Dirs : sending'[x] # None =>
          x \in Readable /\ sending'[x] \in Matches[x] \ left'[x]
    BY <1>1, <2>1, <2>2, <2>6 DEF IInv, TypeOK, ProgressOK
  <2> QED BY <2>1, <2>4, <2>5, <2>6, <2>7 DEF IInv, ProgressOK
<1> QED BY <1>2, <1>4, <1>5 DEF IInv, Match

\* A sender is live, so the channel is open.
LEMMA SendInv == ASSUME IInv, NEW d \in Dirs, Send(d) PROVE IInv'
<1> USE TreeAssumption
<1>1. state[d] = "open" /\ d \in Readable /\ sending[d] \in Matches[d] \ left[d]
  BY DEF IInv, CountersOK, ProgressOK, Send
<1>2. ~closed
  BY <1>1, Finite, FS_EmptySet DEF IInv, CountersOK, Live
<1>3. TypeOK' /\ ~panicked'
  BY <1>2 DEF IInv, TypeOK, Send
<1>4. Live' = Live /\ Opened' = Opened
  BY DEF Send, Live, Opened
<1>5. CountersOK'
  BY <1>4 DEF IInv, TypeOK, CountersOK, Send
<1>6. ProgressOK'
  <2> DEFINE m == sending[d]
  <2>1. /\ m # None /\ UNCHANGED <<state, left>>
        /\ sending' = [sending EXCEPT ![d] = None]
        /\ printed' = [printed EXCEPT ![m] = @ + 1]
    BY <1>2 DEF Send
  <2>2. m \in Matches[d] /\ m \in Files /\ m \notin Untouched(d) /\ d \in Readable
    BY <1>1 DEF Untouched
  <2>3. \A x \in Dirs : Untouched(x)' = Untouched(x)
    BY <2>1 DEF Untouched
  <2>4. sending'[d] = None /\ \A x \in Dirs : x # d => sending'[x] = sending[x]
    BY <2>1 DEF IInv, TypeOK
  <2>5. printed'[m] = printed[m] + 1 /\ \A f \in Files : f # m => printed'[f] = printed[f]
    BY <2>1, <2>2 DEF IInv, TypeOK
  <2>6. printed[m] = 0
    BY <2>2 DEF IInv, ProgressOK
  <2>7. \A x \in Dirs : \A f \in Matches[x] :
          printed'[f] = IF x \notin Readable \/ f \in Untouched(x)' \/ sending'[x] = f THEN 0 ELSE 1
    <3> SUFFICES ASSUME NEW x \in Dirs, NEW f \in Matches[x]
                 PROVE  printed'[f] = IF x \notin Readable \/ f \in Untouched(x) \/ sending'[x] = f
                                      THEN 0 ELSE 1
      BY <2>3
    <3>1. f \in Files /\ f # None
      OBVIOUS
    <3>2. CASE f = m
      <4>1. x = d
        BY <2>2, <3>2
      <4> QED BY <4>1, <3>1, <3>2, <2>2, <2>4, <2>5, <2>6
    <3>3. CASE f # m
      BY <3>1, <3>3, <2>4, <2>5 DEF IInv, ProgressOK
    <3> QED BY <3>2, <3>3
  <2>8. \A f \in Files : (\A x \in Dirs : f \notin Matches[x]) => printed'[f] = 0
    BY <2>2, <2>5 DEF IInv, ProgressOK
  <2> HIDE DEF m
  <2> QED BY <2>1, <2>3, <2>4, <2>7, <2>8 DEF IInv, ProgressOK
<1> QED BY <1>3, <1>5, <1>6 DEF IInv

LEMMA ReleaseInv == ASSUME IInv, NEW d \in Dirs, Release(d) PROVE IInv'
<1> USE TreeAssumption
<1>1. Live' = Live
  BY DEF IInv, TypeOK, Release, Live
<1>2. Opened' = Opened \ {d} /\ d \in Opened
  BY DEF IInv, TypeOK, Release, Opened
<1>3. Cardinality(Opened') = Cardinality(Opened) - 1
  BY <1>2, Finite, FS_RemoveElement
<1>4. busy' \in Nat
  BY <1>2, <1>3, Finite, FS_EmptySet DEF IInv, CountersOK, Release
<1>5. TypeOK'
  BY <1>4 DEF IInv, TypeOK, States, Release
<1>6. CountersOK'
  BY <1>1, <1>3 DEF IInv, TypeOK, CountersOK, Release
<1>7. ProgressOK'
  BY DEF IInv, TypeOK, CountersOK, ProgressOK, Untouched, Release
<1> QED BY <1>5, <1>6, <1>7 DEF IInv, Release

LEMMA DoneInv == ASSUME IInv, NEW d \in Dirs, Done(d) PROVE IInv'
<1> USE TreeAssumption
<1>1. Opened' = Opened
  BY DEF IInv, TypeOK, Done, Opened
<1>2. Live' = Live \ {d} /\ d \in Live
  BY DEF IInv, TypeOK, Done, Live
<1>3. Cardinality(Live') = Cardinality(Live) - 1 /\ Cardinality(Live) # 0
  BY <1>2, Finite, FS_RemoveElement, FS_EmptySet
<1>4. TypeOK'
  BY <1>3, Finite DEF IInv, TypeOK, CountersOK, States, Done
<1>5. CountersOK'
  BY <1>1, <1>3 DEF IInv, TypeOK, CountersOK, Done
<1>6. ProgressOK'
  BY DEF IInv, TypeOK, CountersOK, ProgressOK, Untouched, Done
<1> QED BY <1>4, <1>5, <1>6 DEF IInv, Done

\* Steps that touch neither the directories nor the counters.
LEMMA IdleInv ==
  ASSUME IInv, \/ Close \/ UNCHANGED vars
               \/ MainEnds
  PROVE  IInv'
<1>1. UNCHANGED <<state, left, sending, busy, pending, printed, panicked>>
  BY DEF Close, MainEnds, vars
<1>2. TypeOK'
  BY <1>1 DEF IInv, TypeOK, Close, MainEnds, vars
<1>3. CountersOK'
  BY <1>1 DEF IInv, CountersOK, Close, MainEnds, vars, Live, Opened
<1>4. ProgressOK'
  BY <1>1 DEF IInv, ProgressOK, Untouched
<1> QED BY <1>1, <1>2, <1>3, <1>4 DEF IInv

\* The counters and the progress of every directory fit, in any tree.
THEOREM Invariant == Spec => []IInv
<1>1. IInv /\ [Next]_vars => IInv'
  <2> SUFFICES ASSUME IInv, Next \/ UNCHANGED vars PROVE IInv'
    OBVIOUS
  <2>1. CASE Close \/ MainEnds \/ UNCHANGED vars
    BY <2>1, IdleInv
  <2>2. ASSUME NEW d \in Dirs, Search(d) PROVE IInv'
    BY <2>2, OpenInv, DescendInv, MatchInv, SendInv, ReleaseInv, DoneInv DEF Search
  <2> QED BY <2>1, <2>2 DEF Next
<1> QED BY InitInv, <1>1, PTL DEF Spec

\* Nothing is left that could send once the channel is closed.
LEMMA LastClose == IInv => CloseIsLast
<1> SUFFICES ASSUME IInv, closed PROVE \A d \in Dirs : state[d] \in {"none", "done"} /\ sending[d] = None
  BY DEF CloseIsLast
<1>1. Live = {}
  BY Finite, FS_EmptySet DEF IInv, CountersOK
<1> QED BY <1>1 DEF Live, IInv, TypeOK, CountersOK, States

\* The channel is closed after the last send, whoever starts and ends in what
\* order.
THEOREM ClosedLast == Spec => []CloseIsLast
  BY Invariant, LastClose, PTL

\* No goroutine finds the channel closed.
THEOREM NoPanic == Spec => []NobodyPanics
<1>1. IInv => NobodyPanics
  BY DEF IInv, NobodyPanics
<1> QED BY Invariant, <1>1, PTL

\* The semaphore bounds the open directories.
THEOREM Throttled == Spec => []OpenBounded
<1>1. IInv => OpenBounded
  BY DEF IInv, CountersOK, OpenBounded
<1> QED BY Invariant, <1>1, PTL

\* The program ends with every match of the tree printed once: the directories
\* that were searched are a closed set.
THEOREM Complete == Spec => []AllIsPrinted
<1>1. IInv => AllIsPrinted
  <2> SUFFICES ASSUME IInv, main = "gone", NEW f \in Files
               PROVE  printed[f] = IF Wanted(f) THEN 1 ELSE 0
    BY DEF AllIsPrinted
  <2> USE TreeAssumption
  <2>1. \A d \in Dirs : state[d] \in {"none", "done"} /\ sending[d] = None /\ left[d] = {}
    BY LastClose DEF IInv, CountersOK, CloseIsLast
  <2> DEFINE V == {d \in Dirs : state[d] = "done"}
  <2>2. Closed(V)
    BY <2>1 DEF IInv, ProgressOK, Untouched, Closed
  <2>3. V = Reached
    BY <2>2 DEF IInv, ProgressOK, Reached
  <2>4. CASE Wanted(f)
    BY <2>1, <2>3, <2>4 DEF Wanted, IInv, ProgressOK, Untouched
  <2>5. CASE ~Wanted(f)
    <3>1. CASE \A d \in Dirs : f \notin Matches[d]
      BY <3>1, <2>5 DEF IInv, ProgressOK
    <3>2. ASSUME NEW d \in Dirs, f \in Matches[d] PROVE printed[f] = 0
      BY <3>2, <2>1, <2>3, <2>5 DEF Wanted, IInv, ProgressOK, Untouched
    <3> QED BY <3>1, <3>2, <2>5
  <2> QED BY <2>4, <2>5
<1> QED BY Invariant, <1>1, PTL

-----------------------------------------------------------------------------
(* The seeder: greatest and least lines *)

\* What Max and Min of a set of lines are.
LEMMA GreatestOfNaturals ==
  ASSUME NEW T, T \subseteq Nat, T # {}, NEW n \in Nat, \A x \in T : x <= n
  PROVE  Seeder!Max(T) \in T /\ \A x \in T : x <= Seeder!Max(T)
<1> DEFINE D == {n - x : x \in T}
<1>1. D \subseteq Nat /\ D # {}
  <2>1. \A x \in T : n - x \in Nat
    OBVIOUS
  <2>2. PICK x \in T : TRUE
    OBVIOUS
  <2>3. n - x \in D
    OBVIOUS
  <2> QED BY <2>1, <2>3
<1>2. PICK d \in D : \A y \in D : d <= y
  <2> HIDE DEF D
  <2> QED BY <1>1, LeastOfNaturals
<1>3. PICK m \in T : d = n - m
  BY <1>2
<1>4. \A x \in T : x <= m
  BY <1>2, <1>3
<1> QED BY <1>3, <1>4 DEF Seeder!Max

LEMMA LeastIsMin ==
  ASSUME NEW T, T \subseteq Nat, T # {}
  PROVE  Seeder!Min(T) \in T /\ \A x \in T : Seeder!Min(T) <= x
<1>1. PICK m \in T : \A x \in T : m <= x
  BY LeastOfNaturals
<1> QED BY <1>1 DEF Seeder!Min

\* The operators of the instance are those of Sorting.
LEMMA SeederArranges ==
  \A s, P, R : Seeder!Arranged(s, P, R) = Arranged(s, P, R)
<1>1. \A P, R, k : Seeder!Place(P, R, k) = Place(P, R, k)
  BY DEF Seeder!Place, Place, Seeder!Cardinality, Cardinality
<1> QED BY <1>1 DEF Seeder!Arranged, Arranged, Seeder!Cardinality, Cardinality

-----------------------------------------------------------------------------
(* The seeder: one scan *)

\* The word of a line and a prefix agree as far as both go.
Fits(f, prefix, i) ==
  \A k \in 1..Len(prefix) : k <= Len(f[i].word) => f[i].word[k] = prefix[k]

BucketOK(f, b) ==
  /\ b.prefix \in Seq(Nat)
  /\ b.start \in Nat \ {0} /\ b.end \in Nat /\ b.start < b.end /\ b.end <= Len(f) + 1
  /\ \A i \in b.start..(b.end - 1) : Fits(f, b.prefix, i)

\* One bucket after the other.
InLine(s) == \A k, l \in 1..Len(s) : k < l => s[k].end <= s[l].start

\* The sequence s cuts the lines from start to end into buckets, but for those
\* that have no letter after the prefix.
Cuts(f, s, prefix, start, end) ==
  /\ \E S : s \in Seq(S)
  /\ \A k \in 1..Len(s) : BucketOK(f, s[k]) /\ start <= s[k].start /\ s[k].end <= end
  /\ InLine(s)
  /\ \A i \in start..(end - 1) :
       Len(f[i].word) > Len(prefix) => \E k \in 1..Len(s) : Seeder!Holds(s[k], i)

\* The first letters of a longer word.
LEMMA FirstLetters ==
  ASSUME NEW w \in Seq(Nat), NEW m \in Nat, m <= Len(w)
  PROVE  /\ SubSeq(w, 1, m) \in Seq(Nat) /\ Len(SubSeq(w, 1, m)) = m
         /\ \A k \in 1..m : SubSeq(w, 1, m)[k] = w[k]
<1>1. \A k \in 1..m : w[k] \in Nat
  OBVIOUS
<1>2. SubSeq(w, 1, m) = [k \in 1..m |-> w[k]]
  OBVIOUS
<1>3. [k \in 1..m |-> w[k]] \in Seq(Nat)
  BY <1>1
<1>4. Len([k \in 1..m |-> w[k]]) = m
  OBVIOUS
<1> QED BY <1>2, <1>3, <1>4

\* What one scan finds of lines that fit a prefix: a child is opened by its first
\* line, ends where the next is opened, and its lines agree in one letter more.
ScanFacts(prefix, start, end, lines, opening) ==
  LET n == Len(prefix)
      End(l) == Seeder!End(l, opening, end)
  IN  /\ \A i \in start..(end - 1) :
           /\ i \in Nat /\ i \in 1..Len(file)
           /\ file[i].word \in Seq(Nat) /\ Len(file[i].word) \in Nat
           /\ i \in lines <=> Len(file[i].word) > n
      /\ lines \subseteq start..(end - 1) /\ opening \subseteq lines
      /\ \A i \in lines : /\ Seeder!Own(i, prefix) \in Seq(Nat) /\ Len(Seeder!Own(i, prefix)) = n + 1
                          /\ \A k \in 1..(n + 1) : Seeder!Own(i, prefix)[k] = file[i].word[k]
      /\ \A l \in opening : /\ End(l) \in Nat /\ l < End(l) /\ End(l) <= end
                            /\ \A m \in opening : l < m => End(l) <= m
                            /\ End(l) = end \/ End(l) \in opening
      /\ \A i \in lines :
           i \in opening \/ \E j \in lines : /\ j < i /\ \A l \in lines : l < i => l <= j
                                             /\ Seeder!Own(j, prefix) = Seeder!Own(i, prefix)
      /\ \A l \in opening, i \in lines :
           (l <= i /\ i < End(l)) => Seeder!Own(i, prefix) = Seeder!Own(l, prefix)

LEMMA OneScan ==
  ASSUME file \in Seq(Seeder!Phrase), NEW prefix \in Seq(Nat),
         NEW start \in Nat \ {0}, NEW end \in Nat, end <= Len(file) + 1,
         \A i \in start..(end - 1) : Fits(file, prefix, i)
  PROVE  LET lines == Seeder!Lines(prefix, start, end)
         IN  ScanFacts(prefix, start, end, lines, Seeder!Opening(lines, prefix))
<1> DEFINE lines == Seeder!Lines(prefix, start, end)
           opening == Seeder!Opening(lines, prefix)
           End(l) == Seeder!End(l, opening, end)
<1>2. PICK n \in Nat : n = Len(prefix)
  OBVIOUS
<1>3. \A i \in start..(end - 1) :
        /\ i \in Nat /\ i \in 1..Len(file)
        /\ file[i].word \in Seq(Nat) /\ Len(file[i].word) \in Nat
        /\ \A k \in 1..Len(file[i].word) : file[i].word[k] \in Nat
  <2>1. \A i \in 1..Len(file) : file[i].word \in Seq(Nat)
    <3>1. \A i \in 1..Len(file) : file[i] \in Seeder!Phrase
      OBVIOUS
    <3> QED BY <3>1 DEF Seeder!Phrase
  <2>2. \A i \in start..(end - 1) : i \in Nat /\ i \in 1..Len(file)
    OBVIOUS
  <2>3. \A w \in Seq(Nat) : Len(w) \in Nat /\ \A k \in 1..Len(w) : w[k] \in Nat
    OBVIOUS
  <2> QED BY <2>1, <2>2, <2>3
<1>4. /\ lines \subseteq start..(end - 1)
      /\ \A i \in start..(end - 1) : i \in lines <=> Len(file[i].word) > n
  BY <1>2 DEF Seeder!Lines
<1> HIDE DEF lines
<1>5. opening \subseteq lines
  BY DEF Seeder!Opening
<1>6. \A i \in lines : /\ i \in Nat /\ i \in start..(end - 1)
                       /\ file[i].word \in Seq(Nat) /\ Len(file[i].word) \in Nat
                       /\ Len(file[i].word) > n
  BY <1>3, <1>4
<1>7. ASSUME NEW i \in lines
      PROVE  /\ Seeder!Own(i, prefix) \in Seq(Nat) /\ Len(Seeder!Own(i, prefix)) = n + 1
             /\ \A k \in 1..(n + 1) : Seeder!Own(i, prefix)[k] = file[i].word[k]
  <2>1. PICK w \in Seq(Nat) : w = file[i].word /\ Len(w) > n
    BY <1>6
  <2>2. Seeder!Own(i, prefix) = SubSeq(w, 1, n + 1)
    BY <1>2, <2>1 DEF Seeder!Own
  <2>3. n + 1 \in Nat
    OBVIOUS
  <2>4. /\ SubSeq(w, 1, n + 1) \in Seq(Nat) /\ Len(SubSeq(w, 1, n + 1)) = n + 1
        /\ \A k \in 1..(n + 1) : SubSeq(w, 1, n + 1)[k] = w[k]
    <3>1. n + 1 <= Len(w)
      BY <2>1
    <3> QED BY <2>3, <3>1, FirstLetters, Zenon
  <2> QED BY <2>1, <2>2, <2>4
<1>8. ASSUME NEW i \in lines
      PROVE  i \in opening \/ \E j \in lines : /\ j < i /\ \A l \in lines : l < i => l <= j
                                               /\ Seeder!Own(j, prefix) = Seeder!Own(i, prefix)
  <2> DEFINE before == {l \in lines : l < i}
  <2>1. CASE i \notin opening
    <3>1. before # {} /\ Seeder!Own(Seeder!Max(before), prefix) = Seeder!Own(i, prefix)
      BY <2>1 DEF Seeder!Opening, Seeder!Opens
    <3>2. before \subseteq Nat /\ i \in Nat /\ \A x \in before : x <= i
      BY <1>6
    <3> HIDE DEF before
    <3>3. Seeder!Max(before) \in before /\ \A x \in before : x <= Seeder!Max(before)
      BY <3>1, <3>2, GreatestOfNaturals
    <3> QED BY <3>1, <3>3 DEF before
  <2> QED BY <2>1
<1>9. ASSUME NEW l \in opening
      PROVE  /\ End(l) \in Nat /\ l < End(l) /\ End(l) <= end
             /\ \A m \in opening : l < m => End(l) <= m
             /\ End(l) = end \/ End(l) \in opening
  <2> DEFINE T == {m \in opening : m > l} \cup {end}
  <2>1. End(l) = Seeder!Min(T)
    BY DEF Seeder!End
  <2>2. T \subseteq Nat /\ T # {} /\ l \in Nat /\ l < end
    BY <1>5, <1>6
  <2> HIDE DEF T
  <2>3. Seeder!Min(T) \in T /\ \A m \in T : Seeder!Min(T) <= m
    BY <2>2, LeastIsMin
  <2> QED BY <1>5, <1>6, <2>1, <2>2, <2>3 DEF T
<1> HIDE DEF opening, End
\* Between two openings all have the same letters.
<1>10. ASSUME NEW l \in opening, NEW i \in lines, l <= i, i < End(l)
       PROVE  Seeder!Own(i, prefix) = Seeder!Own(l, prefix)
  <2> DEFINE Wrong == {j \in lines : l <= j /\ j < End(l) /\ Seeder!Own(j, prefix) # Seeder!Own(l, prefix)}
  <2> SUFFICES ASSUME i \in Wrong PROVE FALSE
    BY <1>10
  <2>1. PICK j \in Wrong : \A k \in Wrong : j <= k
    <3>1. Wrong \subseteq Nat /\ Wrong # {}
      BY <1>6
    <3> HIDE DEF Wrong
    <3> QED BY <3>1, LeastOfNaturals
  <2>2. j \notin opening
    <3>1. j # l /\ l \in Nat /\ j \in Nat
      BY <1>5, <1>6
    <3>2. l < j
      BY <3>1
    <3>3. ~(End(l) <= j)
      BY <1>9, <3>1
    <3> QED BY <1>9, <3>2, <3>3
  <2>3. PICK m \in lines : /\ m < j /\ \A k \in lines : k < j => k <= m
                           /\ Seeder!Own(m, prefix) = Seeder!Own(j, prefix)
    BY <1>8, <2>2
  <2>4. l \in lines /\ l < j
    <3>1. j # l /\ l \in Nat /\ j \in Nat /\ l \in lines
      BY <1>5, <1>6
    <3> QED BY <3>1
  <2>5. l <= m /\ m < End(l)
    <3>1. l \in Nat /\ m \in Nat /\ j \in Nat /\ End(l) \in Nat
      BY <1>6, <1>9, <2>4
    <3> QED BY <2>3, <2>4, <3>1
  <2>6. m \in Wrong
    BY <2>3, <2>5
  <2>7. j <= m /\ m \in Nat /\ j \in Nat
    BY <1>6, <2>1, <2>6
  <2> QED BY <2>3, <2>7
<1>11. ScanFacts(prefix, start, end, lines, opening)
  <2> HIDE DEF End
  <2>1. \A l : End(l) = Seeder!End(l, opening, end)
    BY DEF End
  <2> QED BY <1>2, <1>3, <1>4, <1>5, <1>7, <1>8, <1>9, <1>10, <2>1 DEF ScanFacts
<1> QED BY <1>11 DEF lines, opening

\* The children of a scan, in the order of the lines that open them.
InOrderOf(s, children, opening) ==
  /\ \E X : s \in Seq(X)
  /\ \A k \in 1..Len(s) : \E l \in opening : s[k] = children[l]
  /\ \A l \in opening : \E k \in 1..Len(s) : s[k] = children[l]
  /\ \A k, l \in 1..Len(s) : k < l =>
       \E i, j \in opening : i < j /\ s[k] = children[i] /\ s[l] = children[j]

LEMMA ScanOrder ==
  ASSUME NEW opening \in SUBSET Nat, IsFiniteSet(opening), NEW children
  PROVE  InOrderOf(Seeder!Arranged(children, opening, {q \in opening \X opening : q[1] < q[2]}),
                   children, opening)
<1> DEFINE R == {q \in opening \X opening : q[1] < q[2]}
           s == Seeder!Arranged(children, opening, R)
           S == {children[l] : l \in opening}
<1>1. Arranges(s, S, children, opening, R)
  <2>1. \A l \in opening : l \in Nat
    OBVIOUS
  <2>2. Orders(R, opening)
    BY <2>1 DEF Orders
  <2>3. s = Arranged(children, opening, R)
    BY SeederArranges
  <2> HIDE DEF R, s
  <2> QED BY <2>2, <2>3, Arranging
<1> HIDE DEF s
<1>2. s \in Seq(S) /\ Range(s) = S
  BY <1>1 DEF Arranges
<1>3. \A k, l \in 1..Len(s) : k < l =>
          \E i, j \in opening : <<i, j>> \in R /\ s[k] = children[i] /\ s[l] = children[j]
  BY <1>1 DEF Arranges
<1>4. \A k \in 1..Len(s) : s[k] \in S
  <2> HIDE DEF S
  <2> QED BY <1>2
<1>5. \A x \in S : \E k \in 1..Len(s) : s[k] = x
  <2>1. DOMAIN s = 1..Len(s)
    BY <1>2
  <2>2. \A x \in Range(s) : \E k \in DOMAIN s : s[k] = x
    BY Zenon DEF Range
  <2> HIDE DEF S
  <2> QED BY <1>2, <2>1, <2>2
<1>6. \A l \in opening : children[l] \in S
  OBVIOUS
<1>7. \A x \in S : \E l \in opening : x = children[l]
  OBVIOUS
<1>8. \A i, j : <<i, j>> \in R => i < j
  OBVIOUS
<1> HIDE DEF S, R
<1>9. \A k \in 1..Len(s) : \E l \in opening : s[k] = children[l]
  BY <1>4, <1>7
<1>10. \A l \in opening : \E k \in 1..Len(s) : s[k] = children[l]
  BY <1>5, <1>6
<1>11. ASSUME NEW k \in 1..Len(s), NEW l \in 1..Len(s), k < l
       PROVE  \E i, j \in opening : i < j /\ s[k] = children[i] /\ s[l] = children[j]
  <2>1. PICK i \in opening, j \in opening : <<i, j>> \in R /\ s[k] = children[i] /\ s[l] = children[j]
    BY <1>3, <1>11
  <2> QED BY <1>8, <2>1
<1>12. InOrderOf(s, children, opening)
  BY <1>2, <1>9, <1>10, <1>11 DEF InOrderOf
<1> QED BY <1>12 DEF s, R

\* Lines that fit a prefix are cut by one scan.
LEMMA ScanCuts ==
  ASSUME file \in Seq(Seeder!Phrase), NEW prefix \in Seq(Nat),
         NEW start \in Nat \ {0}, NEW end \in Nat, end <= Len(file) + 1,
         \A i \in start..(end - 1) : Fits(file, prefix, i)
  PROVE  Cuts(file, Seeder!Scan(prefix, start, end), prefix, start, end)
<1> DEFINE lines == Seeder!Lines(prefix, start, end)
           opening == Seeder!Opening(lines, prefix)
           End(l) == Seeder!End(l, opening, end)
           children == [l \in opening |-> Seeder!Child(l, lines, prefix, End(l))]
           R == {q \in opening \X opening : q[1] < q[2]}
           s == Seeder!Arranged(children, opening, R)
<1>1. Seeder!Scan(prefix, start, end) = s
  BY DEF Seeder!Scan
<1>2. PICK n \in Nat : n = Len(prefix)
  OBVIOUS
<1>22. ScanFacts(prefix, start, end, lines, opening)
  BY OneScan
<1> HIDE DEF lines, opening
<1>3. \A i \in start..(end - 1) :
        /\ i \in Nat /\ i \in 1..Len(file)
        /\ file[i].word \in Seq(Nat) /\ Len(file[i].word) \in Nat
  BY <1>22 DEF ScanFacts
<1>4. /\ lines \subseteq start..(end - 1)
      /\ \A i \in start..(end - 1) : i \in lines <=> Len(file[i].word) > n
  BY <1>2, <1>22 DEF ScanFacts
<1>5. opening \subseteq lines
  BY <1>22 DEF ScanFacts
<1>6. \A i \in lines : /\ i \in Nat /\ i \in start..(end - 1)
                       /\ file[i].word \in Seq(Nat) /\ Len(file[i].word) \in Nat
                       /\ Len(file[i].word) > n
  BY <1>3, <1>4
<1>7. \A i \in lines : /\ Seeder!Own(i, prefix) \in Seq(Nat) /\ Len(Seeder!Own(i, prefix)) = n + 1
                       /\ \A k \in 1..(n + 1) : Seeder!Own(i, prefix)[k] = file[i].word[k]
  BY <1>2, <1>22 DEF ScanFacts
<1>8. \A i \in lines :
        i \in opening \/ \E j \in lines : /\ j < i /\ \A l \in lines : l < i => l <= j
                                          /\ Seeder!Own(j, prefix) = Seeder!Own(i, prefix)
  BY <1>22 DEF ScanFacts
<1>9. \A l \in opening : /\ End(l) \in Nat /\ l < End(l) /\ End(l) <= end
                         /\ \A m \in opening : l < m => End(l) <= m
                         /\ End(l) = end \/ End(l) \in opening
  BY <1>22 DEF ScanFacts
<1>10. \A l \in opening, i \in lines :
         (l <= i /\ i < End(l)) => Seeder!Own(i, prefix) = Seeder!Own(l, prefix)
  BY <1>22 DEF ScanFacts
<1> HIDE DEF End
\* Every line with a letter more is after an opening, the last of which holds it.
<1>11. ASSUME NEW i \in lines
       PROVE  \E l \in opening : l <= i /\ i < End(l)
  <2> DEFINE T == {l \in opening : l <= i}
             U == {j \in lines : j <= i}
  <2>1. T # {}
    <3>1. PICK j \in U : \A k \in U : j <= k
      <4>1. U \subseteq Nat /\ i \in U
        BY <1>6
      <4> HIDE DEF U
      <4> QED BY <4>1, LeastOfNaturals
    <3>2. j \in opening
      <4> SUFFICES ASSUME NEW m \in lines, m < j PROVE FALSE
        BY <1>8
      <4>1. m \in Nat /\ j \in Nat /\ i \in Nat
        BY <1>6
      <4>2. m \in U
        BY <4>1
      <4> QED BY <3>1, <4>1, <4>2
    <3> QED BY <3>2
  <2>2. T \subseteq Nat /\ i \in Nat /\ \A x \in T : x <= i
    BY <1>5, <1>6
  <2> HIDE DEF T
  <2>3. Seeder!Max(T) \in T /\ \A x \in T : x <= Seeder!Max(T)
    BY <2>1, <2>2, GreatestOfNaturals
  <2>4. PICK l \in T : \A x \in T : x <= l
    BY <2>3
  <2>5. l \in opening /\ l <= i /\ l \in Nat
    BY <2>2 DEF T
  <2>6. i < End(l)
    <3> SUFFICES ASSUME ~(i < End(l)) PROVE FALSE
      OBVIOUS
    <3>1. End(l) \in Nat /\ l < End(l) /\ i < end
      BY <1>6, <1>9, <2>5
    <3>2. End(l) \in opening
      BY <1>9, <2>2, <2>5, <3>1
    <3>3. End(l) \in T
      BY <2>2, <3>1, <3>2 DEF T
    <3> QED BY <2>4, <2>5, <3>1, <3>3
  <2> QED BY <2>5, <2>6
<1>12. ASSUME NEW l \in opening
       PROVE  /\ children[l].prefix = Seeder!Own(l, prefix)
              /\ children[l].start = l /\ children[l].end = End(l)
  BY DEF Seeder!Child
<1> HIDE DEF children
<1>13. ASSUME NEW l \in opening
       PROVE  BucketOK(file, children[l]) /\ start <= children[l].start /\ children[l].end <= end
  <2>1. l \in lines /\ l \in Nat \ {0} /\ l \in start..(end - 1)
    BY <1>5, <1>6
  <2>2. End(l) \in Nat /\ l < End(l) /\ End(l) <= end /\ End(l) <= Len(file) + 1
    BY <1>9
  <2> DEFINE own == Seeder!Own(l, prefix)
  <2>3. own \in Seq(Nat) /\ Len(own) = n + 1 /\ \A k \in 1..(n + 1) : own[k] = file[l].word[k]
    BY <1>7, <2>1
  <2>4. ASSUME NEW i \in l..(End(l) - 1) PROVE Fits(file, own, i)
    <3>1. i \in start..(end - 1) /\ l <= i /\ i < End(l)
      BY <2>1, <2>2
    <3>2. CASE i \in lines
      <4>1. Seeder!Own(i, prefix) = own
        BY <1>10, <3>1, <3>2
      <4>2. \A k \in 1..(n + 1) : own[k] = file[i].word[k]
        BY <1>7, <3>2, <4>1
      <4> HIDE DEF own
      <4> QED BY <2>3, <4>2 DEF Fits
    <3>3. CASE i \notin lines
      <4>1. Len(file[i].word) <= n /\ Len(file[i].word) \in Nat
        BY <1>3, <1>4, <3>1, <3>3
      <4>2. Fits(file, prefix, i) /\ Fits(file, prefix, l)
        BY <2>1, <3>1
      <4>3. Len(file[l].word) > n
        BY <1>6, <2>1
      <4> HIDE DEF own
      <4> SUFFICES ASSUME NEW k \in 1..(n + 1), k <= Len(file[i].word)
                   PROVE  file[i].word[k] = own[k]
        BY <2>3 DEF Fits
      <4>4. k \in 1..n /\ k <= Len(file[l].word)
        BY <1>6, <2>1, <4>1, <4>3
      <4>5. file[i].word[k] = prefix[k] /\ file[l].word[k] = prefix[k]
        BY <1>2, <4>2, <4>4 DEF Fits
      <4> QED BY <2>3, <4>5
    <3> QED BY <3>2, <3>3
  <2> HIDE DEF own
  <2>5. children[l].prefix = own /\ children[l].start = l /\ children[l].end = End(l)
    BY <1>12 DEF own
  <2> QED BY <2>1, <2>2, <2>3, <2>4, <2>5 DEF BucketOK
<1>14. IsFiniteSet(opening)
  <2>1. start \in Int /\ end - 1 \in Int
    OBVIOUS
  <2>2. IsFiniteSet(start..(end - 1))
    BY <2>1, FS_Interval
  <2>3. opening \in SUBSET (start..(end - 1))
    BY <1>4, <1>5
  <2> QED BY <2>2, <2>3, FS_Subset
<1>15. InOrderOf(s, children, opening)
  <2>1. opening \in SUBSET Nat
    BY <1>5, <1>6
  <2> QED BY <1>14, <2>1, ScanOrder
<1> HIDE DEF s
<1>16. \E X : s \in Seq(X)
  BY <1>15 DEF InOrderOf
<1>17. InLine(s)
  <2> SUFFICES ASSUME NEW k \in 1..Len(s), NEW l \in 1..Len(s), k < l
               PROVE  s[k].end <= s[l].start
    BY DEF InLine
  <2>1. PICK i \in opening, j \in opening : i < j /\ s[k] = children[i] /\ s[l] = children[j]
    BY <1>15 DEF InOrderOf
  <2> QED BY <1>9, <1>12, <2>1
<1>18. ASSUME NEW i \in start..(end - 1), Len(file[i].word) > Len(prefix)
       PROVE  \E k \in 1..Len(s) : Seeder!Holds(s[k], i)
  <2>1. i \in lines
    BY <1>2, <1>4, <1>18
  <2>2. PICK l \in opening : l <= i /\ i < End(l)
    BY <1>11, <2>1
  <2>3. PICK k \in 1..Len(s) : s[k] = children[l]
    BY <1>15 DEF InOrderOf
  <2> QED BY <1>12, <2>2, <2>3 DEF Seeder!Holds
<1>19. \A k \in 1..Len(s) : BucketOK(file, s[k]) /\ start <= s[k].start /\ s[k].end <= end
  BY <1>13, <1>15 DEF InOrderOf
<1>20. \A i \in start..(end - 1) :
         Len(file[i].word) > Len(prefix) => \E k \in 1..Len(s) : Seeder!Holds(s[k], i)
  BY <1>18
<1> HIDE DEF s
<1>21. Cuts(file, s, prefix, start, end)
  BY <1>16, <1>17, <1>19, <1>20, Zenon DEF Cuts
<1> QED BY <1>1, <1>21, Zenon

-----------------------------------------------------------------------------
(* The seeder: every line has its bucket *)

\* The pending buckets p are in line and after the queued ones q, which do not
\* overlap.  A phrase is in one of them, or as short as the prefix of one of s
\* that it was in.
LinesKept(f, p, q, s) ==
  /\ \E S : p \in Seq(S)
  /\ \A k \in 1..Len(p) : BucketOK(f, p[k])
  /\ InLine(p)
  /\ \A b \in q : BucketOK(f, b) /\ \A k \in 1..Len(p) : b.end <= p[k].start
  /\ \A b, c \in q : b = c \/ b.end <= c.start \/ c.end <= b.start
  /\ \A i \in 1..Len(f) :
       Len(f[i].word) > 0 =>
         \/ \E k \in 1..Len(p) : Seeder!Holds(p[k], i)
         \/ \E b \in q : Seeder!Holds(b, i)
         \/ \E b \in s : Seeder!Holds(b, i) /\ Len(f[i].word) <= Len(b.prefix)
                          /\ Fits(f, b.prefix, i)

\* The first scan cuts the whole file.
LEMMA WholeFile ==
  ASSUME NEW f \in Seq(Seeder!Phrase), NEW p, Cuts(f, p, <<>>, 1, Len(f) + 1)
  PROVE  LinesKept(f, p, {}, {})
<1>1. Len(f) \in Nat /\ Len(<<>>) = 0 /\ 1..Len(f) = 1..((Len(f) + 1) - 1)
  OBVIOUS
<1> QED BY <1>1 DEF Cuts, LinesKept

LEMMA FirstAndRest ==
  ASSUME NEW S, NEW p \in Seq(S), p # <<>>
  PROVE  /\ Len(p) \in Nat \ {0} /\ Head(p) = p[1]
         /\ Tail(p) \in Seq(S) /\ Len(Tail(p)) = Len(p) - 1
         /\ \A k \in 1..(Len(p) - 1) : Tail(p)[k] = p[k + 1]
OBVIOUS

\* The first pending bucket goes to the queued ones.
LEMMA Queueing ==
  ASSUME NEW f \in Seq(Seeder!Phrase), NEW p, NEW q, NEW s, LinesKept(f, p, q, s), p # <<>>
  PROVE  LinesKept(f, Tail(p), q \cup {Head(p)}, s)
<1>1. PICK S : p \in Seq(S)
  BY DEF LinesKept
<1>2. /\ Len(p) \in Nat \ {0} /\ Head(p) = p[1]
      /\ Tail(p) \in Seq(S) /\ Len(Tail(p)) = Len(p) - 1
      /\ \A k \in 1..(Len(p) - 1) : Tail(p)[k] = p[k + 1]
  BY <1>1, FirstAndRest
<1> DEFINE n == Len(p)
           r == Tail(p)
           h == Head(p)
<1>3. /\ n \in Nat \ {0} /\ h = p[1] /\ Len(r) = n - 1
      /\ \A k \in 1..(n - 1) : r[k] = p[k + 1] /\ k + 1 \in 1..n
  BY <1>2
<1>4. \A k \in 1..n : k = 1 \/ (k - 1 \in 1..(n - 1) /\ (k - 1) + 1 = k)
  BY <1>3
<1>5. /\ \A k \in 1..n : BucketOK(f, p[k])
      /\ \A k, l \in 1..n : k < l => p[k].end <= p[l].start
      /\ \A b \in q : BucketOK(f, b) /\ \A k \in 1..n : b.end <= p[k].start
      /\ \A b, c \in q : b = c \/ b.end <= c.start \/ c.end <= b.start
  BY DEF LinesKept, InLine
<1>6. \A i \in 1..Len(f) :
       Len(f[i].word) > 0 =>
         \/ \E k \in 1..n : Seeder!Holds(p[k], i)
         \/ \E b \in q : Seeder!Holds(b, i)
         \/ \E b \in s : Seeder!Holds(b, i) /\ Len(f[i].word) <= Len(b.prefix)
                          /\ Fits(f, b.prefix, i)
  BY DEF LinesKept
<1> HIDE DEF n, r, h
<1>7. 1 \in 1..n
  BY <1>3
<1>8. \A k \in 1..(n - 1) : BucketOK(f, r[k]) /\ h.end <= r[k].start
  BY <1>3, <1>5, <1>7
<1>9. \A k, l \in 1..(n - 1) : k < l => r[k].end <= r[l].start
  <2> SUFFICES ASSUME NEW k \in 1..(n - 1), NEW l \in 1..(n - 1), k < l
               PROVE  r[k].end <= r[l].start
    OBVIOUS
  <2> QED BY <1>3, <1>5
<1>10. BucketOK(f, h) /\ \A b \in q : b.end <= h.start
  BY <1>3, <1>5, <1>7
<1>11. \A b \in q : \A k \in 1..(n - 1) : b.end <= r[k].start
  BY <1>3, <1>5
<1>12. \A i : (\E k \in 1..n : Seeder!Holds(p[k], i))
           => Seeder!Holds(h, i) \/ \E k \in 1..(n - 1) : Seeder!Holds(r[k], i)
  <2> SUFFICES ASSUME NEW i, NEW k \in 1..n, Seeder!Holds(p[k], i)
               PROVE  Seeder!Holds(h, i) \/ \E l \in 1..(n - 1) : Seeder!Holds(r[l], i)
    OBVIOUS
  <2>1. CASE k = 1
    BY <1>3, <2>1
  <2>2. CASE k # 1
    BY <1>3, <1>4, <2>2
  <2> QED BY <2>1, <2>2
<1>13. LinesKept(f, r, q \cup {h}, s)
  <2>1. \E X : r \in Seq(X)
    BY <1>2 DEF r
  <2>2. \A b \in q \cup {h} : BucketOK(f, b) /\ \A k \in 1..Len(r) : b.end <= r[k].start
    BY <1>3, <1>5, <1>8, <1>10, <1>11
  <2>3. \A b, c \in q \cup {h} : b = c \/ b.end <= c.start \/ c.end <= b.start
    BY <1>5, <1>10
  <2>4. \A i \in 1..Len(f) :
         Len(f[i].word) > 0 =>
           \/ \E k \in 1..Len(r) : Seeder!Holds(r[k], i)
           \/ \E b \in q \cup {h} : Seeder!Holds(b, i)
           \/ \E b \in s : Seeder!Holds(b, i) /\ Len(f[i].word) <= Len(b.prefix)
                            /\ Fits(f, b.prefix, i)
    BY <1>3, <1>6, <1>12
  <2>5. InLine(r) /\ \A k \in 1..Len(r) : BucketOK(f, r[k])
    BY <1>3, <1>8, <1>9 DEF InLine
  <2> QED BY <2>1, <2>2, <2>3, <2>4, <2>5 DEF LinesKept
<1> QED BY <1>13 DEF r, h

\* What cuts the first pending bucket takes its place.
LEMMA Splitting ==
  ASSUME NEW f \in Seq(Seeder!Phrase), NEW p, NEW q, NEW s, LinesKept(f, p, q, s), p # <<>>,
         NEW c, Cuts(f, c, Head(p).prefix, Head(p).start, Head(p).end)
  PROVE  LinesKept(f, c \o Tail(p), q, s \cup {Head(p)})
<1> DEFINE n == Len(p)
           m == Len(c)
           r == c \o Tail(p)
           h == Head(p)
<1>1. PICK S : p \in Seq(S)
  BY DEF LinesKept
<1>2. PICK T : c \in Seq(T)
  BY DEF Cuts
<1>3. /\ Len(p) \in Nat \ {0} /\ Head(p) = p[1]
      /\ Tail(p) \in Seq(S) /\ Len(Tail(p)) = Len(p) - 1
      /\ \A k \in 1..(Len(p) - 1) : Tail(p)[k] = p[k + 1]
  BY <1>1, FirstAndRest
<1>4. /\ n \in Nat \ {0} /\ m \in Nat /\ h = p[1] /\ 1 \in 1..n
      /\ \E X : r \in Seq(X)
      /\ Len(r) = m + (n - 1)
      /\ \A k \in 1..m : r[k] = c[k] /\ k \in 1..Len(r)
      /\ \A k \in 2..n : r[m + k - 1] = p[k] /\ m + k - 1 \in 1..Len(r)
  <2> DEFINE X == S \cup T
             t == Tail(p)
  <2>1. t \in Seq(X) /\ c \in Seq(X)
    <3>1. Len(t) \in Nat /\ t = [k \in 1..Len(t) |-> t[k]] /\ \A k \in 1..Len(t) : t[k] \in X
      <4>1. t \in Seq(S)
        BY <1>3
      <4> HIDE DEF t
      <4> QED BY <4>1
    <3>2. Len(c) \in Nat /\ c = [k \in 1..Len(c) |-> c[k]] /\ \A k \in 1..Len(c) : c[k] \in X
      BY <1>2
    <3> HIDE DEF t, X
    <3>3. \A u : (Len(u) \in Nat /\ u = [k \in 1..Len(u) |-> u[k]] /\ \A k \in 1..Len(u) : u[k] \in X)
               => u \in Seq(X)
      OBVIOUS
    <3> QED BY <3>1, <3>2, <3>3
  <2>2. Len(t) = n - 1 /\ n \in Nat \ {0} /\ \A k \in 1..(n - 1) : t[k] = p[k + 1]
    BY <1>3
  <2> HIDE DEF t, X, n
  <2>3. m \in Nat
    BY <1>2
  <2>4. r \in Seq(X) /\ Len(r) = m + (n - 1)
    BY <2>1, <2>2 DEF t
  <2>5. \A k \in 1..m : r[k] = c[k] /\ k \in 1..Len(r)
    BY <2>1, <2>2, <2>4 DEF t
  <2>6. ASSUME NEW k \in 2..n PROVE r[m + k - 1] = p[k] /\ m + k - 1 \in 1..Len(r)
    <3>1. k - 1 \in 1..(n - 1) /\ (k - 1) + 1 = k /\ m + k - 1 = m + (k - 1)
      BY <2>2, <2>3
    <3>2. \A j \in 1..Len(t) : r[m + j] = t[j]
      BY <2>1, <2>3 DEF t
    <3>3. r[m + (k - 1)] = p[k]
      BY <2>2, <3>1, <3>2
    <3> QED BY <2>2, <2>3, <2>4, <3>1, <3>3
  <2>7. h = p[1] /\ 1 \in 1..n
    BY <1>3, <2>2
  <2> QED BY <2>2, <2>3, <2>4, <2>5, <2>6, <2>7
<1>5. /\ \A k \in 1..n : BucketOK(f, p[k])
      /\ \A k, l \in 1..n : k < l => p[k].end <= p[l].start
      /\ \A b \in q : BucketOK(f, b) /\ \A k \in 1..n : b.end <= p[k].start
      /\ \A b, d \in q : b = d \/ b.end <= d.start \/ d.end <= b.start
  BY DEF LinesKept, InLine
<1>6. \A i \in 1..Len(f) :
       Len(f[i].word) > 0 =>
         \/ \E k \in 1..n : Seeder!Holds(p[k], i)
         \/ \E b \in q : Seeder!Holds(b, i)
         \/ \E b \in s : Seeder!Holds(b, i) /\ Len(f[i].word) <= Len(b.prefix)
                          /\ Fits(f, b.prefix, i)
  BY DEF LinesKept
<1>7. /\ \A k \in 1..m : BucketOK(f, c[k]) /\ h.start <= c[k].start /\ c[k].end <= h.end
      /\ \A k, l \in 1..m : k < l => c[k].end <= c[l].start
      /\ \A i \in h.start..(h.end - 1) :
           Len(f[i].word) > Len(h.prefix) => \E k \in 1..m : Seeder!Holds(c[k], i)
  BY DEF Cuts, InLine
<1> HIDE DEF n, m, r, h
<1>8. \A k \in 1..Len(r) :
        (k \in 1..m /\ r[k] = c[k]) \/ \E l \in 2..n : k = m + l - 1 /\ r[k] = p[l]
  <2> SUFFICES ASSUME NEW k \in 1..Len(r), k \notin 1..m
               PROVE  \E l \in 2..n : k = m + l - 1 /\ r[k] = p[l]
    BY <1>4
  <2>1. k - m + 1 \in 2..n /\ k = m + (k - m + 1) - 1
    BY <1>4
  <2> QED BY <1>4, <2>1
<1>9. BucketOK(f, h)
  BY <1>4, <1>5
<1>10. h.start \in Nat \ {0} /\ h.end \in Nat /\ h.end <= Len(f) + 1 /\ Len(f) \in Nat
       /\ h.prefix \in Seq(Nat) /\ \A i \in h.start..(h.end - 1) : Fits(f, h.prefix, i)
  BY <1>9 DEF BucketOK
<1>11. \A k \in 1..Len(r) : BucketOK(f, r[k]) /\ h.start <= r[k].start
  <2> SUFFICES ASSUME NEW k \in 1..Len(r) PROVE BucketOK(f, r[k]) /\ h.start <= r[k].start
    OBVIOUS
  <2>1. CASE k \in 1..m /\ r[k] = c[k]
    BY <1>7, <2>1
  <2>2. ASSUME NEW l \in 2..n, r[k] = p[l] PROVE BucketOK(f, r[k]) /\ h.start <= r[k].start
    <3>1. l \in 1..n /\ 1 < l
      BY <1>4
    <3>2. h.end <= p[l].start /\ BucketOK(f, p[l])
      BY <1>4, <1>5, <3>1
    <3>3. h.start < h.end
      BY <1>9 DEF BucketOK
    <3>4. p[l].start \in Nat
      BY <3>2 DEF BucketOK
    <3> QED BY <1>10, <2>2, <3>2, <3>3, <3>4
  <2> QED BY <1>8, <2>1, <2>2
<1>12. InLine(r)
  <2> SUFFICES ASSUME NEW k \in 1..Len(r), NEW l \in 1..Len(r), k < l
               PROVE  r[k].end <= r[l].start
    BY DEF InLine
  <2>1. CASE k \in 1..m /\ l \in 1..m
    BY <1>4, <1>7, <2>1
  <2>2. CASE k \in 1..m /\ l \notin 1..m
    <3>1. r[k] = c[k] /\ c[k].end <= h.end /\ BucketOK(f, c[k])
      BY <1>4, <1>7, <2>2
    <3>2. PICK j \in 2..n : r[l] = p[j]
      BY <1>8, <2>2
    <3>3. j \in 1..n /\ 1 < j
      BY <1>4
    <3>4. h.end <= p[j].start /\ BucketOK(f, p[j])
      BY <1>4, <1>5, <3>3
    <3>5. c[k].end \in Nat /\ p[j].start \in Nat
      BY <3>1, <3>4 DEF BucketOK
    <3> QED BY <1>10, <3>1, <3>2, <3>4, <3>5
  <2>3. CASE k \notin 1..m
    <3>1. l \notin 1..m
      BY <1>4, <2>3
    <3>2. PICK i \in 2..n : k = m + i - 1 /\ r[k] = p[i]
      BY <1>8, <2>3
    <3>3. PICK j \in 2..n : l = m + j - 1 /\ r[l] = p[j]
      BY <1>8, <3>1
    <3>4. i \in 1..n /\ j \in 1..n /\ i < j
      BY <1>4, <3>2, <3>3
    <3> QED BY <1>5, <3>2, <3>3, <3>4
  <2> QED BY <2>1, <2>2, <2>3
<1>13. \A b \in q : \A k \in 1..Len(r) : b.end <= r[k].start
  <2> SUFFICES ASSUME NEW b \in q, NEW k \in 1..Len(r) PROVE b.end <= r[k].start
    OBVIOUS
  <2>1. b.end <= h.start /\ b.end \in Nat
    BY <1>4, <1>5 DEF BucketOK
  <2>2. h.start <= r[k].start /\ r[k].start \in Nat
    BY <1>11 DEF BucketOK
  <2> QED BY <1>10, <2>1, <2>2
<1>14. ASSUME NEW i \in 1..Len(f), Len(f[i].word) > 0
       PROVE  \/ \E k \in 1..Len(r) : Seeder!Holds(r[k], i)
              \/ \E b \in q : Seeder!Holds(b, i)
              \/ \E b \in s \cup {h} : Seeder!Holds(b, i) /\ Len(f[i].word) <= Len(b.prefix)
                                     /\ Fits(f, b.prefix, i)
  <2>1. ASSUME NEW k \in 1..n, Seeder!Holds(p[k], i), k # 1
        PROVE  \E l \in 1..Len(r) : Seeder!Holds(r[l], i)
    <3>1. k \in 2..n
      BY <1>4, <2>1
    <3> QED BY <1>4, <2>1, <3>1
  <2>2. ASSUME Seeder!Holds(h, i)
        PROVE  \/ \E k \in 1..Len(r) : Seeder!Holds(r[k], i)
               \/ Len(f[i].word) <= Len(h.prefix) /\ Fits(f, h.prefix, i)
    <3>1. i \in h.start..(h.end - 1)
      BY <1>10, <2>2 DEF Seeder!Holds
    <3>2. Fits(f, h.prefix, i)
      BY <1>10, <3>1
    <3>3. CASE Len(f[i].word) > Len(h.prefix)
      BY <1>4, <1>7, <3>1, <3>3
    <3>4. CASE ~(Len(f[i].word) > Len(h.prefix))
      <4>1. f[i].word \in Seq(Nat)
        <5>1. f[i] \in Seeder!Phrase
          OBVIOUS
        <5> QED BY <5>1 DEF Seeder!Phrase
      <4>2. Len(f[i].word) \in Nat /\ Len(h.prefix) \in Nat
        BY <1>10, <4>1
      <4> QED BY <3>2, <3>4, <4>2
    <3> QED BY <3>3, <3>4
  <2>3. CASE \E k \in 1..n : Seeder!Holds(p[k], i)
    BY <1>4, <2>1, <2>2, <2>3
  <2> QED BY <1>6, <1>14, <2>3
<1>15. LinesKept(f, r, q, s \cup {h})
  BY <1>4, <1>5, <1>11, <1>12, <1>13, <1>14 DEF LinesKept
<1> QED BY <1>15 DEF r, h

\* What the invariant says of every line is what is meant by it.
LEMMA OneBucket ==
  ASSUME file \in Seq(Seeder!Phrase), LinesKept(file, buckets, queued, split)
  PROVE  EveryLineHasItsBucket
<1> DEFINE n == Len(buckets)
           all == queued \cup {buckets[k] : k \in 1..n}
<1>1. Seeder!Buckets = all
  <2>1. PICK S : buckets \in Seq(S)
    BY DEF LinesKept
  <2>2. DOMAIN buckets = 1..n
    BY <2>1
  <2> QED BY <2>2 DEF Seeder!Buckets, Seeder!ToSet
<1>2. /\ \A k \in 1..n : BucketOK(file, buckets[k])
      /\ \A k, l \in 1..n : k < l => buckets[k].end <= buckets[l].start
      /\ \A b \in queued : BucketOK(file, b) /\ \A k \in 1..n : b.end <= buckets[k].start
      /\ \A b, c \in queued : b = c \/ b.end <= c.start \/ c.end <= b.start
      /\ \A i \in 1..Len(file) :
           Len(file[i].word) > 0 =>
             \/ \E k \in 1..n : Seeder!Holds(buckets[k], i)
             \/ \E b \in queued : Seeder!Holds(b, i)
             \/ \E b \in split : Seeder!Holds(b, i) /\ Len(file[i].word) <= Len(b.prefix)
                                  /\ Fits(file, b.prefix, i)
  BY DEF LinesKept, InLine
<1>3. \A k, l \in 1..n : k = l \/ k < l \/ l < k
  OBVIOUS
<1> HIDE DEF n
<1>4. \A b \in all : b.start \in Nat /\ b.end \in Nat
  BY <1>2 DEF BucketOK
<1>5. \A b, c \in all : b = c \/ b.end <= c.start \/ c.end <= b.start
  <2> SUFFICES ASSUME NEW b \in all, NEW c \in all
               PROVE  b = c \/ b.end <= c.start \/ c.end <= b.start
    OBVIOUS
  <2>1. CASE b \in queued /\ c \in queued
    BY <1>2, <2>1
  <2>2. CASE b \in queued /\ c \notin queued
    BY <1>2, <2>2
  <2>3. CASE b \notin queued /\ c \in queued
    BY <1>2, <2>3
  <2>4. CASE b \notin queued /\ c \notin queued
    BY <1>2, <1>3, <2>4
  <2> QED BY <2>1, <2>2, <2>3, <2>4
<1>6. ASSUME NEW i \in 1..Len(file), file[i].word # <<>>
      PROVE  LET holding == {b \in all : Seeder!Holds(b, i)}
             IN  \/ Seeder!Cardinality(holding) = 1
                 \/ /\ holding = {}
                    /\ \E b \in split : Seeder!Holds(b, i) /\ Seeder!IsPrefix(file[i].word, b.prefix)
  <2> DEFINE holding == {b \in all : Seeder!Holds(b, i)}
  <2>1. file[i].word \in Seq(Nat) /\ Len(file[i].word) > 0 /\ i \in Nat
    <3>1. file[i] \in Seeder!Phrase
      OBVIOUS
    <3>2. file[i].word \in Seq(Nat)
      BY <3>1 DEF Seeder!Phrase
    <3> QED BY <1>6, <3>2
  <2>2. ASSUME NEW b \in holding PROVE Seeder!Cardinality(holding) = 1
    <3>1. \A c \in holding : c = b
      <4> SUFFICES ASSUME NEW c \in holding PROVE c = b
        OBVIOUS
      <4>1. b = c \/ b.end <= c.start \/ c.end <= b.start
        BY <1>5
      <4>2. b.start \in Nat /\ b.end \in Nat /\ c.start \in Nat /\ c.end \in Nat
        BY <1>4
      <4>3. b.start <= i /\ i < b.end /\ c.start <= i /\ i < c.end
        BY DEF Seeder!Holds
      <4> QED BY <2>1, <4>1, <4>2, <4>3
    <3>2. holding = {b}
      BY <3>1
    <3> HIDE DEF holding
    <3>3. Cardinality(holding) = 1
      BY <3>2, FS_Singleton
    <3> QED BY <3>3 DEF Seeder!Cardinality, Cardinality
  <2>3. ASSUME holding = {}
        PROVE  \E b \in split : Seeder!Holds(b, i) /\ Seeder!IsPrefix(file[i].word, b.prefix)
    <3>1. ~(\E b \in all : Seeder!Holds(b, i))
      BY <2>3
    <3>2. PICK b \in split : /\ Seeder!Holds(b, i) /\ Len(file[i].word) <= Len(b.prefix)
                             /\ Fits(file, b.prefix, i)
      BY <1>2, <2>1, <3>1
    <3>3. Seeder!IsPrefix(file[i].word, b.prefix)
      BY <2>1, <3>2 DEF Seeder!IsPrefix, Fits
    <3> QED BY <3>2, <3>3
  <2> HIDE DEF holding
  <2>4. holding = {} \/ \E b \in holding : TRUE
    OBVIOUS
  <2>5. \/ Seeder!Cardinality(holding) = 1
        \/ /\ holding = {}
           /\ \E b \in split : Seeder!Holds(b, i) /\ Seeder!IsPrefix(file[i].word, b.prefix)
    BY <2>2, <2>3, <2>4
  <2> QED BY <2>5 DEF holding
<1>7. DOMAIN file = 1..Len(file)
  OBVIOUS
<1> QED BY <1>1, <1>6, <1>7 DEF EveryLineHasItsBucket, Seeder!EveryLineHasItsBucket

\* The inductive invariant: nothing else counts for it.
LineInv == file \in Seq(Seeder!Phrase) /\ LinesKept(file, buckets, queued, split)

\* A scan of the whole file.
LEMMA Starting ==
  ASSUME file \in Seq(Seeder!Phrase)
  PROVE  LinesKept(file, Seeder!Scan(<<>>, 1, Len(file) + 1), {}, {})
<1>1. Len(file) \in Nat /\ <<>> \in Seq(Nat) /\ Len(<<>>) = 0
  OBVIOUS
<1>2. \A i : Fits(file, <<>>, i)
  BY <1>1 DEF Fits
<1>3. 1 \in Nat \ {0} /\ Len(file) + 1 \in Nat /\ Len(file) + 1 <= Len(file) + 1
  BY <1>1
<1>4. Cuts(file, Seeder!Scan(<<>>, 1, Len(file) + 1), <<>>, 1, Len(file) + 1)
  BY <1>1, <1>2, <1>3, ScanCuts
<1> QED BY <1>4, WholeFile

LEMMA LineInit ==
  ASSUME Seeder!Init
  PROVE  LineInv
<1>1. file \in Seq(Seeder!Phrase)
  BY TextsAssumption DEF Seeder!Init, Seeder!SeederAssumption
<1>2. buckets = Seeder!Scan(<<>>, 1, Len(file) + 1) /\ queued = {} /\ split = {}
  BY DEF Seeder!Init
<1> QED BY <1>1, <1>2, Starting DEF LineInv

\* Nobody but the main goroutine touches the buckets before they are queued.
LEMMA LineNext ==
  ASSUME LineInv, [Seeder!Next]_(Seeder!vars)
  PROVE  LineInv'
<1> USE DEF LineInv
<1>1. ASSUME file' = file, buckets' = buckets, queued' = queued, split' = split
      PROVE  LineInv'
  BY <1>1
<1>2. CASE Seeder!QueueBucket
  <2>1. /\ file' = file /\ buckets # <<>> /\ buckets' = Tail(buckets)
        /\ queued' = queued \cup {Head(buckets)} /\ split' = split
    BY <1>2 DEF Seeder!QueueBucket
  <2>2. LinesKept(file, Tail(buckets), queued \cup {Head(buckets)}, split)
    BY <2>1, Queueing
  <2> QED BY <2>1, <2>2
<1>3. CASE Seeder!SplitBucket
  <2> DEFINE h == Head(buckets)
             c == Seeder!Scan(h.prefix, h.start, h.end)
  <2>1. /\ file' = file /\ buckets # <<>> /\ buckets' = c \o Tail(buckets)
        /\ queued' = queued /\ split' = split \cup {h}
    BY <1>3 DEF Seeder!SplitBucket
  <2>2. BucketOK(file, h)
    <3>1. PICK S : buckets \in Seq(S)
      BY DEF LinesKept
    <3>2. h = buckets[1] /\ 1 \in 1..Len(buckets)
      BY <2>1, <3>1
    <3> QED BY <3>2 DEF LinesKept
  <2> HIDE DEF h
  <2>3. /\ h.prefix \in Seq(Nat) /\ h.start \in Nat \ {0} /\ h.end \in Nat /\ h.end <= Len(file) + 1
        /\ \A i \in h.start..(h.end - 1) : Fits(file, h.prefix, i)
    BY <2>2 DEF BucketOK
  <2>4. Cuts(file, c, h.prefix, h.start, h.end)
    BY <2>3, ScanCuts
  <2> HIDE DEF c
  <2>5. LinesKept(file, c \o Tail(buckets), queued, split \cup {h})
    BY <2>1, <2>4, Splitting DEF h
  <2> QED BY <2>1, <2>5
<1>4. CASE Seeder!SeedAgain
  <2>1. /\ file' = file /\ buckets' = Seeder!Scan(<<>>, 1, Len(file) + 1)
        /\ queued' = {} /\ split' = {}
    BY <1>4 DEF Seeder!SeedAgain
  <2> QED BY <2>1, Starting
<1>5. CASE Seeder!CloseJobs \/ Seeder!Waiting \/ Seeder!SeedReturns \/ Seeder!Kill
  BY <1>1, <1>5 DEF Seeder!CloseJobs, Seeder!Waiting, Seeder!WaitReturnsAtOnce, Seeder!WaitBlocks,
                    Seeder!WaitReturns, Seeder!WaitPanics, Seeder!SeedReturns, Seeder!Kill, Seeder!history
<1>6. CASE Seeder!Merging
  BY <1>1, <1>6 DEF Seeder!Merging, Seeder!ReceiveIndex, Seeder!Flush, Seeder!FlushFails,
                    Seeder!FinishIndex, Seeder!EndMerger, Seeder!history
<1>7. ASSUME NEW w \in Builders, Seeder!StartBuilder(w) \/ Seeder!Building(w)
      PROVE  LineInv'
  BY <1>1, <1>7 DEF Seeder!StartBuilder, Seeder!Building, Seeder!BuildIndex, Seeder!SendIndex,
                    Seeder!SendPanics, Seeder!EndBuilder, Seeder!history
<1>8. CASE UNCHANGED Seeder!vars
  BY <1>1, <1>8 DEF Seeder!vars, Seeder!history
<1> QED BY <1>2, <1>3, <1>4, <1>5, <1>6, <1>7, <1>8 DEF Seeder!Next, Seeder!Scanning

\* However deep the buckets are split, a phrase of the file is in one, queued or
\* pending, or was passed over, too short for a bucket that it was in.
THEOREM EveryLine == Seeder!Spec => []EveryLineHasItsBucket
<1>1. LineInv => EveryLineHasItsBucket
  BY OneBucket DEF LineInv
<1> QED BY <1>1, LineInit, LineNext, PTL DEF Seeder!Spec

-----------------------------------------------------------------------------
(* The seeder: the best of some lines, and of two lists *)

NoRepeats(s) == \A k, l \in 1..Len(s) : s[k] = s[l] => k = l

Has(s, x) == \E k \in 1..Len(s) : s[k] = x

\* Entries with frequencies; those of s on the places P, which are of S, or all
\* different, or no less than f.
Counted(S) == \A x \in S : x.freq \in Nat
Taken(s, P) == {s[i] : i \in P}
AllOf(s, P, S) == \A i \in P : s[i] \in S
AllDiffer(s, P) == \A i, j \in P : s[i] = s[j] => i = j
NoLess(s, P, f) == \A i \in P : f <= s[i].freq

LEMMA FirstNumbers == \A n \in Nat : IsFiniteSet(1..n) /\ Cardinality(1..n) = n
<1> SUFFICES ASSUME NEW n \in Nat PROVE IsFiniteSet(1..n) /\ Cardinality(1..n) = n
  OBVIOUS
<1>1. IsFiniteSet(1..n) /\ Cardinality(1..n) = IF 1 > n THEN 0 ELSE n - 1 + 1
  BY FS_Interval
<1> QED BY <1>1

\* Where the entries of t are taken from: each from a place of its own, no more
\* than K, and none of them is less than one that is left.
TakesFrom(t, place, s, P) ==
  /\ \A k \in 1..Len(t) : place[k] \in P /\ t[k] = s[place[k]]
  /\ \A k, l \in 1..Len(t) : place[k] = place[l] => k = l
  /\ \A i \in P : \/ \E k \in 1..Len(t) : place[k] = i
                  \/ \A k \in 1..Len(t) : s[i].freq <= t[k].freq

Takes(t, S, s, P) ==
  /\ t \in Seq(S)
  /\ Len(t) <= K /\ Len(t) <= Cardinality(P) /\ (Len(t) = K \/ Len(t) = Cardinality(P))
  /\ \A k \in 1..Len(t) : t[k].freq <= t[1].freq
  /\ \E place \in [1..Len(t) -> P] : TakesFrom(t, place, s, P)

\* Of entries with frequencies, Highest takes the best.
LEMMA HighestTakes ==
  ASSUME NEW S, Counted(S), NEW s, NEW P \in SUBSET Nat, IsFiniteSet(P), AllOf(s, P, S)
  PROVE  Takes(Seeder!Highest(s, P), S, s, P)
<1> DEFINE n == Cardinality(P)
           R == {q \in P \X P : \/ s[q[1]].freq > s[q[2]].freq
                                \/ (s[q[1]].freq = s[q[2]].freq /\ q[1] < q[2])}
           all == Arranged(s, P, R)
           m == Seeder!Min({K, n})
           t == SubSeq(all, 1, m)
           place == [k \in 1..m |-> Place(P, R, k)]
<1>1. K \in Nat \ {0}
  BY TextsAssumption DEF Seeder!SeederAssumption
<1>2. n \in Nat
  BY FS_CardinalityType
<1>3. m \in Nat /\ m <= K /\ m <= n /\ (m = K \/ m = n)
  <2>1. {K, n} \subseteq Nat /\ {K, n} # {}
    BY <1>1, <1>2
  <2> HIDE DEF n
  <2>2. m \in {K, n} /\ \A x \in {K, n} : m <= x
    BY <2>1, LeastIsMin
  <2> QED BY <1>1, <1>2, <2>2
<1>4. Seeder!Highest(s, P) = t
  BY SeederArranges DEF Seeder!Highest, Seeder!Cardinality, Cardinality
<1>5. \A i \in P : i \in Nat /\ s[i].freq \in Nat
  BY DEF AllOf, Counted
<1>6. \A i, j \in P : <<i, j>> \in R <=> \/ s[i].freq > s[j].freq
                                         \/ (s[i].freq = s[j].freq /\ i < j)
  OBVIOUS
<1> HIDE DEF R, n, m
<1>22. \A i, j \in P : <<i, j>> \in R => s[j].freq <= s[i].freq /\ i # j
  BY <1>5, <1>6
<1>7. Orders(R, P)
  BY <1>5, <1>6 DEF Orders
<1>8. /\ \A k \in 1..n : Place(P, R, k) \in P
      /\ \A i \in P : \E k \in 1..n : Place(P, R, k) = i
      /\ \A k, l \in 1..n : k < l => <<Place(P, R, k), Place(P, R, l)>> \in R
  BY <1>7, PlacesAreTaken DEF n
<1>9. \A k \in 1..m : k \in 1..n
  BY <1>2, <1>3
<1>10. all = [k \in 1..n |-> s[Place(P, R, k)]]
  BY DEF Arranged, n
<1> HIDE DEF all
<1>11. t = [k \in 1..m |-> s[Place(P, R, k)]]
  <2>1. all \in Seq(S) /\ Len(all) = n
    <3>1. \A k \in 1..n : s[Place(P, R, k)] \in S
      BY <1>8 DEF AllOf
    <3> QED BY <1>2, <1>10, <3>1
  <2>2. t = [k \in 1..m |-> all[k]]
    BY <1>2, <1>3, <2>1
  <2>3. \A k \in 1..m : all[k] = s[Place(P, R, k)]
    BY <1>9, <1>10
  <2> QED BY <2>2, <2>3
<1> HIDE DEF t
<1>12. t \in Seq(S) /\ Len(t) = m
  <2>1. \A k \in 1..m : s[Place(P, R, k)] \in S
    BY <1>8, <1>9 DEF AllOf
  <2> QED BY <1>3, <1>11, <2>1
<1>13. \A k \in 1..m : place[k] \in P /\ t[k] = s[place[k]]
  BY <1>8, <1>9, <1>11
<1>14. \A k \in 1..m, l \in 1..n : k < l => <<place[k], Place(P, R, l)>> \in R
  BY <1>8, <1>9
<1>15. \A k, l \in 1..m : k < l => <<place[k], place[l]>> \in R
  BY <1>9, <1>14
<1>16. place \in [1..m -> P]
  BY <1>13
<1> HIDE DEF place
<1>17. \A k \in 1..m : t[k].freq <= t[1].freq
  <2> SUFFICES ASSUME NEW k \in 1..m PROVE t[k].freq <= t[1].freq
    OBVIOUS
  <2>1. 1 \in 1..m /\ (k = 1 \/ 1 < k)
    BY <1>3
  <2>2. CASE k = 1
    <3>1. t[1] \in S
      BY <1>12, <2>1
    <3> QED BY <2>2, <3>1 DEF Counted
  <2>3. CASE 1 < k
    BY <1>13, <1>15, <1>22, <2>1, <2>3
  <2> QED BY <2>1, <2>2, <2>3
<1>18. \A k, l \in 1..m : place[k] = place[l] => k = l
  <2> SUFFICES ASSUME NEW k \in 1..m, NEW l \in 1..m, place[k] = place[l], k < l
               PROVE  FALSE
    BY <1>3
  <2> QED BY <1>13, <1>15, <1>22
<1>19. ASSUME NEW i \in P, ~\E k \in 1..m : place[k] = i, NEW k \in 1..m
       PROVE  s[i].freq <= t[k].freq
  <2>1. PICK l \in 1..n : Place(P, R, l) = i
    BY <1>8
  <2>2. l \notin 1..m
    BY <1>19, <2>1 DEF place
  <2>3. k < l
    BY <1>2, <1>3, <2>2
  <2>4. <<place[k], i>> \in R
    BY <1>14, <2>1, <2>3
  <2> QED BY <1>13, <1>22, <2>4
<1>20. TakesFrom(t, place, s, P)
  BY <1>12, <1>13, <1>18, <1>19 DEF TakesFrom
<1>21. Takes(t, S, s, P)
  BY <1>3, <1>12, <1>16, <1>17, <1>20 DEF Takes, n
<1> QED BY <1>4, <1>21

\* A list of the best of E: all of E, or K that nothing left is more than.
BestOf(top, E) ==
  /\ top \in Seq(E) /\ NoRepeats(top) /\ Len(top) <= K
  /\ Len(top) = K \/ \A e \in E : Has(top, e)
  /\ \A e \in E : Has(top, e) \/ \A k \in 1..Len(top) : e.freq <= top[k].freq

\* It is what IsBest means.
LEMMA BestIsBest ==
  ASSUME NEW E, IsFiniteSet(E), NEW top, BestOf(top, E)
  PROVE  Seeder!IsBest(top, E)
<1>1. PICK n \in Nat : n = Len(top) /\ DOMAIN top = 1..n
  BY DEF BestOf
<1>2. /\ \A k \in 1..n : top[k] \in E
      /\ \A k, l \in 1..n : top[k] = top[l] => k = l
      /\ n <= K /\ K \in Nat
      /\ n = K \/ \A e \in E : \E k \in 1..n : top[k] = e
      /\ \A e \in E : (\E k \in 1..n : top[k] = e) \/ \A k \in 1..n : e.freq <= top[k].freq
  <2>1. \A k \in 1..n : top[k] \in E
    BY <1>1 DEF BestOf
  <2>2. K \in Nat
    BY TextsAssumption DEF Seeder!SeederAssumption
  <2> QED BY <1>1, <2>1, <2>2 DEF BestOf, NoRepeats, Has
<1>3. Seeder!ToSet(top) = {top[k] : k \in 1..n}
  BY <1>1 DEF Seeder!ToSet
<1>4. Cardinality(E) \in Nat
  BY FS_CardinalityType
<1>5. IsFiniteSet(1..n) /\ Cardinality(1..n) = n
  BY FirstNumbers
<1> DEFINE f == [k \in 1..n |-> top[k]]
<1>6. f \in Injection(1..n, E)
  BY <1>2 DEF Injection, IsInjective
<1>7. n <= Cardinality(E) /\ (Cardinality(1..n) = Cardinality(E) <=> f \in Surjection(1..n, E))
  <2> HIDE DEF f
  <2> QED BY <1>5, <1>6, FS_Injection
<1>8. n = K \/ n = Cardinality(E)
  <2>1. ASSUME \A e \in E : \E k \in 1..n : top[k] = e PROVE n = Cardinality(E)
    <3>1. f \in Surjection(1..n, E)
      BY <1>2, <2>1 DEF Surjection
    <3> QED BY <1>5, <1>7, <3>1
  <2> QED BY <1>2, <2>1
<1> HIDE DEF f
<1>9. Len(top) = Seeder!Min({K, Seeder!Cardinality(E)})
  <2>1. Seeder!Cardinality(E) = Cardinality(E)
    BY DEF Seeder!Cardinality, Cardinality
  <2>2. PICK c \in Nat : c = Cardinality(E)
    BY <1>4
  <2>3. {K, c} \subseteq Nat /\ {K, c} # {}
    BY <1>2
  <2>4. Seeder!Min({K, c}) \in {K, c} /\ \A x \in {K, c} : Seeder!Min({K, c}) <= x
    BY <2>3, LeastIsMin
  <2> QED BY <1>1, <1>2, <1>7, <1>8, <2>1, <2>2, <2>4
<1>10. Seeder!IsInjective(top)
  BY <1>1, <1>2 DEF Seeder!IsInjective
<1>11. \A d \in E \ Seeder!ToSet(top), e \in Seeder!ToSet(top) : d.freq <= e.freq
  BY <1>2, <1>3
<1>12. Seeder!ToSet(top) \subseteq E
  BY <1>2, <1>3
<1> QED BY <1>9, <1>10, <1>11, <1>12 DEF Seeder!IsBest

\* A sequence is one of whatever its entries are.
LEMMA OfThese ==
  ASSUME NEW S, NEW t \in Seq(S), NEW E, \A k \in 1..Len(t) : t[k] \in E
  PROVE  t \in Seq(E)
<1>1. PICK n \in Nat : n = Len(t) /\ DOMAIN t = 1..n
  OBVIOUS
<1>2. t \in [1..n -> S]
  BY <1>1
<1>3. t \in [1..n -> E]
  BY <1>1, <1>2
<1> QED BY <1>3

\* What is taken from places that differ.
LEMMA TakenIsBest ==
  ASSUME NEW S, NEW s, NEW P, IsFiniteSet(P), AllDiffer(s, P), NEW t, Takes(t, S, s, P)
  PROVE  BestOf(t, Taken(s, P))
<1> DEFINE E == Taken(s, P)
<1>1. PICK n \in Nat : n = Len(t)
  BY DEF Takes
<1>2. PICK place \in [1..n -> P] : TakesFrom(t, place, s, P)
  BY <1>1 DEF Takes
<1>3. /\ \A k \in 1..n : place[k] \in P /\ t[k] = s[place[k]]
      /\ \A k, l \in 1..n : place[k] = place[l] => k = l
      /\ \A i \in P : \/ \E k \in 1..n : place[k] = i
                      \/ \A k \in 1..n : s[i].freq <= t[k].freq
  BY <1>1, <1>2 DEF TakesFrom
<1>4. \A k \in 1..n : t[k] \in E
  BY <1>3 DEF Taken
<1>5. t \in Seq(E)
  <2> HIDE DEF E
  <2> QED BY <1>1, <1>4, OfThese DEF Takes
<1>6. \A k, l \in 1..n : t[k] = t[l] => k = l
  BY <1>3 DEF AllDiffer
<1>7. n <= K /\ (n = K \/ n = Cardinality(P))
  BY <1>1 DEF Takes
<1>8. ASSUME n = Cardinality(P), NEW i \in P PROVE \E k \in 1..n : place[k] = i
  <2>1. place \in Injection(1..n, P)
    BY <1>3 DEF Injection, IsInjective
  <2>2. Cardinality(1..n) = Cardinality(P)
    BY <1>8, FirstNumbers
  <2>3. place \in Surjection(1..n, P)
    BY <2>1, <2>2, FS_Injection
  <2> QED BY <2>3 DEF Surjection
<1>9. \A e \in E : \E i \in P : e = s[i]
  BY DEF Taken
<1> HIDE DEF E
<1>10. ASSUME NEW e \in E PROVE Has(t, e) \/ \A k \in 1..n : e.freq <= t[k].freq
  <2>1. PICK i \in P : e = s[i]
    BY <1>9
  <2>2. CASE \E k \in 1..n : place[k] = i
    BY <1>1, <1>3, <2>1, <2>2 DEF Has
  <2>3. CASE \A k \in 1..n : s[i].freq <= t[k].freq
    BY <2>1, <2>3
  <2> QED BY <1>3, <2>2, <2>3
<1>11. ASSUME n # K, NEW e \in E PROVE Has(t, e)
  <2>1. PICK i \in P : e = s[i]
    BY <1>9
  <2>2. PICK k \in 1..n : place[k] = i
    BY <1>7, <1>8, <1>11
  <2> QED BY <1>1, <1>3, <2>1, <2>2 DEF Has
<1>12. BestOf(t, E)
  BY <1>1, <1>5, <1>6, <1>7, <1>10, <1>11 DEF BestOf, NoRepeats
<1> QED BY <1>12 DEF E

\* K entries that are no less than f leave no room for one that is less.
LEMMA NoneIsLess ==
  ASSUME NEW s, NEW P, Counted(Taken(s, P)),
         NEW n \in Nat, NEW t, n = Len(t), n <= K, NEW place \in [1..n -> P], TakesFrom(t, place, s, P),
         NEW Q \in SUBSET P, IsFiniteSet(Q), Cardinality(Q) = K,
         NEW f \in Nat, NoLess(s, Q, f)
  PROVE  NoLess(t, 1..n, f)
<1> SUFFICES ASSUME NEW k \in 1..n PROVE f <= t[k].freq
  BY DEF NoLess
<1>8. /\ \A i \in P : s[i].freq \in Nat
      /\ \A j \in Q : f <= s[j].freq
  BY DEF NoLess, Counted, Taken
<1> DEFINE R == {place[l] : l \in 1..n}
<1>1. /\ \A l \in 1..n : place[l] \in P /\ t[l] = s[place[l]]
      /\ \A i \in P : \/ \E l \in 1..n : place[l] = i
                      \/ \A l \in 1..n : s[i].freq <= t[l].freq
  BY DEF TakesFrom
<1>2. place[k] \in R /\ \A j \in P : j \notin R => ~\E l \in 1..n : place[l] = j
  OBVIOUS
<1>3. IsFiniteSet(R) /\ Cardinality(R) <= n
  <2>1. place \in Surjection(1..n, R)
    BY DEF Surjection
  <2>2. IsFiniteSet(1..n) /\ Cardinality(1..n) = n
    BY FirstNumbers
  <2> HIDE DEF R
  <2> QED BY <2>1, <2>2, FS_Surjection
<1>4. Cardinality(R) \in Nat /\ Cardinality(Q) \in Nat
  <2> HIDE DEF R
  <2> QED BY <1>3, FS_CardinalityType
<1>5. ASSUME Q \subseteq R PROVE place[k] \in Q
  <2> HIDE DEF R
  <2>1. Q \in SUBSET R /\ Cardinality(Q) <= Cardinality(R)
    BY <1>3, <1>5, FS_Subset
  <2>2. Cardinality(Q) = Cardinality(R)
    BY <1>3, <1>4, <2>1
  <2>3. Q = R
    BY <1>3, <2>1, <2>2, FS_Subset
  <2> QED BY <1>2, <2>3
<1>6. CASE place[k] \in Q
  BY <1>1, <1>6, <1>8
<1>7. ASSUME NEW j \in Q, j \notin R PROVE f <= t[k].freq
  <2>1. s[j].freq <= t[k].freq /\ f <= s[j].freq /\ s[j].freq \in Nat
    BY <1>1, <1>2, <1>7, <1>8
  <2>2. t[k].freq \in Nat
    BY <1>1, <1>8
  <2> QED BY <2>1, <2>2
<1> QED BY <1>5, <1>6, <1>7

\* One list after the other.
LEMMA OneThenOther ==
  ASSUME NEW A, NEW B, NEW a \in Seq(A), NEW b \in Seq(B)
  PROVE  /\ a \o b \in Seq(A \cup B) /\ Len(a) \in Nat /\ Len(b) \in Nat
         /\ \A k \in 1..Len(a) : (a \o b)[k] = a[k] /\ a[k] \in A
         /\ \A k \in (Len(a) + 1)..(Len(a) + Len(b)) :
              (a \o b)[k] = b[k - Len(a)] /\ b[k - Len(a)] \in B /\ k - Len(a) \in 1..Len(b)
         /\ \A k \in 1..(Len(a) + Len(b)) : k \in 1..Len(a) \/ k \in (Len(a) + 1)..(Len(a) + Len(b))
<1>1. PICK m \in Nat : m = Len(a)
  OBVIOUS
<1>2. PICK n \in Nat : n = Len(b)
  OBVIOUS
<1>3. /\ \A k \in 1..m : (a \o b)[k] = a[k] /\ a[k] \in A
      /\ \A k \in (m + 1)..(m + n) : (a \o b)[k] = b[k - m] /\ b[k - m] \in B /\ k - m \in 1..n
  <2>1. \A k \in 1..m : (a \o b)[k] = a[k]
    BY <1>1, <1>2
  <2>2. \A k \in (m + 1)..(m + n) : (a \o b)[k] = b[k - m]
    BY <1>1, <1>2
  <2>3. \A k \in (m + 1)..(m + n) : k - m \in 1..n
    OBVIOUS
  <2> QED BY <1>1, <1>2, <2>1, <2>2, <2>3
<1>4. a \o b \in Seq(A \cup B)
  <2>1. a \in Seq(A \cup B) /\ b \in Seq(A \cup B)
    <3>1. \A k \in 1..Len(a) : a[k] \in A \cup B
      OBVIOUS
    <3>2. \A k \in 1..Len(b) : b[k] \in A \cup B
      OBVIOUS
    <3> DEFINE C == A \cup B
    <3> HIDE DEF C
    <3> QED BY <3>1, <3>2, OfThese DEF C
  <2> QED BY <2>1
<1>5. \A k \in 1..(m + n) : k \in 1..m \/ k \in (m + 1)..(m + n)
  OBVIOUS
<1> QED BY <1>1, <1>2, <1>3, <1>4, <1>5

\* What a merge takes, and from where.
Merges(t, s, n, C) ==
  /\ IsFiniteSet(1..n) /\ Cardinality(1..n) = n /\ AllOf(s, 1..n, C)
  /\ Takes(t, C, s, 1..n)

LEMMA MergeTakes ==
  ASSUME NEW A, NEW B, Counted(A \cup B),
         NEW a \in Seq(A), NEW b \in Seq(B),
         NEW m \in Nat, m = Len(a), NEW l \in Nat, l = Len(b)
  PROVE  Merges(Seeder!MergeTop(a, b), a \o b, m + l, A \cup B)
<1> DEFINE C == A \cup B
           s == a \o b
<1>1. PICK n \in Nat : n = m + l
  OBVIOUS
<1>2. s \in Seq(C) /\ AllOf(s, 1..n, C)
  <2>1. s \in Seq(C)
    BY OneThenOther
  <2>2. AllOf(s, 1..n, C)
    BY <1>1, OneThenOther DEF AllOf
  <2> QED BY <2>1, <2>2
<1>3. IsFiniteSet(1..n) /\ Cardinality(1..n) = n
  BY FirstNumbers
<1>7. 1..n \in SUBSET Nat
  OBVIOUS
<1>4. Counted(C)
  OBVIOUS
<1>5. Seeder!MergeTop(a, b) = Seeder!Highest(s, 1..n)
  BY <1>1 DEF Seeder!MergeTop
<1> HIDE DEF C, s
<1>6. Takes(Seeder!Highest(s, 1..n), C, s, 1..n)
  BY <1>2, <1>3, <1>4, <1>7, HighestTakes
<1>8. Merges(Seeder!MergeTop(a, b), s, n, C)
  BY <1>2, <1>3, <1>5, <1>6 DEF Merges
<1> QED BY <1>1, <1>8 DEF C, s

\* The best of two that share nothing, from the best of each.
LEMMA MergedIsBest ==
  ASSUME NEW A, NEW B, A \cap B = {}, Counted(A \cup B),
         NEW a, BestOf(a, A), NEW b, BestOf(b, B)
  PROVE  BestOf(Seeder!MergeTop(a, b), A \cup B)
<1> DEFINE t == Seeder!MergeTop(a, b)
           s == a \o b
           C == A \cup B
<1>1. a \in Seq(A) /\ b \in Seq(B)
  BY DEF BestOf
<1>17. PICK m \in Nat, l \in Nat : m = Len(a) /\ l = Len(b)
  BY <1>1
<1> DEFINE P == 1..(m + l)
<1>3. /\ IsFiniteSet(P) /\ Cardinality(P) = m + l /\ AllOf(s, P, C)
      /\ Takes(t, C, s, P)
  <2>1. Merges(t, s, m + l, C)
    BY <1>1, <1>17, MergeTakes
  <2> HIDE DEF t, s, C
  <2> QED BY <2>1 DEF Merges
<1>2. PICK n \in Nat : n = Len(t) /\ m = Len(a) /\ l = Len(b)
  <2> HIDE DEF t, C
  <2> QED BY <1>3, <1>17 DEF Takes
<1>4. /\ \A k \in 1..m : s[k] = a[k] /\ a[k] \in A
      /\ \A k \in (m + 1)..(m + l) : s[k] = b[k - m] /\ b[k - m] \in B /\ k - m \in 1..l
      /\ \A k \in P : k \in 1..m \/ k \in (m + 1)..(m + l)
  BY <1>1, <1>2, OneThenOther
<1> HIDE DEF t, s
<1>5. AllDiffer(s, P)
  <2> SUFFICES ASSUME NEW i \in P, NEW j \in P, s[i] = s[j] PROVE i = j
    BY DEF AllDiffer
  <2>1. CASE i \in 1..m /\ j \in 1..m
    BY <1>2, <1>4, <2>1 DEF BestOf, NoRepeats
  <2>2. CASE i \in (m + 1)..(m + l) /\ j \in (m + 1)..(m + l)
    <3>1. b[i - m] = b[j - m] /\ i - m \in 1..Len(b) /\ j - m \in 1..Len(b)
      BY <1>2, <1>4, <2>2
    <3>2. i - m = j - m
      BY <3>1 DEF BestOf, NoRepeats
    <3> QED BY <2>2, <3>2
  <2>3. CASE ~(i \in 1..m <=> j \in 1..m)
    BY <1>4, <2>3
  <2> QED BY <1>4, <2>1, <2>2, <2>3
<1>6. BestOf(t, Taken(s, P))
  <2> HIDE DEF P, C
  <2> QED BY <1>3, <1>5, TakenIsBest
<1>7. /\ t \in Seq(C) /\ n <= K /\ (n = K \/ n = m + l)
      /\ K \in Nat
  BY <1>2, <1>3, TextsAssumption DEF Takes, Seeder!SeederAssumption
<1>8. PICK place \in [1..n -> P] : TakesFrom(t, place, s, P)
  BY <1>2, <1>3 DEF Takes
<1>9. Counted(Taken(s, P)) /\ \A i \in P : s[i] \in Taken(s, P)
  BY <1>3 DEF AllOf, Counted, Taken
<1>10. m <= K /\ l <= K
  BY <1>2 DEF BestOf
<1>11. \A i \in P : Has(t, s[i]) \/ \A k \in 1..n : s[i].freq <= t[k].freq
  BY <1>2, <1>6, <1>9 DEF BestOf
<1>12. ASSUME NEW e \in A
       PROVE  /\ Has(t, e) \/ \A k \in 1..n : e.freq <= t[k].freq
              /\ n # K => Has(t, e)
  <2>1. CASE Has(a, e)
    <3>1. PICK i \in 1..m : e = s[i]
      BY <1>2, <1>4, <2>1 DEF Has
    <3>2. i \in P
      BY <1>4
    <3>3. n # K => Has(t, s[i])
      BY <1>2, <1>6, <1>9, <3>2 DEF BestOf
    <3> QED BY <1>11, <3>1, <3>2, <3>3
  <2>2. CASE ~Has(a, e)
    <3>1. m = K /\ \A k \in 1..m : e.freq <= a[k].freq
      BY <1>2, <2>2 DEF BestOf
    <3>2. n = K
      BY <1>7, <3>1
    <3> DEFINE Q == 1..m
    <3>3. Q \in SUBSET P /\ IsFiniteSet(Q) /\ Cardinality(Q) = K
      <4>1. IsFiniteSet(Q) /\ Cardinality(Q) = IF 1 > m THEN 0 ELSE m - 1 + 1
        BY FS_Interval
      <4> QED BY <3>1, <4>1
    <3>4. NoLess(s, Q, e.freq)
      BY <1>4, <3>1 DEF NoLess
    <3>5. e.freq \in Nat
      BY DEF Counted
    <3> HIDE DEF Q, P
    <3>6. NoLess(t, 1..n, e.freq)
      BY <1>2, <1>7, <1>8, <1>9, <3>3, <3>4, <3>5, NoneIsLess
    <3> QED BY <3>2, <3>6 DEF NoLess
  <2> QED BY <2>1, <2>2
<1>13. ASSUME NEW e \in B
       PROVE  /\ Has(t, e) \/ \A k \in 1..n : e.freq <= t[k].freq
              /\ n # K => Has(t, e)
  <2>1. CASE Has(b, e)
    <3>1. PICK j \in 1..l : e = b[j]
      BY <1>2, <2>1 DEF Has
    <3>2. m + j \in P /\ e = s[m + j]
      <4>1. m + j \in (m + 1)..(m + l) /\ (m + j) - m = j
        OBVIOUS
      <4> QED BY <1>4, <3>1, <4>1
    <3>3. n # K => Has(t, s[m + j])
      BY <1>2, <1>6, <1>9, <3>2 DEF BestOf
    <3> QED BY <1>11, <3>2, <3>3
  <2>2. CASE ~Has(b, e)
    <3>1. l = K /\ \A k \in 1..l : e.freq <= b[k].freq
      BY <1>2, <2>2 DEF BestOf
    <3>2. n = K
      BY <1>7, <3>1
    <3> DEFINE Q == (m + 1)..(m + l)
    <3>3. Q \in SUBSET P /\ IsFiniteSet(Q) /\ Cardinality(Q) = K
      <4>1. IsFiniteSet(Q) /\ Cardinality(Q) = IF m + 1 > m + l THEN 0 ELSE (m + l) - (m + 1) + 1
        BY FS_Interval
      <4> QED BY <3>1, <4>1
    <3>4. NoLess(s, Q, e.freq)
      BY <1>4, <3>1 DEF NoLess
    <3>5. e.freq \in Nat
      BY DEF Counted
    <3> HIDE DEF Q, P
    <3>6. NoLess(t, 1..n, e.freq)
      BY <1>2, <1>7, <1>8, <1>9, <3>3, <3>4, <3>5, NoneIsLess
    <3> QED BY <3>2, <3>6 DEF NoLess
  <2> QED BY <2>1, <2>2
<1>14. NoRepeats(t)
  BY <1>6 DEF BestOf
<1> HIDE DEF P
<1>15. \A e \in C : (Has(t, e) \/ \A k \in 1..n : e.freq <= t[k].freq) /\ (n # K => Has(t, e))
  BY <1>12, <1>13
<1> HIDE DEF C
<1>16. BestOf(t, C)
  BY <1>2, <1>7, <1>14, <1>15 DEF BestOf
<1> QED BY <1>16 DEF t, C

\* Whatever is merged, nothing is more than the first.
LEMMA MergedFirst ==
  ASSUME NEW A, NEW B, Counted(A \cup B),
         NEW a \in Seq(A), NEW b \in Seq(B), NEW x, Has(a, x) \/ Has(b, x)
  PROVE  /\ Seeder!MergeTop(a, b) \in Seq(A \cup B) /\ Seeder!MergeTop(a, b) # <<>>
         /\ x.freq <= Seeder!MergeTop(a, b)[1].freq
<1> DEFINE t == Seeder!MergeTop(a, b)
           s == a \o b
           C == A \cup B
<1>11. PICK m \in Nat, l \in Nat : m = Len(a) /\ l = Len(b)
  OBVIOUS
<1> DEFINE P == 1..(m + l)
<1>2. /\ IsFiniteSet(P) /\ Cardinality(P) = m + l /\ AllOf(s, P, C)
      /\ Takes(t, C, s, P)
  <2>1. Merges(t, s, m + l, C)
    BY <1>11, MergeTakes
  <2> HIDE DEF t, s, C
  <2> QED BY <2>1 DEF Merges
<1>1. PICK n \in Nat : n = Len(t) /\ m = Len(a) /\ l = Len(b)
  <2> HIDE DEF t, C
  <2> QED BY <1>2, <1>11 DEF Takes
<1>3. /\ \A k \in 1..m : s[k] = a[k]
      /\ \A k \in (m + 1)..(m + l) : s[k] = b[k - m]
  BY <1>1, OneThenOther
<1> HIDE DEF t, s
<1>4. PICK i \in P : x = s[i]
  <2>1. CASE Has(a, x)
    <3>1. PICK i \in 1..m : x = a[i]
      BY <1>1, <2>1 DEF Has
    <3> QED BY <1>3, <3>1
  <2>2. CASE Has(b, x)
    <3>1. PICK j \in 1..l : x = b[j]
      BY <1>1, <2>2 DEF Has
    <3>2. m + j \in (m + 1)..(m + l) /\ m + j \in P /\ (m + j) - m = j
      OBVIOUS
    <3> QED BY <1>3, <3>1, <3>2
  <2> QED BY <2>1, <2>2
<1>5. K \in Nat \ {0}
  BY TextsAssumption DEF Seeder!SeederAssumption
<1>6. t \in Seq(C) /\ (n = K \/ n = m + l) /\ \A k \in 1..n : t[k].freq <= t[1].freq
  BY <1>1, <1>2 DEF Takes
<1>7. n > 0 /\ 1 \in 1..n
  BY <1>4, <1>5, <1>6
<1>8. PICK place \in [1..n -> P] : TakesFrom(t, place, s, P)
  BY <1>1, <1>2 DEF Takes
<1>9. x.freq <= t[1].freq
  <2>1. CASE \E k \in 1..n : place[k] = i
    BY <1>1, <1>4, <1>6, <1>8, <2>1 DEF TakesFrom
  <2>2. CASE \A k \in 1..n : s[i].freq <= t[k].freq
    BY <1>4, <1>7, <2>2
  <2> QED BY <1>1, <1>8, <2>1, <2>2 DEF TakesFrom
<1> HIDE DEF C
<1>10. t # <<>>
  BY <1>1, <1>6, <1>7
<1> QED BY <1>6, <1>9, <1>10 DEF t, C

\* A list of the best of something that is has a first entry, or a better one.
LEMMA BestHasFirst ==
  ASSUME NEW E, NEW top, BestOf(top, E), NEW e \in E, Counted(E)
  PROVE  \E x \in E : Has(top, x) /\ e.freq <= x.freq
<1>1. PICK n \in Nat : n = Len(top) /\ \A k \in 1..n : top[k] \in E
  BY DEF BestOf
<1>2. CASE Has(top, e)
  BY <1>2 DEF Counted
<1>3. CASE ~Has(top, e)
  <2>1. n = K /\ \A k \in 1..n : e.freq <= top[k].freq
    BY <1>1, <1>3 DEF BestOf
  <2>2. 1 \in 1..n
    BY <2>1, TextsAssumption DEF Seeder!SeederAssumption
  <2> QED BY <1>1, <2>1, <2>2 DEF Has
<1> QED BY <1>2, <1>3

\* Nothing of E is more than the first.
FirstOf(top, E) == \A e \in E : top # <<>> /\ e.freq <= top[1].freq

LEMMA PhrasesCount == \A S \in SUBSET Seeder!Phrase : Counted(S)
BY DEF Counted, Seeder!Phrase

\* What a merge makes of a list that is right for E, and of the best of D.
LEMMA OneMerge ==
  ASSUME NEW E \in SUBSET Seeder!Phrase, NEW D \in SUBSET Seeder!Phrase,
         NEW top \in Seq(Seeder!Phrase), FirstOf(top, E), NEW new, BestOf(new, D)
  PROVE  /\ Seeder!MergeTop(top, new) \in Seq(Seeder!Phrase)
         /\ FirstOf(Seeder!MergeTop(top, new), E \cup D)
         /\ (BestOf(top, E) /\ E \cap D = {}) => BestOf(Seeder!MergeTop(top, new), E \cup D)
<1> DEFINE Ph == Seeder!Phrase
           t == Seeder!MergeTop(top, new)
<1>1. new \in Seq(D) /\ new \in Seq(Ph)
  <2>1. new \in Seq(D) /\ \A k \in 1..Len(new) : new[k] \in D
    BY DEF BestOf
  <2> HIDE DEF Ph
  <2>2. \A k \in 1..Len(new) : new[k] \in Ph
    BY <2>1 DEF Ph
  <2> QED BY <2>1, <2>2, OfThese
<1>2. Counted(Ph) /\ Counted(D) /\ Counted(E \cup D) /\ Ph \cup Ph = Ph
  <2>1. Ph \in SUBSET Ph /\ E \cup D \in SUBSET Ph /\ Ph \cup Ph = Ph
    OBVIOUS
  <2> QED BY <2>1, PhrasesCount
<1> HIDE DEF Ph
<1>3. PICK m \in Nat, l \in Nat : m = Len(top) /\ l = Len(new)
  BY <1>1 DEF Ph
<1>4. t \in Seq(Ph)
  <2>1. Merges(t, top \o new, m + l, Ph \cup Ph)
    BY <1>1, <1>2, <1>3, MergeTakes DEF Ph
  <2> HIDE DEF t
  <2> QED BY <1>2, <2>1 DEF Merges, Takes
<1>5. \A x : Has(top, x) \/ Has(new, x) => t # <<>> /\ x.freq <= t[1].freq
  <2> SUFFICES ASSUME NEW x, Has(top, x) \/ Has(new, x) PROVE t # <<>> /\ x.freq <= t[1].freq
    OBVIOUS
  <2>1. Counted(Ph \cup Ph) /\ top \in Seq(Ph) /\ new \in Seq(Ph)
    BY <1>1, <1>2 DEF Ph
  <2> QED BY <2>1, MergedFirst
<1> HIDE DEF t
<1>6. ASSUME t # <<>> PROVE t[1] \in Ph
  BY <1>4, <1>6
<1>7. ASSUME NEW e \in E PROVE t # <<>> /\ e.freq <= t[1].freq
  <2>1. top # <<>> /\ e.freq <= top[1].freq
    BY DEF FirstOf
  <2>2. top[1] \in Ph /\ Has(top, top[1])
    BY <2>1 DEF Ph, Has
  <2>3. t # <<>> /\ top[1].freq <= t[1].freq
    BY <1>5, <2>2
  <2>4. e.freq \in Nat /\ top[1].freq \in Nat /\ t[1].freq \in Nat
    BY <1>2, <1>6, <2>2, <2>3 DEF Counted, Ph
  <2> QED BY <2>1, <2>3, <2>4
<1>8. ASSUME NEW e \in D PROVE t # <<>> /\ e.freq <= t[1].freq
  <2>1. PICK x \in D : Has(new, x) /\ e.freq <= x.freq
    BY <1>2, BestHasFirst
  <2>2. t # <<>> /\ x.freq <= t[1].freq
    BY <1>5, <2>1
  <2>3. e.freq \in Nat /\ x.freq \in Nat /\ t[1].freq \in Nat
    BY <1>2, <1>6, <2>2 DEF Counted
  <2> QED BY <2>1, <2>2, <2>3
<1>9. FirstOf(t, E \cup D)
  BY <1>7, <1>8 DEF FirstOf
<1>10. ASSUME BestOf(top, E), E \cap D = {} PROVE BestOf(t, E \cup D)
  BY <1>2, <1>10, MergedIsBest DEF t
<1> QED BY <1>4, <1>9, <1>10 DEF t, Ph

-----------------------------------------------------------------------------
(* The seeder: the index of a bucket *)

\* What bucket x has to do with prefix p.
Part(x, p) == Seeder!Completions(Seeder!Entries(x.start, x.end), p)

IsPrefixOfWords(p) == p \in Seq(Nat) /\ p # <<>>

\* The lines of bucket x with prefix p have numbers of their own, and words.
LEMMA LinesOfPart ==
  ASSUME file \in Texts, NEW x, BucketOK(file, x), NEW p, IsPrefixOfWords(p)
  PROVE  /\ Seeder!Completing(p, x.start, x.end) \in SUBSET (1..Len(file))
         /\ Part(x, p) = Taken(file, Seeder!Completing(p, x.start, x.end))
         /\ Part(x, p) \in SUBSET Seeder!Phrase
         /\ \A i \in 1..Len(file), j \in 1..Len(file) :
              (Seeder!IsPrefix(p, file[i].word) /\ file[i] = file[j]) => i = j
<1>1. PICK n \in Nat : n = Len(file) /\ DOMAIN file = 1..n /\ \A i \in 1..n : file[i] \in Seeder!Phrase
  <2>1. file \in Seq(Seeder!Phrase)
    BY TextsAssumption DEF Seeder!SeederAssumption
  <2> QED BY <2>1
<1>2. x.start \in Nat \ {0} /\ x.end \in Nat /\ x.end <= n + 1
  BY <1>1 DEF BucketOK
<1>3. \A i \in x.start..(x.end - 1) : i \in 1..n
  BY <1>2
<1>4. Seeder!Completing(p, x.start, x.end) \in SUBSET (1..n)
  BY <1>3 DEF Seeder!Completing
<1>5. Part(x, p) = Taken(file, Seeder!Completing(p, x.start, x.end))
  BY DEF Part, Seeder!Completions, Seeder!Entries, Seeder!Completing, Taken
<1>6. Part(x, p) \in SUBSET Seeder!Phrase
  BY <1>1, <1>4, <1>5 DEF Taken
<1>7. ASSUME NEW i \in 1..n, NEW j \in 1..n, Seeder!IsPrefix(p, file[i].word), file[i] = file[j]
      PROVE  i = j
  <2>1. file[i].word # <<>>
    <3>1. Len(p) \in Nat \ {0}
      BY DEF IsPrefixOfWords
    <3>2. Len(p) <= Len(file[i].word)
      BY <1>7 DEF Seeder!IsPrefix
    <3>3. Len(<<>>) = 0
      OBVIOUS
    <3> QED BY <3>1, <3>2, <3>3
  <2>2. (i # j /\ file[i].word # <<>>) => file[i].word # file[j].word
    BY <1>1, TextsAssumption DEF Seeder!SeederAssumption
  <2> QED BY <1>7, <2>1, <2>2
<1> QED BY <1>1, <1>4, <1>5, <1>6, <1>7

\* The index of a bucket has the best of every prefix its phrases have.
LEMMA IndexIsBest ==
  ASSUME file \in Texts, NEW x, BucketOK(file, x), NEW p, IsPrefixOfWords(p)
  PROVE  /\ p \in DOMAIN Seeder!PrefixIndex(x) => BestOf(Seeder!PrefixIndex(x)[p], Part(x, p))
         /\ p \notin DOMAIN Seeder!PrefixIndex(x) => Part(x, p) = {}
<1> DEFINE lines == Seeder!Completing(p, x.start, x.end)
<1>1. /\ lines \in SUBSET (1..Len(file)) /\ Part(x, p) = Taken(file, lines)
      /\ Part(x, p) \in SUBSET Seeder!Phrase
      /\ \A i \in 1..Len(file), j \in 1..Len(file) :
           (Seeder!IsPrefix(p, file[i].word) /\ file[i] = file[j]) => i = j
  BY LinesOfPart
<1>2. PICK n \in Nat : n = Len(file)
  <2>1. file \in Seq(Seeder!Phrase)
    BY TextsAssumption DEF Seeder!SeederAssumption
  <2> QED BY <2>1
<1>3. \A i \in lines : Seeder!IsPrefix(p, file[i].word)
  BY DEF Seeder!Completing
<1>4. DOMAIN Seeder!PrefixIndex(x) = Seeder!PrefixesOf(Seeder!Entries(x.start, x.end))
  BY DEF Seeder!PrefixIndex
<1>5. ASSUME p \in DOMAIN Seeder!PrefixIndex(x) PROVE Seeder!PrefixIndex(x)[p] = Seeder!Highest(file, lines)
  BY <1>4, <1>5 DEF Seeder!PrefixIndex, Seeder!Best
<1> HIDE DEF lines
<1>6. BestOf(Seeder!Highest(file, lines), Part(x, p))
  <2>1. lines \in SUBSET Nat
    BY <1>1, <1>2
  <2>2. IsFiniteSet(lines)
    <3>1. IsFiniteSet(1..n)
      BY FirstNumbers
    <3>2. lines \in SUBSET (1..n)
      BY <1>1, <1>2
    <3> QED BY <3>1, <3>2, FS_Subset
  <2>3. AllOf(file, lines, Part(x, p)) /\ Counted(Part(x, p))
    BY <1>1, PhrasesCount DEF AllOf, Taken
  <2>4. AllDiffer(file, lines)
    BY <1>1, <1>3 DEF AllDiffer
  <2>5. Takes(Seeder!Highest(file, lines), Part(x, p), file, lines)
    BY <2>1, <2>2, <2>3, HighestTakes
  <2>6. BestOf(Seeder!Highest(file, lines), Taken(file, lines))
    BY <2>2, <2>4, <2>5, TakenIsBest
  <2> QED BY <1>1, <2>6
<1>7. ASSUME NEW e \in Part(x, p) PROVE p \in DOMAIN Seeder!PrefixIndex(x)
  <2>1. e \in Seeder!Entries(x.start, x.end) /\ Seeder!IsPrefix(p, e.word)
    BY DEF Part, Seeder!Completions
  <2>2. e.word \in Seq(Nat)
    BY <1>1 DEF Seeder!Phrase
  <2>3. PICK w \in Seq(Nat) : w = e.word
    BY <2>2
  <2>4. Len(p) \in 0..Len(w) /\ p = SubSeq(w, 1, Len(p))
    <3>1. Len(p) <= Len(w) /\ SubSeq(p, 1, Len(p)) = SubSeq(w, 1, Len(p))
      BY <2>1, <2>3 DEF Seeder!IsPrefix
    <3>2. p \in Seq(Nat) /\ SubSeq(p, 1, Len(p)) = p
      BY DEF IsPrefixOfWords
    <3> QED BY <3>1, <3>2
  <2>5. p \in Seeder!Prefixes(e.word)
    BY <2>3, <2>4 DEF Seeder!Prefixes
  <2>6. p # <<>>
    BY DEF IsPrefixOfWords
  <2> QED BY <1>4, <2>1, <2>5, <2>6 DEF Seeder!PrefixesOf
<1> QED BY <1>5, <1>6, <1>7

\* Buckets that do not overlap have no phrase in common.
LEMMA PartsDiffer ==
  ASSUME file \in Texts, NEW x, BucketOK(file, x), NEW y, BucketOK(file, y), NEW p, IsPrefixOfWords(p),
         x.end <= y.start \/ y.end <= x.start
  PROVE  Part(x, p) \cap Part(y, p) = {}
<1> SUFFICES ASSUME NEW e, e \in Part(x, p), e \in Part(y, p) PROVE FALSE
  OBVIOUS
<1>1. PICK i \in x.start..(x.end - 1) : e = file[i] /\ Seeder!IsPrefix(p, file[i].word)
  BY DEF Part, Seeder!Completions, Seeder!Entries
<1>2. PICK j \in y.start..(y.end - 1) : e = file[j] /\ Seeder!IsPrefix(p, file[j].word)
  BY DEF Part, Seeder!Completions, Seeder!Entries
<1>3. PICK n \in Nat : n = Len(file)
  <2>1. file \in Seq(Seeder!Phrase)
    BY TextsAssumption DEF Seeder!SeederAssumption
  <2> QED BY <2>1
<1>4. /\ x.start \in Nat \ {0} /\ x.end \in Nat /\ x.end <= n + 1
      /\ y.start \in Nat \ {0} /\ y.end \in Nat /\ y.end <= n + 1
  BY <1>3 DEF BucketOK
<1>5. i \in 1..n /\ j \in 1..n /\ i # j
  BY <1>4
<1> QED BY <1>1, <1>2, <1>3, <1>5, LinesOfPart

-----------------------------------------------------------------------------
(* The seeder: where a queued bucket is *)

IsSeq(s) == \E S : s \in Seq(S)

\* What comes to a channel, and what leaves it.
LEMMA InAtTheEnd ==
  ASSUME NEW s, IsSeq(s), NEW x
  PROVE  /\ IsSeq(Append(s, x)) /\ Len(s) \in Nat /\ Len(Append(s, x)) = Len(s) + 1
         /\ \A k \in 1..Len(s) : Append(s, x)[k] = s[k]
         /\ Append(s, x)[Len(s) + 1] = x
         /\ Range(Append(s, x)) = Range(s) \cup {x}
         /\ (NoRepeats(s) /\ x \notin Range(s)) => NoRepeats(Append(s, x))
<1>1. PICK S : s \in Seq(S)
  BY DEF IsSeq
<1>2. PICK n \in Nat : n = Len(s) /\ DOMAIN s = 1..n
  BY <1>1
<1> DEFINE t == Append(s, x)
           T == S \cup {x}
<1>3. t \in Seq(T)
  <2>1. s \in Seq(T)
    <3>1. \A k \in 1..Len(s) : s[k] \in T
      BY <1>1
    <3> HIDE DEF T
    <3> QED BY <1>1, <3>1, OfThese
  <2> QED BY <2>1
<1>4. Len(t) = n + 1 /\ DOMAIN t = 1..(n + 1) /\ (\A k \in 1..n : t[k] = s[k]) /\ t[n + 1] = x
  BY <1>1, <1>2
<1> HIDE DEF t
<1>5. \A k \in 1..(n + 1) : k \in 1..n \/ k = n + 1
  OBVIOUS
<1>6. Range(s) = {s[k] : k \in 1..n} /\ Range(t) = {t[k] : k \in 1..(n + 1)}
  BY <1>2, <1>4 DEF Range
<1>7. Range(t) = Range(s) \cup {x}
  <2>1. \A k \in 1..n : k \in 1..(n + 1)
    OBVIOUS
  <2>2. n + 1 \in 1..(n + 1)
    OBVIOUS
  <2> QED BY <1>4, <1>5, <1>6, <2>1, <2>2
<1>8. ASSUME NoRepeats(s), x \notin Range(s) PROVE NoRepeats(t)
  <2> SUFFICES ASSUME NEW k \in 1..(n + 1), NEW l \in 1..(n + 1), t[k] = t[l] PROVE k = l
    BY <1>4 DEF NoRepeats
  <2>1. \A j \in 1..n : s[j] # x
    BY <1>6, <1>8
  <2> QED BY <1>2, <1>4, <1>5, <1>8, <2>1 DEF NoRepeats
<1> QED BY <1>2, <1>3, <1>4, <1>7, <1>8 DEF t, IsSeq

LEMMA OutAtTheFront ==
  ASSUME NEW s, IsSeq(s), s # <<>>
  PROVE  /\ IsSeq(Tail(s)) /\ Len(s) \in Nat \ {0} /\ Len(Tail(s)) = Len(s) - 1
         /\ Head(s) = s[1] /\ \A k \in 1..(Len(s) - 1) : Tail(s)[k] = s[k + 1]
         /\ Range(s) = Range(Tail(s)) \cup {Head(s)}
         /\ NoRepeats(s) => NoRepeats(Tail(s)) /\ Head(s) \notin Range(Tail(s))
<1>1. PICK S : s \in Seq(S)
  BY DEF IsSeq
<1> DEFINE t == Tail(s)
<1>2. /\ Len(s) \in Nat \ {0} /\ Head(s) = s[1] /\ t \in Seq(S) /\ Len(t) = Len(s) - 1
      /\ \A k \in 1..(Len(s) - 1) : t[k] = s[k + 1]
  BY <1>1, FirstAndRest
<1>3. PICK n \in Nat : Len(s) = n + 1 /\ DOMAIN s = 1..(n + 1)
  <2>1. PICK m \in Nat \ {0} : m = Len(s)
    BY <1>2
  <2>2. DOMAIN s = 1..m /\ m - 1 \in Nat /\ m = (m - 1) + 1
    BY <1>1, <2>1
  <2> QED BY <2>1, <2>2
<1>4. Len(t) = n /\ DOMAIN t = 1..n /\ \A k \in 1..n : t[k] = s[k + 1] /\ k + 1 \in 1..(n + 1)
  BY <1>2, <1>3
<1> HIDE DEF t
<1>5. \A k \in 1..(n + 1) : k = 1 \/ (k - 1 \in 1..n /\ (k - 1) + 1 = k)
  OBVIOUS
<1>6. Range(s) = {s[k] : k \in 1..(n + 1)} /\ Range(t) = {t[k] : k \in 1..n}
  BY <1>3, <1>4 DEF Range
<1>7. Range(s) = Range(t) \cup {s[1]}
  <2>1. \A k \in 1..n : t[k] \in Range(s)
    BY <1>4, <1>6
  <2>2. \A k \in 1..(n + 1) : s[k] = s[1] \/ s[k] \in Range(t)
    <3> SUFFICES ASSUME NEW k \in 1..(n + 1), k # 1 PROVE s[k] \in Range(t)
      OBVIOUS
    <3>1. k - 1 \in 1..n /\ (k - 1) + 1 = k
      BY <1>5
    <3>2. t[k - 1] = s[k]
      BY <1>4, <3>1
    <3> QED BY <1>6, <3>1, <3>2
  <2>3. s[1] \in Range(s)
    BY <1>6
  <2> QED BY <1>6, <2>1, <2>2, <2>3
<1>8. ASSUME NoRepeats(s) PROVE NoRepeats(t) /\ s[1] \notin Range(t)
  <2>1. \A k, l \in 1..(n + 1) : s[k] = s[l] => k = l
    BY <1>3, <1>8 DEF NoRepeats
  <2>2. ASSUME NEW k \in 1..n PROVE t[k] # s[1]
    <3>1. 1 \in 1..(n + 1) /\ k + 1 # 1
      OBVIOUS
    <3> QED BY <1>4, <2>1, <3>1
  <2>3. ASSUME NEW k \in 1..n, NEW l \in 1..n, t[k] = t[l] PROVE k = l
    <3>1. k + 1 = l + 1
      BY <1>4, <2>1, <2>3
    <3> QED BY <3>1
  <2> QED BY <1>4, <1>6, <2>2, <2>3 DEF NoRepeats
<1> QED BY <1>2, <1>3, <1>7, <1>8 DEF t, IsSeq

\* Builders with an index they have not sent.
Sending == {b \in Builders : builder[b].pc = "sending"}

\* The queued buckets that are not merged: waiting to be built, built by one of
\* those builders, sent, and the one that the merger has.
OnTheWay(own, sent, now) ==
  Range(indexBuildJobs) \cup {own[b] : b \in Sending} \cup Range(sent) \cup now

\* Each is there once.
Placed(own, sent, now) ==
  /\ IsSeq(indexBuildJobs) /\ NoRepeats(indexBuildJobs)
  /\ IsSeq(sent) /\ NoRepeats(sent)
  /\ \A b, c \in Sending : own[b] = own[c] => b = c
  /\ OnTheWay(own, sent, now) \subseteq queued
  /\ Range(indexBuildJobs) \cap Range(sent) = {}
  /\ \A b \in Sending : own[b] \notin Range(indexBuildJobs) \cup Range(sent) \cup now
  /\ now \cap (Range(indexBuildJobs) \cup Range(sent)) = {}

\* What the indexes on the way are.
Carried(own, sent, now) ==
  /\ \A b \in Sending : builder[b].index = Seeder!PrefixIndex(own[b])
  /\ IsSeq(indexResults) /\ Len(indexResults) = Len(sent)
  /\ \A k \in 1..Len(sent) : indexResults[k] = Seeder!PrefixIndex(sent[k])
  /\ now # {} => \E x : /\ now = {x} /\ DOMAIN merger.todo \subseteq DOMAIN Seeder!PrefixIndex(x)
                        /\ \A p \in DOMAIN merger.todo : merger.todo[p] = Seeder!PrefixIndex(x)[p]
  /\ merger.pc = "merging" <=> now # {}

\* The buckets whose completions of p have been merged, and these.
Merged(p, own, sent, now) ==
  (queued \ OnTheWay(own, sent, now)) \cup {x \in now : p \notin DOMAIN merger.todo}

MergedOf(p, own, sent, now) == UNION {Part(x, p) : x \in Merged(p, own, sent, now)}

\* As long as nothing went wrong, the collection is right for what is merged.
Right(own, sent, now) ==
  trouble.here = 0 =>
    \A p \in DOMAIN collection :
      /\ FirstOf(collection[p], MergedOf(p, own, sent, now))
      /\ trouble.seedings = 1 => BestOf(collection[p], MergedOf(p, own, sent, now))

Way(own, sent, now) == Placed(own, sent, now) /\ Carried(own, sent, now) /\ Right(own, sent, now)

\* The records, and what the goroutines have to do with each other.
Shapes ==
  /\ builder = [b \in Builders |-> [pc |-> builder[b].pc, index |-> builder[b].index]]
  /\ merger = [pc |-> merger.pc, todo |-> merger.todo]
  /\ trouble = [seedings |-> trouble.seedings, failures |-> trouble.failures,
                kills |-> trouble.kills, here |-> trouble.here]
  /\ trouble.here \in Nat /\ trouble.seedings \in Nat \ {0}
  /\ \A p \in DOMAIN collection : IsPrefixOfWords(p) /\ collection[p] \in Seq(Seeder!Phrase)

Phases ==
  /\ \A b \in Builders : builder[b].pc \in {"unborn", "receiving", "sending", "ended"}
  /\ \A b \in Builders : builder[b].pc = "ended" => seeding # "scanning" /\ indexBuildJobs = <<>>
  /\ merger.pc = "ended" => indexResults = <<>> /\ seeding \in {"draining", "ended", "panicked"}
  /\ seeding = "ended" => merger.pc = "ended"
  /\ seeding = "waking" => indexBuildJobs = <<>>
  /\ (seeding \in {"draining", "ended"} /\ ~unready) => indexBuildJobs = <<>> /\ Sending = {}

SeedInv ==
  /\ LineInv /\ file \in Texts /\ Shapes /\ Phases
  /\ \E own, sent, now : Way(own, sent, now)

\* A run that is complete has merged all it queued.
LEMMA NothingLeft ==
  ASSUME SeedInv, Seeder!Complete
  PROVE  \E own, sent, now : Way(own, sent, now) /\ \A p : Merged(p, own, sent, now) = queued
<1>1. PICK own, sent, now : Way(own, sent, now)
  BY DEF SeedInv
<1>2. seeding = "ended" /\ ~unready
  BY DEF Seeder!Complete
<1>3. indexBuildJobs = <<>> /\ Sending = {} /\ indexResults = <<>> /\ merger.pc = "ended"
  BY <1>2 DEF SeedInv, Phases
<1>4. now = {}
  BY <1>1, <1>3 DEF Way, Carried
<1>5. Len(sent) = 0 /\ IsSeq(sent)
  BY <1>1, <1>3 DEF Way, Carried, Placed
<1>6. Range(sent) = {} /\ Range(indexBuildJobs) = {}
  <2>1. DOMAIN sent = {}
    BY <1>5 DEF IsSeq
  <2>2. DOMAIN indexBuildJobs = {}
    BY <1>3
  <2> QED BY <2>1, <2>2 DEF Range
<1>7. OnTheWay(own, sent, now) = {}
  BY <1>3, <1>4, <1>6 DEF OnTheWay
<1>8. \A p : Merged(p, own, sent, now) = queued
  BY <1>4, <1>7 DEF Merged
<1> QED BY <1>1, <1>8

\* What is right stays so while the same is merged, and in a run with trouble.
LEMMA RightStays ==
  ASSUME NEW own, NEW sent, NEW now, Right(own, sent, now), file' = file, collection' = collection,
         trouble' = trouble \/ trouble'.here # 0, NEW own2, NEW sent2, NEW now2,
         \A p \in DOMAIN collection : Merged(p, own2, sent2, now2)' = Merged(p, own, sent, now)
  PROVE  Right(own2, sent2, now2)'
<1>1. \A x, p : Part(x, p)' = Part(x, p)
  BY DEF Part, Seeder!Completions, Seeder!Entries
<1>2. \A p \in DOMAIN collection : MergedOf(p, own2, sent2, now2)' = MergedOf(p, own, sent, now)
  BY <1>1 DEF MergedOf
<1> QED BY <1>2 DEF Right

\* A step that touches no bucket.
LEMMA WayStays ==
  ASSUME NEW own, NEW sent, NEW now, Way(own, sent, now), file' = file, collection' = collection,
         trouble' = trouble \/ trouble'.here # 0,
         indexBuildJobs' = indexBuildJobs, indexResults' = indexResults, queued' = queued,
         Sending' = Sending, \A b \in Sending : builder'[b].index = builder[b].index,
         merger'.todo = merger.todo, merger'.pc = "merging" <=> merger.pc = "merging"
  PROVE  Way(own, sent, now)'
<1>1. OnTheWay(own, sent, now)' = OnTheWay(own, sent, now)
  BY DEF OnTheWay
<1>2. \A p : Merged(p, own, sent, now)' = Merged(p, own, sent, now)
  BY <1>1 DEF Merged
<1>3. Right(own, sent, now)'
  BY <1>2, RightStays DEF Way
<1>4. Placed(own, sent, now)'
  BY <1>1 DEF Way, Placed
<1>5. \A x : Seeder!PrefixIndex(x)' = Seeder!PrefixIndex(x)
  BY DEF Seeder!PrefixIndex, Seeder!PrefixesOf, Seeder!Entries, Seeder!Best, Seeder!Highest,
         Seeder!Completing
<1>6. Carried(own, sent, now)'
  BY <1>5 DEF Way, Carried
<1> QED BY <1>3, <1>4, <1>6 DEF Way

LEMMA IndexStays ==
  ASSUME file' = file
  PROVE  \A x : Seeder!PrefixIndex(x)' = Seeder!PrefixIndex(x)
BY DEF Seeder!PrefixIndex, Seeder!PrefixesOf, Seeder!Entries, Seeder!Best, Seeder!Highest,
       Seeder!Completing

\* The first pending bucket is none that is queued already.
LEMMA QueueingWay ==
  ASSUME SeedInv, NEW own, NEW sent, NEW now, Way(own, sent, now), Seeder!QueueBucket
  PROVE  Way(own, sent, now)'
<1> DEFINE h == Head(buckets)
<1>1. /\ buckets # <<>> /\ indexBuildJobs' = Append(indexBuildJobs, h) /\ queued' = queued \cup {h}
      /\ file' = file /\ collection' = collection /\ trouble' = trouble
      /\ builder' = builder /\ indexResults' = indexResults /\ merger' = merger
  BY DEF Seeder!QueueBucket
<1>2. h \notin queued
  <2>1. PICK S : buckets \in Seq(S)
    BY DEF SeedInv, LineInv, LinesKept
  <2>2. h = buckets[1] /\ 1 \in 1..Len(buckets)
    BY <1>1, <2>1
  <2>3. /\ \A b \in queued : b.end <= h.start
        /\ h.start \in Nat /\ h.end \in Nat /\ h.start < h.end
    BY <2>2 DEF SeedInv, LineInv, LinesKept, BucketOK
  <2> HIDE DEF h
  <2> QED BY <2>3
<1> HIDE DEF h
<1>3. Range(indexBuildJobs) \subseteq queued /\ OnTheWay(own, sent, now) \subseteq queued
  BY DEF Way, Placed, OnTheWay
<1>4. /\ IsSeq(indexBuildJobs') /\ Range(indexBuildJobs') = Range(indexBuildJobs) \cup {h}
      /\ NoRepeats(indexBuildJobs')
  BY <1>1, <1>2, <1>3, InAtTheEnd DEF Way, Placed
<1>5. Sending' = Sending
  BY <1>1 DEF Sending
<1>6. OnTheWay(own, sent, now)' = OnTheWay(own, sent, now) \cup {h}
  BY <1>4, <1>5 DEF OnTheWay
<1>7. \A p : Merged(p, own, sent, now)' = Merged(p, own, sent, now)
  BY <1>1, <1>2, <1>6 DEF Merged
<1>8. Right(own, sent, now)'
  BY <1>1, <1>7, RightStays DEF Way
<1>9. Placed(own, sent, now)'
  <2>1. h \notin OnTheWay(own, sent, now)
    BY <1>2, <1>3
  <2> QED BY <1>1, <1>4, <1>5, <1>6, <2>1 DEF Way, Placed, OnTheWay
<1>10. Carried(own, sent, now)'
  BY <1>1, <1>5, IndexStays DEF Way, Carried
<1> QED BY <1>8, <1>9, <1>10 DEF Way

\* A builder takes the first job and makes its index.
LEMMA BuildingWay ==
  ASSUME SeedInv, NEW own, NEW sent, NEW now, Way(own, sent, now), NEW b \in Builders, Seeder!BuildIndex(b)
  PROVE  \E own2 : Way(own2, sent, now)'
<1> PICK h : h = Head(indexBuildJobs)
  OBVIOUS
<1> PICK own2 : own2 = [c \in Builders |-> IF c = b THEN h ELSE own[c]]
  OBVIOUS
<1>1. /\ builder[b].pc = "receiving" /\ indexBuildJobs # <<>>
      /\ builder' = [builder EXCEPT ![b] = [pc |-> "sending", index |-> Seeder!PrefixIndex(h)]]
      /\ indexBuildJobs' = Tail(indexBuildJobs) /\ queued' = queued
      /\ file' = file /\ collection' = collection /\ trouble' = trouble
      /\ indexResults' = indexResults /\ merger' = merger
  BY DEF Seeder!BuildIndex, Seeder!history
<1>2. DOMAIN builder = Builders
  BY DEF SeedInv, Shapes
<1>3. /\ \A c \in Builders : builder'[c] = IF c = b THEN [pc |-> "sending", index |-> Seeder!PrefixIndex(h)]
                                           ELSE builder[c]
      /\ b \notin Sending /\ Sending' = Sending \cup {b}
  BY <1>1, <1>2 DEF Sending
<1>4. /\ IsSeq(indexBuildJobs') /\ NoRepeats(indexBuildJobs')
      /\ Range(indexBuildJobs) = Range(indexBuildJobs') \cup {h}
      /\ h \notin Range(indexBuildJobs')
  BY <1>1, OutAtTheFront DEF Way, Placed
<1>5. own2[b] = h /\ \A c \in Sending : own2[c] = own[c]
  BY <1>3 DEF Sending
<1>6. {own2[c] : c \in Sending'} = {own[c] : c \in Sending} \cup {h}
  <2>1. Sending' = Sending \cup {b}
    BY <1>3
  <2>2. {own2[c] : c \in Sending \cup {b}} = {own2[c] : c \in Sending} \cup {own2[b]}
    OBVIOUS
  <2>3. {own2[c] : c \in Sending} = {own[c] : c \in Sending}
    BY <1>5
  <2> QED BY <1>5, <2>1, <2>2, <2>3
<1>7. OnTheWay(own2, sent, now)' = OnTheWay(own, sent, now)
  BY <1>4, <1>6 DEF OnTheWay
<1>8. \A p : Merged(p, own2, sent, now)' = Merged(p, own, sent, now)
  BY <1>1, <1>7 DEF Merged
<1>9. Right(own2, sent, now)'
  BY <1>1, <1>8, RightStays DEF Way
<1>10. Placed(own2, sent, now)'
  <2>1. \A c \in Sending : own[c] # h /\ own[c] \notin Range(indexBuildJobs') \cup Range(sent) \cup now
    BY <1>4 DEF Way, Placed
  <2>2. h \notin Range(indexBuildJobs') \cup Range(sent) \cup now
    BY <1>4 DEF Way, Placed
  <2>3. \A c, d \in Sending' : own2[c] = own2[d] => c = d
    BY <1>3, <1>5, <2>1 DEF Way, Placed
  <2>4. \A c \in Sending' : own2[c] \notin Range(indexBuildJobs') \cup Range(sent) \cup now
    BY <1>3, <1>5, <2>1, <2>2
  <2>5. /\ Range(indexBuildJobs') \cap Range(sent) = {}
        /\ now \cap (Range(indexBuildJobs') \cup Range(sent)) = {}
    BY <1>4 DEF Way, Placed
  <2>6. OnTheWay(own2, sent, now)' \subseteq queued'
    BY <1>1, <1>7 DEF Way, Placed
  <2>7. IsSeq(sent) /\ NoRepeats(sent)
    BY DEF Way, Placed
  <2> QED BY <1>4, <2>3, <2>4, <2>5, <2>6, <2>7 DEF Placed
<1>11. Carried(own2, sent, now)'
  <2>1. \A c \in Sending' : builder'[c].index = Seeder!PrefixIndex(own2[c])
    BY <1>3, <1>5 DEF Way, Carried, Sending
  <2>2. \A x : Seeder!PrefixIndex(x)' = Seeder!PrefixIndex(x)
    BY <1>1, IndexStays
  <2> QED BY <1>1, <2>1, <2>2 DEF Way, Carried
<1> QED BY <1>9, <1>10, <1>11 DEF Way

\* A builder sends its index: it comes last.
LEMMA SendingWay ==
  ASSUME SeedInv, NEW own, NEW sent, NEW now, Way(own, sent, now), NEW b \in Builders, Seeder!SendIndex(b)
  PROVE  \E sent2 : Way(own, sent2, now)'
<1> PICK x : x = own[b]
  OBVIOUS
<1> PICK sent2 : sent2 = Append(sent, x)
  OBVIOUS
<1>1. /\ builder[b].pc = "sending" /\ indexResults' = Append(indexResults, builder[b].index)
      /\ builder' = [builder EXCEPT ![b] = [pc |-> "receiving", index |-> <<>>]]
      /\ indexBuildJobs' = indexBuildJobs /\ queued' = queued
      /\ file' = file /\ collection' = collection /\ trouble' = trouble /\ merger' = merger
  BY DEF Seeder!SendIndex, Seeder!history
<1>2. DOMAIN builder = Builders
  BY DEF SeedInv, Shapes
<1>3. /\ b \in Sending /\ Sending' = Sending \ {b}
      /\ \A c \in Sending' : builder'[c] = builder[c]
  BY <1>1, <1>2 DEF Sending
<1>4. x \notin Range(indexBuildJobs) \cup Range(sent) \cup now
  BY <1>3 DEF Way, Placed
<1>5. /\ IsSeq(sent2) /\ NoRepeats(sent2) /\ Range(sent2) = Range(sent) \cup {x}
      /\ Len(sent) \in Nat /\ Len(sent2) = Len(sent) + 1 /\ sent2[Len(sent) + 1] = x
      /\ \A k \in 1..Len(sent) : sent2[k] = sent[k]
  <2>1. IsSeq(sent) /\ NoRepeats(sent) /\ x \notin Range(sent)
    BY <1>4 DEF Way, Placed
  <2>2. /\ IsSeq(sent2) /\ Len(sent) \in Nat /\ Len(sent2) = Len(sent) + 1
        /\ \A k \in 1..Len(sent) : sent2[k] = sent[k]
        /\ sent2[Len(sent) + 1] = x
    BY <2>1, InAtTheEnd
  <2>3. Range(sent2) = Range(sent) \cup {x} /\ NoRepeats(sent2)
    BY <2>1, InAtTheEnd
  <2> QED BY <2>2, <2>3
<1>6. {own[c] : c \in Sending} = {own[c] : c \in Sending'} \cup {x}
  <2>1. Sending = Sending' \cup {b}
    BY <1>3
  <2>2. {own[c] : c \in Sending' \cup {b}} = {own[c] : c \in Sending'} \cup {own[b]}
    OBVIOUS
  <2> QED BY <2>1, <2>2
<1>7. OnTheWay(own, sent2, now)' = OnTheWay(own, sent, now)
  BY <1>1, <1>5, <1>6 DEF OnTheWay
<1>8. \A p : Merged(p, own, sent2, now)' = Merged(p, own, sent, now)
  BY <1>1, <1>7 DEF Merged
<1>9. Right(own, sent2, now)'
  BY <1>1, <1>8, RightStays DEF Way
<1>10. Placed(own, sent2, now)'
  <2>1. \A c \in Sending' : c \in Sending /\ c # b
    BY <1>3
  <2>2. \A c \in Sending' : own[c] # x
    BY <1>3, <2>1 DEF Way, Placed
  <2>3. \A c, d \in Sending' : own[c] = own[d] => c = d
    BY <2>1 DEF Way, Placed
  <2>4. \A c \in Sending' : own[c] \notin Range(indexBuildJobs') \cup Range(sent2) \cup now
    BY <1>1, <1>5, <2>1, <2>2 DEF Way, Placed
  <2>5. /\ Range(indexBuildJobs') \cap Range(sent2) = {}
        /\ now \cap (Range(indexBuildJobs') \cup Range(sent2)) = {}
    BY <1>1, <1>4, <1>5 DEF Way, Placed
  <2>6. OnTheWay(own, sent2, now)' \subseteq queued'
    BY <1>1, <1>7 DEF Way, Placed
  <2>7. IsSeq(indexBuildJobs') /\ NoRepeats(indexBuildJobs')
    BY <1>1 DEF Way, Placed
  <2> QED BY <1>5, <2>3, <2>4, <2>5, <2>6, <2>7 DEF Placed
<1>11. Carried(own, sent2, now)'
  <2>1. \A y : Seeder!PrefixIndex(y)' = Seeder!PrefixIndex(y)
    BY <1>1, IndexStays
  <2>2. \A c \in Sending' : builder'[c].index = Seeder!PrefixIndex(own[c])
    BY <1>3 DEF Way, Carried
  <2>3. IsSeq(indexResults') /\ Len(indexResults') = Len(sent2)
    BY <1>1, <1>5, InAtTheEnd DEF Way, Carried
  <2>4. \A k \in 1..Len(sent2) : indexResults'[k] = Seeder!PrefixIndex(sent2[k])
    <3> SUFFICES ASSUME NEW k \in 1..Len(sent2)
                 PROVE  indexResults'[k] = Seeder!PrefixIndex(sent2[k])
      OBVIOUS
    <3>1. IsSeq(indexResults) /\ Len(indexResults) = Len(sent)
      BY DEF Way, Carried
    <3>2. /\ \A l \in 1..Len(sent) : indexResults'[l] = indexResults[l]
          /\ indexResults'[Len(sent) + 1] = builder[b].index
      BY <1>1, <3>1, InAtTheEnd
    <3>3. CASE k \in 1..Len(sent)
      BY <1>5, <3>2, <3>3 DEF Way, Carried
    <3>4. CASE k = Len(sent) + 1
      BY <1>3, <1>5, <3>2, <3>4 DEF Way, Carried
    <3> QED BY <1>5, <3>3, <3>4
  <2> QED BY <1>1, <2>1, <2>2, <2>3, <2>4 DEF Way, Carried
<1> QED BY <1>9, <1>10, <1>11 DEF Way

\* What a bucket on the way has to do with a prefix of the collection.
LEMMA QueuedParts ==
  ASSUME SeedInv, NEW p \in DOMAIN collection, NEW x \in queued
  PROVE  /\ p \in DOMAIN Seeder!PrefixIndex(x) => BestOf(Seeder!PrefixIndex(x)[p], Part(x, p))
         /\ p \notin DOMAIN Seeder!PrefixIndex(x) => Part(x, p) = {}
         /\ Part(x, p) \in SUBSET Seeder!Phrase
         /\ \A y \in queued : y # x => Part(y, p) \cap Part(x, p) = {}
<1>1. IsPrefixOfWords(p) /\ file \in Texts
  BY DEF SeedInv, Shapes
<1>2. \A y \in queued : /\ BucketOK(file, y)
                        /\ y # x => y.end <= x.start \/ x.end <= y.start
  BY DEF SeedInv, LineInv, LinesKept
<1>3. \A y \in queued : y # x => Part(y, p) \cap Part(x, p) = {}
  BY <1>1, <1>2, PartsDiffer
<1> QED BY <1>1, <1>2, <1>3, IndexIsBest, LinesOfPart

\* The merger takes the first index.  Of the prefixes it has not, the bucket has
\* nothing to be merged.
LEMMA ReceivingWay ==
  ASSUME SeedInv, NEW own, NEW sent, NEW now, Way(own, sent, now), Seeder!ReceiveIndex
  PROVE  \E sent2, now2 : Way(own, sent2, now2)'
<1> PICK x : x = Head(sent)
  OBVIOUS
<1> PICK sent2 : sent2 = Tail(sent)
  OBVIOUS
<1> PICK now2 : now2 = {x}
  OBVIOUS
<1>1. /\ merger.pc = "receiving" /\ indexResults # <<>>
      /\ merger' = [pc |-> "merging", todo |-> Head(indexResults)]
      /\ indexResults' = Tail(indexResults)
      /\ indexBuildJobs' = indexBuildJobs /\ queued' = queued /\ builder' = builder
      /\ file' = file /\ collection' = collection /\ trouble' = trouble
  BY DEF Seeder!ReceiveIndex, Seeder!history
<1>2. now = {} /\ Sending' = Sending
  BY <1>1 DEF Way, Carried, Sending
<1>3. /\ IsSeq(indexResults) /\ Len(indexResults) = Len(sent) /\ IsSeq(sent) /\ NoRepeats(sent)
      /\ \A k \in 1..Len(sent) : indexResults[k] = Seeder!PrefixIndex(sent[k])
  BY DEF Way, Carried, Placed
<1>4. PICK n \in Nat : Len(sent) = n + 1
  <2>1. Len(indexResults) \in Nat \ {0}
    BY <1>1, <1>3, OutAtTheFront
  <2>2. Len(sent) = (Len(sent) - 1) + 1 /\ Len(sent) - 1 \in Nat
    BY <1>3, <2>1
  <2> QED BY <2>2
<1>5. /\ IsSeq(indexResults') /\ Len(indexResults') = n /\ Head(indexResults) = indexResults[1]
      /\ \A k \in 1..n : indexResults'[k] = indexResults[k + 1]
  BY <1>1, <1>3, <1>4, OutAtTheFront
<1>6. /\ IsSeq(sent2) /\ Len(sent2) = n /\ x = sent[1] /\ NoRepeats(sent2)
      /\ \A k \in 1..n : sent2[k] = sent[k + 1]
      /\ Range(sent) = Range(sent2) \cup {x} /\ x \notin Range(sent2)
  <2>1. sent # <<>>
    <3>1. Len(<<>>) = 0 /\ Len(sent) # 0
      BY <1>4
    <3> QED BY <3>1
  <2> QED BY <1>3, <1>4, <2>1, OutAtTheFront
<1>7. OnTheWay(own, sent2, now2)' = OnTheWay(own, sent, now)
  BY <1>1, <1>2, <1>6 DEF OnTheWay
<1>8. x \in queued /\ Head(indexResults) = Seeder!PrefixIndex(x)
  <2>1. x \in OnTheWay(own, sent, now)
    BY <1>6 DEF OnTheWay
  <2>2. 1 \in 1..Len(sent)
    BY <1>4
  <2> QED BY <1>3, <1>5, <1>6, <2>1, <2>2 DEF Way, Placed
<1>9. ASSUME NEW p \in DOMAIN collection
      PROVE  MergedOf(p, own, sent2, now2)' = MergedOf(p, own, sent, now)
  <2>1. \A y : Part(y, p)' = Part(y, p)
    BY <1>1 DEF Part, Seeder!Completions, Seeder!Entries
  <2>2. p \notin DOMAIN Seeder!PrefixIndex(x) => Part(x, p) = {}
    BY <1>8, QueuedParts
  <2>3. Merged(p, own, sent, now) = queued \ OnTheWay(own, sent, now)
    BY <1>2 DEF Merged
  <2>4. Merged(p, own, sent2, now2)'
          = Merged(p, own, sent, now) \cup {y \in {x} : p \notin DOMAIN Seeder!PrefixIndex(x)}
    BY <1>1, <1>7, <1>8, <2>3 DEF Merged
  <2>5. \A y \in Merged(p, own, sent2, now2)' : y \in Merged(p, own, sent, now) \/ Part(y, p) = {}
    BY <2>2, <2>4
  <2>6. \A y \in Merged(p, own, sent, now) : y \in Merged(p, own, sent2, now2)'
    BY <2>4
  <2>7. \A e : e \in MergedOf(p, own, sent2, now2)'
                 <=> \E y \in Merged(p, own, sent2, now2)' : e \in Part(y, p)
    BY <2>1 DEF MergedOf
  <2>8. \A e : e \in MergedOf(p, own, sent, now)
                 <=> \E y \in Merged(p, own, sent, now) : e \in Part(y, p)
    BY DEF MergedOf
  <2>9. \A e : e \in MergedOf(p, own, sent2, now2)' <=> e \in MergedOf(p, own, sent, now)
    BY <2>5, <2>6, <2>7, <2>8
  <2> QED BY <2>9
<1>10. Right(own, sent2, now2)'
  BY <1>1, <1>9 DEF Way, Right
<1>11. Placed(own, sent2, now2)'
  <2>1. \A c \in Sending' : own[c] \notin Range(indexBuildJobs') \cup Range(sent2) \cup now2
    BY <1>1, <1>2, <1>6 DEF Way, Placed
  <2>2. /\ Range(indexBuildJobs') \cap Range(sent2) = {}
        /\ now2 \cap (Range(indexBuildJobs') \cup Range(sent2)) = {}
    BY <1>1, <1>6 DEF Way, Placed
  <2>3. OnTheWay(own, sent2, now2)' \subseteq queued'
    BY <1>1, <1>7 DEF Way, Placed
  <2>4. /\ IsSeq(indexBuildJobs') /\ NoRepeats(indexBuildJobs')
        /\ \A c, d \in Sending' : own[c] = own[d] => c = d
    BY <1>1, <1>2 DEF Way, Placed
  <2> QED BY <1>6, <2>1, <2>2, <2>3, <2>4 DEF Placed
<1>12. Carried(own, sent2, now2)'
  <2>1. \A y : Seeder!PrefixIndex(y)' = Seeder!PrefixIndex(y)
    BY <1>1, IndexStays
  <2>2. \A c \in Sending' : builder'[c].index = Seeder!PrefixIndex(own[c])
    BY <1>1, <1>2 DEF Way, Carried
  <2>3. \A k \in 1..Len(sent2) : indexResults'[k] = Seeder!PrefixIndex(sent2[k])
    <3> SUFFICES ASSUME NEW k \in 1..n PROVE indexResults'[k] = Seeder!PrefixIndex(sent2[k])
      BY <1>6
    <3>1. k + 1 \in 1..Len(sent)
      BY <1>4
    <3> QED BY <1>3, <1>5, <1>6, <3>1
  <2>4. merger'.pc = "merging" /\ merger'.todo = Seeder!PrefixIndex(x)
    BY <1>1, <1>8
  <2>5. IsSeq(indexResults') /\ Len(indexResults') = Len(sent2)
    BY <1>5, <1>6
  <2> QED BY <2>1, <2>2, <2>3, <2>4, <2>5 DEF Carried
<1> QED BY <1>10, <1>11, <1>12 DEF Way

\* The list that the merger makes of a prefix that is left of its index.
LEMMA OneWritten ==
  ASSUME SeedInv, NEW own, NEW sent, NEW now, Way(own, sent, now), merger.pc = "merging",
         NEW p \in DOMAIN collection, p \in DOMAIN merger.todo,
         NEW t, t = Seeder!MergeTop(collection[p], merger.todo[p])
  PROVE  /\ t \in Seq(Seeder!Phrase)
         /\ \E x : /\ now = {x} /\ x \in queued
                   /\ trouble.here = 0 =>
                        /\ FirstOf(t, MergedOf(p, own, sent, now) \cup Part(x, p))
                        /\ trouble.seedings = 1 => BestOf(t, MergedOf(p, own, sent, now) \cup Part(x, p))
<1>1. PICK x : /\ now = {x} /\ DOMAIN merger.todo \subseteq DOMAIN Seeder!PrefixIndex(x)
               /\ \A q \in DOMAIN merger.todo : merger.todo[q] = Seeder!PrefixIndex(x)[q]
  BY DEF Way, Carried
<1>2. x \in OnTheWay(own, sent, now) /\ x \in queued
  BY <1>1 DEF Way, Placed, OnTheWay
<1> PICK new : new = merger.todo[p]
  OBVIOUS
<1>3. BestOf(new, Part(x, p)) /\ Part(x, p) \in SUBSET Seeder!Phrase
  <2>1. p \in DOMAIN Seeder!PrefixIndex(x) /\ new = Seeder!PrefixIndex(x)[p]
    BY <1>1
  <2> QED BY <1>2, <2>1, QueuedParts
<1>4. collection[p] \in Seq(Seeder!Phrase)
  BY DEF SeedInv, Shapes
<1>5. MergedOf(p, own, sent, now) \in SUBSET Seeder!Phrase
      /\ MergedOf(p, own, sent, now) \cap Part(x, p) = {}
  <2>1. \A y \in Merged(p, own, sent, now) : y \in queued /\ y # x
    BY <1>1, <1>2 DEF Merged
  <2>2. \A y \in Merged(p, own, sent, now) :
          Part(y, p) \in SUBSET Seeder!Phrase /\ Part(y, p) \cap Part(x, p) = {}
    BY <1>2, <2>1, QueuedParts
  <2>3. \A e : e \in MergedOf(p, own, sent, now)
                 <=> \E y \in Merged(p, own, sent, now) : e \in Part(y, p)
    BY DEF MergedOf
  <2> QED BY <2>2, <2>3
<1>6. t \in Seq(Seeder!Phrase)
  <2>1. FirstOf(collection[p], {}) /\ {} \in SUBSET Seeder!Phrase
    BY DEF FirstOf
  <2> QED BY <1>3, <1>4, <2>1, OneMerge
<1>7. ASSUME trouble.here = 0
      PROVE  /\ FirstOf(t, MergedOf(p, own, sent, now) \cup Part(x, p))
             /\ trouble.seedings = 1 => BestOf(t, MergedOf(p, own, sent, now) \cup Part(x, p))
  <2>1. /\ FirstOf(collection[p], MergedOf(p, own, sent, now))
        /\ trouble.seedings = 1 => BestOf(collection[p], MergedOf(p, own, sent, now))
    BY <1>7 DEF Way, Right
  <2> QED BY <1>3, <1>4, <1>5, <2>1, OneMerge
<1> QED BY <1>1, <1>2, <1>6, <1>7

\* A batch is of the prefixes left.
LEMMA BatchesAreLeft == \A batch \in Seeder!Batches : batch \subseteq DOMAIN merger.todo
BY DEF Seeder!Batches

\* What is written are lists of phrases, of the same prefixes.
LEMMA WrittenShape ==
  ASSUME SeedInv, NEW part \in SUBSET DOMAIN merger.todo, merger.pc = "merging",
         collection' = Seeder!Written(part)
  PROVE  /\ DOMAIN collection' = DOMAIN collection
         /\ \A p \in DOMAIN collection :
              collection'[p] = IF p \in part THEN Seeder!MergeTop(collection[p], merger.todo[p])
                                             ELSE collection[p]
         /\ \A p \in DOMAIN collection : collection'[p] \in Seq(Seeder!Phrase)
<1>1. /\ DOMAIN collection' = DOMAIN collection
      /\ \A p \in DOMAIN collection :
           collection'[p] = IF p \in part THEN Seeder!MergeTop(collection[p], merger.todo[p])
                                          ELSE collection[p]
  BY DEF Seeder!Written
<1>2. PICK own, sent, now : Way(own, sent, now)
  BY DEF SeedInv
<1>3. ASSUME NEW p \in DOMAIN collection PROVE collection'[p] \in Seq(Seeder!Phrase)
  <2>1. CASE p \in part
    <3>1. PICK t : t = Seeder!MergeTop(collection[p], merger.todo[p])
      OBVIOUS
    <3>2. p \in DOMAIN merger.todo
      BY <2>1
    <3>3. t \in Seq(Seeder!Phrase)
      BY <1>2, <3>1, <3>2, OneWritten
    <3> QED BY <1>1, <2>1, <3>1, <3>3
  <2>2. CASE p \notin part
    BY <1>1, <2>2 DEF SeedInv, Shapes
  <2> QED BY <2>1, <2>2
<1> QED BY <1>1, <1>3

\* The merger writes a batch: of its prefixes the bucket is merged.
LEMMA FlushingWay ==
  ASSUME SeedInv, NEW own, NEW sent, NEW now, Way(own, sent, now), Seeder!Flush
  PROVE  Way(own, sent, now)'
<1>1. PICK batch \in Seeder!Batches :
        /\ collection' = Seeder!Written(batch)
        /\ merger' = [merger EXCEPT !.todo = [p \in DOMAIN @ \ batch |-> @[p]]]
  BY DEF Seeder!Flush
<1>2. /\ merger.pc = "merging" /\ indexBuildJobs' = indexBuildJobs /\ indexResults' = indexResults
      /\ queued' = queued /\ builder' = builder /\ file' = file /\ trouble' = trouble
  BY DEF Seeder!Flush, Seeder!history
<1>3. /\ merger'.pc = "merging" /\ DOMAIN merger'.todo = (DOMAIN merger.todo) \ batch
      /\ \A p \in DOMAIN merger'.todo : merger'.todo[p] = merger.todo[p]
  <2>1. merger = [pc |-> merger.pc, todo |-> merger.todo]
    BY DEF SeedInv, Shapes
  <2> QED BY <1>1, <1>2, <2>1
<1>4. Sending' = Sending /\ OnTheWay(own, sent, now)' = OnTheWay(own, sent, now)
  BY <1>2 DEF Sending, OnTheWay
<1>5. /\ DOMAIN collection' = DOMAIN collection
      /\ \A p \in DOMAIN collection :
           collection'[p] = IF p \in batch THEN Seeder!MergeTop(collection[p], merger.todo[p])
                                           ELSE collection[p]
      /\ batch \subseteq DOMAIN merger.todo
  BY <1>1, <1>2, BatchesAreLeft, WrittenShape
<1>6. PICK x : /\ now = {x} /\ DOMAIN merger.todo \subseteq DOMAIN Seeder!PrefixIndex(x)
               /\ \A q \in DOMAIN merger.todo : merger.todo[q] = Seeder!PrefixIndex(x)[q]
  BY <1>2 DEF Way, Carried
<1>7. \A y, p : Part(y, p)' = Part(y, p)
  BY <1>2 DEF Part, Seeder!Completions, Seeder!Entries
<1>8. ASSUME NEW p \in DOMAIN collection, p \notin batch
      PROVE  MergedOf(p, own, sent, now)' = MergedOf(p, own, sent, now)
  <2>1. p \in DOMAIN merger'.todo <=> p \in DOMAIN merger.todo
    BY <1>3, <1>8
  <2>2. Merged(p, own, sent, now)' = Merged(p, own, sent, now)
    BY <1>2, <1>4, <2>1 DEF Merged
  <2> QED BY <1>7, <2>2 DEF MergedOf
<1>9. ASSUME NEW p \in batch
      PROVE  MergedOf(p, own, sent, now)' = MergedOf(p, own, sent, now) \cup Part(x, p)
  <2>1. p \notin DOMAIN merger'.todo /\ p \in DOMAIN merger.todo
    BY <1>3, <1>5
  <2>2. Merged(p, own, sent, now)' = Merged(p, own, sent, now) \cup {x}
    BY <1>2, <1>4, <1>6, <2>1 DEF Merged
  <2>3. \A e : e \in MergedOf(p, own, sent, now)'
                 <=> \E y \in Merged(p, own, sent, now)' : e \in Part(y, p)
    BY <1>7 DEF MergedOf
  <2>4. \A e : e \in MergedOf(p, own, sent, now)
                 <=> \E y \in Merged(p, own, sent, now) : e \in Part(y, p)
    BY DEF MergedOf
  <2>5. \A e : e \in MergedOf(p, own, sent, now)'
                 <=> e \in MergedOf(p, own, sent, now) \cup Part(x, p)
    BY <2>2, <2>3, <2>4
  <2> QED BY <2>5
<1>10. ASSUME trouble.here = 0, NEW p \in DOMAIN collection
       PROVE  /\ FirstOf(collection'[p], MergedOf(p, own, sent, now)')
              /\ trouble.seedings = 1 => BestOf(collection'[p], MergedOf(p, own, sent, now)')
  <2>1. CASE p \in batch
    <3>1. PICK t : t = Seeder!MergeTop(collection[p], merger.todo[p])
      OBVIOUS
    <3>2. p \in DOMAIN merger.todo /\ collection'[p] = t
      BY <1>5, <2>1, <3>1
    <3>3. PICK y : /\ now = {y}
                   /\ FirstOf(t, MergedOf(p, own, sent, now) \cup Part(y, p))
                   /\ trouble.seedings = 1 => BestOf(t, MergedOf(p, own, sent, now) \cup Part(y, p))
      BY <1>2, <1>10, <3>1, <3>2, OneWritten
    <3>4. y = x
      BY <1>6, <3>3
    <3> QED BY <1>9, <2>1, <3>2, <3>3, <3>4
  <2>2. CASE p \notin batch
    <3>1. collection'[p] = collection[p]
      BY <1>5, <2>2
    <3>2. /\ FirstOf(collection[p], MergedOf(p, own, sent, now))
          /\ trouble.seedings = 1 => BestOf(collection[p], MergedOf(p, own, sent, now))
      BY <1>10 DEF Way, Right
    <3> QED BY <1>8, <2>2, <3>1, <3>2
  <2> QED BY <2>1, <2>2
<1>11. Right(own, sent, now)'
  BY <1>2, <1>5, <1>10 DEF Right
<1>12. Placed(own, sent, now)'
  BY <1>2, <1>4 DEF Way, Placed
<1>13. Carried(own, sent, now)'
  <2>1. \A y : Seeder!PrefixIndex(y)' = Seeder!PrefixIndex(y)
    BY <1>2, IndexStays
  <2>2. /\ DOMAIN merger'.todo \subseteq DOMAIN Seeder!PrefixIndex(x)
        /\ \A p \in DOMAIN merger'.todo : merger'.todo[p] = Seeder!PrefixIndex(x)[p]
    BY <1>3, <1>6
  <2> QED BY <1>2, <1>3, <1>4, <1>6, <2>1, <2>2 DEF Way, Carried
<1> QED BY <1>11, <1>12, <1>13 DEF Way

\* The merger is done with an index, or gives the rest of it up.
LEMMA LeavingWay ==
  ASSUME SeedInv, NEW own, NEW sent, NEW now, Way(own, sent, now), Seeder!FlushFails \/ Seeder!FinishIndex
  PROVE  \E now2 : Way(own, sent, now2)'
<1> PICK now2 : now2 = {}
  OBVIOUS
<1>1. /\ indexBuildJobs' = indexBuildJobs /\ indexResults' = indexResults /\ queued' = queued
      /\ builder' = builder /\ file' = file /\ merger' = Seeder!Receiving
  BY DEF Seeder!FlushFails, Seeder!FinishIndex, Seeder!history
<1>2. Sending' = Sending
  BY <1>1 DEF Sending
<1>3. OnTheWay(own, sent, now2)' \subseteq OnTheWay(own, sent, now)
  BY <1>1, <1>2 DEF OnTheWay
<1>4. Placed(own, sent, now2)'
  BY <1>1, <1>2, <1>3 DEF Way, Placed
<1>5. Carried(own, sent, now2)'
  <2>1. \A y : Seeder!PrefixIndex(y)' = Seeder!PrefixIndex(y)
    BY <1>1, IndexStays
  <2>2. merger'.pc = "receiving"
    BY <1>1 DEF Seeder!Receiving
  <2> QED BY <1>1, <1>2, <2>1, <2>2 DEF Way, Carried
<1>6. CASE Seeder!FlushFails
  <2>1. trouble'.here # 0
    <3>1. trouble' = [trouble EXCEPT !.failures = @ + 1, !.here = @ + 1]
      BY <1>6 DEF Seeder!FlushFails
    <3>2. /\ trouble.here \in Nat
          /\ trouble = [seedings |-> trouble.seedings, failures |-> trouble.failures,
                        kills |-> trouble.kills, here |-> trouble.here]
      BY DEF SeedInv, Shapes
    <3>3. trouble'.here = trouble.here + 1
      BY <3>1, <3>2
    <3> QED BY <3>2, <3>3
  <2>2. Right(own, sent, now2)'
    BY <2>1 DEF Right
  <2> QED BY <1>4, <1>5, <2>2 DEF Way
<1>7. CASE Seeder!FinishIndex
  <2>1. /\ merger.pc = "merging" /\ DOMAIN merger.todo = {}
        /\ collection' = collection /\ trouble' = trouble
    BY <1>7 DEF Seeder!FinishIndex, Seeder!history
  <2>2. now \cap OnTheWay(own, sent, now2)' = {}
    BY <1>1, <1>2 DEF Way, Placed, OnTheWay
  <2>3. OnTheWay(own, sent, now) = OnTheWay(own, sent, now2)' \cup now
    BY <1>1, <1>2 DEF OnTheWay
  <2>4. now \subseteq queued
    BY <2>3 DEF Way, Placed
  <2>5. \A p : Merged(p, own, sent, now2)' = Merged(p, own, sent, now)
    BY <1>1, <2>1, <2>2, <2>3, <2>4 DEF Merged
  <2>6. Right(own, sent, now2)'
    BY <1>1, <2>1, <2>5, RightStays DEF Way
  <2> QED BY <1>4, <1>5, <2>6 DEF Way
<1> QED BY <1>6, <1>7

\* A run starts with nothing queued: an empty collection has the best of nothing.
Fresh ==
  /\ indexBuildJobs = <<>> /\ indexResults = <<>> /\ queued = {}
  /\ builder = [b \in Builders |-> Seeder!Unborn]
  /\ merger = Seeder!Receiving
  /\ trouble.seedings = 1 => \A p \in DOMAIN collection : collection[p] = <<>>

LEMMA FreshWay == Fresh => \E own, sent, now : Way(own, sent, now)
<1> SUFFICES ASSUME Fresh PROVE Way(<<>>, <<>>, {})
  OBVIOUS
<1>1. IsSeq(<<>>) /\ NoRepeats(<<>>) /\ Range(<<>>) = {} /\ Len(<<>>) = 0
  BY DEF IsSeq, NoRepeats, Range
<1>2. Sending = {} /\ merger.pc = "receiving"
  BY DEF Fresh, Sending, Seeder!Unborn, Seeder!Receiving
<1>3. OnTheWay(<<>>, <<>>, {}) = {}
  BY <1>1, <1>2 DEF OnTheWay, Fresh
<1>4. Placed(<<>>, <<>>, {})
  BY <1>1, <1>2, <1>3 DEF Placed, Fresh
<1>5. Carried(<<>>, <<>>, {})
  BY <1>1, <1>2 DEF Carried, Fresh
<1>6. ASSUME NEW p PROVE MergedOf(p, <<>>, <<>>, {}) = {}
  BY DEF MergedOf, Merged, Fresh
<1>7. BestOf(<<>>, {})
  <2>1. <<>> \in Seq({}) /\ Len(<<>>) <= K
    BY <1>1, TextsAssumption DEF Seeder!SeederAssumption
  <2> QED BY <1>1, <2>1 DEF BestOf
<1>8. \A top : FirstOf(top, {})
  BY DEF FirstOf
<1>9. Right(<<>>, <<>>, {})
  BY <1>6, <1>7, <1>8 DEF Right, Fresh
<1> QED BY <1>4, <1>5, <1>9 DEF Way

\* The steps that leave every bucket where it is.
Elsewhere ==
  \/ Seeder!SplitBucket \/ Seeder!CloseJobs \/ Seeder!Waiting \/ Seeder!SeedReturns
  \/ Seeder!EndMerger \/ Seeder!Kill \/ UNCHANGED Seeder!vars
  \/ \E b \in Builders : Seeder!StartBuilder(b) \/ Seeder!SendPanics(b) \/ Seeder!EndBuilder(b)

LEMMA ElsewhereWay ==
  ASSUME SeedInv, NEW own, NEW sent, NEW now, Way(own, sent, now), Elsewhere
  PROVE  Way(own, sent, now)'
<1>1. /\ file' = file /\ collection' = collection /\ indexBuildJobs' = indexBuildJobs
      /\ indexResults' = indexResults /\ queued' = queued
  BY DEF Elsewhere, Seeder!SplitBucket, Seeder!CloseJobs, Seeder!Waiting, Seeder!WaitReturnsAtOnce, Seeder!WaitBlocks,
         Seeder!WaitReturns, Seeder!WaitPanics, Seeder!SeedReturns,
         Seeder!EndMerger, Seeder!Kill, Seeder!vars, Seeder!history, Seeder!StartBuilder,
         Seeder!SendPanics, Seeder!EndBuilder
<1>2. trouble' = trouble \/ trouble'.here # 0
  <2>1. CASE Seeder!Kill
    <3>1. trouble' = [trouble EXCEPT !.kills = @ + 1, !.here = @ + 1]
      BY <2>1 DEF Seeder!Kill
    <3>2. /\ trouble.here \in Nat
          /\ trouble = [seedings |-> trouble.seedings, failures |-> trouble.failures,
                        kills |-> trouble.kills, here |-> trouble.here]
      BY DEF SeedInv, Shapes
    <3>3. trouble'.here = trouble.here + 1
      BY <3>1, <3>2
    <3> QED BY <3>2, <3>3
  <2>2. CASE ~Seeder!Kill
    BY <2>2 DEF Elsewhere, Seeder!SplitBucket, Seeder!CloseJobs, Seeder!Waiting, Seeder!WaitReturnsAtOnce, Seeder!WaitBlocks,
                Seeder!WaitReturns, Seeder!WaitPanics, Seeder!SeedReturns,
                Seeder!EndMerger, Seeder!vars, Seeder!history, Seeder!StartBuilder,
                Seeder!SendPanics, Seeder!EndBuilder
  <2> QED BY <2>1, <2>2
<1>3. merger'.todo = merger.todo /\ (merger'.pc = "merging" <=> merger.pc = "merging")
  <2>1. CASE Seeder!EndMerger
    <3>1. merger.pc = "receiving" /\ merger' = [merger EXCEPT !.pc = "ended"]
      BY <2>1 DEF Seeder!EndMerger
    <3>2. merger = [pc |-> merger.pc, todo |-> merger.todo]
      BY DEF SeedInv, Shapes
    <3> QED BY <3>1, <3>2
  <2>2. CASE ~Seeder!EndMerger
    <3>1. merger' = merger
      BY <2>2 DEF Elsewhere, Seeder!SplitBucket, Seeder!CloseJobs, Seeder!Waiting, Seeder!WaitReturnsAtOnce, Seeder!WaitBlocks,
                  Seeder!WaitReturns, Seeder!WaitPanics, Seeder!SeedReturns,
                  Seeder!Kill, Seeder!vars, Seeder!history, Seeder!StartBuilder,
                  Seeder!SendPanics, Seeder!EndBuilder
    <3> QED BY <3>1
  <2> QED BY <2>1, <2>2
<1>4. Sending' = Sending /\ \A b \in Sending : builder'[b].index = builder[b].index
  <2>1. ASSUME NEW b \in Builders, Seeder!StartBuilder(b) \/ Seeder!EndBuilder(b)
        PROVE  Sending' = Sending /\ \A c \in Sending : builder'[c].index = builder[c].index
    <3>1. DOMAIN builder = Builders
      BY DEF SeedInv, Shapes
    <3>2. builder[b] = [pc |-> builder[b].pc, index |-> builder[b].index]
      BY DEF SeedInv, Shapes
    <3>3. /\ builder[b].pc \in {"unborn", "receiving"}
          /\ \/ builder' = [builder EXCEPT ![b].pc = "receiving"]
             \/ builder' = [builder EXCEPT ![b].pc = "ended"]
      BY <2>1 DEF Seeder!StartBuilder, Seeder!EndBuilder
    <3>4. /\ builder'[b].pc # "sending" /\ builder[b].pc # "sending"
          /\ \A c \in Builders : c # b => builder'[c] = builder[c]
      BY <3>1, <3>2, <3>3
    <3> QED BY <3>4 DEF Sending
  <2>2. CASE ~\E b \in Builders : Seeder!StartBuilder(b) \/ Seeder!EndBuilder(b)
    <3>1. builder' = builder
      BY <2>2 DEF Elsewhere, Seeder!SplitBucket, Seeder!CloseJobs, Seeder!Waiting, Seeder!WaitReturnsAtOnce, Seeder!WaitBlocks,
                  Seeder!WaitReturns, Seeder!WaitPanics, Seeder!SeedReturns,
                  Seeder!EndMerger, Seeder!Kill, Seeder!vars, Seeder!history, Seeder!SendPanics
    <3> QED BY <3>1 DEF Sending
  <2> QED BY <2>1, <2>2
<1> QED BY <1>1, <1>2, <1>3, <1>4, WayStays

\* The next run finds the collection as it is.
LEMMA AgainIsFresh ==
  ASSUME SeedInv, Seeder!SeedAgain
  PROVE  /\ Fresh' /\ trouble'.seedings \in Nat \ {0} /\ trouble'.here \in Nat
         /\ trouble' = [seedings |-> trouble'.seedings, failures |-> trouble'.failures,
                        kills |-> trouble'.kills, here |-> trouble'.here]
<1>1. trouble' = [trouble EXCEPT !.seedings = @ + 1, !.here = 0]
  BY DEF Seeder!SeedAgain
<1>2. /\ trouble = [seedings |-> trouble.seedings, failures |-> trouble.failures,
                    kills |-> trouble.kills, here |-> trouble.here]
      /\ trouble.seedings \in Nat \ {0}
  BY DEF SeedInv, Shapes
<1>3. /\ trouble' = [seedings |-> trouble'.seedings, failures |-> trouble'.failures,
                     kills |-> trouble'.kills, here |-> trouble'.here]
      /\ trouble'.seedings = trouble.seedings + 1 /\ trouble'.here = 0
  BY <1>1, <1>2
<1>4. trouble'.seedings # 1 /\ trouble'.seedings \in Nat \ {0}
  BY <1>2, <1>3
<1> QED BY <1>3, <1>4 DEF Fresh, Seeder!SeedAgain

LEMMA WayNext ==
  ASSUME SeedInv, [Seeder!Next]_(Seeder!vars)
  PROVE  (\E own, sent, now : Way(own, sent, now))'
<1> PICK own, sent, now : Way(own, sent, now)
  BY DEF SeedInv
<1>1. CASE Seeder!QueueBucket
  BY <1>1, QueueingWay
<1>2. ASSUME NEW b \in Builders, Seeder!BuildIndex(b) \/ Seeder!SendIndex(b)
      PROVE  \E own2, sent2 : Way(own2, sent2, now)'
  BY <1>2, BuildingWay, SendingWay
<1>3. CASE Seeder!ReceiveIndex
  BY <1>3, ReceivingWay
<1>4. CASE Seeder!Flush
  BY <1>4, FlushingWay
<1>5. CASE Seeder!FlushFails \/ Seeder!FinishIndex
  BY <1>5, LeavingWay
<1>6. CASE Seeder!SeedAgain
  <2>1. Fresh'
    BY <1>6, AgainIsFresh
  <2> QED BY <2>1, FreshWay, PTL
<1>7. CASE Elsewhere
  BY <1>7, ElsewhereWay
<1> QED BY <1>1, <1>2, <1>3, <1>4, <1>5, <1>6, <1>7
        DEF Seeder!Next, Seeder!Scanning, Seeder!Merging, Seeder!Building, Elsewhere

LEMMA ShapesNext ==
  ASSUME SeedInv, [Seeder!Next]_(Seeder!vars)
  PROVE  Shapes'
<1> DEFINE BuilderShape == builder = [b \in Builders |-> [pc |-> builder[b].pc, index |-> builder[b].index]]
           MergerShape == merger = [pc |-> merger.pc, todo |-> merger.todo]
           TroubleShape ==
             /\ trouble = [seedings |-> trouble.seedings, failures |-> trouble.failures,
                           kills |-> trouble.kills, here |-> trouble.here]
             /\ trouble.here \in Nat /\ trouble.seedings \in Nat \ {0}
           CollectionShape ==
             \A p \in DOMAIN collection : IsPrefixOfWords(p) /\ collection[p] \in Seq(Seeder!Phrase)
<1>1. BuilderShape /\ MergerShape /\ TroubleShape /\ CollectionShape
  BY DEF SeedInv, Shapes
<1>2. BuilderShape'
  <2>1. ASSUME NEW b \in Builders, NEW w, builder' = [builder EXCEPT ![b] = w],
               w = [pc |-> w.pc, index |-> w.index]
        PROVE  BuilderShape'
    BY <1>1, <2>1
  <2>2. ASSUME NEW b \in Builders, NEW s, builder' = [builder EXCEPT ![b].pc = s] PROVE BuilderShape'
    BY <1>1, <2>2
  <2>3. ASSUME NEW b \in Builders, Seeder!BuildIndex(b) PROVE BuilderShape'
    <3>1. PICK w : w = [pc |-> "sending", index |-> Seeder!PrefixIndex(Head(indexBuildJobs))]
      OBVIOUS
    <3>2. builder' = [builder EXCEPT ![b] = w]
      BY <2>3, <3>1 DEF Seeder!BuildIndex
    <3>3. w = [pc |-> w.pc, index |-> w.index]
      BY <3>1
    <3> QED BY <2>1, <3>2, <3>3
  <2>4. ASSUME NEW b \in Builders, Seeder!SendIndex(b) PROVE BuilderShape'
    <3>1. PICK w : w = [pc |-> "receiving", index |-> <<>>]
      OBVIOUS
    <3>2. builder' = [builder EXCEPT ![b] = w]
      BY <2>4, <3>1 DEF Seeder!SendIndex
    <3>3. w = [pc |-> w.pc, index |-> w.index]
      BY <3>1
    <3> QED BY <2>1, <3>2, <3>3
  <2>5. ASSUME NEW b \in Builders, Seeder!StartBuilder(b) \/ Seeder!EndBuilder(b) PROVE BuilderShape'
    <3>1. \/ builder' = [builder EXCEPT ![b].pc = "receiving"]
          \/ builder' = [builder EXCEPT ![b].pc = "ended"]
      BY <2>5 DEF Seeder!StartBuilder, Seeder!EndBuilder
    <3> HIDE DEF BuilderShape
    <3> QED BY <2>2, <3>1
  <2>6. CASE Seeder!SeedAgain
    BY <2>6 DEF Seeder!SeedAgain, Seeder!Unborn
  <2>7. ASSUME builder' = builder PROVE BuilderShape'
    BY <1>1, <2>7
  <2> HIDE DEF BuilderShape
  <2>8. \/ builder' = builder \/ Seeder!SeedAgain
        \/ \E b \in Builders : \/ Seeder!BuildIndex(b) \/ Seeder!SendIndex(b)
                               \/ Seeder!StartBuilder(b) \/ Seeder!EndBuilder(b)
    BY DEF Seeder!Next, Seeder!Scanning, Seeder!Merging, Seeder!Building, Seeder!vars, Seeder!QueueBucket,
           Seeder!SplitBucket, Seeder!CloseJobs, Seeder!Waiting, Seeder!WaitReturnsAtOnce, Seeder!WaitBlocks,
           Seeder!WaitReturns, Seeder!WaitPanics, Seeder!SeedReturns, Seeder!ReceiveIndex,
           Seeder!Flush, Seeder!FlushFails, Seeder!FinishIndex, Seeder!EndMerger, Seeder!Kill,
           Seeder!SendPanics
  <2> QED BY <2>3, <2>4, <2>5, <2>6, <2>7, <2>8
<1>3. MergerShape'
  <2>1. CASE Seeder!ReceiveIndex \/ Seeder!FlushFails \/ Seeder!FinishIndex \/ Seeder!SeedAgain
    BY <2>1 DEF Seeder!ReceiveIndex, Seeder!FlushFails, Seeder!FinishIndex, Seeder!SeedAgain, Seeder!Receiving
  <2>2. CASE Seeder!Flush \/ Seeder!EndMerger
    <3>1. \/ \E t : merger' = [merger EXCEPT !.todo = t]
          \/ merger' = [merger EXCEPT !.pc = "ended"]
      BY <2>2 DEF Seeder!Flush, Seeder!EndMerger
    <3> QED BY <1>1, <3>1
  <2>3. ASSUME merger' = merger PROVE MergerShape'
    BY <1>1, <2>3
  <2> HIDE DEF MergerShape
  <2>4. \/ merger' = merger \/ Seeder!ReceiveIndex \/ Seeder!Flush \/ Seeder!FlushFails
        \/ Seeder!FinishIndex \/ Seeder!EndMerger \/ Seeder!SeedAgain
    BY DEF Seeder!Next, Seeder!Scanning, Seeder!Merging, Seeder!Building, Seeder!vars, Seeder!QueueBucket,
           Seeder!SplitBucket, Seeder!CloseJobs, Seeder!Waiting, Seeder!WaitReturnsAtOnce, Seeder!WaitBlocks,
           Seeder!WaitReturns, Seeder!WaitPanics, Seeder!SeedReturns, Seeder!Kill,
           Seeder!StartBuilder, Seeder!BuildIndex, Seeder!SendIndex, Seeder!SendPanics, Seeder!EndBuilder
  <2> QED BY <2>1, <2>2, <2>3, <2>4
<1>4. TroubleShape'
  <2>1. CASE Seeder!FlushFails \/ Seeder!Kill
    <3>1. \/ trouble' = [trouble EXCEPT !.failures = @ + 1, !.here = @ + 1]
          \/ trouble' = [trouble EXCEPT !.kills = @ + 1, !.here = @ + 1]
      BY <2>1 DEF Seeder!FlushFails, Seeder!Kill
    <3>2. /\ trouble' = [seedings |-> trouble'.seedings, failures |-> trouble'.failures,
                         kills |-> trouble'.kills, here |-> trouble'.here]
          /\ trouble'.here = trouble.here + 1 /\ trouble'.seedings = trouble.seedings
      BY <1>1, <3>1
    <3> QED BY <1>1, <3>2
  <2>2. CASE Seeder!SeedAgain
    BY <2>2, AgainIsFresh
  <2>3. ASSUME trouble' = trouble PROVE TroubleShape'
    BY <1>1, <2>3
  <2> HIDE DEF TroubleShape
  <2>4. trouble' = trouble \/ Seeder!FlushFails \/ Seeder!Kill \/ Seeder!SeedAgain
    BY DEF Seeder!Next, Seeder!Scanning, Seeder!Merging, Seeder!Building, Seeder!vars, Seeder!history,
           Seeder!QueueBucket, Seeder!SplitBucket, Seeder!CloseJobs, Seeder!Waiting, Seeder!WaitReturnsAtOnce, Seeder!WaitBlocks,
           Seeder!WaitReturns, Seeder!WaitPanics, Seeder!SeedReturns,
           Seeder!ReceiveIndex, Seeder!Flush, Seeder!FinishIndex, Seeder!EndMerger,
           Seeder!StartBuilder, Seeder!BuildIndex, Seeder!SendIndex, Seeder!SendPanics, Seeder!EndBuilder
  <2> QED BY <2>1, <2>2, <2>3, <2>4
<1>5. CollectionShape'
  <2>1. ASSUME NEW part \in SUBSET DOMAIN merger.todo, merger.pc = "merging",
               collection' = Seeder!Written(part)
        PROVE  CollectionShape'
    BY <1>1, <2>1, WrittenShape
  <2>2. ASSUME collection' = collection PROVE CollectionShape'
    BY <1>1, <2>2
  <2> HIDE DEF CollectionShape
  <2>3. CASE Seeder!Flush
    <3>1. PICK batch \in Seeder!Batches : collection' = Seeder!Written(batch)
      BY <2>3 DEF Seeder!Flush
    <3>2. merger.pc = "merging"
      BY <2>3 DEF Seeder!Flush
    <3> QED BY <2>1, <3>1, <3>2, BatchesAreLeft
  <2>4. CASE Seeder!FlushFails
    <3>1. PICK batch \in Seeder!Batches : \E part \in SUBSET batch : collection' = Seeder!Written(part)
      BY <2>4 DEF Seeder!FlushFails
    <3>2. PICK part \in SUBSET batch : collection' = Seeder!Written(part)
      BY <3>1
    <3>3. merger.pc = "merging"
      BY <2>4 DEF Seeder!FlushFails
    <3> QED BY <2>1, <3>2, <3>3, BatchesAreLeft
  <2>5. collection' = collection \/ Seeder!Flush \/ Seeder!FlushFails
    BY DEF Seeder!Next, Seeder!Scanning, Seeder!Merging, Seeder!Building, Seeder!vars,
           Seeder!QueueBucket, Seeder!SplitBucket, Seeder!CloseJobs, Seeder!Waiting, Seeder!WaitReturnsAtOnce, Seeder!WaitBlocks,
           Seeder!WaitReturns, Seeder!WaitPanics, Seeder!SeedReturns,
           Seeder!ReceiveIndex, Seeder!FinishIndex, Seeder!EndMerger, Seeder!Kill, Seeder!SeedAgain,
           Seeder!StartBuilder, Seeder!BuildIndex, Seeder!SendIndex, Seeder!SendPanics, Seeder!EndBuilder
  <2> QED BY <2>2, <2>3, <2>4, <2>5
<1> QED BY <1>2, <1>3, <1>4, <1>5 DEF Shapes

\* The channels are closed one after the other: builders that were waited for have
\* left no job and no index behind.
LEMMA PhasesNext ==
  ASSUME SeedInv, [Seeder!Next]_(Seeder!vars)
  PROVE  Phases'
<1>1. /\ \A b \in Builders : builder[b].pc \in {"unborn", "receiving", "sending", "ended"}
      /\ \A b \in Builders : builder[b].pc = "ended" => seeding # "scanning" /\ indexBuildJobs = <<>>
      /\ merger.pc = "ended" => indexResults = <<>> /\ seeding \in {"draining", "ended", "panicked"}
      /\ seeding = "ended" => merger.pc = "ended"
      /\ seeding = "waking" => indexBuildJobs = <<>>
      /\ (seeding \in {"draining", "ended"} /\ ~unready) =>
           indexBuildJobs = <<>> /\ \A b \in Builders : builder[b].pc # "sending"
      /\ DOMAIN builder = Builders
      /\ merger = [pc |-> merger.pc, todo |-> merger.todo]
      /\ \A b \in Builders : builder[b] = [pc |-> builder[b].pc, index |-> builder[b].index]
  BY DEF SeedInv, Shapes, Phases, Sending
<1> DEFINE Goal ==
      /\ \A b \in Builders : builder[b].pc \in {"unborn", "receiving", "sending", "ended"}
      /\ \A b \in Builders : builder[b].pc = "ended" => seeding # "scanning" /\ indexBuildJobs = <<>>
      /\ merger.pc = "ended" => indexResults = <<>> /\ seeding \in {"draining", "ended", "panicked"}
      /\ seeding = "ended" => merger.pc = "ended"
      /\ seeding = "waking" => indexBuildJobs = <<>>
      /\ (seeding \in {"draining", "ended"} /\ ~unready) =>
           indexBuildJobs = <<>> /\ \A b \in Builders : builder[b].pc # "sending"
<1> SUFFICES Goal'
  BY DEF Phases, Sending
<1>2. CASE Seeder!QueueBucket \/ Seeder!SplitBucket \/ Seeder!CloseJobs
  BY <1>1, <1>2 DEF Seeder!QueueBucket, Seeder!SplitBucket, Seeder!CloseJobs, Seeder!history
<1>3. CASE Seeder!Waiting
  <2>1. /\ indexBuildJobs' = indexBuildJobs /\ builder' = builder /\ merger' = merger
        /\ indexResults' = indexResults /\ seeding \in {"waiting", "waking"}
    BY <1>3 DEF Seeder!Waiting, Seeder!WaitReturnsAtOnce, Seeder!WaitBlocks,
                Seeder!WaitReturns, Seeder!WaitPanics, Seeder!history
  <2>2. Seeder!Counted = {} => \A b \in Builders : builder[b].pc # "sending"
    BY DEF Seeder!Counted
  <2>3. CASE Seeder!WaitReturnsAtOnce
    <3>1. /\ seeding' = "draining" /\ Seeder!Counted = {}
          /\ unready' = \A b \in Builders : builder[b].pc = "unborn"
      BY <2>3 DEF Seeder!WaitReturnsAtOnce
    <3>2. ~unready' => \E b \in Builders : builder[b].pc = "ended"
      BY <1>1, <3>1 DEF Seeder!Counted
    <3> QED BY <1>1, <2>1, <2>2, <3>1, <3>2
  <2>4. CASE Seeder!WaitReturns
    <3>1. seeding' = "draining" /\ seeding = "waking" /\ Seeder!Counted = {}
      BY <2>4 DEF Seeder!WaitReturns
    <3> QED BY <1>1, <2>1, <2>2, <3>1
  <2>5. CASE Seeder!WaitBlocks \/ Seeder!WaitPanics
    <3>1. seeding' \in {"blocked", "reused"}
      BY <2>5 DEF Seeder!WaitBlocks, Seeder!WaitPanics
    <3> QED BY <1>1, <2>1, <3>1
  <2> QED BY <1>3, <2>3, <2>4, <2>5 DEF Seeder!Waiting
<1>4. CASE Seeder!SeedReturns \/ Seeder!Kill \/ Seeder!EndMerger \/ UNCHANGED Seeder!vars
  BY <1>1, <1>4 DEF Seeder!SeedReturns, Seeder!Kill, Seeder!EndMerger, Seeder!vars, Seeder!history
<1>5. CASE Seeder!ReceiveIndex \/ Seeder!FlushFails \/ Seeder!FinishIndex
  BY <1>1, <1>5 DEF Seeder!ReceiveIndex, Seeder!FlushFails, Seeder!FinishIndex, Seeder!Receiving,
                    Seeder!Running, Seeder!history
<1>6. CASE Seeder!Flush
  <2>1. merger.pc = "merging" /\ merger'.pc = merger.pc
    BY <1>1, <1>6 DEF Seeder!Flush
  <2> QED BY <1>1, <1>6, <2>1 DEF Seeder!Flush, Seeder!history
<1>7. ASSUME NEW b \in Builders, Seeder!EndBuilder(b)
      PROVE  Goal'
  <2>1. /\ \A c \in Builders : c # b => builder'[c] = builder[c]
        /\ builder'[b].pc = "ended" /\ seeding # "scanning" /\ indexBuildJobs = <<>>
        /\ seeding' = seeding \/ (seeding = "blocked" /\ seeding' = "waking")
    BY <1>1, <1>7 DEF Seeder!EndBuilder
  <2>2. /\ unready' = unready /\ indexBuildJobs' = indexBuildJobs
        /\ indexResults' = indexResults /\ merger' = merger
    BY <1>7 DEF Seeder!EndBuilder, Seeder!history
  <2> QED BY <1>1, <2>1, <2>2
<1>7a. ASSUME NEW b \in Builders, Seeder!StartBuilder(b)
       PROVE  Goal'
  <2>1. /\ \A c \in Builders : c # b => builder'[c] = builder[c]
        /\ builder'[b].pc = "receiving"
    BY <1>1, <1>7a DEF Seeder!StartBuilder
  <2>2. /\ seeding' = seeding /\ unready' = unready /\ indexBuildJobs' = indexBuildJobs
        /\ indexResults' = indexResults /\ merger' = merger
    BY <1>7a DEF Seeder!StartBuilder, Seeder!history
  <2> QED BY <1>1, <2>1, <2>2
<1>8. ASSUME NEW b \in Builders, Seeder!BuildIndex(b)
      PROVE  Goal'
  <2>1. /\ \A c \in Builders : c # b => builder'[c] = builder[c]
        /\ builder'[b].pc = "sending" /\ indexBuildJobs # <<>>
    BY <1>1, <1>8 DEF Seeder!BuildIndex
  <2>2. /\ seeding' = seeding /\ unready' = unready /\ indexResults' = indexResults /\ merger' = merger
    BY <1>8 DEF Seeder!BuildIndex, Seeder!history
  <2>3. seeding # "ended"
    BY <1>8 DEF Seeder!BuildIndex, Seeder!Running
  <2> QED BY <1>1, <2>1, <2>2, <2>3
<1>9. ASSUME NEW b \in Builders, Seeder!SendIndex(b)
      PROVE  Goal'
  <2>1. /\ \A c \in Builders : c # b => builder'[c] = builder[c]
        /\ builder'[b].pc = "receiving" /\ seeding \in {"scanning", "waiting", "blocked", "waking"}
    BY <1>1, <1>9 DEF Seeder!SendIndex, Seeder!Running
  <2>2. /\ seeding' = seeding /\ unready' = unready /\ indexBuildJobs' = indexBuildJobs /\ merger' = merger
    BY <1>9 DEF Seeder!SendIndex, Seeder!history
  <2> QED BY <1>1, <2>1, <2>2
<1>10. ASSUME NEW b \in Builders, Seeder!SendPanics(b)
       PROVE  Goal'
  BY <1>1, <1>10 DEF Seeder!SendPanics, Seeder!history
<1>11. CASE Seeder!SeedAgain
  BY <1>11 DEF Seeder!SeedAgain, Seeder!Unborn, Seeder!Receiving
<1> HIDE DEF Goal
<1> QED
  BY <1>2, <1>3, <1>4, <1>5, <1>6, <1>7, <1>7a, <1>8, <1>9, <1>10, <1>11
     DEF Seeder!Next, Seeder!Scanning, Seeder!Merging, Seeder!Building

LEMMA SeedInit ==
  ASSUME Seeder!Init
  PROVE  SeedInv
<1>1. file \in Texts /\ file \in Seq(Seeder!Phrase)
  BY TextsAssumption DEF Seeder!Init, Seeder!SeederAssumption
<1>2. LineInv
  BY LineInit
<1>3. Fresh
  BY DEF Seeder!Init, Fresh
<1>4. Phases
  BY DEF Seeder!Init, Phases, Sending, Seeder!Unborn, Seeder!Receiving
<1>5. \A p \in DOMAIN collection : IsPrefixOfWords(p) /\ collection[p] \in Seq(Seeder!Phrase)
  <2> SUFFICES ASSUME NEW p \in Seeder!PrefixesOf(Seeder!ToSet(file))
               PROVE  IsPrefixOfWords(p) /\ <<>> \in Seq(Seeder!Phrase)
    BY DEF Seeder!Init
  <2>1. PICK e \in Seeder!ToSet(file) : p \in Seeder!Prefixes(e.word) /\ p # <<>>
    BY DEF Seeder!PrefixesOf
  <2>2. PICK w \in Seq(Nat) : w = e.word
    <3>1. e \in Seeder!Phrase
      BY <1>1 DEF Seeder!ToSet
    <3> QED BY <3>1 DEF Seeder!Phrase
  <2>3. PICK m \in 0..Len(w) : p = SubSeq(w, 1, m)
    BY <2>1, <2>2 DEF Seeder!Prefixes
  <2>4. p \in Seq(Nat)
    BY <2>3
  <2> QED BY <2>1, <2>4 DEF IsPrefixOfWords
<1>6. Shapes
  BY <1>5 DEF Seeder!Init, Shapes, Seeder!Unborn, Seeder!Receiving
<1> QED BY <1>1, <1>2, <1>3, <1>4, <1>6, FreshWay DEF SeedInv

LEMMA SeedNext ==
  ASSUME SeedInv, [Seeder!Next]_(Seeder!vars)
  PROVE  SeedInv'
<1>1. LineInv'
  BY LineNext DEF SeedInv
<1>2. file' = file
  BY DEF Seeder!Next, Seeder!Scanning, Seeder!Merging, Seeder!Building, Seeder!vars,
         Seeder!QueueBucket, Seeder!SplitBucket, Seeder!CloseJobs, Seeder!Waiting, Seeder!WaitReturnsAtOnce, Seeder!WaitBlocks,
         Seeder!WaitReturns, Seeder!WaitPanics, Seeder!SeedReturns,
         Seeder!ReceiveIndex, Seeder!Flush, Seeder!FlushFails, Seeder!FinishIndex, Seeder!EndMerger,
         Seeder!Kill, Seeder!SeedAgain, Seeder!StartBuilder, Seeder!BuildIndex, Seeder!SendIndex,
         Seeder!SendPanics, Seeder!EndBuilder
<1>3. file' \in Texts
  BY <1>2 DEF SeedInv
<1>4. Shapes'
  BY ShapesNext
<1>5. Phases'
  BY PhasesNext
<1>6. (\E own, sent, now : Way(own, sent, now))'
  BY WayNext
<1> QED BY <1>1, <1>3, <1>4, <1>5, <1>6 DEF SeedInv

\* What a complete run has merged of a prefix is what it indexed.
LEMMA AllIndexed ==
  ASSUME SeedInv, NEW p \in DOMAIN collection,
         NEW own, NEW sent, NEW now, Merged(p, own, sent, now) = queued
  PROVE  /\ MergedOf(p, own, sent, now) = Seeder!Completions(Seeder!Indexed, p)
         /\ IsFiniteSet(Seeder!Completions(Seeder!Indexed, p))
<1>1. IsPrefixOfWords(p) /\ file \in Texts /\ file \in Seq(Seeder!Phrase)
  BY DEF SeedInv, Shapes, LineInv
<1>2. ASSUME NEW w, Seeder!IsPrefix(p, w) PROVE w # <<>>
  <2>1. Len(p) \in Nat \ {0} /\ Len(p) <= Len(w)
    BY <1>1, <1>2 DEF IsPrefixOfWords, Seeder!IsPrefix
  <2>2. Len(<<>>) = 0
    OBVIOUS
  <2> QED BY <2>1, <2>2
<1>3. \A e : e \in MergedOf(p, own, sent, now)
               <=> \E x \in queued : e \in Seeder!Entries(x.start, x.end) /\ Seeder!IsPrefix(p, e.word)
  BY DEF MergedOf, Part, Seeder!Completions
<1>4. \A e : e \in Seeder!Completions(Seeder!Indexed, p)
               <=> \E x \in queued : e \in Seeder!Entries(x.start, x.end) /\ Seeder!IsPrefix(p, e.word)
  BY <1>2 DEF Seeder!Completions, Seeder!Indexed
<1>5. MergedOf(p, own, sent, now) = Seeder!Completions(Seeder!Indexed, p)
  BY <1>3, <1>4
<1>6. IsFiniteSet(Seeder!Completions(Seeder!Indexed, p))
  <2>1. PICK n \in Nat : n = Len(file) /\ DOMAIN file = 1..n
    BY <1>1
  <2> DEFINE lines == {file[i] : i \in 1..n}
  <2>2. IsFiniteSet(lines)
    <3>1. [i \in 1..n |-> file[i]] \in Surjection(1..n, lines)
      BY DEF Surjection
    <3>2. IsFiniteSet(1..n)
      BY FirstNumbers
    <3> HIDE DEF lines
    <3> QED BY <3>1, <3>2, FS_Surjection
  <2>3. Seeder!Completions(Seeder!Indexed, p) \subseteq lines
    <3> SUFFICES ASSUME NEW x \in queued, NEW i \in x.start..(x.end - 1) PROVE file[i] \in lines
      BY <1>4 DEF Seeder!Entries
    <3>1. x.start \in Nat \ {0} /\ x.end \in Nat /\ x.end <= n + 1
      BY <2>1 DEF SeedInv, LineInv, LinesKept, BucketOK
    <3>2. i \in 1..n
      BY <3>1
    <3> QED BY <3>2
  <2> HIDE DEF lines
  <2> QED BY <2>2, <2>3, FS_Subset
<1> QED BY <1>5, <1>6

LEMMA SeedInvTops == SeedInv => TopsAreTheBest
<1> SUFFICES ASSUME SeedInv, Seeder!Complete, trouble.seedings = 1, NEW p \in DOMAIN collection
             PROVE  Seeder!IsBest(collection[p], Seeder!Completions(Seeder!Indexed, p))
  BY DEF TopsAreTheBest, Seeder!TopsAreTheBest
<1>1. PICK own, sent, now : Way(own, sent, now) /\ \A q : Merged(q, own, sent, now) = queued
  BY NothingLeft
<1>2. BestOf(collection[p], MergedOf(p, own, sent, now))
  BY <1>1 DEF Way, Right, Seeder!Complete
<1>3. /\ MergedOf(p, own, sent, now) = Seeder!Completions(Seeder!Indexed, p)
      /\ IsFiniteSet(Seeder!Completions(Seeder!Indexed, p))
  BY <1>1, AllIndexed
<1> QED BY <1>2, <1>3, BestIsBest

LEMMA SeedInvFirst == SeedInv => RerunsKeepTheFirst
<1> SUFFICES ASSUME SeedInv, Seeder!Complete, NEW p \in DOMAIN collection,
                    NEW e \in Seeder!Completions(Seeder!Indexed, p)
             PROVE  collection[p] # <<>> /\ collection[p][1].freq >= e.freq
  BY DEF RerunsKeepTheFirst, Seeder!RerunsKeepTheFirst
<1>1. PICK own, sent, now : Way(own, sent, now) /\ \A q : Merged(q, own, sent, now) = queued
  BY NothingLeft
<1>2. FirstOf(collection[p], MergedOf(p, own, sent, now))
  BY <1>1 DEF Way, Right, Seeder!Complete
<1>3. MergedOf(p, own, sent, now) = Seeder!Completions(Seeder!Indexed, p)
  BY <1>1, AllIndexed
<1> QED BY <1>2, <1>3 DEF FirstOf

\* A complete run into an empty collection leaves the best completions of every
\* prefix there, once each: for any file, any number of builders, and channels and
\* batches of any size.
THEOREM Tops == Seeder!Spec => []TopsAreTheBest
BY SeedInit, SeedNext, SeedInvTops, PTL DEF Seeder!Spec

\* A complete run after others, whatever became of them, has the most frequent
\* completion of every prefix in the first place.
THEOREM FirstPlace == Seeder!Spec => []RerunsKeepTheFirst
BY SeedInit, SeedNext, SeedInvFirst, PTL DEF Seeder!Spec

-----------------------------------------------------------------------------
(* The seeder: the size of an index *)

\* Two words have the same first k letters.
Agree(v, w, k) == k <= Len(v) /\ k <= Len(w) /\ \A j \in 1..k : v[j] = w[j]

LEMMA PrefixLetters ==
  ASSUME NEW p \in Seq(Nat), NEW w \in Seq(Nat)
  PROVE  Seeder!IsPrefix(p, w) <=> Agree(p, w, Len(p))
<1>1. Len(p) \in Nat /\ Len(w) \in Nat
  OBVIOUS
<1>2. ASSUME Len(p) <= Len(w)
      PROVE  SubSeq(p, 1, Len(p)) = SubSeq(w, 1, Len(p)) <=> \A j \in 1..Len(p) : p[j] = w[j]
  <2>1. SubSeq(p, 1, Len(p)) = [j \in 1..Len(p) |-> p[j]]
    OBVIOUS
  <2>2. SubSeq(w, 1, Len(p)) = [j \in 1..Len(p) |-> w[j]]
    BY <1>2
  <2> QED BY <2>1, <2>2
<1> QED BY <1>1, <1>2 DEF Seeder!IsPrefix, Agree

\* A word that the first k letters of another are of.
LEMMA SameLetters ==
  ASSUME NEW v \in Seq(Nat), NEW w \in Seq(Nat), NEW k \in Nat, k <= Len(v), k <= Len(w)
  PROVE  SubSeq(v, 1, k) = SubSeq(w, 1, k) <=> Agree(v, w, k)
<1>1. /\ SubSeq(v, 1, k) \in Seq(Nat) /\ Len(SubSeq(v, 1, k)) = k
      /\ \A j \in 1..k : SubSeq(v, 1, k)[j] = v[j]
  BY FirstLetters
<1>2. /\ SubSeq(w, 1, k) \in Seq(Nat) /\ Len(SubSeq(w, 1, k)) = k
      /\ \A j \in 1..k : SubSeq(w, 1, k)[j] = w[j]
  BY FirstLetters
<1>3. SubSeq(v, 1, k) = [j \in 1..k |-> v[j]] /\ SubSeq(w, 1, k) = [j \in 1..k |-> w[j]]
  OBVIOUS
<1> QED BY <1>1, <1>2, <1>3 DEF Agree

\* The longest common prefix is as long as two words agree.
LEMMA CommonLength ==
  ASSUME NEW v \in Seq(Nat), NEW w \in Seq(Nat)
  PROVE  LET c == Len(Seeder!LongestCommonPrefix({v, w}))
         IN  c \in Nat /\ \A k \in Nat : k <= c <=> Agree(v, w, k)
<1> DEFINE C == Seeder!CommonPrefixes({v, w})
           Longest(p) == p \in C /\ \A q \in C : Len(q) <= Len(p)
<1>1. ASSUME NEW p \in C
      PROVE  p \in Seq(Nat) /\ Len(p) \in Nat /\ Agree(v, w, Len(p)) /\ Len(p) <= Len(v)
  <2>1. Seeder!IsPrefix(p, v) /\ Seeder!IsPrefix(p, w)
    BY DEF Seeder!CommonPrefixes
  <2>2. PICK u \in {v, w} : p \in Seeder!Prefixes(u)
    BY DEF Seeder!CommonPrefixes
  <2>3. u \in Seq(Nat)
    OBVIOUS
  <2>4. PICK l \in 0..Len(u) : p = SubSeq(u, 1, l)
    BY <2>2 DEF Seeder!Prefixes
  <2>5. p \in Seq(Nat)
    BY <2>3, <2>4, FirstLetters
  <2>6. Agree(p, v, Len(p)) /\ Agree(p, w, Len(p))
    BY <2>1, <2>5, PrefixLetters
  <2> HIDE DEF C
  <2> QED BY <2>5, <2>6 DEF Agree
<1>2. ASSUME NEW k \in Nat, Agree(v, w, k)
      PROVE  \E p \in C : Len(p) = k
  <2> DEFINE p == SubSeq(v, 1, k)
  <2>1. k <= Len(v) /\ k <= Len(w) /\ \A j \in 1..k : v[j] = w[j]
    BY <1>2 DEF Agree
  <2>2. p \in Seq(Nat) /\ Len(p) = k /\ \A j \in 1..k : p[j] = v[j]
    BY <2>1, FirstLetters
  <2>3. p \in Seeder!Prefixes(v)
    <3>1. k \in 0..Len(v)
      BY <2>1
    <3> QED BY <3>1 DEF Seeder!Prefixes
  <2> HIDE DEF p
  <2>4. Agree(p, v, Len(p)) /\ Agree(p, w, Len(p))
    <3>1. ASSUME NEW j \in 1..k PROVE p[j] = w[j]
      <4>1. p[j] = v[j]
        BY <2>2
      <4>2. v[j] = w[j]
        BY <2>1
      <4> QED BY <4>1, <4>2
    <3>2. Agree(p, v, k) /\ Agree(p, w, k)
      BY <2>1, <2>2, <3>1 DEF Agree
    <3> QED BY <2>2, <3>2
  <2>5. Seeder!IsPrefix(p, v) /\ Seeder!IsPrefix(p, w)
    BY <2>2, <2>4, PrefixLetters
  <2>6. p \in C
    BY <2>3, <2>5 DEF Seeder!CommonPrefixes
  <2> QED BY <2>2, <2>6
<1>3. Seeder!LongestCommonPrefix({v, w}) = CHOOSE p \in C : \A q \in C : Len(q) <= Len(p)
  BY DEF Seeder!LongestCommonPrefix
<1> HIDE DEF C
<1>4. \E p \in C : \A q \in C : Len(q) <= Len(p)
  <2> DEFINE T == {Len(p) : p \in C}
  <2>1. T \subseteq Nat
    BY <1>1
  <2>2. T # {}
    <3>1. Agree(v, w, 0)
      BY DEF Agree
    <3>2. PICK p \in C : Len(p) = 0
      BY <1>2, <3>1
    <3> QED BY <3>2
  <2>3. Len(v) \in Nat /\ \A x \in T : x <= Len(v)
    BY <1>1
  <2>4. \A p \in C : Len(p) \in T
    OBVIOUS
  <2>5. \A x \in T : \E p \in C : x = Len(p)
    OBVIOUS
  <2> HIDE DEF T
  <2>6. Seeder!Max(T) \in T /\ \A x \in T : x <= Seeder!Max(T)
    BY <2>1, <2>2, <2>3, GreatestOfNaturals
  <2>7. PICK p \in C : Seeder!Max(T) = Len(p)
    BY <2>5, <2>6
  <2> QED BY <2>4, <2>6, <2>7
<1>5. PICK p \in C : p = Seeder!LongestCommonPrefix({v, w}) /\ \A q \in C : Len(q) <= Len(p)
  BY <1>3, <1>4
<1>6. ASSUME NEW k \in Nat PROVE k <= Len(p) <=> Agree(v, w, k)
  <2>1. Len(p) \in Nat /\ Agree(v, w, Len(p))
    BY <1>1
  <2>2. CASE k <= Len(p)
    BY <2>1, <2>2 DEF Agree
  <2>3. CASE Agree(v, w, k)
    BY <1>2, <1>5, <2>3
  <2> QED BY <2>2, <2>3
<1> QED BY <1>1, <1>5, <1>6

\* One word is before another: the other goes on, or has the greater letter where
\* they part.
Ahead(v, w) ==
  \/ Agree(v, w, Len(v))
  \/ \E i \in 1..Len(v) : i <= Len(w) /\ v[i] < w[i] /\ \A j \in 1..(i - 1) : v[j] = w[j]

LEMMA BeforeIsAhead ==
  ASSUME NEW v \in Seq(Nat), NEW w \in Seq(Nat), Seeder!Before(v, w)
  PROVE  Ahead(v, w)
<1>1. CASE Seeder!IsStrictPrefix(v, w)
  BY <1>1, PrefixLetters DEF Seeder!IsStrictPrefix, Ahead
<1>2. CASE \E i \in DOMAIN v \cap DOMAIN w :
             v[i] < w[i] /\ SubSeq(v, 1, i - 1) = SubSeq(w, 1, i - 1)
  <2>1. PICK i \in DOMAIN v \cap DOMAIN w :
               v[i] < w[i] /\ SubSeq(v, 1, i - 1) = SubSeq(w, 1, i - 1)
    BY <1>2
  <2>2. i \in 1..Len(v) /\ i <= Len(w) /\ i - 1 \in Nat /\ i - 1 <= Len(v) /\ i - 1 <= Len(w)
    OBVIOUS
  <2>3. Agree(v, w, i - 1)
    BY <2>1, <2>2, SameLetters
  <2> QED BY <2>1, <2>2, <2>3 DEF Ahead, Agree
<1> QED BY <1>1, <1>2 DEF Seeder!Before

\* In the order of the words, one that is between two that agree agrees with them.
LEMMA Between ==
  ASSUME NEW u \in Seq(Nat), NEW v \in Seq(Nat), NEW w \in Seq(Nat), NEW k \in Nat,
         Ahead(u, v), Ahead(v, w), Agree(u, w, k)
  PROVE  Agree(w, v, k)
<1>1. k <= Len(u) /\ k <= Len(w) /\ \A j \in 1..k : u[j] = w[j]
  BY DEF Agree
<1>2. /\ Len(u) \in Nat /\ Len(v) \in Nat /\ Len(w) \in Nat
      /\ \A j \in 1..Len(u) : u[j] \in Nat
      /\ \A j \in 1..Len(v) : v[j] \in Nat
      /\ \A j \in 1..Len(w) : w[j] \in Nat
  OBVIOUS
<1>3. CASE Agree(u, v, Len(u))
  <2>1. Len(u) <= Len(v) /\ \A j \in 1..Len(u) : u[j] = v[j]
    BY <1>3 DEF Agree
  <2> QED BY <1>1, <1>2, <2>1 DEF Agree
<1>4. ASSUME NEW i \in 1..Len(u), i <= Len(v), u[i] < v[i], \A j \in 1..(i - 1) : u[j] = v[j]
      PROVE  Agree(w, v, k)
  <2>1. CASE k < i
    <3>1. k <= Len(v) /\ \A j \in 1..k : j \in 1..(i - 1)
      BY <1>2, <1>4, <2>1
    <3> QED BY <1>1, <1>4, <3>1 DEF Agree
  <2>2. CASE i <= k
    <3>1. i \in 1..k /\ i \in 1..Len(v) /\ i \in 1..Len(w)
      BY <1>1, <1>2, <1>4, <2>2
    <3>2. w[i] = u[i] /\ w[i] < v[i] /\ w[i] \in Nat /\ v[i] \in Nat
      BY <1>1, <1>2, <1>4, <3>1
    <3>3. ~Agree(v, w, Len(v))
      BY <3>1, <3>2 DEF Agree
    <3>4. PICK h \in 1..Len(v) : h <= Len(w) /\ v[h] < w[h] /\ \A j \in 1..(h - 1) : v[j] = w[j]
      BY <3>3 DEF Ahead
    <3>5. CASE i < h
      <4>1. i \in 1..(h - 1)
        BY <3>5
      <4>2. v[i] = w[i]
        BY <3>4, <4>1
      <4>3. w[i] < w[i] /\ w[i] \in Nat
        BY <3>2, <4>2
      <4> QED BY <4>3
    <3>6. CASE i = h
      BY <3>2, <3>4, <3>6
    <3>7. CASE h < i
      <4>1. h \in 1..(i - 1) /\ h \in 1..k /\ h \in 1..Len(v)
        BY <2>2, <3>4, <3>7
      <4>2. u[h] = v[h] /\ u[h] = w[h] /\ v[h] \in Nat
        BY <1>1, <1>2, <1>4, <4>1
      <4> QED BY <3>4, <4>2
    <3> QED BY <3>5, <3>6, <3>7
  <2> QED BY <2>1, <2>2
<1> QED BY <1>3, <1>4 DEF Ahead

-----------------------------------------------------------------------------
(* The seeder: long prefixes, counted line by line *)

Words(w, A) == A \subseteq Nat /\ \A i \in A : w[i] \in Seq(Nat)

\* The prefixes of the words of the lines A that are longer than m.
Long(w, A, m) == UNION {{SubSeq(w[i], 1, k) : k \in (m + 1)..Len(w[i])} : i \in A}

\* The line before i, of those that have m letters.
LastBefore(w, A, m, j, i) ==
  /\ j \in A /\ j < i /\ m <= Len(w[j])
  /\ \A h \in A : (h < i /\ m <= Len(w[h])) => h <= j

\* The first k letters are more than m, and not of the line before.
New(w, A, m, i, k) ==
  /\ i \in A /\ k \in Nat /\ m < k /\ k <= Len(w[i])
  /\ \A j \in A : LastBefore(w, A, m, j, i) => ~Agree(w[i], w[j], k)

AllAhead(w, A) == \A i, j \in A : (w[i] # <<>> /\ w[j] # <<>> /\ i < j) => Ahead(w[i], w[j])

\* D holds the new prefixes of the lines.
Counts(D, w, A, m) ==
  /\ \A d \in D : \E i \in A, k \in Nat : d = <<i, k>> /\ New(w, A, m, i, k)
  /\ \A i \in A, k \in Nat : New(w, A, m, i, k) => <<i, k>> \in D

\* Every long prefix is new in the first line that has it.
LEMMA FirstIsNew ==
  ASSUME NEW w, NEW A, Words(w, A), NEW m \in Nat, NEW p \in Long(w, A, m)
  PROVE  \E i \in A, k \in Nat : New(w, A, m, i, k) /\ p = SubSeq(w[i], 1, k)
<1>7. PICK a \in A : p \in {SubSeq(w[a], 1, k) : k \in (m + 1)..Len(w[a])}
  BY DEF Long
<1>1. PICK k \in (m + 1)..Len(w[a]) : p = SubSeq(w[a], 1, k)
  BY <1>7
<1>2. w[a] \in Seq(Nat) /\ k \in Nat /\ m < k /\ k <= Len(w[a])
  BY <1>1 DEF Words
<1> DEFINE T == {i \in A : k <= Len(w[i]) /\ p = SubSeq(w[i], 1, k)}
<1>3. T \subseteq Nat /\ a \in T
  BY <1>1, <1>2 DEF Words
<1>4. PICK i \in T : \A j \in T : i <= j
  <2> HIDE DEF T
  <2> QED BY <1>3, LeastOfNaturals
<1>5. i \in A /\ w[i] \in Seq(Nat) /\ i \in Nat /\ k <= Len(w[i]) /\ p = SubSeq(w[i], 1, k)
  BY DEF Words
<1>6. ASSUME NEW j \in A, LastBefore(w, A, m, j, i), Agree(w[i], w[j], k)
      PROVE  FALSE
  <2>1. j < i /\ j \in Nat /\ w[j] \in Seq(Nat)
    BY <1>6 DEF LastBefore, Words
  <2>2. k <= Len(w[j])
    BY <1>6 DEF Agree
  <2>3. SubSeq(w[i], 1, k) = SubSeq(w[j], 1, k)
    BY <1>2, <1>5, <1>6, <2>1, <2>2, SameLetters
  <2>4. j \in T
    BY <1>5, <2>2, <2>3
  <2> HIDE DEF T
  <2> QED BY <1>4, <1>5, <2>1, <2>4
<1> QED BY <1>2, <1>5, <1>6 DEF New

\* Of words in order, no later line has a prefix anew.
LEMMA NewIsFirst ==
  ASSUME NEW w, NEW A, Words(w, A), NEW m \in Nat \ {0}, AllAhead(w, A),
         NEW i \in A, NEW j \in A, NEW k \in Nat,
         New(w, A, m, i, k), New(w, A, m, j, k), Agree(w[i], w[j], k), i < j
  PROVE  FALSE
<1>1. i \in Nat /\ j \in Nat /\ w[i] \in Seq(Nat) /\ w[j] \in Seq(Nat)
  BY DEF Words
<1>2. m < k /\ k <= Len(w[i]) /\ k <= Len(w[j]) /\ Len(w[i]) \in Nat /\ Len(w[j]) \in Nat
  BY <1>1 DEF New
<1> DEFINE T == {h \in A : h < j /\ m <= Len(w[h])}
<1>3. T \subseteq Nat /\ i \in T /\ \A h \in T : h <= j
  <2>1. A \subseteq Nat
    BY DEF Words
  <2>2. T \subseteq Nat
    BY <2>1
  <2>3. m <= Len(w[i])
    BY <1>2
  <2>4. i \in T
    BY <2>3
  <2>5. \A h \in T : h <= j
    BY <1>1, <2>1
  <2> QED BY <2>2, <2>4, <2>5
<1>4. PICK h \in T : \A x \in T : x <= h
  <2> HIDE DEF T
  <2> QED BY <1>1, <1>3, GreatestOfNaturals
<1>5. h \in A /\ h \in Nat /\ w[h] \in Seq(Nat) /\ h < j /\ m <= Len(w[h]) /\ i <= h
  BY <1>3, <1>4 DEF Words
<1>6. LastBefore(w, A, m, h, j)
  BY <1>4, <1>5 DEF LastBefore
<1>7. ~Agree(w[j], w[h], k)
  BY <1>5, <1>6 DEF New
<1>8. CASE h = i
  BY <1>7, <1>8 DEF Agree
<1>9. CASE i < h
  <2>1. w[i] # <<>> /\ w[j] # <<>>
    BY <1>1, <1>2
  <2>2. w[h] # <<>>
    BY <1>5
  <2>3. Ahead(w[i], w[h]) /\ Ahead(w[h], w[j])
    BY <1>5, <1>9, <2>1, <2>2 DEF AllAhead
  <2> QED BY <1>1, <1>5, <1>7, <2>3, Between
<1> QED BY <1>1, <1>5, <1>8, <1>9

\* As many prefixes are long as are counted, or fewer.
LEMMA LongAreCounted ==
  ASSUME NEW w, NEW A, Words(w, A), NEW m \in Nat \ {0},
         NEW D, IsFiniteSet(D), Counts(D, w, A, m)
  PROVE  /\ IsFiniteSet(Long(w, A, m)) /\ Cardinality(Long(w, A, m)) <= Cardinality(D)
         /\ AllAhead(w, A) => Cardinality(Long(w, A, m)) = Cardinality(D)
<1> DEFINE g == [d \in D |-> SubSeq(w[d[1]], 1, d[2])]
           L == Long(w, A, m)
<1>1. \A d \in D : \E i \in A, k \in Nat : d = <<i, k>> /\ New(w, A, m, i, k) /\ g[d] = SubSeq(w[i], 1, k)
  <2> SUFFICES ASSUME NEW d \in D
               PROVE  \E i \in A, k \in Nat : d = <<i, k>> /\ New(w, A, m, i, k) /\ g[d] = SubSeq(w[i], 1, k)
    OBVIOUS
  <2>1. PICK i \in A, k \in Nat : d = <<i, k>> /\ New(w, A, m, i, k)
    BY DEF Counts
  <2>2. d[1] = i /\ d[2] = k
    BY <2>1
  <2>3. g[d] = SubSeq(w[i], 1, k)
    BY <2>2
  <2> QED BY <2>1, <2>3
<1>2. \A i \in A, k \in Nat : New(w, A, m, i, k) => <<i, k>> \in D /\ g[<<i, k>>] = SubSeq(w[i], 1, k)
  <2> SUFFICES ASSUME NEW i \in A, NEW k \in Nat, New(w, A, m, i, k)
               PROVE  <<i, k>> \in D /\ g[<<i, k>>] = SubSeq(w[i], 1, k)
    OBVIOUS
  <2>1. <<i, k>> \in D
    BY DEF Counts
  <2> QED BY <2>1
<1>3. DOMAIN g = D /\ g = [d \in D |-> g[d]]
  OBVIOUS
<1> HIDE DEF g
<1>4. ASSUME NEW i \in A, NEW k \in Nat, New(w, A, m, i, k)
      PROVE  SubSeq(w[i], 1, k) \in L
  <2>1. k \in (m + 1)..Len(w[i])
    BY <1>4 DEF New, Words
  <2> QED BY <2>1 DEF Long
<1>5. g \in Surjection(D, L)
  <2>1. \A d \in D : g[d] \in L
    BY <1>1, <1>4
  <2>2. g \in [D -> L]
    BY <1>3, <2>1
  <2>3. ASSUME NEW p \in L PROVE \E d \in D : g[d] = p
    <3>1. PICK i \in A, k \in Nat : New(w, A, m, i, k) /\ p = SubSeq(w[i], 1, k)
      <4>1. p \in Long(w, A, m) /\ m \in Nat
        OBVIOUS
      <4> QED BY <4>1, FirstIsNew
    <3> QED BY <1>2, <3>1
  <2> QED BY <2>2, <2>3 DEF Surjection
<1>6. ASSUME AllAhead(w, A) PROVE g \in Injection(D, L)
  <2>1. ASSUME NEW d \in D, NEW e \in D, g[d] = g[e] PROVE d = e
    <3>1. PICK i \in A, k \in Nat : d = <<i, k>> /\ New(w, A, m, i, k) /\ g[d] = SubSeq(w[i], 1, k)
      BY <1>1
    <3>2. PICK j \in A, l \in Nat : e = <<j, l>> /\ New(w, A, m, j, l) /\ g[e] = SubSeq(w[j], 1, l)
      BY <1>1
    <3>3. i \in Nat /\ j \in Nat /\ w[i] \in Seq(Nat) /\ w[j] \in Seq(Nat) /\ k <= Len(w[i]) /\ l <= Len(w[j])
      BY <3>1, <3>2 DEF Words, New
    <3>4. Len(SubSeq(w[i], 1, k)) = k /\ Len(SubSeq(w[j], 1, l)) = l
      BY <3>3, FirstLetters
    <3>5. k = l
      BY <2>1, <3>1, <3>2, <3>4
    <3>6. Agree(w[i], w[j], k)
      BY <2>1, <3>1, <3>2, <3>3, <3>5, SameLetters
    <3>7. Agree(w[j], w[i], k)
      BY <3>6 DEF Agree
    <3>8. ~(i < j)
      BY <1>6, <3>1, <3>2, <3>5, <3>6, NewIsFirst
    <3>9. ~(j < i)
      BY <1>6, <3>1, <3>2, <3>5, <3>7, NewIsFirst
    <3>10. i = j
      BY <3>3, <3>8, <3>9
    <3> QED BY <3>1, <3>2, <3>5, <3>10
  <2>2. g \in [D -> L]
    BY <1>5 DEF Surjection
  <2> QED BY <2>1, <2>2 DEF Injection, IsInjective
<1> QED BY <1>5, <1>6, FS_Surjection

-----------------------------------------------------------------------------
(* The seeder: the short prefixes, and all *)

\* The prefixes of the words of the lines A.
AllOfThem(w, A) == UNION {{SubSeq(w[i], 1, k) : k \in 1..Len(w[i])} : i \in A}

\* The words of A go on from own, or it from them, and that of a goes on.
GoOn(w, A, own, a) ==
  /\ own \in Seq(Nat) /\ a \in A /\ Len(own) <= Len(w[a])
  /\ \A i \in A : \A k \in 1..Len(own) : k <= Len(w[i]) => w[i][k] = own[k]

\* Those that go on from the same letters have those in common, and no other prefix
\* as short.
LEMMA SizeOfAll ==
  ASSUME NEW w, NEW A, Words(w, A), NEW own, NEW a, GoOn(w, A, own, a),
         IsFiniteSet(Long(w, A, Len(own)))
  PROVE  Cardinality(AllOfThem(w, A)) = Len(own) + Cardinality(Long(w, A, Len(own)))
<1> DEFINE m == Len(own)
           L == Long(w, A, m)
           S == {SubSeq(own, 1, k) : k \in 1..m}
           g == [k \in 1..m |-> SubSeq(own, 1, k)]
<1>1. m \in Nat /\ own \in Seq(Nat)
  BY DEF GoOn
<1>2. ASSUME NEW i \in A, NEW k \in 1..m, k <= Len(w[i])
      PROVE  SubSeq(w[i], 1, k) = SubSeq(own, 1, k)
  <2>1. w[i] \in Seq(Nat) /\ own \in Seq(Nat) /\ k \in Nat /\ k <= Len(w[i]) /\ k <= Len(own)
    BY <1>1, <1>2 DEF Words
  <2>2. \A j \in 1..k : j \in 1..Len(own) /\ j <= Len(w[i])
    BY <2>1
  <2>3. Agree(w[i], own, k)
    BY <2>1, <2>2 DEF Agree, GoOn
  <2> QED BY <2>1, <2>3, SameLetters
<1>3. AllOfThem(w, A) = S \cup L
  <2>1. ASSUME NEW p \in AllOfThem(w, A) PROVE p \in S \cup L
    <3>1. PICK i \in A : p \in {SubSeq(w[i], 1, k) : k \in 1..Len(w[i])}
      BY DEF AllOfThem
    <3>2. PICK k \in 1..Len(w[i]) : p = SubSeq(w[i], 1, k)
      BY <3>1
    <3>3. w[i] \in Seq(Nat)
      BY DEF Words
    <3>4. CASE k <= m
      <4>1. k \in 1..m /\ k <= Len(w[i])
        BY <1>1, <3>3, <3>4
      <4> QED BY <1>2, <3>2, <4>1
    <3>5. CASE ~(k <= m)
      <4>1. k \in (m + 1)..Len(w[i])
        BY <1>1, <3>3, <3>5
      <4> QED BY <3>2, <4>1 DEF Long
    <3> QED BY <3>4, <3>5
  <2>2. ASSUME NEW p \in S PROVE p \in AllOfThem(w, A)
    <3>1. PICK k \in 1..m : p = SubSeq(own, 1, k)
      OBVIOUS
    <3>2. a \in A /\ w[a] \in Seq(Nat) /\ k <= Len(w[a]) /\ k \in 1..Len(w[a])
      BY <1>1 DEF GoOn, Words
    <3>3. p = SubSeq(w[a], 1, k)
      BY <1>2, <3>1, <3>2
    <3> QED BY <3>2, <3>3 DEF AllOfThem
  <2>3. ASSUME NEW p \in L PROVE p \in AllOfThem(w, A)
    <3>1. PICK i \in A : p \in {SubSeq(w[i], 1, k) : k \in (m + 1)..Len(w[i])}
      BY DEF Long
    <3>2. PICK k \in (m + 1)..Len(w[i]) : p = SubSeq(w[i], 1, k)
      BY <3>1
    <3>3. w[i] \in Seq(Nat)
      BY DEF Words
    <3>4. k \in 1..Len(w[i])
      BY <1>1, <3>3
    <3> QED BY <3>2, <3>4 DEF AllOfThem
  <2> QED BY <2>1, <2>2, <2>3
<1>4. \A p \in S : Len(p) <= m
  <2> SUFFICES ASSUME NEW k \in 1..m PROVE Len(SubSeq(own, 1, k)) <= m
    OBVIOUS
  <2>1. k \in Nat /\ k <= Len(own)
    BY <1>1
  <2>2. Len(SubSeq(own, 1, k)) = k
    BY <1>1, <2>1, FirstLetters
  <2> QED BY <2>1, <2>2
<1>5. \A p \in L : ~(Len(p) <= m)
  <2> SUFFICES ASSUME NEW p \in L PROVE ~(Len(p) <= m)
    OBVIOUS
  <2>1. PICK i \in A : p \in {SubSeq(w[i], 1, k) : k \in (m + 1)..Len(w[i])}
    BY DEF Long
  <2>2. PICK k \in (m + 1)..Len(w[i]) : p = SubSeq(w[i], 1, k)
    BY <2>1
  <2>3. w[i] \in Seq(Nat) /\ k \in Nat /\ k <= Len(w[i]) /\ ~(k <= m)
    BY <1>1 DEF Words
  <2>4. Len(p) = k
    BY <2>2, <2>3, FirstLetters
  <2> QED BY <2>3, <2>4
<1>6. IsFiniteSet(S) /\ Cardinality(S) = m
  <2>1. ASSUME NEW k \in 1..m, NEW l \in 1..m, SubSeq(own, 1, k) = SubSeq(own, 1, l) PROVE k = l
    <3>1. k \in Nat /\ k <= Len(own) /\ l \in Nat /\ l <= Len(own)
      BY <1>1
    <3>2. Len(SubSeq(own, 1, k)) = k /\ Len(SubSeq(own, 1, l)) = l
      BY <1>1, <3>1, FirstLetters
    <3> QED BY <2>1, <3>2
  <2>2. g \in [1..m -> S] /\ DOMAIN g = 1..m /\ \A k \in 1..m : g[k] = SubSeq(own, 1, k)
    OBVIOUS
  <2>3. \A p \in S : \E k \in 1..m : g[k] = p
    OBVIOUS
  <2> HIDE DEF g, S
  <2>4. g \in Surjection(1..m, S)
    BY <2>2, <2>3 DEF Surjection
  <2>5. g \in Injection(1..m, S)
    BY <2>1, <2>2 DEF Injection, IsInjective
  <2>6. IsFiniteSet(1..m) /\ Cardinality(1..m) = m
    BY <1>1, FirstNumbers
  <2> HIDE DEF m
  <2> QED BY <2>4, <2>5, <2>6, FS_Surjection
<1>7. S \cap L = {}
  <2> HIDE DEF S, L
  <2> QED BY <1>4, <1>5
<1>8. Cardinality(L) \in Nat
  BY FS_CardinalityType
<1> HIDE DEF S, L, m
<1>9. IsFiniteSet(L)
  BY DEF L, m
<1>10. Cardinality(S \cup L) = Cardinality(S) + Cardinality(L) - Cardinality({})
  BY <1>6, <1>7, <1>9, FS_Union
<1>11. Cardinality({}) = 0
  BY FS_EmptySet
<1>12. Cardinality(S \cup L) = m + Cardinality(L)
  BY <1>1, <1>6, <1>8, <1>10, <1>11
<1> QED BY <1>3, <1>12 DEF L, m

-----------------------------------------------------------------------------
(* The seeder: what a scan counts *)

\* A child that some scan finds.
FoundBy(b, prefix, start, end) ==
  LET lines == Seeder!Lines(prefix, start, end)
      opening == Seeder!Opening(lines, prefix)
  IN  \E l \in opening : b = Seeder!Child(l, lines, prefix, Seeder!End(l, opening, end))

Scanned(prefix, start, end) ==
  /\ prefix \in Seq(Nat) /\ start \in Nat \ {0} /\ end \in Nat /\ end <= Len(file) + 1
  /\ \A i \in start..(end - 1) : Fits(file, prefix, i)

Found(b) == \E prefix, start, end : Scanned(prefix, start, end) /\ FoundBy(b, prefix, start, end)

LEMMA ScanFinds ==
  ASSUME file \in Seq(Seeder!Phrase), NEW prefix, NEW start, NEW end, Scanned(prefix, start, end)
  PROVE  LET s == Seeder!Scan(prefix, start, end)
         IN  \A k \in 1..Len(s) : Found(s[k])
<1> DEFINE lines == Seeder!Lines(prefix, start, end)
           opening == Seeder!Opening(lines, prefix)
           End(l) == Seeder!End(l, opening, end)
           children == [l \in opening |-> Seeder!Child(l, lines, prefix, End(l))]
           s == Seeder!Arranged(children, opening, {q \in opening \X opening : q[1] < q[2]})
<1>1. Seeder!Scan(prefix, start, end) = s
  BY DEF Seeder!Scan
<1>2. ScanFacts(prefix, start, end, lines, opening)
  BY OneScan DEF Scanned
<1>3. \A l \in opening : children[l] = Seeder!Child(l, lines, prefix, End(l))
  OBVIOUS
<1>4. \A b : (\E l \in opening : b = Seeder!Child(l, lines, prefix, End(l))) => Found(b)
  BY DEF Found, FoundBy
<1> HIDE DEF lines, opening, End, children
<1>5. opening \in SUBSET (start..(end - 1)) /\ start \in Nat /\ end \in Nat
  BY <1>2 DEF ScanFacts, Scanned
<1>6. IsFiniteSet(opening)
  <2>1. start \in Int /\ end - 1 \in Int
    BY <1>5
  <2>2. IsFiniteSet(start..(end - 1))
    BY <2>1, FS_Interval
  <2> QED BY <1>5, <2>2, FS_Subset
<1>7. opening \in SUBSET Nat
  BY <1>5
<1>8. InOrderOf(s, children, opening)
  BY <1>6, <1>7, ScanOrder
<1> HIDE DEF s
<1>9. \A k \in 1..Len(s) : \E l \in opening : s[k] = children[l]
  BY <1>8 DEF InOrderOf
<1>10. \A k \in 1..Len(s) : Found(s[k])
  BY <1>3, <1>4, <1>9
<1> QED BY <1>1, <1>10

\* The line before i in the child that l opens.
OneBefore(j, i, l, lines) == j \in lines /\ l <= j /\ j < i /\ \A h \in lines : h < i => h <= j

\* A line counts the prefixes that are longer than its child's and not of the line
\* before it.
LEMMA NewOnes ==
  ASSUME file \in Seq(Seeder!Phrase), NEW prefix, NEW start, NEW end, Scanned(prefix, start, end),
         NEW lines, NEW opening, opening = Seeder!Opening(lines, prefix),
         ScanFacts(prefix, start, end, lines, opening),
         NEW l \in opening, NEW i \in lines, l <= i, i < Seeder!End(l, opening, end), NEW k \in Nat
  PROVE  /\ Seeder!NewPrefixes(i, lines, prefix) \subseteq Nat
         /\ IsFiniteSet(Seeder!NewPrefixes(i, lines, prefix))
         /\ k \in Seeder!NewPrefixes(i, lines, prefix) <=>
              /\ Len(prefix) + 1 < k /\ k <= Len(file[i].word)
              /\ \A j \in lines : OneBefore(j, i, l, lines) => ~Agree(file[i].word, file[j].word, k)
<1> DEFINE word == file[i].word
           previous == Seeder!Previous(i, lines, prefix)
           c == Len(Seeder!LongestCommonPrefix({word, previous}))
           m == Len(prefix) + 1
<1>1. /\ \A x \in start..(end - 1) : x \in Nat /\ file[x].word \in Seq(Nat)
      /\ lines \subseteq start..(end - 1) /\ opening \subseteq lines
      /\ \A x \in opening : l < x => Seeder!End(l, opening, end) <= x
      /\ Seeder!End(l, opening, end) \in Nat
  BY DEF ScanFacts
<1>2. /\ \A x \in lines : x \in Nat /\ file[x].word \in Seq(Nat)
      /\ l \in lines /\ l \in Nat /\ i \in Nat /\ word \in Seq(Nat) /\ Len(word) \in Nat /\ m \in Nat
  BY <1>1 DEF Scanned
<1> DEFINE before == {x \in lines : x < i}
<1>3. Seeder!Opens(i, lines, prefix) <=> i \in opening
  BY DEF Seeder!Opening
<1>4. /\ previous \in Seq(Nat)
      /\ k > 0 => (Agree(word, previous, k) <=>
                     \E j \in lines : OneBefore(j, i, l, lines) /\ Agree(word, file[j].word, k))
  <2>1. CASE i \in opening
    <3>1. previous = <<>>
      BY <1>3, <2>1 DEF Seeder!Previous
    <3>2. ~(l < i)
      <4>1. ~(Seeder!End(l, opening, end) <= i)
        BY <1>1, <1>2
      <4> QED BY <1>1, <2>1, <4>1
    <3>3. \A j \in lines : ~OneBefore(j, i, l, lines)
      BY <1>2, <3>2 DEF OneBefore
    <3>4. k > 0 => ~Agree(word, <<>>, k)
      BY DEF Agree
    <3> HIDE DEF previous, word
    <3> QED BY <3>1, <3>3, <3>4
  <2>2. CASE i \notin opening
    <3>1. before # {} /\ previous = file[Seeder!Max(before)].word
      BY <1>3, <2>2 DEF Seeder!Previous, Seeder!Opens
    <3>3. \A x : x \in before <=> x \in lines /\ x < i
      OBVIOUS
    <3> HIDE DEF before
    <3>2. before \subseteq Nat /\ \A x \in before : x <= i
      <4>1. \A x \in lines : x \in Nat
        BY <1>2
      <4>2. before \subseteq Nat
        BY <3>3, <4>1
      <4> QED BY <1>2, <3>3, <4>2
    <3>4. PICK j \in before : j = Seeder!Max(before) /\ \A x \in before : x <= j
      BY <1>2, <3>1, <3>2, GreatestOfNaturals
    <3>5. l < i
      BY <1>2, <2>2
    <3>6. l \in before
      BY <1>2, <3>3, <3>5
    <3>7. OneBefore(j, i, l, lines)
      BY <3>3, <3>4, <3>6 DEF OneBefore
    <3>8. \A h \in lines : OneBefore(h, i, l, lines) => h = j
      BY <1>2, <3>3, <3>4, <3>7 DEF OneBefore
    <3>9. previous = file[j].word /\ j \in lines
      BY <3>1, <3>3, <3>4
    <3> HIDE DEF previous, word
    <3> QED BY <1>2, <3>7, <3>8, <3>9
  <2> QED BY <2>1, <2>2
<1>5. c \in Nat /\ (k <= c <=> Agree(word, previous, k))
  <2> HIDE DEF word, previous
  <2> QED BY <1>2, <1>4, CommonLength
<1>6. Seeder!NewPrefixes(i, lines, prefix) = (Seeder!Max({m, c}) + 1)..Len(word)
  BY DEF Seeder!NewPrefixes
<1> HIDE DEF word, previous, c, m
<1>7. Seeder!Max({m, c}) = IF m < c THEN c ELSE m
  <2>1. {m, c} \subseteq Nat /\ {m, c} # {}
    BY <1>2, <1>5
  <2>2. m + c \in Nat /\ \A x \in {m, c} : x <= m + c
    BY <1>2, <1>5
  <2>3. Seeder!Max({m, c}) \in {m, c} /\ \A x \in {m, c} : x <= Seeder!Max({m, c})
    BY <2>1, <2>2, GreatestOfNaturals
  <2> QED BY <1>2, <1>5, <2>3
<1>8. k \in Seeder!NewPrefixes(i, lines, prefix) <=> m < k /\ k <= Len(word) /\ ~(k <= c)
  BY <1>2, <1>5, <1>6, <1>7
<1>9. m < k => k > 0
  BY <1>2
<1>10. k \in Seeder!NewPrefixes(i, lines, prefix) <=>
         /\ m < k /\ k <= Len(word)
         /\ \A j \in lines : OneBefore(j, i, l, lines) => ~Agree(word, file[j].word, k)
  BY <1>4, <1>5, <1>8, <1>9
<1>11. PICK x \in Nat : x = Seeder!Max({m, c}) + 1
  BY <1>2, <1>5, <1>7
<1>12. x..Len(word) \subseteq Nat /\ IsFiniteSet(x..Len(word))
  <2>1. x \in Int /\ Len(word) \in Int /\ x..Len(word) \subseteq Nat
    BY <1>2
  <2> QED BY <2>1, FS_Interval
<1>13. Seeder!NewPrefixes(i, lines, prefix) \subseteq Nat /\ IsFiniteSet(Seeder!NewPrefixes(i, lines, prefix))
  BY <1>6, <1>11, <1>12
<1> QED BY <1>10, <1>13 DEF word, m

\* The index of a child has as many prefixes as were counted, or fewer, and those
\* that the child's own has.
LEMMA SizeOfChild ==
  ASSUME file \in Seq(Seeder!Phrase), NEW b, Found(b), BucketOK(file, b)
  PROVE  LET size == Cardinality(Seeder!PrefixesOf(Seeder!Entries(b.start, b.end)))
         IN  /\ b.distinctPrefixes \in Nat
             /\ size <= b.distinctPrefixes + Len(b.prefix)
             /\ Seeder!InOrder(b) => size = b.distinctPrefixes + Len(b.prefix)
<1>1. PICK prefix, start, end : Scanned(prefix, start, end) /\ FoundBy(b, prefix, start, end)
  BY DEF Found
<1>2. PICK lines, opening : /\ lines = Seeder!Lines(prefix, start, end)
                            /\ opening = Seeder!Opening(lines, prefix)
  OBVIOUS
<1>3. PICK l \in opening : b = Seeder!Child(l, lines, prefix, Seeder!End(l, opening, end))
  BY <1>1, <1>2 DEF FoundBy
<1>4. ScanFacts(prefix, start, end, lines, opening)
  BY <1>1, <1>2, OneScan DEF Scanned
<1>5. /\ b.prefix = Seeder!Own(l, prefix) /\ b.start = l /\ b.end = Seeder!End(l, opening, end)
      /\ b.distinctPrefixes = Seeder!DistinctPrefixes(l, lines, prefix, b.end)
  BY <1>3 DEF Seeder!Child
<1>6. PICK m \in Nat \ {0} : m = Len(prefix) + 1
  BY <1>1 DEF Scanned
<1>7. /\ b.prefix \in Seq(Nat) /\ Len(b.prefix) = m
      /\ l \in lines /\ l \in Nat /\ b.end \in Nat /\ l < b.end /\ b.end <= end /\ b.end <= Len(file) + 1
      /\ start \in Nat /\ start <= l /\ end \in Nat /\ l # 0
  BY <1>1, <1>4, <1>5, <1>6 DEF ScanFacts, BucketOK, Scanned
<1>8. PICK A : A = l..(b.end - 1)
  OBVIOUS
<1>9. PICK w : w = [i \in A |-> file[i].word]
  OBVIOUS
<1>10. \A i \in A : /\ i \in Nat /\ l <= i /\ i < b.end /\ i \in start..(end - 1)
                    /\ w[i] = file[i].word /\ w[i] \in Seq(Nat) /\ Len(w[i]) \in Nat
                    /\ i \in lines <=> m <= Len(w[i])
  <2>1. \A i \in A : i \in Nat /\ l <= i /\ i < b.end /\ i \in start..(end - 1)
    BY <1>7, <1>8
  <2>2. \A i \in start..(end - 1) : /\ file[i].word \in Seq(Nat) /\ Len(file[i].word) \in Nat
                                    /\ i \in lines <=> Len(file[i].word) > Len(prefix)
    BY <1>4 DEF ScanFacts
  <2>3. Len(prefix) \in Nat
    BY <1>1 DEF Scanned
  <2> QED BY <1>6, <1>9, <2>1, <2>2, <2>3
<1>11. \A i : i \in A <=> i \in Nat /\ l <= i /\ i < b.end
  BY <1>7, <1>8
<1>12. Words(w, A) /\ l \in A
  BY <1>7, <1>10, <1>11 DEF Words
<1>13. GoOn(w, A, b.prefix, l)
  <2>1. \A i \in A : Fits(file, b.prefix, i)
    BY <1>5, <1>8 DEF BucketOK
  <2>2. \A i \in A : \A k \in 1..Len(b.prefix) : k <= Len(w[i]) => w[i][k] = b.prefix[k]
    BY <1>10, <2>1 DEF Fits
  <2>3. Len(b.prefix) <= Len(w[l])
    BY <1>7, <1>10, <1>12
  <2> QED BY <1>7, <1>12, <2>2, <2>3 DEF GoOn
<1> DEFINE N(i) == Seeder!NewPrefixes(i, lines, prefix)
           D == UNION {{i} \X N(i) : i \in lines \cap A}
<1>14. ASSUME NEW i \in lines \cap A, NEW k \in Nat
       PROVE  k \in N(i) <=> New(w, A, m, i, k)
  <2>1. i \in lines /\ i \in A /\ l <= i /\ i < Seeder!End(l, opening, end)
    BY <1>5, <1>10
  <2>7. i \in Nat /\ i < b.end
    BY <1>10, <2>1
  <2>2. k \in N(i) <=>
           /\ m < k /\ k <= Len(file[i].word)
           /\ \A j \in lines : OneBefore(j, i, l, lines) => ~Agree(file[i].word, file[j].word, k)
    BY <1>1, <1>2, <1>4, <1>6, <2>1, NewOnes
  <2>3. ASSUME NEW j PROVE j \in lines /\ OneBefore(j, i, l, lines) <=> j \in A /\ LastBefore(w, A, m, j, i)
    <3>1. ASSUME j \in lines, OneBefore(j, i, l, lines) PROVE j \in A /\ LastBefore(w, A, m, j, i)
      <4>1. j \in Nat
        BY <1>4, <3>1 DEF ScanFacts
      <4>2. j \in A
        BY <1>7, <1>11, <2>7, <3>1, <4>1 DEF OneBefore
      <4> QED BY <1>10, <3>1, <4>2 DEF OneBefore, LastBefore
    <3>2. ASSUME j \in A, LastBefore(w, A, m, j, i) PROVE j \in lines /\ OneBefore(j, i, l, lines)
      <4>1. j \in lines /\ l <= j /\ j < i /\ j \in Nat
        BY <1>10, <3>2 DEF LastBefore
      <4>2. ASSUME NEW h \in lines, h < i PROVE h <= j
        <5>1. h \in Nat
          BY <1>4 DEF ScanFacts
        <5>2. CASE h \in A
          BY <1>10, <3>2, <4>2, <5>2 DEF LastBefore
        <5>3. CASE h \notin A
          <6>1. h < l
            BY <1>7, <1>11, <2>7, <4>2, <5>1, <5>3
          <6> QED BY <1>7, <4>1, <5>1, <6>1
        <5> QED BY <5>2, <5>3
      <4> QED BY <4>1, <4>2 DEF OneBefore
    <3> QED BY <3>1, <3>2
  <2>4. \A j \in A : w[j] = file[j].word
    BY <1>10
  <2> HIDE DEF N
  <2>5. (\A j \in lines : OneBefore(j, i, l, lines) => ~Agree(file[i].word, file[j].word, k))
          <=> \A j \in A : LastBefore(w, A, m, j, i) => ~Agree(w[i], w[j], k)
    BY <2>1, <2>3, <2>4
  <2>6. k \in N(i) <=>
          /\ m < k /\ k <= Len(w[i])
          /\ \A j \in A : LastBefore(w, A, m, j, i) => ~Agree(w[i], w[j], k)
    BY <2>1, <2>2, <2>4, <2>5
  <2> QED BY <2>1, <2>6 DEF New
<1>15. b.distinctPrefixes = Cardinality(D)
  BY <1>5, <1>8 DEF Seeder!DistinctPrefixes, Seeder!Cardinality, Cardinality
<1>16. \A i \in lines \cap A : N(i) \subseteq Nat /\ IsFiniteSet(N(i))
  <2> SUFFICES ASSUME NEW i \in lines \cap A PROVE N(i) \subseteq Nat /\ IsFiniteSet(N(i))
    OBVIOUS
  <2>1. i \in lines /\ l <= i /\ i < Seeder!End(l, opening, end) /\ 0 \in Nat
    BY <1>5, <1>10
  <2> QED BY <1>1, <1>2, <1>4, <2>1, NewOnes
<1>17. IsFiniteSet(D)
  <2> DEFINE B == lines \cap A
             g == [i \in B |-> {i} \X N(i)]
             S == {{i} \X N(i) : i \in B}
  <2>1. IsFiniteSet(B)
    <3>1. l \in Int /\ b.end - 1 \in Int
      BY <1>7
    <3>2. IsFiniteSet(A)
      BY <1>8, <3>1, FS_Interval
    <3>3. B \in SUBSET A
      OBVIOUS
    <3> QED BY <3>2, <3>3, FS_Subset
  <2>2. \A T \in S : IsFiniteSet(T)
    <3> SUFFICES ASSUME NEW i \in B PROVE IsFiniteSet({i} \X N(i))
      OBVIOUS
    <3>1. IsFiniteSet({i})
      BY FS_Singleton
    <3>2. IsFiniteSet(N(i))
      BY <1>16
    <3> HIDE DEF N
    <3> QED BY <3>1, <3>2, FS_Product
  <2> HIDE DEF N
  <2>3. g \in Surjection(B, S)
    BY DEF Surjection
  <2> HIDE DEF g, B, S
  <2>4. IsFiniteSet(S)
    BY <2>1, <2>3, FS_Surjection
  <2>5. IsFiniteSet(UNION S)
    BY <2>2, <2>4, FS_UNION
  <2> QED BY <2>5 DEF S, B
<1> HIDE DEF N
<1>18. Counts(D, w, A, m)
  <2>1. ASSUME NEW d \in D PROVE \E i \in A, k \in Nat : d = <<i, k>> /\ New(w, A, m, i, k)
    <3>1. PICK i \in lines \cap A : d \in {i} \X N(i)
      OBVIOUS
    <3>2. PICK k \in N(i) : d = <<i, k>>
      BY <3>1
    <3>3. k \in Nat
      BY <1>16, <3>2
    <3> QED BY <1>14, <3>2, <3>3
  <2>2. ASSUME NEW i \in A, NEW k \in Nat, New(w, A, m, i, k) PROVE <<i, k>> \in D
    <3>1. m < k /\ k <= Len(w[i]) /\ Len(w[i]) \in Nat
      BY <1>10, <2>2 DEF New
    <3>2. i \in lines \cap A
      BY <1>10, <3>1
    <3>3. k \in N(i)
      BY <1>14, <2>2, <3>2
    <3> QED BY <3>2, <3>3
  <2> HIDE DEF D
  <2> QED BY <2>1, <2>2 DEF Counts
<1> HIDE DEF D
<1>19. /\ IsFiniteSet(Long(w, A, m)) /\ Cardinality(Long(w, A, m)) <= Cardinality(D)
       /\ AllAhead(w, A) => Cardinality(Long(w, A, m)) = Cardinality(D)
  BY <1>12, <1>17, <1>18, LongAreCounted
<1>20. Cardinality(AllOfThem(w, A)) = m + Cardinality(Long(w, A, m))
  BY <1>7, <1>12, <1>13, <1>19, SizeOfAll
<1>21. Seeder!PrefixesOf(Seeder!Entries(b.start, b.end)) = AllOfThem(w, A)
  <2>1. ASSUME NEW p \in Seeder!PrefixesOf(Seeder!Entries(b.start, b.end)) PROVE p \in AllOfThem(w, A)
    <3>1. p # <<>> /\ \E e \in Seeder!Entries(b.start, b.end) : p \in Seeder!Prefixes(e.word)
      BY DEF Seeder!PrefixesOf
    <3>2. PICK i \in A : p \in Seeder!Prefixes(file[i].word)
      BY <1>5, <1>8, <3>1 DEF Seeder!Entries
    <3>3. PICK k \in 0..Len(w[i]) : p = SubSeq(w[i], 1, k)
      BY <1>10, <3>2 DEF Seeder!Prefixes
    <3>4. k # 0
      <4>1. w[i] \in Seq(Nat)
        BY <1>10
      <4>2. SubSeq(w[i], 1, 0) = <<>>
        BY <4>1
      <4> QED BY <3>1, <3>3, <4>2
    <3>5. k \in 1..Len(w[i])
      BY <1>10, <3>4
    <3> QED BY <3>3, <3>5 DEF AllOfThem
  <2>2. ASSUME NEW p \in AllOfThem(w, A) PROVE p \in Seeder!PrefixesOf(Seeder!Entries(b.start, b.end))
    <3>1. PICK i \in A : p \in {SubSeq(w[i], 1, k) : k \in 1..Len(w[i])}
      BY DEF AllOfThem
    <3>2. PICK k \in 1..Len(w[i]) : p = SubSeq(w[i], 1, k)
      BY <3>1
    <3>3. w[i] \in Seq(Nat) /\ k \in Nat /\ k <= Len(w[i]) /\ k # 0 /\ k \in 0..Len(w[i])
      BY <1>10
    <3>4. Len(p) = k
      BY <3>2, <3>3, FirstLetters
    <3>5. p # <<>>
      BY <3>3, <3>4
    <3>6. p \in Seeder!Prefixes(file[i].word)
      BY <1>10, <3>2, <3>3 DEF Seeder!Prefixes
    <3>7. file[i] \in Seeder!Entries(b.start, b.end)
      BY <1>5, <1>8 DEF Seeder!Entries
    <3> QED BY <3>5, <3>6, <3>7 DEF Seeder!PrefixesOf
  <2> QED BY <2>1, <2>2
<1>22. ASSUME Seeder!InOrder(b) PROVE AllAhead(w, A)
  <2> SUFFICES ASSUME NEW i \in A, NEW j \in A, w[i] # <<>>, w[j] # <<>>, i < j
               PROVE  Ahead(w[i], w[j])
    BY DEF AllAhead
  <2>1. i \in b.start..(b.end - 1) /\ j \in b.start..(b.end - 1)
    BY <1>5, <1>8
  <2>2. Seeder!Before(file[i].word, file[j].word)
    BY <1>10, <1>22, <2>1 DEF Seeder!InOrder
  <2> QED BY <1>10, <2>2, BeforeIsAhead
<1>23. Cardinality(D) \in Nat /\ Cardinality(Long(w, A, m)) \in Nat
  BY <1>17, <1>19, FS_CardinalityType
<1> QED BY <1>7, <1>15, <1>19, <1>20, <1>21, <1>22, <1>23

-----------------------------------------------------------------------------
(* The seeder: no index is larger than the budget foresees *)

\* The inductive invariant: all buckets were found by a scan, and those that are
\* queued were within the budget.
AllFound(p, q) ==
  /\ \A k \in 1..Len(p) : Found(p[k])
  /\ \A b \in q : Found(b) /\ b.distinctPrefixes <= Budget

SizeInv == LineInv /\ AllFound(buckets, queued)

LEMMA StartingFinds ==
  ASSUME file \in Seq(Seeder!Phrase)
  PROVE  AllFound(Seeder!Scan(<<>>, 1, Len(file) + 1), {})
<1>1. Len(file) \in Nat /\ <<>> \in Seq(Nat) /\ Len(<<>>) = 0
  OBVIOUS
<1>2. \A i : Fits(file, <<>>, i)
  BY <1>1 DEF Fits
<1>3. Scanned(<<>>, 1, Len(file) + 1)
  BY <1>1, <1>2 DEF Scanned
<1> QED BY <1>3, ScanFinds DEF AllFound

LEMMA SizeInit ==
  ASSUME Seeder!Init
  PROVE  SizeInv
<1>1. LineInv
  BY LineInit
<1>2. buckets = Seeder!Scan(<<>>, 1, Len(file) + 1) /\ queued = {}
  BY DEF Seeder!Init
<1> QED BY <1>1, <1>2, StartingFinds DEF SizeInv, LineInv

\* What is left of buckets when the first is taken away, and what comes before it.
LEMMA FoundLeft ==
  ASSUME NEW S, NEW p \in Seq(S), p # <<>>, NEW q, AllFound(p, q)
  PROVE  /\ Found(Head(p)) /\ AllFound(Tail(p), q)
         /\ \A T : \A c \in Seq(T) : (\A k \in 1..Len(c) : Found(c[k])) => AllFound(c \o Tail(p), q)
<1>1. /\ Len(p) \in Nat \ {0} /\ Head(p) = p[1]
      /\ Tail(p) \in Seq(S) /\ Len(Tail(p)) = Len(p) - 1
      /\ \A k \in 1..(Len(p) - 1) : Tail(p)[k] = p[k + 1]
  BY FirstAndRest
<1>2. \A k \in 1..Len(p) : Found(p[k])
  BY DEF AllFound
<1>3. \A k \in 1..Len(Tail(p)) : Found(Tail(p)[k])
  <2> SUFFICES ASSUME NEW k \in 1..Len(Tail(p)) PROVE Found(Tail(p)[k])
    OBVIOUS
  <2>1. k + 1 \in 1..Len(p) /\ Tail(p)[k] = p[k + 1]
    BY <1>1
  <2> QED BY <1>2, <2>1
<1>4. ASSUME NEW T, NEW c \in Seq(T), \A k \in 1..Len(c) : Found(c[k])
      PROVE  \A k \in 1..Len(c \o Tail(p)) : Found((c \o Tail(p))[k])
  <2> SUFFICES ASSUME NEW k \in 1..Len(c \o Tail(p)) PROVE Found((c \o Tail(p))[k])
    OBVIOUS
  <2>1. PICK t \in Seq(S) : t = Tail(p)
    BY <1>1
  <2>2. Len(c) \in Nat /\ Len(t) \in Nat /\ Len(c \o t) = Len(c) + Len(t)
    OBVIOUS
  <2>3. (c \o t)[k] = IF k <= Len(c) THEN c[k] ELSE t[k - Len(c)]
    BY <2>1, <2>2
  <2>4. \/ k <= Len(c) /\ k \in 1..Len(c)
        \/ ~(k <= Len(c)) /\ k - Len(c) \in 1..Len(t)
    BY <2>1, <2>2
  <2>5. CASE k <= Len(c)
    BY <1>4, <2>1, <2>3, <2>4, <2>5
  <2>6. CASE ~(k <= Len(c))
    <3>1. Found(t[k - Len(c)])
      BY <1>3, <2>1, <2>4, <2>6
    <3> QED BY <2>1, <2>3, <2>6, <3>1
  <2> QED BY <2>5, <2>6
<1> QED BY <1>1, <1>2, <1>3, <1>4 DEF AllFound

\* The file stays, and so does what a scan finds.
LEMMA FoundStays ==
  ASSUME file' = file
  PROVE  \A b : Found(b)' <=> Found(b)
<1>1. \A lines, prefix : Seeder!Opening(lines, prefix)' = Seeder!Opening(lines, prefix)
  BY DEF Seeder!Opening, Seeder!Opens, Seeder!Own
<1>2. \A l, lines, prefix : Seeder!NewPrefixes(l, lines, prefix)' = Seeder!NewPrefixes(l, lines, prefix)
  BY DEF Seeder!NewPrefixes, Seeder!Previous, Seeder!Opens, Seeder!Own
<1>3. \A l, lines, prefix, end :
        Seeder!DistinctPrefixes(l, lines, prefix, end)' = Seeder!DistinctPrefixes(l, lines, prefix, end)
  BY <1>2 DEF Seeder!DistinctPrefixes
<1>4. \A l, lines, prefix, end : Seeder!Child(l, lines, prefix, end)' = Seeder!Child(l, lines, prefix, end)
  BY <1>3 DEF Seeder!Child, Seeder!Own
<1>5. \A prefix, start, end : Seeder!Lines(prefix, start, end)' = Seeder!Lines(prefix, start, end)
  BY DEF Seeder!Lines
<1>6. \A b, prefix, start, end : FoundBy(b, prefix, start, end)' <=> FoundBy(b, prefix, start, end)
  BY <1>1, <1>4, <1>5 DEF FoundBy
<1>7. \A prefix, start, end : Scanned(prefix, start, end)' <=> Scanned(prefix, start, end)
  BY DEF Scanned, Fits
<1> QED BY <1>6, <1>7 DEF Found

LEMMA SizeNext ==
  ASSUME SizeInv, [Seeder!Next]_(Seeder!vars)
  PROVE  SizeInv'
<1>1. LineInv /\ LineInv'
  BY LineNext DEF SizeInv
<1>2. AllFound(buckets, queued) /\ file \in Seq(Seeder!Phrase) /\ LinesKept(file, buckets, queued, split)
  BY DEF SizeInv, LineInv
<1>3. PICK S : buckets \in Seq(S)
  BY <1>2 DEF LinesKept
<1>4. ASSUME NEW p, NEW q, file' = file, buckets' = p, queued' = q, AllFound(p, q)
      PROVE  SizeInv'
  <2>1. \A b : Found(b)' <=> Found(b)
    BY <1>4, FoundStays
  <2> QED BY <1>1, <1>4, <2>1 DEF SizeInv, AllFound
<1>5. ASSUME file' = file, buckets' = buckets, queued' = queued
      PROVE  SizeInv'
  BY <1>2, <1>4, <1>5
<1>6. CASE Seeder!QueueBucket
  <2> DEFINE h == Head(buckets)
  <2>1. /\ file' = file /\ buckets # <<>> /\ buckets' = Tail(buckets)
        /\ queued' = queued \cup {h} /\ h.distinctPrefixes <= Budget
    BY <1>6 DEF Seeder!QueueBucket
  <2>2. Found(h) /\ AllFound(Tail(buckets), queued)
    BY <1>2, <1>3, <2>1, FoundLeft
  <2> HIDE DEF h
  <2>3. AllFound(Tail(buckets), queued \cup {h})
    BY <2>1, <2>2 DEF AllFound
  <2> QED BY <1>4, <2>1, <2>3
<1>7. CASE Seeder!SplitBucket
  <2> DEFINE h == Head(buckets)
             c == Seeder!Scan(h.prefix, h.start, h.end)
  <2>1. /\ file' = file /\ buckets # <<>> /\ buckets' = c \o Tail(buckets)
        /\ queued' = queued
    BY <1>7 DEF Seeder!SplitBucket
  <2>2. BucketOK(file, h)
    <3>1. h = buckets[1] /\ 1 \in 1..Len(buckets)
      BY <1>3, <2>1
    <3> QED BY <1>2, <3>1 DEF LinesKept
  <2> HIDE DEF h
  <2>3. Scanned(h.prefix, h.start, h.end)
    BY <2>2 DEF BucketOK, Scanned
  <2>4. \A k \in 1..Len(c) : Found(c[k])
    BY <1>2, <2>3, ScanFinds
  <2>5. \E T : c \in Seq(T)
    <3>1. Cuts(file, c, h.prefix, h.start, h.end)
      BY <1>2, <2>3, ScanCuts DEF Scanned
    <3> QED BY <3>1 DEF Cuts
  <2> HIDE DEF c
  <2>6. AllFound(c \o Tail(buckets), queued)
    BY <1>2, <1>3, <2>1, <2>4, <2>5, FoundLeft
  <2> QED BY <1>4, <2>1, <2>6
<1>8. CASE Seeder!SeedAgain
  <2>1. /\ file' = file /\ buckets' = Seeder!Scan(<<>>, 1, Len(file) + 1) /\ queued' = {}
    BY <1>8 DEF Seeder!SeedAgain
  <2> QED BY <1>2, <1>4, <2>1, StartingFinds
<1>9. CASE Seeder!CloseJobs \/ Seeder!Waiting \/ Seeder!SeedReturns \/ Seeder!Kill
  BY <1>5, <1>9 DEF Seeder!CloseJobs, Seeder!Waiting, Seeder!WaitReturnsAtOnce, Seeder!WaitBlocks,
                    Seeder!WaitReturns, Seeder!WaitPanics, Seeder!SeedReturns, Seeder!Kill, Seeder!history
<1>10. CASE Seeder!Merging
  BY <1>5, <1>10 DEF Seeder!Merging, Seeder!ReceiveIndex, Seeder!Flush, Seeder!FlushFails,
                     Seeder!FinishIndex, Seeder!EndMerger, Seeder!history
<1>11. ASSUME NEW w \in Builders, Seeder!StartBuilder(w) \/ Seeder!Building(w)
       PROVE  SizeInv'
  BY <1>5, <1>11 DEF Seeder!StartBuilder, Seeder!Building, Seeder!BuildIndex, Seeder!SendIndex,
                     Seeder!SendPanics, Seeder!EndBuilder, Seeder!history
<1>12. CASE UNCHANGED Seeder!vars
  BY <1>5, <1>12 DEF Seeder!vars, Seeder!history
<1> QED BY <1>6, <1>7, <1>8, <1>9, <1>10, <1>11, <1>12 DEF Seeder!Next, Seeder!Scanning

\* Of the queued buckets the invariant says what the property asks.
LEMMA SizeInvFits == SizeInv => IndexFitsBudget
<1> SUFFICES ASSUME SizeInv, NEW b \in queued
             PROVE  LET size == Seeder!Cardinality(Seeder!PrefixesOf(Seeder!Entries(b.start, b.end)))
                    IN  /\ b.distinctPrefixes <= Budget
                        /\ size <= b.distinctPrefixes + Len(b.prefix)
                        /\ Seeder!InOrder(b) => size = b.distinctPrefixes + Len(b.prefix)
  BY DEF IndexFitsBudget, Seeder!IndexFitsBudget
<1>1. file \in Seq(Seeder!Phrase) /\ BucketOK(file, b)
  BY DEF SizeInv, LineInv, LinesKept
<1>2. Found(b) /\ b.distinctPrefixes <= Budget
  BY DEF SizeInv, AllFound
<1>3. \A S : Seeder!Cardinality(S) = Cardinality(S)
  BY DEF Seeder!Cardinality, Cardinality
<1> QED BY <1>1, <1>2, <1>3, SizeOfChild

\* A builder's index of a bucket has no more prefixes than one pass over the lines
\* counted, and the bucket's own: within the budget, in whatever order the lines
\* are.  Of lines in order the count is exact.
THEOREM WithinBudget == Seeder!Spec => []IndexFitsBudget
BY SizeInit, SizeNext, SizeInvFits, PTL DEF Seeder!Spec
=============================================================================
