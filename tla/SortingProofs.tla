---------------------------- MODULE SortingProofs ----------------------------
(***************************************************************************)
(* What sorting and filtering do to a sequence: the entries stay, as often *)
(* as they were, and come in order; and two sequences in order that have   *)
(* every entry as often are one.                                           *)
(***************************************************************************)
EXTENDS Sorting, Functions, FiniteSetTheorems, WellFoundedInduction, TLAPS

-----------------------------------------------------------------------------
(* Sorting and filtering *)

\* R orders P strictly, and any two of P.
Orders(R, P) ==
  /\ \A i \in P : <<i, i>> \notin R
  /\ \A i, j \in P : i # j => <<i, j>> \in R \/ <<j, i>> \in R
  /\ \A i, j, k \in P : <<i, j>> \in R /\ <<j, k>> \in R => <<i, k>> \in R

\* Who has k-1 before it: there is one, and it is everybody once, in order.
LEMMA PlacesAreTaken ==
  ASSUME NEW P, IsFiniteSet(P), NEW R, Orders(R, P)
  PROVE  /\ Cardinality(P) \in Nat
         /\ \A k \in 1..Cardinality(P) : Place(P, R, k) \in P
         /\ \A i \in P : \E k \in 1..Cardinality(P) : Place(P, R, k) = i
         /\ \A k, l \in 1..Cardinality(P) : k < l => <<Place(P, R, k), Place(P, R, l)>> \in R
<1> DEFINE Ahead(i) == {j \in P : <<j, i>> \in R}
           n == Cardinality(P)
           rank == [i \in P |-> Cardinality(Ahead(i)) + 1]
<1>1. n \in Nat
  BY FS_CardinalityType
<1>2. ASSUME NEW i \in P
      PROVE  IsFiniteSet(Ahead(i)) /\ Cardinality(Ahead(i)) \in 0..(n - 1)
  <2>1. Ahead(i) \in SUBSET (P \ {i})
    BY DEF Orders
  <2>2. IsFiniteSet(P \ {i}) /\ Cardinality(P \ {i}) = n - 1
    BY FS_RemoveElement
  <2>3. IsFiniteSet(Ahead(i)) /\ Cardinality(Ahead(i)) <= n - 1
    <3> DEFINE S == P \ {i}
               T == Ahead(i)
    <3>1. IsFiniteSet(S) /\ Cardinality(S) = n - 1 /\ T \in SUBSET S
      BY <2>1, <2>2
    <3> HIDE DEF S, T
    <3>2. IsFiniteSet(T) /\ Cardinality(T) <= Cardinality(S)
      BY <3>1, FS_Subset
    <3> QED BY <3>1, <3>2 DEF T
  <2>4. Cardinality(Ahead(i)) \in Nat
    BY <2>3, FS_CardinalityType
  <2> QED BY <1>1, <2>3, <2>4
<1>3. ASSUME NEW i \in P, NEW j \in P, <<i, j>> \in R
      PROVE  rank[i] < rank[j]
  <2>1. Ahead(i) \cup {i} \in SUBSET Ahead(j) /\ i \notin Ahead(i)
    BY <1>3 DEF Orders
  <2>2. /\ IsFiniteSet(Ahead(i)) /\ IsFiniteSet(Ahead(j))
        /\ Cardinality(Ahead(i)) \in Nat /\ Cardinality(Ahead(j)) \in Nat
    BY <1>2
  <2> HIDE DEF Ahead
  <2>3. Cardinality(Ahead(i) \cup {i}) = Cardinality(Ahead(i)) + 1
    BY <2>1, <2>2, FS_AddElement
  <2>4. Cardinality(Ahead(i) \cup {i}) <= Cardinality(Ahead(j))
    BY <2>1, <2>2, FS_Subset
  <2> QED BY <2>2, <2>3, <2>4
<1>4. rank \in [P -> 1..n]
  BY <1>1, <1>2
<1>5. \A i, j \in P : rank[i] = rank[j] => i = j
  <2>1. \A i \in P : rank[i] \in Int
    BY <1>1, <1>4
  <2> HIDE DEF rank
  <2> SUFFICES ASSUME NEW i \in P, NEW j \in P, i # j
               PROVE  rank[i] # rank[j]
    OBVIOUS
  <2>2. <<i, j>> \in R \/ <<j, i>> \in R
    BY DEF Orders
  <2>3. rank[i] < rank[j] \/ rank[j] < rank[i]
    BY <1>3, <2>2
  <2> QED BY <2>1, <2>3
<1>6. \A k \in 1..n : \E i \in P : rank[i] = k
  <2>1. rank \in Injection(P, 1..n)
    <3> HIDE DEF rank
    <3> QED BY <1>4, <1>5 DEF Injection, IsInjective
  <2>2. IsFiniteSet(1..n) /\ Cardinality(1..n) = n
    BY <1>1, FS_Interval
  <2>3. rank \in Surjection(P, 1..n)
    <3> HIDE DEF rank
    <3> QED BY <2>1, <2>2, FS_Injection
  <2> HIDE DEF rank
  <2> QED BY <2>3 DEF Surjection
<1>7. ASSUME NEW k \in 1..n, NEW i \in P, rank[i] = k
      PROVE  Place(P, R, k) = i
  <2>0. \A j \in P : rank[j] = Cardinality(Ahead(j)) + 1 /\ Cardinality(Ahead(j)) \in Int
    BY <1>1, <1>2
  <2>1. \A j \in P : Cardinality(Ahead(j)) = k - 1 <=> rank[j] = k
    <3> HIDE DEF rank, Ahead
    <3> QED BY <1>1, <2>0
  <2>2. Place(P, R, k) = CHOOSE j \in P : Cardinality(Ahead(j)) = k - 1
    BY DEF Place
  <2> HIDE DEF rank, Ahead
  <2>3. \A j \in P : Cardinality(Ahead(j)) = k - 1 <=> j = i
    BY <1>5, <1>7, <2>1
  <2> QED BY <2>2, <2>3
<1>8. \A i \in P : rank[i] \in 1..n /\ Place(P, R, rank[i]) = i
  <2> HIDE DEF rank
  <2> QED BY <1>4, <1>7
<1>9. \A k \in 1..n : \E i \in P : rank[i] = k /\ Place(P, R, k) = i
  <2> HIDE DEF rank
  <2> QED BY <1>6, <1>7
<1>10. ASSUME NEW k \in 1..n, NEW l \in 1..n, k < l
       PROVE  <<Place(P, R, k), Place(P, R, l)>> \in R
  <2>1. PICK i \in P : rank[i] = k /\ Place(P, R, k) = i
    BY <1>9
  <2>2. PICK j \in P : rank[j] = l /\ Place(P, R, l) = j
    BY <1>9
  <2> HIDE DEF rank
  <2>3. ~(rank[j] < rank[i]) /\ i # j
    BY <1>1, <1>10, <2>1, <2>2
  <2> QED BY <1>3, <2>1, <2>2, <2>3 DEF Orders
<1> HIDE DEF rank
<1> QED BY <1>1, <1>8, <1>9, <1>10

\* What is arranged has the entries that it is made of, in their order.
Arranges(a, S, s, P, R) ==
  /\ a \in Seq(S) /\ Len(a) = Cardinality(P)
  /\ Range(a) = {s[i] : i \in P}
  /\ \A k, l \in 1..Len(a) : k < l =>
       \E i, j \in P : <<i, j>> \in R /\ a[k] = s[i] /\ a[l] = s[j]

LEMMA Arranging ==
  ASSUME NEW S, NEW s, NEW P, IsFiniteSet(P), \A i \in P : s[i] \in S, NEW R, Orders(R, P)
  PROVE  Arranges(Arranged(s, P, R), S, s, P, R)
<1> DEFINE n == Cardinality(P)
           a == Arranged(s, P, R)
<1>1. /\ n \in Nat
      /\ \A k \in 1..n : Place(P, R, k) \in P
      /\ \A i \in P : \E k \in 1..n : Place(P, R, k) = i
      /\ \A k, l \in 1..n : k < l => <<Place(P, R, k), Place(P, R, l)>> \in R
  BY PlacesAreTaken
<1>2. a = [k \in 1..n |-> s[Place(P, R, k)]]
  BY DEF Arranged
<1> HIDE DEF a, n
<1>3. a \in Seq(S) /\ Len(a) = n /\ DOMAIN a = 1..n
  BY <1>1, <1>2
<1>4. Range(a) = {s[i] : i \in P}
  BY <1>1, <1>2, <1>3 DEF Range
<1>5. \A k, l \in 1..n : k < l => \E i, j \in P : <<i, j>> \in R /\ a[k] = s[i] /\ a[l] = s[j]
  BY <1>1, <1>2
<1>6. Arranges(a, S, s, P, R)
  <2>1. 1..Len(a) = 1..n
    BY <1>3
  <2>2. \A k, l \in 1..Len(a) : k < l => \E i, j \in P : <<i, j>> \in R /\ a[k] = s[i] /\ a[l] = s[j]
    <3> SUFFICES ASSUME NEW k \in 1..Len(a), NEW l \in 1..Len(a), k < l
                 PROVE  \E i, j \in P : <<i, j>> \in R /\ a[k] = s[i] /\ a[l] = s[j]
      OBVIOUS
    <3>1. k \in 1..n /\ l \in 1..n
      BY <2>1
    <3> QED BY <1>5, <3>1
  <2> QED BY <1>3, <1>4, <2>2 DEF Arranges, n
<1> QED BY <1>6 DEF a

Ascending(s) == \A k, l \in 1..Len(s) : k < l => s[k] <= s[l]

LEMMA SortingNumbers ==
  ASSUME NEW S \in SUBSET Int, NEW s \in Seq(S)
  PROVE  /\ Sorted(s, <) \in Seq(S)
         /\ Range(Sorted(s, <)) = Range(s)
         /\ Ascending(Sorted(s, <))
<1> DEFINE P == 1..Len(s)
           R == {q \in P \X P : s[q[1]] < s[q[2]] \/ (~(s[q[2]] < s[q[1]]) /\ q[1] < q[2])}
           a == Arranged(s, P, R)
<1>1. DOMAIN s = P /\ Len(s) \in Nat
  OBVIOUS
<1>2. Sorted(s, <) = a
  BY <1>1 DEF Sorted, SortOrder
<1>3. \A i \in P : s[i] \in S
  OBVIOUS
<1>4. \A i \in P : i \in Int /\ s[i] \in Int
  <2>1. \A x \in S : x \in Int
    OBVIOUS
  <2>2. \A i \in P : s[i] \in Int
    BY <1>3, <2>1
  <2>3. \A i \in P : i \in Int
    BY <1>1
  <2> QED BY <2>2, <2>3
<1>5. IsFiniteSet(P)
  BY <1>1, FS_Interval
<1>6. \A i, j \in P : <<i, j>> \in R <=> s[i] < s[j] \/ (s[i] = s[j] /\ i < j)
  BY <1>4
<1>7. Range(s) = {s[i] : i \in P}
  BY <1>1 DEF Range
<1> HIDE DEF P, R
<1>8. Orders(R, P)
  BY <1>4, <1>6 DEF Orders
<1>9. Arranges(a, S, s, P, R)
  BY <1>3, <1>5, <1>8, Arranging
<1> HIDE DEF a
<1>10. Ascending(a)
  <2> SUFFICES ASSUME NEW k \in 1..Len(a), NEW l \in 1..Len(a), k < l
               PROVE  a[k] <= a[l]
    BY DEF Ascending
  <2>1. PICK i \in P, j \in P : <<i, j>> \in R /\ a[k] = s[i] /\ a[l] = s[j]
    BY <1>9 DEF Arranges
  <2> QED BY <1>4, <1>6, <2>1
<1> QED BY <1>2, <1>7, <1>9, <1>10 DEF Arranges

\* Filtering keeps the order, and what is not to go.
LEMMA Filtering ==
  ASSUME NEW S \in SUBSET Int, NEW s \in Seq(S), Ascending(s), NEW gone
  PROVE  /\ Without(s, gone) \in Seq(S)
         /\ Range(Without(s, gone)) = Range(s) \ gone
         /\ Ascending(Without(s, gone))
<1> DEFINE P == {i \in 1..Len(s) : s[i] \notin gone}
           R == {q \in P \X P : q[1] < q[2]}
           a == Arranged(s, P, R)
<1>1. DOMAIN s = 1..Len(s) /\ Len(s) \in Nat
  OBVIOUS
<1>2. Without(s, gone) = a
  BY <1>1 DEF Without
<1>3. \A i \in P : s[i] \in S
  OBVIOUS
<1>4. \A i \in P : i \in 1..Len(s) /\ i \in Int /\ s[i] \in Int
  <2>1. \A x \in S : x \in Int
    OBVIOUS
  <2>2. \A i \in P : s[i] \in Int
    BY <1>3, <2>1
  <2>3. \A i \in P : i \in Int
    BY <1>1
  <2> QED BY <2>2, <2>3
<1>5. IsFiniteSet(P)
  <2>1. IsFiniteSet(1..Len(s)) /\ P \in SUBSET (1..Len(s))
    BY <1>1, FS_Interval
  <2> QED BY <2>1, FS_Subset
<1>6. \A i, j \in P : <<i, j>> \in R <=> i < j
  OBVIOUS
<1>7. Range(s) \ gone = {s[i] : i \in P}
  BY <1>1 DEF Range
<1> HIDE DEF P, R
<1>8. Orders(R, P)
  BY <1>4, <1>6 DEF Orders
<1>9. Arranges(a, S, s, P, R)
  BY <1>3, <1>5, <1>8, Arranging
<1> HIDE DEF a
<1>10. Ascending(a)
  <2> SUFFICES ASSUME NEW k \in 1..Len(a), NEW l \in 1..Len(a), k < l
               PROVE  a[k] <= a[l]
    BY DEF Ascending
  <2>1. PICK i \in P, j \in P : <<i, j>> \in R /\ a[k] = s[i] /\ a[l] = s[j]
    BY <1>9 DEF Arranges
  <2> QED BY <1>4, <1>6, <2>1 DEF Ascending
<1> QED BY <1>2, <1>7, <1>9, <1>10 DEF Arranges

-----------------------------------------------------------------------------
(* Counting the entries of a sequence *)

LEMMA LeastOfNaturals ==
  ASSUME NEW T, T \subseteq Nat, T # {}
  PROVE  \E m \in T : \A k \in T : m <= k
<1>1. \E x \in T : \A y \in T : <<y, x>> \notin OpToRel(<, Nat)
  BY NatLessThanWellFounded, WFMin
<1>2. \A x, y \in Nat : <<y, x>> \in OpToRel(<, Nat) <=> y < x
  BY DEF OpToRel
<1>3. \E x \in T : \A y \in T : ~ (y < x)
  BY <1>1, <1>2, Zenon
<1> QED BY <1>3

\* The entries of s in V come before the others ...
ComesFirst(s, V) == \A k, l \in 1..Len(s) : (k < l /\ s[l] \in V) => s[k] \in V

\* ... on the first positions.
IsInitial(s, V) == \E c \in 0..Len(s) : {i \in 1..Len(s) : s[i] \in V} = 1..c

LEMMA InitialSegment ==
  ASSUME NEW S, NEW s \in Seq(S), NEW V, ComesFirst(s, V)
  PROVE  IsInitial(s, V)
<1> DEFINE T == {c \in Nat : c = Len(s) \/ (c < Len(s) /\ s[c + 1] \notin V)}
<1>1. PICK n \in Nat : n = Len(s)
  OBVIOUS
<1>2. PICK c \in T : \A k \in T : c <= k
  <2>1. T \subseteq Nat /\ n \in T
    BY <1>1
  <2> HIDE DEF T
  <2> QED BY <2>1, LeastOfNaturals
<1>3. c \in 0..n
  BY <1>1, <1>2
<1>4. ASSUME NEW i \in 1..n PROVE s[i] \in V <=> i <= c
  <2>1. CASE i > c
    <3>1. c < n /\ c + 1 \in 1..n /\ s[c + 1] \notin V /\ (c + 1 < i \/ c + 1 = i)
      BY <1>1, <1>2, <1>3, <2>1
    <3> QED BY <1>1, <1>3, <2>1, <3>1 DEF ComesFirst
  <2>2. CASE i <= c
    <3>1. i - 1 \in Nat /\ i - 1 < n /\ ~(c <= i - 1) /\ (i - 1) + 1 = i
      BY <1>1, <1>3, <2>2
    <3>2. i - 1 \notin T
      BY <1>2, <3>1
    <3> QED BY <1>1, <2>2, <3>1, <3>2
  <2> QED BY <1>3, <2>1, <2>2
<1> HIDE DEF T
<1>5. {i \in 1..n : s[i] \in V} = 1..c
  BY <1>3, <1>4
<1> QED BY <1>1, <1>3, <1>5 DEF IsInitial

\* How many entries of s are in V.
Count(s, V) == Cardinality({i \in 1..Len(s) : s[i] \in V})

LEMMA FinitelyMany ==
  ASSUME NEW S, NEW s \in Seq(S), NEW V
  PROVE  IsFiniteSet({i \in 1..Len(s) : s[i] \in V})
<1>1. IsFiniteSet(1..Len(s))
  <2>1. Len(s) \in Int
    OBVIOUS
  <2> QED BY <2>1, FS_Interval
<1>2. {i \in 1..Len(s) : s[i] \in V} \in SUBSET (1..Len(s))
  OBVIOUS
<1> QED BY <1>1, <1>2, FS_Subset

\* Arranging changes no count.
LEMMA CountsStay ==
  ASSUME NEW S, NEW s \in Seq(S), NEW R, Orders(R, 1..Len(s)), NEW V
  PROVE  Count(Arranged(s, 1..Len(s), R), V) = Count(s, V)
<1> DEFINE a == Arranged(s, 1..Len(s), R)
           K == {k \in 1..Len(a) : a[k] \in V}
           I == {i \in 1..Len(s) : s[i] \in V}
           f == [k \in K |-> Place(1..Len(s), R, k)]
<1>1. PICK n \in Nat : n = Len(s) /\ IsFiniteSet(1..n) /\ Cardinality(1..n) = n
  <2>1. Len(s) \in Nat
    OBVIOUS
  <2> QED BY <2>1, FS_Interval
<1>2. /\ \A k \in 1..n : Place(1..n, R, k) \in 1..n
      /\ \A i \in 1..n : \E k \in 1..n : Place(1..n, R, k) = i
      /\ \A k, l \in 1..n : k < l => <<Place(1..n, R, k), Place(1..n, R, l)>> \in R
  <2> DEFINE P == 1..n
  <2>1. IsFiniteSet(P) /\ Cardinality(P) = n /\ Orders(R, P)
    BY <1>1
  <2> HIDE DEF P
  <2>2. /\ \A k \in 1..n : Place(P, R, k) \in P
        /\ \A i \in P : \E k \in 1..n : Place(P, R, k) = i
        /\ \A k, l \in 1..n : k < l => <<Place(P, R, k), Place(P, R, l)>> \in R
    BY <2>1, PlacesAreTaken
  <2> QED BY <2>2 DEF P
<1>3. a = [k \in 1..n |-> s[Place(1..n, R, k)]]
  BY <1>1 DEF Arranged
<1>4. Len(a) = n
  BY <1>1, <1>3
<1>5. f \in [K -> I]
  BY <1>1, <1>2, <1>3, <1>4
<1>6. \A k, l \in K : f[k] = f[l] => k = l
  <2> SUFFICES ASSUME NEW k \in K, NEW l \in K, k # l PROVE f[k] # f[l]
    OBVIOUS
  <2>1. k \in 1..n /\ l \in 1..n /\ f[k] = Place(1..n, R, k) /\ f[l] = Place(1..n, R, l)
    BY <1>1, <1>4
  <2> HIDE DEF f
  <2>2. k < l \/ l < k
    BY <2>1
  <2>3. \A i \in 1..n : <<i, i>> \notin R
    BY <1>1 DEF Orders
  <2> QED BY <1>2, <2>1, <2>2, <2>3
<1>7. \A i \in I : \E k \in K : f[k] = i
  BY <1>1, <1>2, <1>3, <1>4
<1>8. f \in Bijection(K, I)
  <2> HIDE DEF f, K, I
  <2> QED BY <1>5, <1>6, <1>7 DEF Bijection, Injection, Surjection, IsInjective
<1>9. IsFiniteSet(K)
  <2>1. K \in SUBSET (1..n)
    BY <1>4
  <2> QED BY <1>1, <2>1, FS_Subset
<1>10. Cardinality(K) = Cardinality(I)
  <2> HIDE DEF f, K, I
  <2> QED BY <1>8, <1>9, FS_Bijection DEF ExistsBijection
<1> QED BY <1>10 DEF Count

\* Two sequences with as many of every value have as many of any.
SameCounts(S, s, t) == \A x \in S : Count(s, {x}) = Count(t, {x})

LEMMA CountsAddUp ==
  ASSUME NEW S, NEW s \in Seq(S), NEW t \in Seq(S), SameCounts(S, s, t), NEW V
  PROVE  Count(s, V) = Count(t, V)
<1> DEFINE At(q, x) == {i \in 1..Len(q) : q[i] \in {x}}
           f == [x \in S |-> CHOOSE g : g \in Bijection(At(s, x), At(t, x))]
           I == {i \in 1..Len(s) : s[i] \in V}
           J == {i \in 1..Len(t) : t[i] \in V}
           F == [i \in I |-> f[s[i]][i]]
<1>1. ASSUME NEW x \in S PROVE f[x] \in Bijection(At(s, x), At(t, x))
  <2>1. Cardinality(At(s, x)) = Cardinality(At(t, x))
    BY DEF SameCounts, Count
  <2>2. IsFiniteSet(At(s, x)) /\ IsFiniteSet(At(t, x))
    BY FinitelyMany
  <2> HIDE DEF At
  <2>3. Bijection(At(s, x), At(t, x)) # {}
    BY <2>1, <2>2, FS_SameCardinalityBij DEF ExistsBijection
  <2> QED BY <2>3
<1>2. ASSUME NEW x \in S
      PROVE  /\ \A i \in At(s, x) : f[x][i] \in At(t, x)
             /\ \A i, j \in At(s, x) : f[x][i] = f[x][j] => i = j
             /\ \A j \in At(t, x) : \E i \in At(s, x) : f[x][i] = j
  <2> HIDE DEF At, f
  <2> QED BY <1>1 DEF Bijection, Injection, Surjection, IsInjective
<1>3. /\ \A i \in 1..Len(s) : s[i] \in S /\ i \in At(s, s[i])
      /\ \A i \in 1..Len(t) : t[i] \in S /\ i \in At(t, t[i])
  OBVIOUS
<1>4. \A i \in I : F[i] \in 1..Len(t) /\ t[F[i]] = s[i]
  <2> SUFFICES ASSUME NEW i \in I PROVE F[i] \in 1..Len(t) /\ t[F[i]] = s[i]
    OBVIOUS
  <2>1. F[i] = f[s[i]][i] /\ s[i] \in S
    OBVIOUS
  <2> HIDE DEF f, F
  <2>2. F[i] \in At(t, s[i])
    BY <1>2, <1>3, <2>1
  <2> QED BY <2>2
<1>5. F \in [I -> J]
  <2>1. \A i \in I : F[i] \in J
    BY <1>4
  <2> HIDE DEF J, f
  <2> QED BY <2>1
<1>6. \A i, j \in I : F[i] = F[j] => i = j
  <2> SUFFICES ASSUME NEW i \in I, NEW j \in I, F[i] = F[j] PROVE i = j
    OBVIOUS
  <2>1. s[i] = s[j]
    <3> HIDE DEF F
    <3> QED BY <1>4
  <2>2. f[s[i]][i] = f[s[i]][j] /\ s[i] \in S /\ i \in At(s, s[i]) /\ j \in At(s, s[i])
    BY <1>3, <2>1
  <2> HIDE DEF f, F, At
  <2> QED BY <1>2, <2>2
<1>7. \A j \in J : \E i \in I : F[i] = j
  <2> SUFFICES ASSUME NEW j \in J PROVE \E i \in I : F[i] = j
    OBVIOUS
  <2>1. j \in At(t, t[j]) /\ t[j] \in S /\ t[j] \in V
    OBVIOUS
  <2>2. PICK i \in At(s, t[j]) : f[t[j]][i] = j
    <3> HIDE DEF f, At
    <3> QED BY <1>2, <2>1
  <2>3. i \in I /\ s[i] = t[j]
    BY <2>1, <2>2
  <2>4. F[i] = f[s[i]][i]
    BY <2>3
  <2> HIDE DEF f, F, At, I
  <2> QED BY <2>2, <2>3, <2>4
<1>8. F \in Bijection(I, J)
  <2> HIDE DEF F, I, J
  <2> QED BY <1>5, <1>6, <1>7 DEF Bijection, Injection, Surjection, IsInjective
<1>9. IsFiniteSet(I)
  BY FinitelyMany
<1>10. Cardinality(I) = Cardinality(J)
  <2> HIDE DEF F, I, J
  <2> QED BY <1>8, <1>9, FS_Bijection DEF ExistsBijection
<1> QED BY <1>10 DEF Count

\* Of ascending sequences there is one with given counts.
AscendingBy(L, s) == \A k, l \in 1..Len(s) : k < l => s[k] = s[l] \/ <<s[k], s[l]>> \in L

LEMMA CountsDecide ==
  ASSUME NEW S, NEW L, Orders(L, S), NEW s \in Seq(S), NEW t \in Seq(S),
         AscendingBy(L, s), AscendingBy(L, t),
         SameCounts(S, s, t)
  PROVE  s = t
<1> DEFINE Below(x) == {y \in S : <<y, x>> \in L}
           Upto(x) == {y \in S : y = x \/ <<y, x>> \in L}
<1>1. ASSUME NEW q \in Seq(S), AscendingBy(L, q), NEW x \in S
      PROVE  IsInitial(q, Below(x)) /\ IsInitial(q, Upto(x))
  <2>1. \A i \in 1..Len(q) : q[i] \in S
    OBVIOUS
  <2>2. ComesFirst(q, Below(x))
    BY <1>1, <2>1 DEF AscendingBy, Orders, ComesFirst
  <2>3. ComesFirst(q, Upto(x))
    BY <1>1, <2>1 DEF AscendingBy, Orders, ComesFirst
  <2> HIDE DEF Below, Upto
  <2> QED BY <2>2, <2>3, InitialSegment
<1>2. \A c \in Nat : Cardinality(1..c) = c
  BY FS_Interval
<1>3. ASSUME NEW V, IsInitial(s, V), IsInitial(t, V)
      PROVE  \E c \in Nat : /\ {i \in 1..Len(s) : s[i] \in V} = 1..c
                            /\ {i \in 1..Len(t) : t[i] \in V} = 1..c
  <2>1. Count(s, V) = Count(t, V)
    BY CountsAddUp
  <2>2. PICK c \in Nat : {i \in 1..Len(s) : s[i] \in V} = 1..c
    BY <1>3 DEF IsInitial
  <2>3. PICK d \in Nat : {i \in 1..Len(t) : t[i] \in V} = 1..d
    BY <1>3 DEF IsInitial
  <2>4. c = d
    BY <1>2, <2>1, <2>2, <2>3 DEF Count
  <2> QED BY <2>2, <2>3, <2>4
<1>4. (\A i \in 1..Len(s) : s[i] \in S) /\ (\A i \in 1..Len(t) : t[i] \in S)
  OBVIOUS
<1>5. PICK n \in Nat : n = Len(s) /\ n = Len(t)
  <2>1. {i \in 1..Len(s) : s[i] \in S} = 1..Len(s) /\ {i \in 1..Len(t) : t[i] \in S} = 1..Len(t)
    BY <1>4
  <2>2. Len(s) \in Nat /\ Len(t) \in Nat
    OBVIOUS
  <2>3. Count(s, S) = Count(t, S)
    BY CountsAddUp
  <2>4. Len(s) = Len(t)
    BY <1>2, <2>1, <2>2, <2>3 DEF Count
  <2> QED BY <2>2, <2>4
<1>6. ASSUME NEW k \in 1..n PROVE s[k] = t[k]
  <2>1. PICK x \in S : x = s[k]
    BY <1>4, <1>5
  <2>2. IsInitial(s, Below(x)) /\ IsInitial(t, Below(x)) /\ IsInitial(s, Upto(x)) /\ IsInitial(t, Upto(x))
    BY <1>1
  <2>3. x \in Upto(x) /\ x \notin Below(x)
    BY DEF Orders
  <2> HIDE DEF Below, Upto
  <2>4. PICK c \in Nat : /\ {i \in 1..n : s[i] \in Below(x)} = 1..c
                         /\ {i \in 1..n : t[i] \in Below(x)} = 1..c
    BY <1>3, <1>5, <2>2
  <2>5. PICK d \in Nat : /\ {i \in 1..n : s[i] \in Upto(x)} = 1..d
                         /\ {i \in 1..n : t[i] \in Upto(x)} = 1..d
    BY <1>3, <1>5, <2>2
  <2>6. k \in 1..d /\ k \notin 1..c
    BY <2>1, <2>3, <2>4, <2>5
  <2>7. t[k] \in Upto(x) /\ t[k] \notin Below(x)
    BY <2>4, <2>5, <2>6
  <2> QED BY <2>1, <2>7 DEF Upto, Below
<1>7. s \in [1..n -> S] /\ t \in [1..n -> S]
  <2>1. s \in [1..Len(s) -> S] /\ t \in [1..Len(t) -> S]
    OBVIOUS
  <2> QED BY <1>5, <2>1
<1> HIDE DEF Below, Upto
<1> QED BY <1>6, <1>7
=============================================================================
