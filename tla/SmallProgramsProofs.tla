------------------------ MODULE SmallProgramsProofs ------------------------
(***************************************************************************)
(* Proofs about four of the small programs.  The shortener: a code leads,  *)
(* for ever, to the URL it was handed out for, and the spellings of one    *)
(* URL share one code; for any URLs and requests, any clock and any number *)
(* of restarts.  The ring of consistent hashing: the map and the ring stay *)
(* together, a lookup finds the first hash clockwise, and servers that     *)
(* come and go move no key that they need not; for any number of servers,  *)
(* of nodes of a server and of hashes, whatever hashes coincide.  The      *)
(* corpus tools: one pass counts what all rows together say.  The trie:    *)
(* kept, searched or looked up, the answer is the best words of the file.  *)
(***************************************************************************)
EXTENDS MCSmallPrograms, SortingProofs

-----------------------------------------------------------------------------
(* The shortener: the table *)

\* The column is unique.
CodesAreUnique == \A v, w \in urls : v.short_code = w.short_code => v = w

\* What was handed out is in the table.
HandedIsStored ==
  \A h \in handed :
    \E row \in urls : row.short_code = h.code /\ row.original_url = NormalForm(h.url)

SInv == CodesAreUnique /\ HandedIsStored

\* A row under a code that is free keeps the codes unique, and all rows.
LEMMA InsertKeepsUnique ==
  ASSUME CodesAreUnique, NEW original, NEW code,
         \A row \in urls : row.short_code # code,
         urls' = urls \cup {Row(original, code)}
  PROVE  CodesAreUnique'
<1>1. Row(original, code).short_code = code
  BY DEF Row
<1>2. SUFFICES ASSUME NEW v \in urls', NEW w \in urls', v.short_code = w.short_code
               PROVE  v = w
  BY DEF CodesAreUnique
<1>3. CASE v \in urls /\ w \in urls
  BY <1>2, <1>3 DEF CodesAreUnique
<1>4. CASE v = Row(original, code) \/ w = Row(original, code)
  <2>1. CASE v \in urls
    BY <1>1, <1>2, <1>4, <2>1
  <2>2. CASE w \in urls
    BY <1>1, <1>2, <1>4, <2>2
  <2>. QED
    BY <1>2, <1>4, <2>1, <2>2
<1>. QED
  BY <1>3, <1>4

\* What was handed out stays stored when rows are only added.
LEMMA StoredStays ==
  ASSUME HandedIsStored, urls \subseteq urls', handed' = handed
  PROVE  HandedIsStored'
BY DEF HandedIsStored

\* The same when one more URL is handed out, with the code of a row it has.
LEMMA OneMoreHanded ==
  ASSUME HandedIsStored, urls \subseteq urls', NEW u, NEW code, NEW row \in urls',
         row.short_code = code, row.original_url = NormalForm(u),
         handed' = handed \cup {[url |-> u, code |-> code]}
  PROVE  HandedIsStored'
<1>1. [url |-> u, code |-> code].url = u /\ [url |-> u, code |-> code].code = code
  OBVIOUS
<1>. QED
  BY <1>1 DEF HandedIsStored

LEMMA InitSInv == ShortenerInit => SInv
BY DEF ShortenerInit, SInv, CodesAreUnique, HandedIsStored

LEMMA NextSInv == SInv /\ [ShortenerNext]_shortenerVars => SInv'
<1>. SUFFICES ASSUME SInv, [ShortenerNext]_shortenerVars
              PROVE  SInv'
  OBVIOUS
<1>0. CodesAreUnique /\ HandedIsStored
  BY DEF SInv
<1>1. ASSUME NEW r \in Requests, NEW u \in Urls, LookUpFinds(r, u)
      PROVE  SInv'
  <2>1. PICK code \in CodesOf(NormalForm(u)) : handed' = handed \cup {[url |-> u, code |-> code]}
    BY <1>1 DEF LookUpFinds
  <2>2. PICK row \in urls : row.original_url = NormalForm(u) /\ row.short_code = code
    BY <2>1 DEF CodesOf
  <2>3. urls' = urls
    BY <1>1 DEF LookUpFinds
  <2>4. HandedIsStored'
    BY <1>0, <2>1, <2>2, <2>3, OneMoreHanded
  <2>. QED
    BY <1>0, <2>3, <2>4 DEF SInv, CodesAreUnique
<1>2. ASSUME NEW r \in Requests, Insert(r)
      PROVE  SInv'
  <2>. DEFINE u == request[r].url
              new == Row(NormalForm(u), next)
  <2>1. /\ \A row \in urls : row.short_code # next
        /\ urls' = urls \cup {new}
        /\ handed' = handed \cup {[url |-> u, code |-> next]}
    BY <1>2 DEF Insert
  <2>2. CodesAreUnique'
    BY <1>0, <2>1, InsertKeepsUnique
  <2>3. new.short_code = next /\ new.original_url = NormalForm(u)
    BY DEF Row
  <2>4. HandedIsStored'
    BY <1>0, <2>1, <2>3, OneMoreHanded
  <2>. QED
    BY <2>2, <2>4 DEF SInv
<1>3. ASSUME NEW r \in Requests, InsertFails(r)
      PROVE  SInv'
  <2>1. handed' = handed
    BY <1>3 DEF InsertFails
  <2>2. CASE urls' = urls
    BY <1>0, <2>1, <2>2, StoredStays DEF SInv, CodesAreUnique
  <2>3. CASE urls' # urls
    <3>1. /\ \A row \in urls : row.short_code # next
          /\ urls' = urls \cup {Row(NormalForm(request[r].url), next)}
      BY <1>3, <2>3 DEF InsertFails
    <3>2. CodesAreUnique'
      BY <1>0, <3>1, InsertKeepsUnique
    <3>. QED
      BY <1>0, <2>1, <3>1, <3>2, StoredStays DEF SInv
  <2>. QED
    BY <2>2, <2>3
<1>4. CASE UNCHANGED <<urls, handed>>
  BY <1>0, <1>4 DEF SInv, CodesAreUnique, HandedIsStored
<1>5. ASSUME NEW r \in Requests, NEW u \in Urls, LookUpMisses(r, u) \/ LookUpFails(r, u)
      PROVE  UNCHANGED <<urls, handed>>
  BY <1>5 DEF LookUpMisses, LookUpFails
<1>6. ASSUME NEW r \in Requests, InsertRefused(r)
      PROVE  UNCHANGED <<urls, handed>>
  BY <1>6 DEF InsertRefused
<1>7. ASSUME Restart \/ UNCHANGED shortenerVars
      PROVE  UNCHANGED <<urls, handed>>
  BY <1>7 DEF Restart, shortenerVars
<1>. QED
  BY <1>1, <1>2, <1>3, <1>4, <1>5, <1>6, <1>7 DEF ShortenerNext

LEMMA SInvLeadsHome == SInv => CodesLeadHome
<1>. SUFFICES ASSUME SInv, NEW h \in handed
              PROVE  Targets(h.code) = {NormalForm(h.url)}
  BY DEF CodesLeadHome
<1>1. PICK row \in urls : row.short_code = h.code /\ row.original_url = NormalForm(h.url)
  BY DEF SInv, HandedIsStored
<1>2. \A w \in urls : w.short_code = h.code => w = row
  BY <1>1 DEF SInv, CodesAreUnique
<1>. QED
  BY <1>1, <1>2 DEF Targets

\* A code that was handed out leads to the URL it was handed out for and to no
\* other, although ids may repeat after a restart and statements may fail with
\* their row inserted or not: all that matters is the unique column.
THEOREM CodesLead == ShortenerSpec => []CodesLeadHome
BY InitSInv, NextSInv, SInvLeadsHome, PTL DEF ShortenerSpec

-----------------------------------------------------------------------------
(* The shortener: queries *)

Pairs == Nat \X Nat

PairOrder == {p \in Pairs \X Pairs : Before(p[1], p[2])}

LEMMA PairsAreOrdered == Orders(PairOrder, Pairs)
<1>1. \A v, w \in Pairs :
        <<v, w>> \in PairOrder <=> v[1] < w[1] \/ (v[1] = w[1] /\ v[2] < w[2])
  BY DEF PairOrder, Before
<1>2. \A v \in Pairs : v[1] \in Nat /\ v[2] \in Nat /\ v = <<v[1], v[2]>>
  BY DEF Pairs
<1> HIDE DEF Pairs
<1>3. \A v \in Pairs : <<v, v>> \notin PairOrder
  BY <1>1, <1>2
<1>4. \A v, w \in Pairs : v # w => <<v, w>> \in PairOrder \/ <<w, v>> \in PairOrder
  <2> SUFFICES ASSUME NEW v \in Pairs, NEW w \in Pairs, v # w
               PROVE  <<v, w>> \in PairOrder \/ <<w, v>> \in PairOrder
    OBVIOUS
  <2>1. v[1] # w[1] \/ v[2] # w[2]
    BY <1>2
  <2> QED BY <1>1, <1>2, <2>1
<1>5. \A u, v, w \in Pairs : <<u, v>> \in PairOrder /\ <<v, w>> \in PairOrder => <<u, w>> \in PairOrder
  BY <1>1, <1>2
<1> QED BY <1>3, <1>4, <1>5 DEF Orders

LEMMA SortingQueries ==
  ASSUME NEW q \in Seq(Pairs)
  PROVE  /\ SortedQuery(q) \in Seq(Pairs)
         /\ AscendingBy(PairOrder, SortedQuery(q))
         /\ \A V : Count(SortedQuery(q), V) = Count(q, V)
<1> DEFINE P == 1..Len(q)
           R == {p \in P \X P : \/ Before(q[p[1]], q[p[2]])
                                \/ ~Before(q[p[2]], q[p[1]]) /\ p[1] < p[2]}
           a == Arranged(q, P, R)
<1>1. DOMAIN q = P /\ Len(q) \in Nat
  OBVIOUS
<1>2. SortedQuery(q) = a
  BY <1>1 DEF SortedQuery, Sorted, SortOrder
<1>3. \A i \in P : q[i] \in Pairs
  OBVIOUS
<1>4. IsFiniteSet(P)
  BY <1>1, FS_Interval
<1>5. \A v, w \in Pairs : Before(v, w) <=> <<v, w>> \in PairOrder
  BY DEF PairOrder
<1>6. \A v, w \in Pairs : ~Before(v, w) /\ ~Before(w, v) => v = w
  BY <1>5, PairsAreOrdered DEF Orders
<1>7. \A i, j \in P : <<i, j>> \in R <=> <<q[i], q[j]>> \in PairOrder \/ (q[i] = q[j] /\ i < j)
  <2> SUFFICES ASSUME NEW i \in P, NEW j \in P
               PROVE  <<i, j>> \in R <=> <<q[i], q[j]>> \in PairOrder \/ (q[i] = q[j] /\ i < j)
    OBVIOUS
  <2>1. <<i, j>> \in R <=> Before(q[i], q[j]) \/ (~Before(q[j], q[i]) /\ i < j)
    OBVIOUS
  <2>2. q[i] = q[j] => ~Before(q[i], q[j]) /\ ~Before(q[j], q[i])
    BY <1>3, <1>5, PairsAreOrdered DEF Orders
  <2> HIDE DEF R, P
  <2> QED BY <1>3, <1>5, <1>6, <2>1, <2>2
<1>8. \A i \in P : i \in Int
  OBVIOUS
<1>9. Orders(R, P)
  <2>1. /\ \A v \in Pairs : <<v, v>> \notin PairOrder
        /\ \A v, w \in Pairs : v # w => <<v, w>> \in PairOrder \/ <<w, v>> \in PairOrder
        /\ \A u, v, w \in Pairs : <<u, v>> \in PairOrder /\ <<v, w>> \in PairOrder => <<u, w>> \in PairOrder
    BY PairsAreOrdered DEF Orders
  <2> HIDE DEF P, R
  <2>2. \A i \in P : <<i, i>> \notin R
    <3> SUFFICES ASSUME NEW i \in P PROVE <<i, i>> \notin R
      OBVIOUS
    <3>1. <<i, i>> \in R <=> <<q[i], q[i]>> \in PairOrder \/ i < i
      BY <1>7
    <3>2. ~(i < i) /\ <<q[i], q[i]>> \notin PairOrder
      BY <1>3, <1>8, <2>1
    <3> QED BY <3>1, <3>2
  <2>3. \A i, j \in P : i # j => <<i, j>> \in R \/ <<j, i>> \in R
    <3> SUFFICES ASSUME NEW i \in P, NEW j \in P, i # j PROVE <<i, j>> \in R \/ <<j, i>> \in R
      OBVIOUS
    <3>1. CASE q[i] = q[j]
      <4>1. i < j \/ j < i
        BY <1>8
      <4> QED BY <1>7, <3>1, <4>1
    <3>2. CASE q[i] # q[j]
      <4>1. <<q[i], q[j]>> \in PairOrder \/ <<q[j], q[i]>> \in PairOrder
        BY <1>3, <2>1, <3>2
      <4> QED BY <1>7, <4>1
    <3> QED BY <3>1, <3>2
  <2>4. \A i, j, k \in P : <<i, j>> \in R /\ <<j, k>> \in R => <<i, k>> \in R
    <3> SUFFICES ASSUME NEW i \in P, NEW j \in P, NEW k \in P, <<i, j>> \in R, <<j, k>> \in R
                 PROVE  <<i, k>> \in R
      OBVIOUS
    <3>1. /\ <<q[i], q[j]>> \in PairOrder \/ (q[i] = q[j] /\ i < j)
          /\ <<q[j], q[k]>> \in PairOrder \/ (q[j] = q[k] /\ j < k)
      BY <1>7
    <3>2. <<q[i], q[k]>> \in PairOrder \/ (q[i] = q[k] /\ i < k)
      BY <1>3, <1>8, <2>1, <3>1
    <3> QED BY <1>7, <3>2
  <2> QED BY <2>2, <2>3, <2>4 DEF Orders
<1> HIDE DEF R
<1>10. \A V : Count(a, V) = Count(q, V)
  BY <1>9, CountsStay
<1> HIDE DEF P
<1>11. Arranges(a, Pairs, q, P, R)
  BY <1>3, <1>4, <1>9, Arranging
<1> HIDE DEF a
<1>12. AscendingBy(PairOrder, a)
  <2> SUFFICES ASSUME NEW k \in 1..Len(a), NEW l \in 1..Len(a), k < l
               PROVE  a[k] = a[l] \/ <<a[k], a[l]>> \in PairOrder
    BY DEF AscendingBy
  <2>1. PICK i \in P, j \in P : <<i, j>> \in R /\ a[k] = q[i] /\ a[l] = q[j]
    BY <1>11 DEF Arranges
  <2> QED BY <1>7, <2>1
<1> QED BY <1>2, <1>10, <1>11, <1>12 DEF Arranges

\* How often a query has each pair.
Counted(q) == [pair \in ToSet(q) |-> Cardinality({i \in DOMAIN q : q[i] = pair})]

\* Two queries sort to the same when they have every pair as often.
LEMMA SortedAlike ==
  ASSUME NEW q \in Seq(Pairs), NEW r \in Seq(Pairs)
  PROVE  SortedQuery(q) = SortedQuery(r) <=> Counted(q) = Counted(r)
<1>1. ASSUME NEW s \in Seq(Pairs)
      PROVE  /\ DOMAIN Counted(s) = ToSet(s)
             /\ \A x \in ToSet(s) : Counted(s)[x] = Count(s, {x})
             /\ ToSet(s) = {x \in Pairs : Count(s, {x}) # 0}
             /\ ToSet(s) \subseteq Pairs
  <2>1. DOMAIN s = 1..Len(s) /\ ToSet(s) \subseteq Pairs
    BY DEF ToSet
  <2>2. \A x : {i \in DOMAIN s : s[i] = x} = {i \in 1..Len(s) : s[i] \in {x}}
    BY <2>1
  <2>3. \A x : Count(s, {x}) # 0 <=> {i \in 1..Len(s) : s[i] \in {x}} # {}
    <3> SUFFICES ASSUME NEW x
                 PROVE  Count(s, {x}) # 0 <=> {i \in 1..Len(s) : s[i] \in {x}} # {}
      OBVIOUS
    <3> DEFINE I == {i \in 1..Len(s) : s[i] \in {x}}
    <3>1. IsFiniteSet(I) /\ Count(s, {x}) = Cardinality(I)
      BY FinitelyMany DEF Count
    <3> HIDE DEF I
    <3>2. Cardinality(I) = 0 <=> I = {}
      BY <3>1, FS_EmptySet
    <3> QED BY <3>1, <3>2 DEF I
  <2>4. \A x \in Pairs : x \in ToSet(s) <=> Count(s, {x}) # 0
    BY <2>1, <2>3 DEF ToSet
  <2> QED BY <2>1, <2>2, <2>4 DEF Counted, Count
<1>2. SameCounts(Pairs, q, r) <=> Counted(q) = Counted(r)
  <2>1. ASSUME SameCounts(Pairs, q, r) PROVE Counted(q) = Counted(r)
    <3>1. ToSet(q) = ToSet(r)
      BY <1>1, <2>1 DEF SameCounts
    <3>2. \A x \in ToSet(q) : Counted(q)[x] = Counted(r)[x]
      BY <1>1, <2>1, <3>1 DEF SameCounts
    <3> QED BY <3>1, <3>2 DEF Counted
  <2>2. ASSUME Counted(q) = Counted(r) PROVE SameCounts(Pairs, q, r)
    <3>1. ToSet(q) = ToSet(r)
      BY <1>1, <2>2
    <3> QED BY <1>1, <2>2, <3>1 DEF SameCounts
  <2> QED BY <2>1, <2>2
<1>3. ASSUME SortedQuery(q) = SortedQuery(r) PROVE SameCounts(Pairs, q, r)
  BY <1>3, SortingQueries DEF SameCounts
<1>4. ASSUME SameCounts(Pairs, q, r) PROVE SortedQuery(q) = SortedQuery(r)
  <2>1. SameCounts(Pairs, SortedQuery(q), SortedQuery(r))
    BY <1>4, SortingQueries DEF SameCounts
  <2> QED BY <2>1, SortingQueries, PairsAreOrdered, CountsDecide
<1> QED BY <1>2, <1>3, <1>4

-----------------------------------------------------------------------------
(* The shortener: spellings *)

\* What a form and a meaning say of the port and the path.
FormPort(u) == IF HasDefaultPort(u) THEN 0 ELSE u.port
FormPath(u) == IF u.path = "/" THEN "" ELSE u.path
MeantPort(u) == IF u.port = 0 THEN DefaultPort(u.scheme) ELSE u.port
MeantPath(u) == IF u.path = "" THEN "/" ELSE u.path

HasParts(u) ==
  /\ u.scheme \in {"http", "https"} /\ u.port \in {0, 80, 443} /\ u.path \in {"", "/", "p"}
  /\ u.query \in Seq(Pairs)

LEMMA PlainUrl ==
  ASSUME NEW u \in Url, Plain(u)
  PROVE  HasParts(u)
<1>1. /\ u.scheme \in {"", "http", "https"} /\ u.port \in {0, 80, 443} /\ u.path \in {"", "/", "p"}
      /\ u.query \in Seq(Nat \X Nat)
  BY DEF Url
<1>2. u.scheme # ""
  BY DEF Plain, Schemeless
<1> QED BY <1>1, <1>2 DEF Pairs, HasParts

LEMMA PlainForm ==
  ASSUME NEW u \in Url, Plain(u)
  PROVE  NormalForm(u) =
           [scheme |-> u.scheme, shouted |-> FALSE, host |-> Lower(u.host), literal |-> FALSE,
            port |-> FormPort(u), path |-> FormPath(u), query |-> SortedQuery(u.query),
            fragment |-> FALSE]
<1>1. ~Schemeless(u) /\ ~u.literal
  BY DEF Plain
<1>2. CutHost(u) = Lower(u.host)
  BY <1>1 DEF CutHost
<1> QED BY <1>1, <1>2 DEF NormalForm, FormPort, FormPath

LEMMA PortsAlike ==
  ASSUME NEW u \in Url, Plain(u), NEW v \in Url, Plain(v), u.scheme = v.scheme
  PROVE  MeantPort(u) = MeantPort(v) <=> FormPort(u) = FormPort(v)
<1>1. u.port \in {0, 80, 443} /\ v.port \in {0, 80, 443} /\ u.scheme \in {"http", "https"}
  <2>1. HasParts(u) /\ HasParts(v)
    BY PlainUrl
  <2> QED BY <2>1 DEF HasParts
<1>2. PICK d \in {80, 443} : d = DefaultPort(u.scheme) /\ d = DefaultPort(v.scheme)
  <2>1. DefaultPort("http") = 80 /\ DefaultPort("https") = 443
    BY DEF DefaultPort
  <2> QED BY <1>1, <2>1
<1>3. /\ MeantPort(u) = (IF u.port = 0 THEN d ELSE u.port)
      /\ MeantPort(v) = (IF v.port = 0 THEN d ELSE v.port)
  BY <1>2 DEF MeantPort
<1>4. /\ FormPort(u) = (IF u.port = d THEN 0 ELSE u.port)
      /\ FormPort(v) = (IF v.port = d THEN 0 ELSE v.port)
  BY <1>1, <1>2 DEF FormPort, HasDefaultPort
<1>5. CASE u.port = 0 \/ u.port = d
  BY <1>2, <1>3, <1>4, <1>5
<1>6. CASE u.port # 0 /\ u.port # d
  BY <1>2, <1>3, <1>4, <1>6
<1> QED BY <1>5, <1>6

LEMMA PathsAlike ==
  ASSUME NEW u \in Url, Plain(u), NEW v \in Url, Plain(v)
  PROVE  MeantPath(u) = MeantPath(v) <=> FormPath(u) = FormPath(v)
<1>1. u.path \in {"", "/", "p"} /\ v.path \in {"", "/", "p"}
  <2>1. HasParts(u) /\ HasParts(v)
    BY PlainUrl
  <2> QED BY <2>1 DEF HasParts
<1> QED BY <1>1 DEF MeantPath, FormPath

\* The normal form is the same where the meaning is.
LEMMA FormIsMeaning ==
  ASSUME NEW u \in Url, NEW v \in Url, Plain(u), Plain(v)
  PROVE  NormalForm(u) = NormalForm(v) <=> Meaning(u) = Meaning(v)
<1>1. SortedQuery(u.query) = SortedQuery(v.query) <=> Counted(u.query) = Counted(v.query)
  <2>1. u.query \in Seq(Pairs) /\ v.query \in Seq(Pairs)
    <3>1. HasParts(u) /\ HasParts(v)
      BY PlainUrl
    <3> QED BY <3>1 DEF HasParts
  <2> QED BY <2>1, SortedAlike
<1>2. NormalForm(u) = NormalForm(v) <=>
        /\ u.scheme = v.scheme /\ Lower(u.host) = Lower(v.host) /\ FormPort(u) = FormPort(v)
        /\ FormPath(u) = FormPath(v) /\ SortedQuery(u.query) = SortedQuery(v.query)
  <2> DEFINE Spelt(w) == [scheme |-> w.scheme, shouted |-> FALSE, host |-> Lower(w.host),
                          literal |-> FALSE, port |-> FormPort(w), path |-> FormPath(w),
                          query |-> SortedQuery(w.query), fragment |-> FALSE]
  <2>1. Spelt(u) = Spelt(v) <=>
        /\ u.scheme = v.scheme /\ Lower(u.host) = Lower(v.host) /\ FormPort(u) = FormPort(v)
        /\ FormPath(u) = FormPath(v) /\ SortedQuery(u.query) = SortedQuery(v.query)
    OBVIOUS
  <2>2. NormalForm(u) = Spelt(u) /\ NormalForm(v) = Spelt(v)
    BY PlainForm, Zenon
  <2> HIDE DEF Spelt
  <2> QED BY <2>1, <2>2
<1>3. Meaning(u) = Meaning(v) <=>
        /\ u.scheme = v.scheme /\ Lower(u.host) = Lower(v.host) /\ MeantPort(u) = MeantPort(v)
        /\ MeantPath(u) = MeantPath(v) /\ Counted(u.query) = Counted(v.query)
  <2>1. \A w : Meaning(w) = [scheme |-> w.scheme, host |-> Lower(w.host), port |-> MeantPort(w),
                             path |-> MeantPath(w), query |-> Counted(w.query)]
    BY DEF Meaning, MeantPort, MeantPath, Counted
  <2> QED BY <2>1
<1>4. MeantPath(u) = MeantPath(v) <=> FormPath(u) = FormPath(v)
  BY PathsAlike
<1>5. u.scheme = v.scheme => (MeantPort(u) = MeantPort(v) <=> FormPort(u) = FormPort(v))
  BY PortsAlike
<1> QED BY <1>1, <1>2, <1>3, <1>4, <1>5

-----------------------------------------------------------------------------
(* The shortener: one code for each URL *)

Waiting(r) == request[r].pc = "missed"

Form(r) == NormalForm(request[r].url)

\* A normal form that was not raced for has one row at most, one request at most
\* that missed it, and not both.
OneOfEach ==
  /\ \A v, w \in urls : v.original_url = w.original_url /\ v.original_url \notin raced => v = w
  /\ \A r, s \in Requests : Waiting(r) /\ Waiting(s) /\ Form(r) = Form(s) /\ Form(r) \notin raced => r = s
  /\ \A r \in Requests : \A w \in urls : Waiting(r) /\ w.original_url = Form(r) => Form(r) \in raced

\* Requests are for the URLs there are.
Asked ==
  /\ DOMAIN request = Requests
  /\ \A r \in Requests : Waiting(r) => request[r].url \in Urls
  /\ \A h \in handed : h.url \in Urls

OInv == SInv /\ Asked /\ OneOfEach

LEMMA InitOInv == ShortenerInit => OInv
  BY InitSInv DEF OInv, ShortenerInit, Asked, OneOfEach, Idle, Waiting

\* A request that ends, with a row for what it missed or without.
LEMMA RequestEnds ==
  ASSUME Asked, OneOfEach, NEW r \in Requests, Waiting(r),
         request' = [request EXCEPT ![r] = Idle], raced' = raced, NEW code,
         urls' = urls \/ urls' = urls \cup {Row(Form(r), code)},
         handed' = handed \/ handed' = handed \cup {[url |-> request[r].url, code |-> code]}
  PROVE  Asked' /\ OneOfEach'
<1>1. /\ ~Waiting(r)'
      /\ \A s \in Requests : s # r => request'[s] = request[s]
  BY DEF Asked, Waiting, Idle
<1>2. \A s \in Requests : Waiting(s)' => s # r /\ Waiting(s) /\ Form(s)' = Form(s)
  BY <1>1 DEF Waiting, Form
<1>3. Asked'
  <2>1. \A h \in handed' : h.url \in Urls
    BY DEF Asked
  <2>2. \A s \in Requests : Waiting(s)' => request'[s].url \in Urls
    BY <1>1, <1>2 DEF Asked
  <2> QED BY <2>1, <2>2 DEF Asked
<1>4. \A w \in urls' : w \in urls \/ (w = Row(Form(r), code) /\ w.original_url = Form(r))
  BY DEF Row
<1>5. \A v, w \in urls' : v.original_url = w.original_url /\ v.original_url \notin raced' => v = w
  BY <1>4 DEF OneOfEach
<1>6. \A q, s \in Requests : Waiting(q)' /\ Waiting(s)' /\ Form(q)' = Form(s)' /\ Form(q)' \notin raced' => q = s
  BY <1>2 DEF OneOfEach
<1>7. \A s \in Requests : \A w \in urls' : Waiting(s)' /\ w.original_url = Form(s)' => Form(s)' \in raced'
  BY <1>2, <1>4 DEF OneOfEach
<1> QED BY <1>3, <1>5, <1>6, <1>7 DEF OneOfEach

\* A request that has missed.
LEMMA RequestMisses ==
  ASSUME Asked, OneOfEach, NEW r \in Requests, NEW u \in Urls,
         request' = [request EXCEPT ![r] = [pc |-> "missed", url |-> u]],
         UNCHANGED <<urls, handed>>, raced \subseteq raced',
         ~Waiting(r),
         \/ NormalForm(u) \in raced'
         \/ CodesOf(NormalForm(u)) = {} /\ ~Missing(NormalForm(u))
  PROVE  Asked' /\ OneOfEach'
<1>1. /\ request'[r] = [pc |-> "missed", url |-> u]
      /\ \A s \in Requests : s # r => request'[s] = request[s]
  BY DEF Asked
<1>2. Form(r)' = NormalForm(u) /\ \A s \in Requests : Waiting(s)' /\ s # r => Waiting(s) /\ Form(s)' = Form(s)
  BY <1>1 DEF Waiting, Form
<1>3. Asked'
  <2>1. \A s \in Requests : Waiting(s)' => request'[s].url \in Urls
    BY <1>1, <1>2 DEF Asked
  <2> QED BY <2>1 DEF Asked
<1>4. NormalForm(u) \notin raced' =>
        /\ \A w \in urls : w.original_url # NormalForm(u)
        /\ \A s \in Requests : Waiting(s) => Form(s) # NormalForm(u)
  BY DEF CodesOf, Missing, Waiting, Form
<1>5. \A v, w \in urls' : v.original_url = w.original_url /\ v.original_url \notin raced' => v = w
  BY DEF OneOfEach
<1>6. \A q, s \in Requests : Waiting(q)' /\ Waiting(s)' /\ Form(q)' = Form(s)' /\ Form(q)' \notin raced' => q = s
  BY <1>2, <1>4 DEF OneOfEach
<1>7. \A s \in Requests : \A w \in urls' : Waiting(s)' /\ w.original_url = Form(s)' => Form(s)' \in raced'
  BY <1>2, <1>4 DEF OneOfEach
<1> QED BY <1>3, <1>5, <1>6, <1>7 DEF OneOfEach

LEMMA NextOInv == OInv /\ [ShortenerNext]_shortenerVars => OInv'
<1> SUFFICES ASSUME SInv, Asked, OneOfEach, [ShortenerNext]_shortenerVars
             PROVE  OInv'
  BY DEF OInv
<1>0. SInv'
  BY NextSInv
<1>1. ASSUME NEW r \in Requests, NEW u \in Urls, LookUpFinds(r, u)
      PROVE  Asked' /\ OneOfEach'
  BY <1>1 DEF LookUpFinds, Asked, OneOfEach, Waiting, Form
<1>2. ASSUME NEW r \in Requests, NEW u \in Urls, LookUpMisses(r, u)
      PROVE  Asked' /\ OneOfEach'
  <2>1. ~Waiting(r)
    BY <1>2 DEF LookUpMisses, Waiting
  <2>2. /\ request' = [request EXCEPT ![r] = [pc |-> "missed", url |-> u]]
        /\ UNCHANGED <<urls, handed>> /\ raced \subseteq raced'
        /\ \/ NormalForm(u) \in raced'
           \/ CodesOf(NormalForm(u)) = {} /\ ~Missing(NormalForm(u))
    BY <1>2 DEF LookUpMisses
  <2> QED BY <2>1, <2>2, RequestMisses
<1>3. ASSUME NEW r \in Requests, NEW u \in Urls, LookUpFails(r, u)
      PROVE  Asked' /\ OneOfEach'
  <2>1. ~Waiting(r)
    BY <1>3 DEF LookUpFails, Waiting
  <2>2. /\ request' = [request EXCEPT ![r] = [pc |-> "missed", url |-> u]]
        /\ UNCHANGED <<urls, handed>> /\ raced \subseteq raced' /\ NormalForm(u) \in raced'
    BY <1>3 DEF LookUpFails
  <2> QED BY <2>1, <2>2, RequestMisses
<1>4. ASSUME NEW r \in Requests, Insert(r) \/ InsertRefused(r) \/ InsertFails(r)
      PROVE  Asked' /\ OneOfEach'
  <2>1. /\ Waiting(r) /\ request' = [request EXCEPT ![r] = Idle] /\ raced' = raced
        /\ urls' = urls \/ urls' = urls \cup {Row(Form(r), next)}
        /\ handed' = handed \/ handed' = handed \cup {[url |-> request[r].url, code |-> next]}
    BY <1>4 DEF Insert, InsertRefused, InsertFails, Waiting, Form
  <2> QED BY <2>1, RequestEnds
<1>5. ASSUME Restart PROVE Asked' /\ OneOfEach'
  BY <1>5 DEF Restart, Asked, OneOfEach, Waiting, Form, Idle
<1>6. ASSUME UNCHANGED shortenerVars PROVE Asked' /\ OneOfEach'
  BY <1>6 DEF shortenerVars, Asked, OneOfEach, Waiting, Form
<1> QED BY <1>0, <1>1, <1>2, <1>3, <1>4, <1>5, <1>6 DEF ShortenerNext, OInv

LEMMA OInvGivesOneCode == OInv => OneCodeForEachUrl
<1> SUFFICES ASSUME OInv, NEW g \in handed, NEW h \in handed, Plain(g.url), Plain(h.url)
             PROVE  /\ g.code = h.code => Meaning(g.url) = Meaning(h.url)
                    /\ (Meaning(g.url) = Meaning(h.url) /\ NormalForm(g.url) \notin raced) => g.code = h.code
  BY DEF OneCodeForEachUrl
<1>1. g.url \in Url /\ h.url \in Url
  BY ShortenerAssumption DEF OInv, Asked
<1>2. NormalForm(g.url) = NormalForm(h.url) <=> Meaning(g.url) = Meaning(h.url)
  BY <1>1, FormIsMeaning
<1>3. PICK v \in urls : v.short_code = g.code /\ v.original_url = NormalForm(g.url)
  BY DEF OInv, SInv, HandedIsStored
<1>4. PICK w \in urls : w.short_code = h.code /\ w.original_url = NormalForm(h.url)
  BY DEF OInv, SInv, HandedIsStored
<1>5. g.code = h.code => NormalForm(g.url) = NormalForm(h.url)
  BY <1>3, <1>4 DEF OInv, SInv, CodesAreUnique
<1>6. NormalForm(g.url) = NormalForm(h.url) /\ NormalForm(g.url) \notin raced => g.code = h.code
  BY <1>3, <1>4 DEF OInv, OneOfEach
<1> QED BY <1>2, <1>5, <1>6

\* Two spellings of one URL get one code, and two URLs never do (normalizeURL,
\* with the order it puts the query in), unless requests for that URL missed it
\* together or the lookup of one failed.
THEOREM OneCode == ShortenerSpec => []OneCodeForEachUrl
  BY InitOInv, NextOInv, OInvGivesOneCode, PTL DEF ShortenerSpec

-----------------------------------------------------------------------------
(* The ring: the binary search *)

\* Where an ascending ring is cut by a key.
LEMMA Cut ==
  ASSUME NEW S \in SUBSET Int, NEW ring \in Seq(S), Ascending(ring), NEW key \in Int
  PROVE  \E c \in 0..Len(ring) : \A i \in 1..Len(ring) : ring[i] >= key <=> i > c
<1> DEFINE n == Len(ring)
           T == {c \in Nat : c = n \/ (c < n /\ ring[c + 1] >= key)}
<1>1. n \in Nat /\ n \in T
  OBVIOUS
<1>2. \A i \in 1..n : ring[i] \in Int
  <2>1. \A x \in S : x \in Int
    OBVIOUS
  <2>2. \A i \in 1..n : ring[i] \in S
    OBVIOUS
  <2> QED BY <2>1, <2>2
<1>3. PICK c \in T : \A k \in T : c <= k
  <2>1. T \subseteq Nat /\ T # {}
    BY <1>1
  <2> HIDE DEF T
  <2> QED BY <2>1, LeastOfNaturals
<1> HIDE DEF n
<1>4. c \in 0..n
  BY <1>1, <1>3
<1>5. ASSUME NEW i \in 1..n PROVE ring[i] >= key <=> i > c
  <2>1. CASE i > c
    <3>1. c < n /\ c + 1 \in 1..n /\ ring[c + 1] >= key /\ c + 1 <= i
      BY <1>1, <1>4, <2>1
    <3>2. ring[c + 1] <= ring[i]
      BY <1>1, <1>2, <3>1 DEF Ascending, n
    <3> QED BY <1>2, <2>1, <3>1, <3>2
  <2>2. CASE i <= c
    <3>1. i - 1 \in Nat /\ i - 1 < n /\ ~(c <= i - 1) /\ (i - 1) + 1 = i
      BY <1>1, <1>4, <2>2
    <3>2. i - 1 \notin T
      BY <1>3, <3>1
    <3>3. ~(ring[i] >= key)
      BY <3>1, <3>2
    <3> QED BY <1>1, <1>4, <2>2, <3>3
  <2> QED BY <1>1, <1>4, <2>1, <2>2
<1> QED BY <1>4, <1>5 DEF n

\* The binary search finds that cut.
LEMMA SearchFindsCut ==
  ASSUME NEW S \in SUBSET Int, NEW ring \in Seq(S), Ascending(ring), NEW key \in Int
  PROVE  /\ Ring!SearchFrom(ring, key) \in 0..Len(ring)
         /\ \A i \in 1..Len(ring) : ring[i] >= key <=> i > Ring!SearchFrom(ring, key)
<1>1. PICK n \in Nat : n = Len(ring)
  OBVIOUS
<1>2. PICK c \in 0..n : \A i \in 1..n : ring[i] >= key <=> i > c
  BY <1>1, Cut
<1> DEFINE W == (0..n) \X (0..n)
           Mid(w) == (w[1] + w[2]) \div 2
           Step(f) == [w \in W |-> IF w[1] >= w[2] THEN w[1]
                                   ELSE IF ring[Mid(w) + 1] >= key THEN f[<<w[1], Mid(w)>>]
                                   ELSE f[<<Mid(w) + 1, w[2]>>]]
           found == [w \in W |-> IF w[1] >= w[2] \/ c <= w[1] THEN w[1]
                                 ELSE IF c >= w[2] THEN w[2] ELSE c]
           search == CHOOSE f : f = Step(f)
<1>3. Ring!SearchFrom(ring, key) = search[<<0, n>>]
  BY <1>1 DEF Ring!SearchFrom
<1>4. ASSUME NEW w \in W, ~(w[1] >= w[2])
      PROVE  /\ Mid(w) \in w[1]..(w[2] - 1) /\ Mid(w) + 1 \in 1..n
             /\ <<w[1], Mid(w)>> \in W /\ <<Mid(w) + 1, w[2]>> \in W
             /\ ring[Mid(w) + 1] >= key <=> Mid(w) >= c
  <2>1. w[1] \in 0..n /\ w[2] \in 0..n
    OBVIOUS
  <2>2. Mid(w) \in w[1]..(w[2] - 1)
    BY <1>4, <2>1
  <2> HIDE DEF Mid
  <2>3. Mid(w) + 1 \in 1..n
    BY <2>1, <2>2
  <2> QED BY <1>2, <2>1, <2>2, <2>3
<1>5. found = Step(found)
  <2> SUFFICES ASSUME NEW w \in W PROVE found[w] = Step(found)[w]
    OBVIOUS
  <2>1. w[1] \in 0..n /\ w[2] \in 0..n
    OBVIOUS
  <2>2. CASE w[1] >= w[2]
    BY <2>2
  <2>3. CASE ~(w[1] >= w[2]) /\ ring[Mid(w) + 1] >= key
    <3>1. Step(found)[w] = found[<<w[1], Mid(w)>>]
      BY <2>3
    <3>2. <<w[1], Mid(w)>> \in W /\ Mid(w) \in w[1]..(w[2] - 1) /\ Mid(w) >= c
      BY <1>4, <2>3
    <3> HIDE DEF Mid
    <3>3. found[<<w[1], Mid(w)>>] = found[w]
      BY <2>1, <2>3, <3>2
    <3> QED BY <3>1, <3>3
  <2>4. CASE ~(w[1] >= w[2]) /\ ~(ring[Mid(w) + 1] >= key)
    <3>1. Step(found)[w] = found[<<Mid(w) + 1, w[2]>>]
      BY <2>4
    <3>0. <<Mid(w) + 1, w[2]>> \in W /\ Mid(w) \in w[1]..(w[2] - 1) /\ ~(Mid(w) >= c)
      BY <1>4, <2>4
    <3> HIDE DEF Mid
    <3>2. <<Mid(w) + 1, w[2]>> \in W /\ Mid(w) \in w[1]..(w[2] - 1) /\ Mid(w) < c
      BY <2>1, <3>0
    <3>3. found[<<Mid(w) + 1, w[2]>>] = found[w]
      BY <2>1, <2>4, <3>2
    <3> QED BY <3>1, <3>3
  <2> QED BY <2>2, <2>3, <2>4
<1>6. search = Step(search)
  <2> HIDE DEF Step, found
  <2> QED BY <1>5
<1>7. \A w \in W : search[w] = found[w]
  <2> DEFINE Wrong == {m \in Nat : \E w \in W : w[2] - w[1] <= m /\ search[w] # found[w]}
  <2> SUFFICES ASSUME NEW v \in W, search[v] # found[v] PROVE FALSE
    OBVIOUS
  <2>1. n \in Wrong
    <3>1. v[1] \in 0..n /\ v[2] \in 0..n
      OBVIOUS
    <3>2. v[2] - v[1] <= n
      BY <3>1
    <3> HIDE DEF search, found
    <3> QED BY <3>2
  <2>2. PICK m \in Wrong : \A k \in Wrong : m <= k
    <3>1. Wrong \subseteq Nat /\ Wrong # {}
      BY <2>1
    <3> HIDE DEF Wrong
    <3> QED BY <3>1, LeastOfNaturals
  <2>3. PICK w \in W : w[2] - w[1] <= m /\ search[w] # found[w]
    BY <2>2
  <2>4. m \in Nat /\ w[1] \in 0..n /\ w[2] \in 0..n
    BY <2>2
  <2>5. search[w] = Step(search)[w] /\ found[w] = Step(found)[w]
    <3> HIDE DEF Step, search, found
    <3> QED BY <1>5, <1>6
  <2> HIDE DEF found, search
  <2>6. ~(w[1] >= w[2])
    BY <2>3, <2>5
  <2>7. /\ Mid(w) \in w[1]..(w[2] - 1)
        /\ <<w[1], Mid(w)>> \in W /\ <<Mid(w) + 1, w[2]>> \in W
    BY <1>4, <2>6
  <2> HIDE DEF Mid
  <2>8. m - 1 \in Nat /\ m - 1 \notin Wrong
    <3>1. m \in Nat /\ m - 1 \in Nat
      BY <2>3, <2>4, <2>6
    <3> HIDE DEF Wrong
    <3> QED BY <2>2, <3>1
  <2>9. \A u \in W : u[2] - u[1] <= m - 1 => search[u] = found[u]
    BY <2>8
  <2>12. Mid(w) - w[1] <= m - 1 /\ w[2] - (Mid(w) + 1) <= m - 1
    <3>1. PICK i \in Int, j \in Int, k \in Int : i = w[1] /\ j = w[2] /\ k = Mid(w)
      BY <2>4, <2>7
    <3>2. j - i <= m /\ i <= k /\ k <= j - 1
      BY <2>3, <2>7, <3>1
    <3>3. k - i <= m - 1 /\ j - (k + 1) <= m - 1
      BY <2>4, <3>2
    <3> QED BY <3>1, <3>3
  <2>10. search[<<w[1], Mid(w)>>] = found[<<w[1], Mid(w)>>]
    <3>1. Mid(w) - w[1] <= m - 1
      BY <2>12
    <3> QED BY <2>7, <2>9, <3>1
  <2>11. search[<<Mid(w) + 1, w[2]>>] = found[<<Mid(w) + 1, w[2]>>]
    <3>1. w[2] - (Mid(w) + 1) <= m - 1
      BY <2>12
    <3> QED BY <2>7, <2>9, <3>1
  <2> QED BY <2>3, <2>5, <2>6, <2>10, <2>11
<1>8. found[<<0, n>>] = c
  BY <1>2
<1>9. Ring!SearchFrom(ring, key) = c
  <2> HIDE DEF search, found
  <2> QED BY <1>3, <1>7, <1>8
<1> QED BY <1>1, <1>2, <1>9

-----------------------------------------------------------------------------
(* The ring: clockwise *)

LEMMA RingConstants ==
  /\ MaxServers \in Nat /\ NodesEach \in Nat /\ Span \in Nat \ {0}
  /\ Nobody \notin Ring!Ids
  BY ProgramsAssumption DEF Ring!RingAssumption, Ring!Ids

\* How far it is from a to b.
LEMMA Distances ==
  ASSUME NEW a \in Ring!Hashes, NEW b \in Ring!Hashes
  PROVE  Ring!Distance(a, b) = IF b >= a THEN b - a ELSE (b - a) + Span
<1>1. Span \in Nat \ {0} /\ a \in 0..(Span - 1) /\ b \in 0..(Span - 1)
  BY RingConstants DEF Ring!Hashes
<1>2. PICK d \in Int, m \in Int, q \in Int :
        d = b - a /\ m = d % Span /\ q = d \div Span
  BY <1>1
<1>3. d = Span * q + m /\ m \in 0..(Span - 1)
  BY <1>1, <1>2
<1>4. d > 0 - Span /\ d < Span
  BY <1>1, <1>2
<1>5. q = 0 \/ q = 0 - 1
  <2>1. ASSUME q > 0 PROVE FALSE
    <3>1. Span * q = Span * (q - 1) + Span /\ Span * (q - 1) >= 0
      BY <1>1, <2>1
    <3>2. PICK x \in Int : x = Span * (q - 1)
      BY <1>1
    <3> QED BY <1>1, <1>3, <1>4, <3>1, <3>2
  <2>2. ASSUME q < 0 - 1 PROVE FALSE
    <3>1. PICK p \in Nat : q = (0 - 2) - p
      <4>1. (0 - 2) - q \in Nat
        BY <2>2
      <4> QED BY <4>1
    <3>2. Span * q = (0 - Span) - Span - Span * p /\ Span * p \in Nat
      BY <1>1, <3>1
    <3>3. PICK x \in Nat : x = Span * p
      BY <3>2
    <3> QED BY <1>1, <1>3, <1>4, <3>2, <3>3
  <2> QED BY <2>1, <2>2
<1>6. Span * 0 = 0 /\ Span * (0 - 1) = 0 - Span
  BY <1>1
<1>7. m = IF d >= 0 THEN d ELSE d + Span
  BY <1>1, <1>3, <1>4, <1>5, <1>6
<1> QED BY <1>1, <1>2, <1>7 DEF Ring!Distance

\* Of the hashes H, h is the first clockwise from the key.
Nearest(key, H, h) ==
  h \in H /\ \A g \in H : Ring!Distance(key, h) <= Ring!Distance(key, g)

\* A lookup lands on the nearest hash of the ring.
LEMMA LookupLands ==
  ASSUME NEW ring \in Seq(Ring!Hashes), Ascending(ring), ring # <<>>, NEW key \in Ring!Hashes
  PROVE  Nearest(key, Range(ring), ring[Ring!Position(ring, key) + 1])
<1>1. PICK n \in Nat \ {0} : n = Len(ring) /\ DOMAIN ring = 1..n
  OBVIOUS
<1>2. Span \in Nat \ {0} /\ key \in 0..(Span - 1) /\ Ring!Hashes = 0..(Span - 1)
  BY RingConstants DEF Ring!Hashes
<1>3. \A i \in 1..n : ring[i] \in Ring!Hashes /\ ring[i] \in 0..(Span - 1)
  BY <1>1, <1>2
<1>4. PICK c \in 0..n : c = Ring!SearchFrom(ring, key) /\ \A i \in 1..n : ring[i] >= key <=> i > c
  <2>1. Ring!Hashes \in SUBSET Int /\ key \in Int
    BY <1>2
  <2> QED BY <1>1, <2>1, SearchFindsCut
<1>5. PICK p \in 0..(n - 1) : p = Ring!Position(ring, key) /\ p = IF c = n THEN 0 ELSE c
  BY <1>1, <1>4 DEF Ring!Position
<1>6. p + 1 \in 1..n
  BY <1>5
<1>7. ring[p + 1] \in Range(ring)
  BY <1>1, <1>6 DEF Range
<1>8. ASSUME NEW i \in 1..n
      PROVE  Ring!Distance(key, ring[p + 1]) <= Ring!Distance(key, ring[i])
  <2>1. \A k, l \in 1..n : k < l => ring[k] <= ring[l]
    BY <1>1 DEF Ascending
  <2>2. PICK h \in 0..(Span - 1), g \in 0..(Span - 1) : h = ring[p + 1] /\ g = ring[i]
    BY <1>3, <1>6
  <2>3. h = g \/ (p + 1 < i /\ h <= g) \/ i < p + 1
    BY <1>6, <2>1, <2>2
  <2>4. /\ Ring!Distance(key, h) = IF h >= key THEN h - key ELSE (h - key) + Span
        /\ Ring!Distance(key, g) = IF g >= key THEN g - key ELSE (g - key) + Span
    BY <1>2, Distances
  <2>5. (h >= key <=> p + 1 > c) /\ (g >= key <=> i > c)
    BY <1>4, <1>6, <2>2
  <2>6. PICK x \in Int : x = IF h >= key THEN h - key ELSE (h - key) + Span
    <3>1. h - key \in Int /\ (h - key) + Span \in Int
      BY <1>2
    <3>2. (IF h >= key THEN h - key ELSE (h - key) + Span) \in Int
      BY <3>1
    <3> QED BY <3>2
  <2>7. PICK y \in Int : y = IF g >= key THEN g - key ELSE (g - key) + Span
    <3>1. g - key \in Int /\ (g - key) + Span \in Int
      BY <1>2
    <3>2. (IF g >= key THEN g - key ELSE (g - key) + Span) \in Int
      BY <3>1
    <3> QED BY <3>2
  <2>8. x <= y
    BY <1>2, <1>5, <2>3, <2>5, <2>6, <2>7
  <2>9. x = Ring!Distance(key, h) /\ y = Ring!Distance(key, g)
    BY <2>4, <2>6, <2>7
  <2> QED BY <2>2, <2>8, <2>9
<1>9. \A g \in Range(ring) : \E i \in 1..n : g = ring[i]
  BY <1>1 DEF Range
<1> QED BY <1>5, <1>7, <1>8, <1>9 DEF Nearest

\* No two hashes are equally far, so the nearest is one.
LEMMA NearestIsOne ==
  ASSUME NEW key \in Ring!Hashes, NEW g \in Ring!Hashes, NEW h \in Ring!Hashes,
         NEW H, g \in H, Nearest(key, H, h),
         NEW G, h \in G, Nearest(key, G, g)
  PROVE  g = h
<1>1. Span \in Nat \ {0} /\ Ring!Hashes = 0..(Span - 1)
  BY RingConstants DEF Ring!Hashes
<1>2. /\ Ring!Distance(key, h) = IF h >= key THEN h - key ELSE (h - key) + Span
      /\ Ring!Distance(key, g) = IF g >= key THEN g - key ELSE (g - key) + Span
  BY Distances
<1>3. Ring!Distance(key, h) <= Ring!Distance(key, g) /\ Ring!Distance(key, g) <= Ring!Distance(key, h)
  BY DEF Nearest
<1>4. \A k \in Ring!Hashes : k - key \in Int /\ (k - key) + Span \in Int
  BY <1>1
<1>5. Ring!Distance(key, h) \in Int /\ Ring!Distance(key, g) \in Int
  BY <1>2, <1>4
<1>6. Ring!Distance(key, h) = Ring!Distance(key, g)
  BY <1>3, <1>5
<1> QED BY <1>1, <1>2, <1>6

-----------------------------------------------------------------------------
(* The ring: with the map *)

RingTypes ==
  /\ hash \in [Ring!Ids \X (1..NodesEach) -> Ring!Hashes]
  /\ servers \subseteq Ring!Ids
  /\ nodeMap \in [Ring!Hashes -> Ring!Ids \cup {Nobody}]
  /\ hashRing \in Seq(Ring!Hashes)
  /\ nextId \in 0..MaxServers

\* A hash is on the ring as long as its server is there.
RingFits ==
  \A h \in Ring!Hashes :
    IF h \in Range(hashRing) THEN nodeMap[h] \in servers ELSE nodeMap[h] = Nobody

\* A hash belongs to a server that has it.
RingOwners ==
  \A h \in Ring!Hashes : nodeMap[h] # Nobody => h \in Ring!HashesOf(nodeMap[h])

RingInv == RingTypes /\ Ascending(hashRing) /\ RingFits /\ RingOwners

LEMMA RangeOfConcatenation ==
  ASSUME NEW S, NEW s \in Seq(S), NEW t \in Seq(S)
  PROVE  s \o t \in Seq(S) /\ Range(s \o t) = Range(s) \cup Range(t)
<1>1. PICK m \in Nat, n \in Nat : m = Len(s) /\ n = Len(t)
  OBVIOUS
<1>2. s \o t \in Seq(S) /\ Len(s \o t) = m + n
  BY <1>1
<1>3. DOMAIN s = 1..m /\ DOMAIN t = 1..n /\ DOMAIN (s \o t) = 1..(m + n)
  BY <1>1, <1>2
<1>4. \A i \in 1..(m + n) : (s \o t)[i] = IF i <= m THEN s[i] ELSE t[i - m]
  BY <1>1
<1>5. \A i \in 1..m : i \in 1..(m + n) /\ (s \o t)[i] = s[i]
  <2> SUFFICES ASSUME NEW i \in 1..m PROVE i \in 1..(m + n) /\ (s \o t)[i] = s[i]
    OBVIOUS
  <2>1. i \in 1..(m + n) /\ i <= m
    OBVIOUS
  <2> QED BY <1>4, <2>1
<1>6. \A i \in 1..n : i + m \in 1..(m + n) /\ (s \o t)[i + m] = t[i]
  <2> SUFFICES ASSUME NEW i \in 1..n
               PROVE  i + m \in 1..(m + n) /\ (s \o t)[i + m] = t[i]
    OBVIOUS
  <2>1. i + m \in 1..(m + n) /\ ~(i + m <= m) /\ (i + m) - m = i
    OBVIOUS
  <2> QED BY <1>4, <2>1
<1>7. \A i \in 1..(m + n) : i \in 1..m \/ i - m \in 1..n
  OBVIOUS
<1>8. Range(s \o t) \subseteq Range(s) \cup Range(t)
  BY <1>3, <1>4, <1>7 DEF Range
<1>9. Range(s) \subseteq Range(s \o t)
  BY <1>3, <1>5 DEF Range
<1>10. Range(t) \subseteq Range(s \o t)
  BY <1>3, <1>6 DEF Range
<1> QED BY <1>2, <1>8, <1>9, <1>10

\* The ring's own sorting and filtering are those of the lemmas.
LEMMA SameSorting ==
  /\ \A s : Ring!Sorted(s, <) = Sorted(s, <)
  /\ \A s, gone : Ring!Without(s, gone) = Without(s, gone)
<1>1. \A P, R, k : Ring!Place(P, R, k) = Place(P, R, k)
  BY DEF Ring!Place, Place, Ring!Cardinality, Cardinality
<1>2. \A s, P, R : Ring!Arranged(s, P, R) = Arranged(s, P, R)
  BY <1>1 DEF Ring!Arranged, Arranged, Ring!Cardinality, Cardinality
<1>3. \A s : Ring!SortOrder(s, <) = SortOrder(s, <)
  BY DEF Ring!SortOrder, SortOrder
<1>4. \A s : Ring!Sorted(s, <) = Sorted(s, <)
  BY <1>2, <1>3 DEF Ring!Sorted, Sorted
<1>5. \A s, gone : Ring!Without(s, gone) = Without(s, gone)
  BY <1>2 DEF Ring!Without, Without
<1> QED BY <1>4, <1>5

\* What the two writers make of the ring.
LEMMA Arrival ==
  ASSUME RingInv, Ring!AddServer
  PROVE  /\ nextId \in Ring!Ids
         /\ hashRing' \in Seq(Ring!Hashes) /\ Ascending(hashRing')
         /\ Range(hashRing') = Range(hashRing) \cup Ring!HashesOf(nextId)
<1>1. nextId \in Ring!Ids
  <2>1. nextId < MaxServers
    BY DEF Ring!AddServer
  <2>2. nextId \in 0..MaxServers
    BY DEF RingInv, RingTypes
  <2> QED BY <2>1, <2>2, RingConstants DEF Ring!Ids
<1>2. /\ Ring!NodesOf(nextId) \in Seq(Ring!Hashes)
      /\ Range(Ring!NodesOf(nextId)) = Ring!HashesOf(nextId)
  <2>1. /\ Ring!NodesOf(nextId) \in [1..NodesEach -> Ring!Hashes]
        /\ Ring!NodesOf(nextId) = [i \in 1..NodesEach |-> hash[nextId, i]]
    BY <1>1 DEF RingInv, RingTypes, Ring!NodesOf
  <2>2. Ring!NodesOf(nextId) \in Seq(Ring!Hashes)
    <3>1. PICK n \in Nat : n = NodesEach
      BY RingConstants
    <3>2. PICK f \in [1..n -> Ring!Hashes] : f = Ring!NodesOf(nextId)
      BY <2>1, <3>1
    <3> QED BY <3>2
  <2> QED BY <2>1, <2>2 DEF Range, Ring!HashesOf
<1>3. /\ hashRing \o Ring!NodesOf(nextId) \in Seq(Ring!Hashes)
      /\ Range(hashRing \o Ring!NodesOf(nextId)) = Range(hashRing) \cup Ring!HashesOf(nextId)
  <2>1. hashRing \in Seq(Ring!Hashes)
    BY DEF RingInv, RingTypes
  <2> QED BY <1>2, <2>1, RangeOfConcatenation
<1>4. hashRing' = Sorted(hashRing \o Ring!NodesOf(nextId), <)
  BY SameSorting DEF Ring!AddServer
<1>5. Ring!Hashes \in SUBSET Int
  BY RingConstants DEF Ring!Hashes
<1> QED BY <1>1, <1>3, <1>4, <1>5, SortingNumbers

LEMMA Departure ==
  ASSUME RingInv, NEW s \in Ring!Ids, Ring!RemoveServer(s)
  PROVE  /\ hashRing' \in Seq(Ring!Hashes) /\ Ascending(hashRing')
         /\ Range(hashRing') = Range(hashRing) \ Ring!HashesOf(s)
<1>1. hashRing' = Without(hashRing, Ring!HashesOf(s))
  BY SameSorting DEF Ring!RemoveServer
<1>2. Ring!Hashes \in SUBSET Int /\ hashRing \in Seq(Ring!Hashes) /\ Ascending(hashRing)
  BY RingConstants DEF Ring!Hashes, RingInv, RingTypes
<1> QED BY <1>1, <1>2, Filtering

LEMMA RingInvIsKept == RingInv /\ (Ring!Next \/ UNCHANGED ringOnly) => RingInv'
<1> SUFFICES ASSUME RingInv, Ring!Next \/ UNCHANGED ringOnly
             PROVE  RingInv'
  OBVIOUS
<1>1. CASE Ring!AddServer
  <2>1. /\ nextId \in Ring!Ids /\ nextId # Nobody
        /\ hashRing' \in Seq(Ring!Hashes) /\ Ascending(hashRing')
        /\ Range(hashRing') = Range(hashRing) \cup Ring!HashesOf(nextId)
    BY <1>1, Arrival, RingConstants
  <2>2. /\ hash' = hash /\ servers' = servers \cup {nextId} /\ nextId' = nextId + 1
        /\ nodeMap' = [h \in Ring!Hashes |-> IF h \in Ring!HashesOf(nextId) THEN nextId ELSE nodeMap[h]]
    BY <1>1 DEF Ring!AddServer
  <2>3. RingTypes'
    <3>1. nextId' \in 0..MaxServers
      BY <2>1, <2>2, RingConstants DEF Ring!Ids
    <3> QED BY <2>1, <2>2, <3>1 DEF RingInv, RingTypes
  <2>4. RingFits'
    <3>1. \A h \in Ring!Hashes :
            IF h \in Range(hashRing') THEN nodeMap'[h] \in servers' ELSE nodeMap'[h] = Nobody
      BY <2>1, <2>2 DEF RingInv, RingFits
    <3> QED BY <3>1 DEF RingFits, Range
  <2>5. RingOwners'
    <3>1. \A h \in Ring!Hashes : nodeMap'[h] # Nobody => h \in Ring!HashesOf(nodeMap'[h])
      BY <2>2 DEF RingInv, RingOwners
    <3> QED BY <2>2, <3>1 DEF RingOwners, Ring!HashesOf
  <2>6. Ascending(hashRing)'
    BY <2>1 DEF Ascending
  <2> QED BY <2>3, <2>4, <2>5, <2>6 DEF RingInv
<1>2. ASSUME NEW s \in Ring!Ids, Ring!RemoveServer(s) PROVE RingInv'
  <2>1. /\ hashRing' \in Seq(Ring!Hashes) /\ Ascending(hashRing')
        /\ Range(hashRing') = Range(hashRing) \ Ring!HashesOf(s)
        /\ s # Nobody
    BY <1>2, Departure, RingConstants
  <2>2. /\ hash' = hash /\ servers' = servers \ {s} /\ nextId' = nextId
        /\ nodeMap' = [h \in Ring!Hashes |-> IF h \in Ring!HashesOf(s) THEN Nobody ELSE nodeMap[h]]
    BY <1>2 DEF Ring!RemoveServer
  <2>3. RingTypes'
    BY <2>1, <2>2 DEF RingInv, RingTypes
  <2>4. RingFits'
    <3>1. \A h \in Ring!Hashes : nodeMap[h] = s => h \in Ring!HashesOf(s)
      BY <2>1 DEF RingInv, RingOwners
    <3>2. \A h \in Ring!Hashes :
            IF h \in Range(hashRing') THEN nodeMap'[h] \in servers' ELSE nodeMap'[h] = Nobody
      BY <2>1, <2>2, <3>1 DEF RingInv, RingFits
    <3> QED BY <3>2 DEF RingFits, Range
  <2>5. RingOwners'
    <3>1. \A h \in Ring!Hashes : nodeMap'[h] # Nobody => h \in Ring!HashesOf(nodeMap'[h])
      BY <2>2 DEF RingInv, RingOwners
    <3> QED BY <2>2, <3>1 DEF RingOwners, Ring!HashesOf
  <2>6. Ascending(hashRing)'
    BY <2>1 DEF Ascending
  <2> QED BY <2>3, <2>4, <2>5, <2>6 DEF RingInv
<1>3. CASE UNCHANGED <<hash, servers, nodeMap, hashRing, nextId>>
  BY <1>3 DEF RingInv, RingTypes, RingFits, RingOwners, Range, Ring!HashesOf, Ascending
<1>4. ASSUME NEW r \in Readers,
             Ring!GetSearches(r) \/ \E key \in Ring!Hashes : Ring!GetChecks(r, key)
      PROVE  UNCHANGED <<hash, servers, nodeMap, hashRing, nextId>>
  BY <1>4 DEF Ring!GetSearches, Ring!GetChecks
<1> QED BY <1>1, <1>2, <1>3, <1>4 DEF Ring!Next, ringOnly

LEMMA RingInductive == ProgramsSpec => []RingInv
<1>1. ProgramsInit => RingInv
  <2> SUFFICES ASSUME Ring!Init PROVE RingInv
    BY DEF ProgramsInit, RingOff
  <2>1. hashRing = <<>> /\ Range(hashRing) = {} /\ Ascending(hashRing)
    BY DEF Ring!Init, Range, Ascending
  <2>2. RingTypes
    BY <2>1, RingConstants DEF Ring!Init, RingTypes
  <2>3. RingFits /\ RingOwners
    BY <2>1 DEF Ring!Init, RingFits, RingOwners
  <2> QED BY <2>1, <2>2, <2>3 DEF RingInv
<1>2. RingInv /\ [ProgramsNext]_programsVars => RingInv'
  BY RingInvIsKept DEF ProgramsNext, programsVars
<1> QED BY <1>1, <1>2, PTL DEF ProgramsSpec

-----------------------------------------------------------------------------
(* The ring: its properties *)

\* What is on the ring has a server that is there, and the map nothing else,
\* whatever hashes coincide (AddServer and RemoveServer).
THEOREM MapAndRing == ProgramsSpec => []RingMatchesMap
<1>1. RingInv => RingMatchesMap
  BY DEF RingInv, RingFits, RingMatchesMap, Ring!RingMatchesMap, Ring!OnRing, Ring!Range, Range
<1> QED BY <1>1, RingInductive, PTL

\* The binary search of a lookup, wrapped round the end of the ring, finds the
\* server of the first hash clockwise.
THEOREM Lookups == ProgramsSpec => []LookupIsClockwise
<1>1. RingInv => LookupIsClockwise
  <2> SUFFICES ASSUME RingInv, hashRing # <<>>, NEW key \in Ring!Hashes
               PROVE  \E h \in Ring!OnRing :
                        /\ \A g \in Ring!OnRing : Ring!Distance(key, h) <= Ring!Distance(key, g)
                        /\ Ring!ServerOf(key) = nodeMap[h]
    BY DEF LookupIsClockwise, Ring!LookupIsClockwise
  <2> DEFINE h == hashRing[Ring!Position(hashRing, key) + 1]
  <2>1. Nearest(key, Range(hashRing), h)
    BY LookupLands DEF RingInv, RingTypes
  <2>2. Ring!OnRing = Range(hashRing)
    BY DEF Ring!OnRing, Ring!Range, Range
  <2>3. Ring!ServerOf(key) = nodeMap[h]
    BY DEF Ring!ServerOf
  <2> QED BY <2>1, <2>2, <2>3 DEF Nearest
<1> QED BY <1>1, RingInductive, PTL

\* Every key is with the owner of the hash that is nearest to it, if any is.
LEMMA Assigned ==
  ASSUME RingInv, NEW key \in Ring!Hashes
  PROVE  IF hashRing = <<>> THEN Ring!Assignment[key] = Nobody /\ Range(hashRing) = {}
         ELSE \E h \in Range(hashRing) :
                Nearest(key, Range(hashRing), h) /\ Ring!Assignment[key] = nodeMap[h]
<1>1. CASE hashRing = <<>>
  BY <1>1 DEF Ring!Assignment, Range
<1>2. CASE hashRing # <<>>
  <2>1. Nearest(key, Range(hashRing), hashRing[Ring!Position(hashRing, key) + 1])
    BY <1>2, LookupLands DEF RingInv, RingTypes
  <2>2. Ring!Assignment[key] = nodeMap[hashRing[Ring!Position(hashRing, key) + 1]]
    BY <1>2 DEF Ring!Assignment, Ring!ServerOf
  <2> QED BY <1>2, <2>1, <2>2 DEF Nearest
<1> QED BY <1>1, <1>2

\* The same after a step.
LEMMA AssignedNext ==
  ASSUME hashRing' \in Seq(Ring!Hashes), Ascending(hashRing'), NEW key \in Ring!Hashes
  PROVE  IF hashRing' = <<>> THEN Ring!Assignment'[key] = Nobody /\ Range(hashRing') = {}
         ELSE \E h \in Range(hashRing') :
                Nearest(key, Range(hashRing'), h) /\ Ring!Assignment'[key] = nodeMap'[h]
<1>1. CASE hashRing' = <<>>
  BY <1>1 DEF Ring!Assignment, Range
<1>2. CASE hashRing' # <<>>
  <2>1. Nearest(key, Range(hashRing'), hashRing'[Ring!Position(hashRing', key) + 1])
    BY <1>2, LookupLands
  <2>2. Ring!Assignment'[key] = nodeMap'[hashRing'[Ring!Position(hashRing', key) + 1]]
    BY <1>2 DEF Ring!Assignment, Ring!ServerOf
  <2> QED BY <1>2, <2>1, <2>2 DEF Nearest
<1> QED BY <1>1, <1>2

\* A hash on the ring is a hash.
LEMMA OnRingIsHash ==
  ASSUME NEW ring \in Seq(Ring!Hashes)
  PROVE  Range(ring) \subseteq Ring!Hashes
  BY DEF Range

\* The set of servers changes in AddServer and RemoveServer alone.
LEMMA WhoMoves ==
  ASSUME RingInv, Ring!Next \/ UNCHANGED ringOnly, servers' # servers
  PROVE  Ring!AddServer \/ \E s \in servers : Ring!RemoveServer(s)
  BY DEF Ring!Next, ringOnly, Ring!GetSearches, Ring!GetChecks, Ring!RemoveServer

\* A new server takes keys, and nothing moves between the others (AddServer,
\* against the lookups before and after it).
THEOREM Arrivals == ProgramsSpec => ArrivalsOnlyTake
<1>1. ASSUME RingInv, Ring!Next \/ UNCHANGED ringOnly,
             NEW s \in servers' \ servers, NEW key \in Ring!Hashes
      PROVE  Ring!Assignment'[key] \in {Ring!Assignment[key], s}
  <2>1. Ring!AddServer /\ s = nextId
    <3>1. \A t \in servers : ~Ring!RemoveServer(t)
      BY DEF Ring!RemoveServer
    <3>2. Ring!AddServer
      BY <1>1, <3>1, WhoMoves
    <3> QED BY <3>2 DEF Ring!AddServer
  <2>2. /\ hashRing' \in Seq(Ring!Hashes) /\ Ascending(hashRing')
        /\ Range(hashRing') = Range(hashRing) \cup Ring!HashesOf(s)
    BY <1>1, <2>1, Arrival
  <2>3. \A h \in Ring!Hashes : nodeMap'[h] = IF h \in Ring!HashesOf(s) THEN s ELSE nodeMap[h]
    BY <2>1 DEF Ring!AddServer
  <2>4. Range(hashRing') \subseteq Ring!Hashes /\ Range(hashRing) \subseteq Ring!Hashes
    BY <1>1, <2>2, OnRingIsHash DEF RingInv, RingTypes
  <2>5. CASE hashRing' = <<>>
    <3>1. Range(hashRing) = {} /\ Ring!Assignment'[key] = Nobody
      BY <2>2, <2>5, AssignedNext
    <3> QED BY <1>1, <3>1, Assigned
  <2>6. CASE hashRing' # <<>>
    <3>1. PICK h \in Range(hashRing') :
            Nearest(key, Range(hashRing'), h) /\ Ring!Assignment'[key] = nodeMap'[h]
      BY <2>2, <2>6, AssignedNext
    <3>2. CASE h \in Ring!HashesOf(s)
      BY <2>3, <2>4, <3>1, <3>2
    <3>3. CASE h \notin Ring!HashesOf(s)
      <4>1. h \in Range(hashRing)
        BY <2>2, <3>1, <3>3
      <4>2. PICK g \in Range(hashRing) :
              Nearest(key, Range(hashRing), g) /\ Ring!Assignment[key] = nodeMap[g]
        BY <1>1, <4>1, Assigned
      <4>3. g \in Range(hashRing')
        BY <2>2
      <4>4. g = h
        BY <2>4, <3>1, <4>1, <4>2, <4>3, NearestIsOne
      <4> QED BY <2>3, <2>4, <3>1, <3>3, <4>2, <4>4
    <3> QED BY <3>2, <3>3
  <2> QED BY <2>5, <2>6
<1>2. RingInv /\ [ProgramsNext]_programsVars =>
        [\A s \in servers' \ servers :
           \A key \in Ring!Hashes : Ring!Assignment'[key] \in {Ring!Assignment[key], s}]_Ring!vars
  BY <1>1 DEF ProgramsNext, programsVars
<1> QED BY <1>2, RingInductive, PTL DEF ProgramsSpec, ArrivalsOnlyTake, Ring!ArrivalsOnlyTake

\* Only the keys of a server that goes move, where it shared no hash with one
\* that stays (RemoveServer, against the lookups before and after it).
THEOREM Partings == ProgramsSpec => DeparturesOnlyGive
<1>1. ASSUME RingInv, Ring!Next \/ UNCHANGED ringOnly,
             NEW s \in servers \ servers', NEW key \in Ring!Hashes,
             \A t \in servers' : Ring!HashesOf(s) \cap Ring!HashesOf(t) = {},
             Ring!Assignment[key] # s
      PROVE  Ring!Assignment'[key] = Ring!Assignment[key]
  <2>1. s \in Ring!Ids /\ Ring!RemoveServer(s)
    <3>1. ~Ring!AddServer
      BY DEF Ring!AddServer
    <3>2. PICK t \in servers : Ring!RemoveServer(t)
      BY <1>1, <3>1, WhoMoves
    <3>3. t = s
      BY <3>2 DEF Ring!RemoveServer
    <3> QED BY <1>1, <3>2, <3>3 DEF RingInv, RingTypes
  <2>2. /\ hashRing' \in Seq(Ring!Hashes) /\ Ascending(hashRing')
        /\ Range(hashRing') = Range(hashRing) \ Ring!HashesOf(s)
    BY <1>1, <2>1, Departure
  <2>3. /\ \A h \in Ring!Hashes : nodeMap'[h] = IF h \in Ring!HashesOf(s) THEN Nobody ELSE nodeMap[h]
        /\ servers' = servers \ {s}
    BY <2>1 DEF Ring!RemoveServer
  <2>4. Range(hashRing') \subseteq Ring!Hashes /\ Range(hashRing) \subseteq Ring!Hashes
    BY <1>1, <2>2, OnRingIsHash DEF RingInv, RingTypes
  <2>5. CASE hashRing = <<>>
    <3>1. Range(hashRing) = {} /\ Ring!Assignment[key] = Nobody
      BY <1>1, <2>5, Assigned
    <3>2. hashRing' = <<>> \/ \E h : h \in Range(hashRing')
      BY <2>2, AssignedNext
    <3>3. hashRing' = <<>>
      BY <2>2, <3>1, <3>2
    <3> QED BY <2>2, <3>1, <3>3, AssignedNext
  <2>6. CASE hashRing # <<>>
    <3>1. PICK h \in Range(hashRing) :
            Nearest(key, Range(hashRing), h) /\ Ring!Assignment[key] = nodeMap[h]
      BY <1>1, <2>6, Assigned
    <3>2. nodeMap[h] \in servers' /\ nodeMap[h] # Nobody
      BY <1>1, <2>3, <2>4, <3>1, RingConstants DEF RingInv, RingTypes, RingFits
    <3>3. h \notin Ring!HashesOf(s)
      BY <1>1, <2>4, <3>2 DEF RingInv, RingOwners
    <3>4. h \in Range(hashRing')
      BY <2>2, <3>3
    <3>5. PICK g \in Range(hashRing') :
            Nearest(key, Range(hashRing'), g) /\ Ring!Assignment'[key] = nodeMap'[g]
      <4>1. hashRing' # <<>>
        BY <2>2, <3>4, AssignedNext
      <4> QED BY <2>2, <4>1, AssignedNext
    <3>6. g \in Range(hashRing)
      BY <2>2
    <3>7. g = h
      BY <2>4, <3>1, <3>4, <3>5, <3>6, NearestIsOne
    <3> QED BY <2>3, <2>4, <3>1, <3>3, <3>5, <3>7
  <2> QED BY <2>5, <2>6
<1>2. RingInv /\ [ProgramsNext]_programsVars =>
        [\A s \in servers \ servers' :
           (\A t \in servers' : Ring!HashesOf(s) \cap Ring!HashesOf(t) = {}) =>
             \A key \in Ring!Hashes :
               Ring!Assignment[key] # s => Ring!Assignment'[key] = Ring!Assignment[key]]_Ring!vars
  BY <1>1 DEF ProgramsNext, programsVars
<1> QED BY <1>2, RingInductive, PTL DEF ProgramsSpec, DeparturesOnlyGive, Ring!DeparturesOnlyGive

-----------------------------------------------------------------------------
(* The corpus tools: ranking *)

LEMMA CorpusArranges ==
  \A s, P, R : Corpus!Arranged(s, P, R) = Arranged(s, P, R)
<1>1. \A P, R, k : Corpus!Place(P, R, k) = Place(P, R, k)
  BY DEF Corpus!Place, Place, Corpus!Cardinality, Cardinality
<1> QED BY <1>1 DEF Corpus!Arranged, Arranged, Corpus!Cardinality, Cardinality

\* What main makes of the totals: phrases, none twice, with their numbers.
AreItems(W) ==
  /\ IsFiniteSet(W)
  /\ \A a \in W : a.phrase \in Int /\ a.freq \in Int
  /\ \A a, b \in W : a.phrase = b.phrase => a = b

\* The best of W come out, in their order.
AreBest(out, W) ==
  /\ IsInjective(out) /\ Range(out) \subseteq W
  /\ Len(out) = IF TopN > 0 THEN Corpus!Min2(TopN, Cardinality(W)) ELSE Cardinality(W)
  /\ \A i, j \in DOMAIN out : i < j => Corpus!Precedes(out[i], out[j])
  /\ \A d \in W \ Range(out), e \in Range(out) : Corpus!Precedes(e, d)

LEMMA RankingIsExact ==
  ASSUME TopN \in Nat, NEW W, AreItems(W)
  PROVE  AreBest(Corpus!Ranked(W), W)
<1> DEFINE R == {q \in W \X W : Corpus!Precedes(q[1], q[2])}
           n == Cardinality(W)
           all == [k \in 1..n |-> Place(W, R, k)]
           m == IF TopN > 0 THEN Corpus!Min2(TopN, n) ELSE n
           out == [k \in 1..m |-> all[k]]
<1>1. \A a, b \in W : <<a, b>> \in R <=> a.freq > b.freq \/ (a.freq = b.freq /\ a.phrase < b.phrase)
  BY DEF Corpus!Precedes
<1>2. Orders(R, W)
  <2> HIDE DEF R
  <2>1. \A i \in W : <<i, i>> \notin R
    BY <1>1 DEF AreItems
  <2>2. \A i, j \in W : i # j => <<i, j>> \in R \/ <<j, i>> \in R
    BY <1>1 DEF AreItems
  <2>3. \A i, j, k \in W : <<i, j>> \in R /\ <<j, k>> \in R => <<i, k>> \in R
    BY <1>1 DEF AreItems
  <2> QED BY <2>1, <2>2, <2>3 DEF Orders
<1> HIDE DEF R
<1>3. /\ n \in Nat
      /\ \A k \in 1..n : Place(W, R, k) \in W
      /\ \A i \in W : \E k \in 1..n : Place(W, R, k) = i
      /\ \A k, l \in 1..n : k < l => <<Place(W, R, k), Place(W, R, l)>> \in R
  BY <1>2, PlacesAreTaken DEF AreItems
<1> HIDE DEF n
<1>4. Arranged([d \in W |-> d], W, R) = all
  <2>1. Arranged([d \in W |-> d], W, R) = [k \in 1..n |-> [d \in W |-> d][Place(W, R, k)]]
    BY DEF Arranged, n
  <2>2. \A k \in 1..n : [d \in W |-> d][Place(W, R, k)] = Place(W, R, k)
    BY <1>3
  <2> QED BY <2>1, <2>2
<1>5. all \in Seq(W) /\ Len(all) = n /\ DOMAIN all = 1..n
  BY <1>3
<1>6. \A k, l \in 1..n : k < l => Corpus!Precedes(all[k], all[l])
  <2>1. \A k, l \in 1..n : k < l => <<all[k], all[l]>> \in R
    BY <1>3
  <2>2. \A a, b : <<a, b>> \in R => Corpus!Precedes(a, b)
    BY DEF R
  <2> HIDE DEF all
  <2> QED BY <2>1, <2>2
<1>7. /\ \A k \in 1..n : all[k] \in W
      /\ \A d \in W : \E k \in 1..n : all[k] = d
  BY <1>3
<1>8. \A k, l \in 1..n : all[k] = all[l] => k = l
  <2>1. \A k, l \in 1..n : k < l => <<all[k], all[l]>> \in R
    BY <1>3
  <2> HIDE DEF all
  <2> SUFFICES ASSUME NEW k \in 1..n, NEW l \in 1..n, k # l PROVE all[k] # all[l]
    OBVIOUS
  <2>2. k < l \/ l < k
    BY <1>3
  <2>3. \A i \in W : <<i, i>> \notin R
    BY <1>2 DEF Orders
  <2> QED BY <1>7, <2>1, <2>2, <2>3
<1>9. m \in 0..n /\ m \in Nat
  BY <1>3 DEF Corpus!Min2
<1>10. Corpus!Ranked(W) = out
  <2>1. Corpus!Ranked(W) = IF TopN > 0 THEN SubSeq(all, 1, Corpus!Min2(TopN, n)) ELSE all
    BY <1>4, <1>5, CorpusArranges DEF Corpus!Ranked, R
  <2> HIDE DEF all
  <2>2. CASE TopN > 0
    <3>1. SubSeq(all, 1, m) = out
      BY <1>5, <1>9
    <3> QED BY <2>1, <2>2, <3>1
  <2>3. CASE ~(TopN > 0)
    <3>1. all = out
      BY <1>5, <2>3
    <3> QED BY <2>1, <2>3, <3>1
  <2> QED BY <2>2, <2>3
<1> HIDE DEF all, m
<1>11. DOMAIN out = 1..m /\ Len(out) = m /\ (\A k \in 1..m : out[k] = all[k] /\ k \in 1..n /\ k \in Int)
  BY <1>3, <1>9
<1> HIDE DEF out
<1>12. IsInjective(out)
  BY <1>8, <1>11 DEF IsInjective
<1>13. Range(out) = {all[k] : k \in 1..m}
  BY <1>11 DEF Range
<1>14. Range(out) \subseteq W
  BY <1>7, <1>11, <1>13
<1>15. \A i, j \in DOMAIN out : i < j => Corpus!Precedes(out[i], out[j])
  <2> SUFFICES ASSUME NEW i \in 1..m, NEW j \in 1..m, i < j
               PROVE  Corpus!Precedes(all[i], all[j])
    BY <1>11
  <2> QED BY <1>6, <1>11
<1>16. ASSUME NEW d \in W \ Range(out), NEW e \in Range(out)
       PROVE  Corpus!Precedes(e, d)
  <2>1. PICK l \in 1..n : all[l] = d
    BY <1>7
  <2>2. PICK k \in 1..m : all[k] = e
    BY <1>13
  <2>3. l \notin 1..m
    BY <1>13, <2>1
  <2>4. k < l /\ k \in 1..n
    BY <1>9, <1>11, <2>3
  <2> QED BY <1>6, <2>1, <2>2, <2>4
<1> QED BY <1>10, <1>11, <1>12, <1>14, <1>15, <1>16 DEF AreBest, m, n

LEMMA ImageIsFinite ==
  ASSUME NEW S, IsFiniteSet(S), NEW f
  PROVE  IsFiniteSet({f[x] : x \in S})
<1> DEFINE g == [x \in S |-> f[x]]
           T == {f[x] : x \in S}
<1>1. g \in Surjection(S, T)
  <2>1. g \in [S -> T]
    OBVIOUS
  <2>2. \A y \in T : \E x \in S : g[x] = y
    OBVIOUS
  <2> HIDE DEF g, T
  <2> QED BY <2>1, <2>2 DEF Surjection
<1> QED BY <1>1, FS_Surjection

-----------------------------------------------------------------------------
(* The corpus tools: users *)

RowsOfUser(s, u) == {r \in s : r.user = u}
OtherUsers(s, u) == {r \in s : r.user # u}

QueriesOf(s) == {r.query : r \in s}
AskersIn(s, q) == {r.user : r \in {t \in s : t.query = q}}

\* The votes, all users counted.
VotesOf(s) == [q \in QueriesOf(s) |-> Cardinality(AskersIn(s, q))]

\* The users that were read come before the rows that follow, but for the
\* current one.
UsersInOrder(s, u, key) ==
  /\ key \in Nat /\ u <= key
  /\ \A r \in s : IF u = 0 THEN r.user < key ELSE r.user <= u

AreRowsOfUsers(s) == IsFiniteSet(s) /\ s \in SUBSET [user: Users, query: Phrases]

\* All users are counted but the current one, whose queries are at hand.
AolInv ==
  /\ AreRowsOfUsers(seen)
  /\ group.user \in Users \cup {0}
  /\ group = [user |-> group.user, queries |-> QueriesOf(RowsOfUser(seen, group.user))]
  /\ totals = VotesOf(OtherUsers(seen, group.user))
  /\ UsersInOrder(seen, group.user, last)

LEMMA AskersAreFinite ==
  ASSUME NEW s, IsFiniteSet(s), NEW q
  PROVE  IsFiniteSet(AskersIn(s, q)) /\ Cardinality(AskersIn(s, q)) \in Nat
<1> DEFINE S == {t \in s : t.query = q}
           f == [r \in S |-> r.user]
<1>1. IsFiniteSet(S)
  <2>1. S \in SUBSET s
    OBVIOUS
  <2> QED BY <2>1, FS_Subset
<1>2. IsFiniteSet({f[r] : r \in S})
  <2> HIDE DEF S, f
  <2> QED BY <1>1, ImageIsFinite
<1>3. {f[r] : r \in S} = AskersIn(s, q)
  BY DEF AskersIn
<1> HIDE DEF f, S
<1>4. IsFiniteSet(AskersIn(s, q))
  BY <1>2, <1>3
<1> QED BY <1>4, FS_CardinalityType

\* What a flush makes: with the votes of the current user the count is full.
LEMMA UserIsFlushed ==
  ASSUME AolInv
  PROVE  Corpus!UserFlushed = VotesOf(seen)
<1> DEFINE u == group.user
           Q == group.queries
<1>1. Q = QueriesOf(RowsOfUser(seen, u)) /\ totals = VotesOf(OtherUsers(seen, u)) /\ IsFiniteSet(seen)
  BY DEF AolInv, AreRowsOfUsers
<1>2. DOMAIN totals = QueriesOf(OtherUsers(seen, u))
  BY <1>1 DEF VotesOf
<1>3. DOMAIN totals \cup Q = QueriesOf(seen)
  BY <1>1, <1>2 DEF QueriesOf, RowsOfUser, OtherUsers
<1>4. ASSUME NEW q \in QueriesOf(seen)
      PROVE  Corpus!Votes(q) + (IF q \in Q THEN 1 ELSE 0) = Cardinality(AskersIn(seen, q))
  <2>1. AskersIn(OtherUsers(seen, u), q) = AskersIn(seen, q) \ {u}
    BY DEF AskersIn, OtherUsers
  <2>2. q \in Q <=> u \in AskersIn(seen, q)
    BY <1>1 DEF QueriesOf, RowsOfUser, AskersIn
  <2>3. q \notin DOMAIN totals => AskersIn(seen, q) \ {u} = {}
    BY <1>2, <2>1 DEF QueriesOf, AskersIn
  <2>4. Corpus!Votes(q) = Cardinality(AskersIn(seen, q) \ {u})
    <3>1. CASE q \in DOMAIN totals
      BY <1>1, <1>2, <2>1, <3>1 DEF Corpus!Votes, VotesOf
    <3>2. CASE q \notin DOMAIN totals
      BY <2>3, <3>2, FS_EmptySet DEF Corpus!Votes
    <3> QED BY <3>1, <3>2
  <2>5. IsFiniteSet(AskersIn(seen, q)) /\ Cardinality(AskersIn(seen, q)) \in Nat
    BY <1>1, AskersAreFinite
  <2>6. Cardinality(AskersIn(seen, q) \ {u}) =
          IF u \in AskersIn(seen, q) THEN Cardinality(AskersIn(seen, q)) - 1
          ELSE Cardinality(AskersIn(seen, q))
    BY <2>5, FS_RemoveElement
  <2> HIDE DEF u, Q
  <2> QED BY <2>2, <2>4, <2>5, <2>6
<1> HIDE DEF u
<1>5. Corpus!UserFlushed = [q \in QueriesOf(seen) |-> Corpus!Votes(q) + (IF q \in Q THEN 1 ELSE 0)]
  BY <1>3 DEF Corpus!UserFlushed
<1> HIDE DEF Q
<1> QED BY <1>4, <1>5 DEF VotesOf

LEMMA AolRowKeeps ==
  ASSUME Corpus!CorpusAssumption, AolInv, NEW w \in Users, NEW query \in Phrases,
         Corpus!AolRow(w, query)
  PROVE  AolInv'
<1> DEFINE u == group.user
           row == [user |-> w, query |-> query]
<1>1. /\ Users \subseteq Nat \ {0} /\ w \in Nat /\ w # 0
      /\ last \in Nat /\ w >= last /\ last' = w /\ seen' = seen \cup {row}
  BY DEF Corpus!CorpusAssumption, Corpus!AolRow, AolInv, UsersInOrder
<1>2. AreRowsOfUsers(seen')
  <2>1. IsFiniteSet(seen \cup {row})
    BY FS_AddElement DEF AolInv, AreRowsOfUsers
  <2>2. seen \cup {row} \in SUBSET [user: Users, query: Phrases]
    BY DEF AolInv, AreRowsOfUsers
  <2> QED BY <1>1, <2>1, <2>2 DEF AreRowsOfUsers
<1>3. \A r \in seen : r.user \in Nat \ {0}
  BY <1>1 DEF AolInv, AreRowsOfUsers
<1>4. u \in Nat
  BY <1>1 DEF AolInv
<1>5. CASE w # u
  <2>1. group' = [user |-> w, queries |-> {query}] /\ totals' = VotesOf(seen)
    BY <1>5, UserIsFlushed DEF Corpus!AolRow
  <2>2. \A r \in seen : r.user < w
    BY <1>1, <1>3, <1>4, <1>5 DEF AolInv, UsersInOrder
  <2>3. \A r \in seen : r.user # w
    BY <1>1, <1>3, <2>2
  <2>4. RowsOfUser(seen', w) = {row} /\ OtherUsers(seen', w) = seen
    BY <1>1, <2>3 DEF RowsOfUser, OtherUsers
  <2>5. QueriesOf({row}) = {query}
    BY DEF QueriesOf
  <2>6. group'.user = w /\ group'.queries = {query}
    BY <2>1
  <2>7. UsersInOrder(seen', w, last')
    BY <1>1, <1>3, <2>2 DEF UsersInOrder
  <2> HIDE DEF row, u
  <2> QED BY <1>2, <2>1, <2>4, <2>5, <2>6, <2>7 DEF AolInv
<1>6. CASE w = u
  <2>1. group' = [group EXCEPT !.queries = @ \cup {query}] /\ totals' = totals
    BY <1>6 DEF Corpus!AolRow
  <2>2. group' = [user |-> w, queries |-> QueriesOf(RowsOfUser(seen, w)) \cup {query}]
    <3>1. group = [user |-> w, queries |-> QueriesOf(RowsOfUser(seen, w))]
      BY <1>6 DEF AolInv
    <3> QED BY <2>1, <3>1
  <2>3. RowsOfUser(seen', w) = RowsOfUser(seen, w) \cup {row} /\ OtherUsers(seen', w) = OtherUsers(seen, w)
    BY <1>1 DEF RowsOfUser, OtherUsers
  <2>4. QueriesOf(RowsOfUser(seen, w) \cup {row}) = QueriesOf(RowsOfUser(seen, w)) \cup {query}
    <3>1. row.query = query
      OBVIOUS
    <3> HIDE DEF row
    <3> QED BY <3>1 DEF QueriesOf
  <2>5. group'.user = w
    BY <2>2
  <2>6. totals' = VotesOf(OtherUsers(seen', w))
    BY <1>6, <2>1, <2>3 DEF AolInv
  <2>7. UsersInOrder(seen', w, last')
    BY <1>1, <1>3, <1>6 DEF UsersInOrder, AolInv
  <2> HIDE DEF row, u
  <2> QED BY <1>2, <2>2, <2>3, <2>4, <2>5, <2>6, <2>7 DEF AolInv
<1> QED BY <1>5, <1>6

LEMMA AolNextFileKeeps ==
  ASSUME Corpus!CorpusAssumption, AolInv, Corpus!AolNextFile
  PROVE  AolInv'
<1>1. /\ Users \subseteq Nat \ {0} /\ last \in Nat /\ last' = last + 1 /\ seen' = seen
      /\ group' = [user |-> 0, queries |-> {}] /\ totals' = VotesOf(seen)
  BY UserIsFlushed
     DEF Corpus!CorpusAssumption, Corpus!AolNextFile, AolInv, UsersInOrder, Corpus!NoUser, Corpus!Nothing
<1>2. \A r \in seen : r.user \in Nat \ {0}
  BY <1>1 DEF AolInv, AreRowsOfUsers
<1>3. RowsOfUser(seen, 0) = {} /\ OtherUsers(seen, 0) = seen
  BY <1>2 DEF RowsOfUser, OtherUsers
<1>4. QueriesOf({}) = {}
  BY DEF QueriesOf
<1>5. group.user \in Nat
  BY <1>1 DEF AolInv
<1>6. \A r \in seen : r.user < last + 1
  BY <1>1, <1>2, <1>5 DEF AolInv, UsersInOrder
<1>7. UsersInOrder(seen', 0, last')
  BY <1>1, <1>6 DEF UsersInOrder
<1>8. group'.user = 0
  BY <1>1
<1> QED BY <1>1, <1>3, <1>4, <1>7, <1>8 DEF AolInv

LEMMA AolPassOverKeeps ==
  ASSUME Corpus!CorpusAssumption, AolInv, NEW key \in Users, Corpus!PassOver(key)
  PROVE  AolInv'
<1>1. /\ Users \subseteq Nat \ {0} /\ last \in Nat /\ last' = key /\ key >= last /\ key \in Nat
      /\ seen' = seen /\ group' = group /\ totals' = totals
  BY DEF Corpus!CorpusAssumption, Corpus!PassOver, AolInv, UsersInOrder
<1>2. group.user \in Nat /\ \A r \in seen : r.user \in Nat
  BY <1>1 DEF AolInv, AreRowsOfUsers
<1>3. UsersInOrder(seen', group'.user, last')
  BY <1>1, <1>2 DEF UsersInOrder, AolInv
<1> QED BY <1>1, <1>3 DEF AolInv

\* What main makes of the votes is what is wanted.
LEMMA AolItemsAreWanted ==
  ASSUME Corpus!CorpusAssumption, AreRowsOfUsers(seen), tool = "aol"
  PROVE  Corpus!AolItems(VotesOf(seen)) = Corpus!Wanted /\ AreItems(Corpus!Wanted)
<1> DEFINE Q == {q \in QueriesOf(seen) : Cardinality(AskersIn(seen, q)) >= MinFreq}
           f == [q \in Q |-> [phrase |-> q, freq |-> Cardinality(AskersIn(seen, q))]]
           W == {f[q] : q \in Q}
<1>1. \A q : Corpus!Askers(q) = AskersIn(seen, q)
  BY DEF Corpus!Askers, AskersIn
<1>2. \A q : Corpus!Cardinality(AskersIn(seen, q)) = Cardinality(AskersIn(seen, q))
  BY DEF Corpus!Cardinality, Cardinality
<1>3. {q \in Phrases : AskersIn(seen, q) # {} /\ Cardinality(AskersIn(seen, q)) >= MinFreq} = Q
  BY DEF AreRowsOfUsers, AskersIn, QueriesOf
<1>4. Corpus!Wanted = W
  <2>1. Corpus!Wanted = {[phrase |-> q, freq |-> Cardinality(AskersIn(seen, q))] :
          q \in {r \in Phrases : AskersIn(seen, r) # {} /\ Cardinality(AskersIn(seen, r)) >= MinFreq}}
    BY <1>1, <1>2 DEF Corpus!Wanted
  <2> QED BY <1>3, <2>1
<1>5. Corpus!AolItems(VotesOf(seen)) = W
  BY DEF Corpus!AolItems, VotesOf
<1>6. IsFiniteSet(Q)
  <2> DEFINE g == [r \in seen |-> r.query]
  <2>1. IsFiniteSet({g[r] : r \in seen})
    BY ImageIsFinite DEF AreRowsOfUsers
  <2>2. {g[r] : r \in seen} = QueriesOf(seen)
    BY DEF QueriesOf
  <2>3. Q \in SUBSET QueriesOf(seen)
    OBVIOUS
  <2> HIDE DEF g, Q
  <2> QED BY <2>1, <2>2, <2>3, FS_Subset
<1>7. AreItems(W)
  <2>1. IsFiniteSet(W)
    <3> HIDE DEF f, Q
    <3> QED BY <1>6, ImageIsFinite
  <2>2. \A q \in Q : q \in Int /\ Cardinality(AskersIn(seen, q)) \in Int
    <3>1. \A q \in Q : q \in Int
      <4>1. \A q \in QueriesOf(seen) : q \in Phrases
        BY DEF QueriesOf, AreRowsOfUsers
      <4>2. \A p \in Phrases : p \in Int
        BY DEF Corpus!CorpusAssumption
      <4> QED BY <4>1, <4>2
    <3>2. \A q : Cardinality(AskersIn(seen, q)) \in Nat
      BY AskersAreFinite DEF AreRowsOfUsers
    <3> HIDE DEF Q
    <3> QED BY <3>1, <3>2
  <2>3. \A q \in Q : f[q].phrase = q /\ f[q].freq = Cardinality(AskersIn(seen, q))
    OBVIOUS
  <2> HIDE DEF f, Q
  <2> QED BY <2>1, <2>2, <2>3 DEF AreItems
<1> QED BY <1>4, <1>5, <1>7

-----------------------------------------------------------------------------
(* The corpus tools: ngrams *)

\* Each of s as often as w says.
Copies(s, w) == UNION {{r} \X (1..w[r]) : r \in s}

LEMMA OneMoreIsCopied ==
  ASSUME NEW s, NEW r, r \notin s, NEW w, w[r] \in Nat, IsFiniteSet(Copies(s, w))
  PROVE  /\ IsFiniteSet(Copies(s \cup {r}, w))
         /\ Cardinality(Copies(s \cup {r}, w)) = Cardinality(Copies(s, w)) + w[r]
<1> DEFINE A == Copies(s, w)
           B == {r} \X (1..w[r])
<1>1. Copies(s \cup {r}, w) = A \cup B
  BY DEF Copies
<1>2. A \cap B = {}
  BY DEF Copies
<1>3. IsFiniteSet(B) /\ Cardinality(B) = w[r]
  <2>1. IsFiniteSet({r}) /\ Cardinality({r}) = 1
    BY FS_Singleton
  <2>2. \A n \in Nat : IsFiniteSet(1..n) /\ Cardinality(1..n) = n
    BY FS_Interval
  <2>3. IsFiniteSet(1..w[r]) /\ Cardinality(1..w[r]) = w[r]
    BY <2>2
  <2>4. \A S, T : IsFiniteSet(S) /\ IsFiniteSet(T) =>
          IsFiniteSet(S \X T) /\ Cardinality(S \X T) = Cardinality(S) * Cardinality(T)
    BY FS_Product
  <2>5. /\ IsFiniteSet({r} \X (1..w[r]))
        /\ Cardinality({r} \X (1..w[r])) = Cardinality({r}) * Cardinality(1..w[r])
    BY <2>1, <2>3, <2>4, Zenon
  <2>6. Cardinality(B) = 1 * w[r]
    BY <2>1, <2>3, <2>5, Zenon
  <2> QED BY <2>5, <2>6
<1> HIDE DEF A, B
<1>4. IsFiniteSet(A \cup B) /\ Cardinality(A \cup B) = Cardinality(A) + Cardinality(B) - Cardinality(A \cap B)
  BY <1>3, FS_Union DEF A
<1>5. Cardinality(A \cap B) = 0
  BY <1>2, FS_EmptySet
<1>6. Cardinality(A) \in Nat
  BY FS_CardinalityType DEF A
<1>7. IsFiniteSet(A \cup B) /\ Cardinality(A \cup B) = Cardinality(A) + w[r]
  BY <1>3, <1>4, <1>5, <1>6
<1> QED BY <1>1, <1>7 DEF A

RowsIn(s, p) == {r \in s : r.phrase = p}
OtherNgrams(s, p) == {r \in s : r.phrase # p}

TotalIn(s, p) == [match |-> Cardinality(Corpus!Matches(RowsIn(s, p))),
                  vol |-> Cardinality(Corpus!Volumes(RowsIn(s, p)))]

\* The totals, all ngrams counted.
EnoughIn(s) == {p \in Kept : RowsIn(s, p) # {} /\ Corpus!Enough(TotalIn(s, p))}
TotalsOf(s) == [p \in EnoughIn(s) |-> TotalIn(s, p)]

NgramsInOrder(s, p, key) ==
  /\ key \in Nat /\ p <= key
  /\ \A r \in s : IF p = 0 THEN r.phrase < key ELSE r.phrase <= p

AreRowsOfNgrams(s, n) ==
  /\ n \in Nat /\ IsFiniteSet(s) /\ IsFiniteSet(Corpus!Matches(s)) /\ IsFiniteSet(Corpus!Volumes(s))
  /\ s \in SUBSET [phrase: Phrases, row: Nat, match: Nat, vol: Nat]
  /\ \A r \in s : r.row < n

\* All ngrams are counted but the current one, whose rows are added up.
NgramInv ==
  /\ AreRowsOfNgrams(seen, rows)
  /\ group.phrase \in Phrases \cup {0}
  /\ group.phrase # 0 => RowsIn(seen, group.phrase) # {}
  /\ group = [phrase |-> group.phrase, match |-> TotalIn(seen, group.phrase).match,
              vol |-> TotalIn(seen, group.phrase).vol]
  /\ totals = TotalsOf(OtherNgrams(seen, group.phrase))
  /\ NgramsInOrder(seen, group.phrase, last)

LEMMA OneMoreRow ==
  ASSUME NEW s, NEW r, r \notin s, r.match \in Nat, r.vol \in Nat,
         IsFiniteSet(Corpus!Matches(s)), IsFiniteSet(Corpus!Volumes(s))
  PROVE  /\ IsFiniteSet(Corpus!Matches(s \cup {r})) /\ IsFiniteSet(Corpus!Volumes(s \cup {r}))
         /\ Cardinality(Corpus!Matches(s \cup {r})) = Cardinality(Corpus!Matches(s)) + r.match
         /\ Cardinality(Corpus!Volumes(s \cup {r})) = Cardinality(Corpus!Volumes(s)) + r.vol
<1> DEFINE m == [x \in s \cup {r} |-> x.match]
           v == [x \in s \cup {r} |-> x.vol]
<1>1. \A x \in s \cup {r} : m[x] = x.match /\ v[x] = x.vol
  OBVIOUS
<1> HIDE DEF m, v
<1>2. Corpus!Matches(s) = Copies(s, m) /\ Corpus!Matches(s \cup {r}) = Copies(s \cup {r}, m)
  BY <1>1 DEF Corpus!Matches, Copies
<1>3. Corpus!Volumes(s) = Copies(s, v) /\ Corpus!Volumes(s \cup {r}) = Copies(s \cup {r}, v)
  BY <1>1 DEF Corpus!Volumes, Copies
<1>4. m[r] = r.match /\ v[r] = r.vol
  BY <1>1
<1> QED BY <1>2, <1>3, <1>4, OneMoreIsCopied

LEMMA NoRowsNoTotal ==
  Cardinality(Corpus!Matches({})) = 0 /\ Cardinality(Corpus!Volumes({})) = 0
<1>1. Corpus!Matches({}) = {} /\ Corpus!Volumes({}) = {}
  BY DEF Corpus!Matches, Corpus!Volumes
<1> QED BY <1>1, FS_EmptySet

LEMMA TotalsAreNumbers ==
  ASSUME NEW s, NEW n, AreRowsOfNgrams(s, n), NEW p
  PROVE  /\ TotalIn(s, p).match \in Nat /\ TotalIn(s, p).vol \in Nat
         /\ IsFiniteSet(Corpus!Matches(RowsIn(s, p))) /\ IsFiniteSet(Corpus!Volumes(RowsIn(s, p)))
<1>1. Corpus!Matches(RowsIn(s, p)) \in SUBSET Corpus!Matches(s)
  BY DEF Corpus!Matches, RowsIn
<1>2. Corpus!Volumes(RowsIn(s, p)) \in SUBSET Corpus!Volumes(s)
  BY DEF Corpus!Volumes, RowsIn
<1>3. IsFiniteSet(Corpus!Matches(RowsIn(s, p))) /\ IsFiniteSet(Corpus!Volumes(RowsIn(s, p)))
  BY <1>1, <1>2, FS_Subset DEF AreRowsOfNgrams
<1>4. /\ Cardinality(Corpus!Matches(RowsIn(s, p))) \in Nat
      /\ Cardinality(Corpus!Volumes(RowsIn(s, p))) \in Nat
  BY <1>3, FS_CardinalityType
<1> QED BY <1>3, <1>4 DEF TotalIn

\* What a flush makes: with the current ngram the count is full.
LEMMA NgramIsFlushed ==
  ASSUME Corpus!CorpusAssumption, NgramInv
  PROVE  Corpus!NgramFlushed = TotalsOf(seen)
<1> DEFINE g == group.phrase
           others == OtherNgrams(seen, g)
           total == TotalIn(seen, g)
<1>1. /\ totals = TotalsOf(others) /\ (g # 0 => RowsIn(seen, g) # {})
      /\ group.match = total.match /\ group.vol = total.vol
      /\ total = [match |-> total.match, vol |-> total.vol]
  BY DEF NgramInv, TotalIn
<1>2. total.match \in Nat /\ total.vol \in Nat
  BY TotalsAreNumbers DEF NgramInv
<1>3. \A p : p # g => RowsIn(others, p) = RowsIn(seen, p)
  BY DEF RowsIn, OtherNgrams
<1>4. RowsIn(others, g) = {}
  BY DEF RowsIn, OtherNgrams
<1>5. \A p : p # g => TotalIn(others, p) = TotalIn(seen, p)
  BY <1>3 DEF TotalIn
<1>6. EnoughIn(others) = EnoughIn(seen) \ {g}
  BY <1>3, <1>4, <1>5 DEF EnoughIn
<1>7. Corpus!Enough(group) <=> Corpus!Enough(total)
  BY <1>1 DEF Corpus!Enough
<1>8. g \in EnoughIn(seen) <=> g \in Kept /\ Corpus!Enough(group)
  <2>1. 0 \notin Kept
    BY DEF Corpus!CorpusAssumption
  <2> HIDE DEF g
  <2> QED BY <1>1, <1>7, <2>1 DEF EnoughIn, total
<1>9. g \notin DOMAIN totals
  BY <1>1, <1>6 DEF TotalsOf
<1> HIDE DEF others, total
<1>10. CASE g \in Kept /\ Corpus!Enough(group)
  <2>1. Corpus!NgramFlushed = Corpus!Into(totals, g, [match |-> 0 + total.match, vol |-> 0 + total.vol])
    BY <1>1, <1>9, <1>10 DEF Corpus!NgramFlushed
  <2>2. [match |-> 0 + total.match, vol |-> 0 + total.vol] = total
    BY <1>1, <1>2
  <2>3. DOMAIN totals \cup {g} = EnoughIn(seen)
    BY <1>1, <1>6, <1>8, <1>10 DEF TotalsOf
  <2>4. Corpus!Into(totals, g, total) = [p \in EnoughIn(seen) |-> IF p = g THEN total ELSE totals[p]]
    BY <2>3 DEF Corpus!Into
  <2>5. \A p \in EnoughIn(seen) : (IF p = g THEN total ELSE totals[p]) = TotalIn(seen, p)
    BY <1>1, <1>5, <1>6 DEF TotalsOf, total
  <2> HIDE DEF g
  <2> QED BY <2>1, <2>2, <2>4, <2>5 DEF TotalsOf
<1>11. CASE ~(g \in Kept /\ Corpus!Enough(group))
  <2>1. Corpus!NgramFlushed = totals
    BY <1>11 DEF Corpus!NgramFlushed
  <2>2. EnoughIn(others) = EnoughIn(seen)
    BY <1>6, <1>8, <1>11
  <2>3. \A p \in EnoughIn(seen) : TotalIn(others, p) = TotalIn(seen, p)
    BY <1>5, <1>6, <2>2
  <2> QED BY <1>1, <2>1, <2>2, <2>3 DEF TotalsOf
<1> QED BY <1>10, <1>11

LEMMA NgramRowKeeps ==
  ASSUME Corpus!CorpusAssumption, NgramInv, NEW w \in Phrases, NEW count \in Counts,
         Corpus!NgramRow(w, count)
  PROVE  NgramInv'
<1> DEFINE g == group.phrase
           row == [phrase |-> w, row |-> rows, match |-> count.match, vol |-> count.vol]
<1>1. /\ Phrases \subseteq Nat \ {0} /\ w \in Nat /\ w # 0
      /\ last \in Nat /\ w >= last /\ last' = w /\ seen' = seen \cup {row}
      /\ rows \in Nat /\ rows' = rows + 1
  BY DEF Corpus!CorpusAssumption, Corpus!NgramRow, NgramInv, NgramsInOrder, AreRowsOfNgrams
<1>2. count.match \in Nat /\ count.vol \in Nat
  BY DEF Corpus!CorpusAssumption
<1>3. /\ row.phrase = w /\ row.row = rows /\ row.match = count.match /\ row.vol = count.vol
      /\ row \in [phrase: Phrases, row: Nat, match: Nat, vol: Nat]
  BY <1>1, <1>2
<1>4. row \notin seen
  <2> HIDE DEF row
  <2> QED BY <1>1, <1>3 DEF NgramInv, AreRowsOfNgrams
<1>5. \A r \in seen : r.phrase \in Nat \ {0} /\ r.row \in Nat
  BY <1>1 DEF NgramInv, AreRowsOfNgrams
<1>6. g \in Nat
  BY <1>1 DEF NgramInv
<1> HIDE DEF row
<1>7. AreRowsOfNgrams(seen', rows')
  <2>1. IsFiniteSet(seen \cup {row})
    BY FS_AddElement DEF NgramInv, AreRowsOfNgrams
  <2>2. IsFiniteSet(Corpus!Matches(seen \cup {row})) /\ IsFiniteSet(Corpus!Volumes(seen \cup {row}))
    BY <1>2, <1>3, <1>4, OneMoreRow DEF NgramInv, AreRowsOfNgrams
  <2>3. seen \cup {row} \in SUBSET [phrase: Phrases, row: Nat, match: Nat, vol: Nat]
    BY <1>3 DEF NgramInv, AreRowsOfNgrams
  <2>4. \A r \in seen \cup {row} : r.row < rows + 1
    BY <1>1, <1>3, <1>5 DEF NgramInv, AreRowsOfNgrams
  <2> QED BY <1>1, <2>1, <2>2, <2>3, <2>4 DEF AreRowsOfNgrams
<1>8. RowsIn(seen', w) = RowsIn(seen, w) \cup {row} /\ OtherNgrams(seen', w) = OtherNgrams(seen, w)
  BY <1>1, <1>3 DEF RowsIn, OtherNgrams
<1>9. /\ TotalIn(seen', w).match = TotalIn(seen, w).match + count.match
      /\ TotalIn(seen', w).vol = TotalIn(seen, w).vol + count.vol
  <2>1. row \notin RowsIn(seen, w)
    BY <1>4 DEF RowsIn
  <2>2. IsFiniteSet(Corpus!Matches(RowsIn(seen, w))) /\ IsFiniteSet(Corpus!Volumes(RowsIn(seen, w)))
    BY TotalsAreNumbers DEF NgramInv
  <2> QED BY <1>2, <1>3, <1>8, <2>1, <2>2, OneMoreRow DEF TotalIn
<1>10. CASE w # g
  <2>1. group' = [phrase |-> w, match |-> count.match, vol |-> count.vol] /\ totals' = TotalsOf(seen)
    BY <1>10, NgramIsFlushed DEF Corpus!NgramRow
  <2>2. \A r \in seen : r.phrase < w
    BY <1>1, <1>5, <1>6, <1>10 DEF NgramInv, NgramsInOrder
  <2>3. \A r \in seen : r.phrase # w
    BY <1>1, <1>5, <2>2
  <2>4. RowsIn(seen, w) = {} /\ OtherNgrams(seen', w) = seen
    BY <1>8, <2>3 DEF RowsIn, OtherNgrams
  <2>5. TotalIn(seen', w).match = count.match /\ TotalIn(seen', w).vol = count.vol
    BY <1>2, <1>9, <2>4, NoRowsNoTotal DEF TotalIn
  <2>6. group'.phrase = w
    BY <2>1
  <2>7. NgramsInOrder(seen', w, last')
    BY <1>1, <1>3, <1>5, <2>2 DEF NgramsInOrder
  <2> HIDE DEF g
  <2> QED BY <1>7, <1>8, <2>1, <2>4, <2>5, <2>6, <2>7 DEF NgramInv
<1>11. CASE w = g
  <2>1. group' = [group EXCEPT !.match = @ + count.match, !.vol = @ + count.vol] /\ totals' = totals
    BY <1>11 DEF Corpus!NgramRow
  <2>2. group' = [phrase |-> w, match |-> TotalIn(seen', w).match, vol |-> TotalIn(seen', w).vol]
    <3>1. group = [phrase |-> w, match |-> TotalIn(seen, w).match, vol |-> TotalIn(seen, w).vol]
      BY <1>11 DEF NgramInv
    <3> QED BY <1>9, <2>1, <3>1
  <2>3. group'.phrase = w
    BY <2>2
  <2>4. totals' = TotalsOf(OtherNgrams(seen', w))
    BY <1>8, <1>11, <2>1 DEF NgramInv
  <2>5. NgramsInOrder(seen', w, last')
    BY <1>1, <1>3, <1>5, <1>11 DEF NgramsInOrder, NgramInv
  <2> HIDE DEF g
  <2> QED BY <1>7, <1>8, <2>2, <2>3, <2>4, <2>5 DEF NgramInv
<1> QED BY <1>10, <1>11

LEMMA NgramNextFileKeeps ==
  ASSUME Corpus!CorpusAssumption, NgramInv, Corpus!NgramNextFile
  PROVE  NgramInv'
<1>1. /\ Phrases \subseteq Nat \ {0} /\ last \in Nat /\ last' = last + 1
      /\ seen' = seen /\ rows' = rows
      /\ group' = [phrase |-> 0, match |-> 0, vol |-> 0] /\ totals' = TotalsOf(seen)
  BY NgramIsFlushed
     DEF Corpus!CorpusAssumption, Corpus!NgramNextFile, NgramInv, NgramsInOrder, Corpus!NoNgram, Corpus!Nothing
<1>2. \A r \in seen : r.phrase \in Nat \ {0}
  BY <1>1 DEF NgramInv, AreRowsOfNgrams
<1>3. RowsIn(seen, 0) = {} /\ OtherNgrams(seen, 0) = seen
  BY <1>2 DEF RowsIn, OtherNgrams
<1>4. TotalIn(seen, 0).match = 0 /\ TotalIn(seen, 0).vol = 0
  BY <1>3, NoRowsNoTotal DEF TotalIn
<1>5. group.phrase \in Nat
  BY <1>1 DEF NgramInv
<1>6. \A r \in seen : r.phrase < last + 1
  BY <1>1, <1>2, <1>5 DEF NgramInv, NgramsInOrder
<1>7. NgramsInOrder(seen', 0, last')
  BY <1>1, <1>6 DEF NgramsInOrder
<1>8. group'.phrase = 0
  BY <1>1
<1>9. AreRowsOfNgrams(seen', rows')
  BY <1>1 DEF NgramInv
<1> QED BY <1>1, <1>3, <1>4, <1>7, <1>8, <1>9 DEF NgramInv

LEMMA NgramPassOverKeeps ==
  ASSUME Corpus!CorpusAssumption, NgramInv, NEW key \in Phrases, Corpus!PassOver(key)
  PROVE  NgramInv'
<1>1. /\ Phrases \subseteq Nat \ {0} /\ last \in Nat /\ last' = key /\ key >= last /\ key \in Nat
      /\ rows \in Nat /\ rows' = rows + 1
      /\ seen' = seen /\ group' = group /\ totals' = totals
  BY DEF Corpus!CorpusAssumption, Corpus!PassOver, NgramInv, NgramsInOrder, AreRowsOfNgrams
<1>2. group.phrase \in Nat /\ \A r \in seen : r.phrase \in Nat /\ r.row \in Nat
  BY <1>1 DEF NgramInv, AreRowsOfNgrams
<1>3. NgramsInOrder(seen', group'.phrase, last')
  BY <1>1, <1>2 DEF NgramsInOrder, NgramInv
<1>4. AreRowsOfNgrams(seen', rows')
  BY <1>1, <1>2 DEF NgramInv, AreRowsOfNgrams
<1> QED BY <1>1, <1>3, <1>4 DEF NgramInv

\* `scoreAndFilter' rounds to an integer.
ScoresAreIntegers == \A m, v \in Nat : Score([match |-> m, vol |-> v]) \in Int

LEMMA NgramItemsAreWanted ==
  ASSUME Corpus!CorpusAssumption, ScoresAreIntegers, NEW n, AreRowsOfNgrams(seen, n), tool = "ngrams"
  PROVE  Corpus!NgramItems(TotalsOf(seen)) = Corpus!Wanted /\ AreItems(Corpus!Wanted)
<1> DEFINE Q == {p \in EnoughIn(seen) : TotalIn(seen, p).vol > 0}
           f == [p \in Q |-> [phrase |-> p, freq |-> Score(TotalIn(seen, p))]]
           W == {f[p] : p \in Q}
<1>1. \A p : Corpus!RowsOf(p) = RowsIn(seen, p)
  BY DEF Corpus!RowsOf, RowsIn
<1>2. \A p : Corpus!Total(p) = TotalIn(seen, p)
  BY <1>1 DEF Corpus!Total, TotalIn, Corpus!Cardinality, Cardinality
<1>3. {p \in Kept : RowsIn(seen, p) # {} /\ TotalIn(seen, p).vol > 0 /\ Corpus!Enough(TotalIn(seen, p))} = Q
  BY DEF EnoughIn
<1>4. Corpus!Wanted = W
  <2>1. Corpus!Wanted = {[phrase |-> p, freq |-> Score(TotalIn(seen, p))] :
          p \in {r \in Kept : RowsIn(seen, r) # {} /\ TotalIn(seen, r).vol > 0 /\ Corpus!Enough(TotalIn(seen, r))}}
    BY <1>1, <1>2 DEF Corpus!Wanted
  <2> QED BY <1>3, <2>1
<1>5. Corpus!NgramItems(TotalsOf(seen)) = W
  <2>1. DOMAIN TotalsOf(seen) = EnoughIn(seen) /\ \A p \in EnoughIn(seen) : TotalsOf(seen)[p] = TotalIn(seen, p)
    BY DEF TotalsOf
  <2>2. \A p \in EnoughIn(seen) : Corpus!Enough(TotalIn(seen, p))
    BY DEF EnoughIn
  <2>3. {r \in DOMAIN TotalsOf(seen) : Corpus!Enough(TotalsOf(seen)[r]) /\ TotalsOf(seen)[r].vol > 0} = Q
    BY <2>1, <2>2
  <2>4. Corpus!NgramItems(TotalsOf(seen)) = {[phrase |-> p, freq |-> Score(TotalsOf(seen)[p])] : p \in Q}
    BY <2>3 DEF Corpus!NgramItems
  <2>5. \A p \in Q : TotalsOf(seen)[p] = TotalIn(seen, p)
    BY <2>1
  <2> HIDE DEF Q
  <2> QED BY <2>4, <2>5
<1>6. IsFiniteSet(Q)
  <2> DEFINE h == [r \in seen |-> r.phrase]
             H == {h[r] : r \in seen}
  <2>1. IsFiniteSet(H)
    BY ImageIsFinite DEF AreRowsOfNgrams
  <2>2. \A p \in EnoughIn(seen) : \E r \in seen : h[r] = p
    BY DEF EnoughIn, RowsIn
  <2> HIDE DEF h
  <2>3. Q \in SUBSET H
    BY <2>2
  <2> HIDE DEF Q, H
  <2> QED BY <2>1, <2>3, FS_Subset
<1>7. AreItems(W)
  <2>1. IsFiniteSet(W)
    <3> HIDE DEF f, Q
    <3> QED BY <1>6, ImageIsFinite
  <2>2. \A p \in Q : p \in Int
    BY DEF EnoughIn, Corpus!CorpusAssumption
  <2>3. \A p : Score(TotalIn(seen, p)) \in Int
    <3>1. \A p : /\ TotalIn(seen, p) = [match |-> TotalIn(seen, p).match, vol |-> TotalIn(seen, p).vol]
                 /\ TotalIn(seen, p).match \in Nat /\ TotalIn(seen, p).vol \in Nat
      BY TotalsAreNumbers DEF TotalIn
    <3> QED BY <3>1 DEF ScoresAreIntegers
  <2>4. \A p \in Q : f[p].phrase = p /\ f[p].freq = Score(TotalIn(seen, p))
    OBVIOUS
  <2> HIDE DEF f, Q
  <2> QED BY <2>1, <2>2, <2>3, <2>4 DEF AreItems
<1> QED BY <1>4, <1>5, <1>7

-----------------------------------------------------------------------------
(* The corpus tools: the output *)

CorpusInv ==
  /\ tool \in {"aol", "ngrams"} /\ done \in BOOLEAN
  /\ (~done /\ tool = "aol") => AolInv
  /\ (~done /\ tool = "ngrams") => NgramInv
  /\ done => AreBest(written, Corpus!Wanted)

LEMMA CorpusStarts ==
  ASSUME Corpus!CorpusAssumption, Corpus!CorpusInit
  PROVE  CorpusInv
<1>1. /\ tool \in {"aol", "ngrams"} /\ rows = 0 /\ last = 0 /\ totals = <<>> /\ ~done /\ done \in BOOLEAN
      /\ seen = {}
      /\ group = IF tool = "aol" THEN [user |-> 0, queries |-> {}]
                 ELSE [phrase |-> 0, match |-> 0, vol |-> 0]
  BY DEF Corpus!CorpusInit, Corpus!Nothing, Corpus!NoUser, Corpus!NoNgram
<1>2. CASE tool = "aol"
  <2>1. group = [user |-> 0, queries |-> {}] /\ group.user = 0
    BY <1>1, <1>2
  <2>2. RowsOfUser(seen, 0) = {} /\ OtherUsers(seen, 0) = {} /\ QueriesOf({}) = {}
    BY <1>1 DEF RowsOfUser, OtherUsers, QueriesOf
  <2>3. VotesOf({}) = <<>>
    BY <2>2 DEF VotesOf
  <2>4. AreRowsOfUsers(seen)
    BY <1>1, FS_EmptySet DEF AreRowsOfUsers
  <2>5. UsersInOrder(seen, 0, last)
    BY <1>1 DEF UsersInOrder
  <2>6. AolInv
    BY <1>1, <2>1, <2>2, <2>3, <2>4, <2>5 DEF AolInv
  <2> QED BY <1>1, <1>2, <2>6 DEF CorpusInv
<1>3. CASE tool = "ngrams"
  <2>1. group = [phrase |-> 0, match |-> 0, vol |-> 0] /\ group.phrase = 0
    BY <1>1, <1>3
  <2>2. RowsIn(seen, 0) = {} /\ OtherNgrams(seen, 0) = {} /\ EnoughIn({}) = {}
    BY <1>1 DEF RowsIn, OtherNgrams, EnoughIn
  <2>3. TotalsOf({}) = <<>>
    BY <2>2 DEF TotalsOf
  <2>4. TotalIn(seen, 0).match = 0 /\ TotalIn(seen, 0).vol = 0
    BY <2>2, NoRowsNoTotal DEF TotalIn
  <2>5. AreRowsOfNgrams(seen, rows)
    <3>1. Corpus!Matches({}) = {} /\ Corpus!Volumes({}) = {}
      BY DEF Corpus!Matches, Corpus!Volumes
    <3> QED BY <1>1, <3>1, FS_EmptySet DEF AreRowsOfNgrams
  <2>6. NgramsInOrder(seen, 0, last)
    BY <1>1 DEF NgramsInOrder
  <2>7. NgramInv
    BY <1>1, <2>1, <2>2, <2>3, <2>4, <2>5, <2>6 DEF NgramInv
  <2> QED BY <1>1, <1>3, <2>7 DEF CorpusInv
<1> QED BY <1>1, <1>2, <1>3

LEMMA CorpusStays ==
  ASSUME CorpusInv, UNCHANGED corpusOnly
  PROVE  CorpusInv'
<1>1. /\ tool' = tool /\ rows' = rows /\ last' = last /\ group' = group /\ totals' = totals
      /\ done' = done /\ written' = written /\ seen' = seen
  BY DEF corpusOnly
<1>2. AolInv => AolInv'
  BY <1>1 DEF AolInv
<1>3. NgramInv => NgramInv'
  BY <1>1 DEF NgramInv
<1>4. Corpus!Wanted' = Corpus!Wanted
  BY <1>1 DEF Corpus!Wanted, Corpus!Askers, Corpus!Total, Corpus!RowsOf
<1> QED BY <1>1, <1>2, <1>3, <1>4 DEF CorpusInv

LEMMA OutputIsBest ==
  ASSUME Corpus!CorpusAssumption, ScoresAreIntegers, CorpusInv, Corpus!WriteOut
  PROVE  CorpusInv'
<1>1. ~done /\ done' = TRUE /\ tool' = tool /\ seen' = seen /\ tool \in {"aol", "ngrams"}
  BY DEF Corpus!WriteOut, CorpusInv
<1>2. Corpus!Wanted' = Corpus!Wanted
  BY <1>1 DEF Corpus!Wanted, Corpus!Askers, Corpus!Total, Corpus!RowsOf
<1>3. written' = Corpus!Ranked(Corpus!Wanted) /\ AreItems(Corpus!Wanted)
  <2>1. CASE tool = "aol"
    <3>1. AolInv
      BY <1>1, <2>1 DEF CorpusInv
    <3>2. Corpus!UserFlushed = VotesOf(seen) /\ AreRowsOfUsers(seen)
      BY <3>1, UserIsFlushed DEF AolInv
    <3>3. written' = Corpus!Ranked(Corpus!AolItems(VotesOf(seen)))
      BY <2>1, <3>2 DEF Corpus!WriteOut
    <3> QED BY <2>1, <3>2, <3>3, AolItemsAreWanted
  <2>2. CASE tool = "ngrams"
    <3>1. NgramInv
      BY <1>1, <2>2 DEF CorpusInv
    <3>2. Corpus!NgramFlushed = TotalsOf(seen) /\ AreRowsOfNgrams(seen, rows)
      BY <3>1, NgramIsFlushed DEF NgramInv
    <3>3. written' = Corpus!Ranked(Corpus!NgramItems(TotalsOf(seen)))
      BY <2>2, <3>2 DEF Corpus!WriteOut
    <3> QED BY <2>2, <3>2, <3>3, NgramItemsAreWanted
  <2> QED BY <1>1, <2>1, <2>2
<1>4. AreBest(written', Corpus!Wanted)
  BY <1>3, RankingIsExact DEF Corpus!CorpusAssumption
<1> QED BY <1>1, <1>2, <1>4 DEF CorpusInv

LEMMA CorpusStep ==
  ASSUME Corpus!CorpusAssumption, ScoresAreIntegers, CorpusInv, Corpus!CorpusNext
  PROVE  CorpusInv'
<1>1. CASE \E key \in IF tool = "aol" THEN Users ELSE Phrases : Corpus!PassOver(key)
  <2>1. PICK key \in IF tool = "aol" THEN Users ELSE Phrases : Corpus!PassOver(key)
    BY <1>1
  <2>2. ~done /\ done' = done /\ tool' = tool
    BY <2>1 DEF Corpus!PassOver, Corpus!Reading
  <2> QED BY <2>1, <2>2, AolPassOverKeeps, NgramPassOverKeeps DEF CorpusInv
<1>2. ASSUME NEW user \in Users, NEW query \in Phrases, Corpus!AolRow(user, query)
      PROVE  CorpusInv'
  <2>1. ~done /\ done' = done /\ tool' = tool /\ tool = "aol"
    BY <1>2 DEF Corpus!AolRow, Corpus!Reading
  <2> QED BY <1>2, <2>1, AolRowKeeps DEF CorpusInv
<1>3. CASE Corpus!AolNextFile
  <2>1. ~done /\ done' = done /\ tool' = tool /\ tool = "aol"
    BY <1>3 DEF Corpus!AolNextFile, Corpus!Reading
  <2> QED BY <1>3, <2>1, AolNextFileKeeps DEF CorpusInv
<1>4. ASSUME NEW phrase \in Phrases, NEW count \in Counts, Corpus!NgramRow(phrase, count)
      PROVE  CorpusInv'
  <2>1. ~done /\ done' = done /\ tool' = tool /\ tool = "ngrams"
    BY <1>4 DEF Corpus!NgramRow, Corpus!Reading
  <2> QED BY <1>4, <2>1, NgramRowKeeps DEF CorpusInv
<1>5. CASE Corpus!NgramNextFile
  <2>1. ~done /\ done' = done /\ tool' = tool /\ tool = "ngrams"
    BY <1>5 DEF Corpus!NgramNextFile, Corpus!Reading
  <2> QED BY <1>5, <2>1, NgramNextFileKeeps DEF CorpusInv
<1>6. CASE Corpus!WriteOut
  BY <1>6, OutputIsBest
<1> QED BY <1>1, <1>2, <1>3, <1>4, <1>5, <1>6 DEF Corpus!CorpusNext

\* For any files, thresholds and length of the output, of either tool: what is
\* written is the best of what all rows together say, in order; no row is lost or
\* counted twice where one user, ngram or file gives way to the next.
THEOREM Corpora ==
  ASSUME ScoresAreIntegers
  PROVE  ProgramsSpec => []CorpusIsExact
<1>1. Corpus!CorpusAssumption
  BY ProgramsAssumption
<1>2. ProgramsInit => CorpusInv
  <2>1. ProgramsInit => Corpus!CorpusInit
    BY DEF ProgramsInit, CorpusOff
  <2> QED BY <1>1, <2>1, CorpusStarts
<1>3. CorpusInv /\ [ProgramsNext]_programsVars => CorpusInv'
  <2>1. [ProgramsNext]_programsVars => Corpus!CorpusNext \/ UNCHANGED corpusOnly
    BY DEF ProgramsNext, programsVars
  <2> QED BY <1>1, <2>1, CorpusStep, CorpusStays
<1>4. CorpusInv => CorpusIsExact
  <2>1. Corpus!ToSet(written) = Range(written)
    BY DEF Corpus!ToSet, Range
  <2>2. Corpus!IsInjective(written) <=> IsInjective(written)
    BY DEF Corpus!IsInjective, IsInjective
  <2>3. Corpus!Cardinality(Corpus!Wanted) = Cardinality(Corpus!Wanted)
    BY DEF Corpus!Cardinality, Cardinality
  <2> QED BY <2>1, <2>2, <2>3 DEF CorpusInv, CorpusIsExact, Corpus!CorpusIsExact, AreBest
<1> QED BY <1>2, <1>3, <1>4, PTL DEF ProgramsSpec

-----------------------------------------------------------------------------
(* The trie: the best of a set *)

Weighed(E) == \A e \in E : e.freq \in Int

Differ(t) == \A i, j \in 1..Len(t) : t[i] = t[j] => i = j

Has(t, x) == \E i \in 1..Len(t) : t[i] = x

Descending(t) == \A i, j \in 1..Len(t) : i < j => t[j].freq <= t[i].freq

\* t has K of E, or all of them, in order, and the others are no better.
BestOf(t, E) ==
  /\ t \in Seq(E) /\ Differ(t) /\ Descending(t)
  /\ Len(t) = K \/ (Len(t) < K /\ \A e \in E : Has(t, e))
  /\ \A e \in E : Has(t, e) \/ \A i \in 1..Len(t) : e.freq <= t[i].freq

\* Different entries of one sequence that are all in another.
LEMMA Pigeons ==
  ASSUME NEW S, NEW s \in Seq(S), NEW T, NEW t \in Seq(T),
         Differ(s), \A i \in 1..Len(s) : Has(t, s[i])
  PROVE  /\ Len(s) <= Len(t)
         /\ Len(s) = Len(t) => \A j \in 1..Len(t) : Has(s, t[j])
<1> DEFINE m == Len(s)
           n == Len(t)
           f == [i \in 1..m |-> CHOOSE j \in 1..n : t[j] = s[i]]
<1>1. m \in Nat /\ n \in Nat
  OBVIOUS
<1>2. \A i \in 1..m : f[i] \in 1..n /\ t[f[i]] = s[i]
  BY DEF Has
<1>3. DOMAIN f = 1..m /\ f = [i \in 1..m |-> f[i]]
  OBVIOUS
<1> HIDE DEF f
<1>4. f \in [1..m -> 1..n]
  BY <1>2, <1>3
<1>5. \A i, j \in 1..m : f[i] = f[j] => i = j
  BY <1>2 DEF Differ
<1>6. f \in Injection(1..m, 1..n)
  BY <1>4, <1>5 DEF Injection, IsInjective
<1>7. /\ IsFiniteSet(1..m) /\ Cardinality(1..m) = m
      /\ IsFiniteSet(1..n) /\ Cardinality(1..n) = n
  <2>1. \A k \in Nat : IsFiniteSet(1..k) /\ Cardinality(1..k) = k
    <3> SUFFICES ASSUME NEW k \in Nat PROVE IsFiniteSet(1..k) /\ Cardinality(1..k) = k
      OBVIOUS
    <3>1. IsFiniteSet(1..k) /\ Cardinality(1..k) = IF 1 > k THEN 0 ELSE k - 1 + 1
      BY FS_Interval
    <3> QED BY <3>1
  <2> QED BY <1>1, <2>1
<1>8. m <= n /\ (m = n <=> f \in Surjection(1..m, 1..n))
  BY <1>6, <1>7, FS_Injection
<1>9. ASSUME m = n, NEW j \in 1..n PROVE Has(s, t[j])
  <2>1. PICK i \in 1..m : f[i] = j
    BY <1>8, <1>9 DEF Surjection
  <2> QED BY <1>2, <2>1 DEF Has
<1> QED BY <1>8, <1>9

\* Of finitely many positions, one has the greatest number.
LEMMA OneIsGreatest ==
  ASSUME NEW P \in SUBSET Nat, IsFiniteSet(P), P # {}, NEW f, \A i \in P : f[i] \in Int
  PROVE  \E i \in P : \A j \in P : f[j] <= f[i]
<1> DEFINE R == {q \in P \X P : f[q[1]] > f[q[2]] \/ (f[q[1]] = f[q[2]] /\ q[1] < q[2])}
<1>1. \A i, j \in P : <<i, j>> \in R <=> f[i] > f[j] \/ (f[i] = f[j] /\ i < j)
  OBVIOUS
<1>2. \A i \in P : i \in Nat
  OBVIOUS
<1> HIDE DEF R
<1>3. Orders(R, P)
  BY <1>1, <1>2 DEF Orders
<1>4. /\ Cardinality(P) \in Nat
      /\ \A k \in 1..Cardinality(P) : Place(P, R, k) \in P
      /\ \A i \in P : \E k \in 1..Cardinality(P) : Place(P, R, k) = i
      /\ \A k, l \in 1..Cardinality(P) : k < l => <<Place(P, R, k), Place(P, R, l)>> \in R
  BY <1>3, PlacesAreTaken
<1>5. PICK n \in Nat : n = Cardinality(P)
  BY <1>4
<1>6. 1 \in 1..n
  <2>1. PICK i \in P : TRUE
    OBVIOUS
  <2>2. PICK k \in 1..n : Place(P, R, k) = i
    BY <1>4, <1>5
  <2> QED BY <2>2
<1>7. PICK i \in P : i = Place(P, R, 1)
  BY <1>4, <1>5, <1>6
<1>8. ASSUME NEW j \in P PROVE f[j] <= f[i]
  <2>1. PICK k \in 1..n : Place(P, R, k) = j
    BY <1>4, <1>5
  <2>2. f[i] \in Int /\ f[j] \in Int
    OBVIOUS
  <2>3. CASE k = 1
    BY <1>7, <2>1, <2>2, <2>3
  <2>4. CASE 1 < k
    <3>1. <<i, j>> \in R
      BY <1>4, <1>5, <1>6, <1>7, <2>1, <2>4
    <3> QED BY <1>1, <2>2, <3>1
  <2> QED BY <2>1, <2>3, <2>4
<1> QED BY <1>8

\* A set as a sequence: every member once.
LEMMA ListingSets ==
  ASSUME NEW S, IsFiniteSet(S)
  PROVE  /\ Trie!SetToSeq(S) \in Seq(S)
         /\ Len(Trie!SetToSeq(S)) = Cardinality(S)
         /\ Differ(Trie!SetToSeq(S))
         /\ \A x \in S : Has(Trie!SetToSeq(S), x)
<1> DEFINE n == Cardinality(S)
           s == Trie!SetToSeq(S)
<1>1. n \in Nat /\ \E g : g \in Bijection(1..n, S)
  BY FS_CardinalityType DEF ExistsBijection
<1>2. PICK g : g \in Bijection(1..n, S)
  BY <1>1
<1>3. \A f : Trie!IsInjective(f) <=> IsInjective(f)
  BY DEF Trie!IsInjective, IsInjective
<1>4. g \in [1..n -> S] /\ Trie!IsInjective(g)
  BY <1>2, <1>3 DEF Bijection, Injection, IsInjective
<1>5. s = CHOOSE f \in [1..n -> S] : Trie!IsInjective(f)
  BY DEF Trie!SetToSeq, Trie!Cardinality, Cardinality
<1> HIDE DEF s, n
<1>6. s \in [1..n -> S] /\ IsInjective(s)
  BY <1>3, <1>4, <1>5
<1>7. s \in Seq(S) /\ Len(s) = n
  BY <1>1, <1>6
<1>8. Differ(s)
  BY <1>6, <1>7 DEF Differ, IsInjective
<1>9. IsFiniteSet(1..n) /\ Cardinality(1..n) = n
  <2>1. n \in Int /\ 1 \in Int
    BY <1>1
  <2>2. IsFiniteSet(1..n) /\ Cardinality(1..n) = IF 1 > n THEN 0 ELSE n - 1 + 1
    BY <2>1, FS_Interval
  <2> QED BY <1>1, <2>2
<1>10. s \in Surjection(1..n, S)
  <2>1. s \in Injection(1..n, S)
    BY <1>6 DEF Injection
  <2> QED BY <1>9, <2>1, FS_Injection DEF n
<1>11. \A x \in S : Has(s, x)
  BY <1>7, <1>10 DEF Has, Surjection
<1> QED BY <1>7, <1>8, <1>11 DEF s, n

-----------------------------------------------------------------------------
(* The trie: the search *)

\* The entries up to the n-th.
Upto(c, n) == {c[i] : i \in 1..n}

\* Of the first n candidates the heap has K, or all; none that it lost is better.
Heaped(kept, c, n) ==
  /\ kept \subseteq Upto(c, n) /\ IsFiniteSet(kept)
  /\ Cardinality(kept) = K \/ (Cardinality(kept) < K /\ kept = Upto(c, n))
  /\ \A x \in Upto(c, n) : x \in kept \/ \A d \in kept : x.freq <= d.freq

Least(kept) == CHOOSE d \in kept : \A e \in kept : d.freq <= e.freq

\* What the next candidate does to the heap.
Offered(kept, x) ==
  IF Cardinality(kept) < K THEN kept \cup {x}
  ELSE IF Least(kept).freq < x.freq THEN (kept \ {Least(kept)}) \cup {x} ELSE kept

LEMMA LeastIsThere ==
  ASSUME NEW kept, kept # {}, IsFiniteSet(kept), Weighed(kept)
  PROVE  Least(kept) \in kept /\ \A e \in kept : Least(kept).freq <= e.freq
<1> DEFINE s == Trie!SetToSeq(kept)
           P == 1..Len(s)
           f == [i \in P |-> 0 - s[i].freq]
<1>1. s \in Seq(kept) /\ \A x \in kept : Has(s, x)
  BY ListingSets
<1> HIDE DEF s
<1>2. IsFiniteSet(P) /\ P # {} /\ P \in SUBSET Nat
  <2>1. 1 \in Int /\ Len(s) \in Int
    BY <1>1
  <2>2. IsFiniteSet(P)
    BY <2>1, FS_Interval
  <2> QED BY <1>1, <2>2 DEF Has
<1>3. \A i \in P : s[i] \in kept /\ s[i].freq \in Int
  BY <1>1 DEF Weighed
<1> HIDE DEF P
<1>4. \A i \in P : f[i] \in Int /\ f[i] = 0 - s[i].freq
  BY <1>3
<1> HIDE DEF f
<1>5. PICK i \in P : \A j \in P : f[j] <= f[i]
  BY <1>2, <1>4, OneIsGreatest
<1>6. \A j \in P : s[i].freq <= s[j].freq
  BY <1>3, <1>4, <1>5
<1>7. \E d \in kept : \A e \in kept : d.freq <= e.freq
  BY <1>1, <1>3, <1>6 DEF Has, P
<1> QED BY <1>7 DEF Least

LEMMA OfferedIsHeaped ==
  ASSUME K \in Nat \ {0}, NEW E, Weighed(E), NEW c \in Seq(E), Differ(c),
         NEW n \in 1..Len(c), NEW kept, Heaped(kept, c, n - 1)
  PROVE  Heaped(Offered(kept, c[n]), c, n)
<1> DEFINE x == c[n]
<1>1. Upto(c, n) = Upto(c, n - 1) \cup {x}
  <2>1. \A i : i \in 1..n <=> i \in 1..(n - 1) \/ i = n
    OBVIOUS
  <2> QED BY <2>1 DEF Upto
<1>2. x \notin Upto(c, n - 1) /\ x \in E
  <2>1. \A i \in 1..(n - 1) : i \in 1..Len(c) /\ i # n
    OBVIOUS
  <2>2. \A i \in 1..(n - 1) : c[i] # x
    BY <2>1 DEF Differ
  <2> QED BY <2>2 DEF Upto
<1>3. Upto(c, n - 1) \subseteq E
  BY DEF Upto
<1>4. x.freq \in Int /\ \A d \in Upto(c, n - 1) : d.freq \in Int
  BY <1>2, <1>3 DEF Weighed
<1>5. kept \subseteq Upto(c, n - 1) /\ IsFiniteSet(kept) /\ x \notin kept
  BY <1>2 DEF Heaped
<1> HIDE DEF x
<1>6. Cardinality(kept) \in Nat
  BY <1>5, FS_CardinalityType
<1>7. CASE Cardinality(kept) < K
  <2>1. kept = Upto(c, n - 1) /\ Offered(kept, x) = kept \cup {x}
    BY <1>6, <1>7 DEF Heaped, Offered
  <2>2. IsFiniteSet(kept \cup {x}) /\ Cardinality(kept \cup {x}) = Cardinality(kept) + 1
    BY <1>5, FS_AddElement
  <2>3. Cardinality(kept) + 1 = K \/ Cardinality(kept) + 1 < K
    BY <1>6, <1>7
  <2> QED BY <1>1, <2>1, <2>2, <2>3 DEF Heaped, x
<1>8. CASE ~(Cardinality(kept) < K)
  <2>1. Cardinality(kept) = K /\ kept # {}
    <3>1. Cardinality(kept) = K /\ K # 0
      BY <1>6, <1>8 DEF Heaped
    <3> QED BY <1>5, <3>1, FS_EmptySet
  <2> DEFINE l == Least(kept)
  <2>2. l \in kept /\ \A e \in kept : l.freq <= e.freq
    <3>1. Weighed(kept)
      BY <1>4, <1>5 DEF Weighed
    <3> QED BY <1>5, <2>1, <3>1, LeastIsThere
  <2>3. Offered(kept, x) = IF l.freq < x.freq THEN (kept \ {l}) \cup {x} ELSE kept
    BY <1>8 DEF Offered
  <2> HIDE DEF l
  <2>4. \A d \in kept : d.freq \in Int
    BY <1>4, <1>5
  <2>5. \A y \in Upto(c, n - 1) : y \in kept \/ \A d \in kept : y.freq <= d.freq
    BY DEF Heaped
  <2>6. CASE l.freq < x.freq
    <3> DEFINE new == (kept \ {l}) \cup {x}
    <3>1. IsFiniteSet(new) /\ Cardinality(new) = K
      <4>1. IsFiniteSet(kept \ {l}) /\ Cardinality(kept \ {l}) = K - 1
        BY <1>5, <2>1, <2>2, FS_RemoveElement
      <4>2. x \notin kept \ {l}
        BY <1>5
      <4>3. IsFiniteSet(new) /\ Cardinality(new) = K - 1 + 1
        BY <4>1, <4>2, FS_AddElement
      <4> QED BY <4>3
    <3>2. new \subseteq Upto(c, n)
      BY <1>1, <1>5
    <3>3. ASSUME NEW y \in Upto(c, n), y \notin new
          PROVE  \A d \in new : y.freq <= d.freq
      <4>1. y \in Upto(c, n - 1) /\ y.freq \in Int
        BY <1>1, <1>4, <3>3
      <4>2. CASE y = l
        BY <1>4, <2>2, <2>4, <2>6, <4>1, <4>2
      <4>3. CASE y # l
        <5>1. \A d \in kept : y.freq <= d.freq
          BY <2>5, <3>3, <4>1, <4>3
        <5>2. y.freq <= l.freq /\ l.freq \in Int
          BY <2>2, <2>4, <5>1
        <5>3. y.freq <= x.freq
          BY <1>4, <2>6, <4>1, <5>2
        <5> QED BY <5>1, <5>3
      <4> QED BY <4>2, <4>3
    <3> HIDE DEF new
    <3>4. Offered(kept, x) = new
      BY <2>3, <2>6 DEF new
    <3> QED BY <3>1, <3>2, <3>3, <3>4 DEF Heaped, x
  <2>7. CASE ~(l.freq < x.freq)
    <3>1. \A d \in kept : x.freq <= d.freq
      BY <1>4, <2>2, <2>4, <2>7
    <3>2. \A y \in Upto(c, n) : y \in kept \/ \A d \in kept : y.freq <= d.freq
      BY <1>1, <2>5, <3>1
    <3> QED BY <1>1, <1>5, <2>1, <2>3, <2>7, <3>2 DEF Heaped, x
  <2> QED BY <2>6, <2>7
<1> QED BY <1>7, <1>8

\* The heap as it takes the candidates in.
HeapOf(c, h) ==
  [n \in 0..Len(c) |-> IF n = 0 THEN {} ELSE Offered(h[n - 1], c[n])]

LEMMA HeapIsThere ==
  ASSUME NEW E, NEW c \in Seq(E)
  PROVE  \E h : h = HeapOf(c, h)
<1> DEFINE Upward(n, h) ==
             /\ DOMAIN h = 0..n /\ h = [i \in 0..n |-> h[i]]
             /\ h[0] = {} /\ \A i \in 1..n : h[i] = Offered(h[i - 1], c[i])
           T == {n \in Nat : n <= Len(c) /\ ~(\E h : Upward(n, h))}
<1>1. PICK m \in Nat : m = Len(c)
  OBVIOUS
<1>2. \E h : Upward(m, h)
  <2> SUFFICES ASSUME m \in T PROVE FALSE
    BY <1>1
  <2>1. PICK n \in T : \A k \in T : n <= k
    <3>1. T \subseteq Nat /\ T # {}
      OBVIOUS
    <3> HIDE DEF T
    <3> QED BY <3>1, LeastOfNaturals
  <2>2. n \in Nat /\ n <= m /\ ~(\E h : Upward(n, h))
    BY <1>1
  <2>3. n # 0
    <3>1. Upward(0, [i \in 0..0 |-> {}])
      <4>1. 0..0 = {0} /\ 1..0 = {}
        OBVIOUS
      <4> QED BY <4>1
    <3> HIDE DEF Upward
    <3> QED BY <2>2, <3>1
  <2>4. n - 1 \in Nat /\ n - 1 \notin T
    <3>1. n - 1 \in Nat /\ ~(n <= n - 1)
      BY <2>2, <2>3
    <3> HIDE DEF T
    <3> QED BY <2>1, <3>1
  <2>5. PICK g : Upward(n - 1, g)
    BY <1>1, <2>2, <2>4
  <2> DEFINE h == [i \in 0..n |-> IF i = n THEN Offered(g[n - 1], c[n]) ELSE g[i]]
  <2>6. Upward(n, h)
    <3>1. DOMAIN h = 0..n /\ h = [i \in 0..n |-> h[i]]
      OBVIOUS
    <3>2. h[0] = {}
      BY <2>2, <2>3, <2>5
    <3>3. ASSUME NEW i \in 1..n PROVE h[i] = Offered(h[i - 1], c[i])
      <4>1. i \in 0..n /\ i - 1 \in 0..n /\ i - 1 # n
        BY <2>2
      <4>2. h[i - 1] = g[i - 1]
        BY <4>1
      <4>3. CASE i = n
        BY <4>1, <4>2, <4>3
      <4>4. CASE i # n
        <5>1. i \in 1..(n - 1)
          BY <2>2, <4>4
        <5> QED BY <2>5, <4>1, <4>2, <4>4, <5>1
      <4> QED BY <4>3, <4>4
    <3> HIDE DEF h
    <3> QED BY <3>1, <3>2, <3>3
  <2> QED BY <2>2, <2>6
<1>3. PICK h : Upward(m, h)
  BY <1>2
<1>4. h = HeapOf(c, h)
  <2>1. \A i \in 0..m : h[i] = HeapOf(c, h)[i]
    BY <1>1, <1>3 DEF HeapOf
  <2>2. HeapOf(c, h) = [i \in 0..m |-> HeapOf(c, h)[i]]
    BY <1>1 DEF HeapOf
  <2> QED BY <1>3, <2>1, <2>2
<1> QED BY <1>4

LEMMA AllAreHeaped ==
  ASSUME K \in Nat \ {0}, NEW E, Weighed(E), NEW c \in Seq(E), Differ(c),
         NEW h, h = HeapOf(c, h)
  PROVE  Heaped(h[Len(c)], c, Len(c))
<1> DEFINE T == {n \in Nat : n <= Len(c) /\ ~Heaped(h[n], c, n)}
<1>1. PICK m \in Nat : m = Len(c)
  OBVIOUS
<1> SUFFICES ASSUME m \in T PROVE FALSE
  BY <1>1
<1>2. PICK n \in T : \A k \in T : n <= k
  <2>1. T \subseteq Nat /\ T # {}
    OBVIOUS
  <2> HIDE DEF T
  <2> QED BY <2>1, LeastOfNaturals
<1>3. n \in Nat /\ n <= m /\ ~Heaped(h[n], c, n)
  BY <1>1
<1>4. n # 0
  <2>1. h[0] = {}
    BY <1>1 DEF HeapOf
  <2>2. IsFiniteSet({}) /\ Cardinality({}) = 0 /\ 1..0 = {}
    BY FS_EmptySet
  <2>3. Upto(c, 0) = {}
    BY <2>2 DEF Upto
  <2>4. Heaped(h[0], c, 0)
    BY <2>1, <2>2, <2>3 DEF Heaped
  <2> QED BY <1>3, <2>4
<1>5. n - 1 \in Nat /\ n - 1 \notin T
  <2>1. n - 1 \in Nat /\ ~(n <= n - 1)
    BY <1>3, <1>4
  <2> HIDE DEF T
  <2> QED BY <1>2, <2>1
<1>6. Heaped(h[n - 1], c, n - 1)
  BY <1>1, <1>3, <1>5
<1>7. h[n] = Offered(h[n - 1], c[n])
  <2>1. n \in 0..Len(c)
    BY <1>1, <1>3
  <2>2. HeapOf(c, h)[n] = Offered(h[n - 1], c[n])
    BY <1>4, <2>1 DEF HeapOf
  <2> QED BY <2>2
<1>8. n \in 1..Len(c)
  BY <1>1, <1>3, <1>4
<1> QED BY <1>3, <1>6, <1>7, <1>8, OfferedIsHeaped

LEMMA TrieArranges ==
  \A s, P, R : Trie!Arranged(s, P, R) = Arranged(s, P, R)
<1>1. \A P, R, k : Trie!Place(P, R, k) = Place(P, R, k)
  BY DEF Trie!Place, Place, Trie!Cardinality, Cardinality
<1> QED BY <1>1 DEF Trie!Arranged, Arranged, Trie!Cardinality, Cardinality

\* The least on top: K of the candidates, or all, in order, and none better is out.
LEMMA TopKIsBest ==
  ASSUME K \in Nat \ {0}, NEW E, Weighed(E), NEW c \in Seq(E), Differ(c),
         \A e \in E : Has(c, e)
  PROVE  BestOf(Trie!TopK(c), E)
<1> DEFINE heap == CHOOSE h : h = HeapOf(c, h)
           kept == heap[Len(c)]
           s == Trie!SetToSeq(kept)
           P == 1..Len(s)
           R == {q \in P \X P : s[q[1]].freq > s[q[2]].freq
                                \/ (~(s[q[2]].freq > s[q[1]].freq) /\ q[1] < q[2])}
           t == Arranged(s, P, R)
<1>1. heap = HeapOf(c, heap)
  BY HeapIsThere
<1>2. Heaped(kept, c, Len(c))
  <2> HIDE DEF heap
  <2> QED BY <1>1, AllAreHeaped
<1>3. Trie!TopK(c) = Trie!Sorted(s, LAMBDA x, y : x.freq > y.freq)
  BY DEF Trie!TopK, HeapOf, Offered, Least, Trie!Cardinality, Cardinality
<1> HIDE DEF heap
<1>4. kept \subseteq E /\ IsFiniteSet(kept) /\ Cardinality(kept) \in Nat
  BY <1>2, FS_CardinalityType DEF Heaped, Upto
<1> HIDE DEF kept
<1>5. /\ s \in Seq(kept) /\ Len(s) = Cardinality(kept)
      /\ Differ(s) /\ \A x \in kept : Has(s, x)
  BY <1>4, ListingSets
<1> HIDE DEF s
<1>6. DOMAIN s = P
  BY <1>5
<1>7. Trie!TopK(c) = t
  BY <1>3, <1>6, TrieArranges DEF Trie!Sorted, Trie!SortOrder
<1>8. \A i \in P : s[i] \in kept /\ s[i].freq \in Int /\ i \in Nat
  BY <1>4, <1>5 DEF Weighed
<1>9. \A i, j \in P : <<i, j>> \in R <=> s[i].freq > s[j].freq
                                        \/ (~(s[j].freq > s[i].freq) /\ i < j)
  OBVIOUS
<1> HIDE DEF R
<1>10. Orders(R, P)
  <2>1. \A i \in P : <<i, i>> \notin R
    BY <1>8, <1>9
  <2>2. \A i, j \in P : i # j => <<i, j>> \in R \/ <<j, i>> \in R
    BY <1>8, <1>9
  <2>3. \A i, j, k \in P : <<i, j>> \in R /\ <<j, k>> \in R => <<i, k>> \in R
    BY <1>8, <1>9
  <2> HIDE DEF P
  <2> QED BY <2>1, <2>2, <2>3 DEF Orders
<1>11. IsFiniteSet(P) /\ Cardinality(P) = Cardinality(kept)
  <2>1. 1 \in Int /\ Len(s) \in Int /\ Len(s) \in Nat
    BY <1>5
  <2>2. IsFiniteSet(P) /\ Cardinality(P) = IF 1 > Len(s) THEN 0 ELSE Len(s) - 1 + 1
    BY <2>1, FS_Interval
  <2> QED BY <1>5, <2>1, <2>2
<1> HIDE DEF P
<1>12. Arranges(t, kept, s, P, R)
  BY <1>8, <1>10, <1>11, Arranging
<1> HIDE DEF t
<1>13. t \in Seq(kept) /\ Len(t) = Cardinality(kept)
  BY <1>11, <1>12 DEF Arranges
<1>14. \A k, l \in 1..Len(t) : k < l => t[k] # t[l] /\ t[l].freq <= t[k].freq
  <2> SUFFICES ASSUME NEW k \in 1..Len(t), NEW l \in 1..Len(t), k < l
               PROVE  t[k] # t[l] /\ t[l].freq <= t[k].freq
    OBVIOUS
  <2>1. PICK i \in P : \E j \in P : <<i, j>> \in R /\ t[k] = s[i] /\ t[l] = s[j]
    BY <1>12 DEF Arranges
  <2>2. PICK j \in P : <<i, j>> \in R /\ t[k] = s[i] /\ t[l] = s[j]
    BY <2>1
  <2>3. i # j
    BY <1>10, <2>2 DEF Orders
  <2>4. s[i] # s[j]
    BY <1>5, <2>3 DEF Differ, P
  <2>5. s[j].freq <= s[i].freq
    BY <1>8, <1>9, <2>2
  <2> QED BY <2>2, <2>4, <2>5
<1>15. Differ(t)
  <2> SUFFICES ASSUME NEW k \in 1..Len(t), NEW l \in 1..Len(t), k # l PROVE t[k] # t[l]
    BY DEF Differ
  <2>1. k < l \/ l < k
    OBVIOUS
  <2> QED BY <1>14, <2>1
<1>16. Descending(t)
  BY <1>14 DEF Descending
<1>17. \A x \in kept : Has(t, x)
  <2> SUFFICES ASSUME NEW x \in kept PROVE Has(t, x)
    OBVIOUS
  <2>1. PICK i \in P : s[i] = x
    BY <1>5 DEF Has, P
  <2>2. x \in Range(t)
    BY <1>12, <2>1 DEF Arranges
  <2>3. DOMAIN t = 1..Len(t)
    BY <1>13
  <2> QED BY <2>2, <2>3 DEF Range, Has
<1>18. Upto(c, Len(c)) = E
  <2>1. \A i \in 1..Len(c) : c[i] \in E
    OBVIOUS
  <2> QED BY <2>1 DEF Upto, Has
<1>19. t \in Seq(E)
  BY <1>4, <1>13
<1>20. Len(t) = K \/ (Len(t) < K /\ \A e \in E : Has(t, e))
  BY <1>2, <1>13, <1>17, <1>18 DEF Heaped
<1>21. \A e \in E : Has(t, e) \/ \A i \in 1..Len(t) : e.freq <= t[i].freq
  <2>1. \A e \in E : e \in kept \/ \A d \in kept : e.freq <= d.freq
    BY <1>2, <1>18 DEF Heaped
  <2>2. \A i \in 1..Len(t) : t[i] \in kept
    BY <1>13
  <2> QED BY <1>17, <2>1, <2>2
<1> QED BY <1>7, <1>15, <1>16, <1>19, <1>20, <1>21 DEF BestOf

-----------------------------------------------------------------------------
(* The trie: merging *)

Whole(sets, L) == UNION {sets[l] : l \in 1..L}

\* L lists, each the best of a set of its own.
ListsOf(lists, sets, L) ==
  /\ L \in Nat /\ DOMAIN lists = 1..L
  /\ \A l \in 1..L : Weighed(sets[l]) /\ BestOf(lists[l], sets[l])
  /\ \A l, j \in 1..L : l # j => sets[l] \cap sets[j] = {}

HeadOf(lists, m, l) == lists[l][m.at[l]]

Left(lists, m) == {l \in DOMAIN lists : m.at[l] <= Len(lists[l])}

Largest(lists, m) ==
  CHOOSE l \in Left(lists, m) :
    \A j \in Left(lists, m) : HeadOf(lists, m, l).freq >= HeadOf(lists, m, j).freq

\* The largest head is taken.
Taken(lists, m) ==
  IF Left(lists, m) = {} THEN m
  ELSE [out |-> Append(m.out, HeadOf(lists, m, Largest(lists, m))),
        at |-> [m.at EXCEPT ![Largest(lists, m)] = @ + 1]]

\* x is before the mark of its list.
Passed(lists, m, L, x) == \E l \in 1..L : \E i \in 1..(m.at[l] - 1) : lists[l][i] = x

\* The best of the lists, but no more than n, and what is left is no better.
Merging(lists, sets, L, m, n) ==
  /\ m.out \in Seq(Whole(sets, L)) /\ Differ(m.out) /\ Descending(m.out)
  /\ m.at \in [1..L -> Nat] /\ \A l \in 1..L : m.at[l] \in 1..(Len(lists[l]) + 1)
  /\ \A x : Has(m.out, x) <=> Passed(lists, m, L, x)
  /\ \A l \in 1..L : \A j \in 1..Len(lists[l]) :
       j >= m.at[l] => \A i \in 1..Len(m.out) : lists[l][j].freq <= m.out[i].freq
  /\ Len(m.out) = n \/ (Len(m.out) < n /\ \A l \in 1..L : m.at[l] = Len(lists[l]) + 1)

LEMMA LargestIsThere ==
  ASSUME NEW lists, NEW sets, NEW L, ListsOf(lists, sets, L),
         NEW m, NEW n, Merging(lists, sets, L, m, n), Left(lists, m) # {}
  PROVE  /\ Largest(lists, m) \in Left(lists, m)
         /\ \A j \in Left(lists, m) :
              HeadOf(lists, m, j).freq <= HeadOf(lists, m, Largest(lists, m)).freq
<1> DEFINE P == Left(lists, m)
           f == [l \in P |-> HeadOf(lists, m, l).freq]
<1>1. P \subseteq 1..L /\ IsFiniteSet(P) /\ P \in SUBSET Nat
  <2>1. P \subseteq 1..L
    BY DEF Left, ListsOf
  <2>2. 1 \in Int /\ L \in Int /\ 1..L \subseteq Nat
    BY DEF ListsOf
  <2>3. IsFiniteSet(1..L)
    BY <2>2, FS_Interval
  <2> QED BY <2>1, <2>2, <2>3, FS_Subset
<1>2. ASSUME NEW l \in P PROVE HeadOf(lists, m, l).freq \in Int
  <2>1. l \in 1..L /\ m.at[l] \in Nat /\ m.at[l] \in 1..Len(lists[l])
    BY <1>1 DEF Merging, Left
  <2>2. lists[l] \in Seq(sets[l]) /\ Weighed(sets[l])
    BY <2>1 DEF ListsOf, BestOf
  <2>3. lists[l][m.at[l]] \in sets[l]
    BY <2>1, <2>2
  <2> QED BY <2>2, <2>3 DEF HeadOf, Weighed
<1>3. \A l \in P : f[l] \in Int
  BY <1>2
<1> HIDE DEF P, f
<1>4. \E l \in P : \A j \in P : f[j] <= f[l]
  BY <1>1, <1>3, OneIsGreatest DEF P
<1>5. \A l, j \in P : f[j] <= f[l] <=> HeadOf(lists, m, l).freq >= HeadOf(lists, m, j).freq
  BY <1>2 DEF f
<1>6. \E l \in P : \A j \in P : HeadOf(lists, m, l).freq >= HeadOf(lists, m, j).freq
  BY <1>4, <1>5
<1>7. /\ Largest(lists, m) \in P
      /\ \A j \in P : HeadOf(lists, m, Largest(lists, m)).freq >= HeadOf(lists, m, j).freq
  BY <1>6 DEF Largest, P
<1> QED BY <1>2, <1>7 DEF P

LEMMA TakenIsMerging ==
  ASSUME NEW lists, NEW sets, NEW L, ListsOf(lists, sets, L),
         NEW m, NEW n \in Nat, Merging(lists, sets, L, m, n)
  PROVE  Merging(lists, sets, L, Taken(lists, m), n + 1)
<1>1. CASE Left(lists, m) = {}
  <2>1. \A l \in 1..L : m.at[l] = Len(lists[l]) + 1
    <3> SUFFICES ASSUME NEW l \in 1..L PROVE m.at[l] = Len(lists[l]) + 1
      OBVIOUS
    <3>1. ~(m.at[l] <= Len(lists[l]))
      BY <1>1 DEF Left, ListsOf
    <3>2. lists[l] \in Seq(sets[l])
      BY DEF ListsOf, BestOf
    <3>3. Len(lists[l]) \in Nat
      BY <3>2
    <3>4. m.at[l] \in 1..(Len(lists[l]) + 1)
      BY DEF Merging
    <3> QED BY <3>1, <3>3, <3>4
  <2>2. Taken(lists, m) = m /\ Len(m.out) < n + 1
    <3>1. Len(m.out) \in Nat
      BY DEF Merging
    <3> QED BY <1>1, <3>1 DEF Merging, Taken
  <2> QED BY <2>1, <2>2 DEF Merging
<1>2. CASE Left(lists, m) # {}
  <2>1. PICK l : l = Largest(lists, m)
    OBVIOUS
  <2>2. PICK x : x = HeadOf(lists, m, l)
    OBVIOUS
  <2>3. PICK k : k = m.at[l]
    OBVIOUS
  <2>4. l \in Left(lists, m) /\ \A j \in Left(lists, m) : HeadOf(lists, m, j).freq <= x.freq
    BY <1>2, <2>1, <2>2, LargestIsThere
  <2>5. l \in 1..L /\ k \in Nat /\ k \in 1..Len(lists[l]) /\ x = lists[l][k]
    BY <2>2, <2>3, <2>4 DEF Merging, Left, ListsOf, HeadOf
  <2>6. \A j \in 1..L : /\ lists[j] \in Seq(sets[j]) /\ Differ(lists[j]) /\ Descending(lists[j])
                        /\ Len(lists[j]) \in Nat
                        /\ \A i \in 1..Len(lists[j]) :
                             lists[j][i] \in sets[j] /\ lists[j][i].freq \in Int
    BY DEF ListsOf, BestOf, Weighed
  <2>7. x \in sets[l] /\ x.freq \in Int /\ x \in Whole(sets, L)
    BY <2>5, <2>6 DEF Whole
  <2>8. m.out \in Seq(Whole(sets, L)) /\ Len(m.out) \in Nat
    BY DEF Merging
  <2>9. ~Has(m.out, x)
    <3> SUFFICES ASSUME NEW j \in 1..L, NEW i \in 1..(m.at[j] - 1), lists[j][i] = x PROVE FALSE
      BY DEF Merging, Passed
    <3>1. m.at[j] \in 1..(Len(lists[j]) + 1) /\ m.at[j] \in Nat
      BY DEF Merging
    <3>2. i \in 1..Len(lists[j])
      BY <2>6, <3>1
    <3>3. x \in sets[j]
      BY <2>6, <3>2
    <3>4. j = l
      BY <2>5, <2>7, <3>3 DEF ListsOf
    <3>5. i = k
      BY <2>5, <2>6, <3>2, <3>4 DEF Differ
    <3> QED BY <2>3, <2>5, <3>4, <3>5
  <2>10. PICK out : out = Append(m.out, x)
    OBVIOUS
  <2>11. PICK at : at = [m.at EXCEPT ![l] = k + 1]
    OBVIOUS
  <2>12. PICK t : t = [out |-> out, at |-> at]
    OBVIOUS
  <2>13. Taken(lists, m) = t /\ t.out = out /\ t.at = at
    BY <1>2, <2>1, <2>2, <2>3, <2>10, <2>11, <2>12 DEF Taken
  <2>14. /\ out \in Seq(Whole(sets, L)) /\ Len(out) = Len(m.out) + 1
         /\ \A i \in 1..Len(m.out) : out[i] = m.out[i]
         /\ out[Len(m.out) + 1] = x
    BY <2>7, <2>8, <2>10
  <2>15. \A i : i \in 1..Len(out) <=> i \in 1..Len(m.out) \/ i = Len(m.out) + 1
    BY <2>8, <2>14
  <2>16. /\ at \in [1..L -> Nat] /\ at[l] = k + 1
         /\ \A j \in 1..L : j # l => at[j] = m.at[j]
    <3>1. m.at \in [1..L -> Nat] /\ k + 1 \in Nat
      BY <2>5 DEF Merging
    <3> QED BY <2>3, <2>5, <2>11, <3>1
  <2>17. \A j \in 1..L : at[j] \in 1..(Len(lists[j]) + 1)
    <3> SUFFICES ASSUME NEW j \in 1..L PROVE at[j] \in 1..(Len(lists[j]) + 1)
      OBVIOUS
    <3>1. CASE j = l
      BY <2>5, <2>6, <2>16, <3>1
    <3>2. CASE j # l
      BY <2>16, <3>2 DEF Merging
    <3> QED BY <3>1, <3>2
  <2>18. \A y : Has(out, y) <=> Has(m.out, y) \/ y = x
    BY <2>14, <2>15 DEF Has
  <2>19. \A y : Passed(lists, t, L, y) <=> Passed(lists, m, L, y) \/ y = x
    <3>1. \A i : i \in 1..(at[l] - 1) <=> i \in 1..(m.at[l] - 1) \/ i = k
      BY <2>3, <2>5, <2>16
    <3>2. \A j \in 1..L : j # l => 1..(at[j] - 1) = 1..(m.at[j] - 1)
      BY <2>16
    <3> QED BY <2>5, <2>13, <3>1, <3>2 DEF Passed
  <2>20. Differ(out)
    <3>1. \A i \in 1..Len(m.out) : m.out[i] # x
      BY <2>9 DEF Has
    <3>2. Differ(m.out)
      BY DEF Merging
    <3> QED BY <2>14, <2>15, <3>1, <3>2 DEF Differ
  <2>21. \A i \in 1..Len(m.out) : x.freq <= m.out[i].freq
    <3>1. k >= m.at[l]
      BY <2>3, <2>5
    <3> QED BY <2>5, <3>1 DEF Merging
  <2>22. Descending(out)
    <3> SUFFICES ASSUME NEW i \in 1..Len(out), NEW j \in 1..Len(out), i < j
                 PROVE  out[j].freq <= out[i].freq
      BY DEF Descending
    <3>1. i \in 1..Len(m.out)
      BY <2>8, <2>14
    <3>2. CASE j \in 1..Len(m.out)
      BY <2>14, <3>1, <3>2 DEF Merging, Descending
    <3>3. CASE j = Len(m.out) + 1
      BY <2>14, <2>21, <3>1, <3>3
    <3> QED BY <2>15, <3>2, <3>3
  <2>23. ASSUME NEW j \in 1..L, NEW i \in 1..Len(lists[j]), i >= at[j]
         PROVE  \A h \in 1..Len(out) : lists[j][i].freq <= out[h].freq
    <3>1. i \in Nat /\ m.at[j] \in Nat /\ i >= m.at[j] /\ m.at[j] <= Len(lists[j]) /\ m.at[j] >= 1
      <4>1. i \in Nat /\ m.at[j] \in Nat /\ m.at[j] >= 1 /\ Len(lists[j]) \in Nat /\ i <= Len(lists[j])
        BY <2>6 DEF Merging
      <4>2. at[j] = m.at[j] \/ at[j] = m.at[j] + 1
        BY <2>3, <2>16
      <4> QED BY <2>23, <4>1, <4>2
    <3>2. \A h \in 1..Len(m.out) : lists[j][i].freq <= m.out[h].freq
      BY <3>1 DEF Merging
    <3>3. lists[j][m.at[j]].freq <= x.freq
      <4>1. j \in Left(lists, m)
        BY <3>1 DEF Left, ListsOf
      <4> QED BY <2>4, <4>1 DEF HeadOf
    <3>4. lists[j][i].freq <= lists[j][m.at[j]].freq
      <4>1. m.at[j] \in 1..Len(lists[j])
        BY <2>6, <3>1
      <4>2. lists[j][i].freq \in Int
        BY <2>6
      <4>3. CASE i = m.at[j]
        BY <4>2, <4>3
      <4>4. CASE m.at[j] < i
        BY <2>6, <4>1, <4>4 DEF Descending
      <4> QED BY <3>1, <4>3, <4>4
    <3>5. lists[j][i].freq <= x.freq
      <4>1. m.at[j] \in 1..Len(lists[j])
        BY <2>6, <3>1
      <4>2. lists[j][i].freq \in Int /\ lists[j][m.at[j]].freq \in Int
        BY <2>6, <4>1
      <4> QED BY <2>7, <3>3, <3>4, <4>2
    <3> QED BY <2>14, <2>15, <3>2, <3>5
  <2>24. Len(out) = n + 1
    <3>1. Len(m.out) = n
      <4>1. m.at[l] # Len(lists[l]) + 1
        BY <2>3, <2>5, <2>6
      <4> QED BY <2>5, <4>1 DEF Merging
    <3> QED BY <2>14, <3>1
  <2>25. \A y : Has(out, y) <=> Passed(lists, t, L, y)
    BY <2>18, <2>19 DEF Merging
  <2>26. Merging(lists, sets, L, t, n + 1)
    BY <2>13, <2>14, <2>16, <2>17, <2>20, <2>22, <2>23, <2>24, <2>25 DEF Merging
  <2> QED BY <2>13, <2>26
<1> QED BY <1>1, <1>2

MergeOf(lists, r) ==
  [n \in 0..K |-> IF n = 0 THEN [out |-> <<>>, at |-> [l \in DOMAIN lists |-> 1]]
                  ELSE Taken(lists, r[n - 1])]

LEMMA MergeIsThere ==
  ASSUME K \in Nat, NEW lists
  PROVE  \E r : r = MergeOf(lists, r)
<1> DEFINE Start == [out |-> <<>>, at |-> [l \in DOMAIN lists |-> 1]]
           Upward(n, r) ==
             /\ DOMAIN r = 0..n /\ r = [i \in 0..n |-> r[i]]
             /\ r[0] = Start /\ \A i \in 1..n : r[i] = Taken(lists, r[i - 1])
           T == {n \in Nat : n <= K /\ ~(\E r : Upward(n, r))}
<1>1. PICK m \in Nat : m = K
  OBVIOUS
<1>2. \E r : Upward(m, r)
  <2> SUFFICES ASSUME m \in T PROVE FALSE
    BY <1>1
  <2>1. PICK n \in T : \A k \in T : n <= k
    <3>1. T \subseteq Nat /\ T # {}
      OBVIOUS
    <3> HIDE DEF T
    <3> QED BY <3>1, LeastOfNaturals
  <2>2. n \in Nat /\ n <= m /\ ~(\E r : Upward(n, r))
    BY <1>1
  <2> HIDE DEF Start
  <2>3. n # 0
    <3>1. Upward(0, [i \in 0..0 |-> Start])
      <4>1. 0..0 = {0} /\ 1..0 = {}
        OBVIOUS
      <4> QED BY <4>1
    <3> HIDE DEF Upward
    <3> QED BY <2>2, <3>1
  <2>4. n - 1 \in Nat /\ n - 1 \notin T
    <3>1. n - 1 \in Nat /\ ~(n <= n - 1)
      BY <2>2, <2>3
    <3> HIDE DEF T
    <3> QED BY <2>1, <3>1
  <2>5. PICK g : Upward(n - 1, g)
    BY <1>1, <2>2, <2>4
  <2> DEFINE r == [i \in 0..n |-> IF i = n THEN Taken(lists, g[n - 1]) ELSE g[i]]
  <2>6. Upward(n, r)
    <3>1. DOMAIN r = 0..n /\ r = [i \in 0..n |-> r[i]]
      OBVIOUS
    <3>2. r[0] = Start
      BY <2>2, <2>3, <2>5
    <3>3. ASSUME NEW i \in 1..n PROVE r[i] = Taken(lists, r[i - 1])
      <4>1. i \in 0..n /\ i - 1 \in 0..n /\ i - 1 # n
        BY <2>2
      <4>2. r[i - 1] = g[i - 1]
        BY <4>1
      <4>3. CASE i = n
        BY <4>1, <4>2, <4>3
      <4>4. CASE i # n
        <5>1. i \in 1..(n - 1)
          BY <2>2, <4>4
        <5> QED BY <2>5, <4>1, <4>2, <4>4, <5>1
      <4> QED BY <4>3, <4>4
    <3> HIDE DEF r
    <3> QED BY <3>1, <3>2, <3>3
  <2> QED BY <2>2, <2>6
<1>3. PICK r : Upward(m, r)
  BY <1>2
<1>4. r = MergeOf(lists, r)
  <2>1. ASSUME NEW i \in 0..m PROVE r[i] = MergeOf(lists, r)[i]
    <3>1. MergeOf(lists, r)[i] = IF i = 0 THEN Start ELSE Taken(lists, r[i - 1])
      BY <1>1 DEF MergeOf
    <3> HIDE DEF Start
    <3>2. CASE i = 0
      BY <1>3, <3>1, <3>2
    <3>3. CASE i # 0
      <4>1. i \in 1..m
        BY <3>3
      <4> QED BY <1>3, <3>1, <3>3, <4>1
    <3> QED BY <3>2, <3>3
  <2>2. MergeOf(lists, r) = [i \in 0..m |-> MergeOf(lists, r)[i]]
    BY <1>1 DEF MergeOf
  <2> QED BY <1>3, <2>1, <2>2
<1> QED BY <1>4

LEMMA AllAreMerging ==
  ASSUME K \in Nat, NEW lists, NEW sets, NEW L, ListsOf(lists, sets, L),
         NEW r, r = MergeOf(lists, r)
  PROVE  Merging(lists, sets, L, r[K], K)
<1> DEFINE T == {n \in Nat : n <= K /\ ~Merging(lists, sets, L, r[n], n)}
<1>1. PICK m \in Nat : m = K
  OBVIOUS
<1> SUFFICES ASSUME m \in T PROVE FALSE
  BY <1>1
<1>2. PICK n \in T : \A k \in T : n <= k
  <2>1. T \subseteq Nat /\ T # {}
    OBVIOUS
  <2> HIDE DEF T
  <2> QED BY <2>1, LeastOfNaturals
<1>3. n \in Nat /\ n <= m /\ ~Merging(lists, sets, L, r[n], n)
  BY <1>1
<1>4. n # 0
  <2>1. PICK s : s = r[0]
    OBVIOUS
  <2>2. s = [out |-> <<>>, at |-> [l \in 1..L |-> 1]]
    <3>1. MergeOf(lists, r)[0] = [out |-> <<>>, at |-> [l \in DOMAIN lists |-> 1]]
      BY <1>1 DEF MergeOf
    <3> QED BY <2>1, <3>1 DEF ListsOf
  <2>3. s.out = <<>> /\ s.at \in [1..L -> Nat] /\ \A l \in 1..L : s.at[l] = 1
    BY <2>2
  <2>4. Len(s.out) = 0 /\ \A i : i \notin 1..Len(s.out)
    BY <2>3
  <2>5. \A l \in 1..L : Len(lists[l]) \in Nat
    <3>1. \A l \in 1..L : lists[l] \in Seq(sets[l])
      BY DEF ListsOf, BestOf
    <3> QED BY <3>1
  <2>6. \A l \in 1..L : s.at[l] \in 1..(Len(lists[l]) + 1)
    BY <2>3, <2>5
  <2>7. \A x : ~Has(s.out, x)
    BY <2>4 DEF Has
  <2>8. \A x : ~Passed(lists, s, L, x)
    <3>1. \A l \in 1..L : 1..(s.at[l] - 1) = {}
      BY <2>3
    <3> QED BY <3>1 DEF Passed
  <2>9. s.out \in Seq(Whole(sets, L))
    BY <2>3
  <2>10. Differ(s.out) /\ Descending(s.out)
    BY <2>4 DEF Differ, Descending
  <2>11. Merging(lists, sets, L, s, 0)
    BY <2>3, <2>4, <2>6, <2>7, <2>8, <2>9, <2>10 DEF Merging
  <2> QED BY <1>3, <2>1, <2>11
<1>5. n - 1 \in Nat /\ n - 1 \notin T
  <2>1. n - 1 \in Nat /\ ~(n <= n - 1)
    BY <1>3, <1>4
  <2> HIDE DEF T
  <2> QED BY <1>2, <2>1
<1>6. Merging(lists, sets, L, r[n - 1], n - 1)
  BY <1>1, <1>3, <1>5
<1>7. r[n] = Taken(lists, r[n - 1])
  <2>1. n \in 0..K
    BY <1>1, <1>3
  <2>2. MergeOf(lists, r)[n] = Taken(lists, r[n - 1])
    BY <1>4, <2>1 DEF MergeOf
  <2> QED BY <2>2
<1>8. Merging(lists, sets, L, r[n], n - 1 + 1)
  BY <1>5, <1>6, <1>7, TakenIsMerging
<1>9. n - 1 + 1 = n
  BY <1>3
<1> QED BY <1>3, <1>8, <1>9

\* K times the largest head makes the best of all.
LEMMA MergeIsBest ==
  ASSUME K \in Nat \ {0}, NEW lists, NEW sets, NEW L, ListsOf(lists, sets, L)
  PROVE  BestOf(Trie!MergeTopK(lists), Whole(sets, L))
<1> DEFINE r == CHOOSE f : f = MergeOf(lists, f)
<1>1. Trie!MergeTopK(lists) = r[K].out
  BY DEF Trie!MergeTopK, MergeOf, Taken, Left, Largest, HeadOf
<1>2. r = MergeOf(lists, r)
  BY MergeIsThere
<1> HIDE DEF r
<1>3. PICK m : m = r[K]
  OBVIOUS
<1>4. Merging(lists, sets, L, m, K)
  BY <1>2, <1>3, AllAreMerging
<1>5. PICK t : t = m.out
  OBVIOUS
<1>6. /\ t \in Seq(Whole(sets, L)) /\ Differ(t) /\ Descending(t) /\ Len(t) \in Nat
      /\ \A x : Has(t, x) <=> Passed(lists, m, L, x)
      /\ Len(t) = K \/ (Len(t) < K /\ \A l \in 1..L : m.at[l] = Len(lists[l]) + 1)
  BY <1>4, <1>5 DEF Merging
<1>7. \A l \in 1..L : /\ lists[l] \in Seq(sets[l]) /\ Differ(lists[l]) /\ Len(lists[l]) \in Nat
                      /\ m.at[l] \in Nat /\ m.at[l] \in 1..(Len(lists[l]) + 1)
  BY <1>4 DEF ListsOf, BestOf, Merging
<1>8. ASSUME NEW l \in 1..L, m.at[l] = Len(lists[l]) + 1, Len(lists[l]) = K
      PROVE  Len(t) = K /\ \A i \in 1..Len(t) : Has(lists[l], t[i])
  <2>1. \A i \in 1..Len(lists[l]) : Has(t, lists[l][i])
    <3>1. 1..(m.at[l] - 1) = 1..Len(lists[l])
      BY <1>7, <1>8
    <3> QED BY <1>6, <3>1 DEF Passed
  <2>2. Len(lists[l]) <= Len(t) /\ (Len(lists[l]) = Len(t) => \A i \in 1..Len(t) : Has(lists[l], t[i]))
    BY <1>6, <1>7, <2>1, Pigeons
  <2>3. Len(t) = K
    BY <1>6, <1>8, <2>2
  <2> QED BY <1>8, <2>2, <2>3
<1>9. ASSUME NEW e \in Whole(sets, L), ~Has(t, e)
      PROVE  Len(t) = K /\ \A i \in 1..Len(t) : e.freq <= t[i].freq
  <2>1. PICK l \in 1..L : e \in sets[l]
    BY DEF Whole
  <2>2. /\ Len(lists[l]) = K \/ (Len(lists[l]) < K /\ Has(lists[l], e))
        /\ Has(lists[l], e) \/ \A i \in 1..Len(lists[l]) : e.freq <= lists[l][i].freq
    BY <2>1 DEF ListsOf, BestOf
  <2>3. CASE Has(lists[l], e)
    <3>1. PICK j \in 1..Len(lists[l]) : lists[l][j] = e
      BY <2>3 DEF Has
    <3>2. j >= m.at[l]
      <4>1. j \notin 1..(m.at[l] - 1)
        BY <1>6, <1>9, <3>1 DEF Passed
      <4> QED BY <1>7, <4>1
    <3>3. m.at[l] # Len(lists[l]) + 1
      BY <1>7, <3>2
    <3> QED BY <1>4, <1>5, <1>6, <3>1, <3>2, <3>3 DEF Merging
  <2>4. CASE ~Has(lists[l], e)
    <3>1. Len(lists[l]) = K /\ \A i \in 1..Len(lists[l]) : e.freq <= lists[l][i].freq
      BY <2>2, <2>4
    <3>2. CASE m.at[l] = Len(lists[l]) + 1
      <4>1. Len(t) = K /\ \A i \in 1..Len(t) : Has(lists[l], t[i])
        BY <1>8, <3>1, <3>2
      <4> QED BY <3>1, <4>1 DEF Has
    <3>3. CASE m.at[l] # Len(lists[l]) + 1
      <4>1. PICK j \in 1..Len(lists[l]) : j = m.at[l] /\ j >= m.at[l]
        BY <1>7, <3>3
      <4>2. Len(t) = K
        BY <1>6, <3>3
      <4>3. \A i \in 1..Len(t) : lists[l][j].freq <= t[i].freq
        BY <1>4, <1>5, <4>1 DEF Merging
      <4>4. lists[l][j].freq \in Int /\ e.freq \in Int
        <5>1. lists[l][j] \in sets[l] /\ Weighed(sets[l])
          BY <1>7 DEF ListsOf
        <5> QED BY <2>1, <5>1 DEF Weighed
      <4>5. \A i \in 1..Len(t) : t[i].freq \in Int
        <5>1. \A i \in 1..Len(t) : t[i] \in Whole(sets, L)
          BY <1>6
        <5>2. \A x \in Whole(sets, L) : x.freq \in Int
          BY DEF Whole, ListsOf, Weighed
        <5> QED BY <5>1, <5>2
      <4>6. e.freq <= lists[l][j].freq
        BY <3>1
      <4> QED BY <4>2, <4>3, <4>4, <4>5, <4>6
    <3> QED BY <3>2, <3>3
  <2> QED BY <2>3, <2>4
<1>10. Len(t) = K \/ (Len(t) < K /\ \A e \in Whole(sets, L) : Has(t, e))
  BY <1>6, <1>9
<1>11. BestOf(t, Whole(sets, L))
  BY <1>6, <1>9, <1>10 DEF BestOf
<1> QED BY <1>1, <1>3, <1>5, <1>11

-----------------------------------------------------------------------------
(* The trie: from the bottom up *)

\* Finitely many paths, with all that leads to them.
Shape ==
  /\ IsFiniteSet(DOMAIN node) /\ DOMAIN node \subseteq Seq(Nat) /\ <<>> \in DOMAIN node
  /\ \A p \in DOMAIN node : \A n \in 0..Len(p) : SubSeq(p, 1, n) \in DOMAIN node
  /\ \A p \in DOMAIN node : node[p].freq \in Int

Weight(spelled, q) == [word |-> spelled[q], freq |-> node[q].freq]

WordsUnder(p) == {q \in DOMAIN node : Trie!IsPrefix(p, q) /\ node[q].isWord}

Below(spelled, p) == {Weight(spelled, q) : q \in WordsUnder(p)}

\* No two paths under p are spelled alike.
Distinct(spelled, p) ==
  \A q, r \in DOMAIN node :
    Trie!IsPrefix(p, q) /\ Trie!IsPrefix(p, r) /\ spelled[q] = spelled[r] => q = r

ListsAt(spelled, p, f) ==
  Trie!Own(p, spelled[p]) \o [i \in DOMAIN Trie!SetToSeq(Trie!Children(p)) |->
                                f[Trie!SetToSeq(Trie!Children(p))[i]]]

AtNode(spelled, p, f) ==
  IF Len(ListsAt(spelled, p, f)) = 1 THEN ListsAt(spelled, p, f)[1]
  ELSE Trie!MergeTopK(ListsAt(spelled, p, f))

LEMMA PrefixIsBegin ==
  ASSUME NEW p \in Seq(Nat), NEW q \in Seq(Nat)
  PROVE  Trie!IsPrefix(p, q) <=> Len(p) <= Len(q) /\ \A i \in 1..Len(p) : p[i] = q[i]
<1>1. PICK n \in Nat : n = Len(p)
  OBVIOUS
<1>2. CASE n <= Len(q)
  <2>1. SubSeq(p, 1, n) = [i \in 1..n |-> p[i]]
    BY <1>1
  <2>2. SubSeq(q, 1, n) = [i \in 1..n |-> q[i]]
    BY <1>1, <1>2
  <2>3. SubSeq(p, 1, n) = SubSeq(q, 1, n) <=> \A i \in 1..n : p[i] = q[i]
    BY <2>1, <2>2
  <2> QED BY <1>1, <1>2, <2>3 DEF Trie!IsPrefix
<1>3. CASE ~(n <= Len(q))
  BY <1>1, <1>3 DEF Trie!IsPrefix
<1> QED BY <1>2, <1>3

LEMMA NodesAreNested ==
  ASSUME Shape, NEW p \in DOMAIN node, NEW q \in DOMAIN node, Trie!IsPrefix(p, q)
  PROVE  /\ \A c \in Trie!Children(p) : c \in DOMAIN node /\ Trie!IsPrefix(p, c)
         /\ \A c \in DOMAIN node : Trie!IsPrefix(q, c) => Trie!IsPrefix(p, c)
         /\ p = q \/ \E c \in Trie!Children(p) : Trie!IsPrefix(c, q)
         /\ \A c, d \in Trie!Children(p) : Trie!IsPrefix(c, q) /\ Trie!IsPrefix(d, q) => c = d
         /\ \A c \in Trie!Children(p) : ~Trie!IsPrefix(c, p)
<1>1. p \in Seq(Nat) /\ q \in Seq(Nat) /\ \A c \in DOMAIN node : c \in Seq(Nat)
  BY DEF Shape
<1>2. Len(p) \in Nat /\ Len(q) \in Nat /\ \A c \in DOMAIN node : Len(c) \in Nat
  BY <1>1
<1>3. Len(p) <= Len(q) /\ \A i \in 1..Len(p) : p[i] = q[i]
  BY <1>1, PrefixIsBegin
<1>4. \A c \in Trie!Children(p) :
        c \in DOMAIN node /\ Trie!IsPrefix(p, c) /\ c \in Seq(Nat) /\ Len(c) = Len(p) + 1
  BY <1>1 DEF Trie!Children
<1>5. ASSUME NEW c \in DOMAIN node, Trie!IsPrefix(q, c) PROVE Trie!IsPrefix(p, c)
  <2>1. c \in Seq(Nat)
    BY <1>1
  <2>2. Len(q) <= Len(c) /\ \A i \in 1..Len(q) : q[i] = c[i]
    BY <1>1, <1>5, <2>1, PrefixIsBegin
  <2>3. Len(p) <= Len(c)
    BY <1>2, <1>3, <2>2
  <2>4. \A i \in 1..Len(p) : p[i] = c[i]
    BY <1>2, <1>3, <2>2
  <2> QED BY <1>1, <2>1, <2>3, <2>4, PrefixIsBegin
<1>6. ASSUME p # q PROVE \E c \in Trie!Children(p) : Trie!IsPrefix(c, q)
  <2>1. Len(p) # Len(q)
    <3> SUFFICES ASSUME Len(p) = Len(q) PROVE p = q
      BY <1>6
    <3> QED BY <1>1, <1>3
  <2>2. PICK n \in Nat : n = Len(p) + 1
    BY <1>2
  <2>3. n \in 0..Len(q) /\ n <= Len(q)
    BY <1>2, <1>3, <2>1, <2>2
  <2>4. PICK c : c = SubSeq(q, 1, n)
    OBVIOUS
  <2>5. c \in Seq(Nat) /\ Len(c) = n /\ \A i \in 1..n : c[i] = q[i]
    BY <1>1, <2>3, <2>4
  <2>6. c \in DOMAIN node
    BY <2>3, <2>4 DEF Shape
  <2>7. Trie!IsPrefix(c, q)
    BY <1>1, <2>3, <2>5, PrefixIsBegin
  <2>8. \A i \in 1..Len(p) : p[i] = c[i]
    BY <1>2, <1>3, <2>2, <2>5
  <2>9. Trie!IsPrefix(p, c)
    <3>1. Len(p) <= Len(c)
      BY <1>2, <2>2, <2>5
    <3> QED BY <1>1, <2>5, <2>8, <3>1, PrefixIsBegin
  <2>10. c \in Trie!Children(p)
    BY <2>2, <2>5, <2>6, <2>9 DEF Trie!Children
  <2> QED BY <2>7, <2>10
<1>7. ASSUME NEW c \in Trie!Children(p), NEW d \in Trie!Children(p),
             Trie!IsPrefix(c, q), Trie!IsPrefix(d, q)
      PROVE  c = d
  <2>1. c \in Seq(Nat) /\ d \in Seq(Nat) /\ Len(c) = Len(d)
    BY <1>4
  <2>2. (\A i \in 1..Len(c) : c[i] = q[i]) /\ (\A i \in 1..Len(d) : d[i] = q[i])
    BY <1>1, <1>7, <2>1, PrefixIsBegin
  <2> QED BY <2>1, <2>2
<1>8. ASSUME NEW c \in Trie!Children(p) PROVE ~Trie!IsPrefix(c, p)
  <2>1. c \in Seq(Nat) /\ ~(Len(c) <= Len(p))
    BY <1>2, <1>4
  <2> QED BY <1>1, <2>1, PrefixIsBegin
<1> QED BY <1>4, <1>5, <1>6, <1>7, <1>8

\* A node has the best of its own word and of what its children have.
LEMMA NodeIsBest ==
  ASSUME K \in Nat \ {0}, Shape, NEW p \in DOMAIN node, NEW spelled, Distinct(spelled, p),
         NEW f, \A c \in Trie!Children(p) : BestOf(f[c], Below(spelled, c))
  PROVE  BestOf(AtNode(spelled, p, f), Below(spelled, p))
<1> DEFINE below == Trie!SetToSeq(Trie!Children(p))
           d == Len(below)
           rec == Weight(spelled, p)
           o == IF node[p].isWord THEN 1 ELSE 0
           L == o + d
           lists == ListsAt(spelled, p, f)
           sets == [l \in 1..L |-> IF l <= o THEN {rec} ELSE Below(spelled, below[l - o])]
<1>1. Trie!Children(p) \subseteq DOMAIN node /\ IsFiniteSet(Trie!Children(p))
  <2>1. Trie!Children(p) \subseteq DOMAIN node /\ IsFiniteSet(DOMAIN node)
    BY DEF Trie!Children, Shape
  <2> QED BY <2>1, FS_Subset
<1>2. /\ below \in Seq(Trie!Children(p)) /\ Differ(below)
      /\ \A c \in Trie!Children(p) : Has(below, c)
  BY <1>1, ListingSets
<1>3. d \in Nat /\ o \in {0, 1} /\ L \in Nat /\ DOMAIN below = 1..d
  BY <1>2
<1>4. \A i \in 1..d : below[i] \in Trie!Children(p) /\ below[i] \in DOMAIN node
  BY <1>1, <1>2
<1>5. lists = Trie!Own(p, spelled[p]) \o [i \in 1..d |-> f[below[i]]]
  BY <1>3 DEF ListsAt
<1> HIDE DEF below, lists
<1>6. /\ DOMAIN lists = 1..L /\ Len(lists) = L
      /\ \A l \in 1..L : lists[l] = IF l <= o THEN <<rec>> ELSE f[below[l - o]]
  <2> DEFINE b == [i \in 1..d |-> f[below[i]]]
             Z == {<<rec>>} \cup {f[below[i]] : i \in 1..d}
  <2>1. b \in Seq(Z) /\ Len(b) = d /\ \A i \in 1..d : b[i] = f[below[i]]
    BY <1>3
  <2>2. Trie!Own(p, spelled[p]) = IF node[p].isWord THEN <<<<rec>>>> ELSE <<>>
    BY DEF Trie!Own, Weight
  <2>3. PICK a : a = Trie!Own(p, spelled[p])
    OBVIOUS
  <2>4. a \in Seq(Z) /\ Len(a) = o /\ (o = 1 => a[1] = <<rec>>)
    <3> HIDE DEF rec
    <3>1. CASE node[p].isWord
      <4>1. a = <<<<rec>>>> /\ <<rec>> \in Z /\ o = 1
        BY <2>2, <2>3, <3>1
      <4> HIDE DEF Z, o
      <4> QED BY <4>1
    <3>2. CASE ~node[p].isWord
      <4>1. a = <<>> /\ o = 0
        BY <2>2, <2>3, <3>2
      <4> HIDE DEF Z, o
      <4> QED BY <4>1
    <3> QED BY <3>1, <3>2
  <2>5. lists = a \o b
    BY <1>5, <2>3
  <2> HIDE DEF b, Z, o, d, rec
  <2>6. lists \in Seq(Z) /\ Len(lists) = o + d
    BY <1>3, <2>1, <2>4, <2>5
  <2>7. \A l \in 1..(o + d) : lists[l] = IF l <= o THEN a[l] ELSE b[l - o]
    BY <1>3, <2>1, <2>4, <2>5
  <2>8. ASSUME NEW l \in 1..(o + d) PROVE lists[l] = IF l <= o THEN <<rec>> ELSE f[below[l - o]]
    <3>1. CASE l <= o
      <4>1. l = 1 /\ o = 1
        BY <1>3, <3>1
      <4> QED BY <2>4, <2>7, <3>1, <4>1
    <3>2. CASE ~(l <= o)
      <4>1. l - o \in 1..d
        BY <1>3, <3>2
      <4> QED BY <2>1, <2>7, <3>2, <4>1
    <3> QED BY <3>1, <3>2
  <2> QED BY <2>6, <2>8
<1> HIDE DEF d, o
<1>7. \A l \in 1..L : l <= o \/ l - o \in 1..d
  BY <1>3
<1>8. Trie!IsPrefix(p, p)
  <2>1. p \in Seq(Nat)
    BY DEF Shape
  <2> QED BY <2>1, PrefixIsBegin
<1>9. o = 1 <=> node[p].isWord
  BY DEF o
<1>10. \A c \in Trie!Children(p) : WordsUnder(c) \subseteq WordsUnder(p) \ {p}
  <2> SUFFICES ASSUME NEW c \in Trie!Children(p), NEW q \in WordsUnder(c)
               PROVE  q \in WordsUnder(p) /\ q # p
    OBVIOUS
  <2>1. c \in DOMAIN node /\ q \in DOMAIN node /\ Trie!IsPrefix(c, q) /\ node[q].isWord
    BY <1>1 DEF WordsUnder
  <2>2. Trie!IsPrefix(p, c) /\ ~Trie!IsPrefix(c, p)
    BY <1>8, NodesAreNested
  <2>3. Trie!IsPrefix(p, q)
    BY <2>1, <2>2, NodesAreNested
  <2> QED BY <2>1, <2>2, <2>3 DEF WordsUnder
<1>11. ASSUME NEW l \in 1..L PROVE Weighed(sets[l]) /\ BestOf(lists[l], sets[l])
  <2>1. CASE l <= o
    <3>1. sets[l] = {rec} /\ lists[l] = <<rec>>
      BY <1>6, <2>1
    <3>2. rec.freq \in Int
      BY DEF Weight, Shape
    <3> HIDE DEF rec
    <3>3. Weighed({rec})
      BY <3>2 DEF Weighed
    <3>4. <<rec>> \in Seq({rec}) /\ Len(<<rec>>) = 1 /\ <<rec>>[1] = rec /\ 1..1 = {1}
      OBVIOUS
    <3>5. Differ(<<rec>>) /\ Descending(<<rec>>) /\ Has(<<rec>>, rec)
      BY <3>4 DEF Differ, Descending, Has
    <3>6. BestOf(<<rec>>, {rec})
      BY <3>4, <3>5 DEF BestOf
    <3> QED BY <3>1, <3>3, <3>6
  <2>2. CASE ~(l <= o)
    <3>1. below[l - o] \in Trie!Children(p)
      BY <1>4, <1>7, <2>2
    <3>2. sets[l] = Below(spelled, below[l - o]) /\ lists[l] = f[below[l - o]]
      BY <1>6, <2>2
    <3>3. Weighed(Below(spelled, below[l - o]))
      BY DEF Weighed, Below, Weight, WordsUnder, Shape
    <3> QED BY <3>1, <3>2, <3>3
  <2> QED BY <2>1, <2>2
<1>12. ASSUME NEW q \in WordsUnder(p), NEW r \in WordsUnder(p), Weight(spelled, q) = Weight(spelled, r)
       PROVE  q = r
  <2>1. spelled[q] = spelled[r]
    BY <1>12 DEF Weight
  <2> QED BY <2>1 DEF WordsUnder, Distinct
<1>13. ASSUME NEW l \in 1..L, NEW j \in 1..L, l # j, NEW x \in sets[l], x \in sets[j] PROVE FALSE
  <2>1. ASSUME NEW i \in 1..L, NEW y \in sets[i]
        PROVE  \/ i <= o /\ y = rec /\ p \in WordsUnder(p)
               \/ ~(i <= o) /\ \E q \in WordsUnder(below[i - o]) : y = Weight(spelled, q)
    <3>1. CASE i <= o
      <4>1. o = 1
        BY <1>3, <3>1
      <4>2. p \in WordsUnder(p)
        BY <1>8, <1>9, <4>1 DEF WordsUnder
      <4> QED BY <2>1, <3>1, <4>2
    <3>2. CASE ~(i <= o)
      <4>1. y \in Below(spelled, below[i - o])
        BY <2>1, <3>2
      <4> QED BY <3>2, <4>1 DEF Below
    <3> QED BY <3>1, <3>2
  <2>2. CASE l <= o
    <3>1. ~(j <= o)
      BY <1>3, <1>13, <2>2
    <3>2. PICK q \in WordsUnder(below[j - o]) : x = Weight(spelled, q)
      BY <1>13, <2>1, <3>1
    <3>3. q \in WordsUnder(p) /\ q # p
      BY <1>4, <1>7, <1>10, <3>1
    <3> QED BY <1>12, <2>1, <2>2, <3>2, <3>3
  <2>3. CASE j <= o
    <3>1. ~(l <= o)
      BY <1>3, <1>13, <2>3
    <3>2. PICK q \in WordsUnder(below[l - o]) : x = Weight(spelled, q)
      BY <1>13, <2>1, <3>1
    <3>3. q \in WordsUnder(p) /\ q # p
      BY <1>4, <1>7, <1>10, <3>1
    <3> QED BY <1>12, <1>13, <2>1, <2>3, <3>2, <3>3
  <2>4. CASE ~(l <= o) /\ ~(j <= o)
    <3>1. PICK q \in WordsUnder(below[l - o]) : x = Weight(spelled, q)
      BY <1>13, <2>1, <2>4
    <3>2. PICK r \in WordsUnder(below[j - o]) : x = Weight(spelled, r)
      BY <1>13, <2>1, <2>4
    <3>3. /\ below[l - o] \in Trie!Children(p) /\ below[j - o] \in Trie!Children(p)
          /\ l - o \in 1..d /\ j - o \in 1..d /\ l - o # j - o
      BY <1>3, <1>4, <1>7, <1>13, <2>4
    <3>4. q = r
      BY <1>10, <1>12, <3>1, <3>2, <3>3
    <3>5. below[l - o] = below[j - o]
      <4>1. q \in DOMAIN node /\ Trie!IsPrefix(p, q)
        BY <1>10, <3>3 DEF WordsUnder
      <4>2. Trie!IsPrefix(below[l - o], q) /\ Trie!IsPrefix(below[j - o], q)
        BY <3>4 DEF WordsUnder
      <4> QED BY <3>3, <4>1, <4>2, NodesAreNested
    <3> QED BY <1>2, <3>3, <3>5 DEF Differ, d
  <2> QED BY <2>2, <2>3, <2>4
<1>14. Whole(sets, L) = Below(spelled, p)
  <2>1. ASSUME NEW l \in 1..L, NEW x \in sets[l] PROVE x \in Below(spelled, p)
    <3>1. CASE l <= o
      <4>1. o = 1 /\ x = rec
        BY <1>3, <2>1, <3>1
      <4>2. p \in WordsUnder(p)
        BY <1>8, <1>9, <4>1 DEF WordsUnder
      <4> QED BY <4>1, <4>2 DEF Below
    <3>2. CASE ~(l <= o)
      <4>1. x \in Below(spelled, below[l - o]) /\ below[l - o] \in Trie!Children(p)
        BY <1>4, <1>7, <2>1, <3>2
      <4> QED BY <1>10, <4>1 DEF Below
    <3> QED BY <3>1, <3>2
  <2>2. ASSUME NEW x \in Below(spelled, p) PROVE \E l \in 1..L : x \in sets[l]
    <3>1. PICK q \in WordsUnder(p) : x = Weight(spelled, q)
      BY <2>2 DEF Below
    <3>2. CASE q = p
      <4>1. o = 1
        BY <1>9, <3>2 DEF WordsUnder
      <4>2. 1 \in 1..L /\ sets[1] = {rec}
        BY <1>3, <4>1
      <4> QED BY <3>1, <3>2, <4>2
    <3>3. CASE q # p
      <4>1. q \in DOMAIN node /\ Trie!IsPrefix(p, q) /\ node[q].isWord
        BY DEF WordsUnder
      <4>2. PICK c \in Trie!Children(p) : Trie!IsPrefix(c, q)
        BY <3>3, <4>1, NodesAreNested
      <4>3. PICK i \in 1..d : below[i] = c
        BY <1>2 DEF Has, d
      <4>4. PICK l \in 1..L : ~(l <= o) /\ l - o = i
        <5>1. PICK l : l = i + o
          OBVIOUS
        <5>2. l \in 1..L /\ ~(l <= o) /\ l - o = i
          BY <1>3, <5>1
        <5> QED BY <5>2
      <4>5. sets[l] = Below(spelled, c)
        BY <4>3, <4>4
      <4>6. x \in Below(spelled, c)
        BY <3>1, <4>1, <4>2 DEF Below, WordsUnder
      <4> QED BY <4>4, <4>5, <4>6
    <3> QED BY <3>2, <3>3
  <2> HIDE DEF sets, L
  <2> QED BY <2>1, <2>2 DEF Whole
<1>15. ListsOf(lists, sets, L)
  <2>1. \A l, j \in 1..L : l # j => sets[l] \cap sets[j] = {}
    <3> HIDE DEF sets, L
    <3> QED BY <1>13
  <2> HIDE DEF sets
  <2> QED BY <1>3, <1>6, <1>11, <2>1 DEF ListsOf
<1> HIDE DEF sets
<1>16. CASE L = 1
  <2>1. AtNode(spelled, p, f) = lists[1]
    BY <1>6, <1>16 DEF AtNode, lists
  <2>2. BestOf(lists[1], sets[1])
    BY <1>11, <1>16
  <2>3. Whole(sets, L) = sets[1]
    <3>1. 1..L = {1}
      BY <1>16
    <3> QED BY <3>1 DEF Whole
  <2> QED BY <1>14, <2>1, <2>2, <2>3
<1>17. CASE L # 1
  <2>1. AtNode(spelled, p, f) = Trie!MergeTopK(lists)
    BY <1>6, <1>17 DEF AtNode, lists
  <2> QED BY <1>14, <1>15, <2>1, MergeIsBest
<1> QED BY <1>16, <1>17

TopsOf(S, spelled, f) == [p \in S |-> AtNode(spelled, p, f)]

\* All that is under a path in S is in S too.
Grown(S) ==
  S \subseteq DOMAIN node /\ \A p \in S : \A q \in DOMAIN node : Trie!IsPrefix(p, q) => q \in S

\* The paths have a longest one.
LEMMA PathsAreShort ==
  ASSUME Shape
  PROVE  \E m \in Nat : \A p \in DOMAIN node : Len(p) \in Nat /\ Len(p) <= m
<1> DEFINE f == [p \in DOMAIN node |-> Len(p)]
           P == {f[p] : p \in DOMAIN node}
<1>1. \A p \in DOMAIN node : Len(p) \in Nat
  BY DEF Shape
<1>2. P \in SUBSET Nat /\ P # {}
  BY <1>1 DEF Shape
<1>3. IsFiniteSet(P)
  <2>1. IsFiniteSet(DOMAIN node)
    BY DEF Shape
  <2> HIDE DEF f
  <2> QED BY <2>1, ImageIsFinite
<1>4. \A p \in DOMAIN node : Len(p) \in P
  OBVIOUS
<1> HIDE DEF P
<1> DEFINE g == [i \in P |-> i]
<1>5. \A i \in P : g[i] \in Int
  BY <1>2
<1>6. \E i \in P : \A j \in P : g[j] <= g[i]
  <2> HIDE DEF g
  <2> QED BY <1>2, <1>3, <1>5, OneIsGreatest
<1>7. PICK m \in P : \A j \in P : j <= m
  BY <1>6
<1> QED BY <1>1, <1>2, <1>4, <1>7

\* Another function with the same values at the children of p.
LEMMA AtNodeStays ==
  ASSUME Shape, NEW p \in DOMAIN node, NEW spelled, NEW f, NEW g,
         \A c \in Trie!Children(p) : f[c] = g[c]
  PROVE  AtNode(spelled, p, f) = AtNode(spelled, p, g)
<1> DEFINE below == Trie!SetToSeq(Trie!Children(p))
<1>1. below \in Seq(Trie!Children(p))
  <2>1. Trie!Children(p) \subseteq DOMAIN node /\ IsFiniteSet(DOMAIN node)
    BY DEF Trie!Children, Shape
  <2> QED BY <2>1, FS_Subset, ListingSets
<1> HIDE DEF below
<1>2. \A i \in DOMAIN below : below[i] \in Trie!Children(p)
  BY <1>1
<1>3. [i \in DOMAIN below |-> f[below[i]]] = [i \in DOMAIN below |-> g[below[i]]]
  BY <1>2
<1>4. ListsAt(spelled, p, f) = ListsAt(spelled, p, g)
  BY <1>3 DEF ListsAt, below
<1> QED BY <1>4 DEF AtNode

LEMMA TopsAreThere ==
  ASSUME Shape, NEW S, Grown(S), NEW spelled
  PROVE  \E f : f = TopsOf(S, spelled, f)
<1>1. PICK m \in Nat : \A p \in DOMAIN node : Len(p) \in Nat /\ Len(p) <= m
  BY PathsAreShort
<1> DEFINE Deep(n) == {p \in S : Len(p) + n > m}
           Upward(n, f) == \A p \in Deep(n) : f[p] = AtNode(spelled, p, f)
           T == {n \in Nat : ~(\E f : Upward(n, f))}
<1>2. S \subseteq DOMAIN node
  BY DEF Grown
<1>3. \A p \in S : \A c \in Trie!Children(p) : c \in S /\ Len(c) = Len(p) + 1
  BY <1>2 DEF Grown, Trie!Children
<1>4. T = {}
  <2> SUFFICES ASSUME T # {} PROVE FALSE
    OBVIOUS
  <2>1. PICK n \in T : \A k \in T : n <= k
    <3>1. T \subseteq Nat
      OBVIOUS
    <3> HIDE DEF T
    <3> QED BY <3>1, LeastOfNaturals
  <2>2. n \in Nat /\ ~(\E f : Upward(n, f))
    OBVIOUS
  <2>3. n # 0
    <3>1. Deep(0) = {}
      BY <1>1, <1>2
    <3> HIDE DEF Deep
    <3>2. Upward(0, <<>>)
      BY <3>1
    <3> HIDE DEF Upward
    <3> QED BY <2>2, <3>2
  <2>4. n - 1 \in Nat /\ n - 1 \notin T
    <3>1. n - 1 \in Nat /\ ~(n <= n - 1)
      BY <2>2, <2>3
    <3> HIDE DEF T
    <3> QED BY <2>1, <3>1
  <2>5. PICK g : Upward(n - 1, g)
    BY <2>4
  <2> DEFINE f == [p \in S |-> IF p \in Deep(n - 1) THEN g[p] ELSE AtNode(spelled, p, g)]
  <2>6. ASSUME NEW p \in Deep(n) PROVE f[p] = AtNode(spelled, p, f)
    <3>1. p \in S /\ p \in DOMAIN node /\ Len(p) \in Nat /\ Len(p) + n > m
      BY <1>1, <1>2
    <3>2. \A c \in Trie!Children(p) : c \in Deep(n - 1)
      <4> SUFFICES ASSUME NEW c \in Trie!Children(p) PROVE c \in Deep(n - 1)
        OBVIOUS
      <4>1. c \in S /\ Len(c) = Len(p) + 1
        BY <1>3, <3>1
      <4>2. Len(c) + (n - 1) > m
        BY <1>1, <2>2, <3>1, <4>1
      <4> QED BY <4>1, <4>2
    <3>3. f[p] = AtNode(spelled, p, g)
      <4>1. p \in Deep(n - 1) => g[p] = AtNode(spelled, p, g)
        BY <2>5
      <4> HIDE DEF Deep
      <4> QED BY <3>1, <4>1
    <3>4. \A c \in Trie!Children(p) : f[c] = g[c]
      <4>1. \A c \in Trie!Children(p) : c \in S
        BY <1>3, <3>1
      <4> HIDE DEF Deep
      <4> QED BY <3>2, <4>1
    <3> HIDE DEF f
    <3>5. AtNode(spelled, p, f) = AtNode(spelled, p, g)
      BY <3>1, <3>4, AtNodeStays
    <3> QED BY <3>3, <3>5
  <2> HIDE DEF f, Deep
  <2>7. Upward(n, f)
    BY <2>6
  <2> HIDE DEF Upward
  <2> QED BY <2>2, <2>7
<1>5. m + 1 \notin T /\ m + 1 \in Nat
  <2> HIDE DEF T
  <2> QED BY <1>1, <1>4
<1>6. PICK g : Upward(m + 1, g)
  BY <1>5
<1> DEFINE f == [p \in S |-> g[p]]
<1>7. \A p \in S : p \in Deep(m + 1)
  BY <1>1, <1>2
<1>8. ASSUME NEW p \in S PROVE f[p] = AtNode(spelled, p, f)
  <2>1. \A c \in Trie!Children(p) : f[c] = g[c]
    BY <1>3
  <2>2. p \in DOMAIN node
    BY <1>2
  <2>3. f[p] = g[p]
    OBVIOUS
  <2>4. g[p] = AtNode(spelled, p, g)
    BY <1>6, <1>7
  <2> HIDE DEF f
  <2> QED BY <2>1, <2>2, <2>3, <2>4, AtNodeStays
<1>9. f = [p \in S |-> f[p]]
  OBVIOUS
<1> HIDE DEF f
<1>10. f = TopsOf(S, spelled, f)
  BY <1>8, <1>9 DEF TopsOf
<1> QED BY <1>10

\* Every node has the best of the words under it.
LEMMA TopsAreBest ==
  ASSUME K \in Nat \ {0}, Shape, NEW S, Grown(S), NEW spelled,
         \A p \in S : Distinct(spelled, p)
  PROVE  \A p \in S : BestOf(Trie!Tops(S, spelled)[p], Below(spelled, p))
<1> DEFINE f == CHOOSE g : g = TopsOf(S, spelled, g)
<1>1. Trie!Tops(S, spelled) = f
  BY DEF Trie!Tops, TopsOf, AtNode, ListsAt
<1>2. f = TopsOf(S, spelled, f)
  BY TopsAreThere
<1> HIDE DEF f
<1>3. PICK m \in Nat : \A p \in DOMAIN node : Len(p) \in Nat /\ Len(p) <= m
  BY PathsAreShort
<1> DEFINE T == {n \in Nat : \E p \in S : Len(p) + n > m /\ ~BestOf(f[p], Below(spelled, p))}
<1>4. S \subseteq DOMAIN node
  BY DEF Grown
<1>5. \A p \in S : \A c \in Trie!Children(p) : c \in S /\ Len(c) = Len(p) + 1
  BY <1>4 DEF Grown, Trie!Children
<1>6. T = {}
  <2> SUFFICES ASSUME T # {} PROVE FALSE
    OBVIOUS
  <2>1. PICK n \in T : \A k \in T : n <= k
    <3>1. T \subseteq Nat
      OBVIOUS
    <3> HIDE DEF T
    <3> QED BY <3>1, LeastOfNaturals
  <2>2. PICK p \in S : Len(p) + n > m /\ ~BestOf(f[p], Below(spelled, p))
    OBVIOUS
  <2>3. n \in Nat /\ p \in DOMAIN node /\ Len(p) \in Nat /\ Len(p) <= m
    BY <1>3, <1>4
  <2>4. n # 0
    BY <2>2, <2>3
  <2>5. n - 1 \in Nat /\ n - 1 \notin T
    <3>1. n - 1 \in Nat /\ ~(n <= n - 1)
      BY <2>3, <2>4
    <3> HIDE DEF T
    <3> QED BY <2>1, <3>1
  <2>6. ASSUME NEW c \in Trie!Children(p) PROVE BestOf(f[c], Below(spelled, c))
    <3>1. c \in S /\ Len(c) = Len(p) + 1
      BY <1>5
    <3>2. Len(c) + (n - 1) > m
      BY <1>3, <2>2, <2>3, <3>1
    <3> QED BY <2>5, <3>1, <3>2
  <2> HIDE DEF T
  <2>7. BestOf(AtNode(spelled, p, f), Below(spelled, p))
    BY <2>3, <2>6, NodeIsBest
  <2>8. f[p] = AtNode(spelled, p, f)
    <3>1. TopsOf(S, spelled, f)[p] = AtNode(spelled, p, f)
      BY DEF TopsOf
    <3> QED BY <1>2, <3>1
  <2> QED BY <2>2, <2>7, <2>8
<1>7. ASSUME NEW p \in S PROVE BestOf(f[p], Below(spelled, p))
  <2>1. m + 1 \notin T /\ m + 1 \in Nat
    <3> HIDE DEF T
    <3> QED BY <1>3, <1>6
  <2>2. Len(p) + (m + 1) > m
    BY <1>3, <1>4
  <2> QED BY <2>1, <2>2
<1> QED BY <1>1, <1>7

-----------------------------------------------------------------------------
(* The trie: what it keeps *)

Runes == [p \in DOMAIN node |-> p]

Bytes == [p \in DOMAIN node |-> Trie!SpelledFromByte(p)]

\* The words of the trie are those of the lines read, with their frequencies.
Listed ==
  /\ DOMAIN listed \subseteq TrieWords
  /\ \A w \in DOMAIN listed : /\ w \in DOMAIN node /\ listed[w] \in Int
                              /\ node[w].isWord /\ node[w].freq = listed[w]
  /\ \A p \in DOMAIN node : node[p].isWord => p \in DOMAIN listed

\* A node keeps the best of its words as its goroutine spells them.
Keeping ==
  /\ DOMAIN top \subseteq DOMAIN node
  /\ \A p \in DOMAIN top : p # <<>> => BestOf(top[p], Below(Bytes, p))

\* What has been sent: the best of different children of the root.
AllAreBest(sent, children, words) ==
  /\ \E S : sent \in Seq(S)
  /\ \A i \in 1..Len(sent) : sent[i].from \in children /\ BestOf(sent[i].top, words[sent[i].from])
  /\ \A i, j \in 1..Len(sent) : sent[i].from = sent[j].from => i = j

ByteWords == [p \in DOMAIN node |-> Below(Bytes, p)]

Sending == AllAreBest(results, Trie!Children(<<>>), ByteWords)

RootIsBest ==
  <<>> \in DOMAIN top /\ (Trie!FromAscii(<<>>) => BestOf(top[<<>>], Below(Runes, <<>>)))

TInv ==
  /\ Shape /\ Listed /\ Keeping /\ Sending
  /\ phase \in {"reading", "caching", "serving"}
  /\ phase = "reading" => top = <<>> /\ results = <<>>
  /\ phase # "serving" => <<>> \notin DOMAIN top
  /\ phase = "serving" => RootIsBest

LEMMA TrieConstants ==
  TrieWords \subseteq Seq(Nat) \ {<<>>} /\ TrieFreqs \subseteq Int /\ K \in Nat \ {0}
BY ProgramsAssumption DEF Trie!TrieAssumption

LEMMA TrieStarts == Trie!TrieInit => TInv
<1> SUFFICES ASSUME Trie!TrieInit PROVE TInv
  OBVIOUS
<1> USE DEF Trie!TrieInit
<1>1. DOMAIN node = {<<>>} /\ node[<<>>] = [isWord |-> FALSE, freq |-> 0]
  BY DEF Trie!Inner
<1>2. Shape
  <2>1. <<>> \in Seq(Nat) /\ Len(<<>>) = 0 /\ SubSeq(<<>>, 1, 0) = <<>>
    OBVIOUS
  <2>2. IsFiniteSet({<<>>})
    BY FS_Singleton
  <2>3. \A p \in DOMAIN node : \A n \in 0..Len(p) : SubSeq(p, 1, n) \in DOMAIN node
    BY <1>1, <2>1
  <2>4. \A p \in DOMAIN node : node[p].freq \in Int
    BY <1>1
  <2>5. DOMAIN node \subseteq Seq(Nat) /\ <<>> \in DOMAIN node /\ IsFiniteSet(DOMAIN node)
    BY <1>1, <2>1, <2>2
  <2> HIDE DEF Trie!TrieInit
  <2> QED BY <2>3, <2>4, <2>5 DEF Shape
<1>3. DOMAIN listed = {} /\ DOMAIN top = {} /\ Len(results) = 0 /\ results \in Seq({})
  OBVIOUS
<1>4. Listed
  BY <1>1, <1>3 DEF Listed
<1>5. Keeping /\ Sending
  BY <1>3 DEF Keeping, Sending, AllAreBest
<1> QED BY <1>2, <1>3, <1>4, <1>5 DEF TInv

\* A line puts the paths to its word in, and the word.
LEMMA InsertKeeps ==
  ASSUME TInv, NEW word \in TrieWords, NEW freq \in TrieFreqs, Trie!Insert(word, freq)
  PROVE  TInv'
<1>1. word \in Seq(Nat) /\ word # <<>> /\ freq \in Int
  BY TrieConstants
<1>2. PICK old : old = DOMAIN node
  OBVIOUS
<1>3. PICK P : P = Trie!Prefixes(word)
  OBVIOUS
<1>4. PICK new : new = node'
  OBVIOUS
<1>5. /\ DOMAIN new = old \cup P \cup {word}
      /\ \A p \in old \cup P \cup {word} :
           new[p] = IF p = word THEN [isWord |-> TRUE, freq |-> freq]
                    ELSE IF p \in old THEN node[p] ELSE [isWord |-> FALSE, freq |-> 0]
  BY <1>2, <1>3, <1>4 DEF Trie!Insert, Trie!With, Trie!Inner
<1>6. P = {SubSeq(word, 1, n) : n \in 0..Len(word)}
  BY <1>3 DEF Trie!Prefixes
<1>7. ASSUME NEW n \in 0..Len(word)
      PROVE  /\ SubSeq(word, 1, n) \in Seq(Nat) /\ Len(SubSeq(word, 1, n)) = n
             /\ \A k \in 0..n : SubSeq(SubSeq(word, 1, n), 1, k) = SubSeq(word, 1, k)
  BY <1>1
<1>8. word \in P
  <2>1. SubSeq(word, 1, Len(word)) = word /\ Len(word) \in 0..Len(word)
    BY <1>1
  <2> QED BY <1>6, <2>1
<1>9. IsFiniteSet(P)
  <2> DEFINE f == [n \in 0..Len(word) |-> SubSeq(word, 1, n)]
  <2>1. 0 \in Int /\ Len(word) \in Int
    BY <1>1
  <2>2. IsFiniteSet(0..Len(word))
    BY <2>1, FS_Interval
  <2>3. P = {f[n] : n \in 0..Len(word)}
    BY <1>6
  <2> HIDE DEF f
  <2> QED BY <2>2, <2>3, ImageIsFinite
<1>10. /\ IsFiniteSet(old) /\ old \subseteq Seq(Nat) /\ <<>> \in old
       /\ \A p \in old : \A n \in 0..Len(p) : SubSeq(p, 1, n) \in old
       /\ \A p \in old : node[p].freq \in Int
  BY <1>2 DEF TInv, Shape
<1>11. DOMAIN new = old \cup P
  BY <1>5, <1>8
<1>12. Shape'
  <2>1. IsFiniteSet(DOMAIN new)
    BY <1>9, <1>10, <1>11, FS_Union
  <2>2. DOMAIN new \subseteq Seq(Nat) /\ <<>> \in DOMAIN new
    BY <1>6, <1>7, <1>10, <1>11
  <2>3. ASSUME NEW p \in DOMAIN new, NEW k \in 0..Len(p) PROVE SubSeq(p, 1, k) \in DOMAIN new
    <3>1. CASE p \in old
      BY <1>10, <1>11, <3>1
    <3>2. CASE p \in P
      <4>1. PICK n \in 0..Len(word) : p = SubSeq(word, 1, n)
        BY <1>6, <3>2
      <4>2. k \in 0..n /\ k \in 0..Len(word)
        BY <1>1, <1>7, <4>1
      <4>3. SubSeq(p, 1, k) = SubSeq(word, 1, k)
        BY <1>7, <4>1, <4>2
      <4> QED BY <1>6, <1>11, <4>2, <4>3
    <3> QED BY <1>11, <3>1, <3>2
  <2>4. ASSUME NEW p \in DOMAIN new PROVE new[p].freq \in Int
    <3>1. new[p] = IF p = word THEN [isWord |-> TRUE, freq |-> freq]
                   ELSE IF p \in old THEN node[p] ELSE [isWord |-> FALSE, freq |-> 0]
      BY <1>5
    <3>2. CASE p = word
      BY <1>1, <3>1, <3>2
    <3>3. CASE p # word /\ p \in old
      BY <1>10, <3>1, <3>3
    <3>4. CASE p # word /\ p \notin old
      <4>1. new[p] = [isWord |-> FALSE, freq |-> 0]
        BY <3>1, <3>4
      <4> QED BY <4>1
    <3> QED BY <3>2, <3>3, <3>4
  <2> QED BY <1>4, <2>1, <2>2, <2>3, <2>4 DEF Shape
<1>13. Listed'
  <2>1. PICK l : l = listed'
    OBVIOUS
  <2>2. /\ DOMAIN l = DOMAIN listed \cup {word}
        /\ \A w \in DOMAIN l : l[w] = IF w = word THEN freq ELSE listed[w]
    BY <2>1 DEF Trie!Insert, Trie!With
  <2>3. /\ DOMAIN listed \subseteq TrieWords
        /\ \A w \in DOMAIN listed :
             w \in old /\ listed[w] \in Int /\ node[w].isWord /\ node[w].freq = listed[w]
        /\ \A p \in old : node[p].isWord => p \in DOMAIN listed
    BY <1>2 DEF TInv, Listed
  <2>4. \A w \in DOMAIN l : w \in DOMAIN new /\ l[w] \in Int /\ new[w].isWord /\ new[w].freq = l[w]
    BY <1>1, <1>5, <2>2, <2>3
  <2>5. \A p \in DOMAIN new : new[p].isWord => p \in DOMAIN l
    BY <1>5, <2>2, <2>3
  <2>6. DOMAIN l \subseteq TrieWords
    BY <2>2, <2>3
  <2> QED BY <1>4, <2>1, <2>4, <2>5, <2>6 DEF Listed
<1>14. phase = "reading" /\ phase' = phase /\ top' = top /\ results' = results
       /\ top = <<>> /\ results = <<>>
  BY DEF Trie!Insert, TInv
<1>15. DOMAIN top' = {} /\ Len(results') = 0 /\ results' \in Seq({})
  BY <1>14
<1>16. Keeping' /\ Sending'
  BY <1>15 DEF Keeping, Sending, AllAreBest
<1> QED BY <1>12, <1>13, <1>14, <1>15, <1>16 DEF TInv

\* The nodes are the same.
LEMMA NodesStay ==
  ASSUME UNCHANGED <<node, listed>>
  PROVE  /\ Shape' <=> Shape
         /\ Listed' <=> Listed
         /\ \A p : Below(Bytes, p)' = Below(Bytes, p)
         /\ \A p : Below(Runes, p)' = Below(Runes, p)
         /\ ByteWords' = ByteWords
         /\ Trie!Children(<<>>)' = Trie!Children(<<>>)
         /\ Trie!FromAscii(<<>>)' <=> Trie!FromAscii(<<>>)
<1>1. Shape' <=> Shape
  BY DEF Shape
<1>2. Listed' <=> Listed
  BY DEF Listed
<1>3. \A p : WordsUnder(p)' = WordsUnder(p)
  BY DEF WordsUnder
<1>4. Bytes' = Bytes /\ Runes' = Runes
  BY DEF Bytes, Runes
<1>5. \A p : Below(Bytes, p)' = Below(Bytes, p)
  BY <1>3, <1>4 DEF Below, Weight
<1>6. \A p : Below(Runes, p)' = Below(Runes, p)
  BY <1>3, <1>4 DEF Below, Weight
<1>7. Trie!Children(<<>>)' = Trie!Children(<<>>)
  BY DEF Trie!Children
<1>8. Trie!FromAscii(<<>>)' <=> Trie!FromAscii(<<>>)
  BY DEF Trie!FromAscii, Trie!Completions
<1>9. ByteWords' = ByteWords
  BY <1>5 DEF ByteWords
<1> QED BY <1>1, <1>2, <1>5, <1>6, <1>7, <1>8, <1>9

LEMMA EndOfFileKeeps ==
  ASSUME TInv, Trie!EndOfFile
  PROVE  TInv'
<1>1. /\ phase = "reading" /\ phase' = "caching" /\ top' = <<>> /\ results' = <<>>
      /\ UNCHANGED <<node, listed>>
  BY DEF Trie!EndOfFile, TInv
<1>2. DOMAIN top' = {} /\ Len(results') = 0 /\ results' \in Seq({})
  BY <1>1
<1>3. Shape' /\ Listed'
  BY <1>1, NodesStay DEF TInv
<1>4. Keeping' /\ Sending'
  BY <1>2 DEF Keeping, Sending, AllAreBest
<1> QED BY <1>1, <1>2, <1>3, <1>4 DEF TInv

LEMMA TrieStutters ==
  ASSUME TInv, UNCHANGED trieOnly
  PROVE  TInv'
<1>1. UNCHANGED <<phase, node, top, results, listed>>
  BY DEF trieOnly
<1>2. Shape' /\ Listed'
  BY <1>1, NodesStay DEF TInv
<1>3. Keeping'
  BY <1>1, NodesStay DEF TInv, Keeping
<1>4. Sending'
  BY <1>1, NodesStay DEF TInv, Sending
<1>5. RootIsBest => RootIsBest'
  BY <1>1, NodesStay DEF RootIsBest
<1> QED BY <1>1, <1>2, <1>3, <1>4, <1>5 DEF TInv

\* Paths of one letter are spelled differently, and right where it is ASCII.
LEMMA Spelling ==
  /\ \A q, r \in Seq(Nat) \ {<<>>} :
       q[1] = r[1] /\ Trie!SpelledFromByte(q) = Trie!SpelledFromByte(r) => q = r
  /\ \A q \in Seq(Nat) \ {<<>>} : Head(q) < 128 => Trie!SpelledFromByte(q) = q
<1>1. \A n \in Nat : Trie!Byte(n) \in Int /\ (n < 128 => Trie!Byte(n) = n)
  BY DEF Trie!Byte
<1>2. ASSUME NEW q \in Seq(Nat) \ {<<>>}
      PROVE  /\ q = <<q[1]>> \o Tail(q) /\ q[1] \in Nat /\ Tail(q) \in Seq(Nat)
             /\ Trie!SpelledFromByte(q) = <<Trie!Byte(q[1])>> \o Tail(q)
  <2>1. Head(q) = q[1] /\ q[1] \in Nat /\ Tail(q) \in Seq(Nat) /\ q = <<q[1]>> \o Tail(q)
    OBVIOUS
  <2> QED BY <2>1 DEF Trie!SpelledFromByte
<1>3. \A x \in Int : \A s, t \in Seq(Nat) : <<x>> \o s = <<x>> \o t => s = t
  <2> SUFFICES ASSUME NEW x \in Int, NEW s \in Seq(Nat), NEW t \in Seq(Nat),
                      <<x>> \o s = <<x>> \o t
               PROVE  s = t
    OBVIOUS
  <2>1. \A w \in Seq(Nat) : /\ Len(<<x>> \o w) = Len(w) + 1
                            /\ \A i \in 1..Len(w) : (<<x>> \o w)[i + 1] = w[i]
    OBVIOUS
  <2>2. PICK u : u = <<x>> \o s /\ u = <<x>> \o t
    OBVIOUS
  <2>3. /\ Len(u) = Len(s) + 1 /\ \A i \in 1..Len(s) : u[i + 1] = s[i]
        /\ Len(u) = Len(t) + 1 /\ \A i \in 1..Len(t) : u[i + 1] = t[i]
    BY <2>1, <2>2
  <2>4. Len(s) = Len(t)
    <3>1. Len(s) \in Nat /\ Len(t) \in Nat
      OBVIOUS
    <3> QED BY <2>3, <3>1
  <2>5. \A i \in 1..Len(s) : s[i] = t[i]
    BY <2>3, <2>4
  <2>6. s = [i \in 1..Len(s) |-> s[i]] /\ t = [i \in 1..Len(t) |-> t[i]]
    OBVIOUS
  <2> QED BY <2>4, <2>5, <2>6
<1>4. ASSUME NEW q \in Seq(Nat) \ {<<>>}, NEW r \in Seq(Nat) \ {<<>>}, q[1] = r[1],
             Trie!SpelledFromByte(q) = Trie!SpelledFromByte(r)
      PROVE  q = r
  <2>1. Trie!Byte(q[1]) \in Int
    BY <1>1, <1>2
  <2>2. Tail(q) = Tail(r)
    <3>1. <<Trie!Byte(q[1])>> \o Tail(q) = <<Trie!Byte(q[1])>> \o Tail(r)
      BY <1>2, <1>4
    <3>2. Tail(q) \in Seq(Nat) /\ Tail(r) \in Seq(Nat)
      OBVIOUS
    <3> QED BY <1>3, <2>1, <3>1, <3>2
  <2> QED BY <1>2, <1>4, <2>2
<1>5. ASSUME NEW q \in Seq(Nat) \ {<<>>}, Head(q) < 128 PROVE Trie!SpelledFromByte(q) = q
  <2>1. Head(q) = q[1]
    OBVIOUS
  <2>2. Trie!Byte(q[1]) = q[1]
    BY <1>1, <1>2, <1>5, <2>1
  <2> QED BY <1>2, <2>2
<1> QED BY <1>4, <1>5

\* A goroutine finds the best of every node of its letter.
LEMMA BranchIsBest ==
  ASSUME Shape, NEW letter, NEW branch,
         branch = {p \in DOMAIN node : p # <<>> /\ p[1] = letter}
  PROVE  \A p \in branch : BestOf(Trie!Tops(branch, [q \in branch |-> Trie!SpelledFromByte(q)])[p],
                                  Below(Bytes, p))
<1> DEFINE spelled == [q \in branch |-> Trie!SpelledFromByte(q)]
<1>1. \A p \in DOMAIN node : p \in Seq(Nat)
  BY DEF Shape
<1>2. ASSUME NEW p \in branch, NEW q \in DOMAIN node, Trie!IsPrefix(p, q) PROVE q \in branch
  <2>1. p \in Seq(Nat) /\ q \in Seq(Nat) /\ p # <<>> /\ p[1] = letter
    BY <1>1
  <2>2. Len(p) <= Len(q) /\ \A i \in 1..Len(p) : p[i] = q[i]
    BY <1>2, <2>1, PrefixIsBegin
  <2>3. 1 \in 1..Len(p) /\ Len(p) \in Nat /\ Len(q) \in Nat
    BY <2>1
  <2>4. q # <<>> /\ q[1] = letter
    BY <2>1, <2>2, <2>3
  <2> QED BY <2>4
<1>3. Grown(branch)
  BY <1>2 DEF Grown
<1>4. \A q \in branch : spelled[q] = Trie!SpelledFromByte(q) /\ Bytes[q] = spelled[q]
  BY DEF Bytes
<1>5. \A q \in branch : q \in DOMAIN node /\ q \in Seq(Nat) \ {<<>>} /\ q[1] = letter
  BY <1>1
<1> HIDE DEF spelled
<1>6. ASSUME NEW p \in branch PROVE Distinct(spelled, p)
  <2> SUFFICES ASSUME NEW q \in DOMAIN node, NEW r \in DOMAIN node,
                      Trie!IsPrefix(p, q), Trie!IsPrefix(p, r), spelled[q] = spelled[r]
               PROVE  q = r
    BY DEF Distinct
  <2>1. q \in branch /\ r \in branch
    BY <1>2
  <2>2. Trie!SpelledFromByte(q) = Trie!SpelledFromByte(r) /\ q[1] = r[1]
    BY <1>4, <1>5, <2>1
  <2> QED BY <1>5, <2>1, <2>2, Spelling
<1>7. \A p \in branch : BestOf(Trie!Tops(branch, spelled)[p], Below(spelled, p))
  BY <1>3, <1>6, TrieConstants, TopsAreBest
<1>8. ASSUME NEW p \in branch PROVE Below(spelled, p) = Below(Bytes, p)
  <2>1. \A q \in WordsUnder(p) : q \in branch
    BY <1>2 DEF WordsUnder
  <2>2. \A q \in WordsUnder(p) : Weight(spelled, q) = Weight(Bytes, q)
    BY <1>4, <2>1 DEF Weight
  <2> QED BY <2>2 DEF Below
<1> QED BY <1>7, <1>8 DEF spelled

LEMMA CacheBranchKeeps ==
  ASSUME TInv, NEW letter, Trie!CacheBranch(letter)
  PROVE  TInv'
<1>1. PICK branch : branch = {p \in DOMAIN node : p # <<>> /\ p[1] = letter}
  OBVIOUS
<1>2. PICK tops : tops = Trie!Tops(branch, [q \in branch |-> Trie!SpelledFromByte(q)])
  OBVIOUS
<1>3. /\ phase = "caching" /\ branch # {} /\ <<letter>> \notin {r.from : r \in Trie!ToSet(results)}
      /\ top' = [p \in DOMAIN top \cup {q \in branch : Len(q) <= CacheDepth} |->
                   IF p \in DOMAIN top THEN top[p] ELSE tops[p]]
      /\ results' = Append(results, [from |-> <<letter>>, top |-> tops[<<letter>>]])
      /\ UNCHANGED <<phase, node, listed>>
  BY <1>1, <1>2 DEF Trie!CacheBranch
<1>4. \A p \in branch : BestOf(tops[p], Below(Bytes, p))
  BY <1>1, <1>2, BranchIsBest DEF TInv
<1>5. branch \subseteq DOMAIN node /\ <<>> \notin branch
  BY <1>1
<1>6. <<letter>> \in branch /\ <<letter>> \in Trie!Children(<<>>)
  <2>1. PICK p \in branch : TRUE
    BY <1>3
  <2>2. p \in DOMAIN node /\ p \in Seq(Nat) /\ p # <<>> /\ p[1] = letter
    BY <1>1 DEF TInv, Shape
  <2>3. 1 \in 0..Len(p) /\ SubSeq(p, 1, 1) = <<letter>> /\ letter \in Nat
    <3>1. p \in Seq(Nat) /\ Len(p) \in Nat /\ Len(p) # 0 /\ p[1] = letter
      BY <2>2
    <3>2. 1 \in 0..Len(p) /\ 1 \in 1..Len(p)
      BY <3>1
    <3>3. letter \in Nat
      BY <3>1, <3>2
    <3>4. SubSeq(p, 1, 1) = [i \in 1..1 |-> p[i]]
      BY <3>1, <3>2
    <3>5. [i \in 1..1 |-> p[i]] = <<letter>>
      BY <3>1
    <3> QED BY <3>2, <3>3, <3>4, <3>5
  <2>4. <<letter>> \in DOMAIN node
    BY <2>2, <2>3 DEF TInv, Shape
  <2>5. <<letter>> \in Seq(Nat) /\ Len(<<letter>>) = 0 + 1 /\ <<letter>>[1] = letter
    BY <2>3
  <2>6. Trie!IsPrefix(<<>>, <<letter>>)
    <3>1. <<>> \in Seq(Nat) /\ Len(<<>>) <= Len(<<letter>>) /\ 1..Len(<<>>) = {}
      BY <2>5
    <3> QED BY <2>5, <3>1, PrefixIsBegin
  <2> QED BY <1>1, <2>4, <2>5, <2>6 DEF Trie!Children
<1>7. Shape' /\ Listed'
  BY <1>3, NodesStay DEF TInv
<1>8. Keeping'
  <2>1. /\ DOMAIN top' = DOMAIN top \cup {q \in branch : Len(q) <= CacheDepth}
        /\ \A p \in DOMAIN top' : top'[p] = IF p \in DOMAIN top THEN top[p] ELSE tops[p]
    BY <1>3
  <2>2. DOMAIN top \subseteq DOMAIN node /\ \A p \in DOMAIN top : p # <<>> => BestOf(top[p], Below(Bytes, p))
    BY DEF TInv, Keeping
  <2>3. ASSUME NEW p \in DOMAIN top', p # <<>> PROVE BestOf(top'[p], Below(Bytes, p)')
    <3>1. CASE p \in DOMAIN top
      BY <1>3, <2>1, <2>2, <2>3, <3>1, NodesStay
    <3>2. CASE p \notin DOMAIN top
      <4>1. p \in branch /\ top'[p] = tops[p]
        BY <2>1, <3>2
      <4> QED BY <1>3, <1>4, <4>1, NodesStay
    <3> QED BY <3>1, <3>2
  <2>4. DOMAIN top' \subseteq DOMAIN node'
    BY <1>3, <1>5, <2>1, <2>2
  <2> QED BY <2>3, <2>4 DEF Keeping
<1>9. Sending'
  <2>1. PICK c : c = Trie!Children(<<>>)
    OBVIOUS
  <2>2. PICK words : words = ByteWords
    OBVIOUS
  <2>3. PICK r : r = [from |-> <<letter>>, top |-> tops[<<letter>>]]
    OBVIOUS
  <2>4. AllAreBest(results, c, words)
    BY <2>1, <2>2 DEF TInv, Sending
  <2>5. PICK S : results \in Seq(S)
    BY <2>4 DEF AllAreBest
  <2>6. PICK m \in Nat : m = Len(results)
    BY <2>5
  <2>7. PICK sent : sent = results'
    OBVIOUS
  <2>8. /\ sent \in Seq(S \cup {r}) /\ Len(sent) = m + 1 /\ sent[m + 1] = r
        /\ \A i \in 1..m : sent[i] = results[i]
    BY <1>3, <2>3, <2>5, <2>6, <2>7
  <2>9. \A i \in 1..(m + 1) : i \in 1..m \/ i = m + 1
    OBVIOUS
  <2>10. r.from = <<letter>> /\ r.top = tops[<<letter>>]
    BY <2>3
  <2>11. \A i \in 1..m : results[i].from # <<letter>>
    <3>1. \A i \in 1..m : i \in DOMAIN results
      BY <2>5, <2>6
    <3> QED BY <1>3, <3>1 DEF Trie!ToSet
  <2>12. r.from \in c /\ BestOf(r.top, words[r.from])
    BY <1>4, <1>5, <1>6, <2>1, <2>2, <2>10 DEF ByteWords
  <2>13. \A i \in 1..m : /\ results[i].from \in c /\ BestOf(results[i].top, words[results[i].from])
                         /\ \A j \in 1..m : results[i].from = results[j].from => i = j
    BY <2>4, <2>6 DEF AllAreBest
  <2>14. \A i \in 1..(m + 1) : sent[i].from \in c /\ BestOf(sent[i].top, words[sent[i].from])
    BY <2>8, <2>9, <2>12, <2>13
  <2>15. \A i, j \in 1..(m + 1) : sent[i].from = sent[j].from => i = j
    BY <2>8, <2>9, <2>10, <2>11, <2>13
  <2>16. AllAreBest(sent, c, words)
    BY <2>8, <2>14, <2>15 DEF AllAreBest
  <2>17. c = Trie!Children(<<>>)' /\ words = ByteWords'
    BY <1>3, <2>1, <2>2, NodesStay
  <2> QED BY <2>7, <2>16, <2>17 DEF Sending
<1>10. phase' = "caching" /\ <<>> \notin DOMAIN top'
  <2>1. <<>> \notin DOMAIN top
    BY <1>3 DEF TInv
  <2> QED BY <1>3, <1>5, <2>1
<1> QED BY <1>7, <1>8, <1>9, <1>10 DEF TInv

\* Where the letters are ASCII, words are spelled as they are.
LEMMA AsciiIsPlain ==
  ASSUME Shape, Listed, NEW p, Trie!FromAscii(p)
  PROVE  Below(Bytes, p) = Below(Runes, p)
<1>1. ASSUME NEW q \in WordsUnder(p) PROVE Weight(Bytes, q) = Weight(Runes, q)
  <2>1. q \in DOMAIN node /\ Trie!IsPrefix(p, q) /\ q \in DOMAIN listed
    BY DEF WordsUnder, Listed
  <2>2. q \in Seq(Nat) \ {<<>>}
    BY <2>1, TrieConstants DEF Listed
  <2>3. Head(q) < 128
    BY <2>1 DEF Trie!FromAscii, Trie!Completions
  <2>4. Trie!SpelledFromByte(q) = q
    BY <2>2, <2>3, Spelling
  <2> QED BY <2>1, <2>4 DEF Weight, Bytes, Runes
<1> QED BY <1>1 DEF Below

\* The lists of all letters make the root's.
LEMMA RootOfAll ==
  ASSUME Shape, Listed, Sending, Len(results) = Cardinality(Trie!Children(<<>>)),
         Trie!FromAscii(<<>>)
  PROVE  BestOf(Trie!MergeTopK([i \in DOMAIN results |-> results[i].top]), Below(Runes, <<>>))
<1> DEFINE C == Trie!Children(<<>>)
           L == Len(results)
           lists == [i \in DOMAIN results |-> results[i].top]
           sets == [i \in 1..L |-> Below(Bytes, results[i].from)]
           froms == [i \in 1..L |-> results[i].from]
           all == Trie!SetToSeq(C)
<1>1. PICK S : results \in Seq(S)
  BY DEF Sending, AllAreBest
<1>2. L \in Nat /\ DOMAIN results = 1..L
  BY <1>1
<1>3. C \subseteq DOMAIN node /\ IsFiniteSet(C)
  <2>1. C \subseteq DOMAIN node /\ IsFiniteSet(DOMAIN node)
    BY DEF Trie!Children, Shape
  <2> QED BY <2>1, FS_Subset
<1>4. all \in Seq(C) /\ Len(all) = L /\ Differ(all) /\ \A x \in C : Has(all, x)
  BY <1>3, ListingSets
<1>5. \A i \in 1..L : /\ results[i].from \in C
                      /\ BestOf(results[i].top, Below(Bytes, results[i].from))
                      /\ \A j \in 1..L : results[i].from = results[j].from => i = j
  BY <1>3 DEF Sending, AllAreBest, ByteWords
<1> HIDE DEF L, C, all
<1>6. froms \in Seq(C) /\ Len(froms) = L /\ \A i \in 1..L : froms[i] = results[i].from
  BY <1>2, <1>5
<1> HIDE DEF froms
<1>7. \A c \in C : \E i \in 1..L : results[i].from = c
  <2>1. Differ(froms)
    BY <1>5, <1>6 DEF Differ
  <2>2. \A i \in 1..Len(froms) : Has(all, froms[i])
    BY <1>4, <1>5, <1>6
  <2>3. \A j \in 1..Len(all) : Has(froms, all[j])
    BY <1>4, <1>6, <2>1, <2>2, Pigeons
  <2> SUFFICES ASSUME NEW c \in C PROVE \E i \in 1..L : results[i].from = c
    OBVIOUS
  <2>4. PICK j \in 1..Len(all) : all[j] = c
    BY <1>4 DEF Has
  <2>5. PICK i \in 1..Len(froms) : froms[i] = c
    BY <2>3, <2>4 DEF Has
  <2> QED BY <1>6, <2>5
<1>8. <<>> \in DOMAIN node /\ <<>> \notin WordsUnder(<<>>)
  <2>1. <<>> \in DOMAIN node
    BY DEF Shape
  <2>2. <<>> \notin DOMAIN listed
    BY TrieConstants DEF Listed
  <2> QED BY <2>1, <2>2 DEF WordsUnder, Listed
<1>9. \A q \in DOMAIN node : Trie!IsPrefix(<<>>, q)
  <2> SUFFICES ASSUME NEW q \in DOMAIN node PROVE Trie!IsPrefix(<<>>, q)
    OBVIOUS
  <2>1. q \in Seq(Nat) /\ <<>> \in Seq(Nat) /\ Len(<<>>) = 0 /\ 1..0 = {}
    BY DEF Shape
  <2>2. Len(q) \in Nat
    BY <2>1
  <2>3. Len(<<>>) <= Len(q) /\ \A i \in 1..Len(<<>>) : <<>>[i] = q[i]
    BY <2>1, <2>2
  <2> QED BY <2>1, <2>3, PrefixIsBegin
<1>10. Below(Bytes, <<>>) = Below(Runes, <<>>)
  BY AsciiIsPlain
<1>11. ASSUME NEW q \in WordsUnder(<<>>) PROVE Weight(Bytes, q).word = q
  <2>1. q \in DOMAIN listed /\ q \in DOMAIN node
    BY DEF WordsUnder, Listed
  <2>2. q \in Seq(Nat) \ {<<>>}
    BY <2>1, TrieConstants DEF Listed
  <2>3. Head(q) < 128
    BY <2>1 DEF Trie!FromAscii, Trie!Completions, WordsUnder
  <2>4. Trie!SpelledFromByte(q) = q
    BY <2>2, <2>3, Spelling
  <2> QED BY <2>1, <2>4 DEF Weight, Bytes
<1>12. \A i \in 1..L : WordsUnder(results[i].from) \subseteq WordsUnder(<<>>)
  BY <1>9 DEF WordsUnder
<1>13. \A i \in 1..L : sets[i] = Below(Bytes, results[i].from) /\ lists[i] = results[i].top
  BY <1>2
<1>14. DOMAIN lists = 1..L
  BY <1>2
<1> HIDE DEF sets, lists
<1>15. \A i \in 1..L : Weighed(sets[i]) /\ BestOf(lists[i], sets[i])
  <2>1. \A q \in DOMAIN node : Weight(Bytes, q).freq \in Int
    BY DEF Weight, Shape
  <2>2. \A p : Weighed(Below(Bytes, p))
    BY <2>1 DEF Weighed, Below, WordsUnder
  <2> QED BY <1>5, <1>13, <2>2
<1>16. \A i, j \in 1..L : i # j => sets[i] \cap sets[j] = {}
  <2> SUFFICES ASSUME NEW i \in 1..L, NEW j \in 1..L, i # j, NEW x \in sets[i], x \in sets[j]
               PROVE  FALSE
    OBVIOUS
  <2>1. PICK q \in WordsUnder(results[i].from) : x = Weight(Bytes, q)
    BY <1>13 DEF Below
  <2>2. PICK r \in WordsUnder(results[j].from) : x = Weight(Bytes, r)
    BY <1>13 DEF Below
  <2>3. q = r
    BY <1>11, <1>12, <2>1, <2>2
  <2>4. /\ q \in DOMAIN node /\ results[i].from \in C /\ results[j].from \in C
        /\ Trie!IsPrefix(results[i].from, q) /\ Trie!IsPrefix(results[j].from, q)
    BY <1>5, <2>3 DEF WordsUnder
  <2>5. results[i].from = results[j].from
    BY <1>8, <1>9, <2>4, NodesAreNested DEF C
  <2> QED BY <1>5, <2>5
<1>17. ListsOf(lists, sets, L)
  BY <1>2, <1>14, <1>15, <1>16 DEF ListsOf
<1>18. BestOf(Trie!MergeTopK(lists), Whole(sets, L))
  BY <1>17, TrieConstants, MergeIsBest
<1>19. Whole(sets, L) = Below(Bytes, <<>>)
  <2>1. ASSUME NEW i \in 1..L, NEW x \in sets[i] PROVE x \in Below(Bytes, <<>>)
    BY <1>12, <1>13, <2>1 DEF Below
  <2>2. ASSUME NEW x \in Below(Bytes, <<>>) PROVE \E i \in 1..L : x \in sets[i]
    <3>1. PICK q \in WordsUnder(<<>>) : x = Weight(Bytes, q)
      BY <2>2 DEF Below
    <3>2. q \in DOMAIN node /\ node[q].isWord /\ q # <<>>
      BY <1>8 DEF WordsUnder
    <3>3. PICK c \in C : Trie!IsPrefix(c, q)
      BY <1>8, <1>9, <3>2, NodesAreNested DEF C
    <3>4. PICK i \in 1..L : results[i].from = c
      BY <1>7
    <3>5. x \in Below(Bytes, c)
      BY <3>1, <3>2, <3>3 DEF Below, WordsUnder
    <3> QED BY <1>13, <3>4, <3>5
  <2> QED BY <2>1, <2>2 DEF Whole
<1> QED BY <1>10, <1>18, <1>19 DEF lists

LEMMA MergeRootKeeps ==
  ASSUME TInv, Trie!MergeRoot
  PROVE  TInv'
<1>1. PICK t : t = Trie!MergeTopK([i \in DOMAIN results |-> results[i].top])
  OBVIOUS
<1>2. /\ phase = "caching" /\ Len(results) = Cardinality(Trie!Children(<<>>))
      /\ DOMAIN top' = DOMAIN top \cup {<<>>}
      /\ \A p \in DOMAIN top \cup {<<>>} : top'[p] = IF p = <<>> THEN t ELSE top[p]
      /\ phase' = "serving" /\ UNCHANGED <<node, results, listed>>
  BY <1>1 DEF Trie!MergeRoot, Trie!With, Trie!Cardinality, Cardinality
<1>3. Shape' /\ Listed'
  BY <1>2, NodesStay DEF TInv
<1>4. Sending'
  BY <1>2, NodesStay DEF TInv, Sending
<1>5. Keeping'
  <2>1. DOMAIN top \subseteq DOMAIN node /\ <<>> \in DOMAIN node
    BY DEF TInv, Keeping, Shape
  <2>2. \A p \in DOMAIN top : p # <<>> => BestOf(top[p], Below(Bytes, p))
    BY DEF TInv, Keeping
  <2>3. ASSUME NEW p \in DOMAIN top', p # <<>> PROVE BestOf(top'[p], Below(Bytes, p)')
    <3>1. p \in DOMAIN top /\ top'[p] = top[p]
      BY <1>2, <2>3
    <3> QED BY <1>2, <2>2, <2>3, <3>1, NodesStay
  <2>4. DOMAIN top' \subseteq DOMAIN node'
    BY <1>2, <2>1
  <2> QED BY <2>3, <2>4 DEF Keeping
<1>6. RootIsBest'
  <2>1. <<>> \in DOMAIN top' /\ top'[<<>>] = t
    BY <1>2
  <2>2. Trie!FromAscii(<<>>) => BestOf(t, Below(Runes, <<>>))
    BY <1>1, <1>2, RootOfAll DEF TInv
  <2>3. Trie!FromAscii(<<>>)' => BestOf(top'[<<>>], Below(Runes, <<>>)')
    BY <1>2, <2>1, <2>2, NodesStay
  <2> QED BY <2>1, <2>3 DEF RootIsBest
<1> QED BY <1>2, <1>3, <1>4, <1>5, <1>6 DEF TInv

LEMMA TrieSteps == TInv /\ [Trie!TrieNext]_trieOnly => TInv'
<1> SUFFICES ASSUME TInv, [Trie!TrieNext]_trieOnly PROVE TInv'
  OBVIOUS
<1>1. ASSUME NEW word \in TrieWords, NEW freq \in TrieFreqs, Trie!Insert(word, freq) PROVE TInv'
  BY <1>1, InsertKeeps
<1>2. CASE Trie!EndOfFile
  BY <1>2, EndOfFileKeeps
<1>3. ASSUME NEW letter \in Trie!Letters, Trie!CacheBranch(letter) PROVE TInv'
  BY <1>3, CacheBranchKeeps
<1>4. CASE Trie!MergeRoot
  BY <1>4, MergeRootKeeps
<1>5. CASE UNCHANGED trieOnly
  BY <1>5, TrieStutters
<1> QED BY <1>1, <1>2, <1>3, <1>4, <1>5 DEF Trie!TrieNext

-----------------------------------------------------------------------------
(* The trie: its property *)

\* The best of the weighed words under p are the best of the lines with them.
LEMMA BestIsBest ==
  ASSUME Shape, Listed, NEW p \in DOMAIN node, NEW t, BestOf(t, Below(Runes, p))
  PROVE  Trie!AreBest(t, p)
<1> DEFINE C == Trie!Completions(p)
           words == {t[i].word : i \in DOMAIN t}
           ws == [i \in 1..Len(t) |-> t[i].word]
           all == Trie!SetToSeq(C)
           n == Len(t)
<1>1. C = WordsUnder(p)
  BY DEF Trie!Completions, WordsUnder, Listed
<1>2. C \subseteq DOMAIN node /\ IsFiniteSet(C) /\ Cardinality(C) \in Nat
  <2>1. C \subseteq DOMAIN node /\ IsFiniteSet(DOMAIN node)
    BY <1>1 DEF WordsUnder, Shape
  <2> QED BY <2>1, FS_Subset, FS_CardinalityType
<1>3. all \in Seq(C) /\ Len(all) = Cardinality(C) /\ Differ(all) /\ \A w \in C : Has(all, w)
  BY <1>2, ListingSets
<1>4. \A w \in C : /\ w \in DOMAIN listed /\ node[w].freq = listed[w] /\ listed[w] \in Int
                   /\ Weight(Runes, w) = [word |-> w, freq |-> listed[w]]
                   /\ Weight(Runes, w) \in Below(Runes, p)
  <2> SUFFICES ASSUME NEW w \in C
               PROVE  /\ w \in DOMAIN listed /\ node[w].freq = listed[w] /\ listed[w] \in Int
                      /\ Weight(Runes, w) = [word |-> w, freq |-> listed[w]]
                      /\ Weight(Runes, w) \in Below(Runes, p)
    OBVIOUS
  <2>1. w \in DOMAIN node /\ w \in DOMAIN listed /\ w \in WordsUnder(p)
    BY <1>1 DEF WordsUnder, Listed
  <2>2. node[w].freq = listed[w] /\ listed[w] \in Int
    BY <2>1 DEF Listed
  <2>3. Weight(Runes, w) = [word |-> w, freq |-> listed[w]]
    BY <2>1, <2>2 DEF Weight, Runes
  <2> QED BY <2>1, <2>2, <2>3 DEF Below
<1>5. \A x \in Below(Runes, p) : /\ x.word \in C /\ x.freq = listed[x.word]
                                  /\ x = Weight(Runes, x.word)
  <2> SUFFICES ASSUME NEW w \in C
               PROVE  /\ Weight(Runes, w).word \in C
                      /\ Weight(Runes, w).freq = listed[Weight(Runes, w).word]
                      /\ Weight(Runes, w) = Weight(Runes, Weight(Runes, w).word)
    BY <1>1 DEF Below
  <2>1. Weight(Runes, w).word = w /\ Weight(Runes, w).freq = listed[w]
    BY <1>4
  <2> QED BY <2>1
<1> HIDE DEF C, all
<1>6. /\ t \in Seq(Below(Runes, p)) /\ Differ(t) /\ Descending(t)
      /\ Len(t) = K \/ (Len(t) < K /\ \A e \in Below(Runes, p) : Has(t, e))
      /\ \A e \in Below(Runes, p) : Has(t, e) \/ \A i \in 1..Len(t) : e.freq <= t[i].freq
  BY DEF BestOf
<1>7. n \in Nat /\ DOMAIN t = 1..n
  BY <1>6
<1>8. \A i \in 1..n : /\ t[i] \in Below(Runes, p) /\ t[i].word \in C
                      /\ t[i].freq = listed[t[i].word] /\ t[i] = Weight(Runes, t[i].word)
                      /\ listed[t[i].word] \in Int
  <2>1. \A i \in 1..n : t[i] \in Below(Runes, p)
    BY <1>6
  <2> QED BY <1>4, <1>5, <2>1
<1>9. \A i, j \in 1..n : t[i].word = t[j].word => i = j
  <2> SUFFICES ASSUME NEW i \in 1..n, NEW j \in 1..n, t[i].word = t[j].word PROVE i = j
    OBVIOUS
  <2>1. t[i] = t[j]
    BY <1>8
  <2> QED BY <1>6, <2>1 DEF Differ
<1>10. ws \in Seq(C) /\ Len(ws) = n /\ \A i \in 1..n : ws[i] = t[i].word
  BY <1>7, <1>8
<1>11. words = {t[i].word : i \in 1..n} /\ words \subseteq C
  BY <1>7, <1>8
<1> HIDE DEF n, ws, words
<1>12. Differ(ws)
  BY <1>9, <1>10 DEF Differ
<1>13. n <= Cardinality(C)
  <2>1. \A i \in 1..Len(ws) : Has(all, ws[i])
    BY <1>3, <1>8, <1>10
  <2> QED BY <1>3, <1>10, <1>12, <2>1, Pigeons
<1>14. n = Trie!Smaller(K, Trie!Cardinality(C))
  <2>1. Trie!Cardinality(C) = Cardinality(C)
    BY DEF Trie!Cardinality, Cardinality
  <2>2. K \in Nat
    BY TrieConstants
  <2>3. CASE n = K
    <3>1. K < Cardinality(C) \/ K = Cardinality(C)
      BY <1>2, <1>13, <2>2, <2>3
    <3> QED BY <2>1, <2>3, <3>1 DEF Trie!Smaller
  <2>4. CASE n # K
    <3>1. n < K /\ \A e \in Below(Runes, p) : Has(t, e)
      BY <1>6, <2>4 DEF n
    <3>2. \A i \in 1..Len(all) : Has(ws, all[i])
      <4> SUFFICES ASSUME NEW i \in 1..Len(all) PROVE Has(ws, all[i])
        OBVIOUS
      <4>1. all[i] \in C
        BY <1>3
      <4>2. PICK j \in 1..n : t[j] = Weight(Runes, all[i])
        BY <1>4, <3>1, <4>1 DEF Has, n
      <4>3. Weight(Runes, all[i]).word = all[i]
        BY <1>4, <4>1
      <4>4. ws[j] = all[i]
        BY <1>10, <4>2, <4>3
      <4> QED BY <1>10, <4>4 DEF Has
    <3>3. Cardinality(C) <= n
      BY <1>3, <1>10, <3>2, Pigeons
    <3>4. n = Cardinality(C) /\ ~(K < n)
      BY <1>2, <1>7, <1>13, <2>2, <3>1, <3>3
    <3> QED BY <2>1, <3>4 DEF Trie!Smaller
  <2> QED BY <2>3, <2>4
<1>15. Trie!Cardinality(words) = n
  <2>1. ws \in Bijection(1..n, words)
    <3>1. ws \in [1..n -> words]
      BY <1>10, <1>11
    <3>2. \A i, j \in 1..n : ws[i] = ws[j] => i = j
      BY <1>9, <1>10
    <3>3. \A w \in words : \E i \in 1..n : ws[i] = w
      BY <1>10, <1>11
    <3> QED BY <3>1, <3>2, <3>3 DEF Bijection, Injection, Surjection, IsInjective
  <2>2. 1 \in Int /\ n \in Int
    BY <1>7
  <2>3. IsFiniteSet(1..n) /\ Cardinality(1..n) = IF 1 > n THEN 0 ELSE n - 1 + 1
    BY <2>2, FS_Interval
  <2>4. Cardinality(1..n) = n
    BY <1>7, <2>3
  <2>5. Cardinality(words) = n
    BY <2>1, <2>3, <2>4, FS_Bijection DEF ExistsBijection
  <2> QED BY <2>5 DEF Trie!Cardinality, Cardinality
<1>16. \A i, j \in DOMAIN t : i < j => t[i].freq >= t[j].freq
  <2> SUFFICES ASSUME NEW i \in 1..n, NEW j \in 1..n, i < j PROVE t[i].freq >= t[j].freq
    BY <1>7
  <2>1. t[j].freq <= t[i].freq
    BY <1>6 DEF Descending, n
  <2>2. t[i].freq \in Int /\ t[j].freq \in Int
    BY <1>8
  <2> QED BY <2>1, <2>2
<1>17. \A w \in C \ words, v \in words : listed[v] >= listed[w]
  <2> SUFFICES ASSUME NEW w \in C, w \notin words, NEW i \in 1..n
               PROVE  listed[t[i].word] >= listed[w]
    BY <1>11
  <2>1. Weight(Runes, w).word = w /\ Weight(Runes, w).freq = listed[w] /\ listed[w] \in Int
        /\ Weight(Runes, w) \in Below(Runes, p)
    BY <1>4
  <2>2. ~Has(t, Weight(Runes, w))
    BY <1>11, <2>1 DEF Has, n
  <2>3. listed[w] <= t[i].freq
    BY <1>6, <2>1, <2>2 DEF n
  <2>4. t[i].freq = listed[t[i].word] /\ t[i].freq \in Int
    BY <1>8
  <2> QED BY <2>1, <2>3, <2>4
<1>18. \A i \in DOMAIN t : t[i].freq = listed[t[i].word]
  BY <1>7, <1>8
<1> QED BY <1>11, <1>14, <1>15, <1>16, <1>17, <1>18 DEF Trie!AreBest, C, words, n

LEMMA TInvSuggestsBest == TInv => SuggestionsAreBest
<1> SUFFICES ASSUME TInv, phase = "serving",
                    NEW p \in DOMAIN node \cup {<<letter>> : letter \in Trie!Letters}
             PROVE  /\ Trie!AreBest(Trie!SuggestFromIndex(p), p)
                    /\ Trie!FromAscii(p) => Trie!AreBest(Trie!SuggestFromTrie(p), p)
  BY DEF SuggestionsAreBest, Trie!SuggestionsAreBest
<1>1. Shape /\ Listed /\ Keeping /\ RootIsBest
  BY DEF TInv
<1>2. CASE p \in DOMAIN node
  <2>1. BestOf(Trie!Index[p], Below(Runes, p))
    <3>1. Grown(DOMAIN node)
      BY DEF Grown
    <3>2. \A q \in DOMAIN node : Distinct(Runes, q)
      BY DEF Distinct, Runes
    <3>3. BestOf(Trie!Tops(DOMAIN node, Runes)[p], Below(Runes, p))
      BY <1>1, <1>2, <3>1, <3>2, TrieConstants, TopsAreBest
    <3> QED BY <3>3 DEF Trie!Index, Runes
  <2>2. Trie!AreBest(Trie!SuggestFromIndex(p), p)
    BY <1>1, <1>2, <2>1, BestIsBest DEF Trie!SuggestFromIndex
  <2>3. ASSUME Trie!FromAscii(p) PROVE Trie!AreBest(Trie!SuggestFromTrie(p), p)
    <3>1. CASE p \in DOMAIN top
      <4>1. Trie!SuggestFromTrie(p) = top[p]
        BY <1>2, <3>1 DEF Trie!SuggestFromTrie, Trie!Search
      <4>2. CASE p = <<>>
        BY <1>1, <1>2, <2>3, <4>1, <4>2, BestIsBest DEF RootIsBest
      <4>3. CASE p # <<>>
        <5>1. BestOf(top[p], Below(Bytes, p))
          BY <1>1, <3>1, <4>3 DEF Keeping
        <5> QED BY <1>1, <1>2, <2>3, <4>1, <5>1, AsciiIsPlain, BestIsBest
      <4> QED BY <4>2, <4>3
    <3>2. CASE p \notin DOMAIN top
      <4> DEFINE E == Below(Runes, p)
      <4>1. Trie!SuggestFromTrie(p) = Trie!TopK(Trie!Found(p))
        BY <1>2, <3>2 DEF Trie!SuggestFromTrie, Trie!Search
      <4>2. Trie!Found(p) = Trie!SetToSeq(E)
        <5>1. {[word |-> q, freq |-> node[q].freq] : q \in WordsUnder(p)} = E
          BY DEF Below, Weight, Runes, WordsUnder
        <5> QED BY <5>1 DEF Trie!Found, WordsUnder
      <4>3. IsFiniteSet(E)
        <5> DEFINE f == [q \in WordsUnder(p) |-> Weight(Runes, q)]
        <5>1. IsFiniteSet(WordsUnder(p))
          <6>1. WordsUnder(p) \subseteq DOMAIN node /\ IsFiniteSet(DOMAIN node)
            BY <1>1 DEF WordsUnder, Shape
          <6> QED BY <6>1, FS_Subset
        <5>2. E = {f[q] : q \in WordsUnder(p)}
          BY DEF Below
        <5> HIDE DEF f, E
        <5> QED BY <5>1, <5>2, ImageIsFinite
      <4>4. Weighed(E)
        BY <1>1 DEF Weighed, Below, Weight, WordsUnder, Shape
      <4> HIDE DEF E
      <4>5. BestOf(Trie!TopK(Trie!SetToSeq(E)), E)
        BY <4>3, <4>4, ListingSets, TrieConstants, TopKIsBest
      <4>6. BestOf(Trie!TopK(Trie!Found(p)), Below(Runes, p))
        BY <4>2, <4>5 DEF E
      <4> QED BY <1>1, <1>2, <4>1, <4>6, BestIsBest
    <3> QED BY <3>1, <3>2
  <2> QED BY <2>2, <2>3
<1>3. CASE p \notin DOMAIN node
  <2>1. Trie!SuggestFromIndex(p) = <<>> /\ Trie!SuggestFromTrie(p) = <<>>
    BY <1>3 DEF Trie!SuggestFromIndex, Trie!SuggestFromTrie, Trie!Search
  <2>2. Trie!Completions(p) = {}
    <3>1. PICK letter \in Trie!Letters : p = <<letter>>
      BY <1>3
    <3>2. letter \in Nat
      <4>1. PICK w \in TrieWords : letter \in Trie!ToSet(w)
        BY DEF Trie!Letters
      <4>2. w \in Seq(Nat)
        BY TrieConstants
      <4> QED BY <4>1, <4>2 DEF Trie!ToSet
    <3> SUFFICES ASSUME NEW w \in DOMAIN listed, Trie!IsPrefix(p, w) PROVE FALSE
      BY DEF Trie!Completions
    <3>3. w \in DOMAIN node /\ w \in Seq(Nat) /\ p \in Seq(Nat) /\ Len(p) = 1
      BY <1>1, <3>1, <3>2 DEF Listed, Shape
    <3>4. Len(p) <= Len(w) /\ \A i \in 1..Len(p) : p[i] = w[i]
      BY <3>3, PrefixIsBegin
    <3>5. Len(w) \in Nat /\ 1 \in 0..Len(w) /\ 1 <= Len(w) /\ w[1] = letter
      BY <3>1, <3>3, <3>4
    <3>6. SubSeq(w, 1, 1) = [i \in 1..1 |-> w[i]]
      BY <3>3, <3>5
    <3>7. [i \in 1..1 |-> w[i]] = <<letter>>
      BY <3>5
    <3>8. SubSeq(w, 1, 1) \in DOMAIN node
      BY <1>1, <3>3, <3>5 DEF Shape
    <3> QED BY <1>3, <3>1, <3>6, <3>7, <3>8
  <2>3. Trie!Smaller(K, Trie!Cardinality({})) = 0
    <3>1. Trie!Cardinality({}) = 0
      BY FS_EmptySet DEF Trie!Cardinality, Cardinality
    <3> QED BY <3>1, TrieConstants DEF Trie!Smaller
  <2>4. Trie!AreBest(<<>>, p)
    <3>1. DOMAIN <<>> = {} /\ Len(<<>>) = 0
      OBVIOUS
    <3>2. {<<>>[i].word : i \in DOMAIN <<>>} = {}
      BY <3>1
    <3>3. Trie!Cardinality({}) = 0
      BY FS_EmptySet DEF Trie!Cardinality, Cardinality
    <3> QED BY <2>2, <2>3, <3>1, <3>2, <3>3 DEF Trie!AreBest
  <2> QED BY <2>1, <2>4
<1> QED BY <1>2, <1>3

\* Whatever lines the file has and in whatever order the goroutines are done:
\* what the nodes keep, what a search finds and what the index has are the K most
\* frequent words under the prefix.
THEOREM Suggestions == ProgramsSpec => []SuggestionsAreBest
<1>1. ProgramsInit => TInv
  BY TrieStarts DEF ProgramsInit
<1>2. TInv /\ [ProgramsNext]_programsVars => TInv'
  BY TrieSteps DEF ProgramsNext, programsVars
<1> QED BY <1>1, <1>2, TInvSuggestsBest, PTL DEF ProgramsSpec
=============================================================================
