------------------------------ MODULE Sorting ------------------------------
(***************************************************************************)
(* Sorting and filtering a sequence, by counting: the k-th entry is the    *)
(* one that k-1 others go before.  What the library of the language does,  *)
(* in a form that needs no recursion.                                      *)
(***************************************************************************)
EXTENDS Integers, FiniteSets, Sequences

\* Who is k-th of P, where <<j, i>> in R says that j goes before i.
Place(P, R, k) == CHOOSE i \in P : Cardinality({j \in P : <<j, i>> \in R}) = k - 1

\* The entries of s on the positions in P, in the order R of positions.
Arranged(s, P, R) == [k \in 1..Cardinality(P) |-> s[Place(P, R, k)]]

\* Smaller entries first, and equal ones as they were.
SortOrder(s, Less(_, _)) ==
  {q \in (DOMAIN s) \X (DOMAIN s) :
     Less(s[q[1]], s[q[2]]) \/ (~Less(s[q[2]], s[q[1]]) /\ q[1] < q[2])}

Sorted(s, Less(_, _)) == Arranged(s, DOMAIN s, SortOrder(s, Less))

\* What is left of s without the entries in gone.
Without(s, gone) ==
  LET P == {i \in DOMAIN s : s[i] \notin gone}
  IN  Arranged(s, P, {q \in P \X P : q[1] < q[2]})
=============================================================================
