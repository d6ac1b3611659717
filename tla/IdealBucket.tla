---------------------------- MODULE IdealBucket ----------------------------
(***************************************************************************)
(* What a bucket limiter promises each client.  A host has an account of   *)
(* at most Capacity, full at first.  It grows by Rate a tick.  A request   *)
(* is admitted exactly when the account covers its Cost, and pays it.      *)
(*                                                                         *)
(* Amounts are whole units, so that a rate of a fraction of a request per  *)
(* tick is a Rate below Cost.                                              *)
(***************************************************************************)
EXTENDS Integers

CONSTANTS Hosts, Capacity, Rate, Cost

BucketAssumption ==
  /\ Capacity \in Nat /\ Rate \in Nat
  /\ Cost \in Nat \ {0}

VARIABLES
  credit,    \* host -> what its account holds
  admitted,  \* host -> requests admitted
  refused    \* host -> requests refused

idealVars == <<credit, admitted, refused>>

Least(a, b) == IF a <= b THEN a ELSE b

Init ==
  /\ credit = [h \in Hosts |-> Capacity]
  /\ admitted = [h \in Hosts |-> 0]
  /\ refused = [h \in Hosts |-> 0]

\* Mutation: no cap.
GrowPastCapacity ==
  /\ credit' = [h \in Hosts |-> credit[h] + Rate]
  /\ UNCHANGED <<admitted, refused>>

Grow ==
  /\ credit' = [h \in Hosts |-> Least(Capacity, credit[h] + Rate)]
  /\ UNCHANGED <<admitted, refused>>

Admit(h) ==
  /\ credit[h] >= Cost
  /\ credit' = [credit EXCEPT ![h] = @ - Cost]
  /\ admitted' = [admitted EXCEPT ![h] = @ + 1]
  /\ UNCHANGED refused

Refuse(h) ==
  /\ credit[h] < Cost
  /\ refused' = [refused EXCEPT ![h] = @ + 1]
  /\ UNCHANGED <<credit, admitted>>

Next == Grow \/ \E h \in Hosts : Admit(h) \/ Refuse(h)

Spec == Init /\ [][Next]_idealVars
=============================================================================
