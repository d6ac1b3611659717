---------------------------- MODULE FixedWindow ----------------------------
(***************************************************************************)
(* The fixed window limiter: a manager counts the requests of the current  *)
(* window, and starts again from 0 in another one.                         *)
(***************************************************************************)
EXTENDS Integers

CONSTANTS Hosts, Requests, TTL, WindowSize, Limit, Start, MaxTime, None

\* NewLimiter refuses a window of no size.  That an idle manager is kept for at
\* least a window is how the flags are meant to be chosen (five minutes against
\* five seconds by default); the code does not check it.
FixedWindowAssumption ==
  /\ WindowSize \in Nat \ {0} /\ Limit \in Nat
  /\ TTL \in Nat /\ TTL >= WindowSize
  /\ Start \in Nat /\ Start >= WindowSize /\ MaxTime \in Nat
  /\ None \notin Hosts \cup Requests

VARIABLES now, store, managers, request, passed, overlap

FirstCounter == [windowId |-> 0, count |-> 0]

Count(counter, t) ==
  LET count == IF counter.windowId = t \div WindowSize THEN counter.count ELSE 0
      passes == count < Limit
  IN  [passes |-> passes,
       counter |-> [windowId |-> t \div WindowSize,
                    count |-> IF passes THEN count + 1 ELSE count]]

INSTANCE WindowMiddleware WITH NewCounter <- FirstCounter, Admit <- Count
=============================================================================
