--------------------------- MODULE SlidingWindow ---------------------------
(***************************************************************************)
(* The sliding window limiter: a manager counts the requests of this       *)
(* window and of the one before, and estimates how many lie in the last    *)
(* WindowSize ticks by the share of the window before that still does.     *)
(***************************************************************************)
EXTENDS Integers, FiniteSets

CONSTANTS Hosts, Requests, TTL, WindowSize, Limit, Start, MaxTime, None

\* That an idle manager is kept for two windows is how the flags are meant to
\* be chosen; the code does not check it.
SlidingWindowAssumption ==
  /\ WindowSize \in Nat \ {0} /\ Limit \in Nat
  /\ TTL \in Nat /\ TTL >= 2 * WindowSize
  /\ Start \in Nat /\ Start >= 2 * WindowSize /\ MaxTime \in Nat
  /\ None \notin Hosts \cup Requests

VARIABLES now, store, managers, request, passed, overlap

FirstCounter == [windowId |-> 0, currentCount |-> 0, prevCount |-> 0]

\* Mutation: the count before a gap is taken for the previous window's.
RolledOverGap(counter, w) ==
  IF counter.windowId = w THEN counter
  ELSE [windowId |-> w, currentCount |-> 0, prevCount |-> counter.currentCount]

\* The counter moved on to window w.
Rolled(counter, w) ==
  CASE counter.windowId = w -> counter
    [] counter.windowId + 1 = w ->
         [windowId |-> w, currentCount |-> 0, prevCount |-> counter.currentCount]
    [] OTHER -> [windowId |-> w, currentCount |-> 0, prevCount |-> 0]

\* The estimate, cut to an integer.
Estimate(counter, t) ==
  (counter.currentCount * WindowSize
     + counter.prevCount * (WindowSize - (t % WindowSize))) \div WindowSize

Count(counter, t) ==
  LET rolled == Rolled(counter, t \div WindowSize)
      passes == Estimate(rolled, t) < Limit
  IN  [passes |-> passes,
       counter |-> IF passes THEN [rolled EXCEPT !.currentCount = @ + 1] ELSE rolled]

INSTANCE WindowMiddleware WITH NewCounter <- FirstCounter, Admit <- Count

\* Both counts of a host whose requests do not overlap are true, across gaps of
\* any length and managers dropped in between: the estimate is made of the
\* requests really admitted.
CountsAreTrue ==
  \A h \in Hosts \ overlap :
    (store[h] # None /\ managers[store[h]].counter.windowId # 0) =>
      LET counter == managers[store[h]].counter
      IN  /\ counter.currentCount = PassedIn(h, counter.windowId)
          /\ counter.prevCount = PassedIn(h, counter.windowId - 1)
=============================================================================
