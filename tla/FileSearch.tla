----------------------------- MODULE FileSearch -----------------------------
(***************************************************************************)
(* The concurrent file searcher: a goroutine per directory (searchDir),    *)
(* throttled by a semaphore, that starts one for each subdirectory and     *)
(* sends what matches over one unbuffered channel to the main goroutine; a *)
(* wait group counts the goroutines, and a closer closes the channel once  *)
(* it is down to zero.                                                     *)
(*                                                                         *)
(* The tree does not change while it is searched.  Files are those whose   *)
(* names match; the others are passed over.  A directory is searched by    *)
(* one goroutine, so they go by its name.                                  *)
(***************************************************************************)
EXTENDS Integers, FiniteSets

CONSTANTS
  Dirs, Files,
  Root,
  Sub,        \* directory -> its subdirectories
  Matches,    \* directory -> the files in it that match
  Readable,   \* directories that can be read
  Slots,      \* size of the semaphore
  None

\* A directory is in one other at most (links are not followed: ReadDir does
\* not call them directories), and so is a file.
ASSUME TreeAssumption ==
  /\ IsFiniteSet(Dirs) /\ Root \in Dirs /\ Readable \subseteq Dirs
  /\ Sub \in [Dirs -> SUBSET Dirs] /\ Matches \in [Dirs -> SUBSET Files]
  /\ \A d \in Dirs : Root \notin Sub[d]
  /\ \A d, e \in Dirs : d # e => Sub[d] \cap Sub[e] = {} /\ Matches[d] \cap Matches[e] = {}
  /\ Dirs \cap Files = {} /\ None \notin Dirs \cup Files
  /\ Slots \in Nat \ {0}

VARIABLES
  state,     \* directory -> where its goroutine is
  left,      \* directory -> entries not looked at yet
  sending,   \* directory -> the match it is sending
  busy,      \* slots of the semaphore in use
  pending,   \* the wait group
  closed,    \* the channel is closed
  printed,   \* file -> how often it was printed
  main,      \* the main goroutine: receiving, gone
  panicked   \* a goroutine sent on the closed channel

vars == <<state, left, sending, busy, pending, closed, printed, main, panicked>>

-----------------------------------------------------------------------------
States == {"none", "waiting", "open", "released", "done"}

TypeOK ==
  /\ state \in [Dirs -> States]
  /\ left \in [Dirs -> SUBSET (Dirs \cup Files)]
  /\ sending \in [Dirs -> Files \cup {None}]
  /\ busy \in Nat /\ pending \in Nat
  /\ closed \in BOOLEAN
  /\ printed \in [Files -> Nat]
  /\ main \in {"receiving", "gone"}
  /\ panicked \in BOOLEAN

\* The wait group counts the first goroutine before it is started.
Init ==
  /\ state = [d \in Dirs |-> IF d = Root THEN "waiting" ELSE "none"]
  /\ left = [d \in Dirs |-> {}]
  /\ sending = [d \in Dirs |-> None]
  /\ busy = 0 /\ pending = 1
  /\ closed = FALSE
  /\ printed = [f \in Files |-> 0]
  /\ main = "receiving"
  /\ panicked = FALSE

-----------------------------------------------------------------------------
\* Mutation: the semaphore lets one too many in.
OpenOneMore(d) ==
  /\ state[d] = "waiting" /\ busy <= Slots
  /\ busy' = busy + 1
  /\ state' = [state EXCEPT ![d] = "open"]
  /\ left' = [left EXCEPT ![d] = IF d \in Readable THEN Sub[d] \cup Matches[d] ELSE {}]
  /\ UNCHANGED <<sending, pending, closed, printed, main, panicked>>

\* A slot is taken, then the directory read; of one that cannot be read
\* nothing is looked at.
Open(d) ==
  /\ state[d] = "waiting" /\ busy < Slots
  /\ busy' = busy + 1
  /\ state' = [state EXCEPT ![d] = "open"]
  /\ left' = [left EXCEPT ![d] = IF d \in Readable THEN Sub[d] \cup Matches[d] ELSE {}]
  /\ UNCHANGED <<sending, pending, closed, printed, main, panicked>>

\* Mutation: the new goroutine is not counted.
DescendUncounted(d, e) ==
  /\ state[d] = "open" /\ sending[d] = None /\ e \in left[d] \cap Dirs
  /\ left' = [left EXCEPT ![d] = @ \ {e}]
  /\ state' = [state EXCEPT ![e] = "waiting"]
  /\ UNCHANGED <<sending, busy, pending, closed, printed, main, panicked>>

\* An entry that is a directory: counted, and a goroutine started.
Descend(d, e) ==
  /\ state[d] = "open" /\ sending[d] = None /\ e \in left[d] \cap Dirs
  /\ left' = [left EXCEPT ![d] = @ \ {e}]
  /\ pending' = pending + 1
  /\ state' = [state EXCEPT ![e] = "waiting"]
  /\ UNCHANGED <<sending, busy, closed, printed, main, panicked>>

\* An entry that is a match.
Match(d, f) ==
  /\ state[d] = "open" /\ sending[d] = None /\ f \in left[d] \cap Files
  /\ left' = [left EXCEPT ![d] = @ \ {f}]
  /\ sending' = [sending EXCEPT ![d] = f]
  /\ UNCHANGED <<state, busy, pending, closed, printed, main, panicked>>

\* The main goroutine takes the match and prints it; a send on the closed
\* channel panics.
Send(d) ==
  /\ sending[d] # None
  /\ panicked' = closed
  /\ printed' = IF closed THEN printed ELSE [printed EXCEPT ![sending[d]] = @ + 1]
  /\ sending' = [sending EXCEPT ![d] = None]
  /\ UNCHANGED <<state, left, busy, pending, closed, main>>

\* Mutation: the slot of a directory that cannot be read is kept.
ReleaseIfRead(d) ==
  /\ state[d] = "open" /\ sending[d] = None /\ left[d] = {}
  /\ busy' = IF d \in Readable THEN busy - 1 ELSE busy
  /\ state' = [state EXCEPT ![d] = "released"]
  /\ UNCHANGED <<left, sending, pending, closed, printed, main, panicked>>

\* The deferred calls run last to first: the slot is given back ...
Release(d) ==
  /\ state[d] = "open" /\ sending[d] = None /\ left[d] = {}
  /\ busy' = busy - 1
  /\ state' = [state EXCEPT ![d] = "released"]
  /\ UNCHANGED <<left, sending, pending, closed, printed, main, panicked>>

\* ... and the goroutine counted off.
Done(d) ==
  /\ state[d] = "released"
  /\ pending' = pending - 1
  /\ state' = [state EXCEPT ![d] = "done"]
  /\ UNCHANGED <<left, sending, busy, closed, printed, main, panicked>>

Close ==
  /\ pending = 0 /\ ~closed
  /\ closed' = TRUE
  /\ UNCHANGED <<state, left, sending, busy, pending, printed, main, panicked>>

\* The range over the closed channel ends, and with it the process.
MainEnds ==
  /\ closed /\ main = "receiving"
  /\ main' = "gone"
  /\ UNCHANGED <<state, left, sending, busy, pending, closed, printed, panicked>>

Search(d) ==
  \/ Open(d) \/ Send(d) \/ Release(d) \/ Done(d)
  \/ \E e \in Dirs : Descend(d, e)
  \/ \E f \in Files : Match(d, f)

Running == main = "receiving" /\ ~panicked

Next ==
  /\ Running
  /\ Close \/ MainEnds \/ \E d \in Dirs : Search(d)

Spec == Init /\ [][Next]_vars

\* Every goroutine that can go on does.
Fairness ==
  /\ WF_vars(Running /\ Close)
  /\ WF_vars(Running /\ MainEnds)
  /\ \A d \in Dirs : WF_vars(Running /\ Search(d))

FairSpec == Spec /\ Fairness

-----------------------------------------------------------------------------
(* Properties *)

\* The directories the search is to look at: the least set with the root and
\* the subdirectories of those in it that can be read.
Closed(S) == Root \in S /\ \A d \in S \cap Readable : Sub[d] \subseteq S

Reached == {d \in Dirs : \A S \in SUBSET Dirs : Closed(S) => d \in S}

Wanted(f) == \E d \in Reached \cap Readable : f \in Matches[d]

Live == {d \in Dirs : state[d] \in {"waiting", "open", "released"}}

Opened == {d \in Dirs : state[d] = "open"}

\* When the channel is closed no goroutine is left that could send on it,
\* although they start each other and the counter only counts.
CloseIsLast == closed => \A d \in Dirs : state[d] \in {"none", "done"} /\ sending[d] = None

\* A sender never finds the channel closed.
NobodyPanics == ~panicked

\* When the program ends every match in the tree has been printed, once, and
\* nothing else.
AllIsPrinted == main = "gone" => \A f \in Files : printed[f] = IF Wanted(f) THEN 1 ELSE 0

\* No more directories are open than there are slots.
OpenBounded == Cardinality(Opened) <= Slots

\* The counters count, and a goroutine that is not in its loop has nothing left.
CountersOK ==
  /\ pending = Cardinality(Live)
  /\ busy = Cardinality(Opened) /\ busy <= Slots
  /\ closed => pending = 0
  /\ main = "gone" => closed
  /\ \A d \in Dirs : state[d] # "open" => left[d] = {} /\ sending[d] = None

\* What is still to be done about the entries of d.
Untouched(d) == IF state[d] \in {"none", "waiting"} THEN Sub[d] \cup Matches[d] ELSE left[d]

\* A subdirectory has been started, and a match sent, exactly when its entry
\* has been looked at.
ProgressOK ==
  /\ state[Root] # "none"
  /\ \A d \in Dirs : state[d] # "none" => d \in Reached
  /\ \A d \in Dirs : \A e \in Sub[d] :
       (state[e] = "none") <=> (d \notin Readable \/ e \in Untouched(d))
  /\ \A d \in Dirs : \A f \in Matches[d] :
       printed[f] = IF d \notin Readable \/ f \in Untouched(d) \/ sending[d] = f THEN 0 ELSE 1
  /\ \A f \in Files : (\A d \in Dirs : f \notin Matches[d]) => printed[f] = 0
  /\ \A d \in Dirs : left[d] \subseteq (IF d \in Readable THEN Sub[d] \cup Matches[d] ELSE {})
  /\ \A d \in Dirs : sending[d] # None => d \in Readable /\ sending[d] \in Matches[d] \ left[d]

\* What CloseIsLast, NobodyPanics, AllIsPrinted and OpenBounded rest on,
\* together: the counters and the progress of every directory fit.
IInv == TypeOK /\ CountersOK /\ ProgressOK /\ ~panicked

\* The search ends, whatever the tree, with as little as one slot: nobody that
\* holds a slot waits for somebody who needs one.
SearchEnds == main = "receiving" ~> main = "gone"
=============================================================================
