------------------------------- MODULE Backoff -------------------------------
(***************************************************************************)
(* The delay of a retry as the code computes it, in 64-bit nanoseconds:    *)
(* the product of the base delay and a power of two may wrap around.       *)
(* JobStore draws delays from the exact product; JobStoreProofs shows that *)
(* it misses none.                                                         *)
(***************************************************************************)
EXTENDS Integers

CONSTANT HalfRange   \* a Duration is from -HalfRange to HalfRange - 1

-----------------------------------------------------------------------------
Wrapped(x) == ((x + HalfRange) % (2 * HalfRange)) - HalfRange

\* A product past the maximum is cut to it; and so is one that is not positive,
\* having wrapped around.
CutToMax(delay, max) == IF delay > max \/ delay <= 0 THEN max ELSE delay

\* The delays that may be drawn: factor is 1 << attempts.
DrawnDelays(base, max, factor) == 0..CutToMax(Wrapped(base * factor), max)

\* The same without a bound on the numbers.
ExactDelays(base, max, factor) == {d \in 0..max : d <= base * factor}

=============================================================================
