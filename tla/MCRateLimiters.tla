--------------------------- MODULE MCRateLimiters ---------------------------
(***************************************************************************)
(* The four rate limiters, any one of them, on small instances for TLC.    *)
(* The two bucket limiters are held against the promise both make; a token *)
(* is worth more than one tick brings, so that fractions of a token add    *)
(* up.  What a limiter does not have is a variable that keeps still.       *)
(***************************************************************************)
EXTENDS TokenBucket

CONSTANTS
  SlidingTTL, FixedTTL, WindowSize, Limit,
  Start,       \* the clock of the window limiters at the start
  MaxWindowTime

VARIABLES
  limiter,     \* which of the four runs
  managers, passed, overlap   \* of the window limiters

Leaking == INSTANCE LeakingBucket

Sliding == INSTANCE SlidingWindow WITH TTL <- SlidingTTL, MaxTime <- MaxWindowTime

Fixed == INSTANCE FixedWindow WITH TTL <- FixedTTL, MaxTime <- MaxWindowTime

ASSUME LimiterAssumption ==
  /\ Leaking!LeakingAssumption
  /\ Sliding!SlidingWindowAssumption
  /\ Fixed!FixedWindowAssumption

bucketOnly == <<buckets, admitted, refused, late>>
windowOnly == <<managers, passed, overlap>>

NoBuckets == buckets = None /\ admitted = None /\ refused = None /\ late = None
NoWindows == managers = None /\ passed = None /\ overlap = None

LimiterInit ==
  \/ limiter = "token" /\ Init /\ NoWindows
  \/ limiter = "leaking" /\ Leaking!Init /\ sweep = Off /\ NoWindows
  \/ limiter = "sliding" /\ Sliding!Init /\ sweep = Off /\ NoBuckets
  \/ limiter = "fixed" /\ Fixed!Init /\ sweep = Off /\ NoBuckets

LimiterNext ==
  /\ UNCHANGED limiter
  /\ \/ limiter = "token" /\ Next /\ UNCHANGED windowOnly
     \/ limiter = "leaking" /\ Leaking!Next /\ UNCHANGED <<windowOnly, sweep>>
     \/ limiter = "sliding" /\ Sliding!Next /\ UNCHANGED <<bucketOnly, sweep>>
     \/ limiter = "fixed" /\ Fixed!Next /\ UNCHANGED <<bucketOnly, sweep>>

LimiterSpec == LimiterInit /\ [][LimiterNext]_<<vars, windowOnly, limiter>>

HasAccounts == limiter \in {"token", "leaking"}

Account ==
  CASE limiter = "token" -> Credit
    [] limiter = "leaking" -> Leaking!Credit
    [] OTHER -> None

Ideal == INSTANCE IdealBucket WITH credit <- Account

\* A bucket limiter keeps one account for each host, across refills and leaks
\* computed on demand, evictions and replacements of buckets that requests
\* still hold: whoever draws from the bucket that stands for the host is
\* admitted exactly when the ideal account would pay.
ImplementsIdeal ==
  /\ HasAccounts => Ideal!Init
  /\ [][HasAccounts => Ideal!Next]_(Ideal!idealVars)

\* The fixed window admits no more than its limit to a host whose requests do
\* not overlap, across managers dropped for idleness and made anew.
FixedLimit == limiter = "fixed" => Fixed!SerialWindowLimit

\* What the sliding window estimates from are true counts of such a host's
\* requests, across gaps of any length and managers made anew.
SlidingCounts == limiter = "sliding" => Sliding!CountsAreTrue
=============================================================================
