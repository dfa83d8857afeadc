------------------------ MODULE TelemetryRateLimiter ------------------------
(***************************************************************************)
(* The token bucket of each telemetry source                               *)
(* (src/features/telemetry/rate-limiter.ts) under a wall clock that may    *)
(* jump in both directions and limits that operators change.  A token is   *)
(* Unit parts, and one unit of time refills rateLimitSamplesPerMinute      *)
(* parts: the fractions of the code, exactly.                              *)
(***************************************************************************)
EXTENDS Integers

CONSTANTS
  Source,
  Limits,     \* [rate, burst] operators ask for
  Unit,       \* parts of a token: 60000, with time in milliseconds
  MaxTime,    \* bound on the wall clock
  MaxSpent    \* bound on the samples one process lets through for a source

Limit == [rate : Nat \ {0}, burst : Nat \ {0}]
ASSUME LimiterAssumption ==
  /\ Limits \subseteq Limit /\ Unit \in Nat \ {0}
  /\ MaxTime \in Nat /\ MaxSpent \in Nat

VARIABLES
  now,        \* wall clock
  limits,     \* the settings of the moment
  buckets,    \* tokens and lastRefillTimeMs; not `used` before the first sample
  history     \* of each bucket: samples let through, the time of the first
              \* call, the highest rate and burst it ran under

vars == <<now, limits, buckets, history>>

Bucket == [used : BOOLEAN, tokens : Nat, last : Nat]
Past == [spent : Nat, first : Nat, rate : Nat, burst : Nat]

\* Types; tokens are never negative.
TypeOK ==
  /\ now \in Nat /\ limits \in Limit
  /\ buckets \in [Source -> Bucket] /\ history \in [Source -> Past]

Least(a, b) == IF a <= b THEN a ELSE b
Greatest(a, b) == IF a >= b THEN a ELSE b

Unused == [used |-> FALSE, tokens |-> 0, last |-> 0]
NoPast == [spent |-> 0, first |-> 0, rate |-> 0, burst |-> 0]

Init ==
  /\ now \in 0 .. MaxTime /\ limits \in Limits
  /\ buckets = [s \in Source |-> Unused] /\ history = [s \in Source |-> NoPast]

-----------------------------------------------------------------------------
Effective(b) == Greatest(now, b.last)

\* As a bug: a clock that steps back only pauses the refill, and is taken over.
RefilledBackwards(b) ==
  IF ~b.used THEN [used |-> TRUE, tokens |-> limits.burst * Unit, last |-> now]
  ELSE [b EXCEPT !.tokens = Least(limits.burst * Unit,
                                  @ + (Effective(b) - b.last) * limits.rate),
                 !.last = now]
Refilled(b) ==
  IF ~b.used THEN [used |-> TRUE, tokens |-> limits.burst * Unit, last |-> now]
  ELSE [b EXCEPT !.tokens = Least(limits.burst * Unit,
                                  @ + (Effective(b) - b.last) * limits.rate),
                 !.last = Effective(b)]

Took(b) == [b EXCEPT !.tokens = @ - Unit]

\* The limits a bucket has run under, and when it was first asked.
Asked(p, used) ==
  [p EXCEPT !.first = IF used THEN @ ELSE now,
            !.rate = Greatest(@, limits.rate), !.burst = Greatest(@, limits.burst)]

Allow(s) ==
  LET b == Refilled(buckets[s])
      p == Asked(history[s], buckets[s].used)
  IN  /\ b.tokens >= Unit /\ p.spent < MaxSpent
      /\ buckets' = [buckets EXCEPT ![s] = Took(b)]
      /\ history' = [history EXCEPT ![s] = [p EXCEPT !.spent = @ + 1]]
      /\ UNCHANGED <<now, limits>>

Refuse(s) ==
  LET b == Refilled(buckets[s])
  IN  /\ b.tokens < Unit
      /\ buckets' = [buckets EXCEPT ![s] = b]
      /\ history' = [history EXCEPT ![s] = Asked(@, buckets[s].used)]
      /\ UNCHANGED <<now, limits>>

\* The clock moves, also back: a time correction.
SetClock(t) == now' = t /\ UNCHANGED <<limits, buckets, history>>

SetLimits(x) == limits' = x /\ UNCHANGED <<now, buckets, history>>

\* Buckets live in memory.
Restart ==
  /\ buckets' = [s \in Source |-> Unused] /\ history' = [s \in Source |-> NoPast]
  /\ UNCHANGED <<now, limits>>

Next ==
  \/ \E s \in Source : Allow(s) \/ Refuse(s)
  \/ \E t \in 0 .. MaxTime : SetClock(t)
  \/ \E x \in Limits : SetLimits(x)
  \/ Restart

Spec == Init /\ [][Next]_vars

-----------------------------------------------------------------------------
\* However the wall clock jumps and the limits change, one process lets no more
\* samples of a source through than the highest burst and the highest rate over
\* the time between its first call and the latest time it has seen allow
\* (rate-limiter.ts, the monotone effective clock of consume).
RateBounded ==
  \A s \in Source :
    LET p == history[s] IN
    p.spent * Unit <= p.burst * Unit + p.rate * (buckets[s].last - p.first)

\* What makes it inductive: the tokens at hand are within the same allowance,
\* and the clock of the bucket only moves forward.
Allowance ==
  \A s \in Source :
    LET b == buckets[s]  p == history[s] IN
    /\ b.used => b.tokens + p.spent * Unit <= p.burst * Unit + p.rate * (b.last - p.first)
    /\ b.used => p.first <= b.last
    /\ ~b.used => b = Unused /\ p = NoPast
=============================================================================
