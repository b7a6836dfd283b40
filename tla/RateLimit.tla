----------------------------- MODULE RateLimit -----------------------------
(***************************************************************************)
(* The two in-memory limiters (handlers/ratelimit.go).  A call reads the   *)
(* clock and then takes the limiter's mutex: it is a function of the map,  *)
(* the key and the time it has read, which another call may have overtaken *)
(* (module Service), so a time here may be behind one in the map.  Time is *)
(* counted in the bucket's refill period: a token comes every unit, and    *)
(* levels are whole numbers.                                               *)
(***************************************************************************)
EXTENDS Integers, FiniteSets

CONSTANTS
  MinInterval,  \* between two accepted calls with one key
  MaxEntries,   \* above which stale entries are swept (256)
  Burst,        \* tokens of a full bucket
  MaxBuckets    \* above which full buckets are swept (1024)

ASSUME LimiterAssumption == MinInterval \in Nat /\ Burst \in Nat \ {0}

Nobody == [k \in {} |-> 0]
Set(f, k, v) == [x \in DOMAIN f \cup {k} |-> IF x = k THEN v ELSE f[x]]
Only(f, S)   == [x \in S |-> f[x]]

\* minIntervalLimiter: last has the time of each key's accepted call.
Spaced(last, key, now) == key \in DOMAIN last => now - last[key] >= MinInterval
\* Mutant: forgets a call as soon as there is a later one.
SweepAll(last, now) ==
  IF Cardinality(DOMAIN last) <= MaxEntries THEN last
  ELSE Only(last, {k \in DOMAIN last : last[k] >= now})
Sweep(last, now) ==
  IF Cardinality(DOMAIN last) <= MaxEntries THEN last
  ELSE Only(last, {k \in DOMAIN last : last[k] >= now - 10 * MinInterval})
Allow(last, key, now) ==
  IF Spaced(last, key, now) THEN Sweep(Set(last, key, now), now) ELSE last

\* tokenBucketLimiter: buckets has the level of each key and when it was counted.  A
\* call that comes late with its time takes back what was refilled since.
Tokens(buckets, key, now) ==
  IF key \notin DOMAIN buckets THEN Burst
  ELSE LET refilled == buckets[key].tokens + (now - buckets[key].last)
       IN  IF refilled > Burst THEN Burst ELSE refilled
SweepFull(buckets, now) ==
  IF Cardinality(DOMAIN buckets) <= MaxBuckets THEN buckets
  ELSE Only(buckets, {k \in DOMAIN buckets : now - buckets[k].last < Burst})
\* Mutant: spends a token that is not there.
TakenAlways(level) == level - 1
Taken(level) == IF level < 1 THEN level ELSE level - 1
Spend(buckets, key, now) ==
  LET level == Tokens(buckets, key, now)
  IN  Set(SweepFull(Set(buckets, key, [tokens |-> level, last |-> now]), now), key,
          [tokens |-> Taken(level), last |-> now])
=============================================================================
