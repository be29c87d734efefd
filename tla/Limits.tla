------------------------------- MODULE Limits -------------------------------
(***************************************************************************)
(* The limit on upgrades per address: RateLimiter of server/middleware.ts  *)
(* over the token buckets of utils/rate-limiter.ts.  A bucket starts full  *)
(* and is refilled when it is used, at most once per Interval; buckets are *)
(* few, and the cleanup takes those that were used longest ago.            *)
(*                                                                         *)
(* Time is in milliseconds, or any other unit.  RateNum / RateDen is the   *)
(* refill rate per unit: the program grants 15 per 10 s, so that Capacity  *)
(* is 15, Interval 1000 and the rate 15 / 10000.                           *)
(***************************************************************************)
EXTENDS Integers, FiniteSets

CONSTANTS
    Clients,            \* addresses
    Capacity,           \* maxRequests
    MaxBuckets,         \* maxBuckets
    Interval,           \* refillInterval
    RateNum, RateDen,   \* refillRate per unit of time
    MaxTime,            \* bound: length of a run
    MaxFresh            \* bound: buckets made for one address

\* The rate is at least a token per interval, as that of the program is.
ASSUME LimitsAssumption ==
    /\ Capacity \in Nat \ {0}
    /\ MaxBuckets \in Nat \ {0}
    /\ Interval \in Nat \ {0}
    /\ RateNum \in Nat \ {0}
    /\ RateDen \in Nat \ {0}
    /\ RateDen <= Interval * RateNum
    /\ MaxTime \in Nat
    /\ MaxFresh \in Nat

VARIABLES
    now,
    buckets,        \* keys of `buckets`
    tokens,         \* tokens[c], lastRefill[c]: those of the bucket of c
    lastRefill,
    lastUsed,       \* lastUsed[c] of its entry
    refused,        \* who was refused by a bucket of its own at this moment
    granted,        \* granted[c]: upgrades allowed so far
    fresh,          \* fresh[c]: buckets made for c so far
    lastGrant       \* lastGrant[c]: when c was last allowed one

\* `refused` and what follows it are history; no guard reads them.
limitsVars == <<now, buckets, tokens, lastRefill, lastUsed, refused, granted, fresh, lastGrant>>

LimitsTypeOK ==
    /\ now \in Nat
    /\ buckets \subseteq Clients
    /\ tokens \in [Clients -> 0 .. Capacity]
    /\ lastRefill \in [Clients -> Nat]
    /\ lastUsed \in [Clients -> Nat]
    /\ refused \subseteq Clients
    /\ granted \in [Clients -> Nat]
    /\ fresh \in [Clients -> Nat]
    /\ lastGrant \in [Clients -> Nat]

LimitsInit ==
    /\ now = 0
    /\ buckets = {}
    /\ tokens = [c \in Clients |-> 0]
    /\ lastRefill = [c \in Clients |-> 0]
    /\ lastUsed = [c \in Clients |-> 0]
    /\ refused = {}
    /\ granted = [c \in Clients |-> 0]
    /\ fresh = [c \in Clients |-> 0]
    /\ lastGrant = [c \in Clients |-> 0]

-----------------------------------------------------------------------------
(* refill(): nothing is added before an interval has passed, and the part  *)
(* of a token that is left over is lost.                                   *)

Due(c) == now - lastRefill[c] >= Interval
Earned(elapsed) == (elapsed * RateNum) \div RateDen

Refilled(c) ==
    LET sum == tokens[c] + Earned(now - lastRefill[c]) IN
    IF ~Due(c) THEN tokens[c] ELSE IF sum < Capacity THEN sum ELSE Capacity

\* Mutation: an attempt that is too early starts the interval again.
RefilledAt_Always(c) == now

RefilledAt(c) == IF Due(c) THEN now ELSE lastRefill[c]

Refill(c, left) ==
    /\ tokens' = [tokens EXCEPT ![c] = left]
    /\ lastRefill' = [lastRefill EXCEPT ![c] = RefilledAt(c)]
    /\ lastUsed' = [lastUsed EXCEPT ![c] = now]

-----------------------------------------------------------------------------
(* isAllowed(c): one token                                                 *)

Grant(c) ==
    /\ granted' = [granted EXCEPT ![c] = @ + 1]
    /\ lastGrant' = [lastGrant EXCEPT ![c] = now]

Allowed(c) ==
    /\ c \in buckets
    /\ Refilled(c) > 0
    /\ Refill(c, Refilled(c) - 1)
    /\ Grant(c)
    /\ UNCHANGED <<now, buckets, refused, fresh>>

Refused(c) ==
    /\ c \in buckets
    /\ Refilled(c) = 0
    /\ Refill(c, 0)
    /\ refused' = refused \cup {c}
    /\ UNCHANGED <<now, buckets, granted, fresh, lastGrant>>

\* cleanup() may leave `keep`: with more than half of the buckets in use, those
\* used longest ago go first, whether or not they are idle.  How many go, a
\* tenth or, of the idle ones, three tenths, is left open.
CleansTo(keep) ==
    /\ keep \subseteq buckets
    /\ 2 * Cardinality(buckets) <= MaxBuckets => keep = buckets
    /\ \A d \in buckets \ keep, k \in keep : lastUsed[d] <= lastUsed[k]

\* The buckets a newcomer meets: a full map is cleaned up first.
Met(keep) == IF Cardinality(buckets) < MaxBuckets THEN keep = buckets ELSE CleansTo(keep)

\* A bucket is made, and the first token taken.
Newcomer(c) ==
    /\ c \notin buckets
    /\ fresh[c] < MaxFresh
    /\ \E keep \in SUBSET buckets :
          /\ Met(keep)
          /\ Cardinality(keep) < MaxBuckets
          /\ buckets' = keep \cup {c}
    /\ tokens' = [tokens EXCEPT ![c] = Capacity - 1]
    /\ lastRefill' = [lastRefill EXCEPT ![c] = now]
    /\ lastUsed' = [lastUsed EXCEPT ![c] = now]
    /\ fresh' = [fresh EXCEPT ![c] = @ + 1]
    /\ Grant(c)
    /\ UNCHANGED <<now, refused>>

\* The map is full of buckets that cannot go: the newcomer is refused.  Of ten
\* buckets or more, one goes.
TurnedAway(c) ==
    /\ c \notin buckets
    /\ Cardinality(buckets) >= MaxBuckets
    /\ CleansTo(buckets)
    /\ UNCHANGED limitsVars

\* The intervals of both classes, of a minute each.
CleanBuckets ==
    /\ \E keep \in SUBSET buckets : CleansTo(keep) /\ buckets' = keep
    /\ UNCHANGED <<now, tokens, lastRefill, lastUsed, refused, granted, fresh, lastGrant>>

TimePasses ==
    /\ now < MaxTime
    /\ now' = now + 1
    /\ refused' = {}
    /\ UNCHANGED <<buckets, tokens, lastRefill, lastUsed, granted, fresh, lastGrant>>

LimitsNext ==
    \/ \E c \in Clients : Allowed(c) \/ Refused(c) \/ Newcomer(c) \/ TurnedAway(c)
    \/ CleanBuckets \/ TimePasses

LimitsSpec == LimitsInit /\ [][LimitsNext]_limitsVars

-----------------------------------------------------------------------------
(* Properties                                                              *)

\* Nobody gets more than the full bucket it started with and what the time
\* since earned it; each eviction of its bucket (rate-limiter.ts:133, which
\* does not spare active ones) costs another full bucket.
NobodyGetsMore ==
    \A c \in Clients :
        granted[c] * RateDen <= fresh[c] * Capacity * RateDen + now * RateNum

\* Nobody is starved by asking too often: who is refused by its bucket was
\* allowed an upgrade less than an interval ago (rate-limiter.ts:59, 64).
NobodyStarves == \A c \in refused : now - lastGrant[c] < Interval

LimitIsKept == NobodyGetsMore /\ NobodyStarves
=============================================================================
