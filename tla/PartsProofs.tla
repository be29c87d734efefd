----------------------------- MODULE PartsProofs -----------------------------
(***************************************************************************)
(* What holds of the parts for every instance: the limit on upgrades, the  *)
(* text commands, the choice of a route and its caches.                    *)
(***************************************************************************)
EXTENDS Limits, Routing, Commands, SequenceTheorems, FiniteSetTheorems, TLAPS

-----------------------------------------------------------------------------
(* The limit on upgrades.                                                  *)
(*                                                                         *)
(* For any number of addresses, buckets and tokens, and runs of any        *)
(* length: nobody gets more upgrades than its buckets and the time since   *)
(* pay for, and nobody is starved by asking too often.                     *)
(*                                                                         *)
(* The limit alone is not inductive.  What is, is an account per address:  *)
(* what was granted and what is left in the bucket were paid for by the    *)
(* time up to the last refill, of a bucket, and up to now, without one.    *)

RefillsArePast == \A c \in buckets : lastRefill[c] <= now

Left(c) == IF c \in buckets THEN tokens[c] ELSE 0

PaidUntil(c) == IF c \in buckets THEN lastRefill[c] ELSE now

AccountsBalance ==
    \A c \in Clients :
        granted[c] * RateDen + Left(c) * RateDen
            <= (fresh[c] * Capacity) * RateDen + PaidUntil(c) * RateNum

\* A bucket is empty because its last token was granted since it was refilled.
EmptiedSince == \A c \in buckets : tokens[c] = 0 => lastGrant[c] >= lastRefill[c]

LimitsInv ==
    /\ LimitsTypeOK
    /\ RefillsArePast
    /\ AccountsBalance
    /\ EmptiedSince
    /\ NobodyStarves

-----------------------------------------------------------------------------
(* Arithmetic                                                              *)

\* Products, as the provers need them.
LEMMA Distributes ==
    ASSUME NEW a \in Int, NEW b \in Int, NEW k \in Int
    PROVE  (a + b) * k = a * k + b * k
  OBVIOUS

LEMMA Grows ==
    ASSUME NEW a \in Int, NEW b \in Int, NEW k \in Nat, a <= b
    PROVE  a * k <= b * k
  OBVIOUS

LEMMA Divides ==
    ASSUME NEW a \in Nat, NEW b \in Nat \ {0}
    PROVE  /\ a \div b \in Nat
           /\ (a \div b) * b <= a
           /\ a >= b => a \div b >= 1
  OBVIOUS

\* A refill never adds more than the time earned (rate-limiter.ts:60), and once
\* it is due, it adds a token at least.
LEMMA EarnedIsEarned ==
    ASSUME NEW n \in Nat
    PROVE  /\ Earned(n) \in Nat
           /\ Earned(n) * RateDen <= n * RateNum
           /\ n >= Interval => Earned(n) >= 1
  <1>1. n * RateNum \in Nat /\ RateDen \in Nat \ {0} /\ Interval \in Nat /\ RateNum \in Nat
    BY LimitsAssumption
  <1>2. n >= Interval => n * RateNum >= RateDen
    <2>1. n >= Interval => Interval * RateNum <= n * RateNum
      BY <1>1, Grows
    <2>2. QED  BY <2>1, <1>1, LimitsAssumption
  <1>3. QED  BY <1>1, <1>2, Divides DEF Earned

\* A bucket that is refilled keeps its bounds and its account.
LEMMA RefilledBalances ==
    ASSUME LimitsTypeOK, RefillsArePast, NEW c \in buckets
    PROVE  /\ Refilled(c) \in 0 .. Capacity
           /\ RefilledAt(c) \in Nat
           /\ lastRefill[c] <= RefilledAt(c)
           /\ RefilledAt(c) <= now
           /\ Refilled(c) = 0 => ~Due(c) /\ tokens[c] = 0
           /\ ~Due(c) => RefilledAt(c) = lastRefill[c]
           /\ Refilled(c) * RateDen + lastRefill[c] * RateNum
                <= tokens[c] * RateDen + RefilledAt(c) * RateNum
  <1> DEFINE n == now - lastRefill[c]
  <1>1. /\ c \in Clients /\ now \in Nat /\ tokens[c] \in 0 .. Capacity /\ lastRefill[c] \in Nat
        /\ lastRefill[c] <= now /\ Capacity \in Nat \ {0} /\ Interval \in Nat \ {0}
        /\ RateNum \in Nat /\ RateDen \in Nat
    BY LimitsAssumption DEF LimitsTypeOK, RefillsArePast
  <1>2. n \in Nat
    BY <1>1
  <1> HIDE DEF n
  <1>3. CASE ~Due(c)
    <2>1. Refilled(c) = tokens[c] /\ RefilledAt(c) = lastRefill[c]
      BY <1>3 DEF Refilled, RefilledAt
    <2>2. QED  BY <2>1, <1>1, <1>3
  <1>4. CASE Due(c)
    <2>1. n >= Interval
      BY <1>4 DEF Due, n
    <2>2. /\ Earned(n) \in Nat
          /\ Earned(n) * RateDen <= n * RateNum
          /\ Earned(n) >= 1
      BY <1>2, <2>1, EarnedIsEarned
    <2>3. RefilledAt(c) = now
      BY <1>4 DEF RefilledAt
    <2>4. /\ Refilled(c) \in 1 .. Capacity
          /\ Refilled(c) <= tokens[c] + Earned(n)
      BY <1>1, <1>4, <2>2 DEF Refilled, n
    <2>5. Refilled(c) * RateDen <= tokens[c] * RateDen + Earned(n) * RateDen
      <3>1. Refilled(c) * RateDen <= (tokens[c] + Earned(n)) * RateDen
        BY <1>1, <2>2, <2>4, Grows
      <3>2. (tokens[c] + Earned(n)) * RateDen = tokens[c] * RateDen + Earned(n) * RateDen
        BY <1>1, <2>2, Distributes
      <3>3. QED  BY <3>1, <3>2
    <2>6. now * RateNum = n * RateNum + lastRefill[c] * RateNum
      <3>1. now = n + lastRefill[c]
        BY <1>1 DEF n
      <3>2. QED  BY <3>1, <1>1, <1>2, Distributes
    <2>7. Refilled(c) * RateDen + lastRefill[c] * RateNum <= tokens[c] * RateDen + now * RateNum
      <3>1. /\ Refilled(c) * RateDen \in Int /\ tokens[c] * RateDen \in Int
            /\ Earned(n) * RateDen \in Int /\ n * RateNum \in Int
            /\ lastRefill[c] * RateNum \in Int /\ now * RateNum \in Int
        BY <1>1, <1>2, <2>2, <2>4
      <3>2. QED  BY <3>1, <2>2, <2>5, <2>6
    <2>8. QED  BY <1>1, <1>4, <2>3, <2>4, <2>7
  <1>5. QED  BY <1>3, <1>4

-----------------------------------------------------------------------------
(* The invariant                                                           *)

LEMMA InitBalances == LimitsInit => LimitsInv
  <1> SUFFICES ASSUME LimitsInit PROVE LimitsInv
    OBVIOUS
  <1>1. LimitsTypeOK
    BY LimitsAssumption DEF LimitsInit, LimitsTypeOK
  <1>2. AccountsBalance
    BY LimitsAssumption DEF LimitsInit, AccountsBalance, Left, PaidUntil
  <1>3. QED
    BY <1>1, <1>2 DEF LimitsInit, LimitsInv, RefillsArePast, EmptiedSince, NobodyStarves

\* The account of an address that is granted an upgrade from a bucket of `full`
\* tokens that is paid for.
LEMMA GrantBalances ==
    ASSUME NEW g \in Nat, NEW full \in Nat \ {0}, NEW bound \in Int,
           g * RateDen + full * RateDen <= bound
    PROVE  (g + 1) * RateDen + (full - 1) * RateDen <= bound
  <1>1. RateDen \in Nat
    BY LimitsAssumption
  <1>2. (g + 1) * RateDen + (full - 1) * RateDen = ((g + 1) + (full - 1)) * RateDen
    BY <1>1, Distributes
  <1>3. g * RateDen + full * RateDen = (g + full) * RateDen
    BY <1>1, Distributes
  <1>4. (g + 1) + (full - 1) = g + full
    OBVIOUS
  <1>5. QED  BY <1>2, <1>3, <1>4

\* Only time and evictions concern those whose own entries stay.
LEMMA OthersBalance ==
    ASSUME LimitsInv, NEW d \in Clients,
           now' \in Nat, now <= now',
           granted'[d] = granted[d], fresh'[d] = fresh[d],
           tokens'[d] = tokens[d], lastRefill'[d] = lastRefill[d],
           d \in buckets' => d \in buckets
    PROVE  granted'[d] * RateDen + Left(d)' * RateDen
              <= (fresh'[d] * Capacity) * RateDen + PaidUntil(d)' * RateNum
  <1>1. /\ now \in Nat /\ tokens[d] \in 0 .. Capacity /\ lastRefill[d] \in Nat
        /\ granted[d] \in Nat /\ fresh[d] \in Nat
        /\ Capacity \in Nat /\ RateNum \in Nat /\ RateDen \in Nat
    BY LimitsAssumption DEF LimitsInv, LimitsTypeOK
  <1>2. granted[d] * RateDen + Left(d) * RateDen
           <= (fresh[d] * Capacity) * RateDen + PaidUntil(d) * RateNum
    BY DEF LimitsInv, AccountsBalance
  <1>3. /\ PaidUntil(d) \in Nat /\ PaidUntil(d)' \in Nat /\ PaidUntil(d) <= PaidUntil(d)'
        /\ Left(d) \in Nat /\ Left(d)' \in Nat /\ Left(d)' <= Left(d)
    BY <1>1 DEF LimitsInv, RefillsArePast, PaidUntil, Left
  <1>4. /\ PaidUntil(d) * RateNum <= PaidUntil(d)' * RateNum
        /\ Left(d)' * RateDen <= Left(d) * RateDen
    BY <1>1, <1>3, Grows
  <1>5. /\ granted[d] * RateDen \in Int /\ Left(d) * RateDen \in Int /\ Left(d)' * RateDen \in Int
        /\ (fresh[d] * Capacity) * RateDen \in Int
        /\ PaidUntil(d) * RateNum \in Int /\ PaidUntil(d)' * RateNum \in Int
    BY <1>1, <1>3
  <1>6. QED  BY <1>2, <1>4, <1>5

LEMMA AllowedKeeps ==
    ASSUME LimitsInv, NEW c \in Clients, Allowed(c)
    PROVE  LimitsInv'
  <1>1. /\ LimitsTypeOK /\ RefillsArePast /\ c \in buckets /\ RateNum \in Nat /\ RateDen \in Nat
        /\ Capacity \in Nat
    BY LimitsAssumption DEF LimitsInv, Allowed
  <1>2. /\ Refilled(c) \in 0 .. Capacity
        /\ RefilledAt(c) \in Nat
        /\ lastRefill[c] <= RefilledAt(c)
        /\ RefilledAt(c) <= now
        /\ Refilled(c) * RateDen + lastRefill[c] * RateNum
             <= tokens[c] * RateDen + RefilledAt(c) * RateNum
    BY <1>1, RefilledBalances
  <1>3. /\ Refilled(c) > 0
        /\ now' = now /\ buckets' = buckets /\ refused' = refused /\ fresh' = fresh
        /\ tokens' = [tokens EXCEPT ![c] = Refilled(c) - 1]
        /\ lastRefill' = [lastRefill EXCEPT ![c] = RefilledAt(c)]
        /\ lastUsed' = [lastUsed EXCEPT ![c] = now]
        /\ granted' = [granted EXCEPT ![c] = @ + 1]
        /\ lastGrant' = [lastGrant EXCEPT ![c] = now]
    BY DEF Allowed, Refill, Grant
  <1> HIDE DEF Allowed
  <1>4. LimitsTypeOK'
    BY <1>1, <1>2, <1>3 DEF LimitsTypeOK
  <1>5. RefillsArePast'
    BY <1>1, <1>2, <1>3 DEF LimitsTypeOK, RefillsArePast
  <1>6. AccountsBalance'
    <2> SUFFICES ASSUME NEW d \in Clients
                 PROVE  granted'[d] * RateDen + Left(d)' * RateDen
                          <= (fresh'[d] * Capacity) * RateDen + PaidUntil(d)' * RateNum
      BY DEF AccountsBalance
    <2>1. CASE d # c
      BY <2>1, <1>1, <1>3, OthersBalance DEF LimitsTypeOK
    <2>2. CASE d = c
      <3>1. /\ granted'[c] = granted[c] + 1 /\ Left(c)' = Refilled(c) - 1
            /\ PaidUntil(c)' = RefilledAt(c) /\ fresh'[c] = fresh[c]
            /\ Left(c) = tokens[c] /\ PaidUntil(c) = lastRefill[c]
            /\ granted[c] \in Nat /\ fresh[c] \in Nat /\ tokens[c] \in Nat /\ lastRefill[c] \in Nat
        BY <1>1, <1>3 DEF LimitsTypeOK, Left, PaidUntil
      <3>2. granted[c] * RateDen + tokens[c] * RateDen
              <= (fresh[c] * Capacity) * RateDen + lastRefill[c] * RateNum
        BY <3>1 DEF LimitsInv, AccountsBalance
      <3>3. /\ granted[c] * RateDen \in Int /\ tokens[c] * RateDen \in Int
            /\ Refilled(c) * RateDen \in Int /\ (fresh[c] * Capacity) * RateDen \in Int
            /\ lastRefill[c] * RateNum \in Int /\ RefilledAt(c) * RateNum \in Int
        BY <1>1, <1>2, <3>1
      <3>4. granted[c] * RateDen + Refilled(c) * RateDen
              <= (fresh[c] * Capacity) * RateDen + RefilledAt(c) * RateNum
        BY <1>2, <3>2, <3>3
      <3>5. Refilled(c) \in Nat \ {0}
        BY <1>1, <1>2, <1>3
      <3>6. (fresh[c] * Capacity) * RateDen + RefilledAt(c) * RateNum \in Int
        BY <3>3
      <3>7. (granted[c] + 1) * RateDen + (Refilled(c) - 1) * RateDen
              <= (fresh[c] * Capacity) * RateDen + RefilledAt(c) * RateNum
        BY <3>1, <3>4, <3>5, <3>6, GrantBalances
      <3>8. QED  BY <2>2, <3>1, <3>7
    <2>3. QED  BY <2>1, <2>2
  <1>7. EmptiedSince'
    BY <1>1, <1>2, <1>3 DEF LimitsTypeOK, LimitsInv, EmptiedSince
  <1>8. NobodyStarves'
    BY <1>1, <1>3, LimitsAssumption DEF LimitsTypeOK, LimitsInv, NobodyStarves
  <1>9. QED  BY <1>4, <1>5, <1>6, <1>7, <1>8 DEF LimitsInv

LEMMA RefusedKeeps ==
    ASSUME LimitsInv, NEW c \in Clients, Refused(c)
    PROVE  LimitsInv'
  <1>1. /\ LimitsTypeOK /\ RefillsArePast /\ c \in buckets /\ Capacity \in Nat
    BY LimitsAssumption DEF LimitsInv, Refused
  \* A bucket that is due would have had a token.
  <1>2. ~Due(c) /\ tokens[c] = 0 /\ RefilledAt(c) = lastRefill[c]
    BY <1>1, RefilledBalances DEF Refused
  <1>3. /\ now' = now /\ buckets' = buckets /\ refused' = refused \cup {c}
        /\ granted' = granted /\ fresh' = fresh /\ lastGrant' = lastGrant
        /\ tokens' = tokens /\ lastRefill' = lastRefill
        /\ lastUsed' = [lastUsed EXCEPT ![c] = now]
    BY <1>1, <1>2 DEF Refused, Refill, LimitsTypeOK
  <1>4. LimitsTypeOK'
    BY <1>1, <1>3 DEF LimitsTypeOK
  <1>5. RefillsArePast' /\ EmptiedSince'
    BY <1>1, <1>3 DEF LimitsInv, RefillsArePast, EmptiedSince
  <1>6. AccountsBalance'
    BY <1>3 DEF LimitsInv, AccountsBalance, Left, PaidUntil
  <1>7. NobodyStarves'
    <2>1. lastGrant[c] >= lastRefill[c]
      BY <1>1, <1>2 DEF LimitsInv, EmptiedSince
    <2>2. now - lastRefill[c] < Interval
      BY <1>1, <1>2, LimitsAssumption DEF Due, LimitsTypeOK
    <2>3. now - lastGrant[c] < Interval
      BY <1>1, <2>1, <2>2, LimitsAssumption DEF LimitsTypeOK
    <2>4. QED  BY <1>3, <2>3 DEF LimitsInv, NobodyStarves
  <1>8. QED  BY <1>4, <1>5, <1>6, <1>7 DEF LimitsInv

LEMMA NewcomerKeeps ==
    ASSUME LimitsInv, NEW c \in Clients, Newcomer(c)
    PROVE  LimitsInv'
  <1>1. PICK keep \in SUBSET buckets : buckets' = keep \cup {c}
    BY DEF Newcomer
  <1>2. /\ c \notin buckets /\ LimitsTypeOK
        /\ Capacity \in Nat \ {0} /\ RateNum \in Nat /\ RateDen \in Nat /\ Interval \in Nat \ {0}
    BY LimitsAssumption DEF Newcomer, LimitsInv
  <1>3. /\ now' = now /\ refused' = refused
        /\ tokens' = [tokens EXCEPT ![c] = Capacity - 1]
        /\ lastRefill' = [lastRefill EXCEPT ![c] = now]
        /\ lastUsed' = [lastUsed EXCEPT ![c] = now]
        /\ fresh' = [fresh EXCEPT ![c] = @ + 1]
        /\ granted' = [granted EXCEPT ![c] = @ + 1]
        /\ lastGrant' = [lastGrant EXCEPT ![c] = now]
    BY DEF Newcomer, Grant
  <1>4. LimitsTypeOK'
    BY <1>1, <1>2, <1>3 DEF LimitsTypeOK
  <1>5. RefillsArePast' /\ EmptiedSince'
    BY <1>1, <1>2, <1>3 DEF LimitsTypeOK, LimitsInv, RefillsArePast, EmptiedSince
  <1>6. NobodyStarves'
    BY <1>2, <1>3 DEF LimitsTypeOK, LimitsInv, NobodyStarves
  <1>7. AccountsBalance'
    <2> SUFFICES ASSUME NEW d \in Clients
                 PROVE  granted'[d] * RateDen + Left(d)' * RateDen
                          <= (fresh'[d] * Capacity) * RateDen + PaidUntil(d)' * RateNum
      BY DEF AccountsBalance
    <2>1. CASE d # c
      BY <2>1, <1>1, <1>2, <1>3, OthersBalance DEF LimitsTypeOK
    <2>2. CASE d = c
      <3>1. /\ granted'[c] = granted[c] + 1 /\ fresh'[c] = fresh[c] + 1
            /\ Left(c)' = Capacity - 1 /\ PaidUntil(c)' = now
            /\ Left(c) = 0 /\ PaidUntil(c) = now
            /\ granted[c] \in Nat /\ fresh[c] \in Nat /\ now \in Nat
        BY <1>1, <1>2, <1>3 DEF LimitsTypeOK, Left, PaidUntil
      <3>2. granted[c] * RateDen + 0 * RateDen
              <= (fresh[c] * Capacity) * RateDen + now * RateNum
        BY <3>1 DEF LimitsInv, AccountsBalance
      <3>3. ((fresh[c] + 1) * Capacity) * RateDen
              = (fresh[c] * Capacity) * RateDen + Capacity * RateDen
        <4>1. (fresh[c] + 1) * Capacity = fresh[c] * Capacity + 1 * Capacity
          BY <1>2, <3>1, Distributes
        <4>2. fresh[c] * Capacity \in Int /\ 1 * Capacity = Capacity
          BY <1>2, <3>1
        <4>3. QED  BY <4>1, <4>2, <1>2, Distributes
      <3>4. /\ granted[c] * RateDen \in Int /\ Capacity * RateDen \in Int
            /\ (fresh[c] * Capacity) * RateDen \in Int /\ now * RateNum \in Int
            /\ 0 * RateDen = 0
        BY <1>2, <3>1
      <3>5. granted[c] * RateDen + Capacity * RateDen
              <= ((fresh[c] + 1) * Capacity) * RateDen + now * RateNum
        BY <3>2, <3>3, <3>4
      <3>6. ((fresh[c] + 1) * Capacity) * RateDen + now * RateNum \in Int
        BY <3>3, <3>4
      <3>7. (granted[c] + 1) * RateDen + (Capacity - 1) * RateDen
              <= ((fresh[c] + 1) * Capacity) * RateDen + now * RateNum
        BY <1>2, <3>1, <3>5, <3>6, GrantBalances
      <3>8. QED  BY <2>2, <3>1, <3>7
    <2>3. QED  BY <2>1, <2>2
  <1>8. QED  BY <1>4, <1>5, <1>6, <1>7 DEF LimitsInv

LEMMA CleanBucketsKeeps ==
    ASSUME LimitsInv, CleanBuckets
    PROVE  LimitsInv'
  <1>1. /\ buckets' \subseteq buckets
        /\ UNCHANGED <<now, tokens, lastRefill, lastUsed, refused, granted, fresh, lastGrant>>
    BY DEF CleanBuckets
  <1>2. AccountsBalance'
    BY <1>1, OthersBalance DEF AccountsBalance, LimitsInv, LimitsTypeOK
  <1>3. QED
    BY <1>1, <1>2 DEF LimitsInv, LimitsTypeOK, RefillsArePast, EmptiedSince, NobodyStarves

LEMMA TimePassesKeeps ==
    ASSUME LimitsInv, TimePasses
    PROVE  LimitsInv'
  <1>1. /\ now' = now + 1 /\ now \in Nat /\ refused' = {}
        /\ UNCHANGED <<buckets, tokens, lastRefill, lastUsed, granted, fresh, lastGrant>>
    BY DEF TimePasses, LimitsInv, LimitsTypeOK
  <1>2. AccountsBalance'
    BY <1>1, OthersBalance DEF AccountsBalance
  <1>3. LimitsTypeOK' /\ RefillsArePast'
    BY <1>1 DEF LimitsInv, LimitsTypeOK, RefillsArePast
  <1>4. QED
    BY <1>1, <1>2, <1>3 DEF LimitsInv, EmptiedSince, NobodyStarves

LEMMA StutterKeeps ==
    ASSUME LimitsInv, UNCHANGED limitsVars
    PROVE  LimitsInv'
  BY DEF LimitsInv, LimitsTypeOK, RefillsArePast, AccountsBalance, Left, PaidUntil,
         EmptiedSince, NobodyStarves, limitsVars

LEMMA NextKeeps == LimitsInv /\ [LimitsNext]_limitsVars => LimitsInv'
  <1> SUFFICES ASSUME LimitsInv, [LimitsNext]_limitsVars PROVE LimitsInv'
    OBVIOUS
  <1>1. CASE \E c \in Clients : Allowed(c)
    BY <1>1, AllowedKeeps
  <1>2. CASE \E c \in Clients : Refused(c)
    BY <1>2, RefusedKeeps
  <1>3. CASE \E c \in Clients : Newcomer(c)
    BY <1>3, NewcomerKeeps
  <1>4. CASE \E c \in Clients : TurnedAway(c)
    BY <1>4, StutterKeeps DEF TurnedAway
  <1>5. CASE CleanBuckets
    BY <1>5, CleanBucketsKeeps
  <1>6. CASE TimePasses
    BY <1>6, TimePassesKeeps
  <1>7. CASE UNCHANGED limitsVars
    BY <1>7, StutterKeeps
  <1>8. QED  BY <1>1, <1>2, <1>3, <1>4, <1>5, <1>6, <1>7 DEF LimitsNext

\* The account of an address pays for what it was granted.
LEMMA BalancedLimits == LimitsInv => LimitIsKept
  <1> SUFFICES ASSUME LimitsInv, NEW c \in Clients
               PROVE  granted[c] * RateDen <= (fresh[c] * Capacity) * RateDen + now * RateNum
    BY DEF LimitsInv, LimitIsKept, NobodyGetsMore
  <1>1. /\ now \in Nat /\ granted[c] \in Nat /\ fresh[c] \in Nat
        /\ Left(c) \in Nat /\ PaidUntil(c) \in Nat /\ PaidUntil(c) <= now
        /\ Capacity \in Nat /\ RateNum \in Nat /\ RateDen \in Nat
    BY LimitsAssumption DEF LimitsInv, LimitsTypeOK, RefillsArePast, Left, PaidUntil
  <1>2. granted[c] * RateDen + Left(c) * RateDen
          <= (fresh[c] * Capacity) * RateDen + PaidUntil(c) * RateNum
    BY DEF LimitsInv, AccountsBalance
  <1>3. PaidUntil(c) * RateNum <= now * RateNum
    BY <1>1, Grows
  <1>4. /\ granted[c] * RateDen \in Int /\ Left(c) * RateDen \in Nat
        /\ (fresh[c] * Capacity) * RateDen \in Int
        /\ PaidUntil(c) * RateNum \in Int /\ now * RateNum \in Int
    BY <1>1
  <1>5. QED  BY <1>2, <1>3, <1>4

\* The limiter of the server (middleware.ts:227, rate-limiter.ts) never grants an
\* address more than its full buckets and the time since pay for, and refuses it
\* only when an upgrade was granted less than an interval ago, whatever the
\* number of addresses, the size of the map and the instants of the attempts.
THEOREM LimitKept == LimitsSpec => []LimitIsKept
  <1>1. LimitsInit => LimitsInv
    BY InitBalances
  <1>2. LimitsInv /\ [LimitsNext]_limitsVars => LimitsInv'
    BY NextKeeps
  <1>3. LimitsInv => LimitIsKept
    BY BalancedLimits
  <1>4. QED  BY <1>1, <1>2, <1>3, PTL DEF LimitsSpec

-----------------------------------------------------------------------------
(* The text commands.                                                      *)
(*                                                                         *)
(* However often a client comes back, the answers to answers of the text   *)
(* commands do not multiply.  The bound holds because each end listens to  *)
(* the socket it answers on, and a new socket is still silent when the     *)
(* transport greets it.                                                    *)

\* Text frames on their way to either end.
InClient(k) == Len(toClient[k])
InServer(k) == Len(toServer[k])

FewFrames ==
    /\ \A k \in Links : InClient(k) + InServer(k) <= 1
    /\ \A k \in clientHears, l \in serverHears : InClient(k) + InServer(l) <= 1

\* Each end hears the socket it answers on, and nothing else.
HearsItsOwn ==
    /\ serverWs = links /\ clientWs <= links
    /\ serverHears \subseteq {serverWs}
    /\ clientHears \subseteq {clientWs}

\* Nothing is on its way where no socket has been.
SilentBefore ==
    /\ \A k \in open : k <= links
    /\ \A k \in Links : k > links => toClient[k] = <<>> /\ toServer[k] = <<>>

CommandsInv ==
    /\ CommandsTypeOK
    /\ HearsItsOwn
    /\ SilentBefore
    /\ FewFrames

LEMMA Lengths ==
    ASSUME CommandsTypeOK, NEW k \in Links
    PROVE  InClient(k) \in Nat /\ InServer(k) \in Nat
  <1>1. toClient[k] \in Seq(Frame) /\ toServer[k] \in Seq(Frame)
    BY DEF CommandsTypeOK
  <1>2. QED  BY <1>1, LenProperties DEF InClient, InServer

\* A socket whose queues a step leaves alone.
LEMMA Untouched ==
    ASSUME NEW k \in Links, toClient'[k] = toClient[k], toServer'[k] = toServer[k]
    PROVE  InClient(k)' = InClient(k) /\ InServer(k)' = InServer(k)
  BY DEF InClient, InServer

LEMMA CommandsStart == CommandsInit => CommandsInv
  <1> SUFFICES ASSUME CommandsInit PROVE CommandsInv
    OBVIOUS
  <1>1. 0 \in 0 .. MaxLinks
    BY CommandsAssumption
  <1>2. <<>> \in Seq(Frame) /\ Len(<<>>) = 0
    OBVIOUS
  <1>3. CommandsTypeOK
    BY <1>1, <1>2 DEF CommandsInit, CommandsTypeOK
  <1>4. HearsItsOwn /\ SilentBefore
    BY DEF CommandsInit, HearsItsOwn, SilentBefore
  <1>5. FewFrames
    <2>1. \A k \in Links : InClient(k) = 0 /\ InServer(k) = 0
      BY <1>2 DEF CommandsInit, InClient, InServer
    <2>2. QED  BY <2>1 DEF CommandsInit, FewFrames
  <1>6. QED  BY <1>3, <1>4, <1>5 DEF CommandsInv

LEMMA ServerAssignsKeeps ==
    ASSUME CommandsInv, ServerAssigns
    PROVE  CommandsInv'
  <1>0. PICK new \in Links : new = links + 1
    BY CommandsAssumption DEF CommandsInv, CommandsTypeOK, ServerAssigns, Links
  <1>1. /\ links \in 0 .. MaxLinks /\ links < MaxLinks /\ MaxLinks \in Nat
        /\ new = links + 1
    BY <1>0, CommandsAssumption DEF CommandsInv, CommandsTypeOK, ServerAssigns
  <1>2. <<"SET">> \in Seq(Frame) /\ Len(<<"SET">>) = 1 /\ Len(<<>>) = 0
    BY DEF Frame
  <1>3. /\ toServer[new] = <<>> /\ toClient'[new] = <<"SET">> /\ toServer' = toServer
        /\ \A k \in Links \ {new} : toClient'[k] = toClient[k]
    BY <1>1 DEF CommandsInv, CommandsTypeOK, SilentBefore, ServerAssigns
  <1>4. CommandsTypeOK'
    BY <1>1, <1>2 DEF CommandsInv, CommandsTypeOK, ServerAssigns, ServerHearsFrom, Links
  <1>5. HearsItsOwn' /\ SilentBefore'
    <2>1. HearsItsOwn'
      BY <1>1 DEF CommandsInv, HearsItsOwn, CommandsTypeOK, ServerAssigns, ServerHearsFrom
    <2>2. links' = new /\ open' = open \cup {new}
      BY <1>1 DEF ServerAssigns
    <2>3. \A k \in open' : k <= links'
      BY <1>1, <2>2 DEF CommandsInv, CommandsTypeOK, SilentBefore, Links
    <2>4. \A k \in Links : k > links' => k \in Links \ {new} /\ k > links
      BY <1>1, <2>2 DEF Links
    <2>5. \A k \in Links : k > links' => toClient'[k] = <<>> /\ toServer'[k] = <<>>
      BY <1>3, <2>4 DEF CommandsInv, SilentBefore
    <2>6. QED  BY <2>1, <2>3, <2>5 DEF SilentBefore
  <1>6. FewFrames'
    <2>1. ASSUME NEW k \in Links
          PROVE  InClient(k)' + InServer(k)' <= 1
      <3>1. CASE k = new
        <4>1. InClient(k)' = 1 /\ InServer(k)' = 0
          BY <1>2, <1>3, <3>1 DEF InClient, InServer
        <4>2. QED  BY <4>1
      <3>2. CASE k # new
        <4>1. InClient(k)' = InClient(k) /\ InServer(k)' = InServer(k)
          BY <1>3, <3>2, Untouched
        <4>2. InClient(k) + InServer(k) <= 1
          BY DEF CommandsInv, FewFrames
        <4>3. QED  BY <4>1, <4>2
      <3>3. QED  BY <3>1, <3>2
    <2>2. ASSUME NEW k \in clientHears'
          PROVE  InClient(k)' + InServer(new)' <= 1
      <3>1. k \in Links /\ k # new
        BY <1>1, <2>2 DEF CommandsInv, CommandsTypeOK, HearsItsOwn, ServerAssigns
      <3>2. InClient(k) \in Nat /\ InServer(k) \in Nat
        BY <3>1, Lengths DEF CommandsInv
      <3>3. InClient(k) + InServer(k) <= 1
        BY <3>1 DEF CommandsInv, FewFrames
      <3>4. InClient(k)' = InClient(k) /\ InServer(new)' = 0
        BY <1>1, <1>2, <1>3, <3>1, Untouched DEF InServer
      <3>5. QED  BY <3>2, <3>3, <3>4
    <2>3. serverHears' = {new}
      BY <1>1 DEF ServerAssigns, ServerHearsFrom
    <2>4. QED  BY <2>1, <2>2, <2>3 DEF FewFrames
  <1>7. QED  BY <1>4, <1>5, <1>6 DEF CommandsInv

LEMMA ClientAssignsKeeps ==
    ASSUME CommandsInv, ClientAssigns
    PROVE  CommandsInv'
  <1>1. links \in 1 .. MaxLinks
    BY DEF CommandsInv, CommandsTypeOK, ClientAssigns
  <1>2. CommandsTypeOK' /\ HearsItsOwn' /\ SilentBefore'
    BY <1>1 DEF CommandsInv, CommandsTypeOK, HearsItsOwn, SilentBefore, ClientAssigns, Links
  <1>3. FewFrames'
    <2>1. \A k \in Links : InClient(k)' = InClient(k) /\ InServer(k)' = InServer(k)
      BY Untouched DEF ClientAssigns
    <2>2. links \in Links /\ serverHears' \subseteq {links} /\ clientHears' = {links}
      BY <1>1 DEF CommandsInv, HearsItsOwn, ClientAssigns, Links
    <2>3. \A k \in Links : InClient(k)' + InServer(k)' <= 1
      BY <2>1 DEF CommandsInv, FewFrames
    <2>4. QED  BY <2>2, <2>3 DEF FewFrames
  <1>4. QED  BY <1>2, <1>3 DEF CommandsInv

LEMMA ServerAnswersKeeps ==
    ASSUME CommandsInv, ServerAnswers
    PROVE  CommandsInv'
  <1>1. PICK k \in serverHears \cap open :
           /\ toServer[k] # <<>>
           /\ toServer' = [toServer EXCEPT ![k] = Tail(@)]
           /\ toClient' = IF serverWs \in open
                          THEN [toClient EXCEPT ![serverWs] = Append(@, Answer(Head(toServer[k])))]
                          ELSE toClient
           /\ UNCHANGED <<links, open, serverWs, clientWs, serverHears, clientHears>>
    BY DEF ServerAnswers
  <1>2. k = serverWs /\ k \in open /\ k \in Links /\ k <= links /\ links \in Nat
    BY <1>1 DEF CommandsInv, CommandsTypeOK, HearsItsOwn, SilentBefore
  <1> DEFINE answer == Answer(Head(toServer[k]))
  <1>3. answer \in Frame
    BY DEF Answer, Frame
  <1> HIDE DEF answer
  <1>4. /\ toServer' = [toServer EXCEPT ![k] = Tail(toServer[k])]
        /\ toClient' = [toClient EXCEPT ![k] = Append(toClient[k], answer)]
    BY <1>1, <1>2 DEF answer
  <1>5. /\ toServer[k] \in Seq(Frame) /\ toClient[k] \in Seq(Frame)
        /\ toServer \in [Links -> Seq(Frame)] /\ toClient \in [Links -> Seq(Frame)]
    BY <1>2 DEF CommandsInv, CommandsTypeOK
  <1>6. /\ Tail(toServer[k]) \in Seq(Frame) /\ Len(Tail(toServer[k])) = InServer(k) - 1
        /\ Append(toClient[k], answer) \in Seq(Frame)
        /\ Len(Append(toClient[k], answer)) = InClient(k) + 1
        /\ InServer(k) \in Nat /\ InClient(k) \in Nat
    BY <1>1, <1>3, <1>5 DEF InClient, InServer
  <1>7. CommandsTypeOK'
    BY <1>1, <1>2, <1>4, <1>5, <1>6 DEF CommandsInv, CommandsTypeOK
  <1>8. HearsItsOwn' /\ SilentBefore'
    BY <1>1, <1>2, <1>4, <1>5 DEF CommandsInv, HearsItsOwn, SilentBefore, Links
  <1>9. /\ InServer(k)' = InServer(k) - 1
        /\ InClient(k)' = InClient(k) + 1
        /\ \A l \in Links \ {k} : toServer'[l] = toServer[l] /\ toClient'[l] = toClient[l]
    <2>1. toServer'[k] = Tail(toServer[k]) /\ toClient'[k] = Append(toClient[k], answer)
      BY <1>2, <1>4, <1>5
    <2>2. InServer(k)' = Len(Tail(toServer[k])) /\ InClient(k)' = Len(Append(toClient[k], answer))
      BY <2>1 DEF InClient, InServer
    <2>3. QED  BY <1>2, <1>4, <1>5, <1>6, <2>2
  <1>10. FewFrames'
    <2>1. ASSUME NEW l \in Links
          PROVE  InClient(l)' + InServer(l)' <= 1
      <3>1. InClient(l) + InServer(l) <= 1
        BY DEF CommandsInv, FewFrames
      <3>2. CASE l = k
        <4>1. /\ InServer(l)' = InServer(l) - 1 /\ InClient(l)' = InClient(l) + 1
              /\ InServer(l) \in Nat /\ InClient(l) \in Nat
          BY <1>6, <1>9, <3>2
        <4>2. QED  BY <3>1, <4>1
      <3>3. CASE l # k
        <4>1. InClient(l)' = InClient(l) /\ InServer(l)' = InServer(l)
          BY <1>9, <3>3, Untouched
        <4>2. QED  BY <3>1, <4>1
      <3>4. QED  BY <3>2, <3>3
    <2>2. ASSUME NEW m \in clientHears', NEW l \in serverHears'
          PROVE  InClient(m)' + InServer(l)' <= 1
      <3>1. l = k /\ m \in clientHears /\ k \in serverHears /\ m \in Links
        BY <1>1, <1>2 DEF CommandsInv, CommandsTypeOK, HearsItsOwn
      <3>2. CASE m = k
        BY <2>1, <3>1, <3>2
      <3>3. CASE m # k
        <4>1. InClient(m) + InServer(k) <= 1 /\ InClient(m) \in Nat
          BY <3>1, Lengths DEF CommandsInv, FewFrames
        <4>2. /\ InClient(m)' = InClient(m)
              /\ InServer(l)' = InServer(k) - 1
          BY <1>9, <3>1, <3>3, Untouched
        <4>3. QED  BY <1>6, <4>1, <4>2
      <3>4. QED  BY <3>2, <3>3
    <2>3. QED  BY <2>1, <2>2 DEF FewFrames
  <1>11. QED  BY <1>7, <1>8, <1>10 DEF CommandsInv

LEMMA ClientAnswersKeeps ==
    ASSUME CommandsInv, ClientAnswers
    PROVE  CommandsInv'
  <1>1. PICK k \in clientHears \cap open :
           /\ toClient[k] # <<>>
           /\ toClient' = [toClient EXCEPT ![k] = Tail(@)]
           /\ toServer' = IF clientWs \in open
                          THEN [toServer EXCEPT ![clientWs] = Append(@, Answer(Head(toClient[k])))]
                          ELSE toServer
           /\ UNCHANGED <<links, open, serverWs, clientWs, serverHears, clientHears>>
    BY DEF ClientAnswers
  <1>2. k = clientWs /\ k \in open /\ k \in Links /\ k <= links /\ links \in Nat
    BY <1>1 DEF CommandsInv, CommandsTypeOK, HearsItsOwn, SilentBefore
  <1> DEFINE answer == Answer(Head(toClient[k]))
  <1>3. answer \in Frame
    BY DEF Answer, Frame
  <1> HIDE DEF answer
  <1>4. /\ toClient' = [toClient EXCEPT ![k] = Tail(toClient[k])]
        /\ toServer' = [toServer EXCEPT ![k] = Append(toServer[k], answer)]
    BY <1>1, <1>2 DEF answer
  <1>5. /\ toServer[k] \in Seq(Frame) /\ toClient[k] \in Seq(Frame)
        /\ toServer \in [Links -> Seq(Frame)] /\ toClient \in [Links -> Seq(Frame)]
    BY <1>2 DEF CommandsInv, CommandsTypeOK
  <1>6. /\ Tail(toClient[k]) \in Seq(Frame) /\ Len(Tail(toClient[k])) = InClient(k) - 1
        /\ Append(toServer[k], answer) \in Seq(Frame)
        /\ Len(Append(toServer[k], answer)) = InServer(k) + 1
        /\ InServer(k) \in Nat /\ InClient(k) \in Nat
    BY <1>1, <1>3, <1>5 DEF InClient, InServer
  <1>7. CommandsTypeOK'
    BY <1>1, <1>2, <1>4, <1>5, <1>6 DEF CommandsInv, CommandsTypeOK
  <1>8. HearsItsOwn' /\ SilentBefore'
    BY <1>1, <1>2, <1>4, <1>5 DEF CommandsInv, HearsItsOwn, SilentBefore, Links
  <1>9. /\ InClient(k)' = InClient(k) - 1
        /\ InServer(k)' = InServer(k) + 1
        /\ \A l \in Links \ {k} : toServer'[l] = toServer[l] /\ toClient'[l] = toClient[l]
    <2>1. toClient'[k] = Tail(toClient[k]) /\ toServer'[k] = Append(toServer[k], answer)
      BY <1>2, <1>4, <1>5
    <2>2. InClient(k)' = Len(Tail(toClient[k])) /\ InServer(k)' = Len(Append(toServer[k], answer))
      BY <2>1 DEF InClient, InServer
    <2>3. QED  BY <1>2, <1>4, <1>5, <1>6, <2>2
  <1>10. FewFrames'
    <2>1. ASSUME NEW l \in Links
          PROVE  InClient(l)' + InServer(l)' <= 1
      <3>1. InClient(l) + InServer(l) <= 1
        BY DEF CommandsInv, FewFrames
      <3>2. CASE l = k
        <4>1. /\ InClient(l)' = InClient(l) - 1 /\ InServer(l)' = InServer(l) + 1
              /\ InClient(l) \in Nat /\ InServer(l) \in Nat
          BY <1>6, <1>9, <3>2
        <4>2. QED  BY <3>1, <4>1
      <3>3. CASE l # k
        <4>1. InClient(l)' = InClient(l) /\ InServer(l)' = InServer(l)
          BY <1>9, <3>3, Untouched
        <4>2. QED  BY <3>1, <4>1
      <3>4. QED  BY <3>2, <3>3
    <2>2. ASSUME NEW m \in clientHears', NEW l \in serverHears'
          PROVE  InClient(m)' + InServer(l)' <= 1
      <3>1. m = k /\ l \in serverHears /\ k \in clientHears /\ l \in Links
        BY <1>1, <1>2 DEF CommandsInv, CommandsTypeOK, HearsItsOwn
      <3>2. CASE l = k
        BY <2>1, <3>1, <3>2
      <3>3. CASE l # k
        <4>1. InClient(k) + InServer(l) <= 1 /\ InServer(l) \in Nat
          BY <3>1, Lengths DEF CommandsInv, FewFrames
        <4>2. /\ InServer(l)' = InServer(l)
              /\ InClient(m)' = InClient(k) - 1
          BY <1>9, <3>1, <3>3, Untouched
        <4>3. QED  BY <1>6, <4>1, <4>2
      <3>4. QED  BY <3>2, <3>3
    <2>3. QED  BY <2>1, <2>2 DEF FewFrames
  <1>11. QED  BY <1>7, <1>8, <1>10 DEF CommandsInv

LEMMA LinkEndsKeeps ==
    ASSUME CommandsInv, LinkEnds
    PROVE  CommandsInv'
  <1>1. PICK k \in open :
           /\ open' = open \ {k}
           /\ toServer' = [toServer EXCEPT ![k] = <<>>]
           /\ toClient' = [toClient EXCEPT ![k] = <<>>]
           /\ UNCHANGED <<links, serverWs, clientWs, serverHears, clientHears>>
    BY DEF LinkEnds
  <1>2. <<>> \in Seq(Frame) /\ Len(<<>>) = 0
    OBVIOUS
  <1>3. CommandsTypeOK' /\ HearsItsOwn' /\ SilentBefore'
    BY <1>1, <1>2 DEF CommandsInv, CommandsTypeOK, HearsItsOwn, SilentBefore
  <1>4. \A l \in Links : /\ InClient(l) \in Nat /\ InServer(l) \in Nat
                         /\ toClient'[l] = IF l = k THEN <<>> ELSE toClient[l]
                         /\ toServer'[l] = IF l = k THEN <<>> ELSE toServer[l]
    BY <1>1, Lengths DEF CommandsInv, CommandsTypeOK
  <1>5. \A l \in Links : /\ InClient(l)' \in Nat /\ InClient(l)' <= InClient(l)
                         /\ InServer(l)' \in Nat /\ InServer(l)' <= InServer(l)
    <2> SUFFICES ASSUME NEW l \in Links
                 PROVE  /\ InClient(l)' \in Nat /\ InClient(l)' <= InClient(l)
                        /\ InServer(l)' \in Nat /\ InServer(l)' <= InServer(l)
      OBVIOUS
    <2>1. CASE l = k
      <3>1. InClient(l)' = 0 /\ InServer(l)' = 0
        BY <1>2, <1>4, <2>1 DEF InClient, InServer
      <3>2. QED  BY <1>4, <3>1
    <2>2. CASE l # k
      <3>1. InClient(l)' = InClient(l) /\ InServer(l)' = InServer(l)
        BY <1>4, <2>2, Untouched
      <3>2. QED  BY <1>4, <3>1
    <2>3. QED  BY <2>1, <2>2
  <1>6. serverHears \subseteq Links /\ clientHears \subseteq Links
    BY DEF CommandsInv, CommandsTypeOK
  <1>7. ASSUME NEW l \in Links, NEW m \in Links, InClient(l) + InServer(m) <= 1
        PROVE  InClient(l)' + InServer(m)' <= 1
    <2>1. /\ InClient(l)' \in Nat /\ InClient(l)' <= InClient(l)
          /\ InServer(m)' \in Nat /\ InServer(m)' <= InServer(m)
          /\ InClient(l) \in Nat /\ InServer(m) \in Nat
      BY <1>4, <1>5
    <2>2. QED  BY <1>7, <2>1
  <1>8. FewFrames'
    <2>1. \A l \in Links : InClient(l)' + InServer(l)' <= 1
      BY <1>7 DEF CommandsInv, FewFrames
    <2>2. \A m \in clientHears, l \in serverHears : InClient(m)' + InServer(l)' <= 1
      BY <1>6, <1>7 DEF CommandsInv, FewFrames
    <2>3. clientHears' = clientHears /\ serverHears' = serverHears
      BY <1>1
    <2>4. QED  BY <2>1, <2>2, <2>3 DEF FewFrames
  <1>9. QED  BY <1>3, <1>8 DEF CommandsInv

\* However often the client comes back on a new socket, the two ends never have
\* more than one text frame on its way between them (command.ts:176).
THEOREM CommandsSteady == CommandsSpec => []FramesDoNotMultiply
  <1>1. CommandsInit => CommandsInv
    BY CommandsStart
  <1>2. CommandsInv /\ [CommandsNext]_commandsVars => CommandsInv'
    <2> SUFFICES ASSUME CommandsInv, [CommandsNext]_commandsVars PROVE CommandsInv'
      OBVIOUS
    <2>1. CASE UNCHANGED commandsVars
      BY <2>1 DEF CommandsInv, CommandsTypeOK, HearsItsOwn, SilentBefore,
                  FewFrames, InClient, InServer, commandsVars
    <2>2. QED
      BY <2>1, ServerAssignsKeeps, ClientAssignsKeeps, ServerAnswersKeeps,
         ClientAnswersKeeps, LinkEndsKeeps DEF CommandsNext
  <1>3. CommandsInv => FramesDoNotMultiply
    BY DEF CommandsInv, FewFrames, FramesDoNotMultiply, InClient, InServer
  <1>4. QED  BY <1>1, <1>2, <1>3, PTL DEF CommandsSpec

-----------------------------------------------------------------------------
(* The choice of a route.                                                  *)
(*                                                                         *)
(* For caches of any size, any database and any number of handlers: what   *)
(* the caches say is never wrong, and they lose the right entries.  What   *)
(* is inductive is said of each entry: an address is in China when its     *)
(* entry says so, an answer expires DNS_CACHE_TTL after it was given; and  *)
(* the cache of places is the end of the list of all uses, whose addresses *)
(* differ.                                                                 *)

Place == [ip : Addresses, inChina : BOOLEAN]
AddressList == {<<a>> : a \in Addresses} \cup Pairs

\* Answers no older than the clock, that expire when their time is over.
Dated ==
    {e \in [host : Hosts, ips : AddressList, made : Nat, expires : Nat] :
        e.made <= clock /\ e.expires = e.made + TTL}

IsTheLatest(cache, uses) ==
    /\ cache \in Seq(Place) /\ uses \in Seq(Addresses)
    /\ \A k \in DOMAIN cache : cache[k].inChina => cache[k].ip \in China
    /\ \A j, k \in DOMAIN uses : uses[j] = uses[k] => j = k
    /\ Len(cache) = IF Len(uses) < MaxPlaces THEN Len(uses) ELSE MaxPlaces
    /\ \A k \in DOMAIN cache : cache[k].ip = uses[Len(uses) - Len(cache) + k]

RoutingInv ==
    /\ clock \in Nat
    /\ names \in Seq(Dated)
    /\ IsTheLatest(places, seen)
    /\ DirectIsJustified

-----------------------------------------------------------------------------
(* The caches                                                              *)

\* What RemoveAt of SequencesExt leaves.
LEMMA RemoveAtLeaves ==
    ASSUME NEW S, NEW s \in Seq(S), NEW k \in DOMAIN s
    PROVE  /\ RemoveAt(s, k) \in Seq(S)
           /\ Len(RemoveAt(s, k)) = Len(s) - 1
           /\ \A i \in 1 .. Len(s) - 1 : RemoveAt(s, k)[i] = IF i < k THEN s[i] ELSE s[i + 1]
  <1> DEFINE front == SubSeq(s, 1, k - 1)
             back == SubSeq(s, k + 1, Len(s))
  <1>1. Len(s) \in Nat /\ k \in 1 .. Len(s)
    OBVIOUS
  <1>2. /\ front \in Seq(S) /\ Len(front) = k - 1
        /\ \A i \in 1 .. k - 1 : front[i] = s[i]
    <2>1. \A i \in 1 .. k - 1 : s[i] \in S
      BY <1>1
    <2>2. QED  BY <1>1, <2>1, SubSeqProperties
  <1>3. /\ back \in Seq(S) /\ Len(back) = Len(s) - k
        /\ \A i \in 1 .. Len(s) - k : back[i] = s[k + i]
    <2>1. \A i \in k + 1 .. Len(s) : s[i] \in S
      BY <1>1
    <2>2. /\ back \in Seq(S) /\ Len(back) = (IF k + 1 <= Len(s) THEN Len(s) - (k + 1) + 1 ELSE 0)
          /\ \A i \in 1 .. Len(s) - (k + 1) + 1 : back[i] = s[k + 1 + i - 1]
      BY <1>1, <2>1, SubSeqProperties
    <2>3. QED  BY <1>1, <2>2
  <1> HIDE DEF front, back
  <1>4. /\ front \o back \in Seq(S) /\ Len(front \o back) = Len(s) - 1
        /\ \A i \in 1 .. Len(s) - 1 :
              (front \o back)[i] = IF i < k THEN s[i] ELSE s[i + 1]
    <2>1. \A i \in 1 .. Len(s) - 1 :
              (front \o back)[i] = IF i <= Len(front) THEN front[i] ELSE back[i - Len(front)]
      BY <1>1, <1>2, <1>3
    <2>2. \A i \in 1 .. Len(s) - 1 :
              (front \o back)[i] = IF i < k THEN s[i] ELSE s[i + 1]
      BY <1>1, <1>2, <1>3, <2>1
    <2>3. QED  BY <1>1, <1>2, <1>3, <2>2
  <1>5. QED  BY <1>4 DEF RemoveAt, front, back

LEMMA WithoutIsTyped ==
    ASSUME NEW S, NEW s \in Seq(S), NEW ks \in SUBSET DOMAIN s
    PROVE  Without(s, ks) \in Seq(S)
  <1>1. CASE ks = {}
    BY <1>1 DEF Without
  <1>2. CASE ks # {}
    <2>1. PICK k \in DOMAIN s : k = CHOOSE x \in ks : TRUE
      BY <1>2
    <2>2. QED  BY <1>2, <2>1, RemoveAtLeaves DEF Without
  <1>3. QED  BY <1>1, <1>2

\* The uses after one more: the address comes last, the others keep their order.
LEMMA UsesMoveOn ==
    ASSUME NEW uses \in Seq(Addresses), NEW ip \in Addresses,
           \A j, k \in DOMAIN uses : uses[j] = uses[k] => j = k
    PROVE  LET left == Without(uses, UsesOf(uses, ip)) IN
           /\ left \in Seq(Addresses)
           /\ \/ left = uses /\ \A k \in DOMAIN uses : uses[k] # ip
              \/ \E u \in DOMAIN uses :
                    /\ uses[u] = ip /\ Len(left) = Len(uses) - 1
                    /\ \A i \in 1 .. Len(uses) - 1 :
                          left[i] = IF i < u THEN uses[i] ELSE uses[i + 1]
  <1>1. CASE UsesOf(uses, ip) = {}
    BY <1>1 DEF Without, UsesOf
  <1>2. CASE UsesOf(uses, ip) # {}
    <2>1. PICK u \in UsesOf(uses, ip) : u = CHOOSE x \in UsesOf(uses, ip) : TRUE
      BY <1>2
    <2>2. u \in DOMAIN uses /\ uses[u] = ip
      BY <2>1 DEF UsesOf
    <2>3. Without(uses, UsesOf(uses, ip)) = RemoveAt(uses, u)
      BY <1>2, <2>1 DEF Without
    <2>4. QED  BY <2>2, <2>3, RemoveAtLeaves
  <1>3. QED  BY <1>1, <1>2

\* The address that is used is in the cache.
LEMMA FromCacheKeeps ==
    ASSUME NEW state, IsTheLatest(state.places, state.seen), NEW ip \in Addresses,
           NEW k \in PlacesOf(state.places, ip)
    PROVE  LET next == FromCache(state, ip, k) IN
           /\ IsTheLatest(next.places, next.seen)
           /\ next.direct \in BOOLEAN /\ (next.direct => ip \in China)
  <1> DEFINE cache == state.places
             uses == state.seen
             left == Without(uses, UsesOf(uses, ip))
  <1>1. /\ cache \in Seq(Place) /\ uses \in Seq(Addresses)
        /\ \A j \in DOMAIN cache : cache[j].inChina => cache[j].ip \in China
        /\ \A i, j \in DOMAIN uses : uses[i] = uses[j] => i = j
        /\ Len(cache) = IF Len(uses) < MaxPlaces THEN Len(uses) ELSE MaxPlaces
        /\ \A j \in DOMAIN cache : cache[j].ip = uses[Len(uses) - Len(cache) + j]
    BY DEF IsTheLatest
  <1>2. k \in DOMAIN cache /\ cache[k].ip = ip
    BY DEF PlacesOf
  <1>3. /\ FromCache(state, ip, k).places = Append(RemoveAt(cache, k), cache[k])
        /\ FromCache(state, ip, k).seen = Append(left, ip)
        /\ FromCache(state, ip, k).direct = cache[k].inChina
    BY DEF FromCache, Used
  <1>4. /\ left \in Seq(Addresses)
        /\ \/ left = uses /\ \A j \in DOMAIN uses : uses[j] # ip
           \/ \E u \in DOMAIN uses :
                 /\ uses[u] = ip /\ Len(left) = Len(uses) - 1
                 /\ \A i \in 1 .. Len(uses) - 1 : left[i] = IF i < u THEN uses[i] ELSE uses[i + 1]
    BY <1>1, UsesMoveOn
  <1>5. /\ RemoveAt(cache, k) \in Seq(Place) /\ Len(RemoveAt(cache, k)) = Len(cache) - 1
        /\ \A i \in 1 .. Len(cache) - 1 :
              RemoveAt(cache, k)[i] = IF i < k THEN cache[i] ELSE cache[i + 1]
    BY <1>1, <1>2, RemoveAtLeaves
  <1>6. cache[k] \in Place /\ cache[k].inChina \in BOOLEAN
    <2>1. cache[k] \in Place
      BY <1>1, <1>2
    <2>2. QED  BY <2>1 DEF Place
  <1> DEFINE rest == RemoveAt(cache, k)
             off == Len(uses) - Len(cache)
  <1>7. /\ Len(uses) \in Nat /\ Len(cache) \in Nat /\ off \in Nat /\ MaxPlaces \in Nat
        /\ DOMAIN uses = 1 .. Len(uses) /\ DOMAIN cache = 1 .. Len(cache)
    BY <1>1, RoutingAssumption
  <1> HIDE DEF left, rest, off, cache, uses
  <1>8. off + k \in DOMAIN uses /\ uses[off + k] = ip
    BY <1>1, <1>2, <1>7 DEF off
  <1>9. /\ Len(left) = Len(uses) - 1
        /\ \A i \in 1 .. Len(uses) - 1 :
              left[i] = IF i < off + k THEN uses[i] ELSE uses[i + 1]
    BY <1>1, <1>4, <1>8
  <1>10. IsTheLatest(Append(rest, cache[k]), Append(left, ip))
    <2> DEFINE c == Append(rest, cache[k])
               u == Append(left, ip)
    <2>1. /\ c \in Seq(Place) /\ Len(c) = Len(cache) /\ DOMAIN c = 1 .. Len(cache)
          /\ c[Len(cache)] = cache[k]
          /\ \A i \in 1 .. Len(cache) - 1 : c[i] = IF i < k THEN cache[i] ELSE cache[i + 1]
      BY <1>2, <1>5, <1>6, <1>7 DEF rest
    <2>2. /\ u \in Seq(Addresses) /\ Len(u) = Len(uses) /\ DOMAIN u = 1 .. Len(uses)
          /\ u[Len(uses)] = ip
          /\ \A i \in 1 .. Len(uses) - 1 :
                u[i] = IF i < off + k THEN uses[i] ELSE uses[i + 1]
      <3>1. Len(left) \in Nat /\ Len(uses) = Len(left) + 1 /\ off + k \in Int
        BY <1>2, <1>7, <1>8, <1>9
      <3>2. /\ u \in Seq(Addresses) /\ Len(u) = Len(left) + 1 /\ u[Len(left) + 1] = ip
            /\ \A i \in 1 .. Len(left) : u[i] = left[i]
        BY <1>4, <3>1
      <3>3. QED  BY <1>9, <3>1, <3>2
    <2> HIDE DEF c, u
    <2>3. \A i \in DOMAIN c : c[i].inChina => c[i].ip \in China
      <3>1. \A i \in 1 .. Len(cache) - 1 : c[i] = cache[i] \/ c[i] = cache[i + 1]
        BY <2>1
      <3>2. \A i \in 1 .. Len(cache) - 1 : c[i].inChina => c[i].ip \in China
        BY <1>1, <1>7, <3>1
      <3>3. QED  BY <1>1, <1>2, <1>7, <2>1, <3>2
    <2>4. \A i, j \in DOMAIN u : u[i] = u[j] => i = j
      <3>1. ASSUME NEW i \in 1 .. Len(uses) - 1
            PROVE  \E m \in DOMAIN uses :
                      /\ u[i] = uses[m] /\ m # off + k
                      /\ m = IF i < off + k THEN i ELSE i + 1
        <4>1. CASE i < off + k
          BY <1>7, <2>2, <4>1
        <4>2. CASE ~(i < off + k)
          <5>1. i + 1 \in DOMAIN uses /\ i + 1 # off + k /\ u[i] = uses[i + 1]
            BY <1>2, <1>7, <2>2, <4>2
          <5>2. QED  BY <4>2, <5>1
        <4>3. QED  BY <4>1, <4>2
      <3>2. \A i \in 1 .. Len(uses) - 1 : u[i] # ip
        BY <1>1, <1>8, <3>1
      <3>3. \A i, j \in 1 .. Len(uses) - 1 : u[i] = u[j] => i = j
        <4> SUFFICES ASSUME NEW i \in 1 .. Len(uses) - 1, NEW j \in 1 .. Len(uses) - 1, u[i] = u[j]
                     PROVE  i = j
          OBVIOUS
        <4>1. PICK m \in DOMAIN uses :
                 u[i] = uses[m] /\ m = IF i < off + k THEN i ELSE i + 1
          BY <3>1
        <4>2. PICK n \in DOMAIN uses :
                 u[j] = uses[n] /\ n = IF j < off + k THEN j ELSE j + 1
          BY <3>1
        <4>3. m = n
          BY <1>1, <4>1, <4>2
        <4>4. off + k \in Int
          BY <1>2, <1>7
        <4>5. QED  BY <4>1, <4>2, <4>3, <4>4
      <3>4. QED  BY <1>7, <2>2, <3>2, <3>3
    <2>5. Len(c) = IF Len(u) < MaxPlaces THEN Len(u) ELSE MaxPlaces
      BY <1>1, <2>1, <2>2
    <2>6. \A i \in DOMAIN c : c[i].ip = u[Len(u) - Len(c) + i]
      <3>1. Len(u) - Len(c) = off
        BY <2>1, <2>2 DEF off
      <3>2. \A i \in 1 .. Len(cache) - 1 : c[i].ip = u[off + i]
        <4> SUFFICES ASSUME NEW i \in 1 .. Len(cache) - 1 PROVE c[i].ip = u[off + i]
          OBVIOUS
        <4>1. off + i \in 1 .. Len(uses) - 1 /\ i + 1 \in DOMAIN cache /\ i \in DOMAIN cache
          BY <1>7 DEF off
        <4>2. cache[i].ip = uses[off + i] /\ cache[i + 1].ip = uses[off + (i + 1)]
          BY <1>1, <4>1 DEF off
        <4>3. i < k <=> off + i < off + k
          BY <1>2, <1>7
        <4>4. /\ c[i] = IF i < k THEN cache[i] ELSE cache[i + 1]
              /\ u[off + i] = IF off + i < off + k THEN uses[off + i] ELSE uses[(off + i) + 1]
          BY <2>1, <2>2, <4>1
        <4>5. (off + i) + 1 = off + (i + 1)
          BY <1>7
        <4>6. QED  BY <4>2, <4>3, <4>4, <4>5
      <3>3. off + Len(cache) = Len(uses)
        BY <1>7 DEF off
      <3>4. c[Len(cache)].ip = u[off + Len(cache)]
        BY <1>2, <2>1, <2>2, <3>3
      <3>5. \A i \in DOMAIN c : i \in 1 .. Len(cache) - 1 \/ i = Len(cache)
        BY <1>7, <2>1
      <3>6. QED  BY <3>1, <3>2, <3>4, <3>5
    <2>7. QED  BY <2>1, <2>2, <2>3, <2>4, <2>5, <2>6 DEF IsTheLatest, c, u
  <1>11. QED  BY <1>1, <1>2, <1>3, <1>6, <1>10 DEF rest, cache, uses, left

\* The address that is looked up is not in the cache.
LEMMA FromDatabaseKeeps ==
    ASSUME NEW state, IsTheLatest(state.places, state.seen), NEW ip \in Addresses,
           PlacesOf(state.places, ip) = {},
           NEW inChina \in BOOLEAN, inChina => ip \in China
    PROVE  LET next == FromDatabase(state, ip, inChina) IN IsTheLatest(next.places, next.seen)
  <1> DEFINE cache == state.places
             uses == state.seen
             left == Without(uses, UsesOf(uses, ip))
             room == MakeRoom(cache, MaxPlaces)
             new == [ip |-> ip, inChina |-> inChina]
  <1>1. /\ cache \in Seq(Place) /\ uses \in Seq(Addresses)
        /\ \A j \in DOMAIN cache : cache[j].inChina => cache[j].ip \in China
        /\ \A i, j \in DOMAIN uses : uses[i] = uses[j] => i = j
        /\ Len(cache) = IF Len(uses) < MaxPlaces THEN Len(uses) ELSE MaxPlaces
        /\ \A j \in DOMAIN cache : cache[j].ip = uses[Len(uses) - Len(cache) + j]
    BY DEF IsTheLatest
  <1>2. \A j \in DOMAIN cache : cache[j].ip # ip
    BY DEF PlacesOf
  <1>3. /\ FromDatabase(state, ip, inChina).places = Append(room, new)
        /\ FromDatabase(state, ip, inChina).seen = Append(left, ip)
    BY DEF FromDatabase
  <1>4. /\ left \in Seq(Addresses)
        /\ \/ left = uses /\ \A j \in DOMAIN uses : uses[j] # ip
           \/ \E u \in DOMAIN uses :
                 /\ uses[u] = ip /\ Len(left) = Len(uses) - 1
                 /\ \A i \in 1 .. Len(uses) - 1 : left[i] = IF i < u THEN uses[i] ELSE uses[i + 1]
    BY <1>1, UsesMoveOn
  <1>5. new \in Place /\ new.ip = ip /\ new.inChina = inChina
    BY DEF Place
  <1>6. MaxPlaces \in Nat \ {0} /\ Len(uses) \in Nat /\ Len(cache) \in Nat /\ Len(left) \in Nat
    BY <1>1, <1>4, RoutingAssumption
  <1>d. /\ DOMAIN uses = 1 .. Len(uses) /\ DOMAIN cache = 1 .. Len(cache)
        /\ DOMAIN left = 1 .. Len(left)
    BY <1>1, <1>4
  <1>7. /\ Len(cache) >= MaxPlaces => room = Tail(cache)
        /\ ~(Len(cache) >= MaxPlaces) => room = cache
    BY DEF MakeRoom
  <1>l. /\ Len(cache) < MaxPlaces => Len(uses) = Len(cache)
        /\ ~(Len(cache) < MaxPlaces) => Len(cache) = MaxPlaces /\ Len(uses) >= MaxPlaces
    <2>1. Len(cache) = IF Len(uses) < MaxPlaces THEN Len(uses) ELSE MaxPlaces
      BY <1>1
    <2> HIDE DEF cache, uses
    <2>2. QED  BY <1>6, <2>1
  <1> HIDE DEF left, room, new, cache, uses
\* The entries that stay are those of the last uses that stay.
  <1>8. /\ room \in Seq(Place) /\ Len(room) < MaxPlaces
        /\ Len(room) <= Len(left)
        /\ Len(room) + 1 = IF Len(left) + 1 < MaxPlaces THEN Len(left) + 1 ELSE MaxPlaces
        /\ \A i \in 1 .. Len(room) :
              /\ room[i].inChina => room[i].ip \in China
              /\ room[i].ip = left[Len(left) - Len(room) + i]
    <2>1. CASE Len(cache) < MaxPlaces
      <3>1. room = cache /\ Len(uses) = Len(cache)
        BY <1>6, <1>7, <1>l, <2>1
      <3>2. \A j \in DOMAIN cache : cache[j].ip = uses[j]
        <4>1. \A j \in DOMAIN cache : Len(uses) - Len(cache) + j = j
          BY <1>6, <3>1
        <4>2. QED  BY <1>1, <4>1
      <3>3. \A j \in DOMAIN uses : uses[j] # ip
        BY <1>2, <1>6, <3>1, <3>2
      <3>4. left = uses
        BY <1>4, <3>3
      <3>5. \A i \in 1 .. Len(room) : Len(left) - Len(room) + i = i
        BY <1>6, <3>1, <3>4
      <3>6. \A i \in 1 .. Len(room) :
               /\ room[i].inChina => room[i].ip \in China
               /\ room[i].ip = left[Len(left) - Len(room) + i]
        BY <1>1, <1>6, <3>1, <3>2, <3>4, <3>5
      <3>7. Len(room) < MaxPlaces /\ Len(room) = Len(left) /\ room \in Seq(Place)
        BY <1>1, <2>1, <3>1, <3>4
      <3>8. Len(room) + 1 = IF Len(left) + 1 < MaxPlaces THEN Len(left) + 1 ELSE MaxPlaces
        BY <1>6, <3>7
      <3>9. QED  BY <1>6, <3>6, <3>7, <3>8
    <2>2. CASE Len(cache) >= MaxPlaces
      <3>1. Len(cache) = MaxPlaces /\ Len(uses) >= MaxPlaces /\ cache # <<>>
        <4>1. Len(cache) = MaxPlaces /\ Len(uses) >= MaxPlaces
          BY <1>6, <1>l, <2>2
        <4>2. Len(<<>>) = 0
          OBVIOUS
        <4>3. QED  BY <1>6, <4>1, <4>2
      <3>2. /\ room \in Seq(Place) /\ Len(room) = MaxPlaces - 1
            /\ \A i \in 1 .. MaxPlaces - 1 : room[i] = cache[i + 1]
        <4>1. room = Tail(cache)
          BY <1>7, <2>2
        <4>2. /\ Tail(cache) \in Seq(Place) /\ Len(Tail(cache)) = Len(cache) - 1
              /\ \A i \in 1 .. Len(Tail(cache)) : Tail(cache)[i] = cache[i + 1]
          BY <1>1, <3>1, HeadTailProperties
        <4>3. Len(Tail(cache)) = MaxPlaces - 1
          BY <3>1, <4>2
        <4>4. QED  BY <4>1, <4>2, <4>3
      <3>3. \A i \in 1 .. MaxPlaces - 1 :
               /\ room[i].inChina => room[i].ip \in China
               /\ room[i].ip = uses[(Len(uses) - MaxPlaces) + (i + 1)]
        <4> SUFFICES ASSUME NEW i \in 1 .. MaxPlaces - 1
                     PROVE  /\ room[i].inChina => room[i].ip \in China
                            /\ room[i].ip = uses[(Len(uses) - MaxPlaces) + (i + 1)]
          OBVIOUS
        <4>1. i + 1 \in DOMAIN cache /\ room[i] = cache[i + 1]
          BY <1>6, <3>1, <3>2
        <4>2. QED  BY <1>1, <3>1, <4>1
      <3>4. \A i \in 1 .. MaxPlaces - 1 :
               left[Len(left) - (MaxPlaces - 1) + i] = uses[(Len(uses) - MaxPlaces) + (i + 1)]
        <4>1. CASE left = uses
          <5>1. \A i \in 1 .. MaxPlaces - 1 :
                   Len(left) - (MaxPlaces - 1) + i = (Len(uses) - MaxPlaces) + (i + 1)
            BY <1>6, <4>1
          <5>2. QED  BY <4>1, <5>1
        <4>2. ASSUME NEW u \in DOMAIN uses, uses[u] = ip, Len(left) = Len(uses) - 1,
                     \A i \in 1 .. Len(uses) - 1 :
                        left[i] = IF i < u THEN uses[i] ELSE uses[i + 1]
              PROVE  \A i \in 1 .. MaxPlaces - 1 :
                        left[Len(left) - (MaxPlaces - 1) + i]
                            = uses[(Len(uses) - MaxPlaces) + (i + 1)]
          <5>1. u <= Len(uses) - MaxPlaces
            <6>1. CASE u <= Len(uses) - MaxPlaces
              BY <6>1
            <6>2. CASE ~(u <= Len(uses) - MaxPlaces)
              <7>1. u - (Len(uses) - MaxPlaces) \in DOMAIN cache
                BY <1>6, <3>1, <6>2
              <7>2. (Len(uses) - MaxPlaces) + (u - (Len(uses) - MaxPlaces)) = u
                BY <1>6
              <7>3. cache[u - (Len(uses) - MaxPlaces)].ip = uses[u]
                BY <1>1, <3>1, <7>1, <7>2
              <7>4. QED  BY <1>2, <4>2, <7>1, <7>3
            <6>3. QED  BY <6>1, <6>2
          <5>2. SUFFICES ASSUME NEW i \in 1 .. MaxPlaces - 1
                         PROVE  left[Len(left) - (MaxPlaces - 1) + i]
                                    = uses[(Len(uses) - MaxPlaces) + (i + 1)]
            OBVIOUS
          <5>3. PICK j \in Int : j = Len(uses) - MaxPlaces + i
            BY <1>6
          <5>4. j \in 1 .. Len(uses) - 1 /\ ~(j < u)
            BY <1>6, <3>1, <5>1, <5>3
          <5>5. /\ Len(left) - (MaxPlaces - 1) + i = j
                /\ (Len(uses) - MaxPlaces) + (i + 1) = j + 1
            BY <1>6, <4>2, <5>3
          <5>6. QED  BY <4>2, <5>4, <5>5
        <4>3. QED  BY <1>4, <4>1, <4>2
      <3>5. Len(left) = Len(uses) \/ Len(left) = Len(uses) - 1
        BY <1>4
      <3>6. /\ Len(room) < MaxPlaces /\ Len(room) <= Len(left)
            /\ Len(room) + 1 = IF Len(left) + 1 < MaxPlaces THEN Len(left) + 1 ELSE MaxPlaces
        BY <1>6, <3>1, <3>2, <3>5
      <3>7. QED  BY <3>2, <3>3, <3>4, <3>6
    <2>3. QED  BY <1>6, <2>1, <2>2
  <1>9. IsTheLatest(Append(room, new), Append(left, ip))
    <2> DEFINE c == Append(room, new)
               u == Append(left, ip)
    <2>1. Len(room) \in Nat
      BY <1>8
    <2>2. /\ c \in Seq(Place) /\ Len(c) = Len(room) + 1 /\ DOMAIN c = 1 .. Len(room) + 1
          /\ c[Len(room) + 1] = new /\ \A i \in 1 .. Len(room) : c[i] = room[i]
      BY <1>5, <1>8, <2>1
    <2>3. /\ u \in Seq(Addresses) /\ Len(u) = Len(left) + 1 /\ DOMAIN u = 1 .. Len(left) + 1
          /\ u[Len(left) + 1] = ip /\ \A i \in 1 .. Len(left) : u[i] = left[i]
      BY <1>4, <1>6
    <2> HIDE DEF c, u
    <2>4. \A i \in DOMAIN c : i \in 1 .. Len(room) \/ i = Len(room) + 1
      BY <2>1, <2>2
    <2>5. \A i \in DOMAIN c : c[i].inChina => c[i].ip \in China
      BY <1>5, <1>8, <2>2, <2>4
    <2>6. \A i \in 1 .. Len(left) : left[i] # ip
      <3>1. CASE left = uses /\ \A j \in DOMAIN uses : uses[j] # ip
        BY <1>6, <3>1
      <3>2. CASE \E x \in DOMAIN uses :
                    /\ uses[x] = ip /\ Len(left) = Len(uses) - 1
                    /\ \A i \in 1 .. Len(uses) - 1 : left[i] = IF i < x THEN uses[i] ELSE uses[i + 1]
        BY <1>1, <1>6, <3>2
      <3>3. QED  BY <1>4, <3>1, <3>2
    <2>7. \A i, j \in 1 .. Len(left) : left[i] = left[j] => i = j
      <3>1. CASE left = uses
        BY <1>1, <1>6, <3>1
      <3>2. ASSUME NEW x \in DOMAIN uses, Len(left) = Len(uses) - 1,
                   \A i \in 1 .. Len(uses) - 1 : left[i] = IF i < x THEN uses[i] ELSE uses[i + 1],
                   NEW i \in 1 .. Len(left), NEW j \in 1 .. Len(left), left[i] = left[j]
            PROVE  i = j
        <4>1. PICK m \in DOMAIN uses : left[i] = uses[m] /\ m = IF i < x THEN i ELSE i + 1
          BY <1>6, <3>2
        <4>2. PICK n \in DOMAIN uses : left[j] = uses[n] /\ n = IF j < x THEN j ELSE j + 1
          BY <1>6, <3>2
        <4>3. m = n
          BY <1>1, <3>2, <4>1, <4>2
        <4>4. QED  BY <1>6, <4>1, <4>2, <4>3
      <3>3. QED  BY <1>4, <3>1, <3>2
    <2>8. \A i, j \in DOMAIN u : u[i] = u[j] => i = j
      <3>1. \A i \in DOMAIN u : i \in 1 .. Len(left) \/ i = Len(left) + 1
        BY <1>6, <2>3
      <3>2. QED  BY <2>3, <2>6, <2>7, <3>1
    <2>9. \A i \in DOMAIN c : c[i].ip = u[Len(u) - Len(c) + i]
      <3>1. Len(u) - Len(c) = Len(left) - Len(room)
        BY <1>6, <2>1, <2>2, <2>3
      <3>2. \A i \in 1 .. Len(room) :
               /\ Len(left) - Len(room) + i \in 1 .. Len(left)
               /\ c[i].ip = left[Len(left) - Len(room) + i]
        BY <1>6, <1>8, <2>1, <2>2
      <3>3. Len(left) - Len(room) + (Len(room) + 1) = Len(left) + 1
        BY <1>6, <2>1
      <3>4. c[Len(room) + 1].ip = u[Len(left) - Len(room) + (Len(room) + 1)]
        BY <1>5, <2>2, <2>3, <3>3
      <3>5. QED  BY <2>3, <2>4, <3>1, <3>2, <3>4
    <2>10. QED  BY <1>8, <2>2, <2>3, <2>5, <2>8, <2>9 DEF IsTheLatest, c, u
  <1>10. QED  BY <1>3, <1>9

\* isChinaIP(ip) and what it leaves: never a yes for an address elsewhere.
LEMMA LookUpKeeps ==
    ASSUME NEW state, IsTheLatest(state.places, state.seen), NEW ip \in Addresses, NEW failing
    PROVE  LET next == LookUp(state, ip, failing) IN
           /\ IsTheLatest(next.places, next.seen)
           /\ next.direct \in BOOLEAN /\ (next.direct => ip \in China)
  <1>1. CASE PlacesOf(state.places, ip) # {}
    <2>1. PICK k \in PlacesOf(state.places, ip) :
             k = CHOOSE x \in PlacesOf(state.places, ip) : TRUE
      BY <1>1
    <2>2. LookUp(state, ip, failing) = FromCache(state, ip, k)
      BY <1>1, <2>1 DEF LookUp
    <2>3. QED  BY <2>2, FromCacheKeeps
  <1>2. CASE PlacesOf(state.places, ip) = {}
    <2> DEFINE yes == ip \in China \ failing
    <2>1. yes \in BOOLEAN
      OBVIOUS
    <2>2. LookUp(state, ip, failing) = FromDatabase(state, ip, yes)
      BY <1>2 DEF LookUp
    <2>3. yes => ip \in China
      OBVIOUS
    <2> HIDE DEF yes
    <2>4. FromDatabase(state, ip, yes).direct = yes
      BY DEF FromDatabase
    <2>5. QED  BY <1>2, <2>1, <2>2, <2>3, <2>4, FromDatabaseKeeps
  <1>3. QED  BY <1>1, <1>2

\* checkIPsShouldProxy(ips), too.
LEMMA CheckKeeps ==
    ASSUME IsTheLatest(places, seen), NEW ips \in AddressList, NEW failing
    PROVE  LET result == Check(ips, failing) IN
           /\ IsTheLatest(result.places, result.seen)
           /\ result.direct => \E k \in DOMAIN ips : ips[k] \in China
  <1> DEFINE begin == [places |-> places, seen |-> seen, direct |-> FALSE]
             one == LookUp(begin, ips[1], failing)
             two == LookUp(one, ips[2], failing)
  <1>1. /\ ips[1] \in Addresses /\ 1 \in DOMAIN ips
        /\ Len(ips) # 1 => ips[2] \in Addresses /\ 2 \in DOMAIN ips
    <2>1. CASE \E a \in Addresses : ips = <<a>>
      BY <2>1
    <2>2. CASE \E a, b \in Addresses : ips = <<a, b>>
      BY <2>2
    <2>3. QED  BY <2>1, <2>2 DEF AddressList, Pairs
  <1>2. begin.places = places /\ begin.seen = seen
    OBVIOUS
  <1>3. Check(ips, failing) = IF one.direct \/ Len(ips) = 1 THEN one ELSE two
    BY DEF Check
  <1> HIDE DEF begin
  <1>4. IsTheLatest(one.places, one.seen) /\ (one.direct => ips[1] \in China)
    BY <1>1, <1>2, LookUpKeeps
  <1> HIDE DEF one
  <1>5. Len(ips) # 1 => IsTheLatest(two.places, two.seen) /\ (two.direct => ips[2] \in China)
    BY <1>1, <1>4, LookUpKeeps
  <1> HIDE DEF two
  <1>6. CASE one.direct \/ Len(ips) = 1
    BY <1>1, <1>3, <1>4, <1>6
  <1>7. CASE ~(one.direct \/ Len(ips) = 1)
    BY <1>1, <1>3, <1>5, <1>7
  <1>8. QED  BY <1>6, <1>7

-----------------------------------------------------------------------------
(* The decisions                                                           *)

\* A decision on addresses that are not too old.
LEMMA DecisionsAreRight ==
    ASSUME RoutingInv, NEW ips \in AddressList, NEW made, clock <= made + TTL,
           Decides(ips, made), UNCHANGED clock
    PROVE  IsTheLatest(places, seen)' /\ DirectIsJustified'
  <1>1. PICK failing \in SUBSET China :
           /\ places' = Check(ips, failing).places
           /\ seen' = Check(ips, failing).seen
           /\ route' = [direct |-> Check(ips, failing).direct, ips |-> ips, made |-> made]
    BY DEF Decides
  <1>2. /\ IsTheLatest(Check(ips, failing).places, Check(ips, failing).seen)
        /\ Check(ips, failing).direct => \E k \in DOMAIN ips : ips[k] \in China
    BY CheckKeeps DEF RoutingInv
  <1>3. IsTheLatest(places', seen')
    BY <1>1, <1>2
  <1>4. route'.direct = Check(ips, failing).direct /\ route'.ips = ips /\ route'.made = made
    BY <1>1
  <1>5. DirectIsJustified'
    BY <1>2, <1>4 DEF DirectIsJustified
  <1>6. IsTheLatest(places, seen)'
    BY <1>3 DEF IsTheLatest
  <1>7. QED  BY <1>5, <1>6

\* Taking the tunnel needs no justification.
LEMMA TunnelIsRight ==
    ASSUME RoutingInv, route' = Undecided, UNCHANGED <<places, seen>>
    PROVE  IsTheLatest(places, seen)' /\ DirectIsJustified'
  <1>1. ~route'.direct
    BY DEF Undecided
  <1>2. QED  BY <1>1 DEF RoutingInv, IsTheLatest, DirectIsJustified

\* Answers stay dated while the clock stands still, and when it goes on.
LEMMA AnswersStayDated ==
    ASSUME RoutingInv, clock' \in Nat, clock <= clock'
    PROVE  Dated \subseteq Dated'
  BY DEF RoutingInv, Dated

LEMMA RoutingStart == RoutingInit => RoutingInv
  <1> SUFFICES ASSUME RoutingInit PROVE RoutingInv
    OBVIOUS
  <1>1. clock = 0 /\ names = <<>> /\ places = <<>> /\ seen = <<>> /\ ~route.direct
    BY DEF RoutingInit, Undecided
  <1>2. <<>> \in Seq(Dated) /\ <<>> \in Seq(Place) /\ <<>> \in Seq(Addresses)
        /\ Len(<<>>) = 0 /\ DOMAIN <<>> = {}
    OBVIOUS
  <1>3. IsTheLatest(places, seen)
    BY <1>1, <1>2, RoutingAssumption DEF IsTheLatest
  <1>4. QED  BY <1>1, <1>2, <1>3 DEF RoutingInv, DirectIsJustified

LEMMA RoutingKeeps == RoutingInv /\ [RoutingNext]_routingVars => RoutingInv'
  <1> SUFFICES ASSUME RoutingInv, [RoutingNext]_routingVars PROVE RoutingInv'
    OBVIOUS
  <1>1. clock \in Nat /\ names \in Seq(Dated) /\ TTL \in Nat
    BY RoutingAssumption DEF RoutingInv
  <1>2. ASSUME clock' = clock PROVE Dated' = Dated
    BY <1>2 DEF Dated
  <1>3. ASSUME NEW cache \in Seq(Dated)
        PROVE  MakeRoom(cache, MaxNames) \in Seq(Dated)
    <2>1. Len(cache) >= MaxNames => cache # <<>>
      <3>1. Len(<<>>) = 0
        OBVIOUS
      <3>2. QED  BY <3>1, RoutingAssumption
    <2>2. cache # <<>> => Tail(cache) \in Seq(Dated)
      BY <1>3, HeadTailProperties
    <2>3. QED  BY <1>3, <2>1, <2>2 DEF MakeRoom
  <1>4. CASE RouteAddress
    <2>1. PICK ip \in Addresses : Decides(<<ip>>, clock)
      BY <1>4 DEF RouteAddress
    <2>2. clock' = clock /\ names' = names
      BY <1>4 DEF RouteAddress
    <2>3. <<ip>> \in AddressList /\ clock <= clock + TTL
      BY <1>1 DEF AddressList
    <2>4. QED  BY <1>1, <1>2, <2>1, <2>2, <2>3, DecisionsAreRight DEF RoutingInv
  <1>5. CASE RouteCached
    <2>1. PICK k \in DOMAIN names :
             /\ clock <= names[k].expires
             /\ names' = Append(RemoveAt(names, k), Kept(names[k]))
             /\ Decides(names[k].ips, names[k].made) /\ clock' = clock
      BY <1>5 DEF RouteCached
    <2>2. names[k] \in Dated
      BY <1>1
    <2>3. names[k].ips \in AddressList /\ clock <= names[k].made + TTL
      BY <2>1, <2>2 DEF Dated
    <2>4. names' \in Seq(Dated)
      BY <1>1, <2>1, <2>2, RemoveAtLeaves DEF Kept
    <2>5. QED  BY <1>1, <1>2, <2>1, <2>3, <2>4, DecisionsAreRight DEF RoutingInv
  <1>6. CASE DropExpired
    <2>1. PICK at \in [1 .. Cardinality({k \in DOMAIN names : clock <= names[k].expires})
                       -> {k \in DOMAIN names : clock <= names[k].expires}] :
             names' = [i \in DOMAIN at |-> names[at[i]]]
      BY <1>6 DEF DropExpired
    <2>2. UNCHANGED <<clock, places, route, seen>>
      BY <1>6 DEF DropExpired
    <2> DEFINE live == {k \in DOMAIN names : clock <= names[k].expires}
    <2>3. Cardinality(live) \in Nat
      <3>1. IsFiniteSet(1 .. Len(names)) /\ live \subseteq 1 .. Len(names)
        BY <1>1, FS_Interval
      <3>2. QED  BY <3>1, FS_Subset, FS_CardinalityType
    <2>4. \A i \in 1 .. Cardinality(live) : names[at[i]] \in Dated
      BY <1>1, <2>1
    <2>5. names' = [i \in 1 .. Cardinality(live) |-> names[at[i]]]
      BY <2>1
    <2> HIDE DEF live
    <2>6. names' \in Seq(Dated)
      BY <2>3, <2>4, <2>5
    <2>7. IsTheLatest(places, seen)' /\ DirectIsJustified'
      BY <2>2 DEF RoutingInv, IsTheLatest, DirectIsJustified
    <2>8. QED  BY <1>1, <1>2, <2>2, <2>6, <2>7 DEF RoutingInv
  <1>7. CASE ClockTicks
    <2>1. clock' = clock + 1 /\ route' = Undecided /\ UNCHANGED <<names, places, seen>>
      BY <1>7 DEF ClockTicks
    <2>2. clock' \in Nat /\ Dated \subseteq Dated'
      BY <1>1, <2>1, AnswersStayDated
    <2>3. names' \in Seq(Dated')
      BY <1>1, <2>1, <2>2
    <2>4. QED  BY <2>1, <2>2, <2>3, TunnelIsRight DEF RoutingInv
  <1>8. ASSUME NEW c \in Callers, StartQuery(c) PROVE RoutingInv'
    <2>1. PICK h \in Hosts : names' = Without(names, NamesOf(h))
      BY <1>8 DEF StartQuery
    <2>2. UNCHANGED <<clock, places, route, seen>>
      BY <1>8 DEF StartQuery
    <2>3. names' \in Seq(Dated)
      BY <1>1, <2>1, WithoutIsTyped DEF NamesOf
    <2>4. IsTheLatest(places, seen)' /\ DirectIsJustified'
      BY <2>2 DEF RoutingInv, IsTheLatest, DirectIsJustified
    <2>5. QED  BY <1>1, <1>2, <2>2, <2>3, <2>4 DEF RoutingInv
  <1>9. ASSUME NEW c \in Callers, QueryAnswered(c) PROVE RoutingInv'
    <2>1. PICK ans \in Answered :
             /\ names' = Append(MakeRoom(Without(names, NamesOf(ans.host)), MaxNames),
                                [host |-> ans.host, ips |-> ans.ips, made |-> clock,
                                 expires |-> clock + TTL])
             /\ Decides(ans.ips, clock) /\ clock' = clock
      BY <1>9 DEF QueryAnswered
    <2>2. ans.host \in Hosts /\ ans.ips \in AddressList
      BY DEF Answered, AddressList
    <2>3. [host |-> ans.host, ips |-> ans.ips, made |-> clock, expires |-> clock + TTL] \in Dated
      BY <1>1, <2>2 DEF Dated
    <2>4. Without(names, NamesOf(ans.host)) \in Seq(Dated)
      BY <1>1, WithoutIsTyped DEF NamesOf
    <2>5. names' \in Seq(Dated)
      BY <1>3, <2>1, <2>3, <2>4
    <2>6. clock <= clock + TTL
      BY <1>1
    <2>7. QED  BY <1>1, <1>2, <2>1, <2>2, <2>5, <2>6, DecisionsAreRight DEF RoutingInv
  <1>10. ASSUME NEW c \in Callers, QueryFails(c) PROVE RoutingInv'
    BY <1>1, <1>2, <1>10, TunnelIsRight DEF QueryFails, TakesTunnel, RoutingInv
  <1>11. CASE UNCHANGED routingVars
    BY <1>1, <1>2, <1>11 DEF routingVars, RoutingInv, IsTheLatest, DirectIsJustified
  <1>12. QED
    BY <1>4, <1>5, <1>6, <1>7, <1>8, <1>9, <1>10, <1>11 DEF RoutingNext

\* Neither a cache, however it fills up, nor a failure ever takes traffic out of
\* the tunnel by mistake: who is connected to directly is in China, by an answer
\* that DNS_CACHE_TTL still covers (proxy-decision.ts:58, geoip.ts:73).
THEOREM RoutesAreJustified == RoutingSpec => []DirectIsJustified
  <1>1. RoutingInv => DirectIsJustified
    BY DEF RoutingInv
  <1>2. QED  BY <1>1, RoutingStart, RoutingKeeps, PTL DEF RoutingSpec

\* The cache of places holds the addresses used last, in the order of their use,
\* as many as GEOIP_CACHE_SIZE allows (lru-cache.ts:20, 35).
THEOREM PlacesAreTheLatest == RoutingSpec => []HoldsTheLatest
  <1>1. RoutingInv => HoldsTheLatest
    <2> SUFFICES ASSUME RoutingInv PROVE HoldsTheLatest
      OBVIOUS
    <2> DEFINE n == Len(places)
               m == Len(seen)
               last == SubSeq(seen, m - n + 1, m)
    <2>1. /\ places \in Seq(Place) /\ seen \in Seq(Addresses)
          /\ n = IF m < MaxPlaces THEN m ELSE MaxPlaces
          /\ \A k \in DOMAIN places : places[k].ip = seen[m - n + k]
      BY DEF RoutingInv, IsTheLatest
    <2>2. m \in Nat /\ n \in Nat /\ MaxPlaces \in Nat /\ DOMAIN places = 1 .. n
      BY <2>1, RoutingAssumption
    <2>3. HoldsTheLatest <=> [k \in DOMAIN places |-> places[k].ip] = last
      BY <2>1 DEF HoldsTheLatest
    <2>4. n <= m
      <3>1. n = IF m < MaxPlaces THEN m ELSE MaxPlaces
        BY <2>1
      <3>2. m \in Nat /\ n \in Nat /\ MaxPlaces \in Nat
        BY <2>2
      <3> HIDE DEF n, m
      <3>3. QED  BY <3>1, <3>2
    <2>5. /\ last \in Seq(Addresses)
          /\ Len(last) = IF m - n + 1 <= m THEN m - (m - n + 1) + 1 ELSE 0
          /\ \A i \in 1 .. m - (m - n + 1) + 1 : last[i] = seen[m - n + 1 + i - 1]
      <3>1. \A i \in m - n + 1 .. m : seen[i] \in Addresses
        BY <2>1, <2>2, <2>4
      <3>2. m - n + 1 \in Int /\ m \in Int
        BY <2>2
      <3>3. QED  BY <3>1, <3>2, SubSeqProperties
    <2> HIDE DEF last, n, m
    <2>6. Len(last) = n /\ \A i \in 1 .. n : last[i] = seen[m - n + i]
      <3>1. m - (m - n + 1) + 1 = n
        BY <2>2
      <3>2. \A i \in 1 .. n : m - n + 1 + i - 1 = m - n + i
        BY <2>2
      <3>3. QED  BY <2>2, <2>5, <3>1, <3>2
    <2>7. last = [k \in 1 .. n |-> last[k]]
      BY <2>5, <2>6
    <2>8. \A k \in 1 .. n : last[k] = places[k].ip
      BY <2>1, <2>2, <2>6
    <2>9. QED  BY <2>2, <2>3, <2>7, <2>8
  <1>2. QED  BY <1>1, RoutingStart, RoutingKeeps, PTL DEF RoutingSpec
===============================================================================
