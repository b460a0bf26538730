-------------------------- MODULE RateLimiterProofs --------------------------
(***************************************************************************)
(* Proofs about RateLimiter, for any keys, shards, rates and threads: a    *)
(* denied caller's Retry-After is honest whatever threads call; on the event *)
(* loop alone no key is allowed more than its bucket holds, and the whole  *)
(* limiter implements the plain buckets of TokenBucket; a shard is never   *)
(* larger than it may be, and its order is one of exactly its keys.        *)
(*                                                                         *)
(* The first three do not depend on which key is evicted: their invariant, *)
(* Buckets, says nothing of the order.                                     *)
(***************************************************************************)
EXTENDS RateLimiter, FiniteSetTheorems, TLAPS

USE DEF Shards

-----------------------------------------------------------------------------
(* Invariants *)

\* The part of TypeOK that does not speak of the order.
Buckets ==
    /\ now \in Nat
    /\ tokens \in [Keys -> Nat] /\ \A k \in Keys : tokens[k] <= Capacity[k]
    /\ last \in [Keys -> Nat] /\ \A k \in Keys : last[k] <= now
    /\ threads \subseteq PoolThreads
    /\ call \in [PoolThreads -> [key : Keys \cup {NoKey}, read : Nat]]
    /\ \A t \in PoolThreads : call[t].read <= now
    /\ sweepTime \in Nat /\ sweepTime <= now
    /\ granted \in [Keys -> Nat]
    /\ since \in [Keys -> Nat] /\ \A k \in Keys : since[k] <= now
    /\ promise \in [Keys -> Int]

\* The time promised to a denied caller is one at which its bucket has its tokens.
Promised ==
    \A k \in Keys : (promise[k] # -1 /\ k \in tracked) =>
        /\ last[k] <= promise[k]
        /\ tokens[k] + (promise[k] - last[k]) * Rate[k] >= Cost

\* What was granted and what is left never exceed what was there and what came in.
Conserved ==
    \A k \in Keys :
        granted[k] * Cost + Found(k, now) <= Capacity[k] + (now - since[k]) * Rate[k]

-----------------------------------------------------------------------------
(* Arithmetic *)

\* Products of the amounts of time and rates that occur below.
LEMMA Products ==
    \A x, y \in Int, r \in Nat :
        /\ (x + 1) * r = x * r + r
        /\ x * r \in Int
        /\ x <= y => x * r <= y * r
        /\ x * r = r * x
        /\ 0 * r = 0
        /\ x - x = 0
BY SMT

\* One more request costs as much again.
LEMMA OneMoreGrant ==
    ASSUME NEW n \in Int, NEW c \in Int
    PROVE  (n + 1) * c = n * c + c
BY SMT

\* Rounding up the time to wait for m units never comes short of m.
LEMMA Waiting ==
    ASSUME NEW m \in Nat, NEW r \in Nat \ {0}
    PROVE  /\ (m + r - 1) \div r \in Int
           /\ ((m + r - 1) \div r) * r >= m
BY SMT

-----------------------------------------------------------------------------
(* Buckets *)

USE ShardsAssumption, KeysAssumption, CostAssumption, TimeAssumption

\* What a call finds in a bucket is never more than its capacity.
LEMMA FoundBounds ==
    ASSUME Buckets, NEW k \in Keys, NEW t \in Nat
    PROVE  Found(k, t) \in Nat /\ Found(k, t) <= Capacity[k]
<1>1. tokens[k] \in Nat /\ tokens[k] <= Capacity[k] /\ Capacity[k] \in Nat /\ Rate[k] \in Nat
  BY DEF Buckets
<1>2. Elapsed(k, t) \in Nat
  BY DEF Elapsed, Buckets
<1>3. Elapsed(k, t) * Rate[k] \in Nat
  BY <1>1, <1>2, SMT
<1> QED BY <1>1, <1>3 DEF Found, Least

\* What a decision on key k with a clock read at t leaves of every bucket.
LEMMA DecideEffect ==
    ASSUME Buckets, NEW k \in Keys, NEW t \in Nat, Decide(k, t)
    PROVE  /\ tracked' = (tracked \ Evicted(k)) \cup {k}
           /\ \A j \in Keys : j # k =>
                 \/ /\ j \notin Evicted(k)
                    /\ tokens'[j] = tokens[j] /\ last'[j] = last[j]
                    /\ granted'[j] = granted[j] /\ since'[j] = since[j]
                    /\ promise'[j] = promise[j]
                 \/ /\ j \in Evicted(k)
                    /\ tokens'[j] = 0 /\ last'[j] = 0
                    /\ granted'[j] = 0 /\ since'[j] = now
                    /\ promise'[j] = promise[j]
           /\ last'[k] = t /\ since'[k] = since[k]
           /\ \/ /\ Found(k, t) >= Cost
                 /\ tokens'[k] = Found(k, t) - Cost
                 /\ granted'[k] = granted[k] + 1
                 /\ promise'[k] = -1
              \/ /\ Found(k, t) < Cost
                 /\ tokens'[k] = Found(k, t)
                 /\ granted'[k] = granted[k]
                 /\ promise'[k] = IF Rate[k] = 0 THEN -1 ELSE t + RetryAfter(k, Found(k, t))
           /\ now' = now /\ threads' = threads
           /\ sweepAt' = sweepAt /\ sweepTime' = sweepTime
           /\ tokens' = [j \in Keys |-> tokens'[j]]
           /\ last' = [j \in Keys |-> last'[j]]
           /\ granted' = [j \in Keys |-> granted'[j]]
           /\ since' = [j \in Keys |-> since'[j]]
           /\ promise' = [j \in Keys |-> promise'[j]]
<1>1. Found(k, t) \in Nat
  BY FoundBounds
<1>2. promise \in [Keys -> Int]
  BY DEF Buckets
<1> DEFINE allowed == Found(k, t) >= Cost
<1>3. /\ tracked' = (tracked \ Evicted(k)) \cup {k}
      /\ tokens' = [j \in Keys |-> IF j = k THEN IF allowed THEN Found(k, t) - Cost ELSE Found(k, t)
                                   ELSE IF j \in Evicted(k) THEN 0 ELSE tokens[j]]
      /\ last' = [j \in Keys |-> IF j = k THEN t ELSE IF j \in Evicted(k) THEN 0 ELSE last[j]]
      /\ granted' = [j \in Keys |-> IF j = k THEN IF allowed THEN granted[k] + 1 ELSE granted[k]
                                    ELSE IF j \in Evicted(k) THEN 0 ELSE granted[j]]
      /\ since' = [j \in Keys |-> IF j # k /\ j \in Evicted(k) THEN now ELSE since[j]]
      /\ promise' = [promise EXCEPT ![k] =
                        IF allowed \/ Rate[k] = 0 THEN -1 ELSE t + RetryAfter(k, Found(k, t))]
      /\ now' = now /\ threads' = threads
      /\ sweepAt' = sweepAt /\ sweepTime' = sweepTime
  BY Zenon DEF Decide, sweep
<1>4. \A j \in Keys : j # k =>
                 \/ /\ j \notin Evicted(k)
                    /\ tokens'[j] = tokens[j] /\ last'[j] = last[j]
                    /\ granted'[j] = granted[j] /\ since'[j] = since[j]
                    /\ promise'[j] = promise[j]
                 \/ /\ j \in Evicted(k)
                    /\ tokens'[j] = 0 /\ last'[j] = 0
                    /\ granted'[j] = 0 /\ since'[j] = now
                    /\ promise'[j] = promise[j]
  BY <1>2, <1>3
<1>5. last'[k] = t /\ since'[k] = since[k]
  BY <1>3
<1>6. \/ /\ Found(k, t) >= Cost
         /\ tokens'[k] = Found(k, t) - Cost
         /\ granted'[k] = granted[k] + 1
         /\ promise'[k] = -1
      \/ /\ Found(k, t) < Cost
         /\ tokens'[k] = Found(k, t)
         /\ granted'[k] = granted[k]
         /\ promise'[k] = IF Rate[k] = 0 THEN -1 ELSE t + RetryAfter(k, Found(k, t))
  BY <1>1, <1>2, <1>3
<1>7. /\ tokens' = [j \in Keys |-> tokens'[j]]
      /\ last' = [j \in Keys |-> last'[j]]
      /\ granted' = [j \in Keys |-> granted'[j]]
      /\ since' = [j \in Keys |-> since'[j]]
      /\ promise' = [j \in Keys |-> promise'[j]]
  BY <1>2, <1>3
<1> QED BY <1>3, <1>4, <1>5, <1>6, <1>7

\* The wait told to a caller is a whole number of ticks, long enough for its tokens.
LEMMA RetryAfterEnough ==
    ASSUME NEW k \in Keys, NEW have \in Nat, have < Cost, Rate[k] # 0
    PROVE  /\ RetryAfter(k, have) \in Nat
           /\ have + RetryAfter(k, have) * Rate[k] >= Cost
<1> DEFINE r == Rate[k]
           m == Cost - have
           w == (m + r - 1) \div r
<1>1. r \in Nat \ {0} /\ m \in Nat
  OBVIOUS
<1> HIDE DEF r, m
<1>2. w \in Int /\ w * r >= m
  BY <1>1, Waiting
<1>3. RetryAfter(k, have) = IF w > 1 THEN w ELSE 1
  BY Zenon DEF RetryAfter, r, m
<1> HIDE DEF w
<1>4. w <= 1 => w * r <= 1 * r
  BY <1>1, <1>2, Products
<1>5. RetryAfter(k, have) \in Nat /\ RetryAfter(k, have) * r >= m
  BY <1>1, <1>2, <1>3, <1>4
<1> QED BY <1>5 DEF m, r

\* A decision keeps the buckets well-formed.
LEMMA DecideBuckets ==
    ASSUME Buckets, NEW k \in Keys, NEW t \in Nat, t <= now, Decide(k, t),
           call' \in [PoolThreads -> [key : Keys \cup {NoKey}, read : Nat]],
           \A u \in PoolThreads : call'[u].read <= now
    PROVE  Buckets'
<1>1. Found(k, t) \in Nat /\ Found(k, t) <= Capacity[k]
  BY FoundBounds
<1>2. \A j \in Keys : /\ tokens'[j] \in Nat /\ tokens'[j] <= Capacity[j]
                      /\ last'[j] \in Nat /\ last'[j] <= now
                      /\ granted'[j] \in Nat
                      /\ since'[j] \in Nat /\ since'[j] <= now
  BY <1>1, DecideEffect DEF Buckets
<1>3. promise'[k] \in Int
  <2>1. CASE Found(k, t) < Cost /\ Rate[k] # 0
    BY <1>1, <2>1, DecideEffect, RetryAfterEnough
  <2>2. CASE ~(Found(k, t) < Cost /\ Rate[k] # 0)
    BY <1>1, <2>2, DecideEffect
  <2> QED BY <2>1, <2>2
<1>4. \A j \in Keys : promise'[j] \in Int
  BY <1>3, DecideEffect DEF Buckets
<1>5. now' = now /\ threads' = threads /\ sweepTime' = sweepTime
  BY DecideEffect
<1>6. /\ tokens' \in [Keys -> Nat] /\ last' \in [Keys -> Nat] /\ granted' \in [Keys -> Nat]
      /\ since' \in [Keys -> Nat] /\ promise' \in [Keys -> Int]
  BY <1>2, <1>4, DecideEffect
<1> QED BY <1>2, <1>5, <1>6 DEF Buckets

\* The buckets are well-formed at the start.
LEMMA BucketsInit == Init => Buckets
BY DEF Init, Buckets, NoCall

\* Every step keeps the buckets well-formed.
LEMMA BucketsStep ==
    ASSUME Buckets, [Next]_vars
    PROVE  Buckets'
<1>1. CASE Tick
  BY <1>1 DEF Tick, Buckets, store, sweep, history
<1>2. ASSUME NEW k \in Keys, LoopAllow(k)
      PROVE  Buckets'
  BY <1>2, DecideBuckets DEF LoopAllow, Buckets
<1>3. ASSUME NEW t \in threads, NEW k \in Keys, ReadClock(t, k)
      PROVE  Buckets'
  BY <1>3 DEF ReadClock, Buckets, store, sweep, history
<1>4. ASSUME NEW t \in threads, LockedAllow(t)
      PROVE  Buckets'
  <2>1. call[t].key \in Keys /\ call[t].read \in Nat /\ call[t].read <= now
    BY <1>4 DEF LockedAllow, Buckets
  <2>2. /\ call' \in [PoolThreads -> [key : Keys \cup {NoKey}, read : Nat]]
        /\ \A u \in PoolThreads : call'[u].read <= now
    BY <1>4 DEF LockedAllow, Buckets, NoCall
  <2> QED BY <1>4, <2>1, <2>2, DecideBuckets DEF LockedAllow
<1>5. CASE SweepStart
  BY <1>5 DEF SweepStart, Buckets, store, history
<1>6. CASE SweepShard
  BY <1>6 DEF SweepShard, Buckets, history
<1>7. CASE UNCHANGED vars
  BY <1>7 DEF vars, Buckets
<1> QED BY <1>1, <1>2, <1>3, <1>4, <1>5, <1>6, <1>7 DEF Next

-----------------------------------------------------------------------------
(* Retry-After *)

\* A decision keeps every promise, or replaces the one of its own key.
LEMMA DecidePromised ==
    ASSUME Buckets, Promised, NEW k \in Keys, NEW t \in Nat, Decide(k, t)
    PROVE  Promised'
<1> SUFFICES ASSUME NEW j \in Keys, promise'[j] # -1, j \in tracked'
             PROVE  /\ last'[j] <= promise'[j]
                    /\ tokens'[j] + (promise'[j] - last'[j]) * Rate[j] >= Cost
  BY DEF Promised
<1>1. CASE j = k
  <2>1. Found(k, t) \in Nat /\ Found(k, t) < Cost /\ Rate[k] # 0
    BY <1>1, FoundBounds, DecideEffect
  <2>2. /\ RetryAfter(k, Found(k, t)) \in Nat
        /\ Found(k, t) + RetryAfter(k, Found(k, t)) * Rate[k] >= Cost
    BY <2>1, RetryAfterEnough
  <2>3. /\ tokens'[k] = Found(k, t) /\ last'[k] = t
        /\ promise'[k] = t + RetryAfter(k, Found(k, t))
    BY <2>1, DecideEffect
  <2>4. promise'[k] - last'[k] = RetryAfter(k, Found(k, t))
    BY <2>2, <2>3
  <2> QED BY <1>1, <2>2, <2>3, <2>4
<1>2. CASE j # k
  <2>1. j \notin Evicted(k) /\ j \in tracked
    BY <1>2, DecideEffect
  <2>2. tokens'[j] = tokens[j] /\ last'[j] = last[j] /\ promise'[j] = promise[j]
    BY <1>2, <2>1, DecideEffect
  <2> QED BY <2>1, <2>2 DEF Promised
<1> QED BY <1>1, <1>2

\* Every step keeps the promises.
LEMMA PromisedStep ==
    ASSUME Buckets, Promised, [Next]_vars
    PROVE  Promised'
<1>1. CASE Tick
  BY <1>1 DEF Tick, Promised, store, history
<1>2. ASSUME NEW k \in Keys, LoopAllow(k)
      PROVE  Promised'
  BY <1>2, DecidePromised DEF LoopAllow, Buckets
<1>3. ASSUME NEW t \in threads, NEW k \in Keys, ReadClock(t, k)
      PROVE  Promised'
  BY <1>3 DEF ReadClock, Promised, store, history
<1>4. ASSUME NEW t \in threads, LockedAllow(t)
      PROVE  Promised'
  <2>1. call[t].key \in Keys /\ call[t].read \in Nat
    BY <1>4 DEF LockedAllow, Buckets
  <2> QED BY <1>4, <2>1, DecidePromised DEF LockedAllow
<1>5. CASE SweepStart
  BY <1>5 DEF SweepStart, Promised, store, history
<1>6. CASE SweepShard
  <2>1. promise' = promise
    BY <1>6 DEF SweepShard, history
  <2>2. \A k \in tracked' : k \in Keys => /\ k \in tracked
                                         /\ tokens'[k] = tokens[k] /\ last'[k] = last[k]
    BY <1>6 DEF SweepShard
  <2> QED BY <2>1, <2>2 DEF Promised
<1>7. CASE UNCHANGED vars
  BY <1>7 DEF vars, Promised
<1> QED BY <1>1, <1>2, <1>3, <1>4, <1>5, <1>6, <1>7 DEF Next

\* Kept promises are honest waits: at the promised time the tokens are there.
LEMMA PromisedHonest ==
    ASSUME Buckets, Promised
    PROVE  HonestRetryAfter
<1> SUFFICES ASSUME NEW k \in Keys, promise[k] # -1, now >= promise[k]
             PROVE  Found(k, now) >= Cost
  BY DEF HonestRetryAfter, Avail
<1>1. /\ tokens[k] \in Nat /\ last[k] \in Nat /\ now \in Nat /\ last[k] <= now
      /\ promise[k] \in Int /\ Rate[k] \in Nat /\ Capacity[k] \in Nat /\ Capacity[k] >= Cost
  BY DEF Buckets
<1>2. CASE k \notin tracked
  BY <1>1, <1>2 DEF Found
<1>3. CASE k \in tracked
  <2>1. tokens[k] + (promise[k] - last[k]) * Rate[k] >= Cost
    BY <1>3 DEF Promised
  <2>2. (promise[k] - last[k]) * Rate[k] <= (now - last[k]) * Rate[k]
    BY <1>1, Products
  <2>3. Elapsed(k, now) = now - last[k]
    BY <1>1 DEF Elapsed
  <2>4. (now - last[k]) * Rate[k] \in Int /\ (promise[k] - last[k]) * Rate[k] \in Int
    BY <1>1, Products
  <2>5. tokens[k] + (now - last[k]) * Rate[k] >= Cost
    BY <1>1, <2>1, <2>2, <2>4
  <2> QED BY <1>1, <1>3, <2>3, <2>4, <2>5 DEF Found, Least
<1> QED BY <1>2, <1>3

\* dependencies.py rate_limit: a caller that comes back after Retry-After, the only
\* one to use its key, is allowed, on any number of threads.
THEOREM RetryAfterHonest == Spec => []HonestRetryAfter
<1>1. Init => Buckets /\ Promised
  BY BucketsInit DEF Init, Promised
<1>2. Buckets /\ Promised /\ [Next]_vars => Buckets' /\ Promised'
  BY BucketsStep, PromisedStep
<1>3. Buckets /\ Promised => HonestRetryAfter
  BY PromisedHonest
<1> QED BY <1>1, <1>2, <1>3, PTL DEF Spec

-----------------------------------------------------------------------------
(* Nobody is allowed more than the bucket holds *)

\* Below its capacity, a tracked bucket holds what it had plus what flowed in since.
LEMMA FoundTracked ==
    ASSUME Buckets, NEW k \in tracked, k \in Keys
    PROVE  /\ (now - last[k]) * Rate[k] \in Nat
           /\ Found(k, now) = Least(Capacity[k], tokens[k] + (now - last[k]) * Rate[k])
<1>1. now - last[k] \in Nat /\ Rate[k] \in Nat
  BY DEF Buckets
<1>2. Elapsed(k, now) = now - last[k]
  BY <1>1 DEF Elapsed, Buckets
<1>3. (now - last[k]) * Rate[k] \in Nat
  BY <1>1, SMT
<1> QED BY <1>2, <1>3 DEF Found

\* In one tick a bucket gains its rate, up to its capacity.
LEMMA TickFound ==
    ASSUME Buckets, Tick, NEW k \in Keys
    PROVE  Found(k, now)' = Least(Capacity[k], Found(k, now) + Rate[k])
<1>1. now' = now + 1 /\ tracked' = tracked /\ tokens' = tokens /\ last' = last
  BY DEF Tick, store
<1>2. /\ tokens[k] \in Nat /\ last[k] \in Nat /\ now \in Nat /\ last[k] <= now
      /\ Rate[k] \in Nat /\ Capacity[k] \in Nat
  BY DEF Buckets
<1>3. CASE k \notin tracked
  BY <1>1, <1>2, <1>3 DEF Found, Least
<1>4. CASE k \in tracked
  <2>1. (now + 1 - last[k]) * Rate[k] = (now - last[k]) * Rate[k] + Rate[k]
    <3>1. now + 1 - last[k] = (now - last[k]) + 1
      BY <1>2
    <3>2. ((now - last[k]) + 1) * Rate[k] = (now - last[k]) * Rate[k] + Rate[k]
      BY <1>2, Products
    <3> QED BY <3>1, <3>2
  <2>2. Found(k, now)' = Least(Capacity[k], tokens[k] + (now + 1 - last[k]) * Rate[k])
    <3>1. now' > last'[k] /\ now' - last'[k] = now + 1 - last[k]
      BY <1>1, <1>2
    <3>2. Found(k, now)' = Least(Capacity[k], tokens'[k] + (now' - last'[k]) * Rate[k])
      BY <1>1, <1>4, <3>1 DEF Found, Elapsed
    <3> QED BY <1>1, <3>1, <3>2
  <2>3. /\ (now - last[k]) * Rate[k] \in Nat
        /\ Found(k, now) = Least(Capacity[k], tokens[k] + (now - last[k]) * Rate[k])
    BY <1>4, FoundTracked
  <2>4. \A c, v, w \in Nat : Least(c, Least(c, v) + w) = Least(c, v + w)
    BY DEF Least
  <2>5. tokens[k] + (now - last[k]) * Rate[k] \in Nat
    BY <1>2, <2>3
  <2>6. Least(Capacity[k], tokens[k] + (now - last[k]) * Rate[k] + Rate[k])
          = Least(Capacity[k], Found(k, now) + Rate[k])
    BY <1>2, <2>3, <2>4, <2>5
  <2>7. tokens[k] + (now + 1 - last[k]) * Rate[k]
          = tokens[k] + (now - last[k]) * Rate[k] + Rate[k]
    BY <1>2, <2>1, <2>3
  <2> QED BY <2>2, <2>6, <2>7
<1> QED BY <1>3, <1>4

\* In one tick a bucket gains at most its rate.
LEMMA TickConserved ==
    ASSUME Buckets, Conserved, Tick
    PROVE  Conserved'
<1> SUFFICES ASSUME NEW k \in Keys
             PROVE  (granted[k] * Cost + Found(k, now) <= Capacity[k] + (now - since[k]) * Rate[k])'
  BY DEF Conserved
<1>1. /\ now' = now + 1 /\ tracked' = tracked /\ tokens' = tokens /\ last' = last
      /\ granted' = granted /\ since' = since
  BY DEF Tick, store, history
<1>2. /\ tokens[k] \in Nat /\ last[k] \in Nat /\ now \in Nat /\ last[k] <= now
      /\ Rate[k] \in Nat /\ Capacity[k] \in Nat /\ since[k] \in Nat
      /\ granted[k] * Cost \in Int /\ Found(k, now) \in Nat
  BY FoundBounds, Products DEF Buckets
<1>3. Found(k, now)' <= Found(k, now) + Rate[k] /\ Found(k, now)' \in Nat
  <2>1. Found(k, now)' = Least(Capacity[k], Found(k, now) + Rate[k])
    BY TickFound
  <2>2. \A c, v \in Nat : Least(c, v) <= v /\ Least(c, v) \in Nat
    BY DEF Least
  <2>3. Found(k, now) + Rate[k] \in Nat
    BY <1>2
  <2> HIDE DEF Found
  <2> QED BY <1>2, <2>1, <2>2, <2>3
<1>4. (now + 1 - since[k]) * Rate[k] = (now - since[k]) * Rate[k] + Rate[k]
  <2>1. now + 1 - since[k] = (now - since[k]) + 1
    BY <1>2
  <2> QED BY <1>2, <2>1, Products
<1>5. (now - since[k]) * Rate[k] \in Int
  BY <1>2, Products
<1>6. granted[k] * Cost + Found(k, now) <= Capacity[k] + (now - since[k]) * Rate[k]
  BY DEF Conserved
<1> HIDE DEF Conserved
<1> QED BY <1>1, <1>2, <1>3, <1>4, <1>5, <1>6

\* A decision with a fresh clock leaves in its own bucket what it wrote, fills the
\* buckets it evicts, and leaves the others as they were.
LEMMA DecideFound ==
    ASSUME Buckets, NEW k \in Keys, Decide(k, now), Buckets', NEW j \in Keys
    PROVE  Found(j, now)' = IF j = k THEN tokens'[k]
                            ELSE IF j \in Evicted(k) THEN Capacity[j] ELSE Found(j, now)
<1>1. now \in Nat /\ Rate[j] \in Nat /\ Capacity[j] \in Nat
  BY DEF Buckets
<1>2. now' = now /\ tracked' = (tracked \ Evicted(k)) \cup {k}
  BY <1>1, DecideEffect
<1>3. CASE j = k
  <2>1. last'[j] = now /\ j \in tracked'
    BY <1>1, <1>2, <1>3, DecideEffect
  <2>2. tokens'[j] \in Nat /\ tokens'[j] <= Capacity[j]
    BY DEF Buckets
  <2>3. ~(now' > last'[j]) /\ 0 * Rate[j] = 0
    BY <1>1, <1>2, <2>1, Products
  <2>4. Found(j, now)' = Least(Capacity[j], tokens'[j] + 0)
    BY <2>1, <2>3 DEF Found, Elapsed
  <2>5. \A c, v \in Nat : v <= c => Least(c, v + 0) = v
    BY DEF Least
  <2> QED BY <1>1, <1>3, <2>2, <2>4, <2>5
<1>4. CASE j # k /\ j \notin Evicted(k)
  <2>1. tokens'[j] = tokens[j] /\ last'[j] = last[j] /\ (j \in tracked' <=> j \in tracked)
    BY <1>1, <1>2, <1>4, DecideEffect
  <2>2. Found(j, now)' = Found(j, now)
    BY <1>2, <2>1 DEF Found, Elapsed
  <2> QED BY <1>4, <2>2
<1>5. CASE j # k /\ j \in Evicted(k)
  BY <1>2, <1>5 DEF Found
<1> QED BY <1>3, <1>4, <1>5

\* A decision with a fresh clock pays what it grants.
LEMMA DecideConserved ==
    ASSUME Buckets, Conserved, NEW k \in Keys, Decide(k, now), Buckets'
    PROVE  Conserved'
<1> SUFFICES ASSUME NEW j \in Keys
             PROVE  (granted[j] * Cost + Found(j, now) <= Capacity[j] + (now - since[j]) * Rate[j])'
  BY DEF Conserved
<1>1. /\ now \in Nat /\ granted[j] \in Nat /\ granted[j] * Cost \in Int
      /\ since[j] \in Nat /\ Rate[j] \in Nat /\ Capacity[j] \in Nat
      /\ (now - since[j]) * Rate[j] \in Int /\ Found(j, now) \in Nat
      /\ Found(j, now) <= Capacity[j]
  BY FoundBounds, Products DEF Buckets
<1>2. granted[j] * Cost + Found(j, now) <= Capacity[j] + (now - since[j]) * Rate[j]
  BY DEF Conserved
<1>3. now' = now /\ tracked' = (tracked \ Evicted(k)) \cup {k}
  BY <1>1, DecideEffect
<1>4. CASE j = k
  <2>1. last'[j] = now /\ since'[j] = since[j] /\ j \in tracked'
    BY <1>1, <1>3, <1>4, DecideEffect
  <2>2. Found(j, now)' = tokens'[j]
    BY <1>4, DecideFound
  <2>3. (granted[j] + 1) * Cost = granted[j] * Cost + Cost
    <3>1. granted[j] \in Int /\ Cost \in Int
      BY <1>1
    <3> QED BY <3>1, OneMoreGrant, ZenonT(30)
  <2>4. \/ tokens'[j] = Found(j, now) - Cost /\ granted'[j] = granted[j] + 1
        \/ tokens'[j] = Found(j, now) /\ granted'[j] = granted[j]
    BY <1>1, <1>4, DecideEffect
  <2> QED BY <1>1, <1>2, <1>3, <2>1, <2>2, <2>3, <2>4
<1>5. CASE j # k /\ j \notin Evicted(k)
  <2>1. /\ tokens'[j] = tokens[j] /\ last'[j] = last[j] /\ (j \in tracked' <=> j \in tracked)
        /\ granted'[j] = granted[j] /\ since'[j] = since[j]
    BY <1>1, <1>3, <1>5, DecideEffect
  <2>2. Found(j, now)' = Found(j, now)
    BY <1>5, DecideFound
  <2> QED BY <1>1, <1>2, <1>3, <2>1, <2>2
<1>6. CASE j # k /\ j \in Evicted(k)
  <2>1. granted'[j] = 0 /\ since'[j] = now /\ j \notin tracked'
    BY <1>1, <1>3, <1>6, DecideEffect
  <2>2. Found(j, now)' = Capacity[j]
    BY <1>6, DecideFound
  <2>3. now - now = 0 /\ 0 * Rate[j] = 0 /\ 0 * Cost = 0
    BY <1>1, Products
  <2> QED BY <1>1, <1>3, <2>1, <2>2, <2>3
<1> QED BY <1>4, <1>5, <1>6

\* The sweep only prunes buckets that are full, however old its clock is: a caller
\* finds what it would have found.
LEMMA SweepFound ==
    ASSUME Buckets, SweepShard, NEW k \in Keys
    PROVE  Found(k, now)' = Found(k, now)
<1> DEFINE idle == {j \in tracked : ShardOf[j] = sweepAt /\ IdleFull(j, sweepTime)}
<1>1. /\ now' = now /\ tracked' = tracked \ idle
      /\ tokens' = [j \in Keys |-> IF j \in idle THEN 0 ELSE tokens[j]]
      /\ last' = [j \in Keys |-> IF j \in idle THEN 0 ELSE last[j]]
  BY Zenon DEF SweepShard
<1>2. CASE k \in idle
  <2>1. k \in tracked /\ (sweepTime - last[k]) * Rate[k] >= Capacity[k]
    BY <1>2 DEF IdleFull
  <2>2. /\ tokens[k] \in Nat /\ last[k] \in Nat /\ now \in Nat /\ sweepTime \in Nat
        /\ sweepTime <= now /\ Rate[k] \in Nat /\ Capacity[k] \in Nat
    BY DEF Buckets
  <2>3. (sweepTime - last[k]) * Rate[k] <= (now - last[k]) * Rate[k]
    BY <2>2, Products
  <2>4. (sweepTime - last[k]) * Rate[k] \in Int
    BY <2>2, Products
  <2>5. /\ (now - last[k]) * Rate[k] \in Nat
        /\ Found(k, now) = Least(Capacity[k], tokens[k] + (now - last[k]) * Rate[k])
    BY <2>1, FoundTracked
  <2>6. Found(k, now) = Capacity[k]
    BY <2>1, <2>2, <2>3, <2>4, <2>5 DEF Least
  <2>7. k \notin tracked'
    BY <1>1, <1>2
  <2> QED BY <2>6, <2>7 DEF Found
<1>3. CASE k \notin idle
  <2>1. tokens'[k] = tokens[k] /\ last'[k] = last[k] /\ (k \in tracked' <=> k \in tracked)
    BY <1>1, <1>3
  <2> QED BY <1>1, <2>1 DEF Found, Elapsed
<1> QED BY <1>2, <1>3

\* The sweep gives nothing away.
LEMMA SweepConserved ==
    ASSUME Buckets, Conserved, SweepShard
    PROVE  Conserved'
<1> SUFFICES ASSUME NEW k \in Keys
             PROVE  (granted[k] * Cost + Found(k, now) <= Capacity[k] + (now - since[k]) * Rate[k])'
  BY DEF Conserved
<1>1. now' = now /\ granted' = granted /\ since' = since
  BY DEF SweepShard, history
<1>2. Found(k, now)' = Found(k, now)
  BY SweepFound
<1> QED BY <1>1, <1>2 DEF Conserved

\* The start is within the bounds: nothing is granted and every bucket is full.
LEMMA ConservedInit == Init => Conserved
<1> SUFFICES ASSUME Init, NEW k \in Keys
             PROVE  granted[k] * Cost + Found(k, now) <= Capacity[k] + (now - since[k]) * Rate[k]
  BY DEF Conserved
<1>1. 0 * Cost = 0 /\ 0 * Rate[k] = 0 /\ Capacity[k] \in Nat
  BY Products
<1>2. granted[k] = 0 /\ since[k] = 0 /\ now = 0 /\ Found(k, now) = Capacity[k]
  BY DEF Init, Found
<1> QED BY <1>1, <1>2

\* On the event loop alone every step conserves what the buckets hold.
LEMMA ConservedStep ==
    ASSUME Buckets, Conserved, threads = {}, [Next]_vars
    PROVE  Conserved'
<1>1. CASE Tick
  BY <1>1, TickConserved
<1>2. ASSUME NEW k \in Keys, LoopAllow(k)
      PROVE  Conserved'
  BY <1>2, BucketsStep, DecideConserved DEF LoopAllow
<1>3. CASE SweepStart
  BY <1>3 DEF SweepStart, Conserved, Found, Elapsed, store, history
<1>4. CASE SweepShard
  BY <1>4, SweepConserved
<1>5. CASE UNCHANGED vars
  BY <1>5 DEF vars, Conserved, Found, Elapsed
<1> QED BY <1>1, <1>2, <1>3, <1>4, <1>5 DEF Next

\* Which callers run on pool threads never changes.
LEMMA ThreadsStep == [Next]_vars => threads' = threads
BY DEF Next, vars, Tick, LoopAllow, ReadClock, LockedAllow, Decide, SweepStart, SweepShard

\* rate_limiter.py: while every caller runs on the event loop, no key is allowed more
\* than its capacity and what its rate refilled, through refills, prunings and sweeps
\* with an old clock.
THEOREM LoopNeverOverspends == Spec => []NeverOverspends
<1> DEFINE Paid == threads = {} => Conserved
<1>1. Init => Buckets /\ Paid
  BY BucketsInit, ConservedInit
<1>2. Buckets /\ Paid /\ [Next]_vars => Buckets' /\ Paid'
  BY BucketsStep, ConservedStep, ThreadsStep
<1>3. Buckets /\ Paid => NeverOverspends
  <2> SUFFICES ASSUME Buckets, Conserved, NEW k \in Keys
               PROVE  granted[k] * Cost <= Capacity[k] + Rate[k] * (now - since[k])
    BY DEF NeverOverspends
  <2>1. granted[k] * Cost + Found(k, now) <= Capacity[k] + (now - since[k]) * Rate[k]
    BY DEF Conserved
  <2>2. /\ granted[k] \in Nat /\ now - since[k] \in Int
        /\ Rate[k] \in Nat /\ Capacity[k] \in Nat
    BY DEF Buckets
  <2>3. /\ granted[k] * Cost \in Int
        /\ (now - since[k]) * Rate[k] \in Int
        /\ (now - since[k]) * Rate[k] = Rate[k] * (now - since[k])
    BY <2>2, Products
  <2>4. Found(k, now) \in Nat
    BY FoundBounds DEF Buckets
  <2> QED BY <2>1, <2>2, <2>3, <2>4
<1> QED BY <1>1, <1>2, <1>3, PTL DEF Spec

-----------------------------------------------------------------------------
(* The order of the dictionaries *)

\* A finite set in a strict total order has exactly one first element.
LEMMA FirstOfOrder ==
    ASSUME NEW S, IsFiniteSet(S), S # {}, NEW R,
           \A j, k \in S : <<j, k>> \in R <=> j # k /\ <<k, j>> \notin R,
           \A i, j, k \in S : <<i, j>> \in R /\ <<j, k>> \in R => <<i, k>> \in R
    PROVE  \E j \in S : {k \in S : \A i \in S : <<i, k>> \notin R} = {j}
<1> DEFINE Below(j) == {i \in S : <<i, j>> \in R}
           All == {Below(j) : j \in S}
<1>1. ASSUME NEW j \in S
      PROVE  Below(j) \in FiniteSubsetsOf(S)
  <2>1. Below(j) \in SUBSET S
    OBVIOUS
  <2>2. IsFiniteSet(Below(j))
    BY <2>1, FS_Subset
  <2> QED BY <2>1, <2>2 DEF FiniteSubsetsOf
<1> HIDE DEF Below
<1>2. All \subseteq FiniteSubsetsOf(S) /\ All # {}
  BY <1>1
<1>3. IsWellFoundedOn(StrictSubsetOrdering(S), FiniteSubsetsOf(S))
  BY FS_StrictSubsetOrderingWellFounded
<1> HIDE DEF All
<1>4. \E x \in All : \A y \in All : ~ (<<y, x>> \in StrictSubsetOrdering(S))
  BY <1>2, <1>3, WFMin
<1>5. PICK j \in S : \A k \in S : <<Below(k), Below(j)>> \notin StrictSubsetOrdering(S)
  BY <1>4 DEF All
<1> USE DEF Below
<1>6. ASSUME NEW i \in S, <<i, j>> \in R
      PROVE  FALSE
  <2>1. Below(i) \subseteq Below(j)
    BY <1>6
  <2>2. i \in Below(j) /\ i \notin Below(i)
    BY <1>6
  <2> QED BY <1>5, <2>1, <2>2 DEF StrictSubsetOrdering
<1>7. \A k \in S : k # j => <<j, k>> \in R
  BY <1>6
<1> DEFINE First == {k \in S : \A i \in S : <<i, k>> \notin R}
<1>8. j \in First
  BY <1>6
<1>9. ASSUME NEW k \in First
      PROVE  k = j
  BY <1>7, <1>9
<1> HIDE DEF First
<1>10. First = {j}
  BY <1>8, <1>9
<1> QED BY <1>10 DEF First

\* A finite set below n gains one element.
LEMMA OneMore ==
    ASSUME NEW S, NEW x, NEW n \in Nat, IsFiniteSet(S), Cardinality(S) < n
    PROVE  IsFiniteSet(S \cup {x}) /\ Cardinality(S \cup {x}) <= n
<1>1. Cardinality(S) \in Nat
  BY FS_CardinalityType
<1>2. /\ IsFiniteSet(S \cup {x})
      /\ Cardinality(S \cup {x}) = IF x \in S THEN Cardinality(S) ELSE Cardinality(S) + 1
  BY FS_AddElement
<1> QED BY <1>1, <1>2

\* A finite set of n elements loses one of them and gains one.
LEMMA OneForOne ==
    ASSUME NEW S, NEW j \in S, NEW x, NEW n \in Nat, IsFiniteSet(S), Cardinality(S) = n
    PROVE  IsFiniteSet((S \ {j}) \cup {x}) /\ Cardinality((S \ {j}) \cup {x}) <= n
<1> DEFINE R == S \ {j}
<1>1. IsFiniteSet(R) /\ Cardinality(R) = n - 1
  BY FS_RemoveElement
<1> HIDE DEF R
<1>2. Cardinality(R) < n
  BY <1>1
<1>3. IsFiniteSet(R \cup {x}) /\ Cardinality(R \cup {x}) <= n
  BY <1>1, <1>2, OneMore
<1> QED BY <1>3 DEF R

\* The part of TypeOK that speaks of the order.
Ordered == tracked \subseteq Keys /\ older \subseteq Keys \X Keys /\ ShardsBounded

\* The order, pair by pair.
LEMMA OrderedIs ==
    ASSUME Ordered
    PROVE  /\ \A s \in Shards : IsFiniteSet(Held(s)) /\ Cardinality(Held(s)) \in Nat
                                /\ Cardinality(Held(s)) <= MaxKeys
           /\ \A j, k : <<j, k>> \in older =>
                  j \in tracked /\ k \in tracked /\ ShardOf[j] = ShardOf[k]
           /\ \A j, k \in tracked : ShardOf[j] = ShardOf[k] =>
                  (<<j, k>> \in older <=> j # k /\ <<k, j>> \notin older)
           /\ \A i, j, k : <<i, j>> \in older /\ <<j, k>> \in older => <<i, k>> \in older
           /\ threads = {} => \A j, k : <<j, k>> \in older => last[j] <= last[k]
<1>1. \A s \in Shards : /\ IsFiniteSet(Held(s)) /\ Cardinality(Held(s)) \in Nat
                        /\ Cardinality(Held(s)) <= MaxKeys
  BY FS_CardinalityType DEF Ordered, ShardsBounded
<1>2. \A j, k : <<j, k>> \in older =>
          j \in tracked /\ k \in tracked /\ ShardOf[j] = ShardOf[k]
  BY DEF Ordered, ShardsBounded
<1>3. /\ \A j, k \in tracked : ShardOf[j] = ShardOf[k] =>
             (<<j, k>> \in older <=> j # k /\ <<k, j>> \notin older)
      /\ \A i, j, k \in tracked : <<i, j>> \in older /\ <<j, k>> \in older => <<i, k>> \in older
      /\ threads = {} => \A p \in older : last[p[1]] <= last[p[2]]
  BY DEF Ordered, ShardsBounded
<1>4. threads = {} => \A j, k : <<j, k>> \in older => last[j] <= last[k]
  BY <1>3
<1> QED BY <1>1, <1>2, <1>3, <1>4

\* Inserting a key evicts nothing, or the one first key of a full shard.
LEMMA EvictedIs ==
    ASSUME Ordered, NEW k \in Keys
    PROVE  \/ /\ Evicted(k) = {}
              /\ k \in tracked \/ Cardinality(Held(ShardOf[k])) < MaxKeys
           \/ /\ k \notin tracked
              /\ Cardinality(Held(ShardOf[k])) = MaxKeys
              /\ \E j \in Held(ShardOf[k]) : Evicted(k) = {j}
<1> DEFINE S == Held(ShardOf[k])
<1>1. ShardOf[k] \in Shards
  OBVIOUS
<1>2. IsFiniteSet(S) /\ Cardinality(S) \in Nat /\ Cardinality(S) <= MaxKeys
  BY <1>1, OrderedIs
<1>3. CASE k \in tracked \/ Cardinality(S) < MaxKeys
  BY <1>2, <1>3 DEF Evicted
<1>4. CASE k \notin tracked /\ Cardinality(S) >= MaxKeys
  <2>1. S # {}
    BY <1>2, <1>4, FS_EmptySet
  <2>2. S \subseteq tracked /\ \A i \in S : ShardOf[i] = ShardOf[k]
    BY DEF Held
  <2>3. \A i, j \in S : <<i, j>> \in older <=> i # j /\ <<j, i>> \notin older
    BY <2>2, OrderedIs
  <2>4. \A h, i, j \in S : <<h, i>> \in older /\ <<i, j>> \in older => <<h, j>> \in older
    BY OrderedIs
  <2>5. Evicted(k) = {j \in S : \A i \in S : <<i, j>> \notin older}
    BY <1>4 DEF Evicted, Eldest
  <2> HIDE DEF S
  <2>6. \E j \in S : {h \in S : \A i \in S : <<i, h>> \notin older} = {j}
    BY <1>2, <2>1, <2>3, <2>4, FirstOfOrder
  <2>7. \E j \in S : Evicted(k) = {j}
    BY <2>5, <2>6
  <2> QED BY <1>2, <1>4, <2>7 DEF S
<1> QED BY <1>2, <1>3, <1>4

\* A decision moves its key to the end of its shard's order and takes out what it evicts.
LEMMA DecideOrder ==
    ASSUME Ordered, NEW k \in Keys, NEW t, Decide(k, t)
    PROVE  /\ older' \subseteq Keys \X Keys
           /\ tracked' = (tracked \ Evicted(k)) \cup {k}
           /\ \A i, j : <<i, j>> \in older' <=>
                 \/ <<i, j>> \in older /\ {i, j} \cap (Evicted(k) \cup {k}) = {}
                 \/ /\ j = k /\ i \in tracked /\ ShardOf[i] = ShardOf[k]
                    /\ i \notin Evicted(k) /\ i # k
<1> DEFINE before == Held(ShardOf[k]) \ (Evicted(k) \cup {k})
<1>1. /\ tracked' = (tracked \ Evicted(k)) \cup {k}
      /\ older' = Without(Evicted(k) \cup {k}) \cup (before \X {k})
  BY Zenon DEF Decide
<1>2. \A i : i \in before <=> /\ i \in tracked /\ ShardOf[i] = ShardOf[k]
                              /\ i \notin Evicted(k) /\ i # k
  BY DEF Held
<1>3. before \subseteq Keys
  BY <1>2 DEF Ordered
<1>4. \A i, j : <<i, j>> \in Without(Evicted(k) \cup {k}) <=>
          <<i, j>> \in older /\ {i, j} \cap (Evicted(k) \cup {k}) = {}
  BY DEF Without
<1>5. Without(Evicted(k) \cup {k}) \subseteq Keys \X Keys
  BY DEF Without, Ordered
<1> HIDE DEF before
<1>6. older' \subseteq Keys \X Keys
  BY <1>1, <1>3, <1>5
<1>7. \A i, j : <<i, j>> \in before \X {k} <=> i \in before /\ j = k
  OBVIOUS
<1> QED BY <1>1, <1>2, <1>4, <1>6, <1>7

\* A decision leaves every shard within its bound.
LEMMA DecideHeld ==
    ASSUME Ordered, NEW k \in Keys, NEW t, Decide(k, t), NEW s \in Shards
    PROVE  (IsFiniteSet(Held(s)) /\ Cardinality(Held(s)) <= MaxKeys)'
<1> DEFINE out == Evicted(k)
<1>1. tracked' = (tracked \ out) \cup {k}
  BY DecideOrder
<1>2. /\ \A x \in Shards : /\ IsFiniteSet(Held(x)) /\ Cardinality(Held(x)) \in Nat
                           /\ Cardinality(Held(x)) <= MaxKeys
      /\ MaxKeys \in Nat
  BY OrderedIs
<1>3. CASE s # ShardOf[k]
  <2>1. Held(s)' = Held(s)
    <3>1. \A j \in out : ShardOf[j] # s
      BY <1>3, EvictedIs DEF Held
    <3> QED BY <1>1, <1>3, <3>1 DEF Held
  <2> QED BY <1>2, <2>1
<1>4. CASE s = ShardOf[k]
  <2>1. Held(s)' = (Held(s) \ out) \cup {k}
    BY <1>1, <1>4 DEF Held
  <2>2. CASE out = {} /\ k \in tracked
    <3>1. Held(s)' = Held(s)
      BY <1>4, <2>1, <2>2 DEF Held
    <3> QED BY <1>2, <3>1
  <2>3. CASE out = {} /\ Cardinality(Held(s)) < MaxKeys
    <3>1. Held(s)' = Held(s) \cup {k}
      BY <2>1, <2>3
    <3>2. IsFiniteSet(Held(s) \cup {k}) /\ Cardinality(Held(s) \cup {k}) <= MaxKeys
      BY <1>2, <2>3, OneMore
    <3> QED BY <3>1, <3>2
  <2>4. ASSUME NEW j \in Held(s), out = {j}, Cardinality(Held(s)) = MaxKeys
        PROVE  (IsFiniteSet(Held(s)) /\ Cardinality(Held(s)) <= MaxKeys)'
    <3>1. Held(s)' = (Held(s) \ {j}) \cup {k}
      BY <2>1, <2>4
    <3>2. /\ IsFiniteSet((Held(s) \ {j}) \cup {k})
          /\ Cardinality((Held(s) \ {j}) \cup {k}) <= MaxKeys
      BY <1>2, <2>4, OneForOne
    <3> QED BY <3>1, <3>2
  <2> QED BY <1>4, <2>2, <2>3, <2>4, EvictedIs
<1> QED BY <1>3, <1>4

\* A decision keeps the orders.
LEMMA DecideOrdered ==
    ASSUME Buckets, Ordered, NEW k \in Keys, NEW t \in Nat, t <= now,
           threads = {} => t = now, Decide(k, t)
    PROVE  Ordered'
<1>1. /\ older' \subseteq Keys \X Keys
      /\ tracked' = (tracked \ Evicted(k)) \cup {k}
      /\ \A i, j : <<i, j>> \in older' <=>
            \/ <<i, j>> \in older /\ {i, j} \cap (Evicted(k) \cup {k}) = {}
            \/ /\ j = k /\ i \in tracked /\ ShardOf[i] = ShardOf[k]
               /\ i \notin Evicted(k) /\ i # k
  BY DecideOrder
<1>2. /\ \A j, i : <<j, i>> \in older => j \in tracked /\ i \in tracked /\ ShardOf[j] = ShardOf[i]
      /\ \A j, i \in tracked : ShardOf[j] = ShardOf[i] =>
             (<<j, i>> \in older <=> j # i /\ <<i, j>> \notin older)
      /\ \A h, i, j : <<h, i>> \in older /\ <<i, j>> \in older => <<h, j>> \in older
  BY OrderedIs
<1>3. tracked' \subseteq Keys
  BY <1>1 DEF Ordered
<1>4. \A i, j : <<i, j>> \in older' => i \in tracked' /\ j \in tracked' /\ ShardOf[i] = ShardOf[j]
  BY <1>1, <1>2
<1>5. \A i, j \in tracked' : ShardOf[i] = ShardOf[j] =>
          (<<i, j>> \in older' <=> i # j /\ <<j, i>> \notin older')
  <2> SUFFICES ASSUME NEW i \in tracked', NEW j \in tracked', ShardOf[i] = ShardOf[j]
               PROVE  <<i, j>> \in older' <=> i # j /\ <<j, i>> \notin older'
    OBVIOUS
  <2>1. \A h \in tracked' : h = k \/ (h # k /\ h \in tracked /\ h \notin Evicted(k))
    BY <1>1
  <2>2. <<i, j>> \in older' <=>
            \/ <<i, j>> \in older /\ i # k /\ j # k
            \/ j = k /\ i # k
    BY <1>1, <2>1
  <2>3. <<j, i>> \in older' <=>
            \/ <<j, i>> \in older /\ i # k /\ j # k
            \/ i = k /\ j # k
    BY <1>1, <2>1
  <2> QED BY <1>2, <2>1, <2>2, <2>3
<1>6. \A h, i, j : <<h, i>> \in older' /\ <<i, j>> \in older' => <<h, j>> \in older'
  BY <1>1, <1>2
<1>7. threads' = {} => \A i, j : <<i, j>> \in older' => last'[i] <= last'[j]
  <2> SUFFICES ASSUME threads = {}, NEW i, NEW j, <<i, j>> \in older'
               PROVE  last'[i] <= last'[j]
    BY DecideEffect
  <2>1. i \in Keys /\ j \in Keys /\ i # k
    BY <1>1, <1>2, <1>3, <1>4
  <2>2. i \notin Evicted(k)
    BY <1>1
  <2>3. last'[i] = last[i] /\ last[i] \in Nat /\ last[i] <= now
    BY <2>1, <2>2, DecideEffect DEF Buckets
  <2>4. CASE j = k
    BY <2>3, <2>4, DecideEffect
  <2>5. CASE j # k
    <3>1. <<i, j>> \in older /\ j \notin Evicted(k)
      BY <1>1, <2>5
    <3>2. last'[j] = last[j]
      BY <2>1, <2>5, <3>1, DecideEffect
    <3>3. last[i] <= last[j]
      BY <3>1, OrderedIs
    <3> QED BY <2>3, <3>2, <3>3
  <2> QED BY <2>4, <2>5
<1>8. ShardsBounded'
  <2>1. \A p \in older' : \E i, j : p = <<i, j>>
    BY <1>1
  <2>2. \A s \in Shards : (IsFiniteSet(Held(s)) /\ Cardinality(Held(s)) <= MaxKeys)'
    BY DecideHeld
  <2>3. \A p \in older' : {p[1], p[2]} \subseteq tracked' /\ ShardOf[p[1]] = ShardOf[p[2]]
    BY <1>4, <2>1
  <2>4. threads' = {} => \A p \in older' : last'[p[1]] <= last'[p[2]]
    BY <1>7, <2>1
  <2> QED BY <1>5, <1>6, <2>2, <2>3, <2>4 DEF ShardsBounded
<1> QED BY <1>1, <1>3, <1>8 DEF Ordered

\* A sweep takes keys out of the orders and changes nothing else in them.
LEMMA SweepOrdered ==
    ASSUME Buckets, Ordered, SweepShard
    PROVE  Ordered'
<1> DEFINE idle == {j \in tracked : ShardOf[j] = sweepAt /\ IdleFull(j, sweepTime)}
<1>1. /\ tracked' = tracked \ idle
      /\ last' = [k \in Keys |-> IF k \in idle THEN 0 ELSE last[k]]
      /\ older' = Without(idle)
      /\ threads' = threads
  BY Zenon DEF SweepShard
<1> HIDE DEF idle
<1>2. tracked' \subseteq Keys /\ older' \subseteq older /\ older' \subseteq Keys \X Keys
  BY <1>1 DEF Ordered, Without
<1>3. \A i, j : <<i, j>> \in older' <=> <<i, j>> \in older /\ i \notin idle /\ j \notin idle
  BY <1>1 DEF Without
<1>4. \A p \in older' : \E i, j : p = <<i, j>>
  BY <1>2
<1>5. ASSUME NEW s \in Shards
      PROVE  (IsFiniteSet(Held(s)) /\ Cardinality(Held(s)) <= MaxKeys)'
  <2>1. /\ IsFiniteSet(Held(s)) /\ Cardinality(Held(s)) \in Nat
        /\ Cardinality(Held(s)) <= MaxKeys
    BY OrderedIs
  <2>2. Held(s)' \in SUBSET Held(s)
    BY <1>1 DEF Held
  <2> DEFINE left == Held(s)'
  <2> HIDE DEF left
  <2>3. left \in SUBSET Held(s)
    BY <2>2 DEF left
  <2>4. IsFiniteSet(left) /\ Cardinality(left) <= Cardinality(Held(s))
    BY <2>1, <2>3, FS_Subset
  <2>5. Cardinality(left) \in Nat
    BY <2>4, FS_CardinalityType
  <2>6. IsFiniteSet(left) /\ Cardinality(left) <= MaxKeys
    BY <2>1, <2>4, <2>5
  <2> QED BY <2>6 DEF left
<1>6. \A p \in older' : {p[1], p[2]} \subseteq tracked' /\ ShardOf[p[1]] = ShardOf[p[2]]
  BY <1>1, <1>3, <1>4, OrderedIs
<1>7. \A i, j \in tracked' : ShardOf[i] = ShardOf[j] =>
          (<<i, j>> \in older' <=> i # j /\ <<j, i>> \notin older')
  BY <1>1, <1>3, OrderedIs
<1>8. \A h, i, j : <<h, i>> \in older' /\ <<i, j>> \in older' => <<h, j>> \in older'
  BY <1>3, OrderedIs
<1>9. threads' = {} => \A p \in older' : last'[p[1]] <= last'[p[2]]
  <2> SUFFICES ASSUME threads = {}, NEW i, NEW j, <<i, j>> \in older'
               PROVE  last'[i] <= last'[j]
    BY <1>1, <1>4
  <2>1. <<i, j>> \in older /\ i \notin idle /\ j \notin idle /\ i \in Keys /\ j \in Keys
    BY <1>2, <1>3
  <2> QED BY <1>1, <2>1, OrderedIs
<1>10. ShardsBounded'
  BY <1>5, <1>6, <1>7, <1>8, <1>9 DEF ShardsBounded
<1> QED BY <1>2, <1>10 DEF Ordered

\* The dictionaries are empty at the start.
LEMMA OrderedInit == Init => Ordered
<1>1. Init => \A s \in Shards : Held(s) = {}
  BY DEF Init, Held
<1>2. Init => \A s \in Shards : IsFiniteSet(Held(s)) /\ Cardinality(Held(s)) <= MaxKeys
  BY <1>1, FS_EmptySet
<1> QED BY <1>2 DEF Init, Ordered, ShardsBounded

\* Every step keeps the orders.
LEMMA OrderedStep ==
    ASSUME Buckets, Ordered, [Next]_vars
    PROVE  Ordered'
<1>1. ASSUME UNCHANGED <<tracked, last, older, threads>>
      PROVE  Ordered'
  BY <1>1 DEF Ordered, ShardsBounded, Held
<1>2. CASE Tick
  BY <1>1, <1>2 DEF Tick, store
<1>3. ASSUME NEW k \in Keys, LoopAllow(k)
      PROVE  Ordered'
  BY <1>3, DecideOrdered DEF LoopAllow, Buckets
<1>4. ASSUME NEW t \in threads, NEW k \in Keys, ReadClock(t, k)
      PROVE  Ordered'
  BY <1>1, <1>4 DEF ReadClock, store
<1>5. ASSUME NEW t \in threads, LockedAllow(t)
      PROVE  Ordered'
  <2>1. call[t].key \in Keys /\ call[t].read \in Nat /\ call[t].read <= now
    BY <1>5 DEF LockedAllow, Buckets
  <2>2. Decide(call[t].key, call[t].read)
    BY <1>5 DEF LockedAllow
  <2> QED BY <2>1, <2>2, DecideOrdered
<1>6. CASE SweepStart
  BY <1>1, <1>6 DEF SweepStart, store
<1>7. CASE SweepShard
  BY <1>7, SweepOrdered
<1>8. CASE UNCHANGED vars
  BY <1>1, <1>8 DEF vars
<1> QED BY <1>2, <1>3, <1>4, <1>5, <1>6, <1>7, <1>8 DEF Next

\* What TypeOK says of the sweeper and of the last decision.
Rest == sweepAt \in 0..NumShards /\ answer \in {NoAnswer} \cup (Keys \X {"allowed", "denied"})

\* Every step keeps them.
LEMMA RestStep ==
    ASSUME Buckets, Rest, [Next]_vars
    PROVE  Rest'
<1>1. ASSUME UNCHANGED <<sweepAt, answer>>
      PROVE  Rest'
  BY <1>1 DEF Rest
<1>2. ASSUME NEW k \in Keys, NEW t, Decide(k, t)
      PROVE  Rest'
  <2>1. \E d \in {"allowed", "denied"} : answer' = <<k, d>>
    BY <1>2 DEF Decide
  <2>2. sweepAt' = sweepAt
    BY <1>2 DEF Decide, sweep
  <2> QED BY <2>1, <2>2 DEF Rest
<1>3. CASE Tick
  BY <1>1, <1>3 DEF Tick, sweep, history
<1>4. ASSUME NEW k \in Keys, LoopAllow(k)
      PROVE  Rest'
  BY <1>2, <1>4 DEF LoopAllow
<1>5. ASSUME NEW t \in threads, NEW k \in Keys, ReadClock(t, k)
      PROVE  Rest'
  BY <1>1, <1>5 DEF ReadClock, sweep, history
<1>6. ASSUME NEW t \in threads, LockedAllow(t)
      PROVE  Rest'
  <2>1. call[t].key \in Keys /\ Decide(call[t].key, call[t].read)
    BY <1>6 DEF LockedAllow, Buckets
  <2> QED BY <1>2, <2>1
<1>7. CASE SweepStart
  BY <1>7 DEF SweepStart, Rest, history
<1>8. CASE SweepShard
  BY <1>8 DEF SweepShard, Rest, history
<1>9. CASE UNCHANGED vars
  BY <1>1, <1>9 DEF vars
<1> QED BY <1>3, <1>4, <1>5, <1>6, <1>7, <1>8, <1>9 DEF Next

\* rate_limiter.py Shard and allow(): a shard never holds more than max_keys_per_shard
\* keys and its order is one of exactly those keys, whatever number of threads call.
THEOREM TypeCorrect == Spec => []TypeOK
<1>1. Init => Buckets /\ Ordered /\ Rest
  BY OrderedInit, BucketsInit DEF Init, Rest
<1>2. Buckets /\ Ordered /\ Rest /\ [Next]_vars => Buckets' /\ Ordered' /\ Rest'
  BY BucketsStep, OrderedStep, RestStep
<1>3. Buckets /\ Ordered /\ Rest => TypeOK
  BY DEF TypeOK, Buckets, Ordered, Rest
<1> QED BY <1>1, <1>2, <1>3, PTL DEF Spec

-----------------------------------------------------------------------------
(* The limiter is a set of token buckets *)

\* What the mapping maps to on the event loop.
avail == IF Loop THEN Avail ELSE Full
decided == IF Loop THEN answer ELSE NoAnswer

\* Inserting a key evicts nobody, or one other key of its crowded shard.
LEMMA EvictsOne ==
    ASSUME Ordered, NEW k \in Keys
    PROVE  Evicted(k) \in {{}} \cup {{j} : j \in TB!Evictable(k)}
<1> SUFFICES ASSUME NEW j \in Held(ShardOf[k]), Evicted(k) = {j},
                    k \notin tracked, Cardinality(Held(ShardOf[k])) = MaxKeys
             PROVE  j \in TB!Evictable(k)
  BY EvictedIs
<1>1. ShardOf[k] \in Shards /\ j \in Keys /\ j # k /\ ShardOf[j] = ShardOf[k]
  BY DEF Held, Ordered
<1>2. ShardOf[k] \in Crowded
  <2> DEFINE mine == {i \in Keys : ShardOf[i] = ShardOf[k]}
  <2>1. Held(ShardOf[k]) \subseteq mine /\ k \in mine /\ k \notin Held(ShardOf[k])
    BY DEF Held, Ordered
  <2>2. ASSUME IsFiniteSet(mine)
        PROVE  Cardinality(mine) > MaxKeys
    <3> HIDE DEF mine
    <3>1. Cardinality(mine) \in Nat
      BY <2>2, FS_CardinalityType
    <3>2. /\ Cardinality(Held(ShardOf[k])) <= Cardinality(mine)
          /\ Cardinality(Held(ShardOf[k])) # Cardinality(mine)
      BY <2>1, <2>2, FS_Subset
    <3> QED BY <3>1, <3>2
  <2>3. ~(IsFiniteSet(mine) /\ Cardinality(mine) <= MaxKeys)
    <3>1. IsFiniteSet(mine) => Cardinality(mine) \in Nat
      BY FS_CardinalityType
    <3> HIDE DEF mine
    <3> QED BY <2>2, <3>1
  <2> QED BY <1>1, <2>3 DEF Crowded
<1> QED BY <1>1, <1>2 DEF TB!Evictable

\* A decision on the loop is a decision of the token buckets.
LEMMA DecideMaps ==
    ASSUME Buckets, Ordered, threads = {}, NEW k \in Keys, Decide(k, now), Buckets'
    PROVE  TB!Next
<1> DEFINE have == Found(k, now)
           out  == Evicted(k)
<1>1. have \in Nat /\ now \in Nat
  BY FoundBounds DEF Buckets
<1>2. threads' = {} /\ now' = now
  BY <1>1, DecideEffect
<1>3. avail = Avail /\ decided = answer /\ avail' = Avail' /\ decided' = answer'
  BY <1>2 DEF avail, decided, Loop
<1>4. avail[k] = have
  BY <1>3 DEF Avail
<1>5. avail' = [j \in Keys |-> IF j = k THEN tokens'[k]
                               ELSE IF j \in out THEN Capacity[j] ELSE avail[j]]
  <2>1. \A j \in Keys : Found(j, now)' = IF j = k THEN tokens'[k]
                                         ELSE IF j \in out THEN Capacity[j] ELSE Found(j, now)
    BY DecideFound
  <2>2. Avail' = [j \in Keys |-> Found(j, now)']
    BY DEF Avail
  <2>3. \A j \in Keys : avail[j] = Found(j, now)
    BY <1>3 DEF Avail
  <2> HIDE DEF out
  <2> QED BY <1>3, <2>1, <2>2, <2>3
<1>6. out \in {{}} \cup {{j} : j \in TB!Evictable(k)}
  BY EvictsOne
<1>7. k \notin out
  BY <1>6 DEF TB!Evictable
<1>8. TB!Refilled(out) = [j \in Keys |-> IF j \in out THEN Capacity[j] ELSE avail[j]]
  BY Zenon DEF TB!Refilled, avail
<1> HIDE DEF out
<1>9. CASE have >= Cost
  <2>1. tokens'[k] = have - Cost
    BY <1>1, <1>9, DecideEffect
  <2>2. answer' = <<k, "allowed">>
    BY <1>9 DEF Decide
  <2>3. avail' = [TB!Refilled(out) EXCEPT ![k] = @ - Cost]
    BY <1>4, <1>5, <1>7, <1>8, <2>1
  <2>4. TB!Allow(k, out)
    BY <1>3, <1>4, <1>9, <2>2, <2>3 DEF TB!Allow, avail, decided
  <2> QED BY <1>6, <2>4 DEF TB!Next
<1>10. CASE have < Cost
  <2>1. tokens'[k] = have
    BY <1>1, <1>10, DecideEffect
  <2>2. answer' = <<k, "denied">>
    BY <1>1, <1>10 DEF Decide
  <2>3. avail' = TB!Refilled(out)
    BY <1>4, <1>5, <1>7, <1>8, <2>1
  <2>4. TB!Deny(k, out)
    BY <1>3, <1>4, <1>10, <2>2, <2>3 DEF TB!Deny, avail, decided
  <2> QED BY <1>6, <2>4 DEF TB!Next
<1> QED BY <1>1, <1>9, <1>10

\* A tick refills the token buckets.
LEMMA TickMaps ==
    ASSUME Buckets, threads = {}, Tick
    PROVE  TB!Next
<1>1. avail' = [k \in Keys |-> Least(Capacity[k], avail[k] + Rate[k])]
  <2>1. \A k \in Keys : Found(k, now)' = Least(Capacity[k], Found(k, now) + Rate[k])
    BY TickFound
  <2>2. avail = Avail /\ avail' = Avail'
    BY DEF Tick, avail, Loop
  <2>3. Avail' = [k \in Keys |-> Found(k, now)'] /\ Avail = [k \in Keys |-> Found(k, now)]
    BY DEF Avail
  <2> HIDE DEF Least
  <2> QED BY <2>1, <2>2, <2>3
<1>2. decided' = decided
  BY DEF Tick, history, decided, Loop
<1>3. \A k \in Keys : Least(Capacity[k], avail[k] + Rate[k])
                       = TB!Least(Capacity[k], avail[k] + Rate[k])
  BY DEF Least, TB!Least
<1>4. avail' = [k \in Keys |-> TB!Least(Capacity[k], avail[k] + Rate[k])]
  BY <1>1, <1>3
<1>5. TB!Refill
  BY <1>2, <1>4 DEF TB!Refill, avail, decided
<1> QED BY <1>5 DEF TB!Next

\* Every step is a step of the token buckets or leaves them alone.
LEMMA StepMaps ==
    ASSUME Buckets, Ordered, [Next]_vars
    PROVE  [TB!Next]_TB!bucketVars
<1>1. ASSUME avail' = avail, decided' = decided
      PROVE  [TB!Next]_TB!bucketVars
  BY <1>1 DEF TB!bucketVars, avail, decided
<1>2. threads' = threads
  BY ThreadsStep
<1>3. CASE threads # {}
  BY <1>1, <1>2, <1>3 DEF avail, decided, Loop
<1>4. CASE threads = {}
  <2>1. ASSUME \A k \in Keys : Found(k, now)' = Found(k, now), answer' = answer
        PROVE  [TB!Next]_TB!bucketVars
    <3>1. Avail' = Avail
      BY <2>1 DEF Avail
    <3> QED BY <1>1, <1>2, <2>1, <3>1 DEF avail, decided, Loop
  <2>2. CASE Tick
    BY <1>4, <2>2, TickMaps
  <2>3. ASSUME NEW k \in Keys, LoopAllow(k)
        PROVE  [TB!Next]_TB!bucketVars
    BY <1>4, <2>3, DecideMaps, BucketsStep DEF LoopAllow
  <2>4. CASE SweepStart
    BY <2>1, <2>4 DEF SweepStart, Found, Elapsed, store, history
  <2>5. CASE SweepShard
    BY <2>1, <2>5, SweepFound DEF SweepShard, history
  <2>6. CASE UNCHANGED vars
    BY <2>1, <2>6 DEF vars, Found, Elapsed
  <2> QED BY <1>4, <2>2, <2>3, <2>4, <2>5, <2>6 DEF Next
<1> QED BY <1>3, <1>4

\* README "In-Memory Token Bucket Rate Limiting": for any keys, shards, bounds and rates,
\* and without any thread besides the event loop, refills, evictions and sweeps give the
\* decisions of plain token buckets, where only the keys of a crowded shard may be
\* refilled by the arrival of another.
THEOREM Implements == Spec => ImplementsTokenBucket
<1>1. Init => TB!Init
  <2> SUFFICES ASSUME Init
               PROVE  TB!Init
    OBVIOUS
  <2>1. Avail = Full
    BY DEF Init, Avail, Full, Found
  <2>2. avail = Full /\ decided = NoAnswer
    BY <2>1 DEF Init, avail, decided
  <2> QED BY <2>2 DEF TB!Init, Full, avail, decided
<1>2. Init => Buckets /\ Ordered
  BY OrderedInit, BucketsInit
<1>3. Buckets /\ Ordered /\ [Next]_vars => Buckets' /\ Ordered'
  BY BucketsStep, OrderedStep
<1>4. Buckets /\ Ordered /\ [Next]_vars => [TB!Next]_TB!bucketVars
  BY StepMaps
<1>5. Spec => TB!Spec
  BY <1>1, <1>2, <1>3, <1>4, PTL DEF Spec, TB!Spec
<1> QED BY <1>5 DEF ImplementsTokenBucket
=============================================================================
