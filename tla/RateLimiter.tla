----------------------------- MODULE RateLimiter -----------------------------
(***************************************************************************)
(* backend/app/core/rate_limiter.py: a token bucket per key, in shards that *)
(* are ordered dictionaries under a lock, refilled lazily, evicted least     *)
(* recently used first and pruned by a sweeper; and the Retry-After header  *)
(* that app/dependencies.py computes from a denial.                        *)
(*                                                                         *)
(* Callers on the event loop read the clock and take the lock without      *)
(* yielding, so their call is one step.  A caller on a pool thread reads    *)
(* the clock before it has the lock: two steps.  The sweeper reads the     *)
(* clock once and yields between shards.                                    *)
(*                                                                         *)
(* Time is counted in ticks and tokens in units such that refill rates are *)
(* whole numbers of units per tick; MaxTime bounds the clock.  A key stands *)
(* for "prefix:identifier", so its limiter, and with it its capacity and    *)
(* rate, are functions of the key.                                          *)
(***************************************************************************)
EXTENDS Integers, FiniteSets

CONSTANTS
    Keys,         \* full keys in use
    NumShards,    \* settings.RATE_LIMIT_SHARDS
    ShardOf,      \* Keys -> 1..NumShards, the hash
    MaxKeys,      \* settings.RATE_LIMIT_MAX_KEYS_PER_SHARD
    Capacity,     \* Keys -> units
    Rate,         \* Keys -> units per tick, 0 for a bucket that never refills
    Cost,         \* units one request costs
    PoolThreads,  \* callers that may run outside the event loop
    NoKey, NoAnswer,
    MaxTime       \* bound on the clock

Shards == 1..NumShards

ASSUME ShardsAssumption == NumShards \in Nat \ {0} /\ MaxKeys \in Nat \ {0}
ASSUME KeysAssumption == /\ NoKey \notin Keys
                         /\ ShardOf \in [Keys -> Shards]
                         /\ Capacity \in [Keys -> Nat]
                         /\ Rate \in [Keys -> Nat]
ASSUME CostAssumption == /\ Cost \in Nat \ {0}
                         /\ \A k \in Keys : Cost <= Capacity[k]
ASSUME TimeAssumption == MaxTime \in Nat

VARIABLES
    now,        \* the monotonic clock
    tracked,    \* keys present in their shard's dictionary
    tokens,     \* BucketState.tokens (0 when the key is absent)
    last,       \* BucketState.last_refill (0 when the key is absent)
    older,      \* each shard's dictionary order: <<j, k>>, j is before k
    threads,    \* the pool threads that call at all; never changes
    call,       \* per pool thread: the key of its call and the clock it read
    sweepAt,    \* next shard of the sweep in progress, 0 when it sleeps
    sweepTime,  \* the clock the sweep read
    answer,     \* the last decision
    granted,    \* history: requests allowed since the key was last evicted
    since,      \* history: time of that eviction (0 at the start)
    promise     \* history: time a denial told the caller to come back at, or -1

store   == <<tracked, tokens, last, older>>
sweep   == <<sweepAt, sweepTime>>
history == <<answer, granted, since, promise>>
vars    == <<now, tracked, tokens, last, older, threads, call, sweepAt, sweepTime, answer,
             granted, since, promise>>

NoCall == [key |-> NoKey, read |-> 0]

\* The keys of shard s.
Held(s) == {k \in tracked : ShardOf[k] = s}

\* README "strict LRU bounds": a shard never holds more than MaxKeys keys, and its
\* order is an order of exactly the keys it holds, each once, whatever insertions,
\* touches, evictions and prunings did to it; while every caller runs on the event
\* loop it is the order of their last use.
ShardsBounded ==
    /\ \A s \in Shards : IsFiniteSet(Held(s)) /\ Cardinality(Held(s)) <= MaxKeys
    /\ \A p \in older : /\ {p[1], p[2]} \subseteq tracked
                        /\ ShardOf[p[1]] = ShardOf[p[2]]
    /\ \A j, k \in tracked : ShardOf[j] = ShardOf[k] =>
           (<<j, k>> \in older <=> j # k /\ <<k, j>> \notin older)
    /\ \A i, j, k \in tracked : <<i, j>> \in older /\ <<j, k>> \in older => <<i, k>> \in older
    /\ threads = {} => \A p \in older : last[p[1]] <= last[p[2]]

TypeOK ==
    /\ now \in Nat
    /\ tracked \subseteq Keys
    /\ tokens \in [Keys -> Nat] /\ \A k \in Keys : tokens[k] <= Capacity[k]
    /\ last \in [Keys -> Nat] /\ \A k \in Keys : last[k] <= now
    /\ older \subseteq Keys \X Keys /\ ShardsBounded
    /\ threads \subseteq PoolThreads
    /\ call \in [PoolThreads -> [key : Keys \cup {NoKey}, read : Nat]]
    /\ \A t \in PoolThreads : call[t].read <= now
    /\ sweepAt \in 0..NumShards /\ sweepTime \in Nat /\ sweepTime <= now
    /\ answer \in {NoAnswer} \cup (Keys \X {"allowed", "denied"})
    /\ granted \in [Keys -> Nat]
    /\ since \in [Keys -> Nat] /\ \A k \in Keys : since[k] <= now
    /\ promise \in [Keys -> Int]

Init ==
    /\ now = 0
    /\ tracked = {}
    /\ tokens = [k \in Keys |-> 0]
    /\ last = [k \in Keys |-> 0]
    /\ older = {}
    /\ threads \in SUBSET PoolThreads
    /\ call = [t \in PoolThreads |-> NoCall]
    /\ sweepAt = 0 /\ sweepTime = 0
    /\ answer = NoAnswer
    /\ granted = [k \in Keys |-> 0]
    /\ since = [k \in Keys |-> 0]
    /\ promise = [k \in Keys |-> -1]

-----------------------------------------------------------------------------
(* State formulae *)

Least(a, b) == IF a <= b THEN a ELSE b

Elapsed(k, t) == IF t > last[k] THEN t - last[k] ELSE 0

\* Tokens a call that read the clock at t finds in the bucket of k.
Found(k, t) ==
    IF k \in tracked THEN Least(Capacity[k], tokens[k] + Elapsed(k, t) * Rate[k])
    ELSE Capacity[k]

\* The bucket of k as a caller would find it now.
Avail == [k \in Keys |-> Found(k, now)]

\* The order when the keys K have left it.
Without(K) == {p \in older : {p[1], p[2]} \cap K = {}}

\* The keys of shard s that no other precedes: the one that popitem(last=False) takes.
Eldest(s) == {j \in Held(s) : \A i \in Held(s) : <<i, j>> \notin older}

\* Mutant of Evicted: one key too late.
EvictedLate(k) ==
    IF k \notin tracked /\ Cardinality(Held(ShardOf[k])) > MaxKeys
    THEN Eldest(ShardOf[k]) ELSE {}

\* Keys that inserting k evicts: the first of a full dictionary.
Evicted(k) ==
    IF k \notin tracked /\ Cardinality(Held(ShardOf[k])) >= MaxKeys
    THEN Eldest(ShardOf[k]) ELSE {}

\* Mutant of RetryAfter: rounded down.
RetryAfterFloor(k, have) ==
    IF Rate[k] = 0 THEN 1
    ELSE LET ticks == (Cost - have) \div Rate[k] IN IF ticks > 1 THEN ticks ELSE 1

\* Ticks to wait for the missing units: retry_after = missing / rate, rounded up
\* and at least 1 in the Retry-After header.
RetryAfter(k, have) ==
    IF Rate[k] = 0 THEN 1
    ELSE LET ticks == (Cost - have + Rate[k] - 1) \div Rate[k]
         IN IF ticks > 1 THEN ticks ELSE 1

\* Mutants of IdleFull: a bucket that never refills is prunable at once; a bucket
\* is pruned one tick before it is full.
IdleNeverRefilling(k, t) == (t - last[k]) * Rate[k] >= Capacity[k] \/ Rate[k] = 0
IdleEarly(k, t) == Rate[k] > 0 /\ (t - last[k] + 1) * Rate[k] >= Capacity[k]

\* Idle for max_idle_ttl = capacity / rate at time t; never when the rate is 0.
IdleFull(k, t) == Rate[k] > 0 /\ (t - last[k]) * Rate[k] >= Capacity[k]

-----------------------------------------------------------------------------
(* Actions *)

Tick ==
    /\ now < MaxTime
    /\ now' = now + 1
    /\ UNCHANGED <<store, threads, call, sweep, history>>

\* The body of allow() under the shard lock, for a clock read at t.
Decide(k, t) ==
    LET have    == Found(k, t)
        out     == Evicted(k)
        before  == Held(ShardOf[k]) \ (out \cup {k})
        allowed == have >= Cost
    IN  /\ tracked' = (tracked \ out) \cup {k}
        /\ tokens' = [j \in Keys |-> IF j = k THEN IF allowed THEN have - Cost ELSE have
                                     ELSE IF j \in out THEN 0 ELSE tokens[j]]
        /\ last' = [j \in Keys |-> IF j = k THEN t ELSE IF j \in out THEN 0 ELSE last[j]]
        /\ older' = Without(out \cup {k}) \cup (before \X {k})
        /\ answer' = <<k, IF allowed THEN "allowed" ELSE "denied">>
        /\ granted' = [j \in Keys |-> IF j = k THEN IF allowed THEN granted[k] + 1 ELSE granted[k]
                                      ELSE IF j \in out THEN 0 ELSE granted[j]]
        /\ since' = [j \in Keys |-> IF j # k /\ j \in out THEN now ELSE since[j]]
        /\ promise' = [promise EXCEPT ![k] =
                          IF allowed \/ Rate[k] = 0 THEN -1 ELSE t + RetryAfter(k, have)]
        /\ UNCHANGED <<now, threads, sweep>>

LoopAllow(k) == Decide(k, now) /\ UNCHANGED call

ReadClock(t, k) ==
    /\ call[t] = NoCall
    /\ call' = [call EXCEPT ![t] = [key |-> k, read |-> now]]
    /\ UNCHANGED <<now, store, threads, sweep, history>>

LockedAllow(t) ==
    /\ call[t].key # NoKey
    /\ Decide(call[t].key, call[t].read)
    /\ call' = [call EXCEPT ![t] = NoCall]

\* The sweeper wakes up and reads the clock.
SweepStart ==
    /\ sweepAt = 0
    /\ sweepAt' = 1
    /\ sweepTime' = now
    /\ UNCHANGED <<now, store, threads, call, history>>

\* One shard is pruned under its lock, then the sweeper yields.
SweepShard ==
    LET idle == {k \in tracked : ShardOf[k] = sweepAt /\ IdleFull(k, sweepTime)} IN
    /\ sweepAt # 0
    /\ tracked' = tracked \ idle
    /\ tokens' = [k \in Keys |-> IF k \in idle THEN 0 ELSE tokens[k]]
    /\ last' = [k \in Keys |-> IF k \in idle THEN 0 ELSE last[k]]
    /\ older' = Without(idle)
    /\ sweepAt' = IF sweepAt = NumShards THEN 0 ELSE sweepAt + 1
    /\ UNCHANGED <<now, threads, call, sweepTime, history>>

Next ==
    \/ Tick
    \/ \E k \in Keys : LoopAllow(k)
    \/ \E t \in threads : LockedAllow(t) \/ \E k \in Keys : ReadClock(t, k)
    \/ SweepStart
    \/ SweepShard

Spec == Init /\ [][Next]_vars

-----------------------------------------------------------------------------
(* Properties *)

\* While every caller runs on the event loop, no key is allowed more than its capacity
\* plus what its rate refilled, since the start or since it was evicted: neither lazy
\* refills, nor pruning and re-creating its bucket, nor a sweep working with an old
\* clock gives tokens away.
NeverOverspends ==
    threads = {} =>
        \A k \in Keys : granted[k] * Cost <= Capacity[k] + Rate[k] * (now - since[k])

\* A caller that waited as long as Retry-After told it finds its tokens there, as
\* long as nobody else used the key meanwhile.
HonestRetryAfter ==
    \A k \in Keys : (promise[k] # -1 /\ now >= promise[k]) => Avail[k] >= Cost

-----------------------------------------------------------------------------
(* Refinement *)

\* What TokenBucket is about: the calls of a node without pool threads.
Loop == threads = {}
Full == [k \in Keys |-> Capacity[k]]

\* The shards with more keys in use than they may hold.
Crowded ==
    {s \in Shards : LET mine == {k \in Keys : ShardOf[k] = s}
                    IN ~(IsFiniteSet(mine) /\ Cardinality(mine) <= MaxKeys)}

TB == INSTANCE TokenBucket WITH avail <- IF Loop THEN Avail ELSE Full,
                               answer <- IF Loop THEN answer ELSE NoAnswer

\* README "In-Memory Token Bucket Rate Limiting": lazy refills, shards, pruning and
\* eviction together behave as plain token buckets, except that in a crowded shard the
\* arrival of one key may refill one other.
ImplementsTokenBucket == TB!Spec
=============================================================================
