----------------------------- MODULE TokenBucket -----------------------------
(***************************************************************************)
(* What the rate limiter promises: every key has a bucket that starts full, *)
(* gains Rate tokens per tick up to its capacity, and a request is allowed  *)
(* exactly when its cost is there, and then pays it.  Nothing is ever       *)
(* pruned.  In a crowded shard the arrival of one key may refill another    *)
(* one, which is what least-recently-used eviction amounts to.              *)
(***************************************************************************)
EXTENDS Integers

CONSTANTS Keys, Shards, ShardOf, Capacity, Rate, Cost, Crowded, NoAnswer

VARIABLES avail,   \* tokens in the bucket of each key now
          answer   \* the last decision

bucketVars == <<avail, answer>>

Least(a, b) == IF a <= b THEN a ELSE b

Init == /\ avail = [k \in Keys |-> Capacity[k]]
        /\ answer = NoAnswer

Refill == /\ avail' = [k \in Keys |-> Least(Capacity[k], avail[k] + Rate[k])]
          /\ UNCHANGED answer

\* Keys that the arrival of key k may throw out.
Evictable(k) ==
    IF ShardOf[k] \in Crowded THEN {j \in Keys \ {k} : ShardOf[j] = ShardOf[k]} ELSE {}

Refilled(evicted) == [k \in Keys |-> IF k \in evicted THEN Capacity[k] ELSE avail[k]]

Allow(k, evicted) ==
    /\ avail[k] >= Cost
    /\ avail' = [Refilled(evicted) EXCEPT ![k] = @ - Cost]
    /\ answer' = <<k, "allowed">>

Deny(k, evicted) ==
    /\ avail[k] < Cost
    /\ avail' = Refilled(evicted)
    /\ answer' = <<k, "denied">>

Next == \/ Refill
        \/ \E k \in Keys : \E evicted \in {{}} \cup {{j} : j \in Evictable(k)} :
               Allow(k, evicted) \/ Deny(k, evicted)

Spec == Init /\ [][Next]_bucketVars
=============================================================================
