---------------------------- MODULE MCRateLimiter ----------------------------
(***************************************************************************)
(* A small instance of RateLimiter for TLC: all keys share a shard, which   *)
(* is crowded; key z never refills.                                         *)
(***************************************************************************)
EXTENDS RateLimiter

CONSTANTS a, b, z

MCShardOf  == [k \in Keys |-> 1]
MCRate     == [k \in Keys |-> IF k = z THEN 0 ELSE 2]
MCCapacity == [k \in Keys |-> IF k = b THEN 4 ELSE 7]

\* With pool threads what a key is granted is not bounded by the clock: a smaller bound.
ThreadsBound == Loop \/ (now <= 2 /\ \A k \in Keys : granted[k] <= 2)
=============================================================================
