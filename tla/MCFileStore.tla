----------------------------- MODULE MCFileStore -----------------------------
(***************************************************************************)
(* Small instances of FileStore for TLC.  s1, s2 are small files (single    *)
(* mode), m1, m2 are at the multipart threshold.                           *)
(***************************************************************************)
EXTENDS FileStore, TLC

CONSTANTS u1, u2, s1, s2, m1, m2, n1, n2, r1, r2, r3

MCThreshold == 2
MCSize  == [f \in Files |-> IF f \in {m1, m2} THEN 2 ELSE 1]
MCOwner == [f \in Files |-> u1]

\* Bound on the faults: they strike before the small file is known to the node, which
\* is uploaded only if no deletion was torn.
EarlyFaults ==
    /\ status[s1] = "none" \/ ~(Crash \/ \E r \in Requests : Fail(r))
    /\ status'[s1] = "none" \/ torn = {}

RequestSymmetry == Permutations(Requests)
=============================================================================
