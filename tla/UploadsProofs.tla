---------------------------- MODULE UploadsProofs ----------------------------
(***************************************************************************)
(* Proofs about Uploads, for any number of files, parts and workers: the    *)
(* type invariant, that no part is uploaded twice, and that a file whose    *)
(* completion is asked for is whole.                                       *)
(*                                                                         *)
(* The inductive invariant says, of every file, that the parts before       *)
(* nextIndex are answered or in a worker's hands (Covered), that a worker    *)
(* that has returned left no item (Drained), and that what a worker holds   *)
(* or an answer names is what it should (Hands, Answered); a file that has  *)
(* failed is under no such promise.  Loop ties this to handleFileChange.    *)
(***************************************************************************)
EXTENDS Uploads, SequenceTheorems, TLAPS

\* What a worker is uploading was taken, is not answered, and is in no other's hands.
Hands(i) ==
    \A w \in Workers : busy[i][w] # 0 =>
        /\ busy[i][w] < next[i]
        /\ results[i][busy[i][w]] = 0
        /\ \A v \in Workers \ {w} : busy[i][v] # busy[i][w]

\* An item that has not been taken is not answered.
Untaken(i) == \A k \in 1..total[i] : k >= next[i] => results[i][k] = 0

\* An answer is in its place, and its part at the node.
Answered(i) ==
    \A k \in 1..total[i] : results[i][k] # 0 => results[i][k] = k /\ k \in stored[i]

\* Of a file that has not failed no part is forgotten.
Covered(i) ==
    i \notin failed =>
        \A k \in 1..total[i] : k < next[i] => results[i][k] # 0 \/ \E w \in Workers : busy[i][w] = k

\* Its workers return only when nothing is left to take.
Drained(i) ==
    i \notin failed => \A w \in Workers : busy[i][w] = 0 => next[i] = total[i] + 1

Pools == \A i \in FileIds :
    next[i] <= total[i] + 1 /\ Untaken(i) /\ Hands(i) /\ Answered(i) /\ Covered(i) /\ Drained(i)

Loop ==
    /\ pc \in {"single", "parts", "complete"} => used # 0
    /\ pc = "initiate" => used + Len(queue) <= MaxFiles
    /\ pc = "single" => total[used] = 0
    /\ pc = "complete" /\ total[used] > 0 => used \notin failed /\ Returned(busy[used])

IInv == TypeOK /\ Pools /\ Loop

\* TypeOK in two parts: the pools with what the node has stored, and the loop.
PoolTypes ==
    /\ total \in [FileIds -> Counts] /\ next \in [FileIds -> 1..(MaxChunks + 1)]
    /\ busy \in [FileIds -> [Workers -> Counts]]
    /\ DOMAIN results = FileIds /\ \A i \in FileIds : results[i] \in [1..total[i] -> Counts]
    /\ failed \subseteq FileIds
    /\ stored \in [FileIds -> SUBSET (1..MaxChunks)]

QueueType ==
    /\ queue \in Seq(Counts) /\ Len(queue) \in Nat /\ (pc = "idle" <=> queue = <<>>)
    /\ used + Len(queue) <= MaxFiles + 1

RestTypes ==
    /\ pc \in {"idle", "initiate", "single", "parts", "complete"}
    /\ used \in 0..MaxFiles
    /\ row \in [FileIds -> {"none", "uploading", "active"}]

USE DEF FileIds, Workers, Counts

-----------------------------------------------------------------------------
(* Lemmas *)

LEMMA TypeParts == TypeOK <=> PoolTypes /\ QueueType /\ RestTypes
<1>1. queue \in Seq(Counts) => Len(queue) \in Nat
  BY LenProperties
<1> QED
  BY <1>1, Zenon DEF TypeOK, PoolTypes, QueueType, RestTypes

LEMMA SmallerIs ==
    ASSUME NEW n \in Counts
    PROVE  Smaller(Concurrency, n) \in 0..n /\ (n > 0 => Smaller(Concurrency, n) > 0)
BY UploadsAssumption DEF Smaller

\* The first workers to start hold the first parts, one each.
LEMMA FirstTakenIs ==
    ASSUME NEW n \in Counts
    PROVE  /\ FirstTaken(n) \in [Workers -> Counts]
           /\ \A w \in Workers : FirstTaken(n)[w] \in {0, w} /\ FirstTaken(n)[w] <= Smaller(Concurrency, n)
           /\ \A k \in 1..Smaller(Concurrency, n) : k \in Workers /\ FirstTaken(n)[k] = k
           /\ \A w \in Workers : FirstTaken(n)[w] = 0 => Smaller(Concurrency, n) = n
BY SmallerIs, UploadsAssumption DEF FirstTaken, Smaller

\* The loop goes on to the next file, or ends.
LEMMA NextFileIs ==
    ASSUME QueueType, RestTypes, pc # "idle", NextFile,
           used' = used \/ (used' = used + 1 /\ used < MaxFiles)
    PROVE  QueueType' /\ pc' \in {"idle", "initiate"} /\ Len(queue') = Len(queue) - 1
<1>1. queue \in Seq(Counts) /\ queue # <<>> /\ Len(queue) \in Nat /\ used + Len(queue) <= MaxFiles + 1
  BY DEF QueueType
<1>2. Tail(queue) \in Seq(Counts) /\ Len(Tail(queue)) = Len(queue) - 1 /\ Len(queue) # 0
  BY <1>1, HeadTailProperties, EmptySeq
<1>3. queue' = Tail(queue) /\ pc' \in {"idle", "initiate"} /\ (pc' = "idle" <=> queue' = <<>>)
  BY DEF NextFile
<1>4. Len(queue') = Len(queue) - 1 /\ Len(queue') \in Nat /\ queue' \in Seq(Counts)
  BY <1>1, <1>2, <1>3
<1>5. used' + Len(queue') <= MaxFiles + 1
  BY <1>1, <1>4, UploadsAssumption DEF RestTypes
<1> QED
  BY <1>3, <1>4, <1>5, Zenon DEF QueueType

-----------------------------------------------------------------------------
(* The steps of the loop *)

LEMMA InitIInv == Init => IInv
<1> SUFFICES ASSUME Init PROVE IInv
  OBVIOUS
<1>1. TypeOK
  BY UploadsAssumption DEF Init, TypeOK
<1>2. Pools
  BY UploadsAssumption DEF Init, Pools, Untaken, Hands, Answered, Covered, Drained
<1>3. Loop
  BY DEF Init, Loop
<1> QED
  BY <1>1, <1>2, <1>3 DEF IInv

\* The pools and the parts at the node are left alone.
LEMMA PoolsKept == PoolTypes /\ Pools /\ UNCHANGED <<pool, stored>> => PoolTypes' /\ Pools'
BY DEF PoolTypes, Pools, pool, Untaken, Hands, Answered, Covered, Drained

LEMMA PicksFiles ==
    ASSUME QueueType, RestTypes, Loop, HandleFileChange
    PROVE  QueueType' /\ RestTypes' /\ Loop'
<1>1. used \in 0..MaxFiles /\ used' = used /\ row' = row /\ pc' = "initiate"
  BY DEF RestTypes, HandleFileChange
<1>2. PICK n \in 1..(MaxFiles - used) : queue' \in [1..n -> Counts]
  BY DEF HandleFileChange
<1>3. n \in Nat /\ n # 0 /\ used + n <= MaxFiles
  BY <1>1, <1>2, UploadsAssumption
<1>4. queue' \in Seq(Counts)
  BY <1>2, <1>3, SeqDef
<1>5. Len(queue') = n
  BY <1>2, <1>3, <1>4, LenProperties
<1>6. queue' # <<>>
  BY <1>3, <1>5, EmptySeq
<1>7. QueueType'
  BY <1>1, <1>3, <1>4, <1>5, <1>6, UploadsAssumption DEF QueueType
<1>8. Loop'
  BY <1>1, <1>3, <1>5 DEF Loop
<1> QED
  BY <1>1, <1>7, <1>8 DEF RestTypes

LEMMA EndsFile ==
    ASSUME QueueType, RestTypes, Loop, InitiateFails \/ SingleFails \/ Completed \/ CompleteFails
    PROVE  QueueType' /\ RestTypes' /\ Loop'
<1>1. pc # "idle" /\ NextFile
  BY DEF InitiateFails, SingleFails, Completed, CompleteFails
<1>2. used \in 0..MaxFiles /\ Len(queue) \in Nat /\ used + Len(queue) <= MaxFiles + 1
      /\ row \in [FileIds -> {"none", "uploading", "active"}]
  BY DEF RestTypes, QueueType
<1>3. Len(queue) # 0
  BY <1>1, EmptySeq DEF QueueType
<1>4. \/ used' = used + 1 /\ used < MaxFiles /\ used + Len(queue) <= MaxFiles
      \/ used' = used /\ pc # "initiate"
  BY <1>2, <1>3, UploadsAssumption DEF InitiateFails, SingleFails, Completed, CompleteFails, Loop
<1>5. QueueType' /\ pc' \in {"idle", "initiate"} /\ Len(queue') = Len(queue) - 1
  BY <1>1, <1>4, NextFileIs
<1>6. row' \in [FileIds -> {"none", "uploading", "active"}]
  BY <1>2 DEF InitiateFails, SingleFails, Completed, CompleteFails
<1>7. used' \in 0..MaxFiles /\ used' + Len(queue') <= MaxFiles
  BY <1>2, <1>4, <1>5, UploadsAssumption
<1>8. RestTypes' /\ Loop'
  BY <1>5, <1>6, <1>7 DEF RestTypes, Loop
<1> QED
  BY <1>5, <1>8

LEMMA SendsSingle ==
    ASSUME QueueType, RestTypes, Loop, SingleSent
    PROVE  QueueType' /\ RestTypes' /\ Loop'
<1>1. pc = "single" /\ pc' = "complete" /\ used' = used /\ queue' = queue /\ total' = total
  BY DEF SingleSent, pool
<1>2. QueueType'
  BY <1>1 DEF QueueType
<1>3. used # 0 /\ total[used] = 0
  BY <1>1 DEF Loop
<1>4. row' \in [FileIds -> {"none", "uploading", "active"}]
  BY DEF SingleSent, RestTypes
<1> QED
  BY <1>1, <1>2, <1>3, <1>4 DEF RestTypes, Loop

LEMMA LoopStep ==
    ASSUME IInv,
           HandleFileChange \/ InitiateFails \/ SingleSent \/ SingleFails \/ Completed \/ CompleteFails
    PROVE  IInv'
<1>1. PoolTypes /\ QueueType /\ RestTypes /\ Pools /\ Loop
  BY TypeParts DEF IInv
<1>2. UNCHANGED <<pool, stored>>
  BY DEF HandleFileChange, InitiateFails, SingleSent, SingleFails, Completed, CompleteFails
<1>3. PoolTypes' /\ Pools'
  BY <1>1, <1>2, PoolsKept
<1>4. QueueType' /\ RestTypes' /\ Loop'
  BY <1>1, PicksFiles, EndsFile, SendsSingle
<1>5. TypeOK'
  BY <1>3, <1>4, TypeParts, PTL
<1> QED
  BY <1>3, <1>4, <1>5 DEF IInv

\* A file is initiated and its first parts are taken.
LEMMA InitiatedStep == ASSUME IInv, Initiated PROVE IInv'
<1> DEFINE n == Head(queue)
           j == used + 1
           first == Smaller(Concurrency, n)
<1>1. PoolTypes /\ QueueType /\ RestTypes /\ Pools /\ Loop
  BY TypeParts DEF IInv
<1>2. queue \in Seq(Counts) /\ queue # <<>> /\ Len(queue) \in Nat /\ pc = "initiate"
  BY <1>1 DEF QueueType, Initiated
<1>3. n \in Counts /\ Len(queue) # 0
  BY <1>2, HeadTailProperties, EmptySeq
<1>4. used \in 0..MaxFiles /\ used + Len(queue) <= MaxFiles
  BY <1>1, <1>2 DEF RestTypes, Loop
<1>5. j \in FileIds /\ j # 0 /\ j + Len(queue) <= MaxFiles + 1
  BY <1>2, <1>3, <1>4, UploadsAssumption
<1>6. /\ used' = j /\ queue' = queue /\ stored' = stored /\ failed' = failed
      /\ row' = [row EXCEPT ![j] = "uploading"]
      /\ pc' = IF n = 0 THEN "single" ELSE "parts"
      /\ total' = [total EXCEPT ![j] = n]
      /\ next' = [next EXCEPT ![j] = first + 1]
      /\ busy' = [busy EXCEPT ![j] = FirstTaken(n)]
      /\ results' = [results EXCEPT ![j] = [k \in 1..n |-> 0]]
  BY DEF Initiated, Started
<1>7. /\ first \in 0..n
      /\ FirstTaken(n) \in [Workers -> Counts]
      /\ \A w \in Workers : FirstTaken(n)[w] \in {0, w} /\ FirstTaken(n)[w] <= first
      /\ \A k \in 1..first : k \in Workers /\ FirstTaken(n)[k] = k
      /\ \A w \in Workers : FirstTaken(n)[w] = 0 => first = n
  BY <1>3, FirstTakenIs, SmallerIs
<1> HIDE DEF n, j, first
<1>8. /\ total \in [FileIds -> Counts] /\ next \in [FileIds -> 1..(MaxChunks + 1)]
      /\ busy \in [FileIds -> [Workers -> Counts]] /\ DOMAIN results = FileIds
  BY <1>1 DEF PoolTypes
<1>9. /\ total'[j] = n /\ next'[j] = first + 1 /\ busy'[j] = FirstTaken(n)
      /\ results'[j] = [k \in 1..n |-> 0]
  BY <1>5, <1>6, <1>8
<1>10. \A i \in FileIds \ {j} : /\ total'[i] = total[i] /\ next'[i] = next[i]
                                /\ busy'[i] = busy[i] /\ results'[i] = results[i]
  BY <1>5, <1>6, <1>8
<1>11. PoolTypes'
  <2>1. total' \in [FileIds -> Counts]
    BY <1>3, <1>6, <1>8
  <2>2. first + 1 \in 1..(MaxChunks + 1)
    BY <1>3, <1>7, UploadsAssumption
  <2>3. next' \in [FileIds -> 1..(MaxChunks + 1)]
    BY <1>6, <1>8, <2>2
  <2>4. busy' \in [FileIds -> [Workers -> Counts]]
    BY <1>6, <1>7, <1>8
  <2>5. DOMAIN results' = FileIds
    BY <1>6, <1>8
  <2>6. \A i \in FileIds : results'[i] \in [1..total'[i] -> Counts]
    <3>1. [k \in 1..n |-> 0] \in [1..n -> Counts]
      BY UploadsAssumption
    <3>2. \A i \in FileIds \ {j} : results[i] \in [1..total[i] -> Counts]
      BY <1>1 DEF PoolTypes
    <3> QED
      BY <1>9, <1>10, <3>1, <3>2
  <2> QED
    BY <1>1, <1>6, <2>1, <2>3, <2>4, <2>5, <2>6 DEF PoolTypes
<1>12. Pools'
  <2> SUFFICES ASSUME NEW i \in FileIds
               PROVE  /\ next'[i] <= total'[i] + 1 /\ Untaken(i)' /\ Hands(i)'
                      /\ Answered(i)' /\ Covered(i)' /\ Drained(i)'
    BY DEF Pools
  <2>1. CASE i # j
    <3>1. /\ total'[i] = total[i] /\ next'[i] = next[i] /\ busy'[i] = busy[i]
          /\ results'[i] = results[i] /\ stored' = stored /\ failed' = failed
      BY <1>6, <1>10, <2>1
    <3>2. next[i] <= total[i] + 1 /\ Untaken(i) /\ Hands(i) /\ Answered(i) /\ Covered(i) /\ Drained(i)
      BY <1>1 DEF Pools
    <3> QED
      BY <3>1, <3>2 DEF Untaken, Hands, Answered, Covered, Drained
  <2>2. CASE i = j
    <3>0. /\ total'[i] = n /\ next'[i] = first + 1 /\ busy'[i] = FirstTaken(n)
          /\ results'[i] = [k \in 1..n |-> 0]
      BY <1>9, <2>2
    <3>1. \A w \in Workers : busy'[i][w] \in {0, w} /\ busy'[i][w] <= first /\ busy'[i][w] \in Counts
      BY <1>7, <3>0
    <3>2. n \in Nat /\ first \in Nat /\ first <= n
      BY <1>3, <1>7, UploadsAssumption
    <3>3. \A k \in 1..n : results'[i][k] = 0
      BY <3>0
    <3>4. Hands(i)'
      <4> SUFFICES ASSUME NEW w \in Workers, busy'[i][w] # 0
                   PROVE  /\ busy'[i][w] < next'[i] /\ results'[i][busy'[i][w]] = 0
                          /\ \A v \in Workers \ {w} : busy'[i][v] # busy'[i][w]
        BY DEF Hands
      <4>1. busy'[i][w] = w /\ w <= first /\ w \in 1..n
        BY <3>1, <3>2, UploadsAssumption
      <4>2. \A v \in Workers \ {w} : busy'[i][v] # w
        BY <3>1, UploadsAssumption
      <4>3. w < next'[i]
        BY <3>0, <3>2, <4>1, UploadsAssumption
      <4> QED
        BY <3>3, <4>1, <4>2, <4>3
    <3>5. Untaken(i)' /\ Answered(i)'
      BY <3>0, <3>3 DEF Untaken, Answered
    <3>6. Drained(i)'
      BY <1>7, <3>0 DEF Drained
    <3>7. Covered(i)'
      <4>1. \A k \in 1..n : k < first + 1 => k \in 1..first
        BY <3>2
      <4>2. \A k \in 1..n : k < first + 1 => k \in Workers /\ busy'[i][k] = k
        BY <1>7, <3>0, <4>1
      <4> QED
        BY <3>0, <4>2 DEF Covered
    <3>8. next'[i] <= total'[i] + 1
      BY <3>0, <3>2
    <3> QED
      BY <3>4, <3>5, <3>6, <3>7, <3>8
  <2> QED
    BY <2>1, <2>2
<1>13. QueueType'
  BY <1>1, <1>2, <1>5, <1>6, UploadsAssumption DEF QueueType
<1>14. RestTypes'
  <2>1. row' \in [FileIds -> {"none", "uploading", "active"}]
    BY <1>1, <1>6 DEF RestTypes
  <2>2. used' \in 0..MaxFiles
    BY <1>5, <1>6, UploadsAssumption
  <2> QED
    BY <1>6, <2>1, <2>2 DEF RestTypes
<1>15. Loop'
  BY <1>5, <1>6, <1>9 DEF Loop
<1>16. TypeOK'
  BY <1>11, <1>13, <1>14, TypeParts, PTL
<1> QED
  BY <1>12, <1>15, <1>16 DEF IInv

-----------------------------------------------------------------------------
(* The steps of the workers *)

\* What a worker is uploading is one of its file's parts.
LEMMA HoldsPart ==
    ASSUME PoolTypes, Pools, NEW i \in FileIds, NEW w \in Workers, busy[i][w] # 0
    PROVE  /\ total[i] \in Counts /\ next[i] \in 1..(total[i] + 1) /\ busy[i] \in [Workers -> Counts]
           /\ results[i] \in [1..total[i] -> Counts] /\ stored[i] \in SUBSET (1..MaxChunks)
           /\ busy[i][w] \in 1..total[i] /\ busy[i][w] < next[i]
<1>1. /\ total[i] \in Counts /\ next[i] \in 1..(MaxChunks + 1) /\ busy[i] \in [Workers -> Counts]
      /\ results[i] \in [1..total[i] -> Counts] /\ stored[i] \in SUBSET (1..MaxChunks)
  BY DEF PoolTypes
<1>2. next[i] <= total[i] + 1 /\ busy[i][w] < next[i]
  BY DEF Pools, Hands
<1> QED
  BY <1>1, <1>2, UploadsAssumption, SMTT(30)

\* A part is sent: the pools of the other files are left alone.
LEMMA SentPools ==
    ASSUME PoolTypes, Pools, NEW i \in FileIds, NEW w \in Workers, PartSent(i, w)
    PROVE  PoolTypes' /\ Pools'
<1> DEFINE k == busy[i][w]
           c == IF next[i] <= total[i] THEN next[i] ELSE 0
           m == IF next[i] <= total[i] THEN next[i] + 1 ELSE next[i]
<1>1. /\ total[i] \in Counts /\ next[i] \in 1..(total[i] + 1) /\ busy[i] \in [Workers -> Counts]
      /\ results[i] \in [1..total[i] -> Counts] /\ stored[i] \in SUBSET (1..MaxChunks)
      /\ k \in 1..total[i] /\ k < next[i]
  BY HoldsPart DEF PartSent
<1>2. /\ total' = total /\ failed' = failed
      /\ busy' = [busy EXCEPT ![i] = [busy[i] EXCEPT ![w] = c]]
      /\ results' = [results EXCEPT ![i] = [results[i] EXCEPT ![k] = k]]
      /\ stored' = [stored EXCEPT ![i] = stored[i] \cup {k}]
  BY <1>1, UploadsAssumption DEF PartSent, Took, Works, Filed, Store
<1>3. next'[i] = m /\ next' \in [FileIds -> 1..(MaxChunks + 1)]
      /\ \A j \in FileIds \ {i} : next'[j] = next[j]
  <2>1. next \in [FileIds -> 1..(MaxChunks + 1)]
    BY DEF PoolTypes
  <2>2. CASE next[i] <= total[i]
    <3>1. next' = [next EXCEPT ![i] = next[i] + 1]
      BY <1>1, <2>2, UploadsAssumption DEF PartSent, Took
    <3> QED
      BY <1>1, <2>1, <2>2, <3>1, UploadsAssumption, SMTT(30)
  <2>3. CASE next[i] > total[i]
    BY <1>1, <2>1, <2>3, UploadsAssumption, SMTT(30) DEF PartSent, Took
  <2> QED
    BY <1>1, <2>2, <2>3, UploadsAssumption
<1>4. /\ total[i] \in Nat /\ next[i] \in Nat /\ total[i] <= MaxChunks
      /\ c \in Counts /\ m <= total[i] + 1 /\ next[i] <= m /\ m \in Nat
      /\ c # 0 => c = next[i] /\ m = next[i] + 1 /\ c \in 1..total[i]
      /\ c = 0 => next[i] = total[i] + 1 /\ m = next[i]
  BY <1>1, UploadsAssumption, SMTT(30)
<1>5. k \in Counts /\ k \in 1..MaxChunks /\ k # 0
  BY <1>1, <1>4, UploadsAssumption
<1> HIDE DEF c, m, k
<1>6. /\ busy'[i][w] = c /\ \A v \in Workers \ {w} : busy'[i][v] = busy[i][v]
      /\ results'[i][k] = k /\ \A x \in 1..total[i] : x # k => results'[i][x] = results[i][x]
      /\ stored'[i] = stored[i] \cup {k} /\ total'[i] = total[i]
  BY <1>1, <1>2 DEF PoolTypes
<1>7. \A j \in FileIds \ {i} : /\ busy'[j] = busy[j] /\ results'[j] = results[j]
                               /\ stored'[j] = stored[j] /\ total'[j] = total[j]
  BY <1>2 DEF PoolTypes
<1>8. PoolTypes'
  <2>1. busy' \in [FileIds -> [Workers -> Counts]]
    BY <1>1, <1>2, <1>4 DEF PoolTypes
  <2>2. stored' \in [FileIds -> SUBSET (1..MaxChunks)]
    BY <1>1, <1>2, <1>5 DEF PoolTypes
  <2>3. [results[i] EXCEPT ![k] = k] \in [1..total[i] -> Counts]
    BY <1>1, <1>5
  <2>4. DOMAIN results' = FileIds /\ results'[i] \in [1..total'[i] -> Counts]
    BY <1>2, <2>3 DEF PoolTypes
  <2>5. \A j \in FileIds \ {i} : results'[j] \in [1..total'[j] -> Counts]
    BY <1>7 DEF PoolTypes
  <2> QED
    BY <1>2, <1>3, <2>1, <2>2, <2>4, <2>5 DEF PoolTypes
<1>9. Pools'
  <2> SUFFICES ASSUME NEW j \in FileIds
               PROVE  /\ next'[j] <= total'[j] + 1 /\ Untaken(j)' /\ Hands(j)' /\ Answered(j)'
                      /\ Covered(j)' /\ Drained(j)'
    BY DEF Pools
  <2>1. next[j] <= total[j] + 1 /\ Untaken(j) /\ Hands(j) /\ Answered(j) /\ Covered(j) /\ Drained(j)
    BY DEF Pools
  <2>2. CASE j # i
    <3>1. /\ total'[j] = total[j] /\ next'[j] = next[j] /\ busy'[j] = busy[j]
          /\ results'[j] = results[j] /\ stored'[j] = stored[j] /\ failed' = failed
      BY <1>2, <1>3, <1>7, <2>2
    <3> QED
      BY <2>1, <3>1 DEF Untaken, Hands, Answered, Covered, Drained
  <2>3. CASE j = i
    <3>0. /\ total'[i] = total[i] /\ next'[i] = m /\ failed' = failed
          /\ Untaken(i) /\ Hands(i) /\ Answered(i) /\ Covered(i) /\ Drained(i)
      BY <1>2, <1>3, <1>6, <2>1, <2>3
    <3>1. Untaken(i)'
      <4> SUFFICES ASSUME NEW x \in 1..total[i], x >= m PROVE results'[i][x] = 0
        BY <3>0 DEF Untaken
      <4>1. x # k /\ x >= next[i]
        BY <1>1, <1>4, UploadsAssumption, SMTT(30) DEF k
      <4> QED
        BY <1>6, <3>0, <4>1 DEF Untaken
    <3>2. Hands(i)'
      <4> SUFFICES ASSUME NEW v \in Workers, busy'[i][v] # 0
                   PROVE  /\ busy'[i][v] < m /\ results'[i][busy'[i][v]] = 0
                          /\ \A u \in Workers \ {v} : busy'[i][u] # busy'[i][v]
        BY <3>0 DEF Hands
      <4>1. \A u \in Workers : busy[i][u] \in Counts /\ (busy[i][u] # 0 => busy[i][u] < next[i])
        BY <1>1, <3>0 DEF Hands
      <4>2. CASE v = w
        <5>1. c # 0 /\ busy'[i][v] = c /\ c = next[i] /\ m = next[i] + 1 /\ c \in 1..total[i]
          BY <1>4, <1>6, <4>2
        <5>2. c < m /\ c # k
          BY <1>1, <1>4, <5>1, UploadsAssumption DEF k
        <5>3. results[i][c] = 0
          BY <1>4, <3>0, <5>1 DEF Untaken
        <5>4. \A u \in Workers \ {v} : busy'[i][u] # c
          BY <1>4, <1>6, <4>1, <4>2, <5>1, UploadsAssumption
        <5> QED
          BY <1>6, <5>1, <5>2, <5>3, <5>4
      <4>3. CASE v # w
        <5>1. busy'[i][v] = busy[i][v] /\ busy[i][v] # 0
          BY <1>6, <4>3
        <5>2. /\ busy[i][v] < next[i] /\ results[i][busy[i][v]] = 0
              /\ \A u \in Workers \ {v} : busy[i][u] # busy[i][v]
          BY <3>0, <5>1 DEF Hands
        <5>3. busy[i][v] \in 1..total[i] /\ busy[i][v] < m
          <6>1. busy[i][v] \in 1..total[i] /\ busy[i][v] < next[i]
            BY <5>1, HoldsPart
          <6> QED
            BY <1>4, <6>1
        <5>4. busy[i][v] # k
          BY <4>3, <5>2 DEF k
        <5>5. c # busy[i][v]
          BY <1>4, <4>1, <5>1, <5>2, UploadsAssumption
        <5>6. \A u \in Workers \ {v} : busy'[i][u] # busy'[i][v]
          BY <1>6, <5>1, <5>2, <5>5
        <5> QED
          BY <1>6, <5>1, <5>2, <5>3, <5>4, <5>6
      <4> QED
        BY <4>2, <4>3
    <3>3. Answered(i)'
      <4> SUFFICES ASSUME NEW x \in 1..total[i], results'[i][x] # 0
                   PROVE  results'[i][x] = x /\ x \in stored'[i]
        BY <3>0 DEF Answered
      <4> QED
        BY <1>6, <3>0 DEF Answered
    <3>4. Covered(i)'
      <4> SUFFICES ASSUME i \notin failed, NEW x \in 1..total[i], x < m
                   PROVE  results'[i][x] # 0 \/ \E v \in Workers : busy'[i][v] = x
        BY <3>0 DEF Covered
      <4>1. CASE x = k
        BY <1>5, <1>6, <4>1
      <4>2. CASE x # k /\ x < next[i]
        <5>1. results[i][x] # 0 \/ \E v \in Workers : busy[i][v] = x
          BY <3>0, <4>2 DEF Covered
        <5>2. \A v \in Workers : busy[i][v] = x => v # w
          BY <4>2 DEF k
        <5> QED
          BY <1>6, <4>2, <5>1, <5>2
      <4>3. CASE ~(x < next[i])
        <5>1. x = next[i] /\ c = x
          BY <1>4, <4>3, UploadsAssumption
        <5> QED
          BY <1>6, <5>1
      <4> QED
        BY <4>1, <4>2, <4>3
    <3>5. Drained(i)'
      <4> SUFFICES ASSUME i \notin failed, NEW v \in Workers, busy'[i][v] = 0
                   PROVE  m = total[i] + 1
        BY <3>0 DEF Drained
      <4>1. CASE v = w
        BY <1>4, <1>6, <4>1
      <4>2. CASE v # w
        <5>1. busy[i][v] = 0
          BY <1>6, <4>2
        <5>2. next[i] = total[i] + 1
          BY <3>0, <5>1 DEF Drained
        <5>3. c = 0
          BY <1>4, <5>2, UploadsAssumption
        <5> QED
          BY <1>4, <5>2, <5>3
      <4> QED
        BY <4>1, <4>2
    <3> QED
      BY <1>4, <2>3, <3>0, <3>1, <3>2, <3>3, <3>4, <3>5
  <2> QED
    BY <2>2, <2>3
<1> QED
  BY <1>8, <1>9

\* A part fails, and its file with it.
LEMMA FailedPools ==
    ASSUME PoolTypes, Pools, NEW i \in FileIds, NEW w \in Workers, PartFails(i, w)
    PROVE  PoolTypes' /\ Pools'
<1> DEFINE k == busy[i][w]
<1>1. /\ total[i] \in Counts /\ busy[i] \in [Workers -> Counts]
      /\ stored[i] \in SUBSET (1..MaxChunks) /\ k \in 1..total[i]
  BY HoldsPart DEF PartFails
<1>2. /\ total' = total /\ next' = next /\ results' = results /\ failed' = failed \cup {i}
      /\ busy' = [busy EXCEPT ![i] = [busy[i] EXCEPT ![w] = 0]]
      /\ stored' = stored \/ stored' = [stored EXCEPT ![i] = stored[i] \cup {k}]
  BY DEF PartFails, Works, Store
<1>3. k \in 1..MaxChunks /\ 0 \in Counts
  BY <1>1, UploadsAssumption
<1> HIDE DEF k
<1>4. stored' \in [FileIds -> SUBSET (1..MaxChunks)] /\ \A j \in FileIds : stored[j] \subseteq stored'[j]
  <2>1. stored \in [FileIds -> SUBSET (1..MaxChunks)] /\ stored[i] \cup {k} \in SUBSET (1..MaxChunks)
    BY <1>1, <1>3 DEF PoolTypes
  <2>2. CASE stored' = stored
    BY <2>1, <2>2
  <2>3. CASE stored' = [stored EXCEPT ![i] = stored[i] \cup {k}]
    <3>1. stored' \in [FileIds -> SUBSET (1..MaxChunks)]
      BY <2>1, <2>3
    <3>2. \A j \in FileIds : stored'[j] = IF j = i THEN stored[i] \cup {k} ELSE stored[j]
      BY <2>1, <2>3
    <3> QED
      BY <3>1, <3>2
  <2> QED
    BY <1>2, <2>2, <2>3
<1>5. busy' \in [FileIds -> [Workers -> Counts]]
  BY <1>1, <1>2, <1>3 DEF PoolTypes
<1>6. \A j \in FileIds, v \in Workers : busy'[j][v] = IF j = i /\ v = w THEN 0 ELSE busy[j][v]
  BY <1>1, <1>2 DEF PoolTypes
<1>7. PoolTypes'
  BY <1>2, <1>4, <1>5 DEF PoolTypes
<1>8. Pools'
  <2> SUFFICES ASSUME NEW j \in FileIds
               PROVE  /\ next'[j] <= total'[j] + 1 /\ Untaken(j)' /\ Hands(j)' /\ Answered(j)'
                      /\ Covered(j)' /\ Drained(j)'
    BY DEF Pools
  <2>1. next[j] <= total[j] + 1 /\ Untaken(j) /\ Hands(j) /\ Answered(j) /\ Covered(j) /\ Drained(j)
    BY DEF Pools
  <2>2. Untaken(j)' /\ next'[j] <= total'[j] + 1
    BY <1>2, <2>1 DEF Untaken
  <2>3. Hands(j)'
    BY <1>2, <1>6, <2>1 DEF Hands
  <2>4. Answered(j)'
    BY <1>2, <1>4, <2>1 DEF Answered
  <2>5. Covered(j)' /\ Drained(j)'
    <3>1. CASE j = i
      BY <1>2, <3>1 DEF Covered, Drained
    <3>2. CASE j # i
      BY <1>2, <1>6, <2>1, <3>2 DEF Covered, Drained
    <3> QED
      BY <3>1, <3>2
  <2> QED
    BY <2>2, <2>3, <2>4, <2>5
<1> QED
  BY <1>7, <1>8

\* A completion that is out is not disturbed by the workers of other files.
LEMMA CompletionStands ==
    ASSUME PoolTypes, Pools, Loop, NEW i \in FileIds, NEW w \in Workers, busy[i][w] # 0,
           pc = "complete", total[used] > 0
    PROVE  used # i
<1>1. Returned(busy[used])
  BY DEF Loop
<1> QED
  BY <1>1 DEF Returned

LEMMA SentStep == ASSUME IInv, NEW i \in FileIds, NEW w \in Workers, PartSent(i, w) PROVE IInv'
<1>1. PoolTypes /\ QueueType /\ RestTypes /\ Pools /\ Loop
  BY TypeParts DEF IInv
<1>2. PoolTypes' /\ Pools'
  BY <1>1, SentPools
<1>3. /\ busy[i][w] # 0 /\ queue' = queue /\ used' = used /\ total' = total /\ failed' = failed
      /\ row' = row /\ pc' = IF Awaited(i) /\ Returned(busy'[i]) THEN "complete" ELSE pc
      /\ \A j \in FileIds \ {i} : busy'[j] = busy[j]
  BY <1>1 DEF PartSent, Took, Works, PoolTypes
<1>4. QueueType' /\ RestTypes'
  BY <1>1, <1>3 DEF QueueType, RestTypes, Awaited
<1>5. Loop'
  <2>1. CASE Awaited(i) /\ Returned(busy'[i])
    BY <1>1, <1>3, <2>1 DEF Loop, Awaited
  <2>2. CASE ~(Awaited(i) /\ Returned(busy'[i]))
    <3>1. pc' = pc
      BY <1>3, <2>2
    <3>2. pc = "complete" /\ total[used] > 0 => used \notin failed /\ Returned(busy'[used])
      <4> SUFFICES ASSUME pc = "complete", total[used] > 0
                   PROVE  used \notin failed /\ Returned(busy'[used])
        OBVIOUS
      <4>1. used # i /\ used \in FileIds
        BY <1>1, <1>3, CompletionStands, UploadsAssumption DEF RestTypes, Loop
      <4> QED
        BY <1>1, <1>3, <4>1 DEF Loop
    <3> QED
      BY <1>1, <1>3, <3>1, <3>2 DEF Loop
  <2> QED
    BY <2>1, <2>2
<1>6. TypeOK'
  BY <1>2, <1>4, TypeParts, PTL
<1> QED
  BY <1>2, <1>5, <1>6 DEF IInv

LEMMA FailsStep == ASSUME IInv, NEW i \in FileIds, NEW w \in Workers, PartFails(i, w) PROVE IInv'
<1>1. PoolTypes /\ QueueType /\ RestTypes /\ Pools /\ Loop
  BY TypeParts DEF IInv
<1>2. PoolTypes' /\ Pools'
  BY <1>1, FailedPools
<1>3. /\ busy[i][w] # 0 /\ used' = used /\ total' = total /\ failed' = failed \cup {i} /\ row' = row
      /\ \A j \in FileIds \ {i} : busy'[j] = busy[j]
  BY <1>1 DEF PartFails, Works, PoolTypes
<1>4. QueueType' /\ RestTypes' /\ Loop'
  <2>1. CASE Awaited(i)
    <3>1. pc = "parts" /\ NextFile
      BY <2>1 DEF PartFails, Awaited
    <3>2. QueueType' /\ pc' \in {"idle", "initiate"} /\ Len(queue') = Len(queue) - 1
      BY <1>1, <1>3, <3>1, NextFileIs
    <3>3. RestTypes'
      BY <1>1, <1>3, <3>2 DEF RestTypes
    <3>4. used \in Nat /\ Len(queue) \in Nat /\ used + Len(queue) <= MaxFiles + 1
      BY <1>1, UploadsAssumption DEF QueueType, RestTypes
    <3>5. used' + Len(queue') <= MaxFiles
      BY <1>3, <3>2, <3>4, UploadsAssumption
    <3> QED
      BY <3>2, <3>3, <3>5 DEF Loop
  <2>2. CASE ~Awaited(i)
    <3>1. pc' = pc /\ queue' = queue
      BY <2>2 DEF PartFails
    <3>2. QueueType' /\ RestTypes'
      BY <1>1, <1>3, <3>1 DEF QueueType, RestTypes
    <3>3. pc = "complete" /\ total[used] > 0 => used \notin failed' /\ Returned(busy'[used])
      <4> SUFFICES ASSUME pc = "complete", total[used] > 0
                   PROVE  used \notin failed' /\ Returned(busy'[used])
        OBVIOUS
      <4>1. used # i /\ used \in FileIds
        BY <1>1, <1>3, CompletionStands, UploadsAssumption DEF RestTypes, Loop
      <4> QED
        BY <1>1, <1>3, <4>1 DEF Loop
    <3> QED
      BY <1>1, <1>3, <3>1, <3>2, <3>3 DEF Loop
  <2> QED
    BY <2>1, <2>2
<1>5. TypeOK'
  BY <1>2, <1>4, TypeParts, PTL
<1> QED
  BY <1>2, <1>4, <1>5 DEF IInv

-----------------------------------------------------------------------------
(* Theorems *)

LEMMA NextIInv == IInv /\ [Next]_vars => IInv'
<1> SUFFICES ASSUME IInv, [Next]_vars PROVE IInv'
  OBVIOUS
<1>1. CASE HandleFileChange \/ InitiateFails \/ SingleSent \/ SingleFails \/ Completed \/ CompleteFails
  BY <1>1, LoopStep
<1>2. CASE Initiated
  BY <1>2, InitiatedStep
<1>3. CASE \E i \in FileIds, w \in Workers : PartAnswers(i, w)
  BY <1>3, SentStep, FailsStep DEF PartAnswers
<1>4. CASE UNCHANGED vars
  BY <1>4 DEF vars, pool, IInv, TypeOK, Pools, Untaken, Hands, Answered, Covered, Drained, Loop
<1> QED
  BY <1>1, <1>2, <1>3, <1>4 DEF Next, Answers

LEMMA Inductive == Spec => []IInv
BY InitIInv, NextIInv, PTL DEF Spec

\* The state has its type: in particular the index and the results of every file
\* stay within its parts, and the loop runs exactly while files are left.
THEOREM TypeCorrect == Spec => []TypeOK
<1>1. IInv => TypeOK
  BY DEF IInv
<1> QED
  BY <1>1, Inductive, PTL

\* Workers that share nextIndex without a lock never upload a part twice, however
\* many there are and whatever has failed.
THEOREM PartsOnce == Spec => []EachPartOnce
<1>1. IInv => EachPartOnce
  BY DEF IInv, Pools, Hands, EachPartOnce
<1> QED
  BY <1>1, Inductive, PTL

\* A completion is asked for only when every part of the file is at the node, listed
\* once and in its place, with no worker of the file left.
THEOREM WholeFiles == Spec => []CompleteWhole
<1>1. ASSUME IInv PROVE CompleteWhole
  <2> SUFFICES ASSUME pc = "complete", total[used] > 0
               PROVE  /\ results[used] = [k \in 1..total[used] |-> k]
                      /\ 1..total[used] \subseteq stored[used] /\ Returned(busy[used])
    BY DEF CompleteWhole
  <2>1. PoolTypes /\ RestTypes /\ Pools /\ Loop
    BY <1>1, TypeParts DEF IInv
  <2>2. used \in FileIds /\ used \notin failed /\ Returned(busy[used])
    BY <2>1, UploadsAssumption DEF RestTypes, Loop
  <2>3. Answered(used) /\ Covered(used) /\ Drained(used)
    BY <2>1, <2>2 DEF Pools
  <2>4. total[used] \in Nat /\ next[used] = total[used] + 1
    <3>1. 1 \in Workers
      BY UploadsAssumption
    <3>2. busy[used][1] = 0
      BY <2>2, <3>1 DEF Returned
    <3> QED
      BY <2>1, <2>2, <2>3, <3>1, <3>2, UploadsAssumption, SMTT(30) DEF Drained, PoolTypes
  <2>5. ASSUME NEW k \in 1..total[used] PROVE results[used][k] = k /\ k \in stored[used]
    <3>1. k < next[used] /\ k # 0
      BY <2>4
    <3>2. results[used][k] # 0
      BY <2>2, <2>3, <3>1 DEF Covered, Returned
    <3> QED
      BY <2>3, <3>2 DEF Answered
  <2>6. results[used] \in [1..total[used] -> Counts]
    BY <2>1, <2>2 DEF PoolTypes
  <2> QED
    BY <2>2, <2>5, <2>6
<1> QED
  BY <1>1, Inductive, PTL
=============================================================================
