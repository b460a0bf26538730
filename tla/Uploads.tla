------------------------------- MODULE Uploads -------------------------------
(***************************************************************************)
(* The uploading browser: handleFileChange and runConcurrentTasks of        *)
(* frontend/src/components/dashboard/upload-button.tsx, over the requests   *)
(* of lib/api.ts.  The chosen files are uploaded one after the other; the   *)
(* parts of a multipart file by a few workers that share an index.          *)
(*                                                                         *)
(* A request may fail before or after the node has carried it out.  When a  *)
(* part fails, Promise.all rejects at once and the loop goes on to the next *)
(* file, but nothing stops the other workers of the file given up.          *)
(***************************************************************************)
EXTENDS Integers, Sequences, FiniteSets

CONSTANTS
    MaxFiles,     \* bound of the files ever chosen
    MaxChunks,    \* bound of the parts of a file
    Concurrency   \* CONCURRENT_CHUNKS

ASSUME UploadsAssumption ==
    MaxFiles \in Nat \ {0} /\ MaxChunks \in Nat \ {0} /\ Concurrency \in Nat \ {0}

VARIABLES
    pc,        \* where handleFileChange awaits; "idle" when it does not run
    queue,     \* chunk counts of the chosen files from the current one on; 0: single
    used,      \* files started so far; the current one is the last
    total,     \* runConcurrentTasks of each file started: items.length,
    next,      \* nextIndex,
    busy,      \* the part each worker is uploading, 0 when it has returned,
    results,   \* and the part number answered for each item, 0 while undefined
    failed,    \* the files whose Promise.all has rejected
    stored,    \* the node: parts stored for each file
    row        \* the node: the status of each file's row

pool == <<total, next, busy, results, failed>>
vars == <<pc, queue, used, pool, stored, row>>

-----------------------------------------------------------------------------
(* Types *)

FileIds == 1..MaxFiles
Workers == 1..Concurrency
Counts  == 0..MaxChunks

TypeOK ==
    /\ pc \in {"idle", "initiate", "single", "parts", "complete"}
    /\ queue \in Seq(Counts) /\ (pc = "idle" <=> queue = <<>>)
    /\ used \in 0..MaxFiles /\ used + Len(queue) <= MaxFiles + 1
    /\ total \in [FileIds -> Counts] /\ next \in [FileIds -> 1..(MaxChunks + 1)]
    /\ busy \in [FileIds -> [Workers -> Counts]]
    /\ DOMAIN results = FileIds /\ \A i \in FileIds : results[i] \in [1..total[i] -> Counts]
    /\ failed \subseteq FileIds
    /\ stored \in [FileIds -> SUBSET (1..MaxChunks)]
    /\ row \in [FileIds -> {"none", "uploading", "active"}]

Init ==
    /\ pc = "idle" /\ queue = <<>> /\ used = 0
    /\ total = [i \in FileIds |-> 0] /\ next = [i \in FileIds |-> 1]
    /\ busy = [i \in FileIds |-> [w \in Workers |-> 0]]
    /\ results = [i \in FileIds |-> [k \in 1..0 |-> 0]]
    /\ failed = {}
    /\ stored = [i \in FileIds |-> {}]
    /\ row = [i \in FileIds |-> "none"]

-----------------------------------------------------------------------------
(* runConcurrentTasks of file i *)

Smaller(m, n) == IF m < n THEN m ELSE n

\* Worker w of file i goes on to part k, or returns when k is 0.
Works(i, w, k) == busy' = [busy EXCEPT ![i] = [busy[i] EXCEPT ![w] = k]]

\* Promise.all: no worker is at work.
Returned(b) == \A w \in Workers : b[w] = 0

\* The first workers to start: each takes an item before it awaits.
FirstTaken(n) == [w \in Workers |-> IF w <= Smaller(Concurrency, n) THEN w ELSE 0]

\* Mutant of Started: the results have no places yet.
StartedUnsized(i, n) ==
    /\ total' = [total EXCEPT ![i] = n]
    /\ next' = [next EXCEPT ![i] = Smaller(Concurrency, n) + 1]
    /\ busy' = [busy EXCEPT ![i] = FirstTaken(n)]
    /\ UNCHANGED <<results, failed>>

\* The n items, and Array.from, which starts the workers in order.
Started(i, n) ==
    /\ total' = [total EXCEPT ![i] = n]
    /\ next' = [next EXCEPT ![i] = Smaller(Concurrency, n) + 1]
    /\ busy' = [busy EXCEPT ![i] = FirstTaken(n)]
    /\ results' = [results EXCEPT ![i] = [k \in 1..n |-> 0]]
    /\ UNCHANGED failed

\* Mutant of Took: the index is advanced by the last worker only.
TookUnadvanced(i, w) ==
    \/ /\ next[i] <= total[i]
       /\ Works(i, w, next[i])
       /\ next' = IF Returned([busy[i] EXCEPT ![w] = 0]) THEN [next EXCEPT ![i] = @ + 1] ELSE next
    \/ /\ next[i] > total[i]
       /\ Works(i, w, 0) /\ UNCHANGED next

\* A worker takes the next item, or returns.
Took(i, w) ==
    \/ /\ next[i] <= total[i]
       /\ Works(i, w, next[i]) /\ next' = [next EXCEPT ![i] = @ + 1]
    \/ /\ next[i] > total[i]
       /\ Works(i, w, 0) /\ UNCHANGED next

\* The answer for item k goes to its place.
Filed(i, k) == results' = [results EXCEPT ![i] = [results[i] EXCEPT ![k] = k]]

-----------------------------------------------------------------------------
(* handleFileChange *)

\* The button is disabled while it says how far the upload is.
Clickable == pc = "idle"

\* The user picks files.
HandleFileChange ==
    /\ Clickable
    /\ \E n \in 1..(MaxFiles - used) : queue' \in [1..n -> Counts]
    /\ pc' = "initiate"
    /\ UNCHANGED <<used, pool, stored, row>>

\* Mutant of NextFile: the exception of a file leaves the loop and the button busy.
NextFileStuck == pc' = pc /\ queue' = queue

\* The end of the loop's body, with or without an exception.
NextFile ==
    /\ queue' = Tail(queue)
    /\ pc' = IF Tail(queue) = <<>> THEN "idle" ELSE "initiate"

\* The node has created the row; it chose the mode.
Initiated ==
    /\ pc = "initiate"
    /\ used' = used + 1
    /\ row' = [row EXCEPT ![used'] = "uploading"]
    /\ pc' = IF Head(queue) = 0 THEN "single" ELSE "parts"
    /\ Started(used', Head(queue))
    /\ UNCHANGED <<queue, stored>>

InitiateFails ==
    /\ pc = "initiate"
    /\ used' = used + 1
    /\ row' \in {row, [row EXCEPT ![used'] = "uploading"]}
    /\ NextFile
    /\ UNCHANGED <<pool, stored>>

\* upload_single makes the row active itself.
SingleSent ==
    /\ pc = "single"
    /\ row' = [row EXCEPT ![used] = "active"]
    /\ pc' = "complete"
    /\ UNCHANGED <<queue, used, pool, stored>>

SingleFails ==
    /\ pc = "single"
    /\ row' \in {row, [row EXCEPT ![used] = "active"]}
    /\ NextFile
    /\ UNCHANGED <<used, pool, stored>>

\* apiCompleteUpload with the results: the node assembles the parts named.
Completed ==
    /\ pc = "complete"
    /\ row' = [row EXCEPT ![used] = "active"]
    /\ NextFile
    /\ UNCHANGED <<used, pool, stored>>

CompleteFails ==
    /\ pc = "complete"
    /\ row' \in {row, [row EXCEPT ![used] = "active"]}
    /\ NextFile
    /\ UNCHANGED <<used, pool, stored>>

-----------------------------------------------------------------------------
(* The workers of file i *)

\* The loop still waits for the workers of file i.
Awaited(i) == i = used /\ pc = "parts" /\ i \notin failed

\* A request of worker w reaches the node or not; if it does, its part is stored.
Store(i, k) == stored' = [stored EXCEPT ![i] = @ \cup {k}]

\* A part is stored and answered; the last worker to return ends Promise.all.
PartSent(i, w) ==
    LET k == busy[i][w] IN
    /\ k # 0
    /\ Store(i, k) /\ Filed(i, k) /\ Took(i, w)
    /\ pc' = IF Awaited(i) /\ Returned(busy'[i]) THEN "complete" ELSE pc
    /\ UNCHANGED <<queue, used, total, failed, row>>

\* Mutant of PartFails: Promise.allSettled in the place of Promise.all.
PartFailsSettled(i, w) ==
    /\ busy[i][w] # 0
    /\ Store(i, busy[i][w]) \/ UNCHANGED stored
    /\ Works(i, w, 0)
    /\ pc' = IF Awaited(i) /\ Returned(busy'[i]) THEN "complete" ELSE pc
    /\ UNCHANGED <<queue, used, total, next, results, failed, row>>

\* A part fails: its worker ends with the exception, and with it, for the first
\* one, Promise.all and the file.
PartFails(i, w) ==
    /\ busy[i][w] # 0
    /\ Store(i, busy[i][w]) \/ UNCHANGED stored
    /\ Works(i, w, 0) /\ failed' = failed \cup {i}
    /\ IF Awaited(i) THEN NextFile ELSE UNCHANGED <<pc, queue>>
    /\ UNCHANGED <<used, total, next, results, row>>

-----------------------------------------------------------------------------
(* Specification *)

Answers == \/ Initiated \/ InitiateFails \/ SingleSent \/ SingleFails
           \/ Completed \/ CompleteFails

PartAnswers(i, w) == PartSent(i, w) \/ PartFails(i, w)

Next == HandleFileChange \/ Answers \/ \E i \in FileIds, w \in Workers : PartAnswers(i, w)

Spec == Init /\ [][Next]_vars

\* Every request is answered or fails with its connection.
Fairness == WF_vars(Answers) /\ \A i \in FileIds, w \in Workers : WF_vars(PartAnswers(i, w))

FairSpec == Spec /\ Fairness

-----------------------------------------------------------------------------
(* Properties *)

\* The file a complete request assembles is the whole file: when it is sent, every
\* part is stored at the node, listed once and in order, no worker of the file is
\* still uploading, and none of its parts has failed.
CompleteWhole ==
    pc = "complete" /\ total[used] > 0 =>
        /\ results[used] = [k \in 1..total[used] |-> k]
        /\ 1..total[used] \subseteq stored[used]
        /\ Returned(busy[used])

\* No part is uploaded twice: a part in flight is in one worker's hands and has not
\* been answered, though the workers share the index without a lock.
EachPartOnce ==
    \A i \in FileIds, w \in Workers :
        busy[i][w] # 0 =>
            /\ results[i][busy[i][w]] = 0
            /\ \A v \in Workers \ {w} : busy[i][v] # busy[i][w]

\* The button comes back: whatever fails, the loop gets to its end.
UploadEnds == pc # "idle" ~> pc = "idle"
=============================================================================
