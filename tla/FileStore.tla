------------------------------ MODULE FileStore ------------------------------
(***************************************************************************)
(* The upload/delete half of the node's file API: the handlers of          *)
(* backend/app/routes/files.py running concurrently on one event loop over *)
(*   - the SQLite tables "files" and "user_cache", and                     *)
(*   - the MinIO bucket (objects and multipart uploads).                   *)
(*                                                                         *)
(* A request is a process.  It advances one await at a time:               *)
(*   arrival   get_current_node_user reads the user row (seen = its        *)
(*             storage_used at that moment);                               *)
(*   row       the handler reads the file row and runs its early returns;  *)
(*   <s3 call> one call to MinIO, named after the s3_service method;       *)
(*   commit    the session flushes and commits in one SQLite transaction.  *)
(* Between two awaits of a request every other request may run.  Reads are *)
(* outside the write transaction, so a commit writes storage_used computed *)
(* from the value seen at arrival.                                         *)
(*                                                                         *)
(* One folder is modelled: a name stands for a filename in that folder.    *)
(* A file id stands for the fresh uuid of one initiate, with the size and  *)
(* the owner of that upload, which no handler changes afterwards.          *)
(***************************************************************************)
EXTENDS Integers, FiniteSets, FiniteSetsExt

CONSTANTS
    Users,              \* rows of user_cache
    Files,              \* uuids an initiate may draw
    Names,              \* filenames in the folder
    Parts,              \* part numbers of a multipart upload
    Requests,           \* requests the server handles at the same time
    Owner,              \* Files -> Users
    Size,               \* Files -> declared size in bytes
    Quota,              \* storage_quota_bytes of every user
    MaxFileSize,        \* settings.MAX_FILE_SIZE
    MultipartThreshold, \* settings.MULTIPART_THRESHOLD
    NoUser, NoFile, NoName,
    Faults              \* subset of FaultKinds that may happen

FaultKinds == {"refused", "lost", "crash"}

ASSUME UsersAssumption == NoUser \notin Users
ASSUME FilesAssumption == /\ NoFile \notin Files
                          /\ Owner \in [Files -> Users]
                          /\ Size \in [Files -> Nat]
ASSUME NamesAssumption == NoName \notin Names
ASSUME LimitsAssumption == Quota \in Nat /\ MaxFileSize \in Nat /\ MultipartThreshold \in Nat
ASSUME FaultsAssumption == Faults \subseteq FaultKinds

VARIABLES
    status,  \* files.status of each id; "none" before the insert, "gone" after the delete
    name,    \* files.filename
    used,    \* user_cache.storage_used
    object,  \* keys that hold an object in the bucket
    mpu,     \* the multipart upload MinIO keeps for the key
    parts,   \* parts stored in that upload
    req,     \* the requests in flight
    torn     \* history: files whose delete_object took effect in a handler
             \* that then ended without its commit

db    == <<status, name, used>>
minio == <<object, mpu, parts>>
vars  == <<status, name, used, object, mpu, parts, req, torn>>

-----------------------------------------------------------------------------
(* Types *)

Statuses == {"none", "uploading", "active", "gone"}
Ops      == {"initiate", "upload", "part", "complete", "abort", "delete", "rename"}
S3Calls  == {"create_multipart_upload", "put_object", "upload_part",
             "complete_multipart_upload", "object_exists", "delete_object",
             "abort_multipart_upload"}
PCs      == {"idle", "row", "commit"} \cup S3Calls
Replies  == {"none", "ok", "error"}

Request == [pc : PCs, op : Ops \cup {"none"}, user : Users \cup {NoUser},
            file : Files \cup {NoFile}, name : Names \cup {NoName},
            parts : SUBSET Parts, seen : Int, was : Statuses, fate : {"serve", "reject"},
            reply : Replies]

NoRequest == [pc |-> "idle", op |-> "none", user |-> NoUser, file |-> NoFile,
              name |-> NoName, parts |-> {}, seen |-> 0, was |-> "none",
              fate |-> "serve", reply |-> "none"]

TypeOK ==
    /\ status \in [Files -> Statuses]
    /\ name   \in [Files -> Names \cup {NoName}]
    /\ used   \in [Users -> Int]
    /\ object \subseteq Files
    /\ mpu    \in [Files -> {"none", "open", "closed"}]
    /\ parts  \in [Files -> SUBSET Parts]
    /\ req    \in [Requests -> Request]
    /\ torn   \subseteq Files

Init ==
    /\ status = [f \in Files |-> "none"]
    /\ name   = [f \in Files |-> NoName]
    /\ used   = [u \in Users |-> 0]
    /\ object = {}
    /\ mpu    = [f \in Files |-> "none"]
    /\ parts  = [f \in Files |-> {}]
    /\ req    = [r \in Requests |-> NoRequest]
    /\ torn   = {}

-----------------------------------------------------------------------------
(* State formulae *)

Multipart(f) == Size[f] >= MultipartThreshold

RowExists(f) == status[f] \in {"uploading", "active"}

At(r, op, pc) == req[r].op = op /\ req[r].pc = pc

FoundWithoutOwner(q) == RowExists(q.file)   \* mutant of Found

\* The row a handler may act on: present and owned by the caller.
Found(q) == RowExists(q.file) /\ Owner[q.file] = q.user

\* The duplicate check of initiate_upload and rename_file: only active rows count.
NameTaken(u, n, except) ==
    \E g \in Files \ except : Owner[g] = u /\ status[g] = "active" /\ name[g] = n

\* The request has deleted the object and still owes the deletion of the row.
Erasing(q) == q.pc = "commit" /\ (q.op = "delete" \/ q.fate = "reject")

Goto(r, pc) == req' = [req EXCEPT ![r].pc = pc]

Reject(r) == req' = [req EXCEPT ![r] = [@ EXCEPT !.pc = "delete_object", !.fate = "reject"]]

Answer(r, reply) == req' = [req EXCEPT ![r] = [NoRequest EXCEPT !.reply = reply]]

\* storage_used += delta on the loaded object: the UPDATE carries the literal
\* seen + delta, and is not emitted at all when the value does not change.
SetUsed(q, delta) ==
    used' = IF delta = 0 THEN used ELSE [used EXCEPT ![q.user] = q.seen + delta]

-----------------------------------------------------------------------------
(* Arrival: a route is matched and get_current_node_user loads the user. *)

Arrive(r, op, u, f, n, ps) ==
    /\ req[r].pc = "idle"
    /\ req' = [req EXCEPT ![r] =
                  [NoRequest EXCEPT !.pc = "row", !.op = op, !.user = u, !.file = f,
                                    !.name = n, !.parts = ps, !.seen = used[u]]]
    /\ UNCHANGED <<db, minio, torn>>

\* uuid4 is fresh: no row and no other initiate in flight has the id.
InitiateUpload(r, u, f, n) ==
    /\ Owner[f] = u
    /\ status[f] = "none"
    /\ mpu[f] = "none"
    /\ \A s \in Requests : req[s].file # f
    /\ Arrive(r, "initiate", u, f, n, {})

Known(f) == status[f] # "none"   \* the client learned the id from initiate's answer

UploadSingle(r, u, f)       == Known(f) /\ Arrive(r, "upload", u, f, NoName, {})
UploadPart(r, u, f, p)      == Known(f) /\ Arrive(r, "part", u, f, NoName, {p})
CompleteUpload(r, u, f, ps) == Known(f) /\ Arrive(r, "complete", u, f, NoName, ps)
AbortUpload(r, u, f)        == Known(f) /\ Arrive(r, "abort", u, f, NoName, {})
DeleteFile(r, u, f)         == Known(f) /\ Arrive(r, "delete", u, f, NoName, {})
RenameFile(r, u, f, n)      == Known(f) /\ Arrive(r, "rename", u, f, n, {})

-----------------------------------------------------------------------------
(* The row step: reads and early returns before the first call to MinIO. *)

InitiateUploadRow(r) ==
    LET q == req[r] IN
    /\ At(r, "initiate", "row")
    /\ IF \/ Size[q.file] > MaxFileSize
          \/ NameTaken(q.user, q.name, {})
          \/ q.seen + Size[q.file] > Quota
       THEN Answer(r, "error")
       ELSE Goto(r, IF Multipart(q.file) THEN "create_multipart_upload" ELSE "commit")
    /\ UNCHANGED <<db, minio, torn>>

UploadSingleRow(r) ==
    LET q == req[r] IN
    /\ At(r, "upload", "row")
    /\ IF ~Found(q) \/ status[q.file] # "uploading" THEN Answer(r, "error")
       ELSE IF Size[q.file] > Quota - q.seen THEN Reject(r)
       ELSE Goto(r, "put_object")
    /\ UNCHANGED <<db, minio, torn>>

UploadPartRow(r) ==
    LET q == req[r] IN
    /\ At(r, "part", "row")
    /\ IF Found(q) /\ status[q.file] = "uploading" /\ Multipart(q.file)
       THEN Goto(r, "upload_part")
       ELSE Answer(r, "error")
    /\ UNCHANGED <<db, minio, torn>>

\* No test of the status: a completed row may be completed again.
CompleteUploadRow(r) ==
    LET q == req[r] IN
    /\ At(r, "complete", "row")
    /\ IF ~Found(q) THEN Answer(r, "error")
       ELSE req' = [req EXCEPT ![r] =
                       [@ EXCEPT !.was = status[q.file],
                                 !.pc  = IF Multipart(q.file)
                                         THEN "complete_multipart_upload"
                                         ELSE "object_exists"]]
    /\ UNCHANGED <<db, minio, torn>>

AbortUploadRow(r) ==
    LET q == req[r] IN
    /\ At(r, "abort", "row")
    /\ IF ~Found(q) THEN Answer(r, "error")
       ELSE Goto(r, IF Multipart(q.file) THEN "abort_multipart_upload" ELSE "commit")
    /\ UNCHANGED <<db, minio, torn>>

DeleteFileRow(r) ==
    /\ At(r, "delete", "row")
    /\ IF Found(req[r]) THEN Goto(r, "delete_object") ELSE Answer(r, "error")
    /\ UNCHANGED <<db, minio, torn>>

RenameFileRow(r) ==
    LET q == req[r] IN
    /\ At(r, "rename", "row")
    /\ IF Found(q) /\ status[q.file] = "active" /\ ~NameTaken(q.user, q.name, {q.file})
       THEN Goto(r, "commit")
       ELSE Answer(r, "error")
    /\ UNCHANGED <<db, minio, torn>>

-----------------------------------------------------------------------------
(* Calls to MinIO.  A call MinIO refuses (NoSuchUpload, InvalidPart)       *)
(* becomes a RuntimeError and answers 500 with nothing committed.          *)

CreateMultipart(r) ==
    LET f == req[r].file IN
    /\ req[r].pc = "create_multipart_upload"
    /\ mpu' = [mpu EXCEPT ![f] = "open"]
    /\ Goto(r, "commit")
    /\ UNCHANGED <<db, object, parts, torn>>

PutObject(r) ==
    LET f == req[r].file IN
    /\ req[r].pc = "put_object"
    /\ object' = object \cup {f}
    /\ Goto(r, "commit")
    /\ UNCHANGED <<db, mpu, parts, torn>>

\* The handler answers without touching the database.
PutPart(r) ==
    LET q == req[r] IN
    /\ q.pc = "upload_part"
    /\ IF mpu[q.file] = "open"
       THEN /\ parts' = [parts EXCEPT ![q.file] = @ \cup q.parts]
            /\ Answer(r, "ok")
       ELSE /\ Answer(r, "error")
            /\ UNCHANGED parts
    /\ UNCHANGED <<db, object, mpu, torn>>

AfterAssemblyUnchecked(r) == Goto(r, "commit")   \* mutant of AfterAssembly

\* After MinIO's answer, in the same step, complete_upload compares the quota
\* with the storage_used it loaded at arrival.
AfterAssembly(r) ==
    LET q == req[r] IN
    IF q.seen + Size[q.file] > Quota THEN Reject(r) ELSE Goto(r, "commit")

AssembleParts(r) ==
    LET q == req[r] IN
    /\ q.pc = "complete_multipart_upload"
    /\ IF mpu[q.file] = "open" /\ q.parts # {} /\ q.parts \subseteq parts[q.file]
       THEN /\ object' = object \cup {q.file}
            /\ mpu' = [mpu EXCEPT ![q.file] = "closed"]
            /\ parts' = [parts EXCEPT ![q.file] = {}]
            /\ AfterAssembly(r)
       ELSE /\ Answer(r, "error")
            /\ UNCHANGED minio
    /\ UNCHANGED <<db, torn>>

HeadObjectIgnored(r) ==   \* mutant of HeadObject
    /\ req[r].pc = "object_exists"
    /\ AfterAssembly(r)
    /\ UNCHANGED <<db, minio, torn>>

HeadObject(r) ==
    /\ req[r].pc = "object_exists"
    /\ IF req[r].file \in object THEN AfterAssembly(r) ELSE Answer(r, "error")
    /\ UNCHANGED <<db, minio, torn>>

DeleteObject(r) ==
    /\ req[r].pc = "delete_object"
    /\ object' = object \ {req[r].file}
    /\ Goto(r, "commit")
    /\ UNCHANGED <<db, mpu, parts, torn>>

AbortMultipart(r) ==
    LET f == req[r].file IN
    /\ req[r].pc = "abort_multipart_upload"
    /\ IF mpu[f] = "open"
       THEN /\ mpu' = [mpu EXCEPT ![f] = "closed"]
            /\ parts' = [parts EXCEPT ![f] = {}]
            /\ Goto(r, "commit")
       ELSE /\ Answer(r, "error")
            /\ UNCHANGED <<mpu, parts>>
    /\ UNCHANGED <<db, object, torn>>

-----------------------------------------------------------------------------
(* Commits.  An UPDATE of a row that is gone raises StaleDataError: the    *)
(* transaction is rolled back and the answer is 500.  A DELETE of a row    *)
(* that is gone only warns, and the rest of the transaction is committed.  *)

CommitInitiatePending(r) ==   \* mutant of CommitInitiate: the column default
    LET q == req[r] IN
    /\ At(r, "initiate", "commit")
    /\ status' = [status EXCEPT ![q.file] = "pending"]
    /\ name' = [name EXCEPT ![q.file] = q.name]
    /\ Answer(r, "ok")
    /\ UNCHANGED <<used, minio, torn>>

CommitInitiate(r) ==
    LET q == req[r] IN
    /\ At(r, "initiate", "commit")
    /\ status' = [status EXCEPT ![q.file] = "uploading"]
    /\ name' = [name EXCEPT ![q.file] = q.name]
    /\ Answer(r, "ok")
    /\ UNCHANGED <<used, minio, torn>>

CommitUploadUpsert(r) ==   \* mutant of CommitUpload
    LET q == req[r] IN
    /\ At(r, "upload", "commit") /\ q.fate = "serve"
    /\ status' = [status EXCEPT ![q.file] = "active"]
    /\ Answer(r, "ok")
    /\ UNCHANGED <<name, used, minio, torn>>

CommitUpload(r) ==
    LET q == req[r] IN
    /\ At(r, "upload", "commit") /\ q.fate = "serve"
    /\ IF RowExists(q.file)
       THEN status' = [status EXCEPT ![q.file] = "active"] /\ Answer(r, "ok")
       ELSE Answer(r, "error") /\ UNCHANGED status
    /\ UNCHANGED <<name, used, minio, torn>>

\* A row that was already active when it was read is not part of the UPDATE, so
\* its disappearance goes unnoticed and the bytes are charged all the same.
CommitComplete(r) ==
    LET q == req[r] IN
    /\ At(r, "complete", "commit") /\ q.fate = "serve"
    /\ IF q.was = "active" \/ RowExists(q.file)
       THEN /\ status' = IF q.was = "active" THEN status
                         ELSE [status EXCEPT ![q.file] = "active"]
            /\ SetUsed(q, Size[q.file])
            /\ Answer(r, "ok")
       ELSE /\ Answer(r, "error")
            /\ UNCHANGED <<status, used>>
    /\ UNCHANGED <<name, minio, torn>>

\* upload_single and complete_upload over quota: the object is deleted already.
CommitReject(r) ==
    LET q == req[r] IN
    /\ q.pc = "commit" /\ q.fate = "reject"
    /\ status' = [status EXCEPT ![q.file] = "gone"]
    /\ Answer(r, "error")
    /\ UNCHANGED <<name, used, minio, torn>>

CommitAbort(r) ==
    LET q == req[r] IN
    /\ At(r, "abort", "commit")
    /\ status' = [status EXCEPT ![q.file] = "gone"]
    /\ Answer(r, "ok")
    /\ UNCHANGED <<name, used, minio, torn>>

CommitDelete(r) ==
    LET q == req[r] IN
    /\ At(r, "delete", "commit")
    /\ status' = [status EXCEPT ![q.file] = "gone"]
    /\ SetUsed(q, -Size[q.file])
    /\ Answer(r, "ok")
    /\ UNCHANGED <<name, minio, torn>>

CommitRename(r) ==
    LET q == req[r] IN
    /\ At(r, "rename", "commit")
    /\ IF RowExists(q.file)
       THEN name' = [name EXCEPT ![q.file] = q.name] /\ Answer(r, "ok")
       ELSE Answer(r, "error") /\ UNCHANGED name
    /\ UNCHANGED <<status, used, minio, torn>>

-----------------------------------------------------------------------------
(* Faults *)

Tear(S) == torn' = torn \cup {req[r].file : r \in {s \in S : Erasing(req[s])}}

\* MinIO or SQLite (locked for longer than busy_timeout) refuses a step: the
\* session is closed without a commit and the answer is 500.
StepRefused(r) ==
    /\ "refused" \in Faults
    /\ req[r].pc # "idle"
    /\ Tear({r})
    /\ Answer(r, "error")
    /\ UNCHANGED <<db, minio>>

\* A writing call takes effect in MinIO and its answer is lost.
S3AnswerLost(r) ==
    LET f == req[r].file IN
    /\ "lost" \in Faults
    /\ \/ /\ req[r].pc = "put_object"
          /\ object' = object \cup {f}
          /\ UNCHANGED <<mpu, parts, torn>>
       \/ /\ req[r].pc = "create_multipart_upload"
          /\ mpu' = [mpu EXCEPT ![f] = "open"]
          /\ UNCHANGED <<object, parts, torn>>
       \/ /\ req[r].pc = "delete_object"
          /\ object' = object \ {f}
          /\ torn' = torn \cup {f}
          /\ UNCHANGED <<mpu, parts>>
       \/ /\ req[r].pc = "complete_multipart_upload"
          /\ mpu[f] = "open" /\ req[r].parts # {} /\ req[r].parts \subseteq parts[f]
          /\ object' = object \cup {f}
          /\ mpu' = [mpu EXCEPT ![f] = "closed"]
          /\ parts' = [parts EXCEPT ![f] = {}]
          /\ UNCHANGED torn
       \/ /\ req[r].pc = "upload_part" /\ mpu[f] = "open"
          /\ parts' = [parts EXCEPT ![f] = @ \cup req[r].parts]
          /\ UNCHANGED <<object, mpu, torn>>
       \/ /\ req[r].pc = "abort_multipart_upload" /\ mpu[f] = "open"
          /\ mpu' = [mpu EXCEPT ![f] = "closed"]
          /\ parts' = [parts EXCEPT ![f] = {}]
          /\ UNCHANGED <<object, torn>>
    /\ Answer(r, "error")
    /\ UNCHANGED db

\* The node process dies: SQLite and MinIO keep what was committed.
Crash ==
    /\ "crash" \in Faults
    /\ \E r \in Requests : req[r].pc # "idle"
    /\ Tear(Requests)
    /\ req' = [r \in Requests |-> IF req[r].pc = "idle" THEN req[r]
                                  ELSE [NoRequest EXCEPT !.reply = "error"]]
    /\ UNCHANGED <<db, minio>>

-----------------------------------------------------------------------------
(* Specification *)

\* Any client of the API: any request on any id it has been told of.
Arrivals(r) ==
    \E u \in Users, f \in Files :
        \/ \E n \in Names : InitiateUpload(r, u, f, n) \/ RenameFile(r, u, f, n)
        \/ \E p \in Parts : UploadPart(r, u, f, p)
        \/ \E ps \in SUBSET Parts : CompleteUpload(r, u, f, ps)
        \/ UploadSingle(r, u, f)
        \/ AbortUpload(r, u, f)
        \/ DeleteFile(r, u, f)

\* What the server does next for request r.
Serve(r) ==
    \/ InitiateUploadRow(r) \/ UploadSingleRow(r) \/ UploadPartRow(r)
    \/ CompleteUploadRow(r) \/ AbortUploadRow(r) \/ DeleteFileRow(r) \/ RenameFileRow(r)
    \/ CreateMultipart(r) \/ PutObject(r) \/ PutPart(r) \/ AssembleParts(r)
    \/ HeadObject(r) \/ DeleteObject(r) \/ AbortMultipart(r)
    \/ CommitInitiate(r) \/ CommitUpload(r) \/ CommitComplete(r) \/ CommitReject(r)
    \/ CommitAbort(r) \/ CommitDelete(r) \/ CommitRename(r)

Fail(r) == StepRefused(r) \/ S3AnswerLost(r)

Next ==
    \/ \E r \in Requests : Arrivals(r) \/ Serve(r) \/ Fail(r)
    \/ Crash

Spec == Init /\ [][Next]_vars

-----------------------------------------------------------------------------
(* Properties *)

Backed(f) == \/ f \in object
             \/ f \in torn
             \/ \E r \in Requests : req[r].file = f /\ Erasing(req[r])

\* A row that downloads and listings accept (status "active") has its object in
\* the bucket, unless a handler that deleted the object still owes the deletion of
\* the row, or died owing it: no order of upload, complete, abort and delete
\* requests publishes a file whose bytes were never stored or were taken away.
ActiveBacked == \A f \in Files : status[f] = "active" => Backed(f)

\* Whatever stale storage_used the concurrent requests of a user carry, the value
\* they commit never exceeds the quota: complete_upload tests the very sum it
\* writes, and every other write is a decrement of a value that passed the test.
UsedWithinQuota == \A u \in Users : used[u] <= Quota

\* A deleted file never comes back and an active one never reopens, although an
\* upload, a completion or a rename that read the row before may commit after the
\* delete, and a late initiate may hold the same id.
NoResurrectionStep ==
    \A f \in Files : /\ status[f] = "gone" => status'[f] = "gone"
                     /\ status[f] = "active" => status'[f] \in {"active", "gone"}
NoResurrection == [][NoResurrectionStep]_vars

\* A row or an object changes only by a step of a request of the row's owner on
\* that very file: no handler reaches a file of another user, and no handler
\* carries an effect over to another file.
OwnFilesOnlyStep ==
    \A f \in Files :
        (status'[f] # status[f] \/ name'[f] # name[f] \/ (f \in object) # (f \in object'))
        => \E r \in Requests : /\ req[r].file = f /\ req[r].user = Owner[f]
                               /\ req'[r] # req[r]
OwnFilesOnly == [][OwnFilesOnlyStep]_vars

-----------------------------------------------------------------------------
(* The inductive invariant behind these properties *)

\* The program counters a handler goes through after its row step.
Path(op) ==
    CASE op = "initiate" -> {"create_multipart_upload", "commit"}
      [] op = "upload"   -> {"put_object", "delete_object", "commit"}
      [] op = "part"     -> {"upload_part"}
      [] op = "complete" -> {"complete_multipart_upload", "object_exists",
                             "delete_object", "commit"}
      [] op = "abort"    -> {"abort_multipart_upload", "commit"}
      [] op = "delete"   -> {"delete_object", "commit"}
      [] OTHER           -> {"commit"}

\* What a request knows about itself.
Shape(q) ==
    /\ q.pc # "idle" => /\ q.op \in Ops /\ q.user \in Users /\ q.file \in Files
                        /\ q.pc \in Path(q.op) \cup {"row"}
                        /\ q.seen <= Quota
    /\ (q.pc \notin {"idle", "row"} \/ q.op = "initiate") => q.user = Owner[q.file]
    /\ q.pc = "delete_object" => q.op = "delete" \/ q.fate = "reject"
    /\ q.fate = "reject" => q.op \in {"upload", "complete"} /\ q.pc \in {"delete_object", "commit"}
    /\ (q.op = "complete" /\ q.pc = "commit" /\ q.fate = "serve") =>
           q.seen + Size[q.file] <= Quota

Shapes == \A r \in Requests : Shape(req[r])

\* The id of an initiate in flight has no row and is known to nobody else.
FreshIds ==
    \A r \in Requests : req[r].pc # "idle" =>
        /\ req[r].op = "initiate" <=> status[req[r].file] = "none"
        /\ req[r].op = "initiate" =>
               \A s \in Requests \ {r} : req[s].pc # "idle" => req[s].file # req[r].file

\* A request about to mark its file active has seen the object in the bucket.
Publishing(q) == q.op \in {"upload", "complete"} /\ q.pc = "commit" /\ q.fate = "serve"
PublishesBacked ==
    \A r \in Requests : Publishing(req[r]) =>
        Backed(req[r].file) \/ status[req[r].file] = "gone"

IndInv == TypeOK /\ Shapes /\ UsedWithinQuota /\ FreshIds /\ PublishesBacked /\ ActiveBacked

-----------------------------------------------------------------------------
(* What the README says of the file API, for runs that show where the code *)
(* does something else.                                                    *)

Quiet == \A r \in Requests : req[r].pc = "idle"

Bytes(S) == MapThenSumSet(LAMBDA f : Size[f], S)

ActiveFiles(u) == {f \in Files : Owner[f] = u /\ status[f] = "active"}

\* README "Resilient File Upload Workflow", single upload mode: the upload sets
\* "Update File Status = active" and "Increment storage_used in SQLite" together,
\* so between requests every active file is charged.
ActiveIsCharged == Quiet => \A u \in Users : used[u] >= Bytes(ActiveFiles(u))

\* README, same workflow: completing a multipart upload ends with "Increment
\* storage_used in SQLite", so as long as nothing was deleted the usage covers
\* every file that complete_upload assembled.
AssembledIsCharged ==
    (Quiet /\ \A f \in Files : status[f] # "gone") =>
        \A u \in Users : used[u] >= Bytes({f \in ActiveFiles(u) : mpu[f] = "closed"})

\* README on DELETE /files/{file_id}: "recalculates used quota"; the usage of a
\* user is a number of bytes, never negative.
UsedNonNegative == \A u \in Users : used[u] >= 0

\* README on abort: "Cancels multipart upload and deletes temporary object
\* fragments"; after an abort nothing of the upload is left in the bucket.
NoObjectWithoutRow == Quiet => \A f \in object : status[f] # "gone"

\* README "(Check Quota, Max File Size, Filename)" at initiate, and "checks for
\* duplicate names in the folder" at rename: two active files of one owner in one
\* folder never share a name.
UniqueActiveNames ==
    \A f, g \in Files :
        (f # g /\ Owner[f] = Owner[g] /\ status[f] = "active" /\ status[g] = "active")
        => name[f] # name[g]
=============================================================================
