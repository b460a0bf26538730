--------------------------- MODULE FileStoreProofs ---------------------------
(***************************************************************************)
(* Proofs about FileStore, for every set of users, files, names, parts and  *)
(* requests, every size and quota, and every kind of fault.                *)
(***************************************************************************)
EXTENDS FileStore, TLAPS

\* The answers and moves of a request keep req well typed and leave every other
\* request alone (the four ways a handler updates its own state).
LEMMA NoRequestType == \A p \in Replies : [NoRequest EXCEPT !.reply = p] \in Request
BY DEF NoRequest, Request, PCs, S3Calls, Ops, Statuses, Replies

\* Goto changes the program counter of one request only.
LEMMA GotoEffect ==
    ASSUME req \in [Requests -> Request], NEW r \in Requests, NEW pc \in PCs, Goto(r, pc)
    PROVE  /\ req' \in [Requests -> Request]
           /\ req'[r] = [req[r] EXCEPT !.pc = pc]
           /\ \A s \in Requests \ {r} : req'[s] = req[s]
BY DEF Goto, Request

\* Reject sends one request to delete_object and marks it.
LEMMA RejectEffect ==
    ASSUME req \in [Requests -> Request], NEW r \in Requests, Reject(r)
    PROVE  /\ req' \in [Requests -> Request]
           /\ req'[r] = [req[r] EXCEPT !.pc = "delete_object", !.fate = "reject"]
           /\ \A s \in Requests \ {r} : req'[s] = req[s]
<1> DEFINE q == [req[r] EXCEPT !.pc = "delete_object", !.fate = "reject"]
<1>1. q \in Request
  BY ZenonT(30) DEF Request, PCs, S3Calls
<1>2. req' = [req EXCEPT ![r] = q]
  BY DEF Reject
<1> QED
  BY <1>1, <1>2

\* Answer makes one request idle.
LEMMA AnswerEffect ==
    ASSUME req \in [Requests -> Request], NEW r \in Requests, NEW p \in Replies, Answer(r, p)
    PROVE  /\ req' \in [Requests -> Request]
           /\ req'[r] = [NoRequest EXCEPT !.reply = p]
           /\ \A s \in Requests \ {r} : req'[s] = req[s]
BY NoRequestType DEF Answer

\* An arrival fills one idle request.
LEMMA ArriveEffect ==
    ASSUME TypeOK, NEW r \in Requests, NEW op \in Ops, NEW u \in Users, NEW f \in Files,
           NEW n \in Names \cup {NoName}, NEW ps \in SUBSET Parts, Arrive(r, op, u, f, n, ps)
    PROVE  /\ req' \in [Requests -> Request]
           /\ req'[r] = [NoRequest EXCEPT !.pc = "row", !.op = op, !.user = u, !.file = f,
                                          !.name = n, !.parts = ps, !.seen = used[u]]
           /\ \A s \in Requests \ {r} : req'[s] = req[s]
BY ZenonT(30) DEF Arrive, TypeOK, NoRequest, Request, PCs, S3Calls, Ops, Statuses, Replies
-----------------------------------------------------------------------------
(* Type correctness, the shape of requests, and the quota                  *)

Inv1 == TypeOK /\ Shapes /\ UsedWithinQuota

\* The initial states are well-typed, nothing is charged and no request is on a
\* path.
THEOREM Init1 == Init => Inv1
<1> SUFFICES ASSUME Init PROVE Inv1
  OBVIOUS
<1>1. NoRequest \in Request
  BY DEF NoRequest, Request, PCs, S3Calls, Ops, Statuses, Replies
<1>2. TypeOK
  BY <1>1 DEF Init, TypeOK, Statuses
<1>3. Shapes
  BY DEF Init, Shapes, Shape, NoRequest
<1>4. UsedWithinQuota
  BY LimitsAssumption DEF Init, UsedWithinQuota
<1> QED
  BY <1>2, <1>3, <1>4 DEF Inv1

\* A step of one request that leaves it in a good shape keeps every shape.
LEMMA ShapesOfOne ==
    ASSUME Shapes, NEW r \in Requests, Shape(req'[r]),
           \A s \in Requests \ {r} : req'[s] = req[s]
    PROVE  Shapes'
BY DEF Shapes, Shape

\* An idle request is in a good shape.
LEMMA AnswerShape == \A p \in Replies : Shape([NoRequest EXCEPT !.reply = p])
BY DEF Shape, NoRequest

\* A request that is answered is typed and shaped again.
LEMMA AnswerStep ==
    ASSUME Inv1, NEW r \in Requests, NEW p \in Replies, Answer(r, p)
    PROVE  req' \in [Requests -> Request] /\ Shapes'
BY AnswerEffect, AnswerShape, ShapesOfOne DEF Inv1, TypeOK

\* A request that goes on to another call of its path stays typed and shaped.
LEMMA GotoStep ==
    ASSUME Inv1, NEW r \in Requests, NEW pc \in PCs \ {"idle", "row"}, Goto(r, pc),
           req[r].pc # "idle",
           pc \in Path(req[r].op), req[r].user = Owner[req[r].file],
           pc = "delete_object" => req[r].op = "delete" \/ req[r].fate = "reject",
           req[r].fate = "reject" => pc \in {"delete_object", "commit"},
           (req[r].op = "complete" /\ pc = "commit" /\ req[r].fate = "serve") =>
               req[r].seen + Size[req[r].file] <= Quota
    PROVE  req' \in [Requests -> Request] /\ Shapes'
<1>1. /\ req' \in [Requests -> Request]
      /\ req'[r] = [req[r] EXCEPT !.pc = pc]
      /\ \A s \in Requests \ {r} : req'[s] = req[s]
  BY GotoEffect DEF Inv1, TypeOK
<1>2. req[r] \in Request /\ Shape(req[r])
  BY DEF Inv1, TypeOK, Shapes
<1>3. Shape(req'[r])
  BY <1>1, <1>2 DEF Shape, Request
<1> QED
  BY <1>1, <1>3, ShapesOfOne DEF Inv1

\* A request that is rejected over quota stays typed and shaped.
LEMMA RejectStep ==
    ASSUME Inv1, NEW r \in Requests, Reject(r), req[r].pc # "idle",
           req[r].op \in {"upload", "complete"}, req[r].user = Owner[req[r].file]
    PROVE  req' \in [Requests -> Request] /\ Shapes'
<1>1. /\ req' \in [Requests -> Request]
      /\ req'[r] = [req[r] EXCEPT !.pc = "delete_object", !.fate = "reject"]
      /\ \A s \in Requests \ {r} : req'[s] = req[s]
  BY RejectEffect DEF Inv1, TypeOK
<1>2. req[r] \in Request /\ Shape(req[r])
  BY DEF Inv1, TypeOK, Shapes
<1>3. Shape(req'[r])
  BY <1>1, <1>2 DEF Shape, Request, Path
<1> QED
  BY <1>1, <1>3, ShapesOfOne DEF Inv1
\* What the request of an enabled handler step looks like.
LEMMA AtWork ==
    ASSUME Inv1, NEW r \in Requests, req[r].pc # "idle"
    PROVE  /\ req[r] \in Request /\ Shape(req[r])
           /\ req[r].file \in Files /\ req[r].user \in Users
           /\ req[r].op \in Ops /\ req[r].pc \in Path(req[r].op) \cup {"row"}
           /\ req[r].seen \in Int /\ req[r].seen <= Quota
           /\ req[r].pc # "row" => req[r].user = Owner[req[r].file]
           /\ req[r].fate \in {"serve", "reject"}
           /\ req[r].name \in Names \cup {NoName}
           /\ req[r].parts \subseteq Parts
           /\ status[req[r].file] \in Statuses
           /\ Size[req[r].file] \in Nat
<1>1. req[r] \in Request /\ Shape(req[r])
  BY DEF Inv1, TypeOK, Shapes
<1> QED
  BY <1>1, FilesAssumption DEF Inv1, TypeOK, Shape, Request

\* A request that arrives is typed and shaped: what it saw of the usage is within
\* the quota.
LEMMA ArriveStep ==
    ASSUME Inv1, NEW r \in Requests, NEW op \in Ops, NEW u \in Users, NEW f \in Files,
           NEW n \in Names \cup {NoName}, NEW ps \in SUBSET Parts,
           Arrive(r, op, u, f, n, ps), op = "initiate" => Owner[f] = u
    PROVE  Inv1'
<1>2. /\ req' \in [Requests -> Request]
      /\ req'[r] = [NoRequest EXCEPT !.pc = "row", !.op = op, !.user = u, !.file = f,
                                     !.name = n, !.parts = ps, !.seen = used[u]]
      /\ \A s \in Requests \ {r} : req'[s] = req[s]
  BY ArriveEffect DEF Inv1
<1>3. used[u] <= Quota
  BY DEF Inv1, UsedWithinQuota
<1>4. Shape(req'[r])
  BY <1>2, <1>3 DEF Shape, NoRequest
<1>5. Shapes'
  BY <1>2, <1>4, ShapesOfOne DEF Inv1
<1> QED
  BY <1>2, <1>5 DEF Inv1, TypeOK, UsedWithinQuota, Arrive, db, minio

\* Every arrival is an Arrive of one of the seven operations.
LEMMA ArrivalCases ==
    ASSUME NEW r \in Requests, Arrivals(r)
    PROVE  \E op \in Ops, u \in Users, f \in Files, n \in Names \cup {NoName},
              ps \in SUBSET Parts :
               /\ Arrive(r, op, u, f, n, ps)
               /\ op = "initiate" =>
                      Owner[f] = u /\ status[f] = "none" /\ \A s \in Requests : req[s].file # f
               /\ op # "initiate" => status[f] # "none"
<1> DEFINE Goal(op, u, f, n, ps) ==
               /\ Arrive(r, op, u, f, n, ps)
               /\ op = "initiate" =>
                      Owner[f] = u /\ status[f] = "none" /\ \A s \in Requests : req[s].file # f
               /\ op # "initiate" => status[f] # "none"
<1>1. PICK u \in Users, f \in Files :
        \/ \E n \in Names : InitiateUpload(r, u, f, n) \/ RenameFile(r, u, f, n)
        \/ \E p \in Parts : UploadPart(r, u, f, p)
        \/ \E ps \in SUBSET Parts : CompleteUpload(r, u, f, ps)
        \/ UploadSingle(r, u, f)
        \/ AbortUpload(r, u, f)
        \/ DeleteFile(r, u, f)
  BY DEF Arrivals
<1>2. /\ {} \in SUBSET Parts /\ NoName \in Names \cup {NoName}
      /\ \A p \in Parts : {p} \in SUBSET Parts
      /\ Names \subseteq Names \cup {NoName}
  OBVIOUS
<1>3. \/ \E n \in Names : Goal("initiate", u, f, n, {}) \/ Goal("rename", u, f, n, {})
      \/ \E p \in Parts : Goal("part", u, f, NoName, {p})
      \/ \E ps \in SUBSET Parts : Goal("complete", u, f, NoName, ps)
      \/ Goal("upload", u, f, NoName, {})
      \/ Goal("abort", u, f, NoName, {})
      \/ Goal("delete", u, f, NoName, {})
  BY <1>1 DEF InitiateUpload, UploadSingle, UploadPart, CompleteUpload, AbortUpload,
              DeleteFile, RenameFile, Known
<1>4. /\ "initiate" \in Ops /\ "rename" \in Ops /\ "part" \in Ops /\ "complete" \in Ops
      /\ "upload" \in Ops /\ "abort" \in Ops /\ "delete" \in Ops
  BY DEF Ops
<1> HIDE DEF Goal
<1>5. \E op \in Ops, n \in Names \cup {NoName}, ps \in SUBSET Parts : Goal(op, u, f, n, ps)
  BY <1>2, <1>3, <1>4
<1> QED
  BY <1>5 DEF Goal

\* Every arrival keeps types, shapes and the quota.
LEMMA ArrivalStep ==
    ASSUME Inv1, NEW r \in Requests, Arrivals(r)
    PROVE  Inv1'
<1>1. PICK op \in Ops, u \in Users, f \in Files, n \in Names \cup {NoName},
           ps \in SUBSET Parts :
               Arrive(r, op, u, f, n, ps) /\ (op = "initiate" => Owner[f] = u)
  BY ArrivalCases
<1> QED
  BY <1>1, ArriveStep

\* Every row step, with its early returns, keeps types, shapes and the quota.
LEMMA RowStep ==
    ASSUME Inv1, NEW r \in Requests,
           \/ InitiateUploadRow(r) \/ UploadSingleRow(r) \/ UploadPartRow(r)
           \/ CompleteUploadRow(r) \/ AbortUploadRow(r) \/ DeleteFileRow(r)
           \/ RenameFileRow(r)
    PROVE  Inv1'
<1> DEFINE q == req[r]
<1>0. req[r].pc = "row"
  BY DEF InitiateUploadRow, UploadSingleRow, UploadPartRow, CompleteUploadRow,
         AbortUploadRow, DeleteFileRow, RenameFileRow, At
<1>1. /\ q \in Request /\ Shape(q) /\ q.file \in Files /\ q.user \in Users
      /\ q.seen \in Int /\ q.seen <= Quota /\ q.fate = "serve"
      /\ status[q.file] \in Statuses /\ Size[q.file] \in Nat
      /\ q.op = "initiate" => q.user = Owner[q.file]
  BY <1>0, AtWork DEF Shape
<1>2. ASSUME InitiateUploadRow(r) PROVE req' \in [Requests -> Request] /\ Shapes'
  <2>1. CASE Answer(r, "error")
    BY <2>1, AnswerStep DEF Replies
  <2>2. CASE Goto(r, "create_multipart_upload")
    BY <1>0, <1>1, <1>2, <2>2, GotoStep DEF InitiateUploadRow, At, Path, PCs, S3Calls
  <2>3. CASE Goto(r, "commit")
    BY <1>0, <1>1, <1>2, <2>3, GotoStep DEF InitiateUploadRow, At, Path, PCs, S3Calls
  <2> QED
    BY <1>2, <2>1, <2>2, <2>3 DEF InitiateUploadRow
<1>3. ASSUME UploadSingleRow(r) PROVE req' \in [Requests -> Request] /\ Shapes'
  <2>1. CASE Answer(r, "error")
    BY <2>1, AnswerStep DEF Replies
  <2>2. CASE Reject(r) /\ Found(q)
    BY <1>0, <1>3, <2>2, RejectStep DEF UploadSingleRow, At, Found
  <2>3. CASE Goto(r, "put_object") /\ Found(q)
    BY <1>0, <1>1, <1>3, <2>3, GotoStep DEF UploadSingleRow, At, Found, Path, PCs, S3Calls
  <2> QED
    BY <1>3, <2>1, <2>2, <2>3 DEF UploadSingleRow
<1>4. ASSUME UploadPartRow(r) PROVE req' \in [Requests -> Request] /\ Shapes'
  <2>1. CASE Answer(r, "error")
    BY <2>1, AnswerStep DEF Replies
  <2>2. CASE Goto(r, "upload_part") /\ Found(q)
    BY <1>0, <1>1, <1>4, <2>2, GotoStep DEF UploadPartRow, At, Found, Path, PCs, S3Calls
  <2> QED
    BY <1>4, <2>1, <2>2 DEF UploadPartRow
<1>5. ASSUME CompleteUploadRow(r) PROVE req' \in [Requests -> Request] /\ Shapes'
  <2>1. CASE Answer(r, "error")
    BY <2>1, AnswerStep DEF Replies
  <2>2. CASE ~Answer(r, "error")
    <3> DEFINE pc == IF Multipart(q.file) THEN "complete_multipart_upload"
                     ELSE "object_exists"
               nq == [q EXCEPT !.was = status[q.file], !.pc = pc]
    <3>1. req' = [req EXCEPT ![r] = nq] /\ q.op = "complete" /\ Found(q)
      BY <1>5, <2>2 DEF CompleteUploadRow, At
    <3>2. nq \in Request
      BY <1>1 DEF Request, PCs, S3Calls
    <3>3. /\ req' \in [Requests -> Request] /\ req'[r] = nq
          /\ \A s \in Requests \ {r} : req'[s] = req[s]
      BY <3>1, <3>2 DEF Inv1, TypeOK
    <3>4. Shape(nq)
      BY <1>0, <1>1, <3>1 DEF Shape, Request, Path, Found
    <3> QED
      BY <3>3, <3>4, ShapesOfOne DEF Inv1
  <2> QED
    BY <2>1, <2>2
<1>6. ASSUME AbortUploadRow(r) PROVE req' \in [Requests -> Request] /\ Shapes'
  <2>1. CASE Answer(r, "error")
    BY <2>1, AnswerStep DEF Replies
  <2>2. CASE Goto(r, "abort_multipart_upload") /\ Found(q)
    BY <1>0, <1>1, <1>6, <2>2, GotoStep DEF AbortUploadRow, At, Found, Path, PCs, S3Calls
  <2>3. CASE Goto(r, "commit") /\ Found(q)
    BY <1>0, <1>1, <1>6, <2>3, GotoStep DEF AbortUploadRow, At, Found, Path, PCs, S3Calls
  <2> QED
    BY <1>6, <2>1, <2>2, <2>3 DEF AbortUploadRow
<1>7. ASSUME DeleteFileRow(r) PROVE req' \in [Requests -> Request] /\ Shapes'
  <2>1. CASE Answer(r, "error")
    BY <2>1, AnswerStep DEF Replies
  <2>2. CASE Goto(r, "delete_object") /\ Found(q)
    BY <1>0, <1>1, <1>7, <2>2, GotoStep DEF DeleteFileRow, At, Found, Path, PCs, S3Calls
  <2> QED
    BY <1>7, <2>1, <2>2 DEF DeleteFileRow
<1>8. ASSUME RenameFileRow(r) PROVE req' \in [Requests -> Request] /\ Shapes'
  <2>1. CASE Answer(r, "error")
    BY <2>1, AnswerStep DEF Replies
  <2>2. CASE Goto(r, "commit") /\ Found(q)
    BY <1>0, <1>1, <1>8, <2>2, GotoStep DEF RenameFileRow, At, Found, Path, PCs, S3Calls
  <2> QED
    BY <1>8, <2>1, <2>2 DEF RenameFileRow
<1>9. req' \in [Requests -> Request] /\ Shapes'
  BY <1>2, <1>3, <1>4, <1>5, <1>6, <1>7, <1>8
<1>10. UNCHANGED <<db, minio, torn>>
  BY DEF InitiateUploadRow, UploadSingleRow, UploadPartRow, CompleteUploadRow,
         AbortUploadRow, DeleteFileRow, RenameFileRow
<1> QED
  BY <1>9, <1>10 DEF Inv1, TypeOK, UsedWithinQuota, db, minio
\* complete_upload after MinIO's answer: reject, or commit a sum within the quota.
LEMMA AssemblyStep ==
    ASSUME Inv1, NEW r \in Requests,
           req[r].pc \in {"complete_multipart_upload", "object_exists"}, AfterAssembly(r)
    PROVE  req' \in [Requests -> Request] /\ Shapes'
<1> DEFINE q == req[r]
<1>1. /\ q.op = "complete" /\ q.user = Owner[q.file] /\ q.fate = "serve"
      /\ q.seen \in Int /\ Size[q.file] \in Nat
  BY AtWork DEF Path, Shape
<1>2. CASE Reject(r)
  BY <1>1, <1>2, RejectStep
<1>3. CASE Goto(r, "commit") /\ q.seen + Size[q.file] <= Quota
  BY <1>1, <1>3, GotoStep DEF Path, PCs
<1> QED
  BY <1>1, <1>2, <1>3, LimitsAssumption DEF AfterAssembly

\* Every call to MinIO keeps types, shapes and the quota.
LEMMA CallStep ==
    ASSUME Inv1, NEW r \in Requests,
           \/ CreateMultipart(r) \/ PutObject(r) \/ PutPart(r) \/ AssembleParts(r)
           \/ HeadObject(r) \/ DeleteObject(r) \/ AbortMultipart(r)
    PROVE  Inv1'
<1> DEFINE q == req[r]
<1>0. q.pc \in S3Calls
  BY DEF CreateMultipart, PutObject, PutPart, AssembleParts, HeadObject, DeleteObject,
         AbortMultipart, S3Calls
<1>1. /\ q \in Request /\ Shape(q) /\ q.file \in Files /\ q.user = Owner[q.file]
      /\ q.op \in Ops /\ q.pc \in Path(q.op) /\ q.parts \subseteq Parts
  BY <1>0, AtWork DEF S3Calls
<1>2. ASSUME CreateMultipart(r) PROVE Inv1'
  <2>1. req' \in [Requests -> Request] /\ Shapes'
    BY <1>1, <1>2, GotoStep DEF CreateMultipart, Path, PCs, Ops, Shape
  <2> QED
    BY <1>2, <2>1 DEF CreateMultipart, Inv1, TypeOK, UsedWithinQuota, db
<1>3. ASSUME PutObject(r) PROVE Inv1'
  <2>1. req' \in [Requests -> Request] /\ Shapes'
    BY <1>1, <1>3, GotoStep DEF PutObject, Path, PCs, Ops, Shape
  <2> QED
    BY <1>1, <1>3, <2>1 DEF PutObject, Inv1, TypeOK, UsedWithinQuota, db
<1>4. ASSUME PutPart(r) PROVE Inv1'
  <2>1. req' \in [Requests -> Request] /\ Shapes'
    BY <1>4, AnswerStep DEF PutPart, Replies
  <2>2. parts' \in [Files -> SUBSET Parts]
    BY <1>1, <1>4 DEF PutPart, Inv1, TypeOK
  <2> QED
    BY <1>4, <2>1, <2>2 DEF PutPart, Inv1, TypeOK, UsedWithinQuota, db
<1>5. ASSUME AssembleParts(r) PROVE Inv1'
  <2>1. req' \in [Requests -> Request] /\ Shapes'
    BY <1>5, AnswerStep, AssemblyStep DEF AssembleParts, Replies
  <2>2. object' \subseteq Files /\ mpu' \in [Files -> {"none", "open", "closed"}]
        /\ parts' \in [Files -> SUBSET Parts]
    BY <1>1, <1>5 DEF AssembleParts, Inv1, TypeOK, minio
  <2> QED
    BY <1>5, <2>1, <2>2 DEF AssembleParts, Inv1, TypeOK, UsedWithinQuota, db
<1>6. ASSUME HeadObject(r) PROVE Inv1'
  <2>1. req' \in [Requests -> Request] /\ Shapes'
    BY <1>6, AnswerStep, AssemblyStep DEF HeadObject, Replies
  <2> QED
    BY <1>6, <2>1 DEF HeadObject, Inv1, TypeOK, UsedWithinQuota, db, minio
<1>7. ASSUME DeleteObject(r) PROVE Inv1'
  <2>1. req' \in [Requests -> Request] /\ Shapes'
    BY <1>1, <1>7, GotoStep DEF DeleteObject, Path, PCs, Ops, Shape
  <2> QED
    BY <1>7, <2>1 DEF DeleteObject, Inv1, TypeOK, UsedWithinQuota, db
<1>8. ASSUME AbortMultipart(r) PROVE Inv1'
  <2>1. req' \in [Requests -> Request] /\ Shapes'
    <3>1. CASE Goto(r, "commit")
      BY <1>1, <1>8, <3>1, GotoStep DEF AbortMultipart, Path, PCs, Ops, Shape
    <3>2. CASE Answer(r, "error")
      BY <3>2, AnswerStep DEF Replies
    <3> QED
      BY <1>8, <3>1, <3>2 DEF AbortMultipart
  <2> QED
    BY <1>8, <2>1 DEF AbortMultipart, Inv1, TypeOK, UsedWithinQuota, db
<1> QED
  BY <1>2, <1>3, <1>4, <1>5, <1>6, <1>7, <1>8

\* The value a commit writes is within the quota.
LEMMA CommitStep ==
    ASSUME Inv1, NEW r \in Requests,
           \/ CommitInitiate(r) \/ CommitUpload(r) \/ CommitComplete(r) \/ CommitReject(r)
           \/ CommitAbort(r) \/ CommitDelete(r) \/ CommitRename(r)
    PROVE  Inv1'
<1> DEFINE q == req[r]
<1>0. q.pc = "commit"
  BY DEF CommitInitiate, CommitUpload, CommitComplete, CommitReject, CommitAbort,
         CommitDelete, CommitRename, At
<1>1. /\ q.file \in Files /\ q.user \in Users /\ q.seen \in Int /\ q.seen <= Quota
      /\ Size[q.file] \in Nat /\ q.name \in Names \cup {NoName} /\ Shape(q)
  BY <1>0, AtWork
<1>2. req' \in [Requests -> Request] /\ Shapes'
  BY AnswerStep DEF CommitInitiate, CommitUpload, CommitComplete, CommitReject,
     CommitAbort, CommitDelete, CommitRename, Replies
<1>3. ASSUME NEW d \in Int, q.seen + d <= Quota, SetUsed(q, d)
      PROVE  used' \in [Users -> Int] /\ UsedWithinQuota'
  BY <1>1, <1>3 DEF SetUsed, Inv1, TypeOK, UsedWithinQuota
<1>4. used' \in [Users -> Int] /\ UsedWithinQuota'
  <2>1. CASE CommitComplete(r)
    <3>1. q.seen + Size[q.file] <= Quota
      BY <1>0, <1>1, <2>1 DEF Shape, CommitComplete, At
    <3> QED
      BY <1>1, <1>3, <2>1, <3>1 DEF CommitComplete, Inv1, TypeOK, UsedWithinQuota
  <2>2. CASE CommitDelete(r)
    <3>1. -Size[q.file] \in Int /\ q.seen + (-Size[q.file]) <= Quota
      BY <1>1, LimitsAssumption
    <3> QED
      BY <1>3, <2>2, <3>1 DEF CommitDelete
  <2>3. CASE UNCHANGED used
    BY <2>3 DEF Inv1, TypeOK, UsedWithinQuota
  <2> QED
    BY <2>1, <2>2, <2>3 DEF CommitInitiate, CommitUpload, CommitReject, CommitAbort,
       CommitRename
<1>5. status' \in [Files -> Statuses] /\ name' \in [Files -> Names \cup {NoName}]
  BY <1>1 DEF CommitInitiate, CommitUpload, CommitComplete, CommitReject, CommitAbort,
     CommitDelete, CommitRename, Inv1, TypeOK, Statuses
<1> QED
  BY <1>2, <1>4, <1>5 DEF CommitInitiate, CommitUpload, CommitComplete, CommitReject,
     CommitAbort, CommitDelete, CommitRename, Inv1, TypeOK, minio

\* A refused step and a lost answer keep types, shapes and the quota.
LEMMA FailStep ==
    ASSUME Inv1, NEW r \in Requests, Fail(r)
    PROVE  Inv1'
<1>1. req[r].pc # "idle" /\ Answer(r, "error") /\ UNCHANGED db
  BY DEF Fail, StepRefused, S3AnswerLost
<1>2. req' \in [Requests -> Request] /\ Shapes'
  BY <1>1, AnswerStep DEF Replies
<1>3. req[r].file \in Files /\ req[r].parts \subseteq Parts
  BY <1>1, AtWork
<1>4. /\ object' \subseteq Files /\ mpu' \in [Files -> {"none", "open", "closed"}]
      /\ parts' \in [Files -> SUBSET Parts] /\ torn' \subseteq Files
  BY <1>3 DEF Fail, StepRefused, S3AnswerLost, Tear, Inv1, TypeOK, minio
<1> QED
  BY <1>1, <1>2, <1>4 DEF Inv1, TypeOK, UsedWithinQuota, db

\* A crash of the node keeps types, shapes and the quota.
LEMMA CrashStep ==
    ASSUME Inv1, Crash
    PROVE  Inv1'
<1>1. \A r \in Requests : req'[r] = req[r] \/ req'[r] = [NoRequest EXCEPT !.reply = "error"]
  BY DEF Crash
<1>2. req' \in [Requests -> Request]
  <2>1. [NoRequest EXCEPT !.reply = "error"] \in Request
    BY NoRequestType DEF Replies
  <2> QED
    BY <2>1 DEF Crash, Inv1, TypeOK
<1>3. Shapes'
  <2>1. Shape([NoRequest EXCEPT !.reply = "error"])
    BY AnswerShape DEF Replies
  <2>2. \A r \in Requests : Shape(req[r])
    BY DEF Inv1, Shapes
  <2>3. \A r \in Requests : Shape(req'[r])
    BY <1>1, <2>1, <2>2
  <2> QED
    BY <2>3 DEF Shapes, Shape
<1>4. torn' \subseteq Files
  <2>1. \A r \in Requests : Erasing(req[r]) => req[r].file \in Files
    BY AtWork DEF Erasing
  <2> QED
    BY <2>1 DEF Crash, Tear, Inv1, TypeOK
<1> QED
  BY <1>2, <1>3, <1>4 DEF Crash, Inv1, TypeOK, UsedWithinQuota, db, minio

\* Types, shapes and the quota are kept by every step.
THEOREM Step1 == Inv1 /\ [Next]_vars => Inv1'
<1> SUFFICES ASSUME Inv1, [Next]_vars PROVE Inv1'
  OBVIOUS
<1>1. CASE UNCHANGED vars
  BY <1>1 DEF vars, Inv1, TypeOK, Shapes, Shape, UsedWithinQuota
<1>2. CASE Crash
  BY <1>2, CrashStep
<1>3. ASSUME NEW r \in Requests, Arrivals(r) \/ Serve(r) \/ Fail(r) PROVE Inv1'
  BY <1>3, ArrivalStep, RowStep, CallStep, CommitStep, FailStep DEF Serve
<1> QED
  BY <1>1, <1>2, <1>3 DEF Next

\* The variables keep their types and every request the shape its handler gives it.
THEOREM TypeCorrect == Spec => [](TypeOK /\ Shapes)
<1>1. Inv1 => TypeOK /\ Shapes
  BY DEF Inv1
<1> QED
  BY Init1, Step1, <1>1, PTL DEF Spec

\* No user's storage_used ever exceeds the quota, whatever the requests in flight
\* and whatever fails: the property the run file_races checks, for every instance.
THEOREM QuotaRespected == Spec => []UsedWithinQuota
<1>1. Inv1 => UsedWithinQuota
  BY DEF Inv1
<1> QED
  BY Init1, Step1, <1>1, PTL DEF Spec
-----------------------------------------------------------------------------
(* Ids are fresh, and rows do not come back *)

\* A handler step moves one request, which goes on with the same operation on the
\* same file or becomes idle; it writes at most the status of that file.
Moves(r) ==
    /\ req[r].pc # "idle"
    /\ \A s \in Requests \ {r} : req'[s] = req[s]
    /\ \/ req'[r].pc = "idle" /\ req'[r].fate = "serve" /\ req'[r].op = "none"
       \/ /\ req'[r].pc \in Path(req[r].op)
          /\ req'[r].op = req[r].op /\ req'[r].file = req[r].file

\* An answer touches one request only, which becomes idle.
LEMMA AnswerMoves ==
    ASSUME Inv1, NEW r \in Requests, req[r].pc # "idle", NEW p \in Replies, Answer(r, p)
    PROVE  Moves(r) /\ req'[r].pc = "idle"
<1>1. req \in [Requests -> Request]
  BY DEF Inv1, TypeOK
<1>2. /\ req'[r] = [NoRequest EXCEPT !.reply = p]
      /\ \A s \in Requests \ {r} : req'[s] = req[s]
  BY <1>1, AnswerEffect
<1>3. req'[r].pc = "idle" /\ req'[r].fate = "serve" /\ req'[r].op = "none"
  BY <1>2 DEF NoRequest
<1> QED
  BY <1>2, <1>3 DEF Moves

\* Going on touches one request only, and of it the program counter only.
LEMMA GotoMoves ==
    ASSUME Inv1, Inv1', NEW r \in Requests, req[r].pc # "idle",
           NEW pc \in PCs \ {"idle", "row"}, Goto(r, pc)
    PROVE  Moves(r) /\ req'[r] = [req[r] EXCEPT !.pc = pc]
<1>1. /\ req'[r] = [req[r] EXCEPT !.pc = pc]
      /\ \A s \in Requests \ {r} : req'[s] = req[s]
      /\ req[r] \in Request
  BY GotoEffect DEF Inv1, TypeOK
<1>2. Shape(req'[r])
  BY DEF Inv1, Shapes, Shape
<1> QED
  BY <1>1, <1>2 DEF Moves, Request, Shape

\* A rejection touches one request only: its program counter and its fate.
LEMMA RejectMoves ==
    ASSUME Inv1, Inv1', NEW r \in Requests, req[r].pc # "idle", Reject(r)
    PROVE  /\ Moves(r)
           /\ req'[r] = [req[r] EXCEPT !.pc = "delete_object", !.fate = "reject"]
<1>1. /\ req'[r] = [req[r] EXCEPT !.pc = "delete_object", !.fate = "reject"]
      /\ \A s \in Requests \ {r} : req'[s] = req[s]
      /\ req[r] \in Request
  BY RejectEffect DEF Inv1, TypeOK
<1>2. Shape(req'[r])
  BY DEF Inv1, Shapes, Shape
<1> QED
  BY <1>1, <1>2 DEF Moves, Request, Shape

\* The row step of complete_upload touches one request only, and neither its file
\* nor its operation.
LEMMA CompleteRowMoves ==
    ASSUME Inv1, Inv1', NEW r \in Requests, CompleteUploadRow(r)
    PROVE  Moves(r)
<1>0. req[r].pc = "row" /\ req[r] \in Request
  BY DEF CompleteUploadRow, At, Inv1, TypeOK
<1>1. CASE Answer(r, "error")
  BY <1>0, <1>1, AnswerMoves DEF Replies
<1>2. CASE ~Answer(r, "error")
  <2> DEFINE pc == IF Multipart(req[r].file) THEN "complete_multipart_upload"
                   ELSE "object_exists"
  <2>1. req' = [req EXCEPT ![r] = [@ EXCEPT !.was = status[req[r].file], !.pc = pc]]
    BY <1>2 DEF CompleteUploadRow
  <2>2. /\ req'[r].pc = pc /\ req'[r].op = req[r].op /\ req'[r].file = req[r].file
        /\ \A s \in Requests \ {r} : req'[s] = req[s]
    BY <1>0, <2>1 DEF Inv1, TypeOK, Request
  <2>3. Shape(req'[r])
    BY DEF Inv1, Shapes, Shape
  <2> QED
    BY <1>0, <2>2, <2>3 DEF Moves, Shape
<1> QED
  BY <1>1, <1>2

\* Row steps and calls to MinIO.
LEMMA HandlerMoves ==
    ASSUME Inv1, Inv1', NEW r \in Requests, Serve(r) \/ Fail(r)
    PROVE  Moves(r)
<1>1. CASE Fail(r)
  BY <1>1, AnswerMoves DEF Fail, StepRefused, S3AnswerLost, Replies
<1>2. CASE Serve(r)
  <2>0. req[r].pc # "idle"
    BY <1>2 DEF Serve, InitiateUploadRow, UploadSingleRow, UploadPartRow, CompleteUploadRow,
       AbortUploadRow, DeleteFileRow, RenameFileRow, CreateMultipart, PutObject, PutPart,
       AssembleParts, HeadObject, DeleteObject, AbortMultipart, CommitInitiate,
       CommitUpload, CommitComplete, CommitReject, CommitAbort, CommitDelete,
       CommitRename, At
  <2>1. \/ CompleteUploadRow(r)
        \/ Reject(r)
        \/ Answer(r, "ok") \/ Answer(r, "error")
        \/ \E pc \in PCs \ {"idle", "row"} : Goto(r, pc)
    <3>1. \A pc \in S3Calls \cup {"commit"} : pc \in PCs \ {"idle", "row"}
      BY DEF PCs, S3Calls
    <3>2. /\ "create_multipart_upload" \in S3Calls /\ "put_object" \in S3Calls
          /\ "upload_part" \in S3Calls /\ "abort_multipart_upload" \in S3Calls
          /\ "delete_object" \in S3Calls
      BY DEF S3Calls
    <3> QED
      BY <1>2, <3>1, <3>2 DEF Serve, InitiateUploadRow, UploadSingleRow, UploadPartRow,
         AbortUploadRow, DeleteFileRow, RenameFileRow, CreateMultipart, PutObject, PutPart,
         AssembleParts, AfterAssembly, HeadObject, DeleteObject, AbortMultipart,
         CommitInitiate, CommitUpload, CommitComplete, CommitReject, CommitAbort,
         CommitDelete, CommitRename
  <2> QED
    BY <2>0, <2>1, AnswerMoves, GotoMoves, RejectMoves, CompleteRowMoves DEF Replies
<1> QED
  BY <1>1, <1>2
\* The status writes of a handler step: at most one row, the request's own, by a
\* commit that ends the request, and never back from "gone" or out of "active".
LEMMA StatusWrite ==
    ASSUME Inv1, FreshIds, NEW r \in Requests, Serve(r) \/ Fail(r)
    PROVE  \/ status' = status
           \/ \E x \in {"uploading", "active", "gone"} :
                 /\ status' = [status EXCEPT ![req[r].file] = x]
                 /\ \E p \in Replies : Answer(r, p)
                 /\ x = "uploading" => status[req[r].file] = "none"
                 /\ x = "active" => /\ Publishing(req[r])
                                    /\ status[req[r].file] \in {"uploading", "active"}
<1>1. CASE CommitInitiate(r)
  <2>1. status[req[r].file] = "none"
    BY <1>1 DEF CommitInitiate, At, FreshIds
  <2> QED
    BY <1>1, <2>1 DEF CommitInitiate, Replies
<1>2. CASE CommitUpload(r)
  BY <1>2 DEF CommitUpload, Replies, RowExists, Publishing, At
<1>3. CASE CommitComplete(r)
  <2>1. status[req[r].file] \in Statuses
    BY <1>3, AtWork DEF CommitComplete, At
  <2> QED
    BY <1>3, <2>1 DEF CommitComplete, Replies, RowExists, Publishing, At, Statuses
<1>4. CASE CommitReject(r) \/ CommitAbort(r) \/ CommitDelete(r)
  BY <1>4 DEF CommitReject, CommitAbort, CommitDelete, Replies
<1>5. CASE status' = status
  BY <1>5
<1> QED
  BY <1>1, <1>2, <1>3, <1>4, <1>5 DEF Serve, Fail, StepRefused, S3AnswerLost,
     InitiateUploadRow, UploadSingleRow, UploadPartRow, CompleteUploadRow,
     AbortUploadRow, DeleteFileRow, RenameFileRow, CreateMultipart, PutObject, PutPart,
     AssembleParts, HeadObject, DeleteObject, AbortMultipart, CommitRename, db

Inv2 == Inv1 /\ FreshIds

\* No step of a handler under way gives a fresh id to another request or a row too
\* early.
LEMMA FreshHandler ==
    ASSUME Inv2, Inv1', NEW r \in Requests, Serve(r) \/ Fail(r)
    PROVE  FreshIds'
<1>1. Moves(r)
  BY HandlerMoves DEF Inv2
<1>2. \A s \in Requests : req'[s].pc # "idle" =>
         /\ req[s].pc # "idle" /\ req'[s].op = req[s].op /\ req'[s].file = req[s].file
  BY <1>1 DEF Moves
<1>3. CASE status' = status
  BY <1>2, <1>3 DEF Inv2, FreshIds
<1>4. CASE \E x \in {"uploading", "active", "gone"} :
             /\ status' = [status EXCEPT ![req[r].file] = x]
             /\ \E p \in Replies : Answer(r, p)
  <2>1. PICK x \in {"uploading", "active", "gone"} :
             /\ status' = [status EXCEPT ![req[r].file] = x]
             /\ \E p \in Replies : Answer(r, p)
    BY <1>4
  <2>2. req'[r].pc = "idle" /\ req[r].pc # "idle"
    BY <1>1, <2>1, AnswerMoves DEF Inv2, Moves
  <2>3. SUFFICES ASSUME NEW s \in Requests, req'[s].pc # "idle"
                 PROVE  /\ req'[s].op = "initiate" <=> status'[req'[s].file] = "none"
                        /\ req'[s].op = "initiate" =>
                             \A t \in Requests \ {s} :
                                 req'[t].pc # "idle" => req'[t].file # req'[s].file
    BY DEF FreshIds
  <2>4. s # r /\ req[s].pc # "idle" /\ req'[s].op = req[s].op /\ req'[s].file = req[s].file
    BY <1>2, <2>2, <2>3
  <2>5. req[s].op = "initiate" => req[r].file # req[s].file
    BY <2>2, <2>4 DEF Inv2, FreshIds
  <2>6. req[s].file \in Files /\ status \in [Files -> Statuses]
    BY <2>4, AtWork DEF Inv2, Inv1, TypeOK
  <2>7. req'[s].op = "initiate" <=> status'[req'[s].file] = "none"
    BY <2>1, <2>4, <2>5, <2>6 DEF Inv2, FreshIds
  <2>8. req'[s].op = "initiate" =>
           \A t \in Requests \ {s} : req'[t].pc # "idle" => req'[t].file # req'[s].file
    BY <1>2, <2>4, ZenonT(30) DEF Inv2, FreshIds
  <2> QED
    BY <2>7, <2>8
<1> QED
  BY <1>3, <1>4, StatusWrite DEF Inv2

\* An arrival keeps ids fresh: initiate draws an id nobody has, the others a known
\* one.
LEMMA FreshArrive ==
    ASSUME Inv2, NEW r \in Requests, NEW op \in Ops, NEW u \in Users, NEW f \in Files,
           NEW n \in Names \cup {NoName}, NEW ps \in SUBSET Parts,
           Arrive(r, op, u, f, n, ps),
           op = "initiate" => status[f] = "none" /\ \A s \in Requests : req[s].file # f,
           op # "initiate" => status[f] # "none"
    PROVE  FreshIds'
<1>1. TypeOK
  BY DEF Inv2, Inv1
<1>2. /\ req' \in [Requests -> Request]
      /\ req'[r] = [NoRequest EXCEPT !.pc = "row", !.op = op, !.user = u, !.file = f,
                                     !.name = n, !.parts = ps, !.seen = used[u]]
      /\ \A s \in Requests \ {r} : req'[s] = req[s]
  BY <1>1, ArriveEffect, Zenon
<1>3. req'[r].op = op /\ req'[r].file = f
  BY <1>2 DEF NoRequest
<1>4. status' = status
  BY DEF Arrive, db
<1>5. op # "initiate" => \A s \in Requests \ {r} :
          req[s].pc # "idle" /\ req[s].op = "initiate" => req[s].file # f
  BY DEF Inv2, FreshIds
<1>6. SUFFICES ASSUME NEW s \in Requests, req'[s].pc # "idle"
               PROVE  /\ req'[s].op = "initiate" <=> status'[req'[s].file] = "none"
                      /\ req'[s].op = "initiate" =>
                           \A t \in Requests \ {s} :
                               req'[t].pc # "idle" => req'[t].file # req'[s].file
  BY DEF FreshIds
<1>7. CASE s = r
  BY <1>2, <1>3, <1>4, <1>7
<1>8. CASE s # r
  <2>1. req'[s] = req[s] /\ req[s].pc # "idle"
    BY <1>2, <1>6, <1>8
  <2>2. req'[s].op = "initiate" <=> status'[req'[s].file] = "none"
    BY <1>4, <2>1 DEF Inv2, FreshIds
  <2>3. req[s].op = "initiate" => req'[r].file # req[s].file
    BY <1>3, <1>5, <1>8, <2>1 DEF Inv2, FreshIds
  <2>4. ASSUME req[s].op = "initiate", NEW t \in Requests \ {s}, req'[t].pc # "idle"
        PROVE  req'[t].file # req[s].file
    <3>1. CASE t = r
      BY <2>3, <2>4, <3>1
    <3>2. CASE t # r
      <4>1. req'[t] = req[t]
        BY <1>2, <3>2
      <4> QED
        BY <2>1, <2>4, <4>1 DEF Inv2, FreshIds
    <3> QED
      BY <3>1, <3>2
  <2> QED
    BY <2>1, <2>2, <2>4
<1> QED
  BY <1>7, <1>8

\* Every arrival keeps ids fresh.
LEMMA FreshArrival ==
    ASSUME Inv2, NEW r \in Requests, Arrivals(r)
    PROVE  FreshIds'
BY ArrivalCases, FreshArrive

\* Ids in flight stay fresh in every step.
THEOREM Step2 == Inv2 /\ [Next]_vars => Inv2'
<1> SUFFICES ASSUME Inv2, [Next]_vars PROVE Inv2'
  OBVIOUS
<1>0. Inv1'
  BY Step1 DEF Inv2
<1>1. CASE UNCHANGED vars
  BY <1>0, <1>1 DEF vars, Inv2, FreshIds
<1>2. CASE Crash
  <2>1. \A s \in Requests : req'[s].pc # "idle" => req'[s] = req[s]
    BY <1>2 DEF Crash, NoRequest
  <2>2. status' = status
    BY <1>2 DEF Crash, db
  <2> QED
    BY <1>0, <2>1, <2>2 DEF Inv2, FreshIds
<1>3. ASSUME NEW r \in Requests, Arrivals(r) \/ Serve(r) \/ Fail(r) PROVE Inv2'
  BY <1>0, <1>3, FreshArrival, FreshHandler DEF Inv2
<1> QED
  BY <1>1, <1>2, <1>3 DEF Next

\* No request is in flight initially, so no id is.
LEMMA Init2 == Init => Inv2
BY Init1 DEF Init, Inv2, FreshIds, NoRequest

\* One step never brings a row back, whoever takes it.
LEMMA NoResurrectionOfStep == Inv2 /\ [Next]_vars => [NoResurrectionStep]_vars
<1> SUFFICES ASSUME Inv2, Next PROVE NoResurrectionStep
  BY DEF vars
<1>1. status \in [Files -> Statuses]
  BY DEF Inv2, Inv1, TypeOK
<1>2. CASE status' = status
  BY <1>1, <1>2 DEF NoResurrectionStep
<1>3. ASSUME NEW r \in Requests, Serve(r) \/ Fail(r) PROVE NoResurrectionStep
  <2>1. CASE status' = status
    BY <1>2, <2>1
  <2>2. CASE status' # status
    <3>1. PICK x \in {"uploading", "active", "gone"} :
             /\ status' = [status EXCEPT ![req[r].file] = x]
             /\ x = "uploading" => status[req[r].file] = "none"
             /\ x = "active" => status[req[r].file] \in {"uploading", "active"}
      BY <1>3, <2>2, StatusWrite DEF Inv2
    <3> QED
      BY <1>1, <3>1 DEF NoResurrectionStep
  <2> QED
    BY <2>1, <2>2
<1>4. ASSUME NEW r \in Requests, Arrivals(r) PROVE status' = status
  BY <1>4, ArrivalCases DEF Arrive, db
<1>5. Crash => status' = status
  BY DEF Crash, db
<1> QED
  BY <1>2, <1>3, <1>4, <1>5 DEF Next

\* A deleted file never comes back and an active one never reopens.
THEOREM NeverResurrected == Spec => NoResurrection
BY Init2, Step2, NoResurrectionOfStep, PTL DEF Spec, NoResurrection
-----------------------------------------------------------------------------
(* Active files have their bytes *)

\* What a handler step may take from the bucket: its own file's object, leaving the
\* request that owes the row, or a torn file.
LEMMA BackedPersists ==
    ASSUME Inv2, Inv1', NEW r \in Requests, Serve(r) \/ Fail(r), NEW f \in Files, Backed(f)
    PROVE  Backed(f)' \/ status'[f] = "gone"
<1> DEFINE q == req[r]
<1>0. Moves(r) /\ status \in [Files -> Statuses]
  BY HandlerMoves DEF Inv2, Inv1, TypeOK
<1>1. ASSUME NEW s \in Requests \ {r}, req[s].file = f, Erasing(req[s]) PROVE Backed(f)'
  <2>1. req'[s] = req[s]
    BY <1>0 DEF Moves
  <2> QED
    BY <1>1, <2>1 DEF Backed, Erasing
<1>2. ASSUME q.file = f, Erasing(q) PROVE Backed(f)' \/ status'[f] = "gone"
  <2>1. q.pc = "commit" /\ (q.op = "delete" \/ q.fate = "reject") /\ Shape(q)
    BY <1>2, AtWork DEF Erasing, Inv2
  <2>2. CASE CommitReject(r) \/ CommitAbort(r) \/ CommitDelete(r)
    BY <1>0, <1>2, <2>2 DEF CommitReject, CommitAbort, CommitDelete
  <2>3. CASE StepRefused(r)
    BY <1>2, <2>3 DEF StepRefused, Tear, Backed
  <2>4. CASE Serve(r) /\ ~CommitReject(r) /\ ~CommitAbort(r) /\ ~CommitDelete(r)
    BY <2>1, <2>4 DEF Serve, InitiateUploadRow, UploadSingleRow, UploadPartRow,
       CompleteUploadRow, AbortUploadRow, DeleteFileRow, RenameFileRow, CreateMultipart,
       PutObject, PutPart, AssembleParts, HeadObject, DeleteObject, AbortMultipart,
       CommitInitiate, CommitUpload, CommitComplete, CommitRename, At, Shape
  <2>5. ~S3AnswerLost(r)
    BY <2>1 DEF S3AnswerLost
  <2> QED
    BY <2>2, <2>3, <2>4, <2>5 DEF Fail
<1>3. ASSUME f \in torn PROVE Backed(f)'
  <2>1. torn \subseteq torn'
    BY DEF Serve, Fail, StepRefused, S3AnswerLost, Tear,
       InitiateUploadRow, UploadSingleRow, UploadPartRow, CompleteUploadRow, AbortUploadRow,
       DeleteFileRow, RenameFileRow, CreateMultipart, PutObject, PutPart, AssembleParts,
       HeadObject, DeleteObject, AbortMultipart, CommitInitiate, CommitUpload,
       CommitComplete, CommitReject, CommitAbort, CommitDelete, CommitRename
  <2> QED
    BY <1>3, <2>1 DEF Backed
<1>4. ASSUME f \in object PROVE Backed(f)'
  <2>1. CASE f \in object'
    BY <2>1 DEF Backed
  <2>2. CASE f \notin object'
    <3>1. \/ DeleteObject(r) /\ q.file = f
          \/ q.pc = "delete_object" /\ q.file = f /\ f \in torn'
      BY <1>4, <2>2 DEF Serve, Fail, StepRefused, S3AnswerLost,
         InitiateUploadRow, UploadSingleRow, UploadPartRow, CompleteUploadRow,
         AbortUploadRow, DeleteFileRow, RenameFileRow, CreateMultipart, PutObject, PutPart,
         AssembleParts, HeadObject, DeleteObject, AbortMultipart, CommitInitiate,
         CommitUpload, CommitComplete, CommitReject, CommitAbort, CommitDelete,
         CommitRename, minio
    <3>2. CASE DeleteObject(r) /\ q.file = f
      <4>1. q.pc = "delete_object" /\ Goto(r, "commit") /\ q \in Request /\ Shape(q)
        BY <3>2, AtWork DEF DeleteObject, Inv2
      <4>2. req'[r] = [q EXCEPT !.pc = "commit"]
        BY <4>1, GotoEffect DEF PCs, Inv2, Inv1, TypeOK
      <4>3. req'[r].file = f /\ Erasing(req'[r])
        BY <3>2, <4>1, <4>2 DEF Erasing, Shape, Request
      <4> QED
        BY <4>3 DEF Backed, Erasing
    <3>3. CASE f \in torn'
      BY <3>3 DEF Backed
    <3> QED
      BY <3>1, <3>2, <3>3
  <2> QED
    BY <2>1, <2>2
<1> QED
  BY <1>1, <1>2, <1>3, <1>4 DEF Backed

\* A request comes to its publishing commit only from an answer of MinIO that
\* vouches for the object.
LEMMA PublishingFromObject ==
    ASSUME Inv2, Inv1', NEW r \in Requests, Serve(r) \/ Fail(r), Publishing(req'[r])
    PROVE  req'[r].file \in object'
<1> DEFINE q == req[r]
<1>0. Moves(r) /\ req'[r].pc = "commit"
  BY HandlerMoves DEF Inv2, Publishing
<1>1. /\ q \in Request /\ Shape(q) /\ q.op \in {"upload", "complete"}
      /\ q.op = req'[r].op /\ q.file = req'[r].file /\ q.pc # "idle"
  BY <1>0, AtWork DEF Moves, Inv2, Publishing
<1>2. ~Answer(r, "ok") /\ ~Answer(r, "error")
  BY <1>0, <1>1, AnswerMoves DEF Inv2, Replies
<1>3. ~Reject(r)
  BY <1>0, <1>1, RejectMoves DEF Inv2, Request
<1>4. Serve(r)
  BY <1>2 DEF Fail, StepRefused, S3AnswerLost
<1>5. CASE PutObject(r)
  BY <1>1, <1>5 DEF PutObject
<1>6. CASE AssembleParts(r)
  BY <1>1, <1>2, <1>6 DEF AssembleParts
<1>7. CASE HeadObject(r)
  BY <1>1, <1>2, <1>7 DEF HeadObject, minio
<1>8. CASE DeleteObject(r)
  <2>1. req'[r] = [q EXCEPT !.pc = "commit"] /\ q.fate = "reject"
    BY <1>1, <1>8, GotoEffect DEF DeleteObject, PCs, Inv2, Inv1, TypeOK, Shape
  <2> QED
    BY <1>1, <2>1 DEF Publishing, Request
<1>9. CASE UploadSingleRow(r)
  <2>1. req'[r] = [q EXCEPT !.pc = "put_object"]
    BY <1>1, <1>2, <1>3, <1>9, GotoEffect DEF UploadSingleRow, PCs, S3Calls, Inv2, Inv1, TypeOK
  <2> QED
    BY <1>0, <1>1, <2>1 DEF Request
<1>10. CASE CompleteUploadRow(r)
  <2> DEFINE pc == IF Multipart(q.file) THEN "complete_multipart_upload"
                   ELSE "object_exists"
  <2>1. req' = [req EXCEPT ![r] = [@ EXCEPT !.was = status[q.file], !.pc = pc]]
    BY <1>2, <1>10 DEF CompleteUploadRow
  <2> QED
    BY <1>0, <1>1, <2>1 DEF Inv2, Inv1, TypeOK, Request
<1> QED
  BY <1>1, <1>2, <1>4, <1>5, <1>6, <1>7, <1>8, <1>9, <1>10 DEF Serve, Path, Shape,
     InitiateUploadRow, UploadPartRow, AbortUploadRow, DeleteFileRow, RenameFileRow,
     CreateMultipart, PutPart, AbortMultipart, CommitInitiate, CommitUpload,
     CommitComplete, CommitReject, CommitAbort, CommitDelete, CommitRename, At

\* No step of a handler takes the object from an active file or one about to be
\* published.
LEMMA BackedByHandler ==
    ASSUME IndInv, Inv2', NEW r \in Requests, Serve(r) \/ Fail(r)
    PROVE  IndInv'
<1>0. Inv1 /\ Inv2 /\ Inv1' /\ TypeOK /\ Moves(r)
  BY HandlerMoves DEF IndInv, Inv2, Inv1
<1>1. ASSUME NEW f \in Files, Backed(f) PROVE Backed(f)' \/ status'[f] = "gone"
  BY <1>0, <1>1, BackedPersists
<1>2. ASSUME NEW f \in Files, status[f] = "gone" PROVE status'[f] = "gone"
  <2>1. CASE status' = status
    BY <1>2, <2>1
  <2>2. CASE status' # status
    <3>1. PICK x \in {"uploading", "active", "gone"} :
             /\ status' = [status EXCEPT ![req[r].file] = x]
             /\ x = "uploading" => status[req[r].file] = "none"
             /\ x = "active" => status[req[r].file] \in {"uploading", "active"}
      BY <1>0, <2>2, StatusWrite DEF Inv2
    <3> QED
      BY <1>0, <1>2, <3>1 DEF TypeOK
  <2> QED
    BY <2>1, <2>2
<1>3. ActiveBacked'
  <2>1. SUFFICES ASSUME NEW f \in Files, status'[f] = "active" PROVE Backed(f)'
    BY DEF ActiveBacked
  <2>2. CASE status[f] = "active"
    <3>1. Backed(f)
      BY <2>2 DEF IndInv, ActiveBacked
    <3>2. status'[f] # "gone"
      BY <2>1
    <3> QED
      BY <1>1, <3>1, <3>2
  <2>3. CASE status[f] # "active"
    <3>1. f = req[r].file /\ Publishing(req[r]) /\ status[f] = "uploading"
      BY <1>0, <2>1, <2>3, StatusWrite DEF Inv2, TypeOK
    <3>2. Backed(f)
      BY <3>1 DEF IndInv, PublishesBacked
    <3>3. status'[f] # "gone"
      BY <2>1
    <3> QED
      BY <1>1, <3>2, <3>3
  <2> QED
    BY <2>2, <2>3
<1>4. PublishesBacked'
  <2>0. ASSUME NEW s \in Requests, Publishing(req'[s]) PROVE req'[s].file \in Files
    BY <1>0, <2>0 DEF Inv1, Shapes, Shape, Publishing
  <2>1. ASSUME NEW s \in Requests, NEW f \in Files, Publishing(req'[s]), req'[s].file = f
        PROVE  Backed(f)' \/ status'[f] = "gone"
    <3>1. CASE s = r
      BY <1>0, <2>1, <3>1, PublishingFromObject DEF Backed
    <3>2. CASE s # r
      <4>1. req'[s] = req[s]
        BY <1>0, <3>2 DEF Moves
      <4>2. Backed(f) \/ status[f] = "gone"
        BY <2>1, <4>1 DEF IndInv, PublishesBacked
      <4> QED
        BY <1>1, <1>2, <4>2
    <3> QED
      BY <3>1, <3>2
  <2> QED
    BY <2>0, <2>1 DEF PublishesBacked, Publishing, Backed
<1> QED
  BY <1>3, <1>4 DEF IndInv, Inv2, Inv1

\* An arrival takes no object.
LEMMA BackedByArrival ==
    ASSUME IndInv, Inv2', NEW r \in Requests, Arrivals(r)
    PROVE  IndInv'
<1>1. /\ status' = status /\ object' = object /\ torn' = torn
      /\ req[r].pc = "idle" /\ req'[r].pc = "row"
      /\ \A s \in Requests \ {r} : req'[s] = req[s]
  <2>1. PICK op \in Ops, u \in Users, f \in Files, n \in Names \cup {NoName},
             ps \in SUBSET Parts : Arrive(r, op, u, f, n, ps)
    BY ArrivalCases
  <2> QED
    BY <2>1 DEF Arrive, db, minio, NoRequest, IndInv, TypeOK
<1>2. \A f \in Files : Backed(f) => Backed(f)'
  BY <1>1 DEF Backed, Erasing
<1>3. \A s \in Requests : Publishing(req'[s]) => req'[s] = req[s] /\ req[s].file \in Files
  BY <1>1, AtWork DEF Publishing, IndInv, Inv1
<1>4. ActiveBacked'
  BY <1>1, <1>2 DEF IndInv, ActiveBacked, Backed, Erasing
<1>5. PublishesBacked'
  <2>1. ASSUME NEW s \in Requests, NEW f \in Files, Publishing(req'[s]), req'[s].file = f
        PROVE  Backed(f)' \/ status'[f] = "gone"
    BY <1>1, <1>2, <1>3, <2>1 DEF IndInv, PublishesBacked
  <2> QED
    BY <1>3, <2>1 DEF PublishesBacked, Publishing, Backed, Erasing
<1> QED
  BY <1>4, <1>5 DEF IndInv, Inv2, Inv1

\* A crash leaves every active file backed, or its erasure recorded as torn.
LEMMA BackedByCrash ==
    ASSUME IndInv, Inv2', Crash
    PROVE  IndInv'
<1>1. /\ status' = status /\ object' = object
      /\ torn' = torn \cup {req[s].file : s \in {s \in Requests : Erasing(req[s])}}
  BY DEF Crash, Tear, db, minio
<1>2. \A s \in Requests : ~Publishing(req'[s])
  BY DEF Crash, Publishing, NoRequest
<1>3. \A f \in Files : Backed(f) => f \in object' \/ f \in torn'
  BY <1>1 DEF Backed
<1>4. ActiveBacked'
  BY <1>1, <1>3 DEF IndInv, ActiveBacked, Backed
<1> QED
  BY <1>2, <1>4 DEF IndInv, Inv2, Inv1, PublishesBacked, Publishing

\* The inductive invariant is kept by every step.
THEOREM IndStep == IndInv /\ [Next]_vars => IndInv'
<1> SUFFICES ASSUME IndInv, [Next]_vars PROVE IndInv'
  OBVIOUS
<1>0. Inv2'
  BY Step2 DEF IndInv, Inv2, Inv1
<1>1. CASE UNCHANGED vars
  BY <1>0, <1>1 DEF vars, IndInv, Inv2, Inv1, PublishesBacked, ActiveBacked, Publishing,
     Backed, Erasing
<1>2. CASE Crash
  BY <1>0, <1>2, BackedByCrash
<1>3. ASSUME NEW r \in Requests, Arrivals(r) \/ Serve(r) \/ Fail(r) PROVE IndInv'
  BY <1>0, <1>3, BackedByHandler, BackedByArrival
<1> QED
  BY <1>1, <1>2, <1>3 DEF Next

\* The inductive invariant holds initially.
LEMMA IndInit == Init => IndInv
BY Init2 DEF Init, IndInv, Inv2, Inv1, PublishesBacked, Publishing, ActiveBacked, NoRequest

\* No interleaving and no fault publishes a file without its object: every active
\* row has its bytes in the bucket or is being, or was halfway, deleted.
THEOREM ActiveFilesBacked == Spec => []ActiveBacked
<1>1. IndInv => ActiveBacked
  BY DEF IndInv
<1> QED
  BY IndInit, IndStep, <1>1, PTL DEF Spec
-----------------------------------------------------------------------------
(* Nobody else's files *)

\* Every step changes rows and objects only for a request of the owner on that file.
LEMMA OwnFilesOfStep == Inv2 /\ [Next]_vars => [OwnFilesOnlyStep]_vars
<1> SUFFICES ASSUME Inv2, Next PROVE OwnFilesOnlyStep
  BY DEF vars
<1>0. Inv1 /\ Inv1' /\ TypeOK
  BY Step1 DEF Inv2, Inv1
<1>1. ASSUME NEW r \in Requests, Arrivals(r) PROVE UNCHANGED <<status, name, object>>
  BY <1>1, ArrivalCases, ZenonT(30) DEF Arrive, db, minio
<1>2. Crash => UNCHANGED <<status, name, object>>
  BY DEF Crash, db, minio
<1>3. ASSUME NEW r \in Requests, Serve(r) \/ Fail(r) PROVE OwnFilesOnlyStep
  <2> DEFINE q == req[r]
  <2>1. Moves(r)
    BY <1>0, <1>3, HandlerMoves
  <2>2. CASE UNCHANGED <<status, name, object>>
    BY <2>2 DEF OwnFilesOnlyStep
  <2>3. CASE ~UNCHANGED <<status, name, object>>
    <3>1. \/ PutObject(r) \/ AssembleParts(r) \/ DeleteObject(r) \/ S3AnswerLost(r)
          \/ CommitInitiate(r) \/ CommitUpload(r) \/ CommitComplete(r) \/ CommitReject(r)
          \/ CommitAbort(r) \/ CommitDelete(r) \/ CommitRename(r)
      BY <1>3, <2>3 DEF Serve, Fail, StepRefused, InitiateUploadRow, UploadSingleRow,
         UploadPartRow, CompleteUploadRow, AbortUploadRow, DeleteFileRow, RenameFileRow,
         CreateMultipart, PutPart, HeadObject, AbortMultipart, db, minio
    <3>2. q.pc \in S3Calls \cup {"commit"}
      <4>1. S3AnswerLost(r) => q.pc \in S3Calls
        BY DEF S3AnswerLost, S3Calls
      <4>2. PutObject(r) \/ AssembleParts(r) \/ DeleteObject(r) => q.pc \in S3Calls
        BY DEF PutObject, AssembleParts, DeleteObject, S3Calls
      <4>3. (\/ CommitInitiate(r) \/ CommitUpload(r) \/ CommitComplete(r) \/ CommitReject(r)
             \/ CommitAbort(r) \/ CommitDelete(r) \/ CommitRename(r)) => q.pc = "commit"
        BY DEF CommitInitiate, CommitUpload, CommitComplete, CommitReject, CommitAbort,
           CommitDelete, CommitRename, At
      <4> QED
        BY <3>1, <4>1, <4>2, <4>3
    <3>3. q.user = Owner[q.file] /\ q.file \in Files /\ q.pc # "idle"
      BY <1>0, <3>2, AtWork DEF S3Calls
    <3>4. \A f \in Files \ {q.file} :
              status'[f] = status[f] /\ name'[f] = name[f] /\ (f \in object <=> f \in object')
      <4>1. CASE PutObject(r) \/ AssembleParts(r) \/ DeleteObject(r) \/ S3AnswerLost(r)
        BY <4>1 DEF PutObject, AssembleParts, DeleteObject, S3AnswerLost, db, minio
      <4>2. CASE \/ CommitInitiate(r) \/ CommitUpload(r) \/ CommitComplete(r)
                 \/ CommitReject(r) \/ CommitAbort(r) \/ CommitDelete(r) \/ CommitRename(r)
        BY <1>0, <4>2 DEF CommitInitiate, CommitUpload, CommitComplete, CommitReject,
           CommitAbort, CommitDelete, CommitRename, minio, TypeOK
      <4> QED
        BY <3>1, <4>1, <4>2
    <3>5. req'[r].pc # q.pc
      <4>1. CASE Answer(r, "ok") \/ Answer(r, "error")
        BY <1>0, <3>3, <4>1, AnswerMoves DEF Replies
      <4>2. CASE Goto(r, "commit") /\ q.pc # "commit"
        <5>1. "commit" \in PCs \ {"idle", "row"} /\ q \in Request
          BY <1>0 DEF PCs, TypeOK
        <5>2. req'[r] = [q EXCEPT !.pc = "commit"]
          BY <1>0, <3>3, <4>2, <5>1, GotoMoves
        <5> QED
          BY <4>2, <5>1, <5>2 DEF Request
      <4>3. CASE Reject(r) /\ q.pc # "delete_object"
        <5>1. req'[r] = [q EXCEPT !.pc = "delete_object", !.fate = "reject"] /\ q \in Request
          BY <1>0, <3>3, <4>3, RejectMoves DEF TypeOK
        <5> QED
          BY <4>3, <5>1 DEF Request
      <4> QED
        BY <3>1, <4>1, <4>2, <4>3 DEF PutObject, AssembleParts, AfterAssembly, DeleteObject,
           S3AnswerLost, CommitInitiate, CommitUpload, CommitComplete, CommitReject,
           CommitAbort, CommitDelete, CommitRename
    <3> QED
      BY <3>3, <3>4, <3>5 DEF OwnFilesOnlyStep
  <2> QED
    BY <2>2, <2>3
<1>4. CASE UNCHANGED <<status, name, object>>
  BY <1>4 DEF OwnFilesOnlyStep
<1> QED
  BY <1>1, <1>2, <1>3, <1>4 DEF Next

\* Rows and objects change only under a request of their owner on that very file.
THEOREM OwnersOnly == Spec => OwnFilesOnly
BY Init2, Step2, OwnFilesOfStep, PTL DEF Spec, OwnFilesOnly
=============================================================================
