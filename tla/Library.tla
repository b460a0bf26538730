------------------------------- MODULE Library -------------------------------
(***************************************************************************)
(* Folders and share links: the handlers of backend/app/routes/files.py    *)
(* that create, rename and delete folders and create share links, and      *)
(* delete_file, running concurrently on one event loop over SQLite and the *)
(* MinIO bucket.                                                           *)
(*                                                                         *)
(* A handler's first reads and early returns are its arrival; a request     *)
(* they refuse changes nothing and is left out.                            *)
(* What uploads do to this state is one step each here (InsertFile,        *)
(* Publish); FileStore has their handlers, and the storage_used accounting.*)
(*                                                                         *)
(* SQLite runs with foreign_keys=ON in WAL mode: readers see committed     *)
(* rows, one session at a time holds the write lock, from its first DELETE,*)
(* INSERT or UPDATE to its commit.  A session emits these at its commit or, *)
(* by SQLAlchemy's autoflush, at the next SELECT after them, so the         *)
(* recursive delete_folder may hold the lock across calls to MinIO.        *)
(***************************************************************************)
EXTENDS Naturals, FiniteSets, Sequences, SequencesExt

CONSTANTS
    Folders,    \* uuids create_folder may draw
    Files,      \* uuids initiate_upload may draw
    Names,      \* folder names
    Levels,     \* access levels of a link
    Slugs,      \* slugs of length 10, checked before use
    LongSlugs,  \* slugs of length 12, the fallback, not checked
    Requests,   \* requests the server handles at the same time
    Root, NoOne

ASSUME LibraryAssumption ==
    /\ Root \notin Folders /\ {"none", "gone", "keep"} \cap (Folders \cup {Root}) = {}
    /\ IsFiniteSet(Folders) /\ IsFiniteSet(Files) /\ Files \cap (Folders \cup {Root}) = {}
    /\ NoOne \notin Requests
    /\ Slugs \cap LongSlugs = {}

VARIABLES
    parent,  \* folders.parent_id; "none" before the insert, "gone" after the delete
    name,    \* folders.name
    place,   \* files.folder_id, with "none" and "gone" likewise
    active,  \* files whose status is "active"
    object,  \* files whose object is in the bucket
    shares,  \* rows of the table shares
    writer,  \* the request whose session holds SQLite's write lock
    req,     \* the requests in flight
    torn,    \* history: files whose object was erased by a handler that failed later
    moved    \* history: rows that the deletion of a folder above put under the root

tables == <<parent, name, place, active, shares>>
history == <<torn, moved>>
vars   == <<tables, object, writer, req, history>>

-----------------------------------------------------------------------------
(* Types *)

Inserted(x) == x \notin {"none", "gone"}

FolderRows == {d \in Folders : Inserted(parent[d])}
FileRows   == {f \in Files : Inserted(place[f])}
Parents    == FolderRows \cup {Root}

Share == [file : Files, level : Levels, slug : Slugs \cup LongSlugs]
Task  == [do : {"open", "files", "close"}, id : Folders] \cup [do : {"object"}, id : Files]

Idle == [pc |-> "idle"]

\* A handler about to write, or walking a tree; owed is history.
Insert  == [pc : {"insert"}, at : Folders \cup {Root}, name : Names]
Rename  == [pc : {"rename"}, at : Folders, name : Names]
Link    == [pc : {"share"}, row : Share]
Walking == [pc : {"walk"}, todo : Seq(Task), files : SUBSET Files, folders : SUBSET Folders,
            owed : SUBSET (Files \cup Folders)]

TypeOK ==
    /\ parent \in [Folders -> Folders \cup {Root, "none", "gone"}]
    /\ name   \in [Folders -> Names \cup {"none"}]
    /\ place  \in [Files -> Folders \cup {Root, "none", "gone"}]
    /\ active \subseteq FileRows
    /\ object \subseteq Files
    /\ shares \subseteq Share
    /\ writer \in Requests \cup {NoOne}
    /\ req \in [Requests -> {Idle} \cup Insert \cup Rename \cup Link \cup Walking]
    /\ torn \subseteq Files /\ moved \subseteq Files \cup Folders

Init ==
    /\ parent = [d \in Folders |-> "none"]
    /\ name   = [d \in Folders |-> "none"]
    /\ place  = [f \in Files |-> "none"]
    /\ active = {} /\ object = {} /\ shares = {} /\ torn = {} /\ moved = {}
    /\ writer = NoOne
    /\ req = [r \in Requests |-> Idle]

-----------------------------------------------------------------------------
(* State formulae *)

\* The chain of parents of d, d included: it is in every set that holds d and
\* the parent of each of its folders.
Above(d) == {e \in FolderRows :
                \A S \in SUBSET FolderRows :
                    (d \in S /\ \A c \in S : parent[c] \in FolderRows => parent[c] \in S) => e \in S}

\* The folder d and all that is nested in it.
Subtree(d) == {e \in FolderRows : d \in Above(e)}

SubFolders(d) == {e \in FolderRows : parent[e] = d}

FilesInActive(d) == {f \in active : place[f] = d}   \* mutant of FilesIn

\* delete_folder takes the files of a folder in any status.
FilesIn(d) == {f \in FileRows : place[f] = d}

Contents(d) == Subtree(d) \cup {f \in FileRows : place[f] \in Subtree(d)}

\* The duplicate check of create_folder and rename_folder.
NameTaken(p, n, except) == \E e \in FolderRows \ except : parent[e] = p /\ name[e] = n

\* A foreign key may refer to x.
KeyHoldsUnenforced(x) == TRUE   \* mutant of KeyHolds: foreign_keys=OFF
KeyHolds(x) == x \in Parents \cup FileRows

CanWrite(r) == writer \in {NoOne, r}

Become(r, q) == req' = [req EXCEPT ![r] = q]
Answer(r)    == Become(r, Idle)
Arrives(r, q) == /\ req[r].pc = "idle"
                 /\ Become(r, q)
                 /\ UNCHANGED <<tables, object, writer, history>>

\* A commit releases the lock.
Committed(r) == writer' = (IF writer = r THEN NoOne ELSE writer) /\ Answer(r)

-----------------------------------------------------------------------------
(* What uploads do: one row, then one published file *)

\* initiate_upload does not look at the folder: its foreign key does.
InsertFile(f, p) ==
    /\ place[f] = "none" /\ writer = NoOne /\ KeyHolds(p)
    /\ place' = [place EXCEPT ![f] = p]
    /\ UNCHANGED <<parent, name, active, shares, object, writer, req, history>>

\* Mutant of Publish: a row deleted meanwhile is published all the same.
PublishLate(f) ==
    /\ f \notin active /\ place[f] # "none" /\ writer = NoOne
    /\ active' = active \cup {f}
    /\ object' = object \cup {f}
    /\ UNCHANGED <<parent, name, place, shares, writer, req, history>>

Publish(f) ==
    /\ f \in FileRows \ active /\ writer = NoOne
    /\ active' = active \cup {f}
    /\ object' = object \cup {f}
    /\ UNCHANGED <<parent, name, place, shares, writer, req, history>>

-----------------------------------------------------------------------------
(* create_folder, rename_folder *)

\* uuid4: any id not used yet will do, so one of them is drawn.
Fresh == LET new == {d \in Folders : parent[d] = "none"}
         IN  IF new = {} THEN {} ELSE {CHOOSE d \in new : TRUE}

CreateFolder(r) ==
    \E p \in Parents, n \in Names :
        /\ ~NameTaken(p, n, {})
        /\ Arrives(r, [pc |-> "insert", at |-> p, name |-> n])

InsertFolder(r) ==
    LET q == req[r] IN
    /\ q.pc = "insert" /\ CanWrite(r)
    /\ IF KeyHolds(q.at)
       THEN \E d \in Fresh :
                /\ parent' = [parent EXCEPT ![d] = q.at]
                /\ name' = [name EXCEPT ![d] = q.name]
       ELSE UNCHANGED <<parent, name>>
    /\ Committed(r)
    /\ UNCHANGED <<place, active, shares, object, history>>

RenameFolder(r) ==
    \E d \in FolderRows, n \in Names :
        /\ ~NameTaken(parent[d], n, {d})
        /\ Arrives(r, [pc |-> "rename", at |-> d, name |-> n])

\* The UPDATE of a row deleted meanwhile matches nothing and fails.
UpdateFolder(r) ==
    LET q == req[r] IN
    /\ q.pc = "rename" /\ CanWrite(r)
    /\ name' = IF q.at \in FolderRows THEN [name EXCEPT ![q.at] = q.name] ELSE name
    /\ Committed(r)
    /\ UNCHANGED <<parent, place, active, shares, object, history>>

-----------------------------------------------------------------------------
(* delete_folder: a depth-first walk, object by object, then one commit *)

Walk(todo, owed) ==
    [pc |-> "walk", todo |-> todo, files |-> {}, folders |-> {}, owed |-> owed]

\* owed is history: the rows in the folder's tree when the handler read it.
DeleteFolder(r) ==
    \E d \in FolderRows :
        Arrives(r, Walk(<<[do |-> "open", id |-> d]>>, Contents(d)))

DeleteFile(r) ==
    \E f \in FileRows : Arrives(r, Walk(<<[do |-> "object", id |-> f]>>, {f}))

Next1(r, do) == /\ req[r].pc = "walk" /\ req[r].todo # <<>>
                /\ Head(req[r].todo).do = do

Then(q, todo) == [q EXCEPT !.todo = todo \o Tail(@)]

\* A SELECT flushes the deletions pending in the session, which takes the lock.
Reads(r) ==
    IF req[r].files \cup req[r].folders = {} THEN UNCHANGED writer
    ELSE CanWrite(r) /\ writer' = r

OpenFolderFlat(r) ==   \* mutant of OpenFolder: does not recurse
    LET q == req[r]  d == Head(q.todo).id IN
    /\ Next1(r, "open")
    /\ Reads(r)
    /\ Become(r, Then(q, <<[do |-> "files", id |-> d]>>))
    /\ UNCHANGED <<tables, object, history>>

\* 1. the subfolders are read, and each is walked before this folder's files.
OpenFolder(r) ==
    LET q == req[r]  d == Head(q.todo).id IN
    /\ Next1(r, "open")
    /\ Reads(r)
    /\ \E subs \in SetToSeqs(SubFolders(d)) :
           Become(r, Then(q, [i \in DOMAIN subs |-> [do |-> "open", id |-> subs[i]]]
                             \o <<[do |-> "files", id |-> d]>>))
    /\ UNCHANGED <<tables, object, history>>

\* 2. the files are read, and each loses its object.
ReadFiles(r) ==
    LET q == req[r]  d == Head(q.todo).id IN
    /\ Next1(r, "files")
    /\ Reads(r)
    /\ \E fs \in SetToSeqs(FilesIn(d)) :
           Become(r, Then(q, [i \in DOMAIN fs |-> [do |-> "object", id |-> fs[i]]]
                             \o <<[do |-> "close", id |-> d]>>))
    /\ UNCHANGED <<tables, object, history>>

DeleteObjectOnly(r) ==   \* mutant of DeleteObject: the row is not deleted
    LET q == req[r]  f == Head(q.todo).id IN
    /\ Next1(r, "object")
    /\ object' = object \ {f}
    /\ Become(r, Then(q, <<>>))
    /\ UNCHANGED <<tables, writer, history>>

DeleteObject(r) ==
    LET q == req[r]  f == Head(q.todo).id IN
    /\ Next1(r, "object")
    /\ object' = object \ {f}
    /\ Become(r, [Then(q, <<>>) EXCEPT !.files = @ \cup {f}])
    /\ UNCHANGED <<tables, writer, history>>

\* 3. the folder itself; the session has it loaded, so nothing is read.
CloseFolder(r) ==
    LET q == req[r]  d == Head(q.todo).id IN
    /\ Next1(r, "close")
    /\ Become(r, [Then(q, <<>>) EXCEPT !.folders = @ \cup {d}])
    /\ UNCHANGED <<tables, object, writer, history>>

\* What becomes of a reference when the folders F are deleted: the ORM sets the
\* rows that came into them since they were read to NULL, the root.
Orphaned(x, F) == IF x \in F THEN Root ELSE x

CommitDeletes(r) ==
    LET q == req[r] IN
    /\ q.pc = "walk" /\ q.todo = <<>> /\ CanWrite(r)
    /\ parent' = [d \in Folders |-> IF d \in q.folders THEN "gone"
                                    ELSE Orphaned(parent[d], q.folders)]
    /\ place'  = [f \in Files |-> IF f \in q.files THEN "gone"
                                  ELSE Orphaned(place[f], q.folders)]
    /\ active' = active \ q.files
    /\ shares' = {s \in shares : s.file \notin q.files}
    /\ moved'  = moved \cup {f \in Files \ q.files : place[f] \in q.folders}
                 \cup UNION {Contents(d) : d \in {e \in Folders \ q.folders : parent[e] \in q.folders}}
    /\ Committed(r)
    /\ UNCHANGED <<name, object, torn>>

-----------------------------------------------------------------------------
(* create_or_get_file_share *)

\* A new slug is checked five times, then drawn longer and not checked.
CreateShare(r) ==
    \E f \in active, l \in Levels :
        /\ \A s \in shares : ~(s.file = f /\ s.level = l)
        /\ \E g \in (Slugs \ {s.slug : s \in shares}) \cup LongSlugs :
               Arrives(r, [pc |-> "share", row |-> [file |-> f, level |-> l, slug |-> g]])

SlugFreeUnchecked(g) == TRUE   \* mutant of SlugFree: the column is not unique

\* shares.slug is unique.
SlugFree(g) == \A s \in shares : s.slug # g

InsertShare(r) ==
    LET q == req[r] IN
    /\ q.pc = "share" /\ CanWrite(r)
    /\ shares' = IF SlugFree(q.row.slug) /\ KeyHolds(q.row.file)
                 THEN shares \cup {q.row} ELSE shares
    /\ Committed(r)
    /\ UNCHANGED <<parent, name, place, active, object, history>>

-----------------------------------------------------------------------------
(* Failures *)

RolledBackLocked(r) == UNCHANGED writer   \* mutant of RolledBack

RolledBack(r) == writer' = IF writer = r THEN NoOne ELSE writer

\* MinIO refuses a call, a wait for the lock exceeds busy_timeout, a child that
\* came during the flush violates a foreign key: the session is rolled back.
Fails(r) ==
    LET q == req[r] IN
    /\ q.pc # "idle"
    /\ torn' = IF q.pc = "walk" THEN torn \cup q.files ELSE torn
    /\ RolledBack(r)
    /\ Answer(r)
    /\ UNCHANGED <<tables, object, moved>>

Crash ==
    /\ \E r \in Requests : req[r].pc # "idle"
    /\ torn' = torn \cup UNION {req[r].files : r \in {s \in Requests : req[s].pc = "walk"}}
    /\ req' = [r \in Requests |-> Idle]
    /\ writer' = NoOne
    /\ UNCHANGED <<tables, object, moved>>

-----------------------------------------------------------------------------
(* Specification *)

Arrivals(r) == \/ CreateFolder(r) \/ RenameFolder(r) \/ DeleteFolder(r) \/ DeleteFile(r)
               \/ CreateShare(r)

Serve(r) == \/ InsertFolder(r) \/ UpdateFolder(r)
            \/ OpenFolder(r) \/ ReadFiles(r) \/ DeleteObject(r) \/ CloseFolder(r)
            \/ CommitDeletes(r)
            \/ InsertShare(r)

Next == \/ \E r \in Requests : Arrivals(r) \/ Serve(r) \/ Fails(r)
        \/ \E f \in Files : Publish(f) \/ \E p \in Parents : InsertFile(f, p)
        \/ Crash

Spec == Init /\ [][Next]_vars

\* Every call to MinIO and SQLite ends: it returns, or it fails after a timeout.
Fairness == \A r \in Requests : WF_vars(Serve(r) \/ Fails(r))

FairSpec == Spec /\ Fairness

-----------------------------------------------------------------------------
(* Properties *)

\* Folders and files are in the root or in a folder that exists, and links have files.
ReferencesHold ==
    /\ \A d \in FolderRows : parent[d] \in Parents
    /\ \A f \in FileRows : place[f] \in Parents
    /\ \A s \in shares : s.file \in FileRows

\* The tree is never broken: every reference holds and every folder is reachable from
\* the root, although folders are created, filled and shared while they are deleted.
TreeSound ==
    /\ ReferencesHold
    /\ \A d \in FolderRows : \E e \in Above(d) : parent[e] = Root

\* A slug names one link, although the check for it and its insert are separated
\* by other inserts, and the long slug is not checked at all.
OneLinkPerSlug == \A s, t \in shares : s.slug = t.slug => s = t

\* README "Recursively deletes folder, all nested subfolders, and all contained
\* files": when the handler commits, no row that was in the tree when it was asked
\* is left, whatever others created, filled and deleted there meanwhile; only a
\* second deletion of a folder of the tree can have moved one out, to the root.
WholeTreeStep ==
    \A r \in Requests :
        (req[r].pc = "walk" /\ req[r].todo = <<>> /\ CommitDeletes(r))
        => req[r].owed \cap (FolderRows \cup FileRows)' \subseteq moved
WholeTree == [][WholeTreeStep]_vars

\* An active file has its object, unless a deletion that erased it is still going
\* on or ended half way: the walk forgets no row whose object it erased.
ActiveBacked ==
    \A f \in active : \/ f \in object \cup torn
                      \/ \E r \in Requests : req[r].pc = "walk" /\ f \in req[r].files

\* The write lock, which a walk takes before it calls MinIO, is always given back.
LockReleased == \A r \in Requests : writer = r ~> writer # r
=============================================================================
