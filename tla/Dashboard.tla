------------------------------ MODULE Dashboard ------------------------------
(***************************************************************************)
(* The dashboard page (frontend/src/app/dashboard/page.tsx) with its grid,  *)
(* breadcrumbs and dialogs: React state written by answers that come in any *)
(* order, and the node's tree of folders and files.                        *)
(*                                                                         *)
(* The page's handlers close over the folder that was current when they     *)
(* were created, and apply a listing whenever it comes.  A dialog can be    *)
(* left while its request is out, and opened again for another item.        *)
(* Dialogs are modal: at most one is open.  What a closed one remembers of  *)
(* its item is overwritten when it opens, and is left out.  The share       *)
(* dialog is the subject of ShareModal, the upload button of Uploads.       *)
(***************************************************************************)
EXTENDS Naturals, Sequences, FiniteSets

CONSTANTS
    Folders,     \* folder ids, of folders that are there or will be created
    Files,       \* file ids
    Slots,       \* bound of the requests in flight
    Root, None

Items == Folders \cup Files

ASSUME DashboardAssumption ==
    /\ Folders \cap Files = {} /\ {Root, None} \cap Items = {} /\ Root # None
    /\ IsFiniteSet(Folders)

VARIABLES
    current,       \* currentFolderId
    breadcrumbs,   \* breadcrumbs
    rows,          \* folders and files of the listing shown
    isLoading,     \* isLoading of the page
    dialog,        \* the dialog that is open, and its item
    errors,        \* the dialogs with a message: folderError and renameError
    busy,          \* deleting, deletingFolder, renaming, creatingFolder, uploading
    requests,      \* requests in flight
    tree,          \* the node: where each item is
    last,          \* history: the slot of the last listing asked for
    stale          \* history: the page was not told of what the node has

page    == <<current, breadcrumbs, rows, isLoading>>
dialogs == <<dialog, errors, busy>>
history == <<last, stale>>
vars    == <<page, dialogs, requests, tree, history>>

-----------------------------------------------------------------------------
(* Types *)

Places  == Folders \cup {Root}
Changes == {"create", "deleteFile", "deleteFolder", "rename", "upload"}
Asking  == {"create", "deleteFile", "deleteFolder", "rename"}   \* have a dialog
Kinds   == Changes \cup {"list", "download"}
Absent  == {"new", "gone"}   \* not created yet, deleted

Closed == [kind |-> "none", item |-> None]

\* folder: currentFolderId of the handler's closure, or the folder listed; rows: the
\* listing the node answers with; tie: whether the dialog it was made in has been left,
\* or, for a listing and as a history, the node has changed since and the page is not told.
NoRequest == [kind |-> "none", at |-> "out", item |-> None, folder |-> Root, rows |-> {},
              tie |-> "kept"]

Out(k) == {s \in Slots : requests[s].kind = k}

TypeOK ==
    /\ current \in Places
    /\ breadcrumbs \in Seq(Folders) /\ Len(breadcrumbs) <= Cardinality(Folders)
    /\ rows \subseteq Items /\ isLoading \in BOOLEAN
    /\ dialog \in [kind : Asking \cup {"none", "share"}, item : Items \cup {None}]
    /\ errors \subseteq {"create", "rename"}
    /\ busy \subseteq Changes
    /\ requests \in [Slots -> [kind : Kinds \cup {"none"}, at : {"out", "done"},
                               item : Items \cup {None}, folder : Places,
                               rows : SUBSET Items, tie : {"kept", "left"}]]
    /\ tree \in [Items -> Places \cup Absent]
    /\ last \in Slots /\ stale \in BOOLEAN

\* The page is mounted; the root is loaded once the session is authenticated.
Init ==
    /\ current = Root /\ breadcrumbs = <<>> /\ rows = {} /\ isLoading = TRUE
    /\ dialog = Closed /\ errors = {} /\ busy = {}
    /\ requests = [s \in Slots |-> NoRequest]
    /\ tree \in [Items -> {Root, "new"}]
    /\ last \in Slots /\ stale = TRUE

-----------------------------------------------------------------------------
(* Requests *)

Exists(i)   == i = Root \/ (i \in Items /\ tree[i] \notin Absent)
Contents(p) == {i \in Items : tree[i] = p}

Put(s, r) == requests' = [requests EXCEPT ![s] = r]
Free(s)   == Put(s, NoRequest)

Request(k, i) == [NoRequest EXCEPT !.kind = k, !.item = i, !.folder = current]

Send(k, i) == \E s \in Slots : requests[s] = NoRequest /\ Put(s, Request(k, i))

\* loadDirectory(p), in a free slot or in that of the request that led to it.
LoadDirectory(s, p) ==
    /\ isLoading' = TRUE /\ last' = s
    /\ Put(s, [NoRequest EXCEPT !.kind = "list", !.folder = p])

Load(p) == \E s \in Slots : requests[s] = NoRequest /\ LoadDirectory(s, p)

-----------------------------------------------------------------------------
(* Navigation *)

\* The effect of isAuthenticated, for the first time or again.
Authenticated ==
    /\ Load(Root)
    /\ UNCHANGED <<current, breadcrumbs, rows, dialogs, tree, stale>>

\* FileGrid shows a spinner, or the rows with their menus.
Shown == IF isLoading \/ dialog # Closed THEN {} ELSE rows

FolderClick ==
    /\ \E f \in Folders \cap Shown : Load(f)
    /\ UNCHANGED <<current, breadcrumbs, rows, dialogs, tree, stale>>

\* The home button and the breadcrumbs, at any time.
BreadcrumbNavigate ==
    /\ dialog = Closed
    /\ \E p \in {Root} \cup {breadcrumbs[i] : i \in DOMAIN breadcrumbs} : Load(p)
    /\ UNCHANGED <<current, breadcrumbs, rows, dialogs, tree, stale>>

\* Mutant of Trail: a folder gone back to is appended like any other.
TrailAppended(f) == IF f = Root THEN <<>> ELSE Append(breadcrumbs, f)

\* The breadcrumbs of the folder loaded: cut back to it, or it is appended.
Trail(f) ==
    LET at == {i \in DOMAIN breadcrumbs : breadcrumbs[i] = f}
    IN  IF f = Root THEN <<>>
        ELSE IF at # {} THEN SubSeq(breadcrumbs, 1, CHOOSE i \in at : \A j \in at : i <= j)
        ELSE Append(breadcrumbs, f)

\* A listing comes: rows, current folder and breadcrumbs are set together.
Listed(s) ==
    LET r == requests[s] IN
    /\ r.kind = "list" /\ r.at = "done"
    /\ current' = r.folder /\ breadcrumbs' = Trail(r.folder) /\ rows' = r.rows
    /\ isLoading' = FALSE
    /\ Free(s)
    /\ stale' = (s # last \/ r.tie = "left")
    /\ UNCHANGED <<dialogs, tree, last>>

ListFails(s) ==
    /\ requests[s].kind = "list"
    /\ isLoading' = FALSE
    /\ Free(s)
    /\ stale' = (stale \/ s = last)
    /\ UNCHANGED <<current, breadcrumbs, rows, dialogs, tree, last>>

-----------------------------------------------------------------------------
(* The dialogs: opened, left, and the buttons they offer *)

Opens(k, i) == dialog = Closed /\ dialog' = [kind |-> k, item |-> i]

\* The button of the header.
NewFolder ==
    /\ Opens("create", None)
    /\ UNCHANGED <<page, errors, busy, requests, tree, history>>

\* handleDeleteFile, handleDeleteFolderClick and onShareFile: the menus of the grid.
FolderMenuDelete == \E i \in Folders \cap Shown : Opens("deleteFolder", i)
FileMenuDelete   == \E i \in Files \cap Shown : Opens("deleteFile", i)
FileMenuShare    == \E i \in Files \cap Shown : Opens("share", i)

MenuClick ==
    /\ FolderMenuDelete \/ FileMenuDelete \/ FileMenuShare
    /\ UNCHANGED <<page, errors, busy, requests, tree, history>>

\* handleRenameFileClick and handleRenameFolderClick.
RenameClick ==
    /\ \E i \in Shown : Opens("rename", i)
    /\ errors' = errors \ {"rename"}
    /\ UNCHANGED <<page, busy, requests, tree, history>>

\* Cancel, Escape or a click outside: only the dialog goes.
Leave ==
    /\ dialog # Closed /\ dialog' = Closed
    /\ requests' = [s \in Slots |->
                      IF requests[s].kind = dialog.kind THEN [requests[s] EXCEPT !.tie = "left"]
                      ELSE requests[s]]
    /\ UNCHANGED <<page, errors, busy, tree, history>>

\* What each dialog lets the user confirm.  The name is typed.
NewFolderDialog    == dialog.kind = "create" /\ "create" \notin busy
DeleteFileDialog   == dialog.kind = "deleteFile" /\ "deleteFile" \notin busy
DeleteFolderDialog == dialog.kind = "deleteFolder" /\ "deleteFolder" \notin busy
RenameDialogAgain  == dialog.kind = "rename"   \* mutant of RenameDialog: not disabled
RenameDialog       == dialog.kind = "rename" /\ "rename" \notin busy

Starts(k) == busy' = busy \cup {k} /\ Send(k, dialog.item)

HandleCreateFolder ==
    /\ NewFolderDialog /\ Starts("create")
    /\ errors' = errors \ {"create"}
    /\ UNCHANGED <<page, dialog, tree, history>>

ConfirmDelete ==
    /\ DeleteFileDialog /\ dialog.item # None /\ Starts("deleteFile")
    /\ UNCHANGED <<page, dialog, errors, tree, history>>

ConfirmDeleteFolder ==
    /\ DeleteFolderDialog /\ dialog.item # None /\ Starts("deleteFolder")
    /\ UNCHANGED <<page, dialog, errors, tree, history>>

HandleRenameSubmit ==
    /\ RenameDialog /\ dialog.item # None /\ Starts("rename")
    /\ errors' = errors \ {"rename"}
    /\ UNCHANGED <<page, dialog, tree, history>>

\* Without a dialog.
HandleDownloadFile ==
    /\ \E i \in Files \cap Shown : Send("download", i)
    /\ UNCHANGED <<page, dialogs, tree, history>>

\* handleFileChange of the upload button, as far as the page sees it.
Upload ==
    /\ dialog = Closed /\ "upload" \notin busy
    /\ busy' = busy \cup {"upload"} /\ Send("upload", None)
    /\ UNCHANGED <<page, dialog, errors, tree, history>>

-----------------------------------------------------------------------------
(* The node *)

\* A folder is deleted with everything below it.
Below(f) ==
    LET under[i \in Items] == tree[i] = f \/ (tree[i] \in Folders /\ under[tree[i]])
    IN  {i \in Items : under[i]}

\* The trees a request may leave: its effect, and for an upload none.
Effects(r) ==
    CASE r.kind = "create" ->
           {[tree EXCEPT ![i] = r.folder] : i \in {j \in Folders : tree[j] = "new"}}
      [] r.kind = "upload" ->
           {tree} \cup {[tree EXCEPT ![i] = r.folder] : i \in {j \in Files : tree[j] = "new"}}
      [] r.kind = "deleteFile" -> {[tree EXCEPT ![r.item] = "gone"]}
      [] r.kind = "deleteFolder" ->
           {[i \in Items |-> IF i \in Below(r.item) \cup {r.item} THEN "gone" ELSE tree[i]]}
      [] OTHER -> {tree}

\* The node carries out a request whose folder and item exist.
Carried(s) ==
    LET r == requests[s] IN
    /\ r.kind # "none" /\ r.at = "out"
    /\ Exists(r.folder) \/ r.kind \notin {"list", "create", "upload"}
    /\ r.item # None => Exists(r.item)
    /\ tree' \in Effects(r)
    /\ Put(s, [r EXCEPT !.at = "done", !.rows = IF r.kind = "list" THEN Contents(r.folder) ELSE {}])
    /\ UNCHANGED <<page, dialogs, history>>

-----------------------------------------------------------------------------
(* What the handlers do after their await *)

Idle(k) == busy' = busy \ {k}

\* setDeleteDialogOpen(false) and its like: whichever item the dialog is open for.
Closes(k) == dialog' = IF dialog.kind = k THEN Closed ELSE dialog

\* Mutant of Submitted: the folder is not loaded again.
SubmittedUnseen(s) ==
    LET r == requests[s] IN
    /\ r.kind \in Asking /\ r.at = "done"
    /\ Closes(r.kind) /\ Idle(r.kind)
    /\ Free(s)
    /\ UNCHANGED <<page, errors, tree, history>>

\* It succeeded: the folder of the closure is loaded, wherever the user has gone since.
Submitted(s) ==
    LET r == requests[s] IN
    /\ r.kind \in Asking /\ r.at = "done"
    /\ Closes(r.kind) /\ Idle(r.kind)
    /\ LoadDirectory(s, r.folder)
    /\ UNCHANGED <<current, breadcrumbs, rows, errors, tree, stale>>

\* It failed, before or after the node carried it out.
SubmitFails(s) ==
    LET r == requests[s] IN
    /\ r.kind \in Asking
    /\ IF r.kind \in {"deleteFile", "deleteFolder"} THEN Closes(r.kind) ELSE UNCHANGED dialog
    /\ errors' = errors \cup ({r.kind} \cap {"create", "rename"})
    /\ Idle(r.kind)
    /\ requests' = [t \in Slots |->
                      IF t = s THEN NoRequest
                      ELSE IF requests[t].kind = "list" /\ {r.at, requests[t].at} = {"done"}
                           THEN [requests[t] EXCEPT !.tie = "left"]
                           ELSE requests[t]]
    /\ stale' = (stale \/ r.at = "done")
    /\ UNCHANGED <<page, tree, last>>

\* The end of handleFileChange, whatever failed in it: onUploadComplete.
UploadComplete(s) ==
    LET r == requests[s] IN
    /\ r.kind = "upload"
    /\ Idle("upload")
    /\ LoadDirectory(s, r.folder)
    /\ UNCHANGED <<current, breadcrumbs, rows, dialog, errors, tree, stale>>

\* The file is saved, or an alert tells that it is not.
Downloaded(s) ==
    /\ requests[s].kind = "download"
    /\ Free(s)
    /\ UNCHANGED <<page, dialogs, tree, history>>

-----------------------------------------------------------------------------
(* Specification *)

User == \/ FolderClick \/ BreadcrumbNavigate
        \/ NewFolder \/ MenuClick \/ RenameClick \/ Leave
        \/ HandleCreateFolder \/ ConfirmDelete \/ ConfirmDeleteFolder \/ HandleRenameSubmit
        \/ HandleDownloadFile \/ Upload

Answers(s) == \/ Listed(s) \/ ListFails(s) \/ Submitted(s) \/ SubmitFails(s)
              \/ UploadComplete(s) \/ Downloaded(s)

Next == Authenticated \/ User \/ \E s \in Slots : Carried(s) \/ Answers(s)

Spec == Init /\ [][Next]_vars

-----------------------------------------------------------------------------
(* Properties *)

\* The breadcrumbs end in the folder whose listing is shown, and no folder is in
\* them twice (React needs them distinct as keys), in whatever order the listings
\* of several clicks and reloads come.
TrailEndsHere ==
    /\ current = Root <=> breadcrumbs = <<>>
    /\ breadcrumbs # <<>> => breadcrumbs[Len(breadcrumbs)] = current
    /\ \A i, j \in DOMAIN breadcrumbs : breadcrumbs[i] = breadcrumbs[j] => i = j

\* The page follows the node: when nothing is out, the rows shown are what the current
\* folder holds, after any sequence of changes and however their reloads overlapped;
\* except that an answer was lost, or that an older listing came after a newer one.
RowsFollow ==
    (\A s \in Slots : requests[s] = NoRequest) /\ ~stale => rows = Contents(current)

\* A button says "Deleting...", "Saving..." and so on exactly while its one request is
\* out, and unless the user left the dialog it is still open on the very item the
\* request is about: its answer closes, or puts its error into, no other dialog.  Only
\* the answer to a request left behind can hit a dialog opened for another item.
AnswersOwnDialog ==
    \A k \in Changes :
        /\ k \in busy <=> Out(k) # {}
        /\ \A s, t \in Out(k) :
               /\ s = t
               /\ k \in Asking /\ requests[s].tie = "kept" =>
                      dialog = [kind |-> k, item |-> requests[s].item]
=============================================================================
