--------------------------- MODULE DashboardProofs ---------------------------
(***************************************************************************)
(* Proofs about Dashboard, for any folders, files and numbers of requests   *)
(* in flight: the type invariant, that the breadcrumbs end in the folder     *)
(* shown, that the page follows the node, and that an answer meets the       *)
(* dialog it belongs to.                                                    *)
(*                                                                         *)
(* TrailEndsHere and AnswersOwnDialog are inductive with the types.  For     *)
(* RowsFollow one must say what is still to come: a change the node has      *)
(* made and the page has not heard of (Unseen), or the last listing asked    *)
(* for, which brings what the node has (Following, Fresh).                  *)
(***************************************************************************)
EXTENDS Dashboard, SequenceTheorems, FiniteSetTheorems, TLAPS

\* The node has made a change whose answer is on its way.
Unseen == \E s \in Slots : requests[s].kind \in Changes /\ requests[s].at = "done"

\* If the rows are not the node's, something that will reload them is out.
Following ==
    ~stale => rows = Contents(current) \/ Unseen \/ requests[last].kind = "list"

\* The last listing is the node's as soon as it has been answered.
Fresh ==
    (requests[last].kind = "list" /\ requests[last].at = "done" /\ requests[last].tie = "kept")
       => requests[last].rows = Contents(requests[last].folder) \/ Unseen

\* AnswersOwnDialog, slot by slot.
Flagged == \A k \in Changes : k \in busy <=> \E s \in Slots : requests[s].kind = k

Single ==
    \A s, t \in Slots :
        requests[s].kind \in Changes /\ requests[t].kind = requests[s].kind => s = t

Kept ==
    \A s \in Slots : requests[s].kind \in Asking /\ requests[s].tie = "kept" =>
        dialog.kind = requests[s].kind /\ dialog.item = requests[s].item

\* A request, or a free slot.
Asked == [kind : Kinds \cup {"none"}, at : {"out", "done"}, item : Items \cup {None},
          folder : Places, rows : SUBSET Items, tie : {"kept", "left"}]

\* TypeOK but for the length of the breadcrumbs, which TrailEndsHere bounds.
PageTypes ==
    /\ current \in Places /\ breadcrumbs \in Seq(Folders)
    /\ rows \subseteq Items /\ isLoading \in BOOLEAN

DialogTypes ==
    /\ dialog \in [kind : Asking \cup {"none", "share"}, item : Items \cup {None}]
    /\ errors \subseteq {"create", "rename"}
    /\ busy \subseteq Changes

RequestTypes == requests \in [Slots -> Asked] /\ last \in Slots

NodeTypes == tree \in [Items -> Places \cup Absent] /\ stale \in BOOLEAN

Types == PageTypes /\ DialogTypes /\ RequestTypes /\ NodeTypes

IInv == Types /\ TrailEndsHere /\ Flagged /\ Single /\ Kept /\ Following /\ Fresh

USE DashboardAssumption

-----------------------------------------------------------------------------
(* The breadcrumbs *)

LEMMA TrailIs ==
    ASSUME breadcrumbs \in Seq(Folders), TrailEndsHere, NEW f \in Places
    PROVE  /\ Trail(f) \in Seq(Folders)
           /\ f = Root <=> Trail(f) = <<>>
           /\ Trail(f) # <<>> => Trail(f)[Len(Trail(f))] = f
           /\ \A i, j \in DOMAIN Trail(f) : Trail(f)[i] = Trail(f)[j] => i = j
<1> DEFINE b == breadcrumbs
           at == {i \in DOMAIN b : b[i] = f}
<1>1. /\ b \in Seq(Folders) /\ DOMAIN b = 1..Len(b) /\ Len(b) \in Nat
      /\ \A i \in 1..Len(b) : b[i] \in Folders
      /\ \A i, j \in 1..Len(b) : b[i] = b[j] => i = j
  BY LenProperties, ElementOfSeq DEF TrailEndsHere
<1>2. CASE f = Root
  <2>1. Trail(f) = <<>>
    BY <1>2 DEF Trail
  <2> QED
    BY <1>2, <2>1, EmptySeq
<1>3. CASE f # Root /\ at # {}
  <2>1. PICK i \in 1..Len(b) : b[i] = f
    BY <1>1, <1>3
  <2>2. at = {i}
    BY <1>1, <2>1
  <2>3. Trail(f) = SubSeq(b, 1, i)
    <3>1. (CHOOSE x \in at : \A y \in at : x <= y) = i
      BY <1>1, <2>1, <2>2
    <3>2. Trail(f) = SubSeq(b, 1, CHOOSE x \in at : \A y \in at : x <= y)
      BY <1>3, Zenon DEF Trail
    <3> QED
      BY <3>1, <3>2
  <2>4. i \in Int /\ 1 <= i /\ \A x \in 1..i : b[x] \in Folders
    BY <1>1, <2>1
  <2>5. /\ SubSeq(b, 1, i) \in Seq(Folders) /\ Len(SubSeq(b, 1, i)) = i
        /\ \A x \in 1..i : SubSeq(b, 1, i)[x] = b[x]
    <3>1. /\ SubSeq(b, 1, i) \in Seq(Folders)
          /\ Len(SubSeq(b, 1, i)) = IF 1 <= i THEN i - 1 + 1 ELSE 0
          /\ \A x \in 1..(i - 1 + 1) : SubSeq(b, 1, i)[x] = b[1 + x - 1]
      BY <2>4, SubSeqProperties
    <3>2. i - 1 + 1 = i /\ \A x \in 1..i : 1 + x - 1 = x
      BY <2>4
    <3> QED
      BY <2>4, <3>1, <3>2
  <2>6. DOMAIN SubSeq(b, 1, i) = 1..i
    BY <2>5, LenProperties
  <2>7. SubSeq(b, 1, i) # <<>>
    BY <2>4, <2>5, EmptySeq
  <2>8. \A x, y \in 1..i : SubSeq(b, 1, i)[x] = SubSeq(b, 1, i)[y] => x = y
    BY <1>1, <2>1, <2>5
  <2> QED
    BY <1>3, <2>1, <2>3, <2>4, <2>5, <2>6, <2>7, <2>8
<1>4. CASE f # Root /\ at = {}
  <2>1. Trail(f) = Append(b, f) /\ f \in Folders
    BY <1>4 DEF Trail, Places
  <2>2. \A i \in 1..Len(b) : b[i] # f
    BY <1>1, <1>4
  <2>3. /\ Append(b, f) \in Seq(Folders) /\ Len(Append(b, f)) = Len(b) + 1
        /\ Append(b, f)[Len(b) + 1] = f
        /\ \A i \in 1..Len(b) : Append(b, f)[i] = b[i]
    BY <1>1, <2>1, AppendProperties
  <2>4. DOMAIN Append(b, f) = 1..(Len(b) + 1) /\ Append(b, f) # <<>>
    BY <1>1, <2>3, LenProperties, EmptySeq
  <2>5. \A x, y \in 1..(Len(b) + 1) : Append(b, f)[x] = Append(b, f)[y] => x = y
    BY <1>1, <2>2, <2>3
  <2> QED
    BY <1>4, <2>1, <2>3, <2>4, <2>5
<1> QED
  BY <1>2, <1>3, <1>4

\* Breadcrumbs without repetition are no more than there are folders.
LEMMA TrailLength ==
    ASSUME breadcrumbs \in Seq(Folders), TrailEndsHere
    PROVE  Len(breadcrumbs) <= Cardinality(Folders)
<1> DEFINE n == Len(breadcrumbs)
<1>1. n \in Nat /\ breadcrumbs \in [1..n -> Folders] /\ DOMAIN breadcrumbs = 1..n
  BY LenProperties
<1>2. IsFiniteSet(1..n) /\ Cardinality(1..n) = n
  BY <1>1, FS_Interval
<1>3. Cardinality(Folders) \in Nat /\ IsFiniteSet(Folders)
  BY FS_CardinalityType
<1>4. ASSUME Cardinality(Folders) < n PROVE FALSE
  <2>1. \E x, y \in 1..n : x # y /\ breadcrumbs[x] = breadcrumbs[y]
    BY <1>1, <1>2, <1>3, <1>4, FS_PigeonHole
  <2> QED
    BY <1>1, <2>1 DEF TrailEndsHere
<1> QED
  BY <1>1, <1>3, <1>4

-----------------------------------------------------------------------------
(* Requests and dialogs *)

LEMMA OwnParts ==
    ASSUME DialogTypes
    PROVE  AnswersOwnDialog <=> Flagged /\ Single /\ Kept
<1>1. ASSUME AnswersOwnDialog PROVE Flagged /\ Single /\ Kept
  <2>1. Flagged
    BY <1>1 DEF AnswersOwnDialog, Flagged, Out
  <2>2. Single
    BY <1>1 DEF AnswersOwnDialog, Single, Out
  <2>3. Kept
    BY <1>1 DEF AnswersOwnDialog, Kept, Out, Asking, Changes
  <2> QED
    BY <2>1, <2>2, <2>3
<1>2. ASSUME Flagged, Single, Kept PROVE AnswersOwnDialog
  <2> SUFFICES ASSUME NEW k \in Changes
               PROVE  /\ k \in busy <=> Out(k) # {}
                      /\ \A s, t \in Out(k) :
                            /\ s = t
                            /\ k \in Asking /\ requests[s].tie = "kept" =>
                                  dialog = [kind |-> k, item |-> requests[s].item]
    BY DEF AnswersOwnDialog
  <2>1. k \in busy <=> Out(k) # {}
    BY <1>2 DEF Flagged, Out
  <2>2. ASSUME NEW s \in Out(k), NEW t \in Out(k) PROVE s = t
    BY <1>2, <2>2 DEF Single, Out
  <2>3. ASSUME NEW s \in Out(k), k \in Asking, requests[s].tie = "kept"
        PROVE  dialog = [kind |-> k, item |-> requests[s].item]
    <3>1. dialog.kind = k /\ dialog.item = requests[s].item
      BY <1>2, <2>3 DEF Kept, Out
    <3> QED
      BY <3>1 DEF DialogTypes
  <2> QED
    BY <2>1, <2>2, <2>3
<1> QED
  BY <1>1, <1>2

LEMMA PutIs ==
    ASSUME RequestTypes, NEW s \in Slots, NEW r \in Asked, Put(s, r)
    PROVE  /\ requests' \in [Slots -> Asked] /\ requests'[s] = r
           /\ \A t \in Slots : t # s => requests'[t] = requests[t]
BY DEF RequestTypes, Put

LEMMA NoRequestTyped == NoRequest \in Asked
BY DEF NoRequest, Asked, Places

LEMMA ListTyped ==
    ASSUME NEW p \in Places
    PROVE  [NoRequest EXCEPT !.kind = "list", !.folder = p] \in Asked
BY DEF NoRequest, Asked, Places, Kinds

LEMMA RequestTyped ==
    ASSUME PageTypes, NEW k \in Kinds, NEW i \in Items \cup {None}
    PROVE  Request(k, i) \in Asked
BY DEF PageTypes, Request, NoRequest, Asked, Places

\* A change leaves each item in a place, or nowhere.
LEMMA EffectsTyped ==
    ASSUME NodeTypes, NEW r \in Asked, NEW t \in Effects(r)
    PROVE  t \in [Items -> Places \cup Absent]
<1>1. r.folder \in Places \cup Absent
  BY DEF Asked
<1>2. "gone" \in Places \cup Absent
  BY DEF Absent
<1>3. CASE r.kind = "create"
  BY <1>1, <1>3 DEF Effects, NodeTypes
<1>4. CASE r.kind = "upload"
  BY <1>1, <1>4 DEF Effects, NodeTypes
<1>5. CASE r.kind = "deleteFile"
  BY <1>2, <1>5 DEF Effects, NodeTypes
<1>6. CASE r.kind = "deleteFolder"
  <2>1. t = [i \in Items |-> IF i \in Below(r.item) \cup {r.item} THEN "gone" ELSE tree[i]]
    BY <1>6 DEF Effects
  <2>2. \A i \in Items : tree[i] \in Places \cup Absent
    BY DEF NodeTypes
  <2> HIDE DEF Below
  <2> QED
    BY <1>2, <2>1, <2>2
<1>7. CASE r.kind \notin {"create", "upload", "deleteFile", "deleteFolder"}
  BY <1>7 DEF Effects, NodeTypes
<1> QED
  BY <1>3, <1>4, <1>5, <1>6, <1>7

-----------------------------------------------------------------------------
(* Every step preserves the invariant *)

LEMMA InitIInv == ASSUME Init PROVE IInv
<1>1. requests = [s \in Slots |-> NoRequest] /\ \A s \in Slots : requests[s].kind = "none"
  BY DEF Init, NoRequest
<1>2. Types
  BY NoRequestTyped, EmptySeq DEF Init, Types, PageTypes, DialogTypes, RequestTypes, NodeTypes,
                                  Places, Closed, Absent
<1>3. TrailEndsHere
  <2>1. DOMAIN <<>> = {}
    OBVIOUS
  <2> QED
    BY <2>1 DEF Init, TrailEndsHere
<1>4. Flagged /\ Single /\ Kept
  BY <1>1 DEF Init, Flagged, Single, Kept, Changes, Asking
<1>5. Following /\ Fresh
  BY <1>1 DEF Init, Following, Fresh
<1> QED
  BY <1>2, <1>3, <1>4, <1>5 DEF IInv

\* A listing is asked for, in a free slot or in that of a change that is answered.
LEMMA LoadsIInv ==
    ASSUME IInv, NEW s \in Slots, NEW p \in Places, LoadDirectory(s, p),
           requests[s] = NoRequest,
           UNCHANGED <<current, breadcrumbs, rows, dialogs, tree, stale>>
    PROVE  IInv'
<1> DEFINE r == [NoRequest EXCEPT !.kind = "list", !.folder = p]
<1>1. /\ requests' \in [Slots -> Asked] /\ requests'[s] = r
      /\ \A t \in Slots : t # s => requests'[t] = requests[t]
  BY PutIs, ListTyped DEF IInv, Types, LoadDirectory
<1>2. r.kind = "list" /\ r.at = "out" /\ requests[s].kind = "none"
  BY DEF NoRequest
<1>3. Types'
  BY <1>1 DEF IInv, Types, PageTypes, DialogTypes, RequestTypes, NodeTypes, LoadDirectory, dialogs
<1>4. TrailEndsHere'
  BY DEF IInv, TrailEndsHere
<1>5. Flagged' /\ Single' /\ Kept'
  <2>1. \A t \in Slots : requests'[t].kind \in Changes => t # s
    BY <1>1, <1>2 DEF Changes
  <2>2. Flagged'
    BY <1>1, <1>2, <2>1 DEF IInv, Flagged, dialogs, Changes
  <2>3. Single'
    BY <1>1, <2>1 DEF IInv, Single, dialogs
  <2>4. Kept'
    BY <1>1, <2>1 DEF IInv, Kept, dialogs, Asking, Changes
  <2> QED
    BY <2>2, <2>3, <2>4
<1>6. Following' /\ Fresh'
  BY <1>1, <1>2 DEF Following, Fresh, LoadDirectory
<1> QED
  BY <1>3, <1>4, <1>5, <1>6 DEF IInv

\* A listing comes: the rows are the node's, or the history tells that they need not be.
LEMMA ListedIInv ==
    ASSUME IInv, NEW s \in Slots, Listed(s)
    PROVE  IInv'
<1> DEFINE r == requests[s]
<1>1. /\ requests' \in [Slots -> Asked] /\ requests'[s] = NoRequest
      /\ \A t \in Slots : t # s => requests'[t] = requests[t]
  BY PutIs, NoRequestTyped DEF IInv, Types, Listed, Free
<1>2. r.kind = "list" /\ r.folder \in Places /\ r.rows \subseteq Items
  BY DEF Listed, IInv, Types, RequestTypes, Asked
<1>3. NoRequest.kind = "none"
  BY DEF NoRequest
<1>4. /\ Trail(r.folder) \in Seq(Folders)
      /\ r.folder = Root <=> Trail(r.folder) = <<>>
      /\ Trail(r.folder) # <<>> => Trail(r.folder)[Len(Trail(r.folder))] = r.folder
      /\ \A i, j \in DOMAIN Trail(r.folder) : Trail(r.folder)[i] = Trail(r.folder)[j] => i = j
  BY <1>2, TrailIs DEF IInv, Types, PageTypes
<1>5. Types'
  <2>1. PageTypes'
    BY <1>2, <1>4 DEF Listed, PageTypes
  <2>2. DialogTypes' /\ RequestTypes'
    BY <1>1 DEF IInv, Types, DialogTypes, RequestTypes, Listed, dialogs
  <2>3. stale' \in BOOLEAN
    <3>1. stale' = (s # last \/ r.tie = "left")
      BY Zenon DEF Listed
    <3>2. (s # last \/ r.tie = "left") \in BOOLEAN
      BY SMT
    <3> QED
      BY <3>1, <3>2, Zenon
  <2>4. NodeTypes'
    BY <2>3 DEF IInv, Types, NodeTypes, Listed
  <2> QED
    BY <2>1, <2>2, <2>4 DEF Types
<1>6. TrailEndsHere'
  <2>1. current' = r.folder /\ breadcrumbs' = Trail(r.folder)
    BY DEF Listed
  <2> HIDE DEF r
  <2> QED
    BY <1>4, <2>1, Zenon DEF TrailEndsHere
<1>7. Flagged' /\ Single' /\ Kept'
  <2>1. Flagged'
    BY <1>1, <1>2, <1>3 DEF IInv, Flagged, Listed, dialogs, Changes
  <2>2. Single'
    BY <1>1, <1>3 DEF IInv, Single, Changes
  <2>3. Kept'
    BY <1>1, <1>3 DEF IInv, Kept, Listed, dialogs, Asking
  <2> QED
    BY <2>1, <2>2, <2>3
<1>8. Following'
  <2>1. SUFFICES ASSUME ~stale'
                 PROVE  rows' = Contents(current)' \/ Unseen'
    BY DEF Following
  <2>2. s = last /\ r.tie = "kept"
    <3>1. ~(s # last \/ r.tie = "left")
      BY <2>1, Zenon DEF Listed
    <3> QED
      BY <3>1 DEF IInv, Types, RequestTypes, Asked
  <2>3. r.rows = Contents(r.folder) \/ Unseen
    BY <1>2, <2>2 DEF IInv, Fresh, Listed
  <2>4. CASE Unseen
    <3>1. PICK t \in Slots : requests[t].kind \in Changes /\ requests[t].at = "done"
      BY <2>4 DEF Unseen
    <3>2. t # s
      BY <1>2, <3>1 DEF Changes
    <3> QED
      BY <1>1, <3>1, <3>2 DEF Unseen
  <2>5. CASE r.rows = Contents(r.folder)
    BY <2>5 DEF Listed, Contents
  <2> QED
    BY <2>3, <2>4, <2>5
<1>9. Fresh'
  <2>1. CASE s = last
    BY <1>1, <1>3, <2>1 DEF Fresh, Listed
  <2>2. CASE s # last
    <3>1. Unseen => Unseen'
      BY <1>1, <1>2 DEF Unseen, Changes
    <3>2. requests'[last'] = requests[last] /\ tree' = tree
      BY <1>1, <2>2 DEF Listed, IInv, Types, RequestTypes
    <3> QED
      BY <3>1, <3>2 DEF Fresh, IInv, Contents
  <2> QED
    BY <2>1, <2>2
<1> QED
  BY <1>5, <1>6, <1>7, <1>8, <1>9 DEF IInv

\* A listing fails, or a download ends: a slot is freed that stood for no change.
LEMMA FreedIInv ==
    ASSUME IInv, NEW s \in Slots, ListFails(s) \/ Downloaded(s)
    PROVE  IInv'
<1>1. /\ requests' \in [Slots -> Asked] /\ requests'[s] = NoRequest
      /\ \A t \in Slots : t # s => requests'[t] = requests[t]
  BY PutIs, NoRequestTyped DEF IInv, Types, ListFails, Downloaded, Free
<1>2. requests[s].kind \in {"list", "download"} /\ NoRequest.kind = "none"
  BY DEF ListFails, Downloaded, NoRequest
<1>3. UNCHANGED <<current, breadcrumbs, rows, dialogs, tree, last>>
  BY DEF ListFails, Downloaded, page, history
<1>4. stale' = stale \/ stale' = (stale \/ s = last)
  BY Zenon DEF ListFails, Downloaded, history
<1>5. stale' \in BOOLEAN /\ (stale => stale')
  <2>1. stale \in BOOLEAN
    BY DEF IInv, Types, NodeTypes
  <2>2. (stale \/ s = last) \in BOOLEAN
    BY SMT
  <2>3. CASE stale' = stale
    BY <2>1, <2>3, Zenon
  <2>4. CASE stale' = (stale \/ s = last)
    <3>1. stale' \in BOOLEAN
      BY <2>2, <2>4, Zenon
    <3>2. stale => stale'
      BY <2>4, Zenon
    <3> QED
      BY <3>1, <3>2, Zenon
  <2> QED
    BY <1>4, <2>3, <2>4, Zenon
<1>6. requests[last].kind = "list" /\ requests'[last].kind # "list" => stale'
  <2>1. SUFFICES ASSUME requests[last].kind = "list", requests'[last].kind # "list"
                 PROVE  stale'
    OBVIOUS
  <2>2. s = last
    BY <1>1, <2>1 DEF IInv, Types, RequestTypes
  <2>3. ListFails(s)
    BY <2>1, <2>2 DEF Downloaded
  <2> QED
    BY <2>2, <2>3, Zenon DEF ListFails
<1>7. Types'
  <2>1. PageTypes'
    BY <1>3 DEF IInv, Types, PageTypes, ListFails, Downloaded, page
  <2>2. DialogTypes' /\ RequestTypes'
    BY <1>1, <1>3 DEF IInv, Types, DialogTypes, RequestTypes, dialogs
  <2>3. NodeTypes'
    BY <1>3, <1>5 DEF IInv, Types, NodeTypes
  <2> QED
    BY <2>1, <2>2, <2>3 DEF Types
<1>8. TrailEndsHere'
  BY <1>3 DEF IInv, TrailEndsHere
<1>9. Flagged' /\ Single' /\ Kept'
  <2>1. Flagged'
    BY <1>1, <1>2, <1>3 DEF IInv, Flagged, dialogs, Changes
  <2>2. Single'
    BY <1>1, <1>2 DEF IInv, Single, Changes
  <2>3. Kept'
    BY <1>1, <1>2, <1>3 DEF IInv, Kept, dialogs, Asking
  <2> QED
    BY <2>1, <2>2, <2>3
<1>10. Unseen => Unseen'
  BY <1>1, <1>2 DEF Unseen, Changes
<1>11. Following'
  <2>1. ~stale' => rows = Contents(current) \/ Unseen \/ requests[last].kind = "list"
    BY <1>5 DEF IInv, Following
  <2>2. rows = Contents(current) => rows' = Contents(current)'
    BY <1>3 DEF Contents
  <2>3. requests[last].kind = "list" => stale' \/ (requests[last].kind = "list")'
    BY <1>3, <1>6
  <2> QED
    BY <1>10, <2>1, <2>2, <2>3, Zenon DEF Following
<1>12. Fresh'
  <2>1. CASE s = last
    BY <1>1, <1>2, <1>3, <2>1 DEF Fresh
  <2>2. CASE s # last
    <3>1. requests'[last'] = requests[last] /\ tree' = tree
      BY <1>1, <1>3, <2>2 DEF IInv, Types, RequestTypes
    <3> QED
      BY <1>10, <3>1 DEF Fresh, IInv, Contents
  <2> QED
    BY <2>1, <2>2
<1> QED
  BY <1>7, <1>8, <1>9, <1>11, <1>12 DEF IInv

\* A dialog opens, when none is open.
LEMMA OpensIInv ==
    ASSUME IInv, NewFolder \/ MenuClick \/ RenameClick
    PROVE  IInv'
<1>1. /\ UNCHANGED <<page, requests, tree, last, stale>>
      /\ busy' = busy /\ errors' \subseteq errors
      /\ dialog.kind = "none"
  BY DEF NewFolder, MenuClick, FolderMenuDelete, FileMenuDelete, FileMenuShare, RenameClick,
         Opens, Closed, history
<1>2. dialog' \in [kind : Asking \cup {"none", "share"}, item : Items \cup {None}]
  <2>1. Shown \subseteq Items
    BY DEF Shown, IInv, Types, PageTypes
  <2>2. ASSUME NEW k \in Asking \cup {"none", "share"}, NEW i \in Items \cup {None}, Opens(k, i)
        PROVE  dialog' \in [kind : Asking \cup {"none", "share"}, item : Items \cup {None}]
    BY <2>2 DEF Opens
  <2>3. {"create", "rename", "deleteFile", "deleteFolder", "share"}
           \subseteq Asking \cup {"none", "share"}
    BY DEF Asking
  <2>4. CASE NewFolder
    BY <2>2, <2>3, <2>4 DEF NewFolder
  <2>5. CASE RenameClick
    BY <2>1, <2>2, <2>3, <2>5 DEF RenameClick
  <2>6. CASE MenuClick
    BY <2>1, <2>2, <2>3, <2>6 DEF MenuClick, FolderMenuDelete, FileMenuDelete, FileMenuShare
  <2> QED
    BY <2>4, <2>5, <2>6
<1>3. Types'
  BY <1>1, <1>2 DEF IInv, Types, PageTypes, DialogTypes, RequestTypes, NodeTypes, page
<1>4. TrailEndsHere'
  BY <1>1 DEF IInv, TrailEndsHere, page
<1>5. Flagged' /\ Single'
  BY <1>1 DEF IInv, Flagged, Single
<1>6. Kept'
  BY <1>1 DEF IInv, Kept, Asking
<1>7. Following' /\ Fresh'
  BY <1>1 DEF IInv, Following, Fresh, Unseen, Contents, page
<1> QED
  BY <1>3, <1>4, <1>5, <1>6, <1>7 DEF IInv

LEMMA LeaveIInv == ASSUME IInv, Leave PROVE IInv'
<1>1. /\ dialog.kind \in Asking \cup {"none", "share"} /\ dialog' = Closed
      /\ UNCHANGED <<page, errors, busy, tree, last, stale>>
  BY DEF Leave, IInv, Types, DialogTypes, history
<1>2. \A t \in Slots :
         requests'[t] = IF requests[t].kind = dialog.kind
                        THEN [requests[t] EXCEPT !.tie = "left"] ELSE requests[t]
  BY DEF Leave
<1>3. /\ requests' \in [Slots -> Asked]
      /\ \A t \in Slots : /\ requests'[t].kind = requests[t].kind
                          /\ requests'[t].at = requests[t].at
                          /\ requests'[t].item = requests[t].item
                          /\ requests'[t].kind = "list" => requests'[t] = requests[t]
                          /\ requests'[t].kind = dialog.kind => requests'[t].tie = "left"
                          /\ requests'[t].kind # dialog.kind => requests'[t] = requests[t]
  <2>1. \A t \in Slots : requests[t] \in Asked
    BY DEF IInv, Types, RequestTypes
  <2>2. \A t \in Slots : [requests[t] EXCEPT !.tie = "left"] \in Asked
    BY <2>1 DEF Asked
  <2>3. requests' \in [Slots -> Asked]
    BY <2>1, <2>2 DEF Leave
  <2> QED
    BY <1>1, <1>2, <2>1, <2>3 DEF Asked, Asking
<1>4. Types'
  BY <1>1, <1>3 DEF IInv, Types, PageTypes, DialogTypes, RequestTypes, NodeTypes, page, Closed
<1>5. TrailEndsHere'
  BY <1>1 DEF IInv, TrailEndsHere, page
<1>6. Flagged' /\ Single'
  <2>1. Flagged'
    BY <1>1, <1>3 DEF IInv, Flagged
  <2>2. Single'
    BY <1>3 DEF IInv, Single
  <2> QED
    BY <2>1, <2>2
<1>7. Kept'
  <2>1. SUFFICES ASSUME NEW t \in Slots, requests'[t].kind \in Asking, requests'[t].tie = "kept"
                 PROVE  FALSE
    BY DEF Kept
  <2>2. requests'[t].kind # dialog.kind /\ requests'[t] = requests[t]
    BY <1>3, <2>1
  <2> QED
    BY <2>1, <2>2 DEF IInv, Kept
<1>8. Unseen => Unseen'
  BY <1>3 DEF Unseen
<1>9. Following'
  <2>1. rows = Contents(current) => rows' = Contents(current)'
    BY <1>1 DEF Contents, page
  <2>2. requests[last].kind = "list" => (requests[last].kind = "list")'
    BY <1>1, <1>3 DEF IInv, Types, RequestTypes
  <2>3. stale' <=> stale
    BY <1>1
  <2> QED
    BY <1>8, <2>1, <2>2, <2>3, Zenon DEF IInv, Following
<1>10. Fresh'
  <2>1. (requests[last].kind = "list")' => requests'[last'] = requests[last]
    BY <1>1, <1>3 DEF IInv, Types, RequestTypes
  <2> QED
    BY <1>1, <1>8, <2>1 DEF IInv, Fresh, Contents
<1> QED
  BY <1>4, <1>5, <1>6, <1>7, <1>9, <1>10 DEF IInv

\* The request of a dialog, of a download or of an upload goes out in a free slot.
LEMMA SendsIInv ==
    ASSUME IInv, NEW s \in Slots, NEW k \in Changes \cup {"download"}, NEW i \in Items \cup {None},
           requests[s] = NoRequest, Put(s, Request(k, i)),
           k \in Changes => k \notin busy /\ busy' = busy \cup {k},
           k \in Asking => dialog.kind = k /\ dialog.item = i,
           k = "download" => busy' = busy,
           errors' \subseteq errors,
           UNCHANGED <<page, dialog, tree, history>>
    PROVE  IInv'
<1> DEFINE r == Request(k, i)
<1>1. /\ requests' \in [Slots -> Asked] /\ requests'[s] = r
      /\ \A t \in Slots : t # s => requests'[t] = requests[t]
  <2>1. r \in Asked
    BY RequestTyped DEF IInv, Types, Kinds
  <2> QED
    BY <2>1, PutIs DEF IInv, Types
<1>2. r.kind = k /\ r.at = "out" /\ r.item = i /\ requests[s].kind = "none"
  BY DEF Request, NoRequest
<1>3. "none" \notin Kinds /\ k # "list"
  BY DEF Kinds, Changes
<1>4. Types'
  BY <1>1 DEF IInv, Types, PageTypes, DialogTypes, RequestTypes, NodeTypes, page, history, Changes
<1>5. TrailEndsHere'
  BY DEF IInv, TrailEndsHere, page
<1>6. \A j \in Changes : j \in busy' <=> j \in busy \/ j = k
  BY DEF Changes
<1> HIDE DEF r
<1>7. Flagged'
  <2> SUFFICES ASSUME NEW j \in Changes
               PROVE  j \in busy' <=> \E t \in Slots : requests'[t].kind = j
    BY DEF Flagged
  <2>1. j \in busy <=> \E t \in Slots : requests[t].kind = j
    BY DEF IInv, Flagged
  <2>2. j # "none"
    BY DEF Changes
  <2> QED
    BY <1>1, <1>2, <1>6, <2>1, <2>2
<1>8. Single'
  <2>1. k \in Changes => \A t \in Slots : requests[t].kind # k
    BY DEF IInv, Flagged
  <2> QED
    BY <1>1, <1>2, <2>1 DEF IInv, Single
<1>9. Kept'
  BY <1>1, <1>2 DEF IInv, Kept
<1>10. Unseen => Unseen'
  BY <1>1, <1>2, <1>3 DEF Unseen, Kinds
<1>11. requests[last].kind = "list" <=> (requests[last].kind = "list")'
  BY <1>1, <1>2, <1>3 DEF IInv, Types, RequestTypes, history
<1>12. Following'
  <2>1. rows = Contents(current) => rows' = Contents(current)'
    BY DEF Contents, page
  <2>2. stale' <=> stale
    BY DEF history
  <2> QED
    BY <1>10, <1>11, <2>1, <2>2, Zenon DEF IInv, Following
<1>13. Fresh'
  <2>1. (requests[last].kind = "list")' => requests'[last'] = requests[last]
    BY <1>1, <1>2, <1>3 DEF IInv, Types, RequestTypes, history
  <2> QED
    BY <1>10, <2>1 DEF IInv, Fresh, Contents
<1> QED
  BY <1>4, <1>5, <1>7, <1>8, <1>9, <1>12, <1>13 DEF IInv

\* The node carries out a request: a change of it is on its way to the page, and a
\* listing is of the tree as it is.
LEMMA CarriedIInv ==
    ASSUME IInv, NEW s \in Slots, Carried(s)
    PROVE  IInv'
<1> DEFINE r == requests[s]
           q == [r EXCEPT !.at = "done",
                          !.rows = IF r.kind = "list" THEN Contents(r.folder) ELSE {}]
<1>1. r \in Asked /\ Contents(r.folder) \subseteq Items
  BY DEF IInv, Types, RequestTypes, Contents
<1>2. /\ q \in Asked
      /\ q.kind = r.kind /\ q.item = r.item /\ q.folder = r.folder /\ q.tie = r.tie
      /\ q.at = "done" /\ (r.kind = "list" => q.rows = Contents(r.folder))
  BY <1>1 DEF Asked
<1>3. Put(s, q) /\ tree' \in Effects(r) /\ UNCHANGED <<page, dialogs, history>>
  BY DEF Carried
<1> HIDE DEF q
<1>4. /\ requests' \in [Slots -> Asked] /\ requests'[s] = q
      /\ \A t \in Slots : t # s => requests'[t] = requests[t]
  BY <1>2, <1>3, PutIs DEF IInv, Types
<1>5. r.kind \in Changes \/ tree' = tree
  BY <1>3 DEF Effects, Changes
<1>6. Types'
  <2>1. tree' \in [Items -> Places \cup Absent]
    BY <1>1, <1>3, EffectsTyped DEF IInv, Types
  <2> QED
    BY <1>3, <1>4, <2>1 DEF IInv, Types, PageTypes, DialogTypes, RequestTypes, NodeTypes, page,
                            dialogs, history
<1>7. TrailEndsHere'
  BY <1>3 DEF IInv, TrailEndsHere, page
<1>8. \A t \in Slots : /\ requests'[t].kind = requests[t].kind
                      /\ requests'[t].item = requests[t].item
                      /\ requests'[t].tie = requests[t].tie
  BY <1>2, <1>4
<1>9. Flagged' /\ Single' /\ Kept'
  <2>1. Flagged'
    BY <1>3, <1>8 DEF IInv, Flagged, dialogs
  <2>2. Single'
    BY <1>8 DEF IInv, Single
  <2>3. Kept'
    BY <1>3, <1>8 DEF IInv, Kept, dialogs
  <2> QED
    BY <2>1, <2>2, <2>3
<1>10. Unseen => Unseen'
  BY <1>2, <1>4 DEF Unseen
<1>11. CASE r.kind \in Changes
  <2>1. Unseen'
    BY <1>2, <1>4, <1>11 DEF Unseen
  <2> QED
    BY <1>6, <1>7, <1>9, <2>1 DEF IInv, Following, Fresh
<1>12. CASE tree' = tree
  <2>1. Following'
    <3>1. rows = Contents(current) => rows' = Contents(current)'
      BY <1>3, <1>12 DEF Contents, page
    <3>2. requests[last].kind = "list" => (requests[last].kind = "list")'
      BY <1>3, <1>8 DEF IInv, Types, RequestTypes, history
    <3>3. stale' <=> stale
      BY <1>3 DEF history
    <3> QED
      BY <1>10, <3>1, <3>2, <3>3, Zenon DEF IInv, Following
  <2>2. Fresh'
    <3>1. CASE last = s
      BY <1>2, <1>3, <1>4, <1>12, <3>1 DEF Fresh, Contents, history
    <3>2. CASE last # s
      <4>1. requests'[last'] = requests[last]
        BY <1>3, <1>4, <3>2 DEF IInv, Types, RequestTypes, history
      <4> QED
        BY <1>10, <1>12, <4>1 DEF IInv, Fresh, Contents
    <3> QED
      BY <3>1, <3>2
  <2> QED
    BY <1>6, <1>7, <1>9, <2>1, <2>2 DEF IInv
<1> QED
  BY <1>5, <1>11, <1>12

\* A change is answered and the folder loaded again: the new listing is the last.
LEMMA ReloadsIInv ==
    ASSUME IInv, NEW s \in Slots, Submitted(s) \/ UploadComplete(s)
    PROVE  IInv'
<1> DEFINE k == requests[s].kind
           p == requests[s].folder
           r == [NoRequest EXCEPT !.kind = "list", !.folder = p]
<1>1. /\ k \in Changes /\ p \in Places
      /\ LoadDirectory(s, p)
      /\ busy' = busy \ {k}
      /\ UNCHANGED <<current, breadcrumbs, rows, errors, tree, stale>>
  BY DEF Submitted, UploadComplete, Idle, Asking, Changes, IInv, Types, RequestTypes, Asked
<1>2. dialog' = dialog \/ (dialog.kind = k /\ dialog' = Closed)
  BY DEF Submitted, UploadComplete, Closes
<1>3. /\ requests' \in [Slots -> Asked] /\ requests'[s] = r
      /\ \A t \in Slots : t # s => requests'[t] = requests[t]
  BY <1>1, PutIs, ListTyped DEF IInv, Types, LoadDirectory
<1>4. r.kind = "list" /\ r.at = "out" /\ "list" \notin Changes /\ Asking \subseteq Changes
  BY DEF NoRequest, Changes, Asking
<1> HIDE DEF r
<1>5. Types'
  <2>1. dialog' \in [kind : Asking \cup {"none", "share"}, item : Items \cup {None}]
    BY <1>2 DEF IInv, Types, DialogTypes, Closed
  <2>2. PageTypes'
    BY <1>1 DEF IInv, Types, PageTypes, LoadDirectory
  <2>3. DialogTypes'
    BY <1>1, <2>1 DEF IInv, Types, DialogTypes
  <2>4. RequestTypes' /\ NodeTypes'
    BY <1>1, <1>3 DEF IInv, Types, RequestTypes, NodeTypes, LoadDirectory
  <2> QED
    BY <2>2, <2>3, <2>4 DEF Types
<1>6. TrailEndsHere'
  BY <1>1 DEF IInv, TrailEndsHere
<1>7. \A t \in Slots : t # s => requests[t].kind # k
  BY <1>1 DEF IInv, Single
<1>8. Flagged'
  <2> SUFFICES ASSUME NEW j \in Changes
               PROVE  j \in busy' <=> \E t \in Slots : requests'[t].kind = j
    BY DEF Flagged
  <2>1. j \in busy <=> \E t \in Slots : requests[t].kind = j
    BY DEF IInv, Flagged
  <2>2. j \in busy' <=> j \in busy /\ j # k
    BY <1>1
  <2>3. (\E t \in Slots : requests'[t].kind = j) <=> (\E t \in Slots : t # s /\ requests[t].kind = j)
    BY <1>3, <1>4
  <2>4. CASE j = k
    BY <1>7, <2>2, <2>3, <2>4
  <2>5. CASE j # k
    BY <2>1, <2>2, <2>3, <2>5
  <2> QED
    BY <2>4, <2>5
<1>9. Single'
  BY <1>3, <1>4 DEF IInv, Single
<1>10. Kept'
  <2> SUFFICES ASSUME NEW t \in Slots, requests'[t].kind \in Asking, requests'[t].tie = "kept"
               PROVE  dialog'.kind = requests'[t].kind /\ dialog'.item = requests'[t].item
    BY DEF Kept
  <2>1. t # s /\ requests'[t] = requests[t]
    BY <1>3, <1>4
  <2>2. dialog.kind = requests[t].kind /\ dialog.item = requests[t].item
    BY <2>1 DEF IInv, Kept
  <2> QED
    BY <1>2, <1>7, <2>1, <2>2
<1>11. Following' /\ Fresh'
  BY <1>3, <1>4 DEF Following, Fresh, LoadDirectory, Submitted, UploadComplete
<1> QED
  BY <1>5, <1>6, <1>8, <1>9, <1>10, <1>11 DEF IInv

\* A change fails for the page.  If the node had made it, the history says so, and a
\* listing that was answered before is no longer to be trusted.
LEMMA FailsIInv ==
    ASSUME IInv, NEW s \in Slots, SubmitFails(s)
    PROVE  IInv'
<1> DEFINE r == requests[s]
           k == requests[s].kind
<1>1. /\ k \in Asking /\ k \in Changes /\ busy' = busy \ {k}
      /\ errors' \subseteq {"create", "rename"}
      /\ UNCHANGED <<page, tree, last>>
      /\ r.at \in {"out", "done"}
  BY DEF SubmitFails, Idle, Asking, Changes, IInv, Types, DialogTypes, RequestTypes, Asked
<1>2. dialog' = dialog \/ (dialog.kind = k /\ dialog' = Closed)
  BY DEF SubmitFails, Closes
<1>3. \A t \in Slots :
         requests'[t] = IF t = s THEN NoRequest
                        ELSE IF requests[t].kind = "list" /\ {r.at, requests[t].at} = {"done"}
                             THEN [requests[t] EXCEPT !.tie = "left"] ELSE requests[t]
  BY DEF SubmitFails
<1>4. \A t \in Slots : requests[t] \in Asked /\ [requests[t] EXCEPT !.tie = "left"] \in Asked
  BY DEF IInv, Types, RequestTypes, Asked
<1>5. NoRequest \in Asked /\ NoRequest.kind = "none"
  BY NoRequestTyped DEF NoRequest
<1>6. requests' \in [Slots -> Asked]
  BY <1>4, <1>5 DEF SubmitFails
<1>7. \A t \in Slots : t # s =>
         /\ requests'[t].kind = requests[t].kind /\ requests'[t].at = requests[t].at
         /\ requests[t].kind # "list" => requests'[t] = requests[t]
         /\ r.at = "out" => requests'[t] = requests[t]
         /\ (r.at = "done" /\ requests[t].kind = "list" /\ requests[t].at = "done")
               => requests'[t].tie = "left"
  <2> SUFFICES ASSUME NEW t \in Slots, t # s
               PROVE  /\ requests'[t].kind = requests[t].kind /\ requests'[t].at = requests[t].at
                      /\ requests[t].kind # "list" => requests'[t] = requests[t]
                      /\ r.at = "out" => requests'[t] = requests[t]
                      /\ (r.at = "done" /\ requests[t].kind = "list" /\ requests[t].at = "done")
                            => requests'[t].tie = "left"
    OBVIOUS
  <2>1. CASE requests[t].kind = "list" /\ {r.at, requests[t].at} = {"done"}
    <3>1. requests'[t] = [requests[t] EXCEPT !.tie = "left"]
      BY <1>3, <2>1
    <3>2. requests[t] \in Asked /\ r.at = "done"
      BY <1>4, <2>1
    <3> QED
      BY <2>1, <3>1, <3>2 DEF Asked
  <2>2. CASE ~(requests[t].kind = "list" /\ {r.at, requests[t].at} = {"done"})
    <3>1. requests'[t] = requests[t]
      BY <1>3, <2>2
    <3> QED
      BY <2>2, <3>1
  <2> QED
    BY <2>1, <2>2
<1>8. requests'[s] = NoRequest
  BY <1>3
<1>9. stale' = (stale \/ r.at = "done") /\ stale' \in BOOLEAN
  <2>1. stale' = (stale \/ r.at = "done")
    BY Zenon DEF SubmitFails
  <2>2. (stale \/ r.at = "done") \in BOOLEAN
    BY SMT
  <2> QED
    BY <2>1, <2>2, Zenon
<1>10. Types'
  <2>1. dialog' \in [kind : Asking \cup {"none", "share"}, item : Items \cup {None}]
    BY <1>2 DEF IInv, Types, DialogTypes, Closed
  <2>2. PageTypes' /\ DialogTypes'
    BY <1>1, <2>1 DEF IInv, Types, PageTypes, DialogTypes, page
  <2>3. RequestTypes' /\ NodeTypes'
    BY <1>1, <1>6, <1>9 DEF IInv, Types, RequestTypes, NodeTypes
  <2> QED
    BY <2>2, <2>3 DEF Types
<1>11. TrailEndsHere'
  BY <1>1 DEF IInv, TrailEndsHere, page
<1>12. \A t \in Slots : t # s => requests[t].kind # k
  BY <1>1 DEF IInv, Single
<1>13. Flagged'
  <2> SUFFICES ASSUME NEW j \in Changes
               PROVE  j \in busy' <=> \E t \in Slots : requests'[t].kind = j
    BY DEF Flagged
  <2>1. j \in busy <=> \E t \in Slots : requests[t].kind = j
    BY DEF IInv, Flagged
  <2>2. (\E t \in Slots : requests'[t].kind = j) <=> (\E t \in Slots : t # s /\ requests[t].kind = j)
    BY <1>5, <1>7, <1>8 DEF Changes
  <2>3. CASE j = k
    BY <1>1, <1>12, <2>2, <2>3
  <2>4. CASE j # k
    BY <1>1, <2>1, <2>2, <2>4
  <2> QED
    BY <2>3, <2>4
<1>14. Single'
  BY <1>5, <1>7, <1>8 DEF IInv, Single, Changes
<1>15. Kept'
  <2> SUFFICES ASSUME NEW t \in Slots, requests'[t].kind \in Asking, requests'[t].tie = "kept"
               PROVE  dialog'.kind = requests'[t].kind /\ dialog'.item = requests'[t].item
    BY DEF Kept
  <2>1. t # s
    BY <1>5, <1>8 DEF Asking
  <2>2. requests'[t] = requests[t]
    BY <1>7, <2>1 DEF Asking
  <2>3. dialog.kind = requests[t].kind /\ dialog.item = requests[t].item
    BY <2>2 DEF IInv, Kept
  <2> QED
    BY <1>2, <1>12, <2>1, <2>2, <2>3
<1>16. s # last => (requests[last].kind = "list" <=> requests'[last].kind = "list")
  BY <1>7 DEF IInv, Types, RequestTypes
<1>17. s = last => requests'[last].kind = "none" /\ requests[last].kind # "list"
  BY <1>1, <1>5, <1>8 DEF Asking
<1>18. CASE r.at = "done"
  <2>1. stale'
    BY <1>9, <1>18, Zenon
  <2>2. Fresh'
    <3>1. ASSUME requests'[last'].kind = "list", requests'[last'].at = "done",
                 requests'[last'].tie = "kept"
          PROVE  FALSE
      BY <1>1, <1>7, <1>17, <1>18, <3>1 DEF IInv, Types, RequestTypes
    <3> QED
      BY <3>1 DEF Fresh
  <2> QED
    BY <1>10, <1>11, <1>13, <1>14, <1>15, <2>1, <2>2 DEF IInv, Following
<1>19. CASE r.at = "out"
  <2>1. Unseen => Unseen'
    BY <1>7, <1>19 DEF Unseen
  <2>2. stale' <=> stale
    <3>1. stale' = (stale \/ FALSE)
      BY <1>9, <1>19
    <3> QED
      BY <3>1, Zenon
  <2>3. rows = Contents(current) => rows' = Contents(current)'
    BY <1>1 DEF Contents, page
  <2>4. requests[last].kind = "list" => (requests[last].kind = "list")'
    BY <1>1, <1>16, <1>17
  <2>5. Following'
    BY <2>1, <2>2, <2>3, <2>4, Zenon DEF IInv, Following
  <2>6. (requests[last].kind = "list")' => requests'[last'] = requests[last]
    BY <1>1, <1>7, <1>17, <1>19 DEF IInv, Types, RequestTypes
  <2>7. Fresh'
    BY <1>1, <2>1, <2>6 DEF IInv, Fresh, Contents
  <2> QED
    BY <1>10, <1>11, <1>13, <1>14, <1>15, <2>5, <2>7 DEF IInv
<1> QED
  BY <1>1, <1>18, <1>19

LEMMA NextIInv == ASSUME IInv, Next PROVE IInv'
<1>1. ASSUME NEW s \in Slots, Answers(s) PROVE IInv'
  BY <1>1, ListedIInv, FreedIInv, ReloadsIInv, FailsIInv DEF Answers
<1>2. ASSUME NEW s \in Slots, Carried(s) PROVE IInv'
  BY <1>2, CarriedIInv
<1>3. ASSUME NEW p \in Places, Load(p),
             UNCHANGED <<current, breadcrumbs, rows, dialogs, tree, stale>>
      PROVE  IInv'
  BY <1>3, LoadsIInv DEF Load
<1>4. Shown \subseteq Items /\ Folders \cap Shown \subseteq Places /\ Root \in Places
  BY DEF Shown, IInv, Types, PageTypes, Places
<1>5. CASE Authenticated
  BY <1>3, <1>4, <1>5 DEF Authenticated
<1>6. CASE FolderClick
  BY <1>3, <1>4, <1>6 DEF FolderClick
<1>7. CASE BreadcrumbNavigate
  <2>1. \A i \in DOMAIN breadcrumbs : breadcrumbs[i] \in Places
    BY DEF IInv, Types, PageTypes, Places
  <2>2. PICK p \in {Root} \cup {breadcrumbs[i] : i \in DOMAIN breadcrumbs} : Load(p)
    BY <1>7 DEF BreadcrumbNavigate
  <2>3. p \in Places
    BY <1>4, <2>1, <2>2
  <2> QED
    BY <1>3, <1>7, <2>2, <2>3 DEF BreadcrumbNavigate
<1>8. CASE NewFolder \/ MenuClick \/ RenameClick
  BY <1>8, OpensIInv
<1>9. CASE Leave
  BY <1>9, LeaveIInv
<1>10. dialog.item \in Items \cup {None}
  BY DEF IInv, Types, DialogTypes
<1>11. ASSUME NEW k \in Asking, dialog.kind = k, k \notin busy, Starts(k), errors' \subseteq errors,
              UNCHANGED <<page, dialog, tree, history>>
       PROVE  IInv'
  <2>1. PICK s \in Slots : requests[s] = NoRequest /\ Put(s, Request(k, dialog.item))
    BY <1>11 DEF Starts, Send
  <2>2. busy' = busy \cup {k} /\ k \in Changes /\ k # "download"
    BY <1>11 DEF Starts, Asking, Changes
  <2> QED
    BY <1>10, <1>11, <2>1, <2>2, SendsIInv
<1>12. CASE HandleCreateFolder
  BY <1>11, <1>12 DEF HandleCreateFolder, NewFolderDialog, Asking
<1>13. CASE ConfirmDelete
  BY <1>11, <1>13 DEF ConfirmDelete, DeleteFileDialog, Asking
<1>14. CASE ConfirmDeleteFolder
  BY <1>11, <1>14 DEF ConfirmDeleteFolder, DeleteFolderDialog, Asking
<1>15. CASE HandleRenameSubmit
  BY <1>11, <1>15 DEF HandleRenameSubmit, RenameDialog, Asking
<1>16. CASE HandleDownloadFile
  <2>1. PICK i \in Files \cap Shown : Send("download", i)
    BY <1>16 DEF HandleDownloadFile
  <2>2. PICK s \in Slots : requests[s] = NoRequest /\ Put(s, Request("download", i))
    BY <2>1 DEF Send
  <2>3. "download" \notin Changes /\ "download" \notin Asking /\ i \in Items \cup {None}
    BY <1>4 DEF Changes, Asking
  <2>4. busy' = busy /\ errors' \subseteq errors /\ UNCHANGED <<page, dialog, tree, history>>
    BY <1>16 DEF HandleDownloadFile, dialogs
  <2> QED
    BY <2>2, <2>3, <2>4, SendsIInv
<1>17. CASE Upload
  <2>1. PICK s \in Slots : requests[s] = NoRequest /\ Put(s, Request("upload", None))
    BY <1>17 DEF Upload, Send
  <2>2. "upload" \in Changes /\ "upload" \notin Asking /\ "upload" # "download"
    BY DEF Changes, Asking
  <2>3. /\ "upload" \notin busy /\ busy' = busy \cup {"upload"} /\ errors' \subseteq errors
        /\ UNCHANGED <<page, dialog, tree, history>>
    BY <1>17 DEF Upload
  <2> QED
    BY <2>1, <2>2, <2>3, SendsIInv
<1> QED
  BY <1>1, <1>2, <1>5, <1>6, <1>7, <1>8, <1>9, <1>12, <1>13, <1>14, <1>15, <1>16, <1>17
  DEF Next, User

LEMMA StutterIInv == ASSUME IInv, UNCHANGED vars PROVE IInv'
<1>1. UNCHANGED <<current, breadcrumbs, rows, isLoading, dialog, errors, busy, requests, tree,
                  last, stale>>
  BY DEF vars, page, dialogs, history
<1>2. Types'
  BY <1>1 DEF IInv, Types, PageTypes, DialogTypes, RequestTypes, NodeTypes
<1>3. TrailEndsHere' /\ Flagged' /\ Single' /\ Kept'
  BY <1>1 DEF IInv, TrailEndsHere, Flagged, Single, Kept
<1>4. Following' /\ Fresh'
  BY <1>1 DEF IInv, Following, Fresh, Unseen, Contents
<1> QED
  BY <1>2, <1>3, <1>4 DEF IInv

LEMMA Inductive == Spec => []IInv
<1>1. Init => IInv
  BY InitIInv
<1>2. IInv /\ [Next]_vars => IInv'
  BY NextIInv, StutterIInv
<1> QED
  BY <1>1, <1>2, PTL DEF Spec

-----------------------------------------------------------------------------
(* The theorems *)

\* Every reachable state is well-typed, and the breadcrumbs are no more than the folders.
THEOREM TypeCorrect == Spec => []TypeOK
<1>1. IInv => TypeOK
  <2> SUFFICES ASSUME IInv PROVE TypeOK
    OBVIOUS
  <2>1. Len(breadcrumbs) <= Cardinality(Folders)
    BY TrailLength DEF IInv, Types, PageTypes
  <2> QED
    BY <2>1 DEF IInv, Types, PageTypes, DialogTypes, RequestTypes, NodeTypes, TypeOK, Asked
<1> QED
  BY <1>1, Inductive, PTL

\* In whatever order listings come, the breadcrumbs end in the folder that is shown and
\* name none twice.
THEOREM TrailEnds == Spec => []TrailEndsHere
<1>1. IInv => TrailEndsHere
  BY DEF IInv
<1> QED
  BY <1>1, Inductive, PTL

\* With nothing out, the page shows what the node has in its folder, unless the history
\* says that an answer was lost or that an older listing came last.
THEOREM PageFollows == Spec => []RowsFollow
<1>1. IInv => RowsFollow
  <2> SUFFICES ASSUME IInv, \A s \in Slots : requests[s] = NoRequest, ~stale
               PROVE  rows = Contents(current)
    BY DEF RowsFollow
  <2>1. \A s \in Slots : requests[s].kind = "none"
    BY DEF NoRequest
  <2>2. ~Unseen /\ requests[last].kind # "list"
    BY <2>1 DEF Unseen, Changes, IInv, Types, RequestTypes
  <2> QED
    BY <2>2 DEF IInv, Following
<1> QED
  BY <1>1, Inductive, PTL

\* A busy button has one request out, and its answer meets the dialog it was made in as
\* long as the user has not left that dialog.
THEOREM OwnDialogs == Spec => []AnswersOwnDialog
<1>1. IInv => AnswersOwnDialog
  BY OwnParts DEF IInv, Types
<1> QED
  BY <1>1, Inductive, PTL
=============================================================================
