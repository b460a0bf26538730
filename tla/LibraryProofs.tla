---------------------------- MODULE LibraryProofs ----------------------------
(***************************************************************************)
(* Proofs about Library, for any folders, files, names, slugs and numbers   *)
(* of requests.                                                            *)
(*                                                                         *)
(* IInv is inductive and gives the types, that references hold, that a slug *)
(* names one link, and that an active file has its object: a commit that     *)
(* deletes rows takes along or moves what refers to them, and whatever the   *)
(* walk has erased stays in the hands of its request until the rows are gone.*)
(*                                                                         *)
(* On top of it, NoCycle makes every folder reachable from the root without *)
(* an induction along its chain of parents: going up one leaves every set    *)
(* of folders.  NoneForgotten says of every walk that each row it has to     *)
(* delete is in its hands, within the reach of an entry of its stack as the  *)
(* tables are now, or was moved by another deletion.                        *)
(***************************************************************************)
EXTENDS Library, SequenceTheorems, FiniteSetTheorems, TLAPS

TableTypes ==
    /\ parent \in [Folders -> Folders \cup {Root, "none", "gone"}]
    /\ name   \in [Folders -> Names \cup {"none"}]
    /\ place  \in [Files -> Folders \cup {Root, "none", "gone"}]
    /\ active \subseteq FileRows
    /\ shares \subseteq Share

RestTypes ==
    /\ object \subseteq Files
    /\ writer \in Requests \cup {NoOne}
    /\ torn \subseteq Files /\ moved \subseteq Files \cup Folders

Handlers == {Idle} \cup Insert \cup Rename \cup Link \cup Walking

RequestTypes == req \in [Requests -> Handlers]

LEMMA TypeParts == TypeOK <=> TableTypes /\ RestTypes /\ RequestTypes
BY Zenon DEF TypeOK, TableTypes, RestTypes, RequestTypes, Handlers

Types == TableTypes /\ RestTypes /\ RequestTypes

\* ActiveBacked, by what the requests in flight have erased.
Erased(q) == IF q.pc = "walk" THEN q.files ELSE {}

Backed == \A f \in active : f \in object \cup torn \/ \E r \in Requests : f \in Erased(req[r])

IInv == Types /\ ReferencesHold /\ OneLinkPerSlug /\ Backed

USE LibraryAssumption

-----------------------------------------------------------------------------
(* Requests and the walk *)

LEMMA ContentsTyped == ASSUME NEW d PROVE Contents(d) \subseteq Files \cup Folders
<1>1. Subtree(d) \subseteq FolderRows
  BY Zenon DEF Subtree
<1> QED
  BY <1>1 DEF Contents, FolderRows, FileRows

\* A handler is known by its pc.
LEMMA HandlerIs ==
    ASSUME NEW q \in Handlers
    PROVE  /\ q.pc = "insert" => q \in Insert
           /\ q.pc = "rename" => q \in Rename
           /\ q.pc = "share"  => q \in Link
           /\ q.pc = "walk"   => q \in Walking
BY DEF Handlers, Idle, Insert, Rename, Link, Walking

LEMMA BecomeIs ==
    ASSUME RequestTypes, NEW r \in Requests, NEW q \in Handlers, Become(r, q)
    PROVE  /\ RequestTypes' /\ req'[r] = q
           /\ \A s \in Requests : s # r => req'[s] = req[s]
BY DEF RequestTypes, Become

LEMMA ErasedIs == ASSUME NEW q \in Handlers PROVE Erased(q) \subseteq Files
BY HandlerIs DEF Erased, Walking

\* Entries for the members of a set, in some order.
LEMMA EntriesTyped ==
    ASSUME NEW S, IsFiniteSet(S), NEW l \in SetToSeqs(S), NEW do,
           \A x \in S : [do |-> do, id |-> x] \in Task
    PROVE  [i \in DOMAIN l |-> [do |-> do, id |-> l[i]]] \in Seq(Task)
<1>1. Cardinality(S) \in Nat
  BY FS_CardinalityType
<1>2. l \in [1..Cardinality(S) -> S]
  BY DEF SetToSeqs
<1>3. [i \in DOMAIN l |-> [do |-> do, id |-> l[i]]] \in [1..Cardinality(S) -> Task]
  BY <1>2
<1> QED
  BY <1>1, <1>3, SeqDef

\* The entries made for a set are for all of it.
LEMMA EntriesRange ==
    ASSUME NEW S, IsFiniteSet(S), NEW l \in SetToSeqs(S), NEW do, NEW x \in S
    PROVE  [do |-> do, id |-> x] \in Range([i \in DOMAIN l |-> [do |-> do, id |-> l[i]]])
<1>1. Cardinality(S) \in Nat
  BY FS_CardinalityType
<1>2. l \in Injection(1..Cardinality(S), S)
  BY Zenon DEF SetToSeqs, Injection, IsInjective
<1>3. Cardinality(1..Cardinality(S)) = Cardinality(S)
  BY <1>1, FS_Interval
<1>4. l \in Surjection(1..Cardinality(S), S)
  BY <1>2, <1>3, FS_Injection
<1>5. PICK i \in DOMAIN l : l[i] = x
  BY <1>4 DEF Surjection
<1> QED
  BY <1>5 DEF Range

LEMMA RangeOfBoth == \A l, m \in Seq(Task) : Range(l \o m) = Range(l) \cup Range(m)
BY RangeConcatenation

Entries(do, l, y) == [i \in DOMAIN l |-> [do |-> do, id |-> l[i]]] \o <<y>>

LEMMA EntriesThen ==
    ASSUME NEW S, IsFiniteSet(S), NEW l \in SetToSeqs(S), NEW do, NEW y \in Task,
           \A x \in S : [do |-> do, id |-> x] \in Task
    PROVE  /\ Entries(do, l, y) \in Seq(Task) /\ y \in Range(Entries(do, l, y))
           /\ \A x \in S : [do |-> do, id |-> x] \in Range(Entries(do, l, y))
<1> DEFINE m == [i \in DOMAIN l |-> [do |-> do, id |-> l[i]]]
<1>1. m \in Seq(Task) /\ \A x \in S : [do |-> do, id |-> x] \in Range(m)
  BY EntriesTyped, EntriesRange
<1>2. <<y>> \in Seq(Task) /\ y \in Range(<<y>>)
  BY DEF Range
<1> HIDE DEF m
<1>3. m \o <<y>> \in Seq(Task)
  BY <1>1, <1>2, ConcatProperties
<1>4. Range(m \o <<y>>) = Range(m) \cup Range(<<y>>)
  BY <1>1, <1>2, RangeOfBoth
<1> QED
  BY <1>1, <1>2, <1>3, <1>4 DEF m, Entries

\* The next entry of a walk, and the walk that goes on with other entries before the rest.
LEMMA WalkIs ==
    ASSUME NEW q \in Walking, q.todo # <<>>, NEW l \in Seq(Task)
    PROVE  /\ Head(q.todo) \in Task
           /\ Then(q, l) \in Walking /\ Then(q, l).files = q.files
           /\ Then(q, l).folders = q.folders
<1>1. q.todo \in Seq(Task)
  BY DEF Walking
<1>2. Head(q.todo) \in Task /\ Tail(q.todo) \in Seq(Task)
  BY <1>1, HeadTailProperties
<1>3. l \o Tail(q.todo) \in Seq(Task)
  BY <1>2, ConcatProperties
<1> QED
  BY <1>2, <1>3 DEF Then, Walking

\* A step that only changes one request, to one that has erased no less.
LEMMA RequestStep ==
    ASSUME IInv, NEW r \in Requests, NEW q \in Handlers, Become(r, q),
           Erased(req[r]) \subseteq Erased(q),
           UNCHANGED <<tables, object, history>>, writer' \in Requests \cup {NoOne}
    PROVE  IInv'
<1>1. UNCHANGED <<parent, name, place, active, shares, object, torn, moved>>
  BY DEF tables, history
<1>2. /\ RequestTypes' /\ req'[r] = q
      /\ \A s \in Requests : s # r => req'[s] = req[s]
  BY BecomeIs DEF IInv, Types
<1>3. Types'
  BY <1>1, <1>2 DEF IInv, Types, TableTypes, RestTypes, FileRows
<1>4. ReferencesHold' /\ OneLinkPerSlug'
  BY <1>1 DEF IInv, ReferencesHold, OneLinkPerSlug, FolderRows, FileRows, Parents
<1>5. Backed'
  <2> SUFFICES ASSUME NEW f \in active, f \notin object \cup torn
               PROVE  \E s \in Requests : f \in Erased(req'[s])
    BY <1>1 DEF Backed, Erased
  <2>1. PICK s \in Requests : f \in Erased(req[s])
    BY DEF IInv, Backed
  <2>2. CASE s = r
    BY <1>2, <2>1, <2>2
  <2>3. CASE s # r
    BY <1>2, <2>1, <2>3
  <2> QED
    BY <2>2, <2>3
<1> QED
  BY <1>3, <1>4, <1>5 DEF IInv

\* What the deletions of a handler leave of the tables.
LEMMA CommitTables ==
    ASSUME IInv, NEW r \in Requests, CommitDeletes(r), NEW F, NEW X,
           F = req[r].folders, X = req[r].files
    PROVE  /\ F \subseteq Folders /\ X \subseteq Files
           /\ FolderRows' = FolderRows \ F /\ FileRows' = FileRows \ X
           /\ \A d \in FolderRows' : parent'[d] = Orphaned(parent[d], F)
           /\ \A f \in FileRows' : place'[f] = Orphaned(place[f], F)
           /\ moved' = moved \cup {f \in Files \ X : place[f] \in F}
                       \cup UNION {Contents(d) : d \in {e \in Folders \ F : parent[e] \in F}}
<1>1. req[r] \in Walking
  BY HandlerIs DEF CommitDeletes, IInv, Types, RequestTypes
<1>2. F \subseteq Folders /\ X \subseteq Files
  BY <1>1 DEF Walking
<1>3. /\ parent' = [d \in Folders |-> IF d \in F THEN "gone" ELSE Orphaned(parent[d], F)]
      /\ place'  = [f \in Files |-> IF f \in X THEN "gone" ELSE Orphaned(place[f], F)]
      /\ moved' = moved \cup {f \in Files \ X : place[f] \in F}
                  \cup UNION {Contents(d) : d \in {e \in Folders \ F : parent[e] \in F}}
  BY Zenon DEF CommitDeletes
<1>4. FolderRows' = FolderRows \ F
  BY <1>2, <1>3 DEF FolderRows, Inserted, Orphaned
<1>5. FileRows' = FileRows \ X
  BY <1>2, <1>3 DEF FileRows, Inserted, Orphaned
<1>6. /\ \A d \in FolderRows' : parent'[d] = Orphaned(parent[d], F)
      /\ \A f \in FileRows' : place'[f] = Orphaned(place[f], F)
  BY <1>3, <1>4, <1>5 DEF FolderRows, FileRows
<1> QED
  BY <1>2, <1>3, <1>4, <1>5, <1>6

-----------------------------------------------------------------------------
(* Every step preserves the invariant *)

LEMMA InitIInv == ASSUME Init PROVE IInv
<1>1. Types
  BY DEF Init, Types, TableTypes, RestTypes, RequestTypes, Handlers
<1>2. ReferencesHold
  BY DEF Init, ReferencesHold, FolderRows, FileRows, Inserted
<1>3. OneLinkPerSlug /\ Backed
  BY DEF Init, OneLinkPerSlug, Backed
<1> QED
  BY <1>1, <1>2, <1>3 DEF IInv

\* A handler arrives.
LEMMA ArrivalsIInv == ASSUME IInv, NEW r \in Requests, Arrivals(r) PROVE IInv'
<1>1. ASSUME NEW q \in Handlers, Arrives(r, q) PROVE IInv'
  <2>1. Become(r, q) /\ Erased(req[r]) = {} /\ UNCHANGED <<tables, object, writer, history>>
    BY <1>1 DEF Arrives, Erased
  <2>2. writer' \in Requests \cup {NoOne}
    BY <2>1 DEF IInv, Types, RestTypes
  <2> QED
    BY <2>1, <2>2, RequestStep
<1>2. CASE CreateFolder(r)
  <2>1. PICK p \in Parents, n \in Names : Arrives(r, [pc |-> "insert", at |-> p, name |-> n])
    BY <1>2 DEF CreateFolder
  <2>2. [pc |-> "insert", at |-> p, name |-> n] \in Insert
    BY DEF Insert, Parents, FolderRows
  <2> QED
    BY <1>1, <2>1, <2>2 DEF Handlers
<1>3. CASE RenameFolder(r)
  <2>1. PICK d \in FolderRows, n \in Names : Arrives(r, [pc |-> "rename", at |-> d, name |-> n])
    BY <1>3 DEF RenameFolder
  <2>2. [pc |-> "rename", at |-> d, name |-> n] \in Rename
    BY DEF Rename, FolderRows
  <2> QED
    BY <1>1, <2>1, <2>2 DEF Handlers
<1>4. ASSUME NEW t \in Task, NEW w \in SUBSET (Files \cup Folders), Arrives(r, Walk(<<t>>, w))
      PROVE  IInv'
  <2>1. <<t>> \in Seq(Task)
    OBVIOUS
  <2>2. Walk(<<t>>, w) \in Walking
    BY <2>1 DEF Walk, Walking
  <2> QED
    BY <1>1, <1>4, <2>2 DEF Handlers
<1>5. CASE DeleteFolder(r)
  <2>1. PICK d \in FolderRows : Arrives(r, Walk(<<[do |-> "open", id |-> d]>>, Contents(d)))
    BY <1>5 DEF DeleteFolder
  <2>2. [do |-> "open", id |-> d] \in Task /\ Contents(d) \in SUBSET (Files \cup Folders)
    BY ContentsTyped DEF Task, FolderRows
  <2> QED
    BY <1>4, <2>1, <2>2
<1>6. CASE DeleteFile(r)
  <2>1. PICK f \in FileRows : Arrives(r, Walk(<<[do |-> "object", id |-> f]>>, {f}))
    BY <1>6 DEF DeleteFile
  <2>2. [do |-> "object", id |-> f] \in Task /\ {f} \in SUBSET (Files \cup Folders)
    BY DEF Task, FileRows
  <2> QED
    BY <1>4, <2>1, <2>2
<1>7. CASE CreateShare(r)
  <2>1. PICK f \in active, l \in Levels, g \in Slugs \cup LongSlugs :
           Arrives(r, [pc |-> "share", row |-> [file |-> f, level |-> l, slug |-> g]])
    BY <1>7 DEF CreateShare
  <2>2. [file |-> f, level |-> l, slug |-> g] \in Share
    BY DEF IInv, Types, TableTypes, FileRows, Share
  <2>3. [pc |-> "share", row |-> [file |-> f, level |-> l, slug |-> g]] \in Link
    BY <2>2 DEF Link
  <2> QED
    BY <1>1, <2>1, <2>3 DEF Handlers
<1> QED
  BY <1>2, <1>3, <1>5, <1>6, <1>7 DEF Arrivals

\* The walk goes on: what it erased it keeps in hand.
LEMMA WalkIInv ==
    ASSUME IInv, NEW r \in Requests,
           OpenFolder(r) \/ ReadFiles(r) \/ CloseFolder(r)
    PROVE  IInv'
<1> DEFINE q == req[r]
           d == Head(q.todo).id
<1>1. q \in Walking /\ q.todo # <<>> /\ q.pc = "walk"
  BY HandlerIs DEF OpenFolder, ReadFiles, CloseFolder, Next1, IInv, Types, RequestTypes
<1>2. writer' \in Requests \cup {NoOne} /\ UNCHANGED <<tables, object, history>>
  BY DEF OpenFolder, ReadFiles, CloseFolder, Reads, IInv, Types, RestTypes
<1>3. Head(q.todo) \in Task
  BY <1>1, WalkIs, EmptySeq
<1>4. ASSUME NEW p \in Walking, q.files \subseteq p.files, Become(r, p)
      PROVE  IInv'
  <2>1. p \in Handlers /\ Erased(q) \subseteq Erased(p)
    BY <1>1, <1>4 DEF Handlers, Erased, Walking
  <2> QED
    BY <1>2, <1>4, <2>1, RequestStep
<1>5. ASSUME NEW l \in Seq(Task), Become(r, Then(q, l)) PROVE IInv'
  <2>1. Then(q, l) \in Walking /\ Then(q, l).files = q.files
    BY <1>1, WalkIs
  <2> QED
    BY <1>4, <1>5, <2>1
<1>6. CASE OpenFolder(r)
  <2>1. PICK subs \in SetToSeqs(SubFolders(d)) :
           Become(r, Then(q, Entries("open", subs, [do |-> "files", id |-> d])))
    BY <1>6, Zenon DEF OpenFolder, Entries
  <2>2. d \in Folders
    BY <1>3, <1>6 DEF OpenFolder, Next1, Task
  <2>3. SubFolders(d) \subseteq Folders /\ IsFiniteSet(SubFolders(d))
    BY FS_Subset DEF SubFolders, FolderRows
  <2>4. /\ \A x \in SubFolders(d) : [do |-> "open", id |-> x] \in Task
        /\ [do |-> "files", id |-> d] \in Task
    BY <2>2, <2>3 DEF Task
  <2> HIDE DEF q, d
  <2> QED
    BY <1>5, <2>1, <2>3, <2>4, EntriesThen
<1>7. CASE ReadFiles(r)
  <2>1. PICK fs \in SetToSeqs(FilesIn(d)) :
           Become(r, Then(q, Entries("object", fs, [do |-> "close", id |-> d])))
    BY <1>7, Zenon DEF ReadFiles, Entries
  <2>2. d \in Folders
    BY <1>3, <1>7 DEF ReadFiles, Next1, Task
  <2>3. FilesIn(d) \subseteq Files /\ IsFiniteSet(FilesIn(d))
    BY FS_Subset DEF FilesIn, FileRows
  <2>4. /\ \A x \in FilesIn(d) : [do |-> "object", id |-> x] \in Task
        /\ [do |-> "close", id |-> d] \in Task
    BY <2>2, <2>3 DEF Task
  <2> HIDE DEF q, d
  <2> QED
    BY <1>5, <2>1, <2>3, <2>4, EntriesThen
<1>8. CASE CloseFolder(r)
  <2>1. Become(r, [Then(q, <<>>) EXCEPT !.folders = @ \cup {d}])
    BY <1>8, Zenon DEF CloseFolder
  <2>2. d \in Folders
    BY <1>3, <1>8 DEF CloseFolder, Next1, Task
  <2>3. Then(q, <<>>) \in Walking /\ Then(q, <<>>).files = q.files
    BY <1>1, WalkIs, EmptySeq
  <2>4. /\ [Then(q, <<>>) EXCEPT !.folders = @ \cup {d}] \in Walking
        /\ [Then(q, <<>>) EXCEPT !.folders = @ \cup {d}].files = q.files
    <3> HIDE DEF q, d
    <3> QED
      BY <2>2, <2>3 DEF Walking
  <2> QED
    BY <1>4, <2>1, <2>4
<1> QED
  BY <1>6, <1>7, <1>8

\* An object is erased: its file is in the hands of the walk.
LEMMA DeleteObjectIInv == ASSUME IInv, NEW r \in Requests, DeleteObject(r) PROVE IInv'
<1> DEFINE q == req[r]
           f == Head(q.todo).id
           p == [Then(q, <<>>) EXCEPT !.files = @ \cup {f}]
<1>1. q \in Walking /\ q.todo # <<>> /\ q.pc = "walk" /\ Head(q.todo).do = "object"
  BY HandlerIs DEF DeleteObject, Next1, IInv, Types, RequestTypes
<1>2. /\ Become(r, p) /\ object' = object \ {f}
      /\ UNCHANGED <<parent, name, place, active, shares, writer, torn, moved>>
  BY DEF DeleteObject, tables, history
<1>3. Head(q.todo) \in Task
  BY <1>1, WalkIs, EmptySeq
<1>4. f \in Files
  BY <1>1, <1>3 DEF Task
<1>5. Then(q, <<>>) \in Walking /\ Then(q, <<>>).files = q.files
  BY <1>1, WalkIs, EmptySeq
<1>6. p \in Walking /\ p.files = q.files \cup {f}
  <2> HIDE DEF q, f
  <2> QED
    BY <1>4, <1>5 DEF Walking
<1>7. p \in Handlers /\ Erased(p) = Erased(q) \cup {f}
  BY <1>1, <1>6 DEF Handlers, Erased, Walking
<1> HIDE DEF q, f, p
<1>8. /\ RequestTypes' /\ req'[r] = p
      /\ \A s \in Requests : s # r => req'[s] = req[s]
  BY <1>2, <1>7, BecomeIs DEF IInv, Types
<1>9. Types'
  BY <1>2, <1>8 DEF IInv, Types, TableTypes, RestTypes, FileRows
<1>10. ReferencesHold' /\ OneLinkPerSlug'
  BY <1>2 DEF IInv, ReferencesHold, OneLinkPerSlug, FolderRows, FileRows, Parents
<1>11. Backed'
  <2> SUFFICES ASSUME NEW g \in active, g \notin object' \cup torn
               PROVE  \E s \in Requests : g \in Erased(req'[s])
    BY <1>2 DEF Backed, Erased
  <2>1. CASE g = f
    BY <1>7, <1>8, <2>1
  <2>2. CASE g # f
    <3>1. PICK s \in Requests : g \in Erased(req[s])
      BY <1>2, <2>2 DEF IInv, Backed
    <3>2. CASE s = r
      BY <1>7, <1>8, <3>1, <3>2 DEF q
    <3>3. CASE s # r
      BY <1>8, <3>1, <3>3
    <3> QED
      BY <3>2, <3>3
  <2> QED
    BY <2>1, <2>2
<1> QED
  BY <1>9, <1>10, <1>11 DEF IInv

LEMMA AnswerIs ==
    ASSUME RequestTypes, NEW r \in Requests, Answer(r)
    PROVE  /\ RequestTypes' /\ Erased(req'[r]) = {}
           /\ \A s \in Requests : s # r => req'[s] = req[s]
<1>1. Idle \in Handlers /\ Erased(Idle) = {}
  BY DEF Handlers, Idle, Erased
<1> QED
  BY <1>1, BecomeIs DEF Answer

LEMMA WriterTyped ==
    ASSUME RestTypes, NEW r \in Requests, Committed(r) \/ RolledBack(r)
    PROVE  writer' \in Requests \cup {NoOne}
BY DEF RestTypes, Committed, RolledBack

\* A handler that erased nothing answers.
LEMMA AnswerBacked ==
    ASSUME IInv, NEW r \in Requests, Answer(r), Erased(req[r]) = {},
           UNCHANGED <<active, object, torn>>
    PROVE  Backed'
<1> SUFFICES ASSUME NEW f \in active, f \notin object \cup torn
             PROVE  \E s \in Requests : f \in Erased(req'[s])
  BY DEF Backed, Erased
<1>1. PICK s \in Requests : f \in Erased(req[s])
  BY DEF IInv, Backed
<1>2. s # r
  BY <1>1
<1> QED
  BY <1>1, <1>2, AnswerIs DEF IInv, Types

LEMMA InsertFolderIInv == ASSUME IInv, NEW r \in Requests, InsertFolder(r) PROVE IInv'
<1> DEFINE q == req[r]
<1>1. q \in Insert /\ Erased(q) = {}
  BY HandlerIs DEF InsertFolder, IInv, Types, RequestTypes, Erased
<1>2. Committed(r) /\ Answer(r) /\ UNCHANGED <<place, active, shares, object, torn, moved>>
  BY DEF InsertFolder, Committed, history
<1>3. RequestTypes' /\ writer' \in Requests \cup {NoOne}
  BY <1>2, AnswerIs, WriterTyped DEF IInv, Types
<1>4. Backed'
  BY <1>1, <1>2, AnswerBacked
<1>5. CASE ~KeyHolds(q.at)
  <2>1. UNCHANGED <<parent, name>>
    BY <1>5 DEF InsertFolder
  <2>2. Types'
    BY <1>2, <1>3, <2>1 DEF IInv, Types, TableTypes, RestTypes, FileRows
  <2>3. ReferencesHold' /\ OneLinkPerSlug'
    BY <1>2, <2>1 DEF IInv, ReferencesHold, OneLinkPerSlug, FolderRows, FileRows, Parents
  <2> QED
    BY <1>4, <2>2, <2>3 DEF IInv
<1>6. CASE KeyHolds(q.at)
  <2>1. PICK d \in Fresh : /\ parent' = [parent EXCEPT ![d] = q.at]
                           /\ name' = [name EXCEPT ![d] = q.name]
    BY <1>6 DEF InsertFolder
  <2>2. d \in Folders /\ parent[d] = "none"
    BY DEF Fresh
  <2>3. q.at \in Parents /\ q.name \in Names /\ Inserted(q.at)
    BY <1>1, <1>6 DEF Insert, KeyHolds, Parents, FolderRows, FileRows, Inserted
  <2> HIDE DEF q
  <2>4. FolderRows' = FolderRows \cup {d} /\ FileRows' = FileRows
    BY <1>2, <2>1, <2>2, <2>3 DEF IInv, Types, TableTypes, FolderRows, FileRows, Inserted
  <2>5. TableTypes'
    BY <1>2, <2>1, <2>2, <2>3, <2>4 DEF IInv, Types, TableTypes, Parents, FolderRows
  <2>6. RestTypes'
    BY <1>2, <1>3 DEF IInv, Types, RestTypes
  <2>7. ReferencesHold'
    BY <1>2, <2>1, <2>2, <2>3, <2>4 DEF IInv, Types, TableTypes, ReferencesHold, Parents
  <2>8. OneLinkPerSlug'
    BY <1>2 DEF IInv, OneLinkPerSlug
  <2> QED
    BY <1>3, <1>4, <2>5, <2>6, <2>7, <2>8 DEF IInv, Types
<1> QED
  BY <1>5, <1>6

LEMMA UpdateFolderIInv == ASSUME IInv, NEW r \in Requests, UpdateFolder(r) PROVE IInv'
<1>1. req[r] \in Rename /\ Erased(req[r]) = {}
  BY HandlerIs DEF UpdateFolder, IInv, Types, RequestTypes, Erased
<1>2. /\ Committed(r) /\ Answer(r)
      /\ UNCHANGED <<parent, place, active, shares, object, torn, moved>>
  BY DEF UpdateFolder, Committed, history
<1>3. RequestTypes' /\ writer' \in Requests \cup {NoOne}
  BY <1>2, AnswerIs, WriterTyped DEF IInv, Types
<1>4. name' \in [Folders -> Names \cup {"none"}]
  BY <1>1 DEF UpdateFolder, Rename, IInv, Types, TableTypes
<1>5. Types'
  BY <1>2, <1>3, <1>4 DEF IInv, Types, TableTypes, RestTypes, FileRows
<1>6. ReferencesHold' /\ OneLinkPerSlug'
  BY <1>2 DEF IInv, ReferencesHold, OneLinkPerSlug, FolderRows, FileRows, Parents
<1> QED
  BY <1>1, <1>2, <1>5, <1>6, AnswerBacked DEF IInv

LEMMA InsertShareIInv == ASSUME IInv, NEW r \in Requests, InsertShare(r) PROVE IInv'
<1> DEFINE row == req[r].row
<1>1. req[r] \in Link /\ Erased(req[r]) = {} /\ row \in Share
  BY HandlerIs DEF InsertShare, IInv, Types, RequestTypes, Erased, Link
<1>2. /\ Committed(r) /\ Answer(r)
      /\ UNCHANGED <<parent, name, place, active, object, torn, moved>>
      /\ shares' = IF SlugFree(row.slug) /\ KeyHolds(row.file) THEN shares \cup {row} ELSE shares
  BY DEF InsertShare, Committed, history
<1>3. RequestTypes' /\ writer' \in Requests \cup {NoOne}
  BY <1>2, AnswerIs, WriterTyped DEF IInv, Types
<1>4. KeyHolds(row.file) => row.file \in FileRows
  BY <1>1 DEF Share, KeyHolds, Parents, FolderRows
<1> HIDE DEF row
<1>5. shares' \subseteq Share
  BY <1>1, <1>2 DEF IInv, Types, TableTypes
<1>6. Types'
  BY <1>2, <1>3, <1>5 DEF IInv, Types, TableTypes, RestTypes, FileRows
<1>7. UNCHANGED <<FolderRows, FileRows, Parents>>
  BY <1>2 DEF FolderRows, FileRows, Parents
<1>8. ReferencesHold'
  BY <1>2, <1>4, <1>7 DEF IInv, ReferencesHold
<1>9. OneLinkPerSlug'
  BY <1>2 DEF IInv, OneLinkPerSlug, SlugFree
<1> QED
  BY <1>1, <1>2, <1>6, <1>8, <1>9, AnswerBacked DEF IInv

\* The rows are deleted, with the links to them; what refers to a deleted folder
\* without being deleted itself moves to the root.
LEMMA CommitIInv == ASSUME IInv, NEW r \in Requests, CommitDeletes(r) PROVE IInv'
<1> DEFINE F == req[r].folders
           X == req[r].files
<1>1. req[r] \in Walking /\ Erased(req[r]) = X
  BY HandlerIs DEF CommitDeletes, IInv, Types, RequestTypes, Erased
<1>2. /\ F \subseteq Folders /\ X \subseteq Files
      /\ FolderRows' = FolderRows \ F /\ FileRows' = FileRows \ X
  BY CommitTables
<1>3. /\ parent' = [d \in Folders |-> IF d \in F THEN "gone" ELSE Orphaned(parent[d], F)]
      /\ place'  = [f \in Files |-> IF f \in X THEN "gone" ELSE Orphaned(place[f], F)]
      /\ active' = active \ X /\ shares' = {s \in shares : s.file \notin X}
  BY DEF CommitDeletes
<1>4. Committed(r) /\ Answer(r) /\ UNCHANGED <<name, object, torn>>
  BY DEF CommitDeletes, Committed
<1>5. moved' \subseteq Files \cup Folders
  BY ContentsTyped, SMTT(30) DEF CommitDeletes, IInv, Types, RestTypes
<1> HIDE DEF F, X
<1>6. RequestTypes' /\ writer' \in Requests \cup {NoOne}
  BY <1>4, AnswerIs, WriterTyped DEF IInv, Types
<1>7. TableTypes'
  <2>1. parent' \in [Folders -> Folders \cup {Root, "none", "gone"}]
    BY <1>3 DEF IInv, Types, TableTypes, Orphaned
  <2>2. place' \in [Files -> Folders \cup {Root, "none", "gone"}]
    BY <1>3 DEF IInv, Types, TableTypes, Orphaned
  <2>3. active' \subseteq FileRows' /\ shares' \subseteq Share
    BY <1>3, <1>2 DEF IInv, Types, TableTypes
  <2> QED
    BY <1>4, <2>1, <2>2, <2>3 DEF IInv, Types, TableTypes
<1>8. RestTypes'
  BY <1>4, <1>5, <1>6 DEF IInv, Types, RestTypes
<1>9. ReferencesHold'
  <2>1. ASSUME NEW x \in Parents PROVE Orphaned(x, F) \in Parents'
    BY <1>2 DEF Orphaned, Parents
  <2>2. \A d \in FolderRows' : parent'[d] \in Parents'
    BY <1>3, <1>2, <2>1 DEF IInv, ReferencesHold, FolderRows
  <2>3. \A f \in FileRows' : place'[f] \in Parents'
    BY <1>3, <1>2, <2>1 DEF IInv, ReferencesHold, FileRows
  <2>4. \A s \in shares' : s.file \in FileRows'
    BY <1>3, <1>2 DEF IInv, ReferencesHold
  <2> QED
    BY <2>2, <2>3, <2>4 DEF ReferencesHold
<1>10. OneLinkPerSlug'
  BY <1>3 DEF IInv, OneLinkPerSlug
<1>11. Backed'
  <2> SUFFICES ASSUME NEW f \in active', f \notin object \cup torn
               PROVE  \E s \in Requests : f \in Erased(req'[s])
    BY <1>4 DEF Backed, Erased
  <2>1. PICK s \in Requests : f \in Erased(req[s])
    BY <1>3 DEF IInv, Backed
  <2>2. s # r
    BY <1>1, <1>3, <2>1
  <2> QED
    BY <1>4, <2>1, <2>2, AnswerIs DEF IInv, Types
<1> QED
  BY <1>6, <1>7, <1>8, <1>9, <1>10, <1>11 DEF IInv, Types

\* A handler fails: what it erased is torn.
LEMMA FailsIInv == ASSUME IInv, NEW r \in Requests, Fails(r) PROVE IInv'
<1> DEFINE X == Erased(req[r])
<1>1. /\ torn' = torn \cup X /\ RolledBack(r) /\ Answer(r)
      /\ UNCHANGED <<parent, name, place, active, shares, object, moved>>
  BY DEF Fails, Erased, tables
<1>2. X \subseteq Files
  BY ErasedIs DEF IInv, Types, RequestTypes
<1> HIDE DEF X
<1>3. RequestTypes' /\ writer' \in Requests \cup {NoOne}
  BY <1>1, AnswerIs, WriterTyped DEF IInv, Types
<1>4. Types'
  BY <1>1, <1>2, <1>3 DEF IInv, Types, TableTypes, RestTypes, FileRows
<1>5. ReferencesHold' /\ OneLinkPerSlug'
  BY <1>1 DEF IInv, ReferencesHold, OneLinkPerSlug, FolderRows, FileRows, Parents
<1>6. Backed'
  <2> SUFFICES ASSUME NEW f \in active, f \notin object \cup torn'
               PROVE  \E s \in Requests : f \in Erased(req'[s])
    BY <1>1 DEF Backed, Erased
  <2>1. PICK s \in Requests : f \in Erased(req[s])
    BY <1>1 DEF IInv, Backed
  <2>2. s # r
    BY <1>1, <2>1 DEF X
  <2> QED
    BY <1>1, <2>1, <2>2, AnswerIs DEF IInv, Types
<1> QED
  BY <1>4, <1>5, <1>6 DEF IInv

LEMMA CrashIInv == ASSUME IInv, Crash PROVE IInv'
<1> DEFINE X == UNION {Erased(req[r]) : r \in Requests}
<1>1. /\ req' = [r \in Requests |-> Idle] /\ writer' = NoOne
      /\ UNCHANGED <<parent, name, place, active, shares, object, moved>>
  BY DEF Crash, tables
<1>2. torn' = torn \cup X
  BY DEF Crash, Erased
<1>3. X \subseteq Files
  BY ErasedIs DEF IInv, Types, RequestTypes
<1>4. \A r \in Requests : Erased(req[r]) \subseteq X
  OBVIOUS
<1> HIDE DEF X
<1>5. Types'
  BY <1>1, <1>2, <1>3 DEF IInv, Types, TableTypes, RestTypes, RequestTypes, Handlers, FileRows
<1>6. ReferencesHold' /\ OneLinkPerSlug'
  BY <1>1 DEF IInv, ReferencesHold, OneLinkPerSlug, FolderRows, FileRows, Parents
<1>7. \A f \in active : f \in object \cup torn'
  BY <1>2, <1>4 DEF IInv, Backed
<1>8. Backed'
  BY <1>1, <1>7 DEF Backed
<1> QED
  BY <1>5, <1>6, <1>8 DEF IInv

\* A file is inserted into the root or a folder that exists.
LEMMA InsertFileIInv ==
    ASSUME IInv, NEW f \in Files, NEW p \in Parents, InsertFile(f, p) PROVE IInv'
<1>1. /\ place[f] = "none" /\ place' = [place EXCEPT ![f] = p]
      /\ UNCHANGED <<parent, name, active, shares, object, writer, req, torn, moved>>
  BY DEF InsertFile, history
<1>2. p \in Folders \cup {Root} /\ Inserted(p)
  BY DEF Parents, FolderRows, Inserted
<1>3. FileRows' = FileRows \cup {f} /\ FolderRows' = FolderRows /\ Parents' = Parents
  BY <1>1, <1>2 DEF FolderRows, FileRows, Parents, Inserted, IInv, Types, TableTypes
<1>4. Types'
  BY <1>1, <1>2, <1>3 DEF IInv, Types, TableTypes, RestTypes, RequestTypes
<1>5. ReferencesHold'
  BY <1>1, <1>3 DEF IInv, Types, TableTypes, ReferencesHold
<1>6. OneLinkPerSlug' /\ Backed'
  BY <1>1 DEF IInv, OneLinkPerSlug, Backed, Erased
<1> QED
  BY <1>4, <1>5, <1>6 DEF IInv

LEMMA PublishIInv == ASSUME IInv, NEW f \in Files, Publish(f) PROVE IInv'
<1>1. /\ f \in FileRows /\ active' = active \cup {f} /\ object' = object \cup {f}
      /\ UNCHANGED <<parent, name, place, shares, writer, req, torn, moved>>
  BY DEF Publish, history
<1>2. Types'
  BY <1>1 DEF IInv, Types, TableTypes, RestTypes, RequestTypes, FileRows
<1>3. ReferencesHold' /\ OneLinkPerSlug'
  BY <1>1 DEF IInv, ReferencesHold, OneLinkPerSlug, FolderRows, FileRows, Parents
<1>4. Backed'
  BY <1>1 DEF IInv, Backed, Erased
<1> QED
  BY <1>2, <1>3, <1>4 DEF IInv

LEMMA StutterIInv == ASSUME IInv, UNCHANGED vars PROVE IInv'
<1>1. UNCHANGED <<parent, name, place, active, shares, object, writer, req, torn, moved>>
  BY DEF vars, tables, history
<1>2. Types'
  BY <1>1 DEF IInv, Types, TableTypes, RestTypes, RequestTypes, FileRows
<1>3. ReferencesHold' /\ OneLinkPerSlug'
  BY <1>1 DEF IInv, ReferencesHold, OneLinkPerSlug, FolderRows, FileRows, Parents
<1>4. Backed'
  BY <1>1 DEF IInv, Backed, Erased
<1> QED
  BY <1>2, <1>3, <1>4 DEF IInv

LEMMA Inductive == Spec => []IInv
<1>1. IInv /\ [Next]_vars => IInv'
  <2> SUFFICES ASSUME IInv, [Next]_vars PROVE IInv'
    OBVIOUS
  <2>1. CASE \E r \in Requests : Arrivals(r)
    BY <2>1, ArrivalsIInv
  <2>2. CASE \E r \in Requests : Serve(r)
    <3>1. PICK r \in Requests : Serve(r)
      BY <2>2
    <3> QED
      BY <3>1, InsertFolderIInv, UpdateFolderIInv, WalkIInv, DeleteObjectIInv, CommitIInv,
         InsertShareIInv DEF Serve
  <2>3. CASE \E r \in Requests : Fails(r)
    BY <2>3, FailsIInv
  <2>4. CASE \E f \in Files : Publish(f)
    BY <2>4, PublishIInv
  <2>5. CASE \E f \in Files, p \in Parents : InsertFile(f, p)
    BY <2>5, InsertFileIInv
  <2>6. CASE Crash
    BY <2>6, CrashIInv
  <2>7. CASE UNCHANGED vars
    BY <2>7, StutterIInv
  <2> QED
    BY <2>1, <2>2, <2>3, <2>4, <2>5, <2>6, <2>7 DEF Next
<1> QED
  BY <1>1, InitIInv, PTL DEF Spec

-----------------------------------------------------------------------------
(* The tree of folders *)

\* No set of folders holds all their parents: going up from a folder one leaves it.
NoCycle == \A S \in SUBSET FolderRows : S # {} => \E d \in S : parent[d] \notin S

\* d is in its own chain of parents, which goes on until a parent is no folder.
LEMMA AboveIs ==
    ASSUME NEW d \in FolderRows
    PROVE  /\ Above(d) \subseteq FolderRows /\ d \in Above(d)
           /\ \A c \in Above(d) : parent[c] \in FolderRows => parent[c] \in Above(d)
<1>1. Above(d) \subseteq FolderRows /\ d \in Above(d)
  BY Zenon DEF Above
<1>2. ASSUME NEW c \in Above(d), parent[c] \in FolderRows PROVE parent[c] \in Above(d)
  <2> SUFFICES ASSUME NEW S \in SUBSET FolderRows, d \in S,
                      \A e \in S : parent[e] \in FolderRows => parent[e] \in S
               PROVE  parent[c] \in S
    BY <1>2, Zenon DEF Above
  <2>1. c \in S
    BY Zenon DEF Above
  <2> QED
    BY <1>2, <2>1
<1> QED
  BY <1>1, <1>2

\* A folder is in its own subtree, and so are the subfolders of what is in it.
Nested ==
    /\ \A d \in FolderRows : d \in Subtree(d)
    /\ \A d, c \in FolderRows : parent[c] \in Subtree(d) => c \in Subtree(d)

LEMMA SubtreeDown == Nested
<1>1. \A d \in FolderRows : d \in Subtree(d)
  BY AboveIs, Zenon DEF Subtree
<1>2. ASSUME NEW d \in FolderRows, NEW c \in FolderRows, parent[c] \in Subtree(d)
      PROVE  c \in Subtree(d)
  <2>1. parent[c] \in FolderRows /\ d \in Above(parent[c])
    BY <1>2, Zenon DEF Subtree
  <2>2. d \in FolderRows /\ \A S \in SUBSET FolderRows :
           (parent[c] \in S /\ \A e \in S : parent[e] \in FolderRows => parent[e] \in S) => d \in S
    BY <2>1, Zenon DEF Above
  <2>3. ASSUME NEW S \in SUBSET FolderRows, c \in S,
               \A e \in S : parent[e] \in FolderRows => parent[e] \in S
        PROVE  d \in S
    BY <2>1, <2>2, <2>3
  <2>4. d \in Above(c)
    BY <2>2, <2>3, Zenon DEF Above
  <2> QED
    BY <2>4, Zenon DEF Subtree
<1> QED
  BY <1>1, <1>2 DEF Nested

\* The subtree of d is the least such set.
LEMMA SubtreeLeast ==
    ASSUME NEW d, NEW P, d \in P, \A c \in FolderRows : parent[c] \in P => c \in P
    PROVE  Subtree(d) \subseteq P
<1> SUFFICES ASSUME NEW e \in Subtree(d), e \notin P PROVE FALSE
  OBVIOUS
<1> DEFINE S == FolderRows \ P
<1>1. e \in FolderRows /\ d \in Above(e)
  BY Zenon DEF Subtree
<1>2. S \in SUBSET FolderRows /\ e \in S
  BY <1>1
<1>3. \A c \in S : parent[c] \in FolderRows => parent[c] \in S
  OBVIOUS
<1>4. d \notin S
  OBVIOUS
<1> HIDE DEF S
<1> QED
  BY <1>1, <1>2, <1>3, <1>4, Zenon DEF Above

\* What is in a folder: itself, its files, and what is in its subfolders.
LEMMA ContentsSplit ==
    ASSUME NEW d, NEW x \in Contents(d)
    PROVE  x = d \/ x \in FilesIn(d) \/ \E c \in SubFolders(d) : x \in Contents(c)
<1> DEFINE P == {d} \cup UNION {Subtree(c) : c \in SubFolders(d)}
<1>1. SubFolders(d) \subseteq FolderRows
  BY DEF SubFolders
<1>2. ASSUME NEW c \in FolderRows, parent[c] \in P PROVE c \in P
  <2>1. CASE parent[c] = d
    <3>1. c \in SubFolders(d) /\ c \in Subtree(c)
      BY <2>1, SubtreeDown DEF Nested, SubFolders
    <3> QED
      BY <3>1
  <2>2. CASE \E b \in SubFolders(d) : parent[c] \in Subtree(b)
    BY <1>1, <2>2, SubtreeDown DEF Nested
  <2> QED
    BY <1>2, <2>1, <2>2
<1>3. Subtree(d) \subseteq P
  BY <1>2, SubtreeLeast
<1>4. CASE x \in Subtree(d)
  BY <1>3, <1>4 DEF Contents
<1>5. CASE x \in FileRows /\ place[x] \in Subtree(d)
  <2>1. CASE place[x] = d
    BY <1>5, <2>1 DEF FilesIn
  <2>2. CASE \E c \in SubFolders(d) : place[x] \in Subtree(c)
    BY <1>5, <2>2 DEF Contents
  <2> QED
    BY <1>3, <1>5, <2>1, <2>2
<1> QED
  BY <1>4, <1>5 DEF Contents

\* What the insert of a folder does to the tree.
LEMMA InsertTables ==
    ASSUME IInv, NEW r \in Requests, InsertFolder(r)
    PROVE  /\ FileRows' = FileRows /\ UNCHANGED <<place, moved>>
           /\ \/ UNCHANGED parent
              \/ \E d \in Folders :
                    /\ parent[d] = "none" /\ d \notin FolderRows
                    /\ FolderRows' = FolderRows \cup {d} /\ parent'[d] \in Parents
                    /\ \A e \in Folders : e # d => parent'[e] = parent[e]
<1> DEFINE q == req[r]
<1>1. q \in Insert
  BY HandlerIs DEF InsertFolder, IInv, Types, RequestTypes
<1>2. FileRows' = FileRows /\ UNCHANGED <<place, moved>>
  BY DEF InsertFolder, FileRows, history
<1>3. CASE ~KeyHolds(q.at)
  BY <1>2, <1>3 DEF InsertFolder
<1>4. CASE KeyHolds(q.at)
  <2>1. PICK d \in Fresh : parent' = [parent EXCEPT ![d] = q.at]
    BY <1>4 DEF InsertFolder
  <2>2. d \in Folders /\ parent[d] = "none"
    BY DEF Fresh
  <2>3. q.at \in Parents /\ Inserted(q.at)
    BY <1>1, <1>4 DEF Insert, KeyHolds, Parents, FolderRows, FileRows, Inserted
  <2> HIDE DEF q
  <2>4. FolderRows' = FolderRows \cup {d} /\ d \notin FolderRows
    BY <2>1, <2>2, <2>3 DEF IInv, Types, TableTypes, FolderRows, Inserted
  <2> QED
    BY <1>2, <2>1, <2>2, <2>3, <2>4 DEF IInv, Types, TableTypes
<1> QED
  BY <1>3, <1>4

\* Every other step leaves the tree alone; an upload may place a file in it.
LEMMA OtherTables ==
    ASSUME [Next]_vars,
           ~\E r \in Requests : InsertFolder(r) \/ CommitDeletes(r),
           ~\E f \in Files, p \in Parents : InsertFile(f, p)
    PROVE  UNCHANGED <<parent, place, moved, FolderRows, FileRows>>
<1>1. UNCHANGED <<parent, place, moved>>
  <2>1. CASE \E r \in Requests : Arrivals(r)
    BY <2>1 DEF Arrivals, CreateFolder, RenameFolder, DeleteFolder, DeleteFile, CreateShare,
       Arrives, tables, history
  <2>2. CASE \E r \in Requests : Serve(r)
    BY <2>2 DEF Serve, UpdateFolder, OpenFolder, ReadFiles, DeleteObject, CloseFolder,
       InsertShare, tables, history
  <2>3. CASE (\E r \in Requests : Fails(r)) \/ Crash
    BY <2>3 DEF Fails, Crash, tables
  <2>4. CASE \E f \in Files : Publish(f)
    BY <2>4 DEF Publish, history
  <2>5. CASE UNCHANGED vars
    BY <2>5 DEF vars, tables, history
  <2> QED
    BY <2>1, <2>2, <2>3, <2>4, <2>5 DEF Next
<1> QED
  BY <1>1 DEF FolderRows, FileRows

LEMMA InsertFileTables ==
    ASSUME IInv, NEW f \in Files, NEW p \in Parents, InsertFile(f, p)
    PROVE  /\ place[f] = "none" /\ FileRows' = FileRows \cup {f} /\ f \notin FileRows
           /\ \A g \in Files : g # f => place'[g] = place[g]
           /\ UNCHANGED <<parent, FolderRows, moved, req>>
<1>1. p \in Folders \cup {Root} /\ Inserted(p)
  BY DEF Parents, FolderRows, Inserted
<1>2. /\ place[f] = "none" /\ place' = [place EXCEPT ![f] = p]
      /\ UNCHANGED <<parent, FolderRows, moved, req>>
  BY DEF InsertFile, history, FolderRows
<1> QED
  BY <1>1, <1>2 DEF FileRows, Inserted, IInv, Types, TableTypes

\* Folders that go, or move under the root, make no cycle.
LEMMA NoCycleShrinks ==
    ASSUME NoCycle, FolderRows' \subseteq FolderRows,
           \A d \in FolderRows' : parent'[d] = parent[d] \/ parent'[d] \notin FolderRows'
    PROVE  NoCycle'
<1> SUFFICES ASSUME NEW S \in SUBSET FolderRows', S # {}
             PROVE  \E d \in S : parent'[d] \notin S
  BY DEF NoCycle
<1>1. PICK d \in S : parent[d] \notin S
  BY DEF NoCycle
<1> QED
  BY <1>1

\* A folder is inserted below one that is there: nothing is below it yet.
LEMMA NoCycleGrows ==
    ASSUME IInv, NoCycle, NEW d \in Folders, d \notin FolderRows,
           FolderRows' = FolderRows \cup {d}, parent'[d] \in Parents,
           \A e \in Folders : e # d => parent'[e] = parent[e]
    PROVE  NoCycle'
<1> SUFFICES ASSUME NEW S \in SUBSET FolderRows', S # {}
             PROVE  \E e \in S : parent'[e] \notin S
  BY DEF NoCycle
<1>1. d \notin Parents /\ FolderRows \subseteq Folders
  BY DEF Parents, FolderRows
<1>2. CASE S \subseteq {d}
  BY <1>1, <1>2
<1>3. CASE ~(S \subseteq {d})
  <2>1. PICK e \in S \ {d} : parent[e] \notin S \ {d}
    <3>1. S \ {d} \in SUBSET FolderRows /\ S \ {d} # {}
      BY <1>3
    <3> QED
      BY <3>1 DEF NoCycle
  <2>2. parent[e] # d /\ parent'[e] = parent[e]
    BY <1>1, <2>1 DEF IInv, ReferencesHold
  <2> QED
    BY <2>1, <2>2
<1> QED
  BY <1>2, <1>3

LEMMA NoCycleStep == ASSUME IInv, NoCycle, [Next]_vars PROVE NoCycle'
<1>1. ASSUME NEW r \in Requests, InsertFolder(r) PROVE NoCycle'
  <2>1. CASE UNCHANGED parent
    BY <2>1, NoCycleShrinks DEF FolderRows
  <2>2. CASE ~UNCHANGED parent
    BY <1>1, <2>2, InsertTables, NoCycleGrows
  <2> QED
    BY <2>1, <2>2
<1>2. ASSUME NEW r \in Requests, CommitDeletes(r) PROVE NoCycle'
  <2>1. /\ FolderRows' = FolderRows \ req[r].folders
        /\ \A d \in FolderRows' : parent'[d] = Orphaned(parent[d], req[r].folders)
    BY <1>2, CommitTables
  <2>2. Root \notin FolderRows
    BY DEF FolderRows
  <2> QED
    BY <2>1, <2>2, NoCycleShrinks DEF Orphaned
<1>3. ASSUME NEW f \in Files, NEW p \in Parents, InsertFile(f, p) PROVE NoCycle'
  BY <1>3, InsertFileTables, NoCycleShrinks
<1>4. CASE UNCHANGED <<parent, FolderRows>>
  BY <1>4, NoCycleShrinks
<1> QED
  BY <1>1, <1>2, <1>3, <1>4, OtherTables

LEMMA NeverCycle == Spec => []NoCycle
<1>1. Init => NoCycle
  BY DEF Init, NoCycle, FolderRows, Inserted
<1> QED
  BY <1>1, NoCycleStep, Inductive, PTL DEF Spec

-----------------------------------------------------------------------------
(* A walk forgets nothing *)

Rows == FolderRows \cup FileRows

\* The ids that have been given out: an insert draws another one.
Used == {d \in Folders : parent[d] # "none"} \cup {f \in Files : place[f] # "none"}

\* What an entry of a walk will delete as the tables are now.
Owing(t) == CASE t.do = "open" -> Contents(t.id)
              [] t.do = "files" -> {t.id} \cup FilesIn(t.id)
              [] OTHER -> {t.id}

\* What a walk has in hand or will come by, or was moved out of its way.
Reaches(q, x) == x \in q.files \cup q.folders \cup moved \/ \E t \in Range(q.todo) : x \in Owing(t)

Unforgotten(q) == q.pc = "walk" => /\ q.owed \subseteq Used
                                   /\ \A x \in q.owed \cap Rows : Reaches(q, x)

NoneForgotten == \A r \in Requests : Unforgotten(req[r])

\* The entries there are when the next one is replaced by others.
LEMMA RangeThen ==
    ASSUME NEW q \in Walking, q.todo # <<>>, NEW l \in Seq(Task)
    PROVE  /\ Range(Then(q, l).todo) = Range(l) \cup Range(Tail(q.todo))
           /\ Range(q.todo) \subseteq {Head(q.todo)} \cup Range(Tail(q.todo))
<1>1. q.todo \in Seq(Task) /\ Tail(q.todo) \in Seq(Task)
  BY HeadTailProperties DEF Walking
<1>2. Then(q, l).todo = l \o Tail(q.todo)
  BY DEF Then, Walking
<1>3. Range(l \o Tail(q.todo)) = Range(l) \cup Range(Tail(q.todo))
  BY <1>1, RangeOfBoth
<1>4. ASSUME NEW t \in Range(q.todo), t # Head(q.todo) PROVE t \in Range(Tail(q.todo))
  <2>1. PICK i \in 1..Len(q.todo) : t = q.todo[i]
    BY <1>1, RangeEquality
  <2>2. i # 1
    BY <1>1, <1>4, <2>1
  <2>3. i - 1 \in 1..Len(Tail(q.todo)) /\ Tail(q.todo)[i - 1] = t
    BY <1>1, <2>1, <2>2
  <2> QED
    BY <1>1, <2>3, RangeEquality
<1> QED
  BY <1>2, <1>3, <1>4

\* A step of the tables that puts nothing out of the reach of an entry.
TablesKept ==
    /\ Used \subseteq Used' /\ Rows' \cap Used \subseteq Rows /\ moved \subseteq moved'
    /\ \A t \in Task : Owing(t) \cap Rows' \subseteq Owing(t)' \cup moved'

LEMMA UnforgottenKept ==
    ASSUME TablesKept, NEW q \in Handlers, Unforgotten(q)
    PROVE  Unforgotten(q)'
<1> SUFFICES ASSUME q.pc = "walk"
             PROVE  /\ q.owed \subseteq Used'
                    /\ \A x \in q.owed \cap Rows' : Reaches(q, x)'
  BY DEF Unforgotten
<1>1. q.owed \subseteq Used
  BY DEF Unforgotten
<1>2. ASSUME NEW x \in q.owed \cap Rows' PROVE Reaches(q, x)'
  <2>1. Reaches(q, x)
    BY <1>1, <1>2 DEF Unforgotten, TablesKept
  <2>2. CASE x \in q.files \cup q.folders \cup moved
    BY <2>2 DEF Reaches, TablesKept
  <2>3. CASE \E t \in Range(q.todo) : x \in Owing(t)
    <3>1. PICK t \in Range(q.todo) : x \in Owing(t)
      BY <2>3
    <3>2. t \in Task
      BY HandlerIs, RangeOfSeq DEF Walking
    <3>3. x \in Owing(t)' \cup moved'
      BY <1>2, <3>1, <3>2 DEF TablesKept
    <3> QED
      BY <3>1, <3>3 DEF Reaches
  <2> QED
    BY <2>1, <2>2, <2>3 DEF Reaches
<1> QED
  BY <1>1, <1>2 DEF TablesKept

LEMMA NoneForgottenKept ==
    ASSUME TablesKept,
           \A s \in Requests : \E q \in Handlers : req'[s] = q /\ Unforgotten(q)
    PROVE  NoneForgotten'
<1> SUFFICES ASSUME NEW s \in Requests PROVE Unforgotten(req[s])'
  BY DEF NoneForgotten
<1>1. PICK q \in Handlers : req'[s] = q /\ Unforgotten(q)
  OBVIOUS
<1>2. Unforgotten(q)'
  BY <1>1, UnforgottenKept
<1> QED
  BY <1>1, <1>2 DEF Unforgotten, Reaches

\* One request changes, the tables keep what the walks reach.
LEMMA OneRequest ==
    ASSUME IInv, NoneForgotten, TablesKept, NEW r \in Requests, NEW q \in Handlers,
           Become(r, q), Unforgotten(q)
    PROVE  NoneForgotten'
<1>1. /\ req'[r] = q
      /\ \A s \in Requests : s # r => req'[s] = req[s]
  BY BecomeIs DEF IInv, Types
<1>2. \A s \in Requests : req[s] \in Handlers /\ Unforgotten(req[s])
  BY DEF IInv, Types, RequestTypes, NoneForgotten
<1> QED
  BY <1>1, <1>2, NoneForgottenKept

LEMMA NotWalking == ASSUME NEW q \in Handlers, q.pc # "walk" PROVE Unforgotten(q)
BY DEF Unforgotten

LEMMA SameTables == ASSUME UNCHANGED <<parent, place, moved>> PROVE TablesKept
<1>1. UNCHANGED <<FolderRows, FileRows, Used>>
  BY DEF FolderRows, FileRows, Used
<1>2. ASSUME NEW d PROVE Subtree(d) \subseteq Subtree(d)'
  <2>1. ASSUME NEW e \in Subtree(d) PROVE e \in Subtree(d)'
    BY <1>1, Zenon DEF Subtree, Above
  <2> QED
    BY <2>1
<1>3. ASSUME NEW d PROVE Contents(d) \subseteq Contents(d)' /\ FilesIn(d) \subseteq FilesIn(d)'
  BY <1>1, <1>2 DEF Contents, FilesIn
<1>4. \A t \in Task : Owing(t) \subseteq Owing(t)'
  BY <1>3 DEF Owing
<1> QED
  BY <1>1, <1>4 DEF TablesKept, Rows

\* The walk itself: what its next entry owed, the entries put in its place owe, or it
\* has in hand.
LEMMA WalkOn ==
    ASSUME IInv, NoneForgotten, UNCHANGED <<parent, place, moved>>,
           NEW r \in Requests, NEW q \in Walking, q = req[r], q.pc = "walk", q.todo # <<>>,
           NEW l \in Seq(Task), NEW p \in Walking, Become(r, p),
           p.todo = Then(q, l).todo, p.owed = q.owed,
           q.files \subseteq p.files, q.folders \subseteq p.folders,
           \A x \in Owing(Head(q.todo)) :
              x \in p.files \cup p.folders \/ \E t \in Range(l) : x \in Owing(t)
    PROVE  NoneForgotten'
<1>1. Unforgotten(q) /\ p \in Handlers
  BY DEF NoneForgotten, Handlers
<1>2. ASSUME NEW x, Reaches(q, x) PROVE Reaches(p, x)
  <2>1. CASE x \in q.files \cup q.folders \cup moved
    BY <2>1 DEF Reaches
  <2>2. CASE \E t \in Range(q.todo) : x \in Owing(t)
    <3>1. PICK t \in Range(q.todo) : x \in Owing(t)
      BY <2>2
    <3>2. Range(p.todo) = Range(l) \cup Range(Tail(q.todo)) /\ t \in {Head(q.todo)} \cup Range(Tail(q.todo))
      BY RangeThen
    <3> QED
      BY <3>1, <3>2 DEF Reaches
  <2> QED
    BY <1>2, <2>1, <2>2 DEF Reaches
<1>3. Unforgotten(p)
  BY <1>1, <1>2 DEF Unforgotten
<1> QED
  BY <1>1, <1>3, SameTables, OneRequest

LEMMA WalkForgetsNothing ==
    ASSUME IInv, NoneForgotten, NEW r \in Requests,
           OpenFolder(r) \/ ReadFiles(r) \/ DeleteObject(r) \/ CloseFolder(r)
    PROVE  NoneForgotten'
<1> DEFINE q == req[r]
           e == Head(q.todo)
           d == e.id
<1>1. q \in Walking /\ q.todo # <<>> /\ q.pc = "walk"
  BY HandlerIs DEF OpenFolder, ReadFiles, DeleteObject, CloseFolder, Next1, IInv, Types, RequestTypes
<1>2. UNCHANGED <<parent, place, moved>>
  BY DEF OpenFolder, ReadFiles, DeleteObject, CloseFolder, tables, history
<1>3. e \in Task
  BY <1>1, WalkIs, EmptySeq
<1>4. ASSUME NEW l \in Seq(Task), Become(r, Then(q, l)),
             \A x \in Owing(e) : \E t \in Range(l) : x \in Owing(t)
      PROVE  NoneForgotten'
  <2>1. /\ Then(q, l) \in Walking /\ Then(q, l).files = q.files
        /\ Then(q, l).folders = q.folders
    BY <1>1, WalkIs
  <2>2. Then(q, l).owed = q.owed
    BY <1>1 DEF Then, Walking
  <2> HIDE DEF q
  <2> QED
    BY <1>1, <1>2, <1>4, <2>1, <2>2, WalkOn DEF q
<1>5. CASE OpenFolder(r)
  <2>1. e.do = "open" /\ d \in Folders /\ Owing(e) = Contents(d)
    BY <1>3, <1>5 DEF OpenFolder, Next1, Task, Owing
  <2>2. PICK subs \in SetToSeqs(SubFolders(d)) :
           Become(r, Then(q, Entries("open", subs, [do |-> "files", id |-> d])))
    BY <1>5, Zenon DEF OpenFolder, Entries
  <2> DEFINE l == Entries("open", subs, [do |-> "files", id |-> d])
  <2>3. SubFolders(d) \subseteq Folders /\ IsFiniteSet(SubFolders(d))
    BY FS_Subset DEF SubFolders, FolderRows
  <2>4. /\ \A x \in SubFolders(d) : [do |-> "open", id |-> x] \in Task
        /\ [do |-> "files", id |-> d] \in Task
    BY <2>1, <2>3 DEF Task
  <2> HIDE DEF q, d
  <2>5. /\ l \in Seq(Task) /\ [do |-> "files", id |-> d] \in Range(l)
        /\ \A c \in SubFolders(d) : [do |-> "open", id |-> c] \in Range(l)
    BY <2>3, <2>4, EntriesThen
  <2> HIDE DEF l
  <2>6. ASSUME NEW x \in Contents(d) PROVE \E t \in Range(l) : x \in Owing(t)
    <3>1. CASE x = d \/ x \in FilesIn(d)
      <4>1. x \in Owing([do |-> "files", id |-> d])
        BY <3>1 DEF Owing
      <4> QED
        BY <2>5, <4>1
    <3>2. CASE \E c \in SubFolders(d) : x \in Contents(c)
      <4>1. PICK c \in SubFolders(d) : x \in Contents(c)
        BY <3>2
      <4>2. x \in Owing([do |-> "open", id |-> c])
        BY <4>1 DEF Owing
      <4> QED
        BY <2>5, <4>1, <4>2
    <3> QED
      BY <3>1, <3>2, ContentsSplit
  <2> QED
    BY <1>4, <2>1, <2>2, <2>5, <2>6 DEF l
<1>6. CASE ReadFiles(r)
  <2>1. e.do = "files" /\ d \in Folders /\ Owing(e) = {d} \cup FilesIn(d)
    BY <1>3, <1>6 DEF ReadFiles, Next1, Task, Owing
  <2>2. PICK fs \in SetToSeqs(FilesIn(d)) :
           Become(r, Then(q, Entries("object", fs, [do |-> "close", id |-> d])))
    BY <1>6, Zenon DEF ReadFiles, Entries
  <2> DEFINE l == Entries("object", fs, [do |-> "close", id |-> d])
  <2>3. FilesIn(d) \subseteq Files /\ IsFiniteSet(FilesIn(d))
    BY FS_Subset DEF FilesIn, FileRows
  <2>4. /\ \A x \in FilesIn(d) : [do |-> "object", id |-> x] \in Task
        /\ [do |-> "close", id |-> d] \in Task
    BY <2>1, <2>3 DEF Task
  <2> HIDE DEF q, d
  <2>5. /\ l \in Seq(Task) /\ [do |-> "close", id |-> d] \in Range(l)
        /\ \A f \in FilesIn(d) : [do |-> "object", id |-> f] \in Range(l)
    BY <2>3, <2>4, EntriesThen
  <2> HIDE DEF l
  <2>6. \A x : x \in Owing([do |-> "object", id |-> x]) /\ x \in Owing([do |-> "close", id |-> x])
    BY DEF Owing
  <2>7. \A x \in {d} \cup FilesIn(d) : \E t \in Range(l) : x \in Owing(t)
    BY <2>5, <2>6
  <2> QED
    BY <1>4, <2>1, <2>2, <2>5, <2>7 DEF l
<1>7. Then(q, <<>>) \in Walking /\ Then(q, <<>>).owed = q.owed
      /\ Then(q, <<>>).files = q.files /\ Then(q, <<>>).folders = q.folders
  <2>1. Then(q, <<>>) \in Walking /\ Then(q, <<>>).files = q.files /\ Then(q, <<>>).folders = q.folders
    BY <1>1, WalkIs, EmptySeq
  <2>2. Then(q, <<>>).owed = q.owed
    BY <1>1 DEF Then, Walking
  <2> QED
    BY <2>1, <2>2
<1>8. ASSUME NEW p \in Walking, Become(r, p), p.todo = Then(q, <<>>).todo, p.owed = q.owed,
             q.files \subseteq p.files, q.folders \subseteq p.folders, d \in p.files \cup p.folders,
             e.do \in {"object", "close"}
      PROVE  NoneForgotten'
  <2>1. Owing(e) = {d} /\ <<>> \in Seq(Task)
    BY <1>8 DEF Owing
  <2> HIDE DEF q, d
  <2> QED
    BY <1>1, <1>2, <1>8, <2>1, WalkOn DEF q
<1>9. CASE DeleteObject(r)
  <2> DEFINE p == [Then(q, <<>>) EXCEPT !.files = @ \cup {d}]
  <2>1. Become(r, p) /\ e.do = "object" /\ d \in Files
    BY <1>3, <1>9 DEF DeleteObject, Next1, Task
  <2> HIDE DEF q, d
  <2>2. /\ p \in Walking /\ p.todo = Then(q, <<>>).todo /\ p.owed = q.owed
        /\ p.files = q.files \cup {d} /\ p.folders = q.folders
    BY <1>7, <2>1 DEF Walking
  <2> HIDE DEF p
  <2> QED
    BY <1>8, <2>1, <2>2
<1>10. CASE CloseFolder(r)
  <2> DEFINE p == [Then(q, <<>>) EXCEPT !.folders = @ \cup {d}]
  <2>1. Become(r, p) /\ e.do = "close" /\ d \in Folders
    BY <1>3, <1>10 DEF CloseFolder, Next1, Task
  <2> HIDE DEF q, d
  <2>2. /\ p \in Walking /\ p.todo = Then(q, <<>>).todo /\ p.owed = q.owed
        /\ p.files = q.files /\ p.folders = q.folders \cup {d}
    BY <1>7, <2>1 DEF Walking
  <2> HIDE DEF p
  <2> QED
    BY <1>8, <2>1, <2>2
<1> QED
  BY <1>5, <1>6, <1>9, <1>10

\* A folder or a file more: what there was stays where it was.
LEMMA GrowthKeeps ==
    ASSUME FolderRows \subseteq FolderRows', FileRows \subseteq FileRows', moved' = moved,
           FolderRows' \cap Used \subseteq FolderRows, FileRows' \cap Used \subseteq FileRows,
           \A d \in FolderRows : parent'[d] = parent[d],
           \A f \in FileRows : place'[f] = place[f], Used \subseteq Used'
    PROVE  TablesKept
<1>1. FolderRows \subseteq Used /\ FileRows \subseteq Used
  BY DEF FolderRows, FileRows, Used, Inserted
<1>2. ASSUME NEW d, NEW e \in Subtree(d) PROVE e \in Subtree(d)'
  <2>1. e \in FolderRows /\ d \in Above(e)
    BY Zenon DEF Subtree
  <2>2. d \in FolderRows /\ \A S \in SUBSET FolderRows :
           (e \in S /\ \A c \in S : parent[c] \in FolderRows => parent[c] \in S) => d \in S
    BY <2>1, Zenon DEF Above
  <2>3. ASSUME NEW S \in SUBSET FolderRows', e \in S,
               \A c \in S : parent'[c] \in FolderRows' => parent'[c] \in S
        PROVE  d \in S
    <3> DEFINE T == S \cap FolderRows
    <3>1. T \in SUBSET FolderRows /\ e \in T
      BY <2>1, <2>3
    <3>2. ASSUME NEW c \in T, parent[c] \in FolderRows PROVE parent[c] \in T
      BY <2>3, <3>2
    <3> HIDE DEF T
    <3>3. d \in T
      BY <2>2, <3>1, <3>2
    <3> QED
      BY <3>3 DEF T
  <2>4. d \in Above(e)'
    BY <2>2, <2>3, Zenon DEF Above
  <2> QED
    BY <2>1, <2>4, Zenon DEF Subtree
<1>3. \A d : Contents(d) \subseteq Contents(d)' /\ FilesIn(d) \subseteq FilesIn(d)'
  BY <1>2 DEF Contents, FilesIn
<1>4. \A t \in Task : Owing(t) \subseteq Owing(t)'
  BY <1>3 DEF Owing
<1> QED
  BY <1>4 DEF TablesKept, Rows

\* A commit puts under the root what came into the folders it deletes, and moved has it
\* all, with what is below it: the rest of a tree is still a tree.
LEMMA CommitKeeps ==
    ASSUME IInv, NEW r \in Requests, CommitDeletes(r)
    PROVE  TablesKept
<1>1. PICK F, X : F = req[r].folders /\ X = req[r].files
  OBVIOUS
<1>2. /\ F \subseteq Folders /\ X \subseteq Files
      /\ FolderRows' = FolderRows \ F /\ FileRows' = FileRows \ X
      /\ \A d \in FolderRows' : parent'[d] = Orphaned(parent[d], F)
      /\ \A f \in FileRows' : place'[f] = Orphaned(place[f], F)
      /\ moved' = moved \cup {f \in Files \ X : place[f] \in F}
                  \cup UNION {Contents(d) : d \in {e \in Folders \ F : parent[e] \in F}}
  BY <1>1, CommitTables
<1> DEFINE New == UNION {Contents(d) : d \in {e \in Folders \ F : parent[e] \in F}}
<1>3. FolderRows \subseteq Folders /\ FileRows \subseteq Files
  BY DEF FolderRows, FileRows
<1>4. New \subseteq moved'
  BY <1>2
<1>5. ASSUME NEW c \in FolderRows, parent[c] \in New \cap FolderRows PROVE c \in New
  <2>1. PICK z \in {e \in Folders \ F : parent[e] \in F} : parent[c] \in Contents(z)
    BY <1>5
  <2>2. parent[c] \in Subtree(z)
    BY <1>3, <1>5, <2>1 DEF Contents
  <2>3. z \in FolderRows
    BY <2>2, AboveIs, Zenon DEF Subtree, Above
  <2>4. c \in Contents(z)
    BY <2>2, <2>3, SubtreeDown DEF Nested, Contents
  <2> QED
    BY <2>1, <2>4
<1>6. ASSUME NEW c \in FolderRows \ F, parent[c] \in F PROVE c \in New
  <2>1. c \in Contents(c)
    BY SubtreeDown DEF Nested, Contents
  <2> QED
    BY <1>3, <1>6, <2>1
<1>7. ASSUME NEW f \in FileRows, place[f] \in New \cap FolderRows PROVE f \in New
  <2>1. PICK z \in {e \in Folders \ F : parent[e] \in F} : place[f] \in Contents(z)
    BY <1>7
  <2>2. f \in Contents(z)
    BY <1>3, <1>7, <2>1 DEF Contents
  <2> QED
    BY <2>1, <2>2
<1> HIDE DEF New
<1>8. Nested'
  BY SubtreeDown, PTL
<1>9. ASSUME NEW d \in FolderRows PROVE Subtree(d) \subseteq Subtree(d)' \cup New \cup F
  <2> DEFINE P == (Subtree(d)' \cup New \cup F) \cap FolderRows
  <2>1. d \in P
    <3>1. d \in FolderRows' => d \in Subtree(d)'
      BY <1>8 DEF Nested
    <3> QED
      BY <1>2, <3>1
  <2>2. ASSUME NEW c \in FolderRows, parent[c] \in P PROVE c \in P
    <3>1. CASE c \in F \/ parent[c] \in F \/ parent[c] \in New
      BY <1>5, <1>6, <2>2, <3>1
    <3>2. CASE c \notin F /\ parent[c] \in Subtree(d)' /\ parent[c] \notin F
      <4>1. c \in FolderRows' /\ parent'[c] = parent[c] /\ parent[c] \in FolderRows'
        BY <1>2, <2>2, <3>2 DEF Orphaned
      <4>2. d \in FolderRows'
        BY <1>2, <3>2, Zenon DEF Subtree, Above
      <4>3. c \in Subtree(d)'
        BY <1>8, <3>2, <4>1, <4>2 DEF Nested
      <4> QED
        BY <4>3
    <3> QED
      BY <2>2, <3>1, <3>2
  <2> HIDE DEF P
  <2>3. Subtree(d) \subseteq P
    BY <2>1, <2>2, SubtreeLeast
  <2> QED
    BY <2>3 DEF P
<1>10. ASSUME NEW d \in Folders, NEW x \in Contents(d), x \in Rows'
      PROVE  x \in Contents(d)' \cup moved'
  <2>1. d \in FolderRows
    BY <1>10, Zenon DEF Contents, Subtree, Above
  <2>2. CASE x \in Subtree(d)
    <3>1. x \in FolderRows /\ x \notin F
      BY <1>2, <1>3, <1>10, <2>2, Zenon DEF Rows, Subtree
    <3> QED
      BY <1>4, <1>9, <2>1, <2>2, <3>1 DEF Contents
  <2>3. CASE x \in FileRows /\ place[x] \in Subtree(d)
    <3>1. x \in FileRows' /\ x \notin X
      BY <1>2, <1>3, <1>10, <2>3 DEF Rows
    <3>2. CASE place[x] \in F
      BY <1>2, <1>3, <3>1, <3>2
    <3>3. CASE place[x] \in New
      <4>1. place[x] \in FolderRows
        BY <2>3, Zenon DEF Subtree
      <4> QED
        BY <1>4, <1>7, <2>3, <3>3, <4>1
    <3>4. CASE place[x] \in Subtree(d)' /\ place[x] \notin F
      BY <1>2, <3>1, <3>4 DEF Contents, Orphaned
    <3> QED
      BY <1>9, <2>1, <2>3, <3>2, <3>3, <3>4
  <2> QED
    BY <2>2, <2>3 DEF Contents
<1>11. ASSUME NEW d \in Folders, NEW x \in FilesIn(d), x \in Rows'
       PROVE  x \in FilesIn(d)' \cup moved'
  <2>1. x \in FileRows' /\ x \notin X /\ x \in FileRows /\ place[x] = d
    BY <1>2, <1>3, <1>11 DEF Rows, FilesIn
  <2>2. CASE d \in F
    BY <1>2, <1>3, <2>1, <2>2
  <2>3. CASE d \notin F
    BY <1>2, <2>1, <2>3 DEF FilesIn, Orphaned
  <2> QED
    BY <2>2, <2>3
<1>12. \A t \in Task : Owing(t) \cap Rows' \subseteq Owing(t)' \cup moved'
  <2> SUFFICES ASSUME NEW t \in Task, NEW x \in Owing(t) \cap Rows'
               PROVE  x \in Owing(t)' \cup moved'
    OBVIOUS
  <2>1. CASE t.do = "open"
    <3>1. t.id \in Folders
      BY <2>1 DEF Task
    <3> QED
      BY <1>10, <2>1, <3>1 DEF Owing
  <2>2. CASE t.do = "files"
    <3>1. t.id \in Folders
      BY <2>2 DEF Task
    <3> QED
      BY <1>11, <2>2, <3>1 DEF Owing
  <2>3. CASE t.do \notin {"open", "files"}
    BY <2>3 DEF Owing
  <2> QED
    BY <2>1, <2>2, <2>3
<1>13. Used \subseteq Used'
  <2>1. /\ parent' = [d \in Folders |-> IF d \in F THEN "gone" ELSE Orphaned(parent[d], F)]
        /\ place'  = [f \in Files |-> IF f \in X THEN "gone" ELSE Orphaned(place[f], F)]
    BY <1>1, Zenon DEF CommitDeletes
  <2> QED
    BY <2>1 DEF Used, Orphaned
<1> QED
  BY <1>2, <1>12, <1>13 DEF TablesKept, Rows

LEMMA InsertFolderKeeps ==
    ASSUME IInv, NEW r \in Requests, InsertFolder(r)
    PROVE  TablesKept
<1>1. CASE UNCHANGED parent
  BY <1>1, InsertTables, SameTables
<1>2. CASE ~UNCHANGED parent
  <2>1. FileRows' = FileRows /\ UNCHANGED <<place, moved>>
    BY InsertTables
  <2>2. PICK d \in Folders : /\ parent[d] = "none" /\ d \notin FolderRows
                             /\ FolderRows' = FolderRows \cup {d} /\ parent'[d] \in Parents
                             /\ \A e \in Folders : e # d => parent'[e] = parent[e]
    BY <1>2, InsertTables
  <2>3. FolderRows \subseteq Folders /\ FileRows \subseteq Files /\ d \notin Files
    BY DEF FolderRows, FileRows
  <2>4. d \notin Used /\ Used \subseteq Used'
    BY <2>1, <2>2, <2>3 DEF Used
  <2> QED
    BY <2>1, <2>2, <2>3, <2>4, GrowthKeeps
<1> QED
  BY <1>1, <1>2

LEMMA InsertFileKeeps ==
    ASSUME IInv, NEW f \in Files, NEW p \in Parents, InsertFile(f, p)
    PROVE  TablesKept
<1>1. /\ place[f] = "none" /\ FileRows' = FileRows \cup {f} /\ f \notin FileRows
      /\ \A g \in Files : g # f => place'[g] = place[g]
      /\ UNCHANGED <<parent, FolderRows, moved, req>>
  BY InsertFileTables
<1>2. FolderRows \subseteq Folders /\ FileRows \subseteq Files /\ f \notin Folders
  BY DEF FolderRows, FileRows
<1>3. f \notin Used /\ Used \subseteq Used'
  BY <1>1, <1>2 DEF Used
<1> QED
  BY <1>1, <1>2, <1>3, GrowthKeeps

\* When a walk begins, its first entry owes all that the handler was asked to delete.
LEMMA ArrivalForgetsNothing ==
    ASSUME IInv, NoneForgotten, NEW r \in Requests, Arrivals(r)
    PROVE  NoneForgotten'
<1>1. ASSUME NEW q \in Handlers, Arrives(r, q), Unforgotten(q) PROVE NoneForgotten'
  <2>1. Become(r, q) /\ UNCHANGED <<parent, place, moved>>
    BY <1>1 DEF Arrives, tables, history
  <2> QED
    BY <1>1, <2>1, SameTables, OneRequest
<1>2. CASE CreateFolder(r)
  <2>1. PICK p \in Parents, n \in Names : Arrives(r, [pc |-> "insert", at |-> p, name |-> n])
    BY <1>2 DEF CreateFolder
  <2>2. [pc |-> "insert", at |-> p, name |-> n] \in Insert
    BY DEF Insert, Parents, FolderRows
  <2> QED
    BY <1>1, <2>1, <2>2 DEF Handlers, Unforgotten
<1>3. CASE RenameFolder(r)
  <2>1. PICK d \in FolderRows, n \in Names : Arrives(r, [pc |-> "rename", at |-> d, name |-> n])
    BY <1>3 DEF RenameFolder
  <2>2. [pc |-> "rename", at |-> d, name |-> n] \in Rename
    BY DEF Rename, FolderRows
  <2> QED
    BY <1>1, <2>1, <2>2 DEF Handlers, Unforgotten
<1>4. ASSUME NEW t \in Task, NEW w \in SUBSET (Files \cup Folders), w \subseteq Owing(t) \cap Rows,
             Arrives(r, Walk(<<t>>, w))
      PROVE  NoneForgotten'
  <2>1. <<t>> \in Seq(Task) /\ t \in Range(<<t>>)
    BY DEF Range
  <2>2. Walk(<<t>>, w) \in Walking
    BY <2>1 DEF Walk, Walking
  <2>3. Rows \subseteq Used
    BY DEF Rows, FolderRows, FileRows, Used, Inserted
  <2>4. Unforgotten(Walk(<<t>>, w))
    BY <1>4, <2>1, <2>3 DEF Walk, Unforgotten, Reaches
  <2> QED
    BY <1>1, <1>4, <2>2, <2>4 DEF Handlers
<1>5. CASE DeleteFolder(r)
  <2>1. PICK d \in FolderRows : Arrives(r, Walk(<<[do |-> "open", id |-> d]>>, Contents(d)))
    BY <1>5 DEF DeleteFolder
  <2>2. [do |-> "open", id |-> d] \in Task /\ Contents(d) \in SUBSET (Files \cup Folders)
    BY ContentsTyped DEF Task, FolderRows
  <2>3. Subtree(d) \subseteq FolderRows
    BY Zenon DEF Subtree
  <2>4. Contents(d) \subseteq Owing([do |-> "open", id |-> d]) \cap Rows
    BY <2>3 DEF Owing, Contents, Rows
  <2> QED
    BY <1>4, <2>1, <2>2, <2>4
<1>6. CASE DeleteFile(r)
  <2>1. PICK f \in FileRows : Arrives(r, Walk(<<[do |-> "object", id |-> f]>>, {f}))
    BY <1>6 DEF DeleteFile
  <2>2. /\ [do |-> "object", id |-> f] \in Task /\ {f} \in SUBSET (Files \cup Folders)
        /\ {f} \subseteq Owing([do |-> "object", id |-> f]) \cap Rows
    BY DEF Task, FileRows, Owing, Rows
  <2> QED
    BY <1>4, <2>1, <2>2
<1>7. CASE CreateShare(r)
  <2>1. PICK f \in active, l \in Levels, g \in Slugs \cup LongSlugs :
           Arrives(r, [pc |-> "share", row |-> [file |-> f, level |-> l, slug |-> g]])
    BY <1>7 DEF CreateShare
  <2>2. [file |-> f, level |-> l, slug |-> g] \in Share
    BY DEF IInv, Types, TableTypes, FileRows, Share
  <2>3. [pc |-> "share", row |-> [file |-> f, level |-> l, slug |-> g]] \in Link
    BY <2>2 DEF Link
  <2> QED
    BY <1>1, <2>1, <2>3 DEF Handlers, Unforgotten
<1> QED
  BY <1>2, <1>3, <1>5, <1>6, <1>7 DEF Arrivals

LEMMA ForgetsNothing == ASSUME IInv, NoneForgotten, [Next]_vars PROVE NoneForgotten'
<1>1. Idle \in Handlers /\ Unforgotten(Idle)
  BY DEF Handlers, Idle, Unforgotten
<1>2. \A s \in Requests : req[s] \in Handlers /\ Unforgotten(req[s])
  BY DEF IInv, Types, RequestTypes, NoneForgotten
<1>3. ASSUME NEW r \in Requests, Answer(r), TablesKept PROVE NoneForgotten'
  BY <1>1, <1>3, OneRequest DEF Answer
<1>4. ASSUME TablesKept, UNCHANGED req PROVE NoneForgotten'
  BY <1>2, <1>4, NoneForgottenKept
<1>5. CASE \E r \in Requests : Arrivals(r)
  BY <1>5, ArrivalForgetsNothing
<1>6. CASE \E r \in Requests : Serve(r)
  <2>1. PICK r \in Requests : Serve(r)
    BY <1>6
  <2>2. CASE InsertFolder(r)
    BY <1>3, <2>2, InsertFolderKeeps DEF InsertFolder, Committed
  <2>3. CASE CommitDeletes(r)
    BY <1>3, <2>3, CommitKeeps DEF CommitDeletes, Committed
  <2>4. CASE UpdateFolder(r) \/ InsertShare(r)
    BY <1>3, <2>4, SameTables DEF UpdateFolder, InsertShare, Committed, history
  <2> QED
    BY <2>1, <2>2, <2>3, <2>4, WalkForgetsNothing DEF Serve
<1>7. CASE \E r \in Requests : Fails(r)
  BY <1>3, <1>7, SameTables DEF Fails, tables
<1>8. CASE \E f \in Files : Publish(f)
  BY <1>4, <1>8, SameTables DEF Publish, history
<1>9. CASE \E f \in Files, p \in Parents : InsertFile(f, p)
  BY <1>4, <1>9, InsertFileKeeps, InsertFileTables
<1>10. CASE Crash
  <2>1. TablesKept /\ \A s \in Requests : req'[s] = Idle
    BY <1>10, SameTables DEF Crash, tables
  <2> QED
    BY <1>1, <2>1, NoneForgottenKept
<1>11. CASE UNCHANGED vars
  BY <1>4, <1>11, SameTables DEF vars, tables, history
<1> QED
  BY <1>5, <1>6, <1>7, <1>8, <1>9, <1>10, <1>11 DEF Next

LEMMA NeverForgets == Spec => []NoneForgotten
<1>1. Init => NoneForgotten
  BY DEF Init, NoneForgotten, Unforgotten, Idle
<1> QED
  BY <1>1, ForgetsNothing, Inductive, PTL DEF Spec

-----------------------------------------------------------------------------
(* Theorems *)

\* The tables, the bucket and the handlers in flight keep their types: an active file has a row.
THEOREM TypeCorrect == Spec => []TypeOK
<1>1. IInv => TypeOK
  BY TypeParts DEF IInv, Types
<1> QED
  BY <1>1, Inductive, PTL

\* However folders and files are created, renamed, shared and deleted at the same time,
\* no folder, file or link refers to a row that is gone.
THEOREM ReferencesSound == Spec => []ReferencesHold
<1>1. IInv => ReferencesHold
  BY DEF IInv
<1> QED
  BY <1>1, Inductive, PTL

\* Under any interleaving of creations, uploads and deletions every folder can still be
\* reached from the root, and nothing refers to a row that is gone.
THEOREM TreeKept == Spec => []TreeSound
<1>1. ASSUME IInv, NoCycle PROVE TreeSound
  <2>1. ReferencesHold
    BY <1>1 DEF IInv
  <2>2. ASSUME NEW d \in FolderRows PROVE \E e \in Above(d) : parent[e] = Root
    <3>1. /\ Above(d) \in SUBSET FolderRows /\ Above(d) # {}
          /\ \A c \in Above(d) : parent[c] \in FolderRows => parent[c] \in Above(d)
      BY AboveIs
    <3>2. PICK e \in Above(d) : parent[e] \notin Above(d)
      BY <1>1, <3>1 DEF NoCycle
    <3>3. e \in FolderRows /\ parent[e] \notin FolderRows
      BY <3>1, <3>2
    <3> QED
      BY <2>1, <3>3 DEF ReferencesHold, Parents
  <2> QED
    BY <2>1, <2>2 DEF TreeSound
<1> QED
  BY <1>1, Inductive, NeverCycle, PTL

\* A slug names one link, whichever handlers drew it between its check and its insert.
THEOREM LinksUnique == Spec => []OneLinkPerSlug
<1>1. IInv => OneLinkPerSlug
  BY DEF IInv
<1> QED
  BY <1>1, Inductive, PTL

\* No walk forgets a row whose object it erased, through failures and crashes: an active
\* file has its object, or the request that erased it is still going on or was torn.
THEOREM FilesBacked == Spec => []ActiveBacked
<1>1. IInv => ActiveBacked
  BY DEF IInv, Backed, ActiveBacked, Erased
<1> QED
  BY <1>1, Inductive, PTL

\* delete_folder: whatever others create, fill and delete in a tree while it is walked,
\* nothing that was in it when the handler was asked is left when it commits, but what a
\* second deletion moved to the root.
THEOREM WholeTreeGoes == Spec => WholeTree
<1>1. ASSUME IInv, NoneForgotten, [Next]_vars PROVE WholeTreeStep
  <2> SUFFICES ASSUME NEW r \in Requests, req[r].pc = "walk", req[r].todo = <<>>, CommitDeletes(r),
                      NEW x \in req[r].owed, x \in Rows'
               PROVE  x \in moved
    BY DEF WholeTreeStep, Rows
  <2>1. /\ req[r].folders \subseteq Folders /\ req[r].files \subseteq Files
        /\ FolderRows' = FolderRows \ req[r].folders /\ FileRows' = FileRows \ req[r].files
    BY <1>1, CommitTables
  <2>2. x \in Rows /\ x \notin req[r].files \cup req[r].folders
    BY <2>1 DEF Rows, FolderRows, FileRows
  <2>3. Reaches(req[r], x)
    BY <1>1, <2>2 DEF NoneForgotten, Unforgotten
  <2> QED
    BY <2>2, <2>3 DEF Reaches, Range
<1>2. IInv /\ NoneForgotten /\ [Next]_vars => [WholeTreeStep]_vars
  BY <1>1
<1> QED
  BY <1>2, Inductive, NeverForgets, PTL DEF Spec, WholeTree

=============================================================================
