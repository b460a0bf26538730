# Formal models of the Cachette node

TLA+ specifications, TLC model-checking configurations and TLAPS proofs for the
Cachette client: a self-hosted storage node (`src/backend`, FastAPI on one asyncio
event loop over SQLite and MinIO) and the web page it serves (`src/frontend`,
Next.js). Paths below are relative to the repository; `files.py` stands for
`backend/app/routes/files.py`, and so on, where the name is unique.

Contents: [1 The system](#1-the-system) ·
[2 The modules](#2-the-modules) · [3 The runs](#3-the-runs) ·
[4 Fairness](#4-fairness) · [5 What is proved](#5-what-is-proved) ·
[6 Where code and documents disagree](#6-where-code-and-documents-disagree) ·
[7 What is not modelled](#7-what-is-not-modelled) · [8 Plan](#8-plan) ·
[9 Working with the project](#9-working-with-the-project)

## 1 The system

| Component | State it keeps | Operations | Interacts with | What is hard |
|---|---|---|---|---|
| File service (`files.py`, `s3_service.py`, `models/`, `db/session.py`) | tables `files`, `user_cache`; MinIO objects, multipart uploads, parts | initiate, upload_single, upload_part, complete, abort, delete, rename | every handler awaits SQLite and MinIO several times; two stores, one transaction | requests of one user interleave at every await; stale `storage_used`; a failed or lost MinIO answer; a crash between MinIO and the commit |
| Folders (`files.py`, `models/folder.py`) | `folders`, `files.folder_id` | create, rename, recursive delete | foreign keys, SQLite's one write lock, MinIO | a walk object by object with one commit at the end while others fill the tree |
| Share links (`files.py`, `shares.py`, `slug.py`) | `shares` | create or reuse, read by slug, read by Central's token | file service, key cache | check-then-insert without a constraint; slug collisions |
| Rate limiter (`rate_limiter.py`, `dependencies.py`) | sharded LRU dictionaries of token buckets | allow, prune_idle, sweeper | every limited route | clock read before the lock, eviction, lazy refills, rounding of Retry-After |
| Process supervisor (`supervisor.py`, `service_setup.py`, `main.py`) | one `ManagedProcess` per registration, the table of names | start, stop, wait_ready, monitor loop, shutdown_all | OS processes; called from threads and from the loop | backoff during which the process is replaced, stopped, or the node closes |
| Tunnel service (`tunnel_service.py`) | in-memory tunnel state | start workflow, restart | supervisor, pairing | workflows that overlap each other and the monitor |
| Pairing (`pairing_service.py`, `routes/pairing.py`, `config.py`) | `pairing_credentials.json`, `public.pem`, `settings` | claim, session, status, restart | Central, key cache, tunnel | crash between two files; memory that does not follow the files |
| JWKS key cache (`jwks.py`) | keys, time of the last download, a lock | fetch_keys, verify_share_token, background refresh | Central | cooldown read before the lock; rotation; downloads that fail |
| Session tokens (`security.py`, `dependencies.py`) | the cached user row | decode_token, get_current_node_user | file service | first requests of a user race to create the row |
| Binary downloader (`downloader.py`, `manifest.py`) | files under `data/bin` | ensure_binary | supervisor, tunnel workflow | two threads of one process share the temporary file |
| Upload client (`upload-button.tsx`, `lib/api.ts`) | the loop over files, a worker pool per file | handleFileChange, runConcurrentTasks | file service | a failed part leaves the pool's other workers running |
| Dashboard client (`dashboard/page.tsx`, `file-grid.tsx`, `breadcrumb.tsx`) | current folder, breadcrumbs, rows, dialogs, busy buttons | navigation, menus, create, rename, both deletes, download, upload, reloads | file service | answers in any order, handlers that close over old state, dialogs left and opened again |
| Share dialog (`share-modal.tsx`) | chosen file and level, link, spinner, clipboard message | open, close, level, Retry, copy | share links, clipboard | cancelled and uncancelled requests, timers that overlap |
| Session client (`auth-context.tsx`, `auth/page.tsx`, `lib/api.ts`) | paired/expired/loading flags, token in localStorage | refreshSession, claim, tunnel restart, 401 listener, redirects, views and banners | pairing | late answers, lost answers, tokens of two pairings |

The pieces meet in four places. A handler is the only writer of SQLite and MinIO,
so the file service and the folders share both stores. The claim of a pairing
writes the keys the JWKS cache falls back on and starts a tunnel workflow. A
tunnel workflow replaces the process the supervisor's monitor watches. The page
sees all of it only through requests whose answers may be lost or late.

For each component, what makes it correct:

- *Files*: an active row has its bytes; usage stays within the quota; what is
  deleted stays deleted; nobody touches another user's file; what was uploaded is
  charged (it is not always: section 6).
- *Folders and links*: the tree stays a tree over existing rows; a recursive
  deletion leaves nothing behind; a slug names one link; the write lock is given back.
- *Limiter*: all the machinery together is one token bucket per key; memory is bounded.
- *Supervisor*: crashes are recovered or reported; shutdown ends and leaves no child.
- *Keys and pairing*: good tokens are not refused because of the cooldown, withdrawn
  keys do not return, the pairing survives crashes.
- *Page*: only whole files are completed; the rows follow the node; breadcrumbs, links
  and answers match the user's choice; what both pages show hangs together;
  a user of a paired node gets in, one of an unpaired node gets out.

## 2 The modules

| Module | Models | Composition |
|---|---|---|
| `FileStore` | file handlers over SQLite and MinIO | `MCFileStore`, `FileStoreProofs` |
| `Library` | folders, share links, recursive deletion | `MCLibrary`, `LibraryProofs`; uploads are one step each here, `FileStore` has them in full |
| `TokenBucket` | abstract: what the limiter promises | refined by `RateLimiter` |
| `RateLimiter` | shards, LRU order, sweeper, Retry-After | `MCRateLimiter`, `RateLimiterProofs` |
| `Supervisor` | process manager, lifespan, monitor, tunnel workflow | `MCSupervisor`, `SupervisorProofs` |
| `Access` | key cache, share-token verification, pairing files | `MCAccess`, `AccessProofs` |
| `Uploads` | the upload loop of the page with a worker pool per file, and the node as answers | its own configuration, `UploadsProofs` |
| `Dashboard` | the page with its dialogs, and the node's folders and files as it sees them | `MCDashboard`, `DashboardProofs` |
| `ShareModal` | the share dialog | `MCShareModal`, `ClientProofs` |
| `Session` | the page's session, the pairing form, the node's answers | its own configurations, `ClientProofs` |

`MC<Module>` instantiates a module for TLC; `<Module>Proofs` has its theorems, but for
Session and ShareModal, which share `ClientProofs` (ShareModal therefore prefixes its
general names with `Share`, and calls the dialog's `isLoading` `linkLoading`). Names
follow the code: an action is called after the handler, the method or the React callback
it models, a variable after the attribute, column or state hook. `Mutant of X` marks a
variant of `X` with one plausible bug; no specification uses it, and the properties are
validated against it.

**FileStore.** A request is a process that advances one await at a time: *arrival*
(the user row is loaded; `seen` is its `storage_used` at that moment), *row* (the file
row is read and the early returns taken), one step per call of `s3_service`, *commit*.
SQLAlchemy's behaviour is part of the steps: an UPDATE carries the value computed from
what was loaded and only if it changed; an UPDATE of a vanished row raises and
rolls back; a DELETE of a vanished row only warns. Over-quota uploads take the
rejecting branch, which erases the object and then the row. `Faults` adds a refused
step (MinIO or SQLite), a MinIO call whose answer is lost after it took effect, and a
crash. A file id stands for one uuid with the size and owner of its upload; one folder
is modelled. Clients are free: any known id, any user, any subset of parts.

**Library.** `delete_folder` is the walk of the code with an explicit stack (open
a folder, read its files, erase an object, close), each MinIO call a step, in any
order of siblings, with a single commit. SQLAlchemy's autoflush is modelled (`Reads`): the
first SELECT after a pending DELETE takes SQLite's write lock, and the walk keeps it while
it calls MinIO. At the commit the ORM sets rows that were added to a deleted folder in
between to NULL, the root. Foreign keys are `KeyHolds`. What a deletion owes is the
`Subtree` of its folder: the folders whose chain of parents (`Above`, the least set closed
under `parent`) holds it.

**RateLimiter.** `allow()` on the event loop is one step, since nothing yields between
reading the clock and the end of the critical section. A pool thread takes two,
because the clock is read before the lock. The sweeper yields after each shard and
uses one clock reading. Tokens and time are integers in units that make
rates whole. `threads`, chosen initially, says which pool threads call at all. The order of
the dictionaries is a relation, `older`: it holds the pair of two keys of a shard if the
first is nearer to `popitem(last=False)`.

**Supervisor.** One process name, an instance per `register()`. `start`, `stop` and
`wait_ready` are cut where another thread or coroutine may run. Timeouts and backoffs
may end at any moment. `service`, chosen initially, is MinIO (booted by the lifespan) or
cloudflared (replaced by tunnel workflows); the two differ in the readiness check and in
their callers. Shutdown, the join of the executor's threads and the second `shutdown_all`
of `atexit` are steps.

**Access.** A verification runs to the lock without an await, then downloads and
retries. Central publishes and withdraws keys at any moment, may not answer, and a
claim's answer may carry a key that was withdrawn on the way. The claim persists in one
step, since the code does not await there; a crash in the middle leaves one of the
states of `HalfWritten`. A verification carries history: `marks` says whether its token
is for this node, signed with a key Central served, old enough to be accepted, and whether
its own download failed.

**Uploads.** The browser runs to completion between awaits, so an action is what happens
between two; a worker of `runConcurrentTasks` is a place in `busy`, `nextIndex` is shared.
A failed part rejects `Promise.all`, and the loop goes on while the other workers of that
file still run. In Uploads a failed request may have taken effect.

**Dashboard.** A request is out, then done at the node (`Carried`: the node's folders and
files change, or a listing is read), then answered or failed; answers come in any order.
A dialog of create, rename or delete belongs to the item it was opened for; the busy flag
of its button is per kind of dialog, and the closure of its handler remembers the folder
shown at that moment, which it reloads. `tie` says of a dialog's request whether the user
has left that dialog, and, as history, of a listing whether the node has changed since
without the page being told. `stale` is history: an answer was lost, or an older listing
came after a newer one.

**ShareModal.** An effect asks for the link whenever file, level or `open` change and
cancels the request before it; the Retry button asks without being cancelled. Copying
writes to the clipboard, by one of two ways, and a timer takes the message back.
`crossed` and `outlived` are history: a Retry was out, or a message shown, when the choice
changed.

**Session.** `refreshSession` has three callers, each with one request; an answer is a
snapshot of the node (token and tunnel). The heartbeat, the claim form, the tunnel restart,
authenticated calls and their 401s, expiry and page loads are actions; the views, the
status pill and the banner are state formulae of the flags.

## 3 The runs

Every run finishes within four minutes on two cores. Distinct states in brackets.

| Run | Question | Bounds |
|---|---|---|
| `files_races` [1.05M] | What can two concurrent requests, refused steps, lost answers and crashes do to rows, objects and usage? | two users, of whom one owns a small and a multipart file that do not fit the quota together; two requests at a time, any number in sequence; `EarlyFaults`: faults strike while the small file is not known yet, and it comes only if no deletion was torn |
| `files_lost_update` | Is every assembled file charged? No | two multipart files that both fit |
| `limiter` [730k] | Is it a token bucket per key? Is Retry-After honest? | three keys in one shard of two places, one never refilled, clock to 3; with a pool thread, `ThreadsBound` limits clock and grants to 2 |
| `supervisor` [91k] | Is a crash recovered, does shutdown end, is MinIO gone then? | two restarts, two instances, one boot, one workflow at a time |
| `supervisor_orphan` | Is *no* process left? No | cloudflared alone, one restart |
| `library` [452k] | Do tree, links, objects and lock survive concurrent deletions and failures? | two folders, one file, two levels, one short and one long slug, two requests |
| `access` [417k] | Are tokens judged by Central's current keys? Does trust survive? | two keys (one rotation), one node id, one verification beside the refresh, cooldown of one tick, clock to 2 |
| `uploads` [18k] | Are only whole files completed, and does the button come back? | two files of up to four parts, two workers |
| `dashboard` [3.2M] | Do breadcrumbs, rows and dialogs follow node and user? | two folders, side by side or nested, one file, two requests in flight; slots and folders symmetric |
| `share` [175k] | Is the link shown, and the one copied, that of the choice? Does the spinner end? | two files, two levels, two requests, two timers |
| `session` [344k] | Does a user of a paired node get in, one of an unpaired one out? Do the pages hang together? | two pairings, with or without a tunnel; one claim or restart and one authenticated call at a time |
| `session_repair` | Does a second pairing unlock an expired session? No | the same |

Why these bounds are enough for the cases of interest:

- *Two requests* are what a race between two handlers needs, and every hazard listed
  for the files is one of two handlers. Requests follow each other without limit, so
  sequences of legal calls (delete before complete, complete twice) are covered. The
  quota admits one file of the two, so that every quota test is decided both ways.
  `EarlyFaults` leaves the multipart file, which has every MinIO call, under all faults
  in all interleavings of two requests, and lets the small file race with what survived;
  the theorems about FileStore have no such bound.
- *Three keys for two places* make the shard evict in both orders, and one of them
  may be pruned, evicted and created again while the clock advances past a full refill. The
  step between the sweeper's clock reading and the pruning of a shard admits every
  interleaving a second shard would.
- *Two instances* are what a replacement under the monitor needs; *two restarts* cover
  a restart within the limit and the limit itself. With two workflows at once the
  state space no longer fits a run of a few minutes.
- *One nested folder* makes the walk recurse and lets both levels race with a
  creation, and another deletion start at either level. One slug of each length is the
  fewest that makes links collide.
- *Two keys* allow a rotation with overlap and a withdrawal, a *cooldown of one tick*
  and *two ticks* let a verification fall inside, at the edge and outside of it.
- *Four parts over two workers* let one worker take parts 1, 3, 4 and let a failed file's
  worker overlap the next file. *Two pairings* are the fewest with an old token in flight.
- *Two requests of the dashboard* let any two kinds overtake each other: a change and a
  listing, two listings, two changes of different dialogs. Two folders give breadcrumbs of
  every shape the trail's cut and append distinguish.

Deadlock is checked except where the modelled system may stop: `files_races` (ids are
used up), `supervisor` and `supervisor_orphan` (the node has exited), `uploads` (all
files are used).

What the properties say is in the comments above them. In brief: `ActiveBacked`,
`UsedWithinQuota`, `NoResurrection`, `OwnFilesOnly` (FileStore); `NeverOverspends`,
`HonestRetryAfter`, `ImplementsTokenBucket` (RateLimiter); `CleanExit`, `Recovers`,
`ShutdownEnds` (Supervisor); `TreeSound`, `OneLinkPerSlug`, `ActiveBacked`, `WholeTree`,
`LockReleased` (Library); `HonestRefusal`, `RevokedStays`, `KeyMatchesPairing`,
`TrustSurvives`, `Answers` (Access); `CompleteWhole`, `EachPartOnce`, `UploadEnds` (Uploads);
`TrailEndsHere`, `RowsFollow`, `AnswersOwnDialog` (Dashboard); `LinkOfChoice`,
`DialogAnswers` (ShareModal); `PagesHold`, `SignsIn`, `LeavesDashboard` (Session). Each has
been validated against a mutant of the model in which a plausible bug breaks it.

### Abstract and detailed

`TokenBucket` is the limiter as the repository's README describes it: a bucket that starts full, is
refilled each tick, and pays for what it allows; in a shard of `Crowded`, the shards with more
keys in use than they may hold, the arrival of a key may refill another. `RateLimiter` implements it when every caller is on the
event loop: `avail` is mapped to what a call would find now, `answer` to the last
decision, so pruning, lazy refills and LRU bookkeeping are stuttering steps. With a pool
thread the instance is mapped to a constant behaviour: the promise is about the loop.

## 4 Fairness

| Module | Assumed | Why |
|---|---|---|
| Library | weak, per request: it goes on or fails | MinIO calls have timeouts; a wait for SQLite's lock ends with `busy_timeout` |
| Supervisor | weak for each thread's calls, the monitor's step, a workflow's steps, `atexit` | threads and the loop are scheduled, `wait_ready`, `stop` and backoffs are bounded by timeouts. Nothing is assumed of children or users, nor that the node is ever shut down |
| Access | weak for a download's end and its processing; strong for taking the lock | the HTTP client has a ten-second timeout; `asyncio.Lock` wakes its waiters first come, first served, so one that waits cannot be overtaken for ever |
| Uploads, ShareModal | weak, per request: it is answered or fails | a browser's request ends, if only with its connection |
| Session | weak for requests, the heartbeat, claim and restart; strong for `Answered("beat")`, `Applied("beat")` and the two redirects | the interval fires every 2.8 s while the page waits. The strong ones say that the node on the same machine answers a heartbeat that is repeated for ever now and then, and that a user who keeps reloading lets an answer arrive now and then; a React effect runs after the render that enabled it |

FileStore, RateLimiter and Dashboard state no liveness, and their specifications no fairness.

## 5 What is proved

TLAPS checks eight modules, and with them every invariant, every action property and the
refinement that the passing runs check. The results hold for any number of users, files,
folders, names, parts, workers, requests, keys, shards, threads, processes, restarts,
workflows, timers and pairings, every size, quota, rate, capacity and cooldown, and every
subset of faults. The assumptions are the
`ASSUME`s of the modules: constants have their types, the "none" values are distinct from the
others, ids of files and folders differ, folders (and in Library files) are finite, Central
has a key, a request costs no more than a capacity, a process has one lifespan (`Boots` has at
most one element).

| Theorem | States |
|---|---|
| `FileStoreProofs!TypeCorrect` | `[](TypeOK /\ Shapes)` |
| `FileStoreProofs!QuotaRespected` | `[]UsedWithinQuota` |
| `FileStoreProofs!NeverResurrected` | `NoResurrection` |
| `FileStoreProofs!ActiveFilesBacked` | `[]ActiveBacked` |
| `FileStoreProofs!OwnersOnly` | `OwnFilesOnly` |
| `LibraryProofs!TypeCorrect` | `[]TypeOK` |
| `LibraryProofs!ReferencesSound` | `[]ReferencesHold`, the first half of `TreeSound` |
| `LibraryProofs!TreeKept` | `[]TreeSound` |
| `LibraryProofs!WholeTreeGoes` | `WholeTree` |
| `LibraryProofs!LinksUnique` | `[]OneLinkPerSlug` |
| `LibraryProofs!FilesBacked` | `[]ActiveBacked` |
| `RateLimiterProofs!RetryAfterHonest` | `[]HonestRetryAfter` |
| `RateLimiterProofs!LoopNeverOverspends` | `[]NeverOverspends` |
| `RateLimiterProofs!TypeCorrect` | `[]TypeOK`, with the bounds and the order of every shard |
| `RateLimiterProofs!Implements` | `ImplementsTokenBucket` |
| `SupervisorProofs!TypeCorrect` | `[]TypeOK` |
| `SupervisorProofs!LocksExclude` | at most one actor is inside `start()` or `stop()` of an instance, and a lock that is taken is that of an actor inside |
| `SupervisorProofs!MinioCleanExit` | `[]CleanExit` |
| `AccessProofs!TypeCorrect` | `[]TypeOK` |
| `AccessProofs!GoodTokensPass` | `[]HonestRefusal` |
| `AccessProofs!WithdrawnStaysOut` | `[]RevokedStays` |
| `AccessProofs!PairingKey` | `[]KeyMatchesPairing` |
| `AccessProofs!TrustKept` | `TrustSurvives` |
| `UploadsProofs!TypeCorrect` | `[]TypeOK` |
| `UploadsProofs!PartsOnce` | `[]EachPartOnce` |
| `UploadsProofs!WholeFiles` | `[]CompleteWhole` |
| `DashboardProofs!TypeCorrect` | `[]TypeOK` |
| `DashboardProofs!TrailEnds` | `[]TrailEndsHere` |
| `DashboardProofs!PageFollows` | `[]RowsFollow` |
| `DashboardProofs!OwnDialogs` | `[]AnswersOwnDialog` |
| `ClientProofs!ShareTypeCorrect` | `[]ShareTypeOK` |
| `ClientProofs!ChoiceShown` | `[]LinkOfChoice` |
| `ClientProofs!TypeCorrect` | `[]TypeOK` |
| `ClientProofs!PagesConsistent` | `[]PagesHold` |

**FileStore.** The inductive invariant `IndInv` grows in three layers.
`Inv1 == TypeOK /\ Shapes /\ UsedWithinQuota`: `Shapes` says which calls a
request of each operation may be at, that past its row step it belongs to the owner of
its file, that `seen` is within the quota, and that a completion about to commit has
passed the quota test. It is needed because the committed usage is `seen + size`, not
`used + size`: without what the request knows, the quota is not inductive.
`Inv2 == Inv1 /\ FreshIds` adds that the id of an initiate in flight has no row and is in no
other request's hands; `NeverResurrected` and `OwnersOnly` follow from `Inv2` step by
step. `IndInv` adds `PublishesBacked`, that a request about to make a row
active has seen the object and nobody has removed it without owing the row; with it
`ActiveBacked` is inductive. One lemma per group of steps (arrivals, row steps, MinIO
calls, commits, failures, crash) and per layer.

**Library.** `IInv == Types /\ ReferencesHold /\ OneLinkPerSlug /\ Backed`. The four are
inductive together: a reference, once it holds, is broken only by the commit of a deletion,
which deletes what `Orphaned` does not move to the root, and the links of the files it
deletes; foreign keys keep late inserts from referring to what is gone. `Backed` says
`ActiveBacked` with what each request has erased (`Erased`), which failures move to `torn`.
`TreeKept` would be an induction along the chain of parents; `NoCycle` avoids it. It says
that no nonempty set of folders holds all their parents, which every step keeps (a new folder
has no children, a deletion cuts or moves to the root), and it is applied to `Above(d)`, which
one can then leave only to the root. `WholeTreeGoes` rests on `NoneForgotten`: every row a
walk owes is erased or collected by it, moved by another deletion, or within the `Subtree`
(as the tables are now) of an entry of its stack. No step of another puts a row out of the
reach of an entry without moving it to the root (`TablesKept`), and an id that is owed is
never drawn again.

**RateLimiter.** `Buckets` is the type invariant without the LRU order, on which neither
`HonestRetryAfter` nor `NeverOverspends` depends. `Promised` says that a tracked key's tokens
plus what comes in until the promised time reach the cost; `HonestRetryAfter` follows, for absent keys because their bucket is
full. `Conserved`, for nodes without pool threads, says that what was granted and what is
left never exceed the capacity and what came in since the key was last evicted:
`NeverOverspends` forgets what is left. The products of times and rates are
handled by the lemma `Products`, the rounding by `Waiting`. `Ordered` is the rest: the
relation `older` stays a strict total order of the keys of each shard, so a full shard has
exactly one `Eldest` (`FirstOfOrder`, because strict inclusion of finite sets is
well-founded), an insertion evicts exactly one key, and the size stays within the bound
(`OneForOne`). `Implements` maps each step: a tick refills every bucket by its rate
(`TickFound`), whatever was stored when; a decision finds what the bucket has (`DecideFound`)
and refills at most one other key of a shard that is `Crowded`, since a shard that evicts
holds `MaxKeys` keys and another arrives (`EvictsOne`); pruning and the sweep's steps
stutter, because what they drop is full (`SweepFound`).

**Supervisor.** `TypeOK` is inductive with `Bound`: an actor about to act has a registered
name and an instance. `LockHeld`, an induction on top of these, ties each lock to the control point of
its holder and gives mutual exclusion, which `start()` and `stop()` need because `Popen` and
`wait()` run in other threads. `MinioCleanExit` adds `Single` (the boot registers MinIO once,
so every child and every actor is of that instance) and `Ended` (once the shutdown has begun
the boot is over, the monitor at most ends a readiness probe in its thread, and when the closer's `stop()`
has returned no child runs).

**Access.** `IInv == Types /\ Cached /\ Requested /\ RevokedStays /\ KeyMatchesPairing`.
`HonestRefusal` rests on times: the cooldown counts from when the last stored download was
asked for, so every key served before that is in the cache (`Cached`), and every key older
than a verification is in the answer it waits for (`Waiting`, `Downloading`, `Refused`: the
parts of `Requested`). `RevokedStays` rests on the lock: downloads do not overlap, so
the answer about to be stored knows every withdrawal the cache knows.

**Uploads.** `IInv == TypeOK /\ Pools /\ Loop`. For every file, what a worker holds was
taken and is in no other's hands (`Hands`), answers are in their places (`Answered`), and,
unless the file has failed, no part before `nextIndex` is forgotten (`Covered`) and a
worker that has returned left none (`Drained`). `Loop` ties the file in hand to its pool.

**Dashboard.** `IInv` adds to `TrailEndsHere` and the parts of `AnswersOwnDialog` (`Flagged`,
`Single`, `Kept`) what is still to come: if the rows are not the node's, a change the page has
not heard of or the last listing asked for is out (`Following`), and that listing brings what
the node has once it is answered (`Fresh`).

**ShareModal.** `ShareIInv == ShareTypeOK /\ Current /\ Displayed /\ Copying`: since the last change of
the choice, every request that is heeded is of this choice, so is the link on display,
and so is what was copied.

**Session.** `IInv == TypeOK /\ Snapshots /\ Remembered /\ Room`: an answer on its way is of
some moment of the node, and what the page remembers came from such an answer, so a
token and the tunnel status stored with it belong together.

Only model-checked are the liveness properties (`Recovers`, `ShutdownEnds`, `LockReleased`,
`Answers`, `UploadEnds`, `DialogAnswers`, `SignsIn`, `LeavesDashboard`): the prover handles
neither arguments over `ENABLED` nor these leads-to formulas. The three runs that find a
violation are about formulas that do not hold.

## 6 Where code and documents disagree

Three disagreements are kept as runs that must find a violation:

1. `files_lost_update`: `complete_upload` (`files.py:204`) adds to the
   `storage_used` loaded when its request arrived. Two completions in flight both write
   the same sum, and one file is free. The README (203) says completing increments it.
2. `supervisor_orphan`: the monitor restarts, after its backoff (`supervisor.py:388`), the
   instance it held before it, even if a tunnel workflow has replaced it meanwhile. The child
   is in no table and survives `shutdown_all`. The README (182) says the `atexit` hook
   guarantees zero orphaned processes.
3. `session_repair`: nothing sets `isSessionExpired` back after a second pairing
   (`auth-context.tsx:85`; `dismissSessionExpired` has no caller). The dashboard
   (`page.tsx:277`) tells the user to re-pair.

Other facts met while modelling, without a run of their own:

- A single-mode upload is active before it is charged, and the charge is a call of its own
  (`ActiveIsCharged` in FileStore, against README:195).
- Two deletions of one file subtract twice, and deleting before completing subtracts what was never
  added; usage can be negative (`UsedNonNegative`).
- The duplicate check at initiate counts active rows and is not repeated, so two
  active files may share a name (`UniqueActiveNames`).
- Aborting an active single upload deletes its row and keeps its object
  (`NoObjectWithoutRow`).
- Two concurrent deletions of nested folders can leave a row in the root that came into
  the inner one (`moved` in Library; `WholeTree` excepts exactly these rows).
- `restart_count` is never reset; README:179 speaks of a five-minute window. The
  monitor may restart a process that was stopped during its backoff. Children started
  with `setsid` survive a SIGKILL of the node, which no hook sees (README:182, "or crash").
- cloudflared's readiness is read from a log all instances append to.
- With pool threads the same refill time can be used twice, because the clock is read
  before the lock (`rate_limiter.py:93`): `NeverOverspends` therefore says `threads = {}`.
  `tests/test_rate_limiter.py:221` exercises threads on a clock that stands still.
- The cooldown of the key cache counts from the last *successful* download.
  `settings.NODE_ID` does not follow a second pairing until a restart. A
  second crash during a second pairing can cost a node both key files; `TrustSurvives`
  claims one.
- The page shows rows the node no longer has after a lost answer, and when an older listing
  comes after a newer one: answers are applied as they come. `RowsFollow` excepts the two
  through `stale`, and nothing else.
- An answer to a request whose dialog was left can close, or put its error into, the dialog
  opened since for another item: `AnswersOwnDialog` excepts it through `tie`.
- The share dialog's Retry request is not cancelled by a change of the access level:
  `LinkOfChoice` excepts it through `crossed`. Its "Copied!" may outlive the choice by two
  seconds (`outlived`).
- After a failed part, more than `CONCURRENT_CHUNKS` requests may be in flight, and the
  failed upload is never aborted.
- A pairing that brings no tunnel token leaves the pairing page without any of its views,
  under a pill that says it synchronizes: `PagesHold` excepts it through `bare`.
- The heartbeat runs on the pairing page only: who entered the dashboard while the tunnel
  was starting stays unauthenticated there. A late 401 of an old token, or one
  that Central answered to a claim and the node passed on, marks the session expired.

## 7 What is not modelled

- *Presigned part URLs*: the PUT goes to MinIO without the node.
- *Operations that only read*: the node's listings, metadata, downloads, `/status`, public
  slugs (the page's listing requests are in Dashboard).
- *Durations and floats*: timeouts may end at any moment; the limiter's floats are
  integers of one unit, so rounding errors of `time.monotonic()` differences are out.
- *Tunnel state and `.env` files*: beyond the status one workflow writes.
- *Session tokens and the user row*: `decode_token` has no state; the creation of the row is
  planned. In FileStore users exist.
- *Binary downloader*: planned. *Manifest, schemas, migrations*: data.
- *Platform flags, process trees, the check of MinIO's port* (a taken port is the branch of
  `Boot` that registers nothing).
- *Page*: rendering, the sidebar's drawer and storage bar, pasting and typing of codes and
  names, the landing pages and the UI kit; `logout` and `dismissSessionExpired`, which have
  no caller.

## 8 Plan

Order of work, the most important behaviour first. Done: FileStore, RateLimiter with its
abstract specification, Supervisor, Library, Access, Uploads, Dashboard, ShareModal and
Session, and the proofs of all of them.

Next, more of the system:

1. **Downloader** (`downloader.py`): threads of one process that fetch one binary share
   its temporary file, and the hash is of the chunks received, not of the file.
   Property: what is installed is whole and has the manifest's checksum (README: "rename
   ... only after SHA256 passes"). Two threads, two chunks.
2. **Tunnel status**: two workflows over a smaller abstraction of the supervisor (an
   instance is up or not), with the in-memory status and the files the claim
   writes. Property: once all workflows have ended, the status is that of the registered instance.
3. **User row** (`dependencies.py`): two first requests of a user; composed with
   FileStore's arrival.
4. An **abstract file store** (per user a set of files with bytes, one step per
   request) that FileStore implements where the code keeps its promise.

Then, more proofs: for cloudflared, that a child outside the table is always one the monitor
restarted after its backoff (the finding's converse); and the refinement of the abstract file
store.

## 9 Working with the project

```
tlasany FileStore.tla                                  # parse
tlc -workers 2 -config MCFileStore.cfg MCFileStore.tla # check a run
tlapm FileStoreProofs.tla                              # check the proofs
```

`PROJECT.json` lists components, runs, mutants, the map from definitions to source lines,
findings, hazards and theorems.
