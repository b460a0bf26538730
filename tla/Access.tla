------------------------------- MODULE Access --------------------------------
(***************************************************************************)
(* Who the node trusts: the cache of Central's signing keys and the        *)
(* verification of share tokens (backend/app/core/jwks.py, used by the      *)
(* route /shared/{resource_id}), and the pairing with Central that leaves   *)
(* a fallback key and the node's identity on disk and in settings          *)
(* (service/pairing_service.py, config.py).                                *)
(*                                                                         *)
(* A verification runs without an await up to the lock of the key cache,   *)
(* waits for it, downloads the key set and tries again.  Central may        *)
(* rotate its keys at any moment, and fail to answer.                      *)
(***************************************************************************)
EXTENDS Integers, FiniteSets

CONSTANTS
    Keys,         \* Central's signing keys
    Nodes,        \* node ids Central hands out
    Requests,     \* verifications in flight at the same time
    Refresher,    \* the startup fetch and start_background_refresh
    Cooldown,     \* the 5 seconds of fetch_keys(force=True), in ticks
    MaxTime,      \* bound of the clock
    NoKey, NoNode, NoActor

ASSUME AccessAssumption ==
    /\ Refresher \notin Requests /\ NoActor \notin Requests \cup {Refresher}
    /\ NoKey \notin Keys /\ NoNode \notin Nodes
    /\ Keys # {} /\ Cooldown \in Nat \ {0} /\ MaxTime \in Nat

VARIABLES
    published,    \* the key set Central serves
    retired,      \* keys Central has withdrawn
    since,        \* when Central published each key
    now,          \* time.time
    serving,      \* lifespan has reached its yield
    cache,        \* _all_pems
    lastFetched,  \* _last_fetched
    lock,         \* the holder of JWKSManager._lock
    req,          \* verifications and the background refresh
    settings,     \* settings.PUBLIC_KEY and settings.NODE_ID
    creds,        \* pairing_credentials.json, NoIdentity when absent or torn
    pem,          \* public.pem
    revoked       \* history: keys that a key set cached since the start had lost

central == <<published, retired, since>>
keyring == <<cache, lastFetched, revoked>>
pairing == <<settings, creds, pem>>
vars    == <<central, now, serving, keyring, lock, req, pairing>>

-----------------------------------------------------------------------------
(* Types *)

Actors == Requests \cup {Refresher}
Times  == -Cooldown..MaxTime

\* Central's answer to a claim, and the contents of pairing_credentials.json.
Identity == [key : Keys \cup {NoKey}, node : Nodes]

\* What is read of a file that is absent or was truncated and not written.
NoIdentity == [key |-> NoKey, node |-> NoNode]

AnyKey == CHOOSE k \in Keys : TRUE

\* What is known of a token: it has not expired, its claims are those of this node, it
\* should be accepted (history), and the download made for it has failed (history).
Marks == {"live", "mine", "due", "failed"}

\* A verification or a refresh, from entering fetch_keys to the answer.
Verification ==
    [pc : {"idle", "lock", "fetch", "store", "accepted", "refused"}, entered : Times,
     key : Keys, marks : SUBSET Marks, got : SUBSET Keys, gone : SUBSET Keys]

Idle == [pc |-> "idle", entered |-> 0, key |-> AnyKey, marks |-> {}, got |-> {}, gone |-> {}]

TypeOK ==
    /\ published \subseteq Keys /\ published # {} /\ retired \subseteq Keys \ published
    /\ since \in [Keys -> Times] /\ now \in 0..MaxTime /\ serving \in BOOLEAN
    /\ cache \subseteq Keys /\ revoked \subseteq retired /\ lastFetched \in -Cooldown..now
    /\ lock \in Actors \cup {NoActor}
    /\ \A a \in Actors : lock = a <=> req[a].pc \in {"fetch", "store"}
    /\ req \in [Actors -> Verification] /\ req[Refresher].pc \notin {"accepted", "refused"}
    /\ settings \in [key : Keys \cup {NoKey}, node : Nodes \cup {NoNode}]
    /\ creds \in Identity \cup {NoIdentity}
    /\ pem \in Keys \cup {NoKey}

-----------------------------------------------------------------------------
(* State formulae *)

\* get_candidate_keys: the cached keys, then the key of the pairing.
Candidates(keys) == keys \cup ({settings.key} \ {NoKey})

\* get_current_node_id: what the process was started with, else the file.
OwnNode == IF settings.node # NoNode THEN settings.node ELSE creds.node

Goto(a, q) == req' = [req EXCEPT ![a] = q]

Waits(k, marks) == [Idle EXCEPT !.pc = "lock", !.entered = now, !.key = k, !.marks = marks]

Marked(mark, holds) == IF holds THEN {mark} ELSE {}

Answer(pc, q, failed) ==
    [Idle EXCEPT !.pc = pc, !.key = q.key,
                 !.marks = (q.marks \ {"live"}) \cup Marked("failed", failed)]

\* jwt.decode with each candidate in turn, which also refuses an expired token;
\* then the claims decide.
Decodes(keys, q) == "live" \in q.marks /\ q.key \in Candidates(keys)
Verdict(q)       == IF "mine" \in q.marks THEN "accepted" ELSE "refused"

InCooldown == now - lastFetched < Cooldown

\* The startup fetch: lifespan waits for it before the node serves.
Booting == Waits(AnyKey, {})

\* The first boot of a node that was never paired; Central has one key.
Init ==
    /\ published = {AnyKey}
    /\ retired = {} /\ since = [k \in Keys |-> -Cooldown] /\ now = 0
    /\ serving = FALSE
    /\ cache = {} /\ lastFetched = -Cooldown /\ revoked = {}
    /\ lock = NoActor
    /\ req = [a \in Actors |-> IF a = Refresher THEN Booting ELSE Idle]
    /\ settings = NoIdentity /\ creds = NoIdentity /\ pem = NoKey

-----------------------------------------------------------------------------
(* verify_share_token and JWKSManager.fetch_keys(force=True) *)

\* A token signed with key k, for node n, unexpired (live) and with the other
\* claims in order (good).  If the cached keys are not enough and no download was
\* started within the cooldown, one is started.  mine compares the claims with the
\* node's id, which the route reads first.  due is history: a good token, whose key
\* Central serves long enough for it to be in every key set the cooldown protects.
Verify(r) ==
    /\ serving /\ req[r] = Idle /\ OwnNode # NoNode
    /\ \E k \in published \cup retired, n \in Nodes, live, good \in BOOLEAN :
           LET mine == live /\ good /\ n = OwnNode
               due  == mine /\ k \in published /\ now - since[k] >= Cooldown
               q    == Waits(k, Marked("live", live) \cup Marked("mine", mine)
                                                    \cup Marked("due", due))
           IN  \/ Decodes(cache, q) /\ Goto(r, Answer(Verdict(q), q, FALSE))
               \/ ~Decodes(cache, q) /\ InCooldown /\ Goto(r, Answer("refused", q, FALSE))
               \/ ~Decodes(cache, q) /\ ~InCooldown /\ Goto(r, q)
    /\ UNCHANGED <<central, now, serving, keyring, lock, pairing>>

\* The background loop wakes up.
Refresh ==
    /\ serving /\ req[Refresher] = Idle /\ ~InCooldown
    /\ Goto(Refresher, Booting)
    /\ UNCHANGED <<central, now, serving, keyring, lock, pairing>>

\* Mutant of Acquire: downloads side by side.
AcquireShared(a) ==
    /\ req[a].pc = "lock"
    /\ lock' = a
    /\ Goto(a, [req[a] EXCEPT !.pc = "fetch"])
    /\ UNCHANGED <<central, now, serving, keyring, pairing>>

Acquire(a) ==
    /\ req[a].pc = "lock" /\ lock = NoActor
    /\ lock' = a
    /\ Goto(a, [req[a] EXCEPT !.pc = "fetch"])
    /\ UNCHANGED <<central, now, serving, keyring, pairing>>

\* Central serves its key set; the answer is on its way.  gone is history.
Serve(a) ==
    /\ req[a].pc = "fetch"
    /\ Goto(a, [req[a] EXCEPT !.pc = "store", !.got = published, !.gone = retired])
    /\ UNCHANGED <<central, now, serving, keyring, lock, pairing>>

\* The end of fetch_keys: a verification is answered, the startup goes on.
Ends(a, verdict, failed) ==
    /\ lock' = NoActor
    /\ serving' = (serving \/ a = Refresher)
    /\ Goto(a, IF a = Refresher THEN Idle ELSE Answer(verdict, req[a], failed))

\* Mutant of NoAnswer: the cooldown starts although nothing was downloaded.
NoAnswerCounts(a) ==
    /\ req[a].pc = "fetch"
    /\ Ends(a, "refused", TRUE)
    /\ lastFetched' = req[a].entered
    /\ UNCHANGED <<central, now, cache, revoked, pairing>>

\* Mutant of NoAnswer: the exception leaves the lock taken.
NoAnswerLocked(a) ==
    /\ req[a].pc = "fetch"
    /\ Goto(a, IF a = Refresher THEN Idle ELSE Answer("refused", req[a], TRUE))
    /\ serving' = TRUE
    /\ UNCHANGED <<central, now, keyring, lock, pairing>>

\* Central is down, answers an error, or without a usable key.
NoAnswer(a) ==
    /\ req[a].pc = "fetch"
    /\ Ends(a, "refused", TRUE)
    /\ UNCHANGED <<central, now, keyring, pairing>>

\* Mutant of Merged: the downloaded keys are added to the cached ones.
MergedAdding(old, got) == old \cup got

\* The new key set replaces the old one.
Merged(old, got) == got

\* The download ends: last_fetched is the time it was asked for, before the lock.
Store(a) ==
    LET q == req[a] IN
    /\ q.pc = "store"
    /\ cache' = Merged(cache, q.got)
    /\ lastFetched' = q.entered
    /\ revoked' = revoked \cup q.gone
    /\ Ends(a, IF Decodes(cache', q) THEN Verdict(q) ELSE "refused", FALSE)
    /\ UNCHANGED <<central, now, pairing>>

\* The response is sent.
Respond(r) ==
    /\ req[r].pc \in {"accepted", "refused"}
    /\ Goto(r, Idle)
    /\ UNCHANGED <<central, now, serving, keyring, lock, pairing>>

-----------------------------------------------------------------------------
(* Pairing *)

\* Central's answers to claim_node_pairing: a node id, and a key or none.  An answer
\* may be on its way while Central rotates its keys.  A claim that is refused or not
\* answered changes nothing.
ClaimAnswers == [key : published \cup retired \cup {NoKey}, node : Nodes]

\* Mutant of Persisted: settings keep the key they were started with.
PersistedInFile(old, new) == old

\* The key of a persisted answer, where it has one.
Persisted(old, new) == IF new = NoKey THEN old ELSE new

\* The answer comes and is persisted without an await: both files and the key in
\* memory are written, but not NODE_ID.
Persist ==
    /\ serving
    /\ \E new \in ClaimAnswers :
           /\ creds' = new
           /\ pem' = IF new.key = NoKey THEN pem ELSE new.key
           /\ settings' = [settings EXCEPT !.key = Persisted(@, new.key)]
    /\ UNCHANGED <<central, now, serving, keyring, lock, req>>

\* Mutant of HalfWritten: both files are opened before either is written.
HalfWrittenBoth(new) == {<<creds, pem>>, <<NoIdentity, NoKey>>, <<new, NoKey>>, <<new, new.key>>}

\* How a crash during persist_pairing_credentials leaves the two files: each is
\* truncated and then written, the credentials first.
HalfWritten(new) ==
    {<<creds, pem>>, <<NoIdentity, pem>>, <<new, pem>>}
    \cup (IF new.key = NoKey THEN {} ELSE {<<new, NoKey>>, <<new, new.key>>})

\* load_persisted_public_key and load_persisted_node_id, at import.
Loaded(c, p) == [c EXCEPT !.key = IF c.key = NoKey THEN p ELSE c.key]

\* The process dies and is started again: memory is lost, the files are read.
Restart ==
    /\ \E left \in {<<creds, pem>>} \cup UNION {HalfWritten(new) : new \in ClaimAnswers} :
           /\ creds' = left[1] /\ pem' = left[2]
           /\ settings' = Loaded(left[1], left[2])
    /\ serving' = FALSE
    /\ cache' = {} /\ lastFetched' = -Cooldown /\ revoked' = {}
    /\ lock' = NoActor
    /\ req' = [a \in Actors |-> IF a = Refresher THEN Booting ELSE Idle]
    /\ UNCHANGED <<central, now>>

-----------------------------------------------------------------------------
(* Central and time *)

Rotate ==
    \/ \E k \in Keys \ (published \cup retired) :
           /\ published' = published \cup {k}
           /\ since' = [since EXCEPT ![k] = now]
           /\ UNCHANGED retired
    \/ \E k \in published :
           /\ published # {k}
           /\ published' = published \ {k}
           /\ retired' = retired \cup {k}
           /\ UNCHANGED since

CentralRotates == Rotate /\ UNCHANGED <<now, serving, keyring, lock, req, pairing>>

Tick == /\ now < MaxTime /\ now' = now + 1
        /\ UNCHANGED <<central, serving, keyring, lock, req, pairing>>

-----------------------------------------------------------------------------
(* Specification *)

Fetch(a) == Acquire(a) \/ Serve(a) \/ NoAnswer(a) \/ Store(a)

Next == \/ \E r \in Requests : Verify(r) \/ Respond(r)
        \/ \E a \in Actors : Fetch(a)
        \/ Refresh
        \/ Persist
        \/ Restart
        \/ CentralRotates \/ Tick

Spec == Init /\ [][Next]_vars

\* A download ends, by its 10-second timeout if not before, and asyncio.Lock wakes
\* its waiters in the order they came.
Fairness == \A a \in Actors : /\ SF_vars(Acquire(a))
                              /\ WF_vars(Serve(a) \/ NoAnswer(a))
                              /\ WF_vars(Store(a))

FairSpec == Spec /\ Fairness

-----------------------------------------------------------------------------
(* Properties *)

\* The cooldown is no reason to refuse a good token: a token for this node, signed
\* with a key that Central was serving for Cooldown when it came and still serves,
\* is refused only when the download its verification made has failed.
HonestRefusal ==
    \A r \in Requests :
        (/\ req[r].pc = "refused" /\ "due" \in req[r].marks /\ req[r].key \in published)
        => "failed" \in req[r].marks

\* A key that the node has learned is withdrawn never comes back to the cache: an
\* older answer does not overwrite a newer one, whoever asked for it.
RevokedStays == cache \cap revoked = {}

\* What the node trusts in memory is the key of the pairing on disk, in every
\* order of pairings, crashes and restarts.
KeyMatchesPairing ==
    creds.key # NoKey => settings.key = creds.key

\* One crash never costs a paired node its fallback key: the two files are written
\* one after the other, and one of them is whole at every point.
TrustSurvivesStep ==
    creds.key # NoKey /\ pem # NoKey => settings'.key # NoKey
TrustSurvives == [][TrustSurvivesStep]_vars

\* Every verification that waits for a download is answered (or dies with the
\* process), however the downloads before it end.
Answers == \A r \in Requests : req[r].pc = "lock" ~> req[r].pc \notin {"lock", "fetch", "store"}
=============================================================================
