---------------------------- MODULE AccessProofs ----------------------------
(***************************************************************************)
(* Proofs about Access, for any keys, nodes, verifications in flight and    *)
(* cooldown: the type invariant, that a good token is refused only when a    *)
(* download failed, that withdrawn keys stay out of the cache, and that the  *)
(* node trusts the key of its pairing and does not lose it in a crash.      *)
(*                                                                         *)
(* HonestRefusal rests on times: the cooldown counts from when the last     *)
(* download was asked for, so every key older than that is in the cache     *)
(* (Cached), and every key older than a verification is in the answer it     *)
(* waits for (Waiting, Downloading).  RevokedStays rests on the lock: the    *)
(* answer about to be stored knows every withdrawal the cache knows.        *)
(***************************************************************************)
EXTENDS Access, TLAPS

\* The keys that were served before the last download was asked for are cached.
Cached == \A k \in published : since[k] < lastFetched => k \in cache

\* A token that should be accepted was signed with a key older than its verification.
Waiting ==
    \A a \in Actors : req[a].pc \in {"lock", "fetch", "store"} =>
        /\ req[a].entered <= now
        /\ "due" \in req[a].marks =>
               /\ "live" \in req[a].marks /\ "mine" \in req[a].marks
               /\ req[a].key \in published \cup retired
               /\ req[a].key \in published => since[req[a].key] < req[a].entered

\* An answer of Central is not older than the cache, and has all keys older than its request.
Downloading ==
    \A a \in Actors : req[a].pc = "store" =>
        /\ req[a].gone \subseteq retired /\ revoked \subseteq req[a].gone
        /\ req[a].got \cap req[a].gone = {}
        /\ \A k \in published : since[k] < req[a].entered => k \in req[a].got

\* HonestRefusal, of keys that were published at some time.
Refused ==
    \A a \in Actors : req[a].pc = "refused" /\ "due" \in req[a].marks =>
        /\ req[a].key \in published \cup retired
        /\ req[a].key \in published => "failed" \in req[a].marks

\* TypeOK in parts.
CentralTypes ==
    /\ published \subseteq Keys /\ published # {} /\ retired \subseteq Keys \ published
    /\ since \in [Keys -> Times] /\ now \in 0..MaxTime /\ serving \in BOOLEAN

CacheTypes == cache \subseteq Keys /\ revoked \subseteq retired /\ lastFetched \in -Cooldown..now

LockTypes ==
    /\ lock \in Actors \cup {NoActor}
    /\ \A a \in Actors : lock = a <=> req[a].pc \in {"fetch", "store"}

RequestTypes ==
    req \in [Actors -> Verification] /\ req[Refresher].pc \notin {"accepted", "refused"}

PairingTypes ==
    /\ settings \in [key : Keys \cup {NoKey}, node : Nodes \cup {NoNode}]
    /\ creds \in Identity \cup {NoIdentity}
    /\ pem \in Keys \cup {NoKey}

Types == CentralTypes /\ CacheTypes /\ LockTypes /\ RequestTypes /\ PairingTypes

LEMMA TypeParts == TypeOK <=> Types
BY Zenon DEF TypeOK, Types, CentralTypes, CacheTypes, LockTypes, RequestTypes, PairingTypes

Requested == Waiting /\ Downloading /\ Refused

IInv == Types /\ Cached /\ Requested /\ RevokedStays /\ KeyMatchesPairing

USE AccessAssumption DEF Actors

-----------------------------------------------------------------------------
(* Lemmas *)

LEMMA AnyKeyIs == AnyKey \in Keys
BY DEF AnyKey

LEMMA TimesAre == -Cooldown \in Times /\ \A t \in 0..MaxTime : t \in Times
BY DEF Times

LEMMA IdleTyped == Idle \in Verification
BY AnyKeyIs, TimesAre DEF Idle, Verification

\* What one step of one actor leaves of the others.
LEMMA GotoIs ==
    ASSUME req \in [Actors -> Verification], NEW a \in Actors, NEW q \in Verification, Goto(a, q)
    PROVE  /\ req' \in [Actors -> Verification] /\ req'[a] = q
           /\ \A b \in Actors : b # a => req'[b] = req[b]
BY DEF Goto

LEMMA WaitsIs ==
    ASSUME now \in 0..MaxTime, NEW k \in Keys, NEW m \in SUBSET Marks
    PROVE  /\ Waits(k, m) \in Verification
           /\ Waits(k, m).pc = "lock" /\ Waits(k, m).entered = now
           /\ Waits(k, m).key = k /\ Waits(k, m).marks = m
BY IdleTyped, TimesAre, AnyKeyIs DEF Waits, Idle, Verification

LEMMA AnswerIs ==
    ASSUME NEW pc \in {"accepted", "refused"}, NEW q \in Verification, NEW failed \in BOOLEAN
    PROVE  /\ Answer(pc, q, failed) \in Verification
           /\ Answer(pc, q, failed).pc = pc /\ Answer(pc, q, failed).key = q.key
           /\ "due" \in Answer(pc, q, failed).marks <=> "due" \in q.marks
           /\ failed => "failed" \in Answer(pc, q, failed).marks
<1> DEFINE m == (q.marks \ {"live"}) \cup Marked("failed", failed)
<1>1. Marked("failed", failed) = IF failed THEN {"failed"} ELSE {}
  BY DEF Marked
<1>2. m \in SUBSET Marks /\ ("due" \in m <=> "due" \in q.marks) /\ (failed => "failed" \in m)
  <2>1. q.marks \in SUBSET Marks
    BY DEF Verification
  <2> QED
    BY <1>1, <2>1 DEF Marks
<1>3. Answer(pc, q, failed) = [Idle EXCEPT !.pc = pc, !.key = q.key, !.marks = m]
  BY DEF Answer
<1> HIDE DEF m
<1> QED
  BY <1>2, <1>3, IdleTyped DEF Idle, Verification

\* The verdict on a token: its claims decide.
LEMMA VerdictIs ==
    ASSUME NEW q \in Verification, NEW failed \in BOOLEAN
    PROVE  /\ Answer(Verdict(q), q, failed) \in Verification
           /\ Answer(Verdict(q), q, failed).pc \in {"accepted", "refused"}
           /\ Answer(Verdict(q), q, failed).key = q.key
           /\ "due" \in Answer(Verdict(q), q, failed).marks <=> "due" \in q.marks
           /\ Answer(Verdict(q), q, failed).pc = "refused" => "mine" \notin q.marks
<1>1. CASE "mine" \in q.marks
  <2>1. Verdict(q) = "accepted"
    BY <1>1 DEF Verdict
  <2> QED
    BY <2>1, AnswerIs
<1>2. CASE "mine" \notin q.marks
  <2>1. Verdict(q) = "refused"
    BY <1>2 DEF Verdict
  <2> QED
    BY <1>2, <2>1, AnswerIs
<1> QED
  BY <1>1, <1>2

-----------------------------------------------------------------------------
(* Every step preserves the invariant *)

LEMMA InitIInv == ASSUME Init PROVE IInv
<1>1. AnyKey \in Keys /\ 0 \in 0..MaxTime
  BY AnyKeyIs
<1>2. Booting \in Verification /\ Booting.pc = "lock" /\ Booting.entered = 0 /\ Booting.marks = {}
  BY <1>1, WaitsIs DEF Init, Booting
<1>3. \A a \in Actors : req[a] = IF a = Refresher THEN Booting ELSE Idle
  BY DEF Init
<1>4. Idle.pc = "idle"
  BY DEF Idle
<1>5. CentralTypes
  BY <1>1, TimesAre DEF Init, CentralTypes
<1>6. CacheTypes /\ LockTypes /\ PairingTypes
  BY <1>2, <1>3, <1>4 DEF Init, CacheTypes, LockTypes, PairingTypes, NoIdentity, Identity
<1>7. RequestTypes
  BY <1>2, <1>3, IdleTyped DEF Init, RequestTypes
<1>8. Cached /\ RevokedStays /\ KeyMatchesPairing
  <2>1. Cached
    BY <1>1 DEF Init, Cached
  <2> QED
    BY <2>1 DEF Init, RevokedStays, KeyMatchesPairing
<1>9. Requested
  BY <1>2, <1>3, <1>4 DEF Init, Requested, Waiting, Downloading, Refused
<1> QED
  BY <1>5, <1>6, <1>7, <1>8, <1>9 DEF IInv, Types

\* A verification is answered at once, or waits: an answer in the cooldown refuses no
\* token whose key is old enough, for that key is cached.
LEMMA VerifyIInv ==
    ASSUME IInv, NEW r \in Requests, Verify(r)
    PROVE  IInv'
<1>1. PICK k \in published \cup retired, n \in Nodes, live \in BOOLEAN, good \in BOOLEAN :
         LET mine == live /\ good /\ n = OwnNode
             due  == mine /\ k \in published /\ now - since[k] >= Cooldown
             q    == Waits(k, Marked("live", live) \cup Marked("mine", mine) \cup Marked("due", due))
         IN  \/ Decodes(cache, q) /\ Goto(r, Answer(Verdict(q), q, FALSE))
             \/ ~Decodes(cache, q) /\ InCooldown /\ Goto(r, Answer("refused", q, FALSE))
             \/ ~Decodes(cache, q) /\ ~InCooldown /\ Goto(r, q)
  BY Zenon DEF Verify
<1> DEFINE mine == live /\ good /\ n = OwnNode
           due  == mine /\ k \in published /\ now - since[k] >= Cooldown
           m    == Marked("live", live) \cup Marked("mine", mine) \cup Marked("due", due)
           q    == Waits(k, m)
<1>2. /\ Decodes(cache, q) => Goto(r, Answer(Verdict(q), q, FALSE))
      /\ ~Decodes(cache, q) /\ InCooldown => Goto(r, Answer("refused", q, FALSE))
      /\ ~Decodes(cache, q) /\ ~InCooldown => Goto(r, q)
      /\ req[r] = Idle /\ UNCHANGED <<central, now, serving, keyring, lock, pairing>>
  BY <1>1, Zenon DEF Verify
<1>3. /\ m \in SUBSET Marks
      /\ "due" \in m => /\ "live" \in m /\ "mine" \in m
                        /\ k \in published /\ now - since[k] >= Cooldown
  BY DEF Marked, Marks
<1> HIDE DEF m
<1>4. k \in Keys /\ now \in 0..MaxTime
  BY DEF IInv, Types, CentralTypes
<1>5. q \in Verification /\ q.pc = "lock" /\ q.entered = now /\ q.key = k /\ q.marks = m
  BY <1>3, <1>4, WaitsIs
<1> HIDE DEF q
<1>6. PICK p \in Verification :
         /\ Goto(r, p)
         /\ p.pc = "lock" => p = q
         /\ p.pc = "refused" /\ "due" \in p.marks => "due" \in m /\ ~Decodes(cache, q) /\ InCooldown
         /\ p.pc \in {"lock", "accepted", "refused"}
  <2>1. CASE Decodes(cache, q) /\ Goto(r, Answer(Verdict(q), q, FALSE))
    <3> DEFINE a == Answer(Verdict(q), q, FALSE)
    <3>1. Goto(r, a)
      BY <2>1
    <3>2. /\ a \in Verification /\ a.pc \in {"accepted", "refused"}
          /\ "due" \in a.marks <=> "due" \in q.marks
          /\ a.pc = "refused" => "mine" \notin q.marks
      BY <1>5, VerdictIs
    <3> HIDE DEF a
    <3> QED
      BY <1>3, <1>5, <3>1, <3>2
  <2>2. CASE ~Decodes(cache, q) /\ InCooldown /\ Goto(r, Answer("refused", q, FALSE))
    <3> DEFINE a == Answer("refused", q, FALSE)
    <3>1. /\ a \in Verification /\ a.pc = "refused"
          /\ "due" \in a.marks <=> "due" \in q.marks
      BY <1>5, AnswerIs
    <3>2. Goto(r, a)
      BY <2>2
    <3> HIDE DEF a
    <3> QED
      BY <1>5, <2>2, <3>1, <3>2
  <2>3. CASE ~Decodes(cache, q) /\ ~InCooldown /\ Goto(r, q)
    BY <1>5, <2>3
  <2> QED
    BY <1>2, <2>1, <2>2, <2>3
<1>7. p.pc = "refused" /\ "due" \in p.marks => FALSE
  <2> SUFFICES ASSUME p.pc = "refused", "due" \in p.marks PROVE FALSE
    OBVIOUS
  <2>1. "due" \in m /\ ~Decodes(cache, q) /\ InCooldown
    BY <1>6
  <2>2. since[k] < lastFetched
    <3>1. now - lastFetched < Cooldown /\ now - since[k] >= Cooldown
      BY <1>3, <2>1 DEF InCooldown
    <3>2. now \in Int /\ lastFetched \in Int /\ since[k] \in Int /\ Cooldown \in Int
      BY <1>4 DEF IInv, Types, CentralTypes, CacheTypes, Times
    <3> QED
      BY <3>1, <3>2
  <2>3. k \in cache
    BY <1>3, <2>1, <2>2 DEF IInv, Cached
  <2> QED
    BY <1>3, <1>5, <2>1, <2>3 DEF Decodes, Candidates
<1>8. /\ req' \in [Actors -> Verification] /\ req'[r] = p
      /\ \A b \in Actors : b # r => req'[b] = req[b]
  BY <1>6, GotoIs DEF IInv, Types, RequestTypes
<1>9. Idle.pc = "idle" /\ r # Refresher
  BY DEF Idle
<1>10. /\ UNCHANGED <<published, retired, since, now, serving, cache, lastFetched, revoked, lock,
                      settings, creds, pem>>
  BY <1>2 DEF central, keyring, pairing
<1>11. Types'
  <2>1. CentralTypes' /\ CacheTypes' /\ PairingTypes'
    BY <1>10 DEF IInv, Types, CentralTypes, CacheTypes, PairingTypes
  <2>2. LockTypes'
    BY <1>2, <1>6, <1>8, <1>9, <1>10 DEF IInv, Types, LockTypes
  <2>3. RequestTypes'
    BY <1>8, <1>9 DEF IInv, Types, RequestTypes
  <2> QED
    BY <2>1, <2>2, <2>3 DEF Types
<1>12. Waiting'
  <2>1. p.pc = "lock" => /\ p.entered <= now
                         /\ "due" \in p.marks =>
                               /\ "live" \in p.marks /\ "mine" \in p.marks
                               /\ p.key \in published \cup retired
                               /\ since[p.key] < p.entered
    <3>1. now <= now /\ (now - since[k] >= Cooldown => since[k] < now)
      BY <1>4 DEF IInv, Types, CentralTypes, Times
    <3> QED
      BY <1>3, <1>5, <1>6, <3>1
  <2> QED
    BY <1>6, <1>8, <1>10, <2>1 DEF IInv, Requested, Waiting
<1>13. Downloading'
  BY <1>6, <1>8, <1>10 DEF IInv, Requested, Downloading
<1>14. Refused'
  BY <1>7, <1>8, <1>10 DEF IInv, Requested, Refused
<1>15. Cached' /\ RevokedStays' /\ KeyMatchesPairing'
  BY <1>10 DEF IInv, Cached, RevokedStays, KeyMatchesPairing
<1> QED
  BY <1>11, <1>12, <1>13, <1>14, <1>15 DEF IInv, Requested

\* The background loop asks for a download.
LEMMA RefreshIInv == ASSUME IInv, Refresh PROVE IInv'
<1>1. now \in 0..MaxTime /\ AnyKey \in Keys
  BY AnyKeyIs DEF IInv, Types, CentralTypes
<1>2. Booting \in Verification /\ Booting.pc = "lock" /\ Booting.entered = now /\ Booting.marks = {}
  BY <1>1, WaitsIs DEF Booting
<1>3. Goto(Refresher, Booting) /\ req[Refresher].pc = "idle"
  BY DEF Refresh, Idle
<1> HIDE DEF Booting
<1>4. /\ req' \in [Actors -> Verification] /\ req'[Refresher] = Booting
      /\ \A b \in Actors : b # Refresher => req'[b] = req[b]
  BY <1>2, <1>3, GotoIs DEF IInv, Types, RequestTypes
<1>5. UNCHANGED <<published, retired, since, now, serving, cache, lastFetched, revoked, lock,
                  settings, creds, pem>>
  BY DEF Refresh, central, keyring, pairing
<1>6. Types'
  <2>1. CentralTypes' /\ CacheTypes' /\ PairingTypes'
    BY <1>5 DEF IInv, Types, CentralTypes, CacheTypes, PairingTypes
  <2>2. LockTypes'
    BY <1>2, <1>3, <1>4, <1>5 DEF IInv, Types, LockTypes
  <2>3. RequestTypes'
    BY <1>2, <1>4 DEF RequestTypes
  <2> QED
    BY <2>1, <2>2, <2>3 DEF Types
<1>7. Requested'
  <2>1. now <= now
    BY <1>1
  <2>2. Waiting'
    BY <1>2, <1>4, <1>5, <2>1 DEF IInv, Requested, Waiting
  <2>3. Downloading' /\ Refused'
    BY <1>2, <1>4, <1>5 DEF IInv, Requested, Downloading, Refused
  <2> QED
    BY <2>2, <2>3 DEF Requested
<1>8. Cached' /\ RevokedStays' /\ KeyMatchesPairing'
  BY <1>5 DEF IInv, Cached, RevokedStays, KeyMatchesPairing
<1> QED
  BY <1>6, <1>7, <1>8 DEF IInv

\* The lock is taken, and Central serves its keys: nobody else is downloading.
LEMMA AcquireIInv == ASSUME IInv, NEW a \in Actors, Acquire(a) PROVE IInv'
<1> DEFINE q == [req[a] EXCEPT !.pc = "fetch"]
<1>1. req[a] \in Verification
  BY DEF IInv, Types, RequestTypes
<1>2. /\ q \in Verification /\ q.pc = "fetch"
      /\ q.entered = req[a].entered /\ q.key = req[a].key /\ q.marks = req[a].marks
  BY <1>1 DEF Verification
<1>3. Goto(a, q) /\ lock = NoActor /\ lock' = a /\ req[a].pc = "lock"
  BY DEF Acquire
<1> HIDE DEF q
<1>4. /\ req' \in [Actors -> Verification] /\ req'[a] = q
      /\ \A b \in Actors : b # a => req'[b] = req[b]
  BY <1>2, <1>3, GotoIs DEF IInv, Types, RequestTypes
<1>5. UNCHANGED <<published, retired, since, now, serving, cache, lastFetched, revoked, settings,
                  creds, pem>>
  BY DEF Acquire, central, keyring, pairing
<1>6. Types'
  <2>1. CentralTypes' /\ CacheTypes' /\ PairingTypes'
    BY <1>5 DEF IInv, Types, CentralTypes, CacheTypes, PairingTypes
  <2>2. LockTypes'
    BY <1>2, <1>3, <1>4 DEF IInv, Types, LockTypes
  <2>3. RequestTypes'
    BY <1>2, <1>4 DEF IInv, Types, RequestTypes
  <2> QED
    BY <2>1, <2>2, <2>3 DEF Types
<1>7. Requested'
  <2>1. Waiting'
    BY <1>2, <1>3, <1>4, <1>5 DEF IInv, Requested, Waiting
  <2>2. Downloading' /\ Refused'
    BY <1>2, <1>4, <1>5 DEF IInv, Requested, Downloading, Refused
  <2> QED
    BY <2>1, <2>2 DEF Requested
<1>8. Cached' /\ RevokedStays' /\ KeyMatchesPairing'
  BY <1>5 DEF IInv, Cached, RevokedStays, KeyMatchesPairing
<1> QED
  BY <1>6, <1>7, <1>8 DEF IInv

LEMMA ServeIInv == ASSUME IInv, NEW a \in Actors, Serve(a) PROVE IInv'
<1> DEFINE q == [req[a] EXCEPT !.pc = "store", !.got = published, !.gone = retired]
<1>1. req[a] \in Verification /\ published \in SUBSET Keys /\ retired \in SUBSET Keys
  BY DEF IInv, Types, RequestTypes, CentralTypes
<1>2. /\ q \in Verification /\ q.pc = "store" /\ q.got = published /\ q.gone = retired
      /\ q.entered = req[a].entered /\ q.key = req[a].key /\ q.marks = req[a].marks
  BY <1>1 DEF Verification
<1>3. Goto(a, q) /\ req[a].pc = "fetch"
  BY DEF Serve
<1> HIDE DEF q
<1>4. /\ req' \in [Actors -> Verification] /\ req'[a] = q
      /\ \A b \in Actors : b # a => req'[b] = req[b]
  BY <1>2, <1>3, GotoIs DEF IInv, Types, RequestTypes
<1>5. UNCHANGED <<published, retired, since, now, serving, cache, lastFetched, revoked, lock,
                  settings, creds, pem>>
  BY DEF Serve, central, keyring, pairing
<1>6. Types'
  <2>1. CentralTypes' /\ CacheTypes' /\ PairingTypes'
    BY <1>5 DEF IInv, Types, CentralTypes, CacheTypes, PairingTypes
  <2>2. LockTypes'
    BY <1>2, <1>3, <1>4, <1>5 DEF IInv, Types, LockTypes
  <2>3. RequestTypes'
    BY <1>2, <1>4 DEF IInv, Types, RequestTypes
  <2> QED
    BY <2>1, <2>2, <2>3 DEF Types
<1>7. Requested'
  <2>1. Waiting'
    BY <1>2, <1>3, <1>4, <1>5 DEF IInv, Requested, Waiting
  <2>2. Downloading'
    <3>1. revoked \subseteq retired /\ published \cap retired = {}
      BY DEF IInv, Types, CacheTypes, CentralTypes
    <3> QED
      BY <1>2, <1>4, <1>5, <3>1 DEF IInv, Requested, Downloading
  <2>3. Refused'
    BY <1>2, <1>4, <1>5 DEF IInv, Requested, Refused
  <2> QED
    BY <2>1, <2>2, <2>3 DEF Requested
<1>8. Cached' /\ RevokedStays' /\ KeyMatchesPairing'
  BY <1>5 DEF IInv, Cached, RevokedStays, KeyMatchesPairing
<1> QED
  BY <1>6, <1>7, <1>8 DEF IInv

\* A download ends, with p for the answer of the one that made it.
LEMMA EndIInv ==
    ASSUME IInv, NEW a \in Actors, NEW p \in Verification,
           req[a].pc \in {"fetch", "store"}, Goto(a, p),
           p.pc \in {"idle", "accepted", "refused"}, a = Refresher => p.pc = "idle",
           p.pc = "refused" /\ "due" \in p.marks =>
               /\ p.key \in published \cup retired
               /\ p.key \in published => "failed" \in p.marks,
           lock' = NoActor, serving' = (serving \/ a = Refresher), UNCHANGED <<central, now, pairing>>,
           CacheTypes', Cached', RevokedStays',
           revoked' \subseteq revoked \/ req[a].pc = "store"
    PROVE  IInv'
<1>1. /\ req' \in [Actors -> Verification] /\ req'[a] = p
      /\ \A b \in Actors : b # a => req'[b] = req[b]
  BY GotoIs DEF IInv, Types, RequestTypes
<1>2. UNCHANGED <<published, retired, since, now, settings, creds, pem>>
  BY DEF central, pairing
<1>3. \A b \in Actors : b # a => req[b].pc \notin {"fetch", "store"}
  BY DEF IInv, Types, LockTypes
<1>4. Types'
  <2>1. serving' \in BOOLEAN
    <3>1. (serving \/ a = Refresher) \in BOOLEAN
      BY SMT
    <3> QED
      BY <3>1, Zenon
  <2>2. CentralTypes' /\ PairingTypes'
    BY <1>2, <2>1 DEF IInv, Types, CentralTypes, PairingTypes
  <2>3. LockTypes'
    BY <1>1, <1>3 DEF LockTypes
  <2>4. RequestTypes'
    BY <1>1 DEF IInv, Types, RequestTypes
  <2> QED
    BY <2>2, <2>3, <2>4 DEF Types
<1>5. Waiting'
  BY <1>1, <1>2 DEF IInv, Requested, Waiting
<1>6. Downloading'
  BY <1>1, <1>3 DEF Downloading
<1>7. Refused'
  BY <1>1, <1>2 DEF IInv, Requested, Refused
<1>8. KeyMatchesPairing'
  BY <1>2 DEF IInv, KeyMatchesPairing
<1> QED
  BY <1>4, <1>5, <1>6, <1>7, <1>8 DEF IInv, Requested

LEMMA NoAnswerIInv == ASSUME IInv, NEW a \in Actors, NoAnswer(a) PROVE IInv'
<1> DEFINE p == IF a = Refresher THEN Idle ELSE Answer("refused", req[a], TRUE)
<1>1. req[a] \in Verification /\ req[a].pc = "fetch"
  BY DEF IInv, Types, RequestTypes, NoAnswer
<1>2. /\ Goto(a, p) /\ lock' = NoActor
      /\ UNCHANGED <<central, now, keyring, pairing>>
  BY DEF NoAnswer, Ends
<1>3. serving' = (serving \/ a = Refresher)
  BY Zenon DEF NoAnswer, Ends
<1>4. CASE a = Refresher
  <2>1. p = Idle /\ Idle.pc = "idle"
    BY <1>4 DEF Idle
  <2> HIDE DEF p
  <2>2. CacheTypes' /\ Cached' /\ RevokedStays' /\ revoked' = revoked
    BY <1>2 DEF IInv, Types, CacheTypes, Cached, RevokedStays, central, keyring
  <2> QED
    BY <1>1, <1>2, <1>3, <2>1, <2>2, IdleTyped, EndIInv
<1>5. CASE a # Refresher
  <2>1. /\ p \in Verification /\ p.pc = "refused" /\ p.key = req[a].key
        /\ "due" \in p.marks <=> "due" \in req[a].marks
        /\ "failed" \in p.marks
    BY <1>1, <1>5, AnswerIs
  <2> HIDE DEF p
  <2>2. CacheTypes' /\ Cached' /\ RevokedStays' /\ revoked' = revoked
    BY <1>2 DEF IInv, Types, CacheTypes, Cached, RevokedStays, central, keyring
  <2>3. "due" \in p.marks => p.key \in published \cup retired
    BY <1>1, <2>1 DEF IInv, Requested, Waiting
  <2> QED
    BY <1>1, <1>2, <1>3, <1>5, <2>1, <2>2, <2>3, EndIInv
<1> QED
  BY <1>4, <1>5

\* The answer replaces the cache: it is as new as its request, and as the withdrawals.
LEMMA StoreIInv == ASSUME IInv, NEW a \in Actors, Store(a) PROVE IInv'
<1> DEFINE q == req[a]
           v == IF Decodes(cache', q) THEN Verdict(q) ELSE "refused"
           p == IF a = Refresher THEN Idle ELSE Answer(v, q, FALSE)
<1>1. /\ q \in Verification /\ q.pc = "store"
      /\ cache' = q.got /\ lastFetched' = q.entered /\ revoked' = revoked \cup q.gone
      /\ UNCHANGED <<central, now, pairing>>
  BY DEF IInv, Types, RequestTypes, Store, Merged
<1>2. Ends(a, v, FALSE)
  BY Zenon DEF Store
<1>3. Goto(a, p) /\ lock' = NoActor
  BY <1>2, Zenon DEF Ends
<1>4. serving' = (serving \/ a = Refresher)
  BY <1>2, Zenon DEF Ends
<1>5. /\ q.entered \in -Cooldown..now /\ q.got \subseteq Keys /\ q.gone \subseteq retired
      /\ revoked \subseteq q.gone /\ q.got \cap q.gone = {}
      /\ \A k \in published : since[k] < q.entered => k \in q.got
  <2>1. q.entered \in Times /\ q.entered <= now /\ q.got \subseteq Keys
    BY <1>1 DEF Verification, IInv, Requested, Waiting
  <2>2. now \in 0..MaxTime
    BY DEF IInv, Types, CentralTypes
  <2>3. q.entered \in -Cooldown..now
    BY <2>1, <2>2 DEF Times
  <2> QED
    BY <1>1, <2>1, <2>3 DEF IInv, Requested, Downloading
<1>6. CacheTypes' /\ Cached' /\ RevokedStays'
  BY <1>1, <1>5 DEF CacheTypes, Cached, RevokedStays, central
<1>7. "due" \in q.marks => /\ "live" \in q.marks /\ "mine" \in q.marks
                           /\ q.key \in published \cup retired
                           /\ q.key \in published => q.key \in q.got
  BY <1>1, <1>5 DEF IInv, Requested, Waiting
<1>8. CASE a = Refresher
  <2>1. p = Idle /\ Idle.pc = "idle"
    BY <1>8 DEF Idle
  <2> HIDE DEF p
  <2> QED
    BY <1>1, <1>3, <1>4, <1>6, <2>1, IdleTyped, EndIInv
<1>9. CASE a # Refresher /\ Decodes(cache', q)
  <2>1. p = Answer(Verdict(q), q, FALSE)
    BY <1>9
  <2>2. /\ p \in Verification /\ p.pc \in {"accepted", "refused"}
        /\ "due" \in p.marks <=> "due" \in q.marks
        /\ p.pc = "refused" => "mine" \notin q.marks
    BY <1>1, <2>1, VerdictIs
  <2> HIDE DEF p, v
  <2> QED
    BY <1>1, <1>3, <1>4, <1>6, <1>7, <1>9, <2>2, EndIInv
<1>10. CASE a # Refresher /\ ~Decodes(cache', q)
  <2>1. p = Answer("refused", q, FALSE)
    BY <1>10
  <2> HIDE DEF p
  <2>2. /\ p \in Verification /\ p.pc = "refused" /\ p.key = q.key
        /\ "due" \in p.marks <=> "due" \in q.marks
    <3> HIDE DEF q
    <3> QED
      BY <1>1, <2>1, AnswerIs
  <2>3. "due" \in q.marks => q.key \notin published
    BY <1>1, <1>7, <1>10 DEF Decodes, Candidates
  <2> HIDE DEF p, v
  <2> QED
    BY <1>1, <1>3, <1>4, <1>6, <1>7, <1>10, <2>2, <2>3, EndIInv
<1> QED
  BY <1>8, <1>9, <1>10

LEMMA RespondIInv == ASSUME IInv, NEW r \in Requests, Respond(r) PROVE IInv'
<1>1. Goto(r, Idle) /\ req[r].pc \in {"accepted", "refused"} /\ Idle.pc = "idle"
  BY DEF Respond, Idle
<1>2. /\ req' \in [Actors -> Verification] /\ req'[r] = Idle
      /\ \A b \in Actors : b # r => req'[b] = req[b]
  BY <1>1, IdleTyped, GotoIs DEF IInv, Types, RequestTypes
<1>3. UNCHANGED <<published, retired, since, now, serving, cache, lastFetched, revoked, lock,
                  settings, creds, pem>>
  BY DEF Respond, central, keyring, pairing
<1>4. Types'
  <2>1. CentralTypes' /\ CacheTypes' /\ PairingTypes'
    BY <1>3 DEF IInv, Types, CentralTypes, CacheTypes, PairingTypes
  <2>2. LockTypes' /\ RequestTypes'
    BY <1>1, <1>2, <1>3 DEF IInv, Types, LockTypes, RequestTypes
  <2> QED
    BY <2>1, <2>2 DEF Types
<1>5. Requested'
  BY <1>1, <1>2, <1>3 DEF IInv, Requested, Waiting, Downloading, Refused
<1>6. Cached' /\ RevokedStays' /\ KeyMatchesPairing'
  BY <1>3 DEF IInv, Cached, RevokedStays, KeyMatchesPairing
<1> QED
  BY <1>4, <1>5, <1>6 DEF IInv

\* The rest of the state under steps that concern neither the cache nor the requests.
LEMMA PairingStep ==
    ASSUME IInv, PairingTypes', KeyMatchesPairing',
           UNCHANGED <<central, now, serving, keyring, lock, req>>
    PROVE  IInv'
<1>1. UNCHANGED <<published, retired, since, now, serving, cache, lastFetched, revoked, lock, req>>
  BY DEF central, keyring
<1>2. Types'
  BY <1>1 DEF IInv, Types, CentralTypes, CacheTypes, LockTypes, RequestTypes
<1>3. Requested' /\ Cached' /\ RevokedStays'
  BY <1>1 DEF IInv, Requested, Waiting, Downloading, Refused, Cached, RevokedStays
<1> QED
  BY <1>2, <1>3 DEF IInv

LEMMA ClaimTyped ==
    ASSUME CentralTypes, NEW new \in ClaimAnswers
    PROVE  new \in Identity /\ new.key \in Keys \cup {NoKey}
BY DEF CentralTypes, ClaimAnswers, Identity

LEMMA PersistIInv == ASSUME IInv, Persist PROVE IInv'
<1>1. PICK new \in ClaimAnswers :
         /\ creds' = new
         /\ pem' = IF new.key = NoKey THEN pem ELSE new.key
         /\ settings' = [settings EXCEPT !.key = Persisted(@, new.key)]
  BY DEF Persist
<1>2. new \in Identity /\ new.key \in Keys \cup {NoKey}
  BY ClaimTyped DEF IInv, Types
<1>3. PairingTypes
  BY DEF IInv, Types
<1>4. /\ settings' \in [key : Keys \cup {NoKey}, node : Nodes \cup {NoNode}]
      /\ settings'.key = IF new.key = NoKey THEN settings.key ELSE new.key
  BY <1>1, <1>2, <1>3 DEF PairingTypes, Persisted
<1>5. PairingTypes'
  BY <1>1, <1>2, <1>3, <1>4 DEF PairingTypes
<1>6. KeyMatchesPairing'
  BY <1>1, <1>4 DEF KeyMatchesPairing
<1> QED
  BY <1>5, <1>6, PairingStep DEF Persist

\* What a crash leaves of the two files has their types, and a key if both had one.
LEMMA LeftIs ==
    ASSUME IInv, NEW left \in {<<creds, pem>>} \cup UNION {HalfWritten(new) : new \in ClaimAnswers}
    PROVE  /\ left[1] \in Identity \cup {NoIdentity} /\ left[2] \in Keys \cup {NoKey}
           /\ creds.key # NoKey /\ pem # NoKey => left[1].key # NoKey \/ left[2] # NoKey
<1>1. creds \in Identity \cup {NoIdentity} /\ pem \in Keys \cup {NoKey}
  BY DEF IInv, Types, PairingTypes
<1>2. CASE left = <<creds, pem>>
  BY <1>1, <1>2
<1>3. ASSUME NEW new \in ClaimAnswers, left \in HalfWritten(new)
      PROVE  /\ left[1] \in Identity \cup {NoIdentity} /\ left[2] \in Keys \cup {NoKey}
             /\ creds.key # NoKey /\ pem # NoKey => left[1].key # NoKey \/ left[2] # NoKey
  <2>1. new \in Identity /\ new.key \in Keys \cup {NoKey}
    BY ClaimTyped DEF IInv, Types
  <2>2. \/ left = <<creds, pem>> \/ left = <<NoIdentity, pem>> \/ left = <<new, pem>>
        \/ new.key # NoKey /\ (left = <<new, NoKey>> \/ left = <<new, new.key>>)
    BY <1>3 DEF HalfWritten
  <2> QED
    BY <1>1, <2>1, <2>2
<1> QED
  BY <1>2, <1>3

LEMMA LoadedIs ==
    ASSUME NEW c \in Identity \cup {NoIdentity}, NEW p \in Keys \cup {NoKey}
    PROVE  /\ Loaded(c, p) \in [key : Keys \cup {NoKey}, node : Nodes \cup {NoNode}]
           /\ Loaded(c, p).key = IF c.key = NoKey THEN p ELSE c.key
BY DEF Loaded, Identity, NoIdentity

LEMMA RestartIInv == ASSUME IInv, Restart PROVE IInv'
<1>1. PICK left \in {<<creds, pem>>} \cup UNION {HalfWritten(new) : new \in ClaimAnswers} :
         creds' = left[1] /\ pem' = left[2] /\ settings' = Loaded(left[1], left[2])
  BY DEF Restart
<1>2. PairingTypes' /\ KeyMatchesPairing'
  BY <1>1, LeftIs, LoadedIs DEF PairingTypes, KeyMatchesPairing
<1>3. now \in 0..MaxTime /\ AnyKey \in Keys /\ UNCHANGED <<published, retired, since, now>>
  BY AnyKeyIs DEF IInv, Types, CentralTypes, Restart, central
<1>4. Booting \in Verification /\ Booting.pc = "lock" /\ Booting.entered = now /\ Booting.marks = {}
  BY <1>3, WaitsIs DEF Booting
<1>5. req' = [a \in Actors |-> IF a = Refresher THEN Booting ELSE Idle] /\ Idle.pc = "idle"
  BY DEF Restart, Idle
<1> HIDE DEF Booting
<1>6. Types'
  <2>1. CentralTypes'
    BY <1>3 DEF IInv, Types, CentralTypes, Restart
  <2>2. CacheTypes'
    BY <1>3 DEF CacheTypes, Restart
  <2>3. LockTypes'
    BY <1>4, <1>5 DEF LockTypes, Restart
  <2>4. RequestTypes'
    BY <1>4, <1>5, IdleTyped DEF RequestTypes
  <2> QED
    BY <1>2, <2>1, <2>2, <2>3, <2>4 DEF Types
<1>7. Requested'
  <2>1. now <= now
    BY <1>3
  <2> QED
    BY <1>3, <1>4, <1>5, <2>1 DEF Requested, Waiting, Downloading, Refused
<1>8. Cached'
  <2>1. \A k \in Keys : ~(since[k] < -Cooldown)
    BY DEF IInv, Types, CentralTypes, Times
  <2> QED
    BY <1>3, <2>1 DEF IInv, Types, CentralTypes, Cached, Restart
<1>9. RevokedStays'
  BY DEF RevokedStays, Restart
<1> QED
  BY <1>2, <1>6, <1>7, <1>8, <1>9 DEF IInv

\* A key that comes is younger than everything in flight; one that goes is only retired.
LEMMA RotatesIInv == ASSUME IInv, CentralRotates PROVE IInv'
<1>1. UNCHANGED <<now, serving, cache, lastFetched, revoked, lock, req, settings, creds, pem>>
  BY DEF CentralRotates, keyring, pairing
<1>2. /\ published' \subseteq Keys /\ published' # {}
      /\ retired' \subseteq Keys \ published' /\ retired \subseteq retired'
      /\ since' \in [Keys -> Times]
      /\ published \cup retired \subseteq published' \cup retired'
      /\ \A k \in published' : \/ k \in published /\ since'[k] = since[k]
                               \/ k \notin published \cup retired /\ since'[k] = now
  <2>1. CentralTypes /\ now \in Times
    BY TimesAre DEF IInv, Types, CentralTypes
  <2>2. Rotate
    BY DEF CentralRotates
  <2>3. CASE \E k \in Keys \ (published \cup retired) :
                /\ published' = published \cup {k} /\ since' = [since EXCEPT ![k] = now]
                /\ UNCHANGED retired
    BY <2>1, <2>3 DEF CentralTypes
  <2>4. CASE \E k \in published :
                /\ published # {k} /\ published' = published \ {k}
                /\ retired' = retired \cup {k} /\ UNCHANGED since
    BY <2>1, <2>4 DEF CentralTypes
  <2> QED
    BY <2>2, <2>3, <2>4 DEF Rotate
<1>3. lastFetched <= now /\ now \in 0..MaxTime /\ lastFetched \in Int
  BY DEF IInv, Types, CacheTypes, CentralTypes
<1>4. Types'
  <2>1. CentralTypes'
    BY <1>1, <1>2 DEF IInv, Types, CentralTypes
  <2>2. CacheTypes' /\ LockTypes' /\ RequestTypes' /\ PairingTypes'
    BY <1>1, <1>2 DEF IInv, Types, CacheTypes, LockTypes, RequestTypes, PairingTypes
  <2> QED
    BY <2>1, <2>2 DEF Types
<1>5. Cached'
  <2> SUFFICES ASSUME NEW k \in published', since'[k] < lastFetched PROVE k \in cache
    BY <1>1 DEF Cached
  <2>1. since'[k] # now
    BY <1>3
  <2> QED
    BY <1>2, <2>1 DEF IInv, Cached
<1>6. \A a \in Actors : req[a].entered \in Int
  BY DEF IInv, Types, RequestTypes, Verification, Times
<1>7. Waiting'
  <2> SUFFICES ASSUME NEW a \in Actors, req[a].pc \in {"lock", "fetch", "store"},
                      "due" \in req[a].marks
               PROVE  /\ req[a].key \in published' \cup retired'
                      /\ req[a].key \in published' => since'[req[a].key] < req[a].entered
    BY <1>1 DEF IInv, Requested, Waiting
  <2> QED
    BY <1>2 DEF IInv, Requested, Waiting
<1>8. Downloading'
  <2> SUFFICES ASSUME NEW a \in Actors, req[a].pc = "store"
               PROVE  /\ req[a].gone \subseteq retired'
                      /\ \A k \in published' : since'[k] < req[a].entered => k \in req[a].got
    BY <1>1 DEF IInv, Requested, Downloading
  <2>1. req[a].gone \subseteq retired'
    BY <1>2 DEF IInv, Requested, Downloading
  <2>2. ASSUME NEW k \in published', since'[k] < req[a].entered PROVE k \in req[a].got
    <3>1. req[a].entered <= now
      BY DEF IInv, Requested, Waiting
    <3>2. since'[k] # now
      BY <1>3, <1>6, <2>2, <3>1
    <3> QED
      BY <1>2, <2>2, <3>2 DEF IInv, Requested, Downloading
  <2> QED
    BY <2>1, <2>2
<1>9. Refused'
  BY <1>1, <1>2 DEF IInv, Requested, Refused
<1>10. RevokedStays' /\ KeyMatchesPairing'
  BY <1>1 DEF IInv, RevokedStays, KeyMatchesPairing
<1> QED
  BY <1>4, <1>5, <1>7, <1>8, <1>9, <1>10 DEF IInv, Requested

LEMMA TickIInv == ASSUME IInv, Tick PROVE IInv'
<1>1. /\ now' = now + 1 /\ now < MaxTime
      /\ UNCHANGED <<published, retired, since, serving, cache, lastFetched, revoked, lock, req,
                     settings, creds, pem>>
  BY DEF Tick, central, keyring, pairing
<1>2. now \in 0..MaxTime /\ lastFetched \in -Cooldown..now
  BY DEF IInv, Types, CentralTypes, CacheTypes
<1>3. now' \in 0..MaxTime /\ lastFetched \in -Cooldown..now'
  BY <1>1, <1>2
<1>4. Types'
  BY <1>1, <1>3 DEF IInv, Types, CentralTypes, CacheTypes, LockTypes, RequestTypes, PairingTypes
<1>5. Waiting'
  <2>1. \A a \in Actors : req[a].entered \in Int /\ (req[a].entered <= now => req[a].entered <= now')
    BY <1>1, <1>2 DEF IInv, Types, RequestTypes, Verification, Times
  <2> QED
    BY <1>1, <2>1 DEF IInv, Requested, Waiting
<1>6. Downloading' /\ Refused'
  BY <1>1 DEF IInv, Requested, Downloading, Refused
<1>7. Cached' /\ RevokedStays' /\ KeyMatchesPairing'
  BY <1>1 DEF IInv, Cached, RevokedStays, KeyMatchesPairing
<1> QED
  BY <1>4, <1>5, <1>6, <1>7 DEF IInv, Requested

LEMMA StutterIInv == ASSUME IInv, UNCHANGED vars PROVE IInv'
<1>1. UNCHANGED <<central, now, serving, keyring, lock, req, settings, creds, pem>>
  BY DEF vars, pairing
<1> QED
  BY <1>1, PairingStep DEF IInv, Types, PairingTypes, KeyMatchesPairing

LEMMA Inductive == Spec => []IInv
<1>1. Init => IInv
  BY InitIInv
<1>2. IInv /\ [Next]_vars => IInv'
  <2> SUFFICES ASSUME IInv, [Next]_vars PROVE IInv'
    OBVIOUS
  <2>1. ASSUME NEW r \in Requests, Verify(r) \/ Respond(r) PROVE IInv'
    BY <2>1, VerifyIInv, RespondIInv
  <2>2. ASSUME NEW a \in Actors, Fetch(a) PROVE IInv'
    BY <2>2, AcquireIInv, ServeIInv, NoAnswerIInv, StoreIInv DEF Fetch
  <2>3. CASE Refresh \/ Persist \/ Restart
    BY <2>3, RefreshIInv, PersistIInv, RestartIInv
  <2>4. CASE CentralRotates \/ Tick \/ UNCHANGED vars
    BY <2>4, RotatesIInv, TickIInv, StutterIInv
  <2> QED
    BY <2>1, <2>2, <2>3, <2>4 DEF Next
<1> QED
  BY <1>1, <1>2, PTL DEF Spec

-----------------------------------------------------------------------------
(* The theorems *)

\* Every reachable state is well-typed, and the lock belongs to the one who downloads.
THEOREM TypeCorrect == Spec => []TypeOK
<1>1. IInv => TypeOK
  BY TypeParts DEF IInv
<1> QED
  BY <1>1, Inductive, PTL

\* The cooldown refuses no good token: only a download that failed does.
THEOREM GoodTokensPass == Spec => []HonestRefusal
<1>1. IInv => HonestRefusal
  BY DEF IInv, Requested, Refused, HonestRefusal
<1> QED
  BY <1>1, Inductive, PTL

\* A withdrawn key never comes back to the cache, whatever answers overtake each other.
THEOREM WithdrawnStaysOut == Spec => []RevokedStays
<1>1. IInv => RevokedStays
  BY DEF IInv
<1> QED
  BY <1>1, Inductive, PTL

\* The key trusted in memory is that of the pairing on disk.
THEOREM PairingKey == Spec => []KeyMatchesPairing
<1>1. IInv => KeyMatchesPairing
  BY DEF IInv
<1> QED
  BY <1>1, Inductive, PTL

\* A crash between the two files leaves a node that had both a key to trust.
THEOREM TrustKept == Spec => TrustSurvives
<1>1. IInv /\ [Next]_vars => [TrustSurvivesStep]_vars
  <2> SUFFICES ASSUME IInv, Next, creds.key # NoKey, pem # NoKey PROVE settings'.key # NoKey
    BY DEF TrustSurvivesStep
  <2>1. settings.key # NoKey
    BY DEF IInv, KeyMatchesPairing
  <2>2. CASE Persist
    <3>1. PICK new \in ClaimAnswers : settings' = [settings EXCEPT !.key = Persisted(@, new.key)]
      BY <2>2 DEF Persist
    <3>2. settings'.key = Persisted(settings.key, new.key)
      BY <3>1 DEF IInv, Types, PairingTypes
    <3> QED
      BY <2>1, <3>2 DEF Persisted
  <2>3. CASE Restart
    <3>1. PICK left \in {<<creds, pem>>} \cup UNION {HalfWritten(new) : new \in ClaimAnswers} :
             settings' = Loaded(left[1], left[2])
      BY <2>3 DEF Restart
    <3> QED
      BY <3>1, LeftIs, LoadedIs
  <2>4. CASE ~Persist /\ ~Restart
    <3>1. settings' = settings
      <4>1. ASSUME NEW r \in Requests, Verify(r) \/ Respond(r) PROVE settings' = settings
        <5>1. CASE Verify(r)
          <6>1. UNCHANGED <<central, now, serving, keyring, lock, pairing>>
            BY <5>1, Zenon DEF Verify
          <6> QED
            BY <6>1 DEF pairing
        <5>2. CASE Respond(r)
          BY <5>2 DEF Respond, pairing
        <5> QED
          BY <4>1, <5>1, <5>2
      <4>2. ASSUME NEW a \in Actors, Fetch(a) PROVE settings' = settings
        BY <4>2 DEF Fetch, Acquire, Serve, NoAnswer, Store, pairing
      <4>3. CASE Refresh \/ CentralRotates \/ Tick
        BY <4>3 DEF Refresh, CentralRotates, Tick, pairing
      <4> QED
        BY <2>4, <4>1, <4>2, <4>3 DEF Next
    <3> QED
      BY <2>1, <3>1
  <2> QED
    BY <2>2, <2>3, <2>4
<1> QED
  BY <1>1, Inductive, PTL DEF Spec, TrustSurvives
=============================================================================
