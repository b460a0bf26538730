--------------------------- MODULE SupervisorProofs ---------------------------
(***************************************************************************)
(* Proofs about Supervisor, for any numbers of instances, restarts and      *)
(* tunnel workflows: the type invariant, that the lock of an instance is    *)
(* held by the one actor that is inside its start() or stop(), and that     *)
(* MinIO is not left running when the node has exited.                     *)
(***************************************************************************)
EXTENDS Supervisor, TLAPS

USE ActorsAssumption, BoundsAssumption, ServicesAssumption DEF Actors

-----------------------------------------------------------------------------
(* Invariants *)

\* Where an actor is about to act, or acts, on an instance.
Engaged == {"lookup", "start", "spawn", "verify", "probe", "ready", "stop", "stopping",
            "mark", "backoff"}

\* By then the name is registered and, once it was looked up, the actor has an instance.
Bound ==
    \A a \in Actors : /\ pc[a] \in Engaged => registered \in Instances
                      /\ pc[a] \in Engaged \ {"lookup", "verify"} => on[a] \in Instances

-----------------------------------------------------------------------------
(* Types *)

\* Instances are numbered from one.
LEMMA InstancesIs ==
    /\ \A n \in 0..MaxInstances : n # 0 <=> n \in Instances
    /\ Instances \subseteq 0..MaxInstances
BY DEF Instances

\* What a returning call goes on with is a control point.
LEMMA Afters ==
    \A a \in Actors, ok \in BOOLEAN : AfterStart(a, ok) \in PCs /\ AfterProbe(a, ok) \in PCs
                                     /\ AfterStop(a) \in PCs
BY DEF AfterStart, AfterProbe, AfterStop, Watching, PCs

\* The names of the moves of one actor's control point.
LEMMA Moves ==
    ASSUME TypeOK, NEW a \in Actors, NEW p \in PCs, Goto(a, p)
    PROVE  pc' \in [Actors -> PCs] /\ pc'[a] = p /\ \A b \in Actors : b # a => pc'[b] = pc[b]
BY DEF TypeOK, Goto

\* Nobody is engaged at the start.
LEMMA InitBound == Init => Bound
BY DEF Init, Bound, Engaged

\* A move keeps Bound when the actor has what it needs where it goes.
LEMMA MoveBound ==
    ASSUME TypeOK, Bound, NEW a \in Actors, NEW p \in PCs, Goto(a, p),
           \A b \in Actors : b # a => on'[b] = on[b],
           registered' = registered \/ registered' \in Instances,
           p \in Engaged => registered' \in Instances,
           p \in Engaged \ {"lookup", "verify"} => on'[a] \in Instances
    PROVE  Bound'
<1>1. pc'[a] = p /\ \A b \in Actors : b # a => pc'[b] = pc[b]
  BY Moves
<1> SUFFICES ASSUME NEW b \in Actors
             PROVE  /\ pc'[b] \in Engaged => registered' \in Instances
                    /\ pc'[b] \in Engaged \ {"lookup", "verify"} => on'[b] \in Instances
  BY DEF Bound
<1>2. CASE b = a
  BY <1>1, <1>2
<1>3. CASE b # a
  BY <1>1, <1>3 DEF Bound
<1> QED BY <1>2, <1>3

LEMMA InitTypeOK == Init => TypeOK
<1> SUFFICES ASSUME Init PROVE TypeOK
  OBVIOUS
<1>1. pc \in [Actors -> PCs] /\ on \in [Actors -> 0..MaxInstances]
  <2>1. {"watch", "done", "idle"} \subseteq PCs /\ 0 \in 0..MaxInstances
    BY DEF PCs
  <2> QED BY <2>1 DEF Init
<1>2. /\ registered \in 0..MaxInstances /\ created \in 0..MaxInstances
      /\ restarts \in [Instances -> 0..MaxRestarts]
  BY DEF Init
<1>3. /\ child \in [Instances -> ChildStates]
      /\ status \in [Instances -> {"stopped", "starting", "running", "ready", "crashed", "failed"}]
      /\ locked \in [Instances -> Actors \cup {NoActor}]
      /\ shouldRun \subseteq Instances /\ connected \subseteq Instances /\ logged \in BOOLEAN
      /\ tunnel \in {"unpaired", "starting", "ready", "failed"}
      /\ app \in {"up", "closing", "exited"} /\ service \in Services
  BY DEF Init, ChildStates
<1> QED BY <1>1, <1>2, <1>3 DEF TypeOK

\* The calls keep the types.
LEMMA CallTypeOK ==
    ASSUME TypeOK, Bound, NEW a \in Actors, Call(a)
    PROVE  TypeOK' /\ Bound'
<1>1. TRUE \in BOOLEAN /\ FALSE \in BOOLEAN
  OBVIOUS
<1>2. {"spawn", "ready", "stopping"} \subseteq PCs
  BY DEF PCs
<1>3. on[a] \in Instances /\ registered \in Instances
  <2>1. pc[a] \in {"start", "spawn", "probe", "ready", "stop", "stopping"}
    BY DEF Call, StartBegin, Spawn, Probe, ProbeReady, StopBegin, StopEnd
  <2> QED BY <2>1 DEF Bound, Engaged
<1>4. on' = on /\ registered' = registered
  BY DEF Call, StartBegin, Spawn, Probe, ProbeReady, StopBegin, StopEnd, node
<1>5. \E p \in PCs : Goto(a, p)
  BY <1>1, <1>2, Afters DEF Call, StartBegin, Spawn, Probe, ProbeReady, StopBegin, StopEnd
<1>6. Bound'
  BY <1>3, <1>4, <1>5, MoveBound
<1>7. pc' \in [Actors -> PCs]
  BY <1>5, Moves
<1> SUFFICES TypeOK'
  BY <1>6
<1>8. CASE StartBegin(a)
  <2>1. UNCHANGED <<child, restarts, registered, created, tunnel, app, connected, logged, on, service>>
    BY <1>8 DEF StartBegin, outside, node
  <2>2. \/ UNCHANGED <<status, shouldRun, locked>>
        \/ /\ status' = [status EXCEPT ![on[a]] = "starting"]
           /\ locked' = [locked EXCEPT ![on[a]] = a]
           /\ shouldRun' = shouldRun \cup {on[a]}
    BY <1>8 DEF StartBegin
  <2>3. status' \in [Instances -> {"stopped", "starting", "running", "ready", "crashed", "failed"}]
    BY <2>2 DEF TypeOK
  <2>4. locked' \in [Instances -> Actors \cup {NoActor}]
    <3>1. locked' = locked \/ locked' = [locked EXCEPT ![on[a]] = a]
      BY <2>2
    <3> QED BY <3>1 DEF TypeOK
  <2>5. shouldRun' \subseteq Instances
    <3>1. shouldRun' = shouldRun \/ shouldRun' = shouldRun \cup {on[a]}
      BY <2>2
    <3> QED BY <1>3, <3>1 DEF TypeOK
  <2> QED BY <1>7, <2>1, <2>3, <2>4, <2>5 DEF TypeOK
<1>9. CASE Spawn(a)
  BY <1>7, <1>9 DEF Spawn, TypeOK, outside, node, ChildStates
<1>10. CASE Probe(a)
  BY <1>7, <1>10 DEF Probe, TypeOK, object, outside, node
<1>11. CASE ProbeReady(a)
  BY <1>7, <1>11 DEF ProbeReady, TypeOK, outside, node
<1>12. CASE StopBegin(a)
  <2>1. UNCHANGED <<restarts, registered, created, tunnel, app, connected, logged, on, service>>
    BY <1>12 DEF StopBegin, outside, node
  <2>2. /\ shouldRun' = shouldRun \ {on[a]}
        /\ \/ /\ child' = [child EXCEPT ![on[a]] = IF child[on[a]] = "up" THEN "termed" ELSE child[on[a]]]
              /\ locked' = [locked EXCEPT ![on[a]] = a]
              /\ UNCHANGED status
           \/ status' = [status EXCEPT ![on[a]] = "stopped"] /\ UNCHANGED <<child, locked>>
    BY <1>12 DEF StopBegin
  <2>3. child' \in [Instances -> ChildStates]
    BY <1>3, <2>2 DEF TypeOK, ChildStates
  <2>4. status' \in [Instances -> {"stopped", "starting", "running", "ready", "crashed", "failed"}]
    BY <2>2 DEF TypeOK
  <2>5. locked' \in [Instances -> Actors \cup {NoActor}] /\ shouldRun' \subseteq Instances
    BY <2>2 DEF TypeOK
  <2> QED BY <1>7, <2>1, <2>3, <2>4, <2>5 DEF TypeOK
<1>13. CASE StopEnd(a)
  BY <1>3, <1>7, <1>13 DEF StopEnd, TypeOK, outside, node, ChildStates
<1> QED BY <1>8, <1>9, <1>10, <1>11, <1>12, <1>13 DEF Call

\* Every step keeps the types.
LEMMA StepTypeOK ==
    ASSUME TypeOK, Bound, [Next]_vars
    PROVE  TypeOK' /\ Bound'
<1>1. ASSUME NEW a \in Actors, Call(a)
      PROVE  TypeOK' /\ Bound'
  BY <1>1, CallTypeOK
<1>2. CASE MonitorStep
  <2>1. Monitor \in Actors /\ {"mark", "backoff", "watch", "start"} \subseteq PCs
        /\ "watch" \notin Engaged
    BY DEF PCs, Engaged
  <2>2. CASE MonitorLook
    <3>1. registered \in Instances
      BY <2>2 DEF MonitorLook, TypeOK
    <3>2. /\ Goto(Monitor, "mark") /\ on' = [on EXCEPT ![Monitor] = registered]
          /\ registered' = registered
      BY <2>2 DEF MonitorLook, node
    <3>3. on'[Monitor] = registered /\ \A b \in Actors : b # Monitor => on'[b] = on[b]
      BY <2>1, <3>2 DEF TypeOK
    <3>4. Bound'
      BY <2>1, <3>1, <3>2, <3>3, MoveBound
    <3> QED BY <2>1, <2>2, <3>4, Moves DEF MonitorLook, TypeOK, object, outside, node
  <2>3. CASE MonitorMark
    <3>1. on[Monitor] \in Instances /\ registered \in Instances
      BY <2>1, <2>3 DEF MonitorMark, Bound, Engaged
    <3>2. /\ UNCHANGED <<child, shouldRun, locked, registered, created, tunnel, app, connected,
                         logged, on, service>>
          /\ \/ /\ status' = [status EXCEPT ![on[Monitor]] = "crashed"]
                /\ restarts' = [restarts EXCEPT ![on[Monitor]] = restarts[on[Monitor]] + 1]
                /\ restarts[on[Monitor]] < MaxRestarts
                /\ Goto(Monitor, "backoff")
             \/ /\ status' = [status EXCEPT ![on[Monitor]] = "failed"]
                /\ restarts' = restarts
                /\ Goto(Monitor, "watch")
      BY <2>3 DEF MonitorMark, outside, node
    <3>3. pc' \in [Actors -> PCs] /\ Bound'
      BY <2>1, <3>1, <3>2, Moves, MoveBound
    <3>4. restarts' \in [Instances -> 0..MaxRestarts]
      BY <3>1, <3>2 DEF TypeOK
    <3> QED BY <3>2, <3>3, <3>4 DEF TypeOK
  <2>4. CASE MonitorWake
    <3>1. on[Monitor] \in Instances /\ registered \in Instances
      BY <2>1, <2>4 DEF MonitorWake, Bound, Engaged
    <3>2. Goto(Monitor, "start") /\ UNCHANGED <<object, outside, node, on, service>>
      BY <2>4 DEF MonitorWake
    <3>3. pc' \in [Actors -> PCs] /\ Bound'
      BY <2>1, <3>1, <3>2, Moves, MoveBound DEF node
    <3> QED BY <3>2, <3>3 DEF TypeOK, object, outside, node
  <2> QED BY <1>2, <2>2, <2>3, <2>4 DEF MonitorStep
<1>3. ASSUME NEW b \in Boots, Boot(b)
      PROVE  TypeOK' /\ Bound'
  <2>1. b \in Actors /\ {"start", "done"} \subseteq PCs /\ "done" \notin Engaged
    BY DEF PCs, Engaged
  <2>2. CASE Register(b, "start") /\ on' = [on EXCEPT ![b] = created + 1]
    <3>1. /\ created + 1 \in Instances /\ created + 1 \in 0..MaxInstances
          /\ created' = created + 1 /\ registered' = created + 1 /\ Goto(b, "start")
          /\ UNCHANGED <<object, outside, tunnel, app, service>>
      BY <2>2 DEF Register, TypeOK, Instances
    <3>2. on'[b] = created + 1 /\ \A c \in Actors : c # b => on'[c] = on[c]
      BY <2>1, <2>2 DEF TypeOK
    <3>3. pc' \in [Actors -> PCs] /\ Bound'
      BY <2>1, <3>1, <3>2, Moves, MoveBound
    <3> QED BY <2>2, <3>1, <3>3 DEF TypeOK, object, outside
  <2>3. CASE Goto(b, "done") /\ UNCHANGED <<object, outside, node, on, service>>
    <3>1. pc' \in [Actors -> PCs] /\ Bound'
      BY <2>1, <2>3, Moves, MoveBound DEF node
    <3> QED BY <2>3, <3>1 DEF TypeOK, object, outside, node
  <2> QED BY <1>3, <2>2, <2>3 DEF Boot
<1>4. ASSUME NEW w \in Workflows, Begin(w) \/ Work(w)
      PROVE  TypeOK' /\ Bound'
  <2>1. w \in Actors
        /\ {"register", "stop", "lookup", "lost", "start", "probe", "idle"} \subseteq PCs
        /\ {"register", "lost", "idle"} \cap Engaged = {}
    BY DEF PCs, Engaged
  <2>2. CASE Begin(w)
    <3>1. /\ Goto(w, IF registered = 0 THEN "register" ELSE "stop")
          /\ on' = [on EXCEPT ![w] = registered] /\ tunnel' = "starting"
          /\ UNCHANGED <<object, outside, registered, created, app, service>>
      BY <2>2 DEF Begin
    <3>2. on'[w] = registered /\ \A c \in Actors : c # w => on'[c] = on[c]
      BY <2>1, <3>1 DEF TypeOK
    <3>3. pc' \in [Actors -> PCs] /\ Bound'
      <4>1. registered \in 0..MaxInstances
        BY DEF TypeOK
      <4> DEFINE p == IF registered = 0 THEN "register" ELSE "stop"
      <4>2. p \in PCs /\ (p \in Engaged => registered \in Instances)
        BY <2>1, <4>1, InstancesIs
      <4>3. Goto(w, p)
        BY <3>1
      <4> HIDE DEF p
      <4> QED BY <2>1, <3>1, <3>2, <4>2, <4>3, Moves, MoveBound
    <3> QED BY <3>1, <3>3 DEF TypeOK, object, outside
  <2>3. CASE Replace(w)
    <3>1. CASE Register(w, "lookup") /\ UNCHANGED on
      <4>1. /\ created + 1 \in Instances /\ created + 1 \in 0..MaxInstances
            /\ created' = created + 1 /\ registered' = created + 1 /\ Goto(w, "lookup")
            /\ UNCHANGED <<object, outside, tunnel, app, service>>
        BY <3>1 DEF Register, TypeOK, Instances
      <4>2. pc' \in [Actors -> PCs] /\ Bound'
        BY <2>1, <3>1, <4>1, Moves, MoveBound
      <4> QED BY <3>1, <4>1, <4>2 DEF TypeOK, object, outside
    <3>2. CASE Goto(w, "lost") /\ UNCHANGED <<object, outside, node, on, service>>
      <4>1. pc' \in [Actors -> PCs] /\ Bound'
        BY <2>1, <3>2, Moves, MoveBound DEF node
      <4> QED BY <3>2, <4>1 DEF TypeOK, object, outside, node
    <3> QED BY <2>3, <3>1, <3>2 DEF Replace
  <2>4. ASSUME NEW p \in {"start", "probe"}, Goto(w, p), pc[w] \in {"lookup", "verify"},
               on' = [on EXCEPT ![w] = registered], UNCHANGED <<object, outside, node, service>>
        PROVE  TypeOK' /\ Bound'
    <3>1. registered \in Instances
      BY <2>1, <2>4 DEF Bound, Engaged
    <3>2. on'[w] = registered /\ \A c \in Actors : c # w => on'[c] = on[c]
      BY <2>1, <2>4 DEF TypeOK
    <3>3. pc' \in [Actors -> PCs] /\ Bound'
      BY <2>1, <2>4, <3>1, <3>2, Moves, MoveBound DEF node
    <3> QED BY <2>4, <3>3 DEF TypeOK, object, outside, node
  <2>5. CASE Lookup(w)
    BY <2>4, <2>5 DEF Lookup
  <2>6. CASE Verify(w)
    BY <2>4, <2>6 DEF Verify
  <2>7. CASE Finish(w)
    <3>1. /\ Goto(w, "idle") /\ tunnel' \in {"ready", "failed"}
          /\ UNCHANGED <<object, outside, registered, created, app, on, service>>
      BY <2>7 DEF Finish
    <3>2. pc' \in [Actors -> PCs] /\ Bound'
      BY <2>1, <3>1, Moves, MoveBound
    <3> QED BY <3>1, <3>2 DEF TypeOK, object, outside
  <2> QED BY <1>4, <2>2, <2>3, <2>5, <2>6, <2>7 DEF Work
<1>5. CASE Shutdown
  <2>1. Monitor \in Actors /\ Closer \in Actors /\ Monitor # Closer
    OBVIOUS
  <2>2. /\ app' = "closing" /\ on' = [on EXCEPT ![Closer] = registered]
        /\ pc' = [pc EXCEPT ![Monitor] = IF @ \in {"watch", "backoff"} THEN "cancelled" ELSE @,
                            ![Closer] = IF registered = 0 THEN "done" ELSE "stop"]
        /\ UNCHANGED <<object, outside, registered, created, tunnel, service>>
    BY <1>5 DEF Shutdown
  <2>3. /\ pc'[Monitor] \in {"cancelled", pc[Monitor]}
        /\ pc'[Closer] \in {"done", "stop"} /\ (pc'[Closer] = "stop" => registered # 0)
        /\ \A c \in Actors : c \notin {Monitor, Closer} => pc'[c] = pc[c]
        /\ on'[Closer] = registered /\ \A c \in Actors : c # Closer => on'[c] = on[c]
    BY <2>1, <2>2 DEF TypeOK
  <2>4. Bound'
    <3>1. registered \in 0..MaxInstances /\ registered' = registered
      BY <2>2 DEF TypeOK
    <3>2. registered # 0 => registered \in Instances
      BY <3>1, InstancesIs
    <3>3. "cancelled" \notin Engaged /\ "done" \notin Engaged
      BY DEF Engaged
    <3> QED BY <2>3, <3>1, <3>2, <3>3 DEF Bound
  <2>5. pc' \in [Actors -> PCs]
    BY <2>2 DEF TypeOK, PCs
  <2> QED BY <2>2, <2>4, <2>5 DEF TypeOK, object, outside
<1>6. CASE AtExit
  <2>1. Closer \in Actors /\ {"done", "stop"} \subseteq PCs /\ "done" \notin Engaged
    BY DEF PCs, Engaged
  <2>2. /\ Goto(Closer, IF registered = 0 THEN "done" ELSE "stop")
        /\ on' = [on EXCEPT ![Closer] = registered] /\ app' = "exited"
        /\ UNCHANGED <<object, outside, registered, created, tunnel, service>>
    BY <1>6 DEF AtExit
  <2>3. on'[Closer] = registered /\ \A c \in Actors : c # Closer => on'[c] = on[c]
    BY <2>1, <2>2 DEF TypeOK
  <2>4. pc' \in [Actors -> PCs] /\ Bound'
    <3>1. registered \in 0..MaxInstances
      BY DEF TypeOK
    <3> DEFINE p == IF registered = 0 THEN "done" ELSE "stop"
    <3>2. p \in PCs /\ (p \in Engaged => registered \in Instances)
      BY <2>1, <3>1, InstancesIs
    <3>3. Goto(Closer, p)
      BY <2>2
    <3> HIDE DEF p
    <3> QED BY <2>1, <2>2, <2>3, <3>2, <3>3, Moves, MoveBound
  <2> QED BY <2>2, <2>4 DEF TypeOK, object, outside
<1>7. CASE World
  <2>1. Bound'
    BY <1>7 DEF World, Exit, Connect, LogScrolls, Bound, node
  <2>2. ASSUME NEW i \in Instances, Exit(i)
        PROVE  TypeOK'
    BY <2>2 DEF Exit, TypeOK, node, ChildStates
  <2>3. ASSUME NEW i \in Instances, Connect(i)
        PROVE  TypeOK'
    BY <2>3 DEF Connect, TypeOK, object, node
  <2>4. CASE LogScrolls
    <3>1. /\ UNCHANGED <<object, connected, node, pc, on, service>>
          /\ logged' \in BOOLEAN
      BY <2>4 DEF LogScrolls
    <3> QED BY <2>1, <3>1 DEF TypeOK, object, node
  <2> QED BY <1>7, <2>1, <2>2, <2>3, <2>4 DEF World
<1>8. CASE UNCHANGED vars
  BY <1>8 DEF vars, TypeOK, Bound
<1> QED BY <1>1, <1>2, <1>3, <1>4, <1>5, <1>6, <1>7, <1>8 DEF Next

\* supervisor.py: a process is never restarted more than max_restarts times, and every
\* status, lock and control point is one of those the code knows.
THEOREM TypeCorrect == Spec => []TypeOK
<1>1. Init => TypeOK /\ Bound
  BY InitTypeOK, InitBound
<1>2. TypeOK /\ Bound /\ [Next]_vars => TypeOK' /\ Bound'
  BY StepTypeOK
<1> QED BY <1>1, <1>2, PTL DEF Spec

-----------------------------------------------------------------------------
(* Locks *)

\* Where an actor holds the lock of its instance: in start() and in stop().
Inside == {"spawn", "stopping"}

\* An actor that is inside holds the lock, and a lock is held by an actor inside; the
\* closer does nothing while the application runs.
LockHeld ==
    /\ \A a \in Actors : pc[a] \in Inside => locked[on[a]] = a
    /\ \A i \in Instances : locked[i] # NoActor =>
           pc[locked[i]] \in Inside /\ on[locked[i]] = i
    /\ app = "up" => pc[Closer] = "idle"

\* Who is inside stays there, with its lock, while another moves outside.
LEMMA MoveOutside ==
    ASSUME TypeOK, LockHeld, NEW a \in Actors, NEW p \in PCs \ Inside, Goto(a, p),
           pc[a] \notin Inside, locked' = locked, \A b \in Actors : b # a => on'[b] = on[b],
           app' = app, a = Closer => app # "up"
    PROVE  LockHeld'
<1>1. pc'[a] = p /\ \A b \in Actors : b # a => pc'[b] = pc[b]
  BY Moves
<1>2. \A b \in Actors : pc'[b] \in Inside => locked'[on'[b]] = b
  BY <1>1 DEF LockHeld
<1>3. ASSUME NEW i \in Instances, locked'[i] # NoActor
      PROVE  pc'[locked'[i]] \in Inside /\ on'[locked'[i]] = i
  <2>1. locked[i] \in Actors
    BY <1>3 DEF TypeOK
  <2>2. pc[locked[i]] \in Inside /\ on[locked[i]] = i /\ locked[i] # a
    BY <1>3 DEF LockHeld
  <2> QED BY <1>1, <2>1, <2>2
<1>4. app' = "up" => pc'[Closer] = "idle"
  BY <1>1 DEF LockHeld
<1> QED BY <1>2, <1>3, <1>4 DEF LockHeld

\* An actor that finds the lock free takes it on its way in.
LEMMA MoveIn ==
    ASSUME TypeOK, LockHeld, NEW a \in Actors, NEW p \in Inside, Goto(a, p), on[a] \in Instances,
           pc[a] \notin Inside, pc[a] # "idle", locked[on[a]] = NoActor,
           locked' = [locked EXCEPT ![on[a]] = a], on' = on, app' = app
    PROVE  LockHeld'
<1>1. pc'[a] = p /\ \A b \in Actors : b # a => pc'[b] = pc[b]
  <2>1. p \in PCs
    BY DEF Inside, PCs
  <2> QED BY <2>1, Moves
<1>2. locked'[on[a]] = a /\ \A i \in Instances : i # on[a] => locked'[i] = locked[i]
  BY DEF TypeOK
<1>3. NoActor \notin Actors
  OBVIOUS
<1>4. \A b \in Actors : pc'[b] \in Inside => locked'[on'[b]] = b
  <2> SUFFICES ASSUME NEW b \in Actors, b # a, pc'[b] \in Inside
               PROVE  locked'[on[b]] = b
    BY <1>2
  <2>1. locked[on[b]] = b
    BY <1>1 DEF LockHeld
  <2>2. on[b] # on[a]
    BY <1>3, <2>1
  <2> QED BY <2>1, <2>2 DEF TypeOK
<1>5. ASSUME NEW i \in Instances, locked'[i] # NoActor
      PROVE  pc'[locked'[i]] \in Inside /\ on'[locked'[i]] = i
  <2>1. CASE i = on[a]
    BY <1>1, <1>2, <2>1
  <2>2. CASE i # on[a]
    <3>1. locked'[i] = locked[i] /\ locked[i] \in Actors
      BY <1>2, <1>5, <2>2 DEF TypeOK
    <3>2. pc[locked[i]] \in Inside /\ on[locked[i]] = i /\ locked[i] # a
      BY <1>5, <3>1 DEF LockHeld
    <3> QED BY <1>1, <3>1, <3>2
  <2> QED BY <2>1, <2>2
<1>6. app' = "up" => pc'[Closer] = "idle"
  BY <1>1 DEF LockHeld
<1> QED BY <1>4, <1>5, <1>6 DEF LockHeld

\* An actor lets its lock go on its way out.
LEMMA MoveOut ==
    ASSUME TypeOK, LockHeld, NEW a \in Actors, NEW p \in PCs \ Inside, Goto(a, p),
           on[a] \in Instances, pc[a] \in Inside,
           locked' = [locked EXCEPT ![on[a]] = NoActor], on' = on, app' = app
    PROVE  LockHeld'
<1>1. pc'[a] = p /\ \A b \in Actors : b # a => pc'[b] = pc[b]
  BY Moves
<1>2. locked'[on[a]] = NoActor /\ \A i \in Instances : i # on[a] => locked'[i] = locked[i]
  BY DEF TypeOK
<1>3. locked[on[a]] = a
  BY DEF LockHeld
<1>4. \A b \in Actors : pc'[b] \in Inside => locked'[on'[b]] = b
  <2> SUFFICES ASSUME NEW b \in Actors, b # a, pc'[b] \in Inside
               PROVE  locked'[on[b]] = b
    BY <1>1
  <2>1. locked[on[b]] = b
    BY <1>1 DEF LockHeld
  <2>2. on[b] # on[a]
    BY <1>3, <2>1
  <2> QED BY <2>1, <2>2 DEF TypeOK
<1>5. ASSUME NEW i \in Instances, locked'[i] # NoActor
      PROVE  pc'[locked'[i]] \in Inside /\ on'[locked'[i]] = i
  <2>1. i # on[a] /\ locked'[i] = locked[i] /\ locked[i] \in Actors
    BY <1>2, <1>5 DEF TypeOK
  <2>2. pc[locked[i]] \in Inside /\ on[locked[i]] = i /\ locked[i] # a
    BY <1>5, <2>1 DEF LockHeld
  <2> QED BY <1>1, <2>1, <2>2
<1>6. app' = "up" => pc'[Closer] = "idle"
  BY <1>1 DEF LockHeld, Inside
<1> QED BY <1>4, <1>5, <1>6 DEF LockHeld

\* Where a returning call goes on is outside.
LEMMA AftersOutside ==
    \A a \in Actors, ok \in BOOLEAN :
        /\ AfterStart(a, ok) \notin Inside
        /\ AfterProbe(a, ok) \notin Inside
        /\ AfterStop(a) \notin Inside
BY DEF AfterStart, AfterProbe, AfterStop, Watching, Inside

\* The calls keep the locks.
LEMMA CallLockHeld ==
    ASSUME TypeOK, Bound, LockHeld, NEW a \in Actors, Call(a)
    PROVE  LockHeld'
<1>1. TRUE \in BOOLEAN /\ FALSE \in BOOLEAN /\ "ready" \in PCs \ Inside
  BY DEF PCs, Inside
<1>2. on[a] \in Instances /\ pc[a] # "idle"
  <2>1. pc[a] \in {"start", "spawn", "probe", "ready", "stop", "stopping"}
    BY DEF Call, StartBegin, Spawn, Probe, ProbeReady, StopBegin, StopEnd
  <2> QED BY <2>1 DEF Bound, Engaged
<1>3. on' = on /\ app' = app
  BY DEF Call, StartBegin, Spawn, Probe, ProbeReady, StopBegin, StopEnd, node
<1>4. a = Closer => app # "up"
  BY <1>2 DEF LockHeld
<1>5. ASSUME NEW p \in PCs \ Inside, Goto(a, p), pc[a] \notin Inside, locked' = locked
      PROVE  LockHeld'
  BY <1>3, <1>4, <1>5, MoveOutside
<1>6. CASE StartBegin(a)
  <2>1. /\ pc[a] = "start" /\ locked[on[a]] = NoActor
        /\ \/ Goto(a, AfterStart(a, TRUE)) /\ locked' = locked
           \/ Goto(a, "spawn") /\ locked' = [locked EXCEPT ![on[a]] = a]
    BY <1>6 DEF StartBegin
  <2>2. pc[a] \notin Inside /\ "spawn" \in Inside
    BY <2>1 DEF Inside
  <2> QED BY <1>1, <1>2, <1>3, <1>5, <2>1, <2>2, MoveIn, Afters, AftersOutside
<1>7. CASE Spawn(a)
  <2>1. /\ pc[a] = "spawn" /\ locked' = [locked EXCEPT ![on[a]] = NoActor]
        /\ Goto(a, AfterStart(a, TRUE)) \/ Goto(a, AfterStart(a, FALSE))
    BY <1>7 DEF Spawn
  <2>2. pc[a] \in Inside
    BY <2>1 DEF Inside
  <2> QED BY <1>1, <1>2, <1>3, <2>1, <2>2, MoveOut, Afters, AftersOutside
<1>8. CASE Probe(a)
  <2>1. /\ pc[a] = "probe" /\ locked' = locked
        /\ Goto(a, AfterProbe(a, FALSE)) \/ Goto(a, "ready")
    BY <1>8 DEF Probe, object
  <2>2. pc[a] \notin Inside
    BY <2>1 DEF Inside
  <2> QED BY <1>1, <1>5, <2>1, <2>2, Afters, AftersOutside
<1>9. CASE ProbeReady(a)
  <2>1. pc[a] = "ready" /\ locked' = locked /\ Goto(a, AfterProbe(a, TRUE))
    BY <1>9 DEF ProbeReady
  <2>2. pc[a] \notin Inside
    BY <2>1 DEF Inside
  <2> QED BY <1>1, <1>5, <2>1, <2>2, Afters, AftersOutside
<1>10. CASE StopBegin(a)
  <2>1. /\ pc[a] = "stop" /\ locked[on[a]] = NoActor
        /\ \/ Goto(a, AfterStop(a)) /\ locked' = locked
           \/ Goto(a, "stopping") /\ locked' = [locked EXCEPT ![on[a]] = a]
    BY <1>10 DEF StopBegin
  <2>2. pc[a] \notin Inside /\ "stopping" \in Inside
    BY <2>1 DEF Inside
  <2> QED BY <1>1, <1>2, <1>3, <1>5, <2>1, <2>2, MoveIn, Afters, AftersOutside
<1>11. CASE StopEnd(a)
  <2>1. /\ pc[a] = "stopping" /\ locked' = [locked EXCEPT ![on[a]] = NoActor]
        /\ Goto(a, AfterStop(a))
    BY <1>11 DEF StopEnd
  <2>2. pc[a] \in Inside
    BY <2>1 DEF Inside
  <2> QED BY <1>1, <1>2, <1>3, <2>1, <2>2, MoveOut, Afters, AftersOutside
<1> QED BY <1>6, <1>7, <1>8, <1>9, <1>10, <1>11 DEF Call

\* Every step keeps the locks.
LEMMA StepLockHeld ==
    ASSUME TypeOK, Bound, LockHeld, [Next]_vars
    PROVE  LockHeld'
<1>1. ASSUME NEW a \in Actors, Call(a)
      PROVE  LockHeld'
  BY <1>1, CallLockHeld
<1>2. ASSUME NEW a \in Actors \ {Closer}, NEW p \in PCs \ Inside, Goto(a, p), pc[a] \notin Inside,
             locked' = locked, app' = app, \A b \in Actors : b # a => on'[b] = on[b]
      PROVE  LockHeld'
  BY <1>2, MoveOutside
<1>3. CASE MonitorStep
  <2>1. Monitor \in Actors \ {Closer}
    OBVIOUS
  <2>2. /\ pc[Monitor] \in {"watch", "mark", "backoff"}
        /\ \E p \in {"mark", "backoff", "watch", "start"} : Goto(Monitor, p)
        /\ locked' = locked /\ app' = app
    BY <1>3 DEF MonitorStep, MonitorLook, MonitorMark, MonitorWake, object, node
  <2>3. on' = on \/ on' = [on EXCEPT ![Monitor] = registered]
    BY <1>3 DEF MonitorStep, MonitorLook, MonitorMark, MonitorWake
  <2>4. \A b \in Actors : b # Monitor => on'[b] = on[b]
    BY <2>3 DEF TypeOK
  <2>5. {"mark", "backoff", "watch", "start"} \subseteq PCs \ Inside
        /\ {"watch", "mark", "backoff"} \cap Inside = {}
    BY DEF PCs, Inside
  <2> QED BY <1>2, <2>1, <2>2, <2>4, <2>5
<1>4. ASSUME NEW b \in Boots, Boot(b)
      PROVE  LockHeld'
  <2>1. b \in Actors \ {Closer}
    OBVIOUS
  <2>2. /\ pc[b] = "idle" /\ \E p \in {"start", "done"} : Goto(b, p)
        /\ locked' = locked /\ app' = app
    BY <1>4 DEF Boot, Register, object, node
  <2>3. on' = on \/ on' = [on EXCEPT ![b] = created + 1]
    BY <1>4 DEF Boot
  <2>4. \A c \in Actors : c # b => on'[c] = on[c]
    BY <2>3 DEF TypeOK
  <2>5. {"start", "done"} \subseteq PCs \ Inside /\ "idle" \notin Inside
    BY DEF PCs, Inside
  <2> QED BY <1>2, <2>1, <2>2, <2>4, <2>5
<1>5. ASSUME NEW w \in Workflows, Begin(w) \/ Work(w)
      PROVE  LockHeld'
  <2>1. w \in Actors \ {Closer}
    OBVIOUS
  <2>2. /\ pc[w] \in {"idle", "register", "lookup", "verify", "won", "lost"}
        /\ \E p \in {"register", "stop", "lookup", "lost", "start", "probe", "idle"} : Goto(w, p)
    BY <1>5 DEF Begin, Work, Replace, Lookup, Verify, Finish, Register
  <2>3. locked' = locked /\ app' = app
    BY <1>5 DEF Begin, Work, Replace, Lookup, Verify, Finish, Register, object, node
  <2>4. on' = on \/ on' = [on EXCEPT ![w] = registered]
    BY <1>5 DEF Begin, Work, Replace, Lookup, Verify, Finish, Register
  <2>5. \A c \in Actors : c # w => on'[c] = on[c]
    BY <2>4 DEF TypeOK
  <2>6. {"register", "stop", "lookup", "lost", "start", "probe", "idle"} \subseteq PCs \ Inside
        /\ {"idle", "register", "lookup", "verify", "won", "lost"} \cap Inside = {}
    BY DEF PCs, Inside
  <2> QED BY <1>2, <2>1, <2>2, <2>3, <2>5, <2>6
<1>6. CASE Shutdown
  <2>1. /\ app = "up" /\ app' = "closing" /\ on' = [on EXCEPT ![Closer] = registered]
        /\ pc[Monitor] \in {"watch", "backoff", "probe", "ready"}
        /\ pc' = [pc EXCEPT ![Monitor] = IF @ \in {"watch", "backoff"} THEN "cancelled" ELSE @,
                            ![Closer] = IF registered = 0 THEN "done" ELSE "stop"]
        /\ locked' = locked
    BY <1>6 DEF Shutdown, object
  <2>2. /\ pc'[Monitor] \notin Inside /\ pc'[Closer] \notin Inside
        /\ pc[Monitor] \notin Inside /\ pc[Closer] \notin Inside
        /\ \A c \in Actors \ {Monitor, Closer} : pc'[c] = pc[c]
        /\ \A c \in Actors \ {Closer} : on'[c] = on[c]
    <3>1. pc[Closer] = "idle" /\ pc \in [Actors -> PCs] /\ on \in [Actors -> 0..MaxInstances]
      BY <2>1 DEF LockHeld, TypeOK
    <3> QED BY <2>1, <3>1 DEF Inside
  <2>3. \A a \in Actors : pc'[a] \in Inside => locked'[on'[a]] = a
    BY <2>1, <2>2 DEF LockHeld
  <2>4. ASSUME NEW i \in Instances, locked'[i] # NoActor
        PROVE  pc'[locked'[i]] \in Inside /\ on'[locked'[i]] = i
    <3>1. locked'[i] = locked[i] /\ locked[i] \in Actors
      BY <2>1, <2>4 DEF TypeOK
    <3>2. pc[locked[i]] \in Inside /\ on[locked[i]] = i
      BY <2>4, <3>1 DEF LockHeld
    <3> QED BY <2>2, <3>1, <3>2
  <2> QED BY <2>1, <2>3, <2>4 DEF LockHeld
<1>7. CASE AtExit
  <2>1. /\ app = "closing" /\ pc[Closer] = "done" /\ app' = "exited" /\ locked' = locked
        /\ on' = [on EXCEPT ![Closer] = registered]
        /\ pc' = [pc EXCEPT ![Closer] = IF registered = 0 THEN "done" ELSE "stop"]
    BY <1>7 DEF AtExit, object, Goto
  <2>2. /\ pc'[Closer] \notin Inside /\ pc[Closer] \notin Inside
        /\ \A c \in Actors \ {Closer} : pc'[c] = pc[c] /\ on'[c] = on[c]
    BY <2>1 DEF Inside, TypeOK
  <2>3. \A a \in Actors : pc'[a] \in Inside => locked'[on'[a]] = a
    BY <2>1, <2>2 DEF LockHeld
  <2>4. ASSUME NEW i \in Instances, locked'[i] # NoActor
        PROVE  pc'[locked'[i]] \in Inside /\ on'[locked'[i]] = i
    <3>1. locked'[i] = locked[i] /\ locked[i] \in Actors
      BY <2>1, <2>4 DEF TypeOK
    <3>2. pc[locked[i]] \in Inside /\ on[locked[i]] = i
      BY <2>4, <3>1 DEF LockHeld
    <3> QED BY <2>2, <3>1, <3>2
  <2> QED BY <2>1, <2>3, <2>4 DEF LockHeld
<1>8. CASE World
  <2>1. UNCHANGED <<locked, pc, on, app>>
    BY <1>8 DEF World, Exit, Connect, LogScrolls, object, node
  <2> QED BY <2>1 DEF LockHeld
<1>9. CASE UNCHANGED vars
  BY <1>9 DEF vars, LockHeld
<1> QED BY <1>1, <1>3, <1>4, <1>5, <1>6, <1>7, <1>8, <1>9 DEF Next

\* No lock is held at the start, and nobody is inside.
LEMMA InitLockHeld == Init => LockHeld
<1> SUFFICES ASSUME Init PROVE LockHeld
  OBVIOUS
<1>1. \A a \in Actors : pc[a] \in {"watch", "done", "idle"}
  BY DEF Init
<1>2. Closer # Monitor /\ Closer \notin Boots
  OBVIOUS
<1>3. pc[Closer] = "idle"
  BY <1>2 DEF Init
<1> QED BY <1>1, <1>3 DEF Init, LockHeld, Inside

\* supervisor.py ManagedProcess._lock: no two of the boot, the workflows, the monitor and
\* the shutdowns are ever inside start() or stop() of one instance, though Popen and
\* wait() take their time; and a lock that is taken is always that of an actor inside,
\* which lets it go on its way out, so no failure leaves it taken.
THEOREM LocksExclude ==
    Spec => [](/\ \A a, b \in Actors :
                      pc[a] \in Inside /\ pc[b] \in Inside /\ on[a] = on[b] => a = b
               /\ \A i \in Instances : locked[i] # NoActor =>
                      pc[locked[i]] \in Inside /\ on[locked[i]] = i)
<1> DEFINE Exclusive ==
               /\ \A a, b \in Actors :
                      pc[a] \in Inside /\ pc[b] \in Inside /\ on[a] = on[b] => a = b
               /\ \A i \in Instances : locked[i] # NoActor =>
                      pc[locked[i]] \in Inside /\ on[locked[i]] = i
<1>1. Init => TypeOK /\ Bound /\ LockHeld
  BY InitTypeOK, InitBound, InitLockHeld
<1>2. TypeOK /\ Bound /\ LockHeld /\ [Next]_vars => TypeOK' /\ Bound' /\ LockHeld'
  BY StepTypeOK, StepLockHeld
<1>3. LockHeld => Exclusive
  <2> SUFFICES ASSUME LockHeld PROVE Exclusive
    OBVIOUS
  <2>1. \A a, b \in Actors : pc[a] \in Inside /\ pc[b] \in Inside /\ on[a] = on[b] => a = b
    BY DEF LockHeld
  <2> QED BY <2>1 DEF LockHeld
<1> QED BY <1>1, <1>2, <1>3, PTL DEF Spec

-----------------------------------------------------------------------------
(* MinIO at the exit *)

\* MinIO is registered once, by the boot: every child is of the registered instance and
\* every actor works on it.
Single ==
    service = "minio" =>
        /\ \A w \in Workflows : pc[w] = "idle"
        /\ \A b \in Boots : pc[b] = "idle" => registered = 0
        /\ \A i \in Instances : child[i] # "none" => i = registered
        /\ \A a \in Actors : pc[a] \in Engaged => on[a] = registered

\* Once the shutdown has begun nobody starts MinIO again, and no child runs when the
\* closer's stop() has returned.
Ended ==
    service = "minio" /\ app # "up" =>
        /\ \A b \in Boots : pc[b] = "done"
        /\ pc[Monitor] \in {"probe", "ready", "cancelled"}
        /\ pc[Closer] \in {"stop", "stopping", "done"}
        /\ pc[Closer] = "done" \/ app = "exited" => Up = {}

\* What the calls change of the registrations, the children and the application.
LEMMA CallIs ==
    ASSUME TypeOK, Bound, NEW a \in Actors, Call(a)
    PROVE  /\ UNCHANGED <<registered, app, on, service>>
           /\ pc[a] \in {"start", "spawn", "probe", "ready", "stop", "stopping"}
           /\ pc[a] \in Engaged /\ on[a] \in Instances
           /\ pc'[a] \in PCs \ {"idle"}
           /\ \A b \in Actors : b # a => pc'[b] = pc[b]
           /\ \A i \in Instances : i # on[a] => child'[i] = child[i]
<1>1. pc[a] \in {"start", "spawn", "probe", "ready", "stop", "stopping"}
  BY DEF Call, StartBegin, Spawn, Probe, ProbeReady, StopBegin, StopEnd
<1>2. pc[a] \in Engaged /\ on[a] \in Instances
  BY <1>1 DEF Bound, Engaged
<1>3. UNCHANGED <<registered, app, on, service>>
  BY DEF Call, StartBegin, Spawn, Probe, ProbeReady, StopBegin, StopEnd, node
<1>4. \E p \in PCs \ {"idle"} : Goto(a, p)
  <2>1. \A ok \in BOOLEAN : /\ AfterStart(a, ok) \in PCs \ {"idle"}
                            /\ AfterProbe(a, ok) \in PCs \ {"idle"}
                            /\ AfterStop(a) \in PCs \ {"idle"}
    BY DEF AfterStart, AfterProbe, AfterStop, Watching, PCs
  <2>2. TRUE \in BOOLEAN /\ FALSE \in BOOLEAN /\ {"spawn", "ready", "stopping"} \subseteq PCs \ {"idle"}
    BY DEF PCs
  <2> QED BY <2>1, <2>2 DEF Call, StartBegin, Spawn, Probe, ProbeReady, StopBegin, StopEnd
<1>5. child' = child \/ \E c : child' = [child EXCEPT ![on[a]] = c]
  BY DEF Call, StartBegin, Spawn, Probe, ProbeReady, StopBegin, StopEnd, object
<1>6. \A i \in Instances : i # on[a] => child'[i] = child[i]
  BY <1>5 DEF TypeOK
<1> QED BY <1>1, <1>2, <1>3, <1>4, <1>6, Moves

\* The calls keep MinIO single.
LEMMA CallSingle ==
    ASSUME TypeOK, Bound, Single, NEW a \in Actors, Call(a)
    PROVE  Single'
<1>1. /\ UNCHANGED <<registered, app, on, service>>
      /\ pc[a] \in Engaged /\ on[a] \in Instances
      /\ pc[a] # "idle" /\ pc'[a] # "idle"
      /\ \A b \in Actors : b # a => pc'[b] = pc[b]
      /\ \A i \in Instances : i # on[a] => child'[i] = child[i]
  BY CallIs
<1> SUFFICES ASSUME service = "minio"
             PROVE  /\ \A w \in Workflows : pc'[w] = "idle"
                    /\ \A b \in Boots : pc'[b] = "idle" => registered = 0
                    /\ \A i \in Instances : child'[i] # "none" => i = registered
                    /\ \A b \in Actors : pc'[b] \in Engaged => on[b] = registered
  BY <1>1 DEF Single
<1>2. on[a] = registered /\ a \notin Workflows
  BY <1>1 DEF Single
<1> QED BY <1>1, <1>2 DEF Single

\* Every step keeps MinIO single.
LEMMA StepSingle ==
    ASSUME TypeOK, Bound, Single, [Next]_vars
    PROVE  Single'
<1>1. ASSUME NEW a \in Actors, Call(a)
      PROVE  Single'
  BY <1>1, CallSingle
<1> SUFFICES ASSUME service = "minio", service' = "minio", ~ \E a \in Actors : Call(a)
             PROVE  Single'
  <2>1. service' = service
    BY DEF Next, Call, StartBegin, Spawn, Probe, ProbeReady, StopBegin, StopEnd, MonitorStep,
           MonitorLook, MonitorMark, MonitorWake, Boot, Register, Begin, Work, Replace, Lookup,
           Verify, Finish, Shutdown, AtExit, World, Exit, Connect, LogScrolls, vars
  <2> QED BY <1>1, <2>1 DEF Single
<1>2. /\ \A w \in Workflows : pc[w] = "idle"
      /\ \A b \in Boots : pc[b] = "idle" => registered = 0
      /\ \A i \in Instances : child[i] # "none" => i = registered
      /\ \A a \in Actors : pc[a] \in Engaged => on[a] = registered
  BY DEF Single
<1>3. CASE MonitorStep
  <2>1. /\ UNCHANGED <<child, registered>>
        /\ \E p \in {"mark", "backoff", "watch", "start"} : Goto(Monitor, p)
    BY <1>3 DEF MonitorStep, MonitorLook, MonitorMark, MonitorWake, object, node
  <2>2. /\ Monitor \in Actors /\ Monitor \notin Boots \cup Workflows
        /\ {"mark", "backoff", "watch", "start"} \subseteq PCs
    BY DEF PCs
  <2>3. \A a \in Actors : a # Monitor => pc'[a] = pc[a]
    BY <2>1, <2>2, Moves
  <2>4. \/ on' = [on EXCEPT ![Monitor] = registered]
        \/ on' = on /\ pc[Monitor] \in {"mark", "backoff"}
    BY <1>3 DEF MonitorStep, MonitorLook, MonitorMark, MonitorWake
  <2>5. on'[Monitor] = registered /\ \A a \in Actors : a # Monitor => on'[a] = on[a]
    BY <1>2, <2>2, <2>4 DEF TypeOK, Engaged
  <2>6. \A a \in Actors : pc'[a] \in Engaged => on'[a] = registered'
    BY <1>2, <2>1, <2>3, <2>5
  <2> QED BY <1>2, <2>1, <2>2, <2>3, <2>6 DEF Single
<1>4. ASSUME NEW b \in Boots, Boot(b)
      PROVE  Single'
  <2>1. b \in Actors /\ b \notin Workflows /\ {"start", "done"} \subseteq PCs
    BY DEF PCs
  <2>2. registered = 0 /\ child' = child
    BY <1>2, <1>4 DEF Boot, Register, object
  <2>3. \A i \in Instances : child'[i] = "none"
    BY <1>2, <2>2 DEF TypeOK, Instances
  <2>4. \A a \in Actors : pc[a] \notin Engaged
    BY <2>2 DEF Bound, Instances
  <2>5. CASE Register(b, "start") /\ on' = [on EXCEPT ![b] = created + 1]
    <3>1. Goto(b, "start") /\ registered' = created + 1 /\ on'[b] = created + 1
      BY <2>1, <2>5 DEF Register, TypeOK
    <3>2. pc'[b] = "start" /\ \A a \in Actors : a # b => pc'[a] = pc[a]
      BY <2>1, <3>1, Moves
    <3>3. \A c \in Boots : pc'[c] # "idle"
      BY <3>2, BootsAssumption
    <3> QED BY <1>2, <2>1, <2>3, <2>4, <3>1, <3>2, <3>3 DEF Single
  <2>6. CASE Goto(b, "done") /\ UNCHANGED <<object, outside, node, on, service>>
    <3>1. registered' = registered /\ on' = on
      BY <2>6 DEF node
    <3>2. pc'[b] = "done" /\ \A a \in Actors : a # b => pc'[a] = pc[a]
      BY <2>1, <2>6, Moves
    <3> QED BY <1>2, <2>1, <2>2, <2>3, <2>4, <3>1, <3>2 DEF Single, Engaged
  <2> QED BY <1>4, <2>5, <2>6 DEF Boot
<1>5. ASSUME NEW w \in Workflows
      PROVE  ~(Begin(w) \/ Work(w))
  BY <1>2 DEF Begin, Work, Replace, Lookup, Verify, Finish
<1>6. ASSUME UNCHANGED <<child, registered>>, on' = [on EXCEPT ![Closer] = registered],
             \A a \in Actors \ {Closer, Monitor} : pc'[a] = pc[a],
             pc'[Monitor] \in {pc[Monitor], "cancelled"}
      PROVE  Single'
  <2>1. /\ Closer \in Actors /\ Monitor \in Actors /\ Closer # Monitor
        /\ {Closer, Monitor} \cap (Boots \cup Workflows) = {}
    OBVIOUS
  <2>2. on'[Closer] = registered /\ \A a \in Actors : a # Closer => on'[a] = on[a]
    BY <1>6, <2>1 DEF TypeOK
  <2>3. \A a \in Actors : pc'[a] \in Engaged => on'[a] = registered'
    <3>1. "cancelled" \notin Engaged
      BY DEF Engaged
    <3> QED BY <1>2, <1>6, <2>1, <2>2, <3>1
  <2>4. \A c \in Boots \cup Workflows : pc'[c] = pc[c]
    BY <1>6, <2>1
  <2> QED BY <1>2, <1>6, <2>3, <2>4 DEF Single
<1>7. CASE Shutdown
  <2>1. UNCHANGED <<child, registered>> /\ on' = [on EXCEPT ![Closer] = registered]
    BY <1>7 DEF Shutdown, object
  <2>2. /\ \A a \in Actors \ {Closer, Monitor} : pc'[a] = pc[a]
        /\ pc'[Monitor] \in {pc[Monitor], "cancelled"}
    BY <1>7 DEF Shutdown, TypeOK
  <2> QED BY <1>6, <2>1, <2>2
<1>8. CASE AtExit
  <2>1. UNCHANGED <<child, registered>> /\ on' = [on EXCEPT ![Closer] = registered]
    BY <1>8 DEF AtExit, object
  <2>2. \A a \in Actors \ {Closer} : pc'[a] = pc[a]
    BY <1>8 DEF AtExit, TypeOK, Goto
  <2> QED BY <1>6, <2>1, <2>2
<1>9. CASE World
  <2>1. UNCHANGED <<pc, on, registered>>
    BY <1>9 DEF World, Exit, Connect, LogScrolls, node
  <2>2. \A i \in Instances : child[i] = "none" => child'[i] = "none"
    <3>1. child' = child \/ \E i \in Instances : child[i] \in Live /\ child' = [child EXCEPT ![i] = "dead"]
      BY <1>9 DEF World, Exit, Connect, LogScrolls, object
    <3> QED BY <3>1 DEF TypeOK, Live
  <2> QED BY <1>2, <2>1, <2>2 DEF Single
<1>10. CASE UNCHANGED vars
  BY <1>2, <1>10 DEF vars, Single
<1> QED BY <1>3, <1>4, <1>5, <1>7, <1>8, <1>9, <1>10 DEF Next

\* After the shutdown has begun only the monitor's last probe and the closer call, and
\* the closer leaves no child that was not told to stop and then killed.
LEMMA CallEnded ==
    ASSUME TypeOK, Bound, Single, Ended, NEW a \in Actors, Call(a)
    PROVE  Ended'
<1>1. /\ UNCHANGED <<registered, app, on, service>>
      /\ pc[a] \in {"start", "spawn", "probe", "ready", "stop", "stopping"}
      /\ pc[a] \in Engaged /\ on[a] \in Instances
      /\ \A b \in Actors : b # a => pc'[b] = pc[b]
      /\ \A i \in Instances : i # on[a] => child'[i] = child[i]
  BY CallIs
<1> SUFFICES ASSUME service = "minio", app # "up"
             PROVE  /\ \A b \in Boots : pc'[b] = "done"
                    /\ pc'[Monitor] \in {"probe", "ready", "cancelled"}
                    /\ pc'[Closer] \in {"stop", "stopping", "done"}
                    /\ pc'[Closer] = "done" \/ app = "exited" => Up' = {}
  BY <1>1 DEF Ended
<1>2. /\ \A b \in Boots : pc[b] = "done"
      /\ pc[Monitor] \in {"probe", "ready", "cancelled"}
      /\ pc[Closer] \in {"stop", "stopping", "done"}
      /\ pc[Closer] = "done" \/ app = "exited" => Up = {}
      /\ \A w \in Workflows : pc[w] = "idle"
      /\ \A i \in Instances : i # on[a] => child[i] = "none"
  BY <1>1 DEF Ended, Single
<1>3. a \in {Monitor, Closer} /\ Monitor # Closer
  BY <1>1, <1>2
<1>4. \A b \in Boots : b \notin {Monitor, Closer} /\ b \in Actors
  OBVIOUS
<1>5. \A i \in Instances : i # on[a] => child'[i] = "none"
  BY <1>1, <1>2
<1>6. CASE a = Monitor
  <2>1. Probe(Monitor) \/ ProbeReady(Monitor)
    BY <1>2, <1>6 DEF Call, StartBegin, Spawn, StopBegin, StopEnd
  <2>2. child' = child
    BY <2>1 DEF Probe, ProbeReady, object
  <2>3. Watching = "cancelled"
    BY DEF Watching
  <2>4. Goto(Monitor, "cancelled") \/ Goto(Monitor, "ready")
    BY <2>1, <2>3 DEF Probe, ProbeReady, AfterProbe
  <2>5. Monitor \in Actors /\ {"cancelled", "ready"} \subseteq PCs
    BY DEF PCs
  <2>6. pc'[Monitor] \in {"cancelled", "ready"}
    BY <2>4, <2>5, Moves
  <2>7. pc'[Closer] = pc[Closer]
    BY <1>1, <1>3, <1>6
  <2>8. Up' = Up
    BY <2>2 DEF Up
  <2> QED BY <1>1, <1>2, <1>4, <1>6, <2>6, <2>7, <2>8
<1>7. CASE a = Closer
  <2>1. /\ pc'[Monitor] = pc[Monitor]
        /\ \A b \in Boots : pc'[b] = pc[b]
    BY <1>1, <1>3, <1>4, <1>7
  <2>2. Closer \in Actors /\ {"stopping", "done"} \subseteq PCs /\ AfterStop(Closer) = "done"
    BY DEF PCs, AfterStop
  <2>3. StopBegin(Closer) \/ StopEnd(Closer)
    BY <1>2, <1>7 DEF Call, StartBegin, Spawn, Probe, ProbeReady
  <2>4. CASE StopBegin(Closer)
    <3>1. CASE child[on[a]] \in Live
      <4>1. /\ Goto(Closer, "stopping")
            /\ child' = [child EXCEPT ![on[a]] = IF @ = "up" THEN "termed" ELSE @]
        BY <1>7, <2>4, <3>1 DEF StopBegin
      <4>2. pc'[Closer] = "stopping"
        BY <2>2, <4>1, Moves
      <4>3. Up' = Up
        BY <1>1, <4>1 DEF Up, TypeOK
      <4> QED BY <1>2, <2>1, <4>2, <4>3
    <3>2. CASE child[on[a]] \notin Live
      <4>1. Goto(Closer, "done") /\ child' = child
        BY <1>7, <2>2, <2>4, <3>2 DEF StopBegin
      <4>2. pc'[Closer] = "done"
        BY <2>2, <4>1, Moves
      <4>3. Up' = {}
        BY <1>2, <3>2, <4>1 DEF Up, Live
      <4> QED BY <1>2, <2>1, <4>2, <4>3
    <3> QED BY <3>1, <3>2
  <2>5. CASE StopEnd(Closer)
    <3>1. /\ Goto(Closer, "done")
          /\ child' = [child EXCEPT ![on[a]] = IF @ = "dead" THEN @ ELSE "killed"]
      BY <1>7, <2>2, <2>5 DEF StopEnd
    <3>2. pc'[Closer] = "done"
      BY <2>2, <3>1, Moves
    <3>3. child'[on[a]] \in {"dead", "killed"}
      BY <1>1, <3>1 DEF TypeOK
    <3>4. Up' = {}
      BY <1>5, <3>3 DEF Up
    <3> QED BY <1>2, <2>1, <3>2, <3>4
  <2> QED BY <2>3, <2>4, <2>5
<1> QED BY <1>3, <1>6, <1>7

\* Every step keeps the end of MinIO.
LEMMA StepEnded ==
    ASSUME TypeOK, Bound, Single, Ended, [Next]_vars
    PROVE  Ended'
<1>1. ASSUME NEW a \in Actors, Call(a)
      PROVE  Ended'
  BY <1>1, CallEnded
<1>2. ASSUME UNCHANGED <<app, service>>, service = "minio" => app = "up"
      PROVE  Ended'
  BY <1>2 DEF Ended
<1>3. service = "minio" /\ app # "up" =>
          /\ \A b \in Boots : pc[b] = "done"
          /\ pc[Monitor] \in {"probe", "ready", "cancelled"}
          /\ pc[Closer] \in {"stop", "stopping", "done"}
          /\ pc[Closer] = "done" \/ app = "exited" => Up = {}
          /\ \A w \in Workflows : pc[w] = "idle"
  BY DEF Ended, Single
<1>4. CASE MonitorStep
  <2>1. UNCHANGED <<app, service>> /\ pc[Monitor] \in {"watch", "mark", "backoff"}
    BY <1>4 DEF MonitorStep, MonitorLook, MonitorMark, MonitorWake, object, node
  <2> QED BY <1>2, <1>3, <2>1
<1>5. ASSUME NEW b \in Boots, Boot(b)
      PROVE  Ended'
  <2>1. UNCHANGED <<app, service>> /\ pc[b] = "idle"
    BY <1>5 DEF Boot, Register, node
  <2> QED BY <1>2, <1>3, <2>1
<1>6. ASSUME NEW w \in Workflows, Begin(w) \/ Work(w)
      PROVE  Ended'
  <2>1. UNCHANGED <<app, service>>
    BY <1>6 DEF Begin, Work, Replace, Lookup, Verify, Finish, Register, node
  <2>2. service # "minio" \/ pc[w] # "idle"
    BY <1>6 DEF Begin, Work, Replace, Lookup, Verify, Finish
  <2> QED BY <1>2, <1>3, <2>1, <2>2
<1>7. CASE Shutdown
  <2>1. /\ \A b \in Boots : pc[b] = "done"
        /\ pc[Monitor] \in {"watch", "backoff", "probe", "ready"}
        /\ app' = "closing" /\ UNCHANGED <<child, service>>
        /\ pc' = [pc EXCEPT ![Monitor] = IF @ \in {"watch", "backoff"} THEN "cancelled" ELSE @,
                            ![Closer] = IF registered = 0 THEN "done" ELSE "stop"]
    BY <1>7 DEF Shutdown, object
  <2>2. /\ pc'[Monitor] \in {"probe", "ready", "cancelled"}
        /\ pc'[Closer] \in {"stop", "done"} /\ (pc'[Closer] = "done" => registered = 0)
        /\ \A b \in Boots : pc'[b] = "done"
    BY <2>1 DEF TypeOK
  <2>3. service = "minio" /\ registered = 0 => Up' = {}
    BY <2>1 DEF Single, Up, Instances
  <2> QED BY <2>1, <2>2, <2>3 DEF Ended
<1>8. CASE AtExit
  <2>1. /\ app = "closing" /\ app' = "exited" /\ pc[Closer] = "done" /\ pc[Monitor] = "cancelled"
        /\ UNCHANGED <<child, service>>
        /\ pc' = [pc EXCEPT ![Closer] = IF registered = 0 THEN "done" ELSE "stop"]
    BY <1>8 DEF AtExit, object, Goto
  <2>2. /\ pc'[Closer] \in {"stop", "done"} /\ pc'[Monitor] = "cancelled"
        /\ \A b \in Boots : pc'[b] = pc[b]
    BY <2>1 DEF TypeOK
  <2>3. service = "minio" => Up' = {} /\ \A b \in Boots : pc'[b] = "done"
    BY <1>3, <2>1, <2>2 DEF Up
  <2> QED BY <2>1, <2>2, <2>3 DEF Ended
<1>9. CASE World
  <2>1. UNCHANGED <<pc, app, service>>
    BY <1>9 DEF World, Exit, Connect, LogScrolls, node
  <2>2. Up' \subseteq Up
    <3>1. child' = child \/ \E i \in Instances : child' = [child EXCEPT ![i] = "dead"]
      BY <1>9 DEF World, Exit, Connect, LogScrolls, object
    <3> QED BY <3>1 DEF Up, TypeOK
  <2> QED BY <1>3, <2>1, <2>2 DEF Ended
<1>10. CASE UNCHANGED vars
  BY <1>10 DEF vars, Ended, Up
<1> QED BY <1>1, <1>4, <1>5, <1>6, <1>7, <1>8, <1>9, <1>10 DEF Next

\* supervisor.py shutdown_all, README "Clean Termination & Orphan Prevention": when the
\* node has exited, no child of MinIO runs that was not told to stop and, if it did not,
\* killed, whatever the boot, the monitor and the two shutdowns did in which order.
THEOREM MinioCleanExit == Spec => []CleanExit
<1>1. Init => TypeOK /\ Bound /\ Single /\ Ended
  <2>1. Init => Single /\ Ended
    BY DEF Init, Single, Ended, Engaged
  <2> QED BY <2>1, InitTypeOK, InitBound
<1>2. TypeOK /\ Bound /\ Single /\ Ended /\ [Next]_vars =>
          TypeOK' /\ Bound' /\ Single' /\ Ended'
  BY StepTypeOK, StepSingle, StepEnded
<1>3. Ended => CleanExit
  BY DEF Ended, CleanExit, ChildLeft
<1> QED BY <1>1, <1>2, <1>3, PTL DEF Spec
=============================================================================
