----------------------------- MODULE Supervisor -----------------------------
(***************************************************************************)
(* backend/app/runtime/supervisor.py for one process name of the manager,   *)
(* with the callers the node has for it: the lifespan that boots MinIO     *)
(* (main.py), the tunnel workflows that replace and restart cloudflared    *)
(* (tunnel_service.py, service_setup.py), the monitor loop and shutdown.   *)
(*                                                                         *)
(* An instance is one ManagedProcess object; register() makes a new one    *)
(* and the name then refers to it.  An actor is a thread or a coroutine.   *)
(* start(), stop() and wait_ready() are cut where another actor may run:   *)
(* on entry (once the instance's lock is taken), around Popen, while stop  *)
(* waits for the child, and between a readiness check and the status it    *)
(* writes.  The event loop runs Monitor, and it cannot be cancelled while  *)
(* it is inside start().                                                   *)
(*                                                                         *)
(* Time is abstracted: a timeout or a backoff may end at any moment.       *)
(***************************************************************************)
EXTENDS Integers, FiniteSets

CONSTANTS
    Boots,        \* the lifespan that boots the process and waits for it (MinIO)
    Workflows,    \* tunnel workflows in flight at the same time (cloudflared)
    Monitor, Closer, NoActor,
    MaxRestarts,  \* ManagedProcess.max_restarts
    MaxInstances, \* bound on register()
    Services      \* the processes checked: "minio", "cloudflared" or both

Actors    == Boots \cup Workflows \cup {Monitor, Closer}
Instances == 1..MaxInstances

ASSUME ActorsAssumption == /\ Monitor # Closer
                           /\ {Monitor, Closer, NoActor} \cap (Boots \cup Workflows) = {}
                           /\ NoActor \notin {Monitor, Closer}
                           /\ Boots \cap Workflows = {}
ASSUME BootsAssumption == \A b, c \in Boots : b = c   \* a process has one lifespan
ASSUME BoundsAssumption == MaxRestarts \in Nat /\ MaxInstances \in Nat \ {0}
ASSUME ServicesAssumption == Services \subseteq {"minio", "cloudflared"}

VARIABLES
    registered, \* the instance ProcessManager.processes holds for the name, or 0
    created,    \* instances made so far
    child,      \* per instance, what became of the last child it spawned
    status, restarts, \* ManagedProcess.status, .restart_count
    shouldRun,  \* instances with should_run
    locked,     \* per instance, the actor that holds its lock
    connected,  \* instances whose child serves its port or registered its tunnel
    logged,     \* the tail of the log file shows a registration
    tunnel,     \* tunnel_service._tunnel_state["status"]
    app,        \* "up", then "closing" at shutdown, "exited" after atexit
    pc, on,     \* per actor: what it does next, and the instance it works on
    service     \* the process the name stands for; never changes

object   == <<child, status, restarts, shouldRun, locked>>
outside  == <<connected, logged>>
node     == <<registered, created, tunnel, app>>
vars     == <<registered, created, child, status, restarts, shouldRun, locked, connected,
              logged, tunnel, app, pc, on, service>>

ChildStates == {"none", "up", "termed", "killed", "dead"}
Live        == {"up", "termed", "killed"}   \* poll() is None
PCs == {"idle", "register", "lookup", "start", "spawn", "verify", "probe", "ready", "won",
        "lost", "stop", "stopping", "done", "watch", "mark", "backoff", "cancelled"}

TypeOK ==
    /\ registered \in 0..MaxInstances /\ created \in 0..MaxInstances
    /\ child \in [Instances -> ChildStates]
    /\ status \in [Instances -> {"stopped", "starting", "running", "ready", "crashed", "failed"}]
    /\ restarts \in [Instances -> 0..MaxRestarts]
    /\ shouldRun \subseteq Instances
    /\ locked \in [Instances -> Actors \cup {NoActor}]
    /\ connected \subseteq Instances
    /\ logged \in BOOLEAN
    /\ tunnel \in {"unpaired", "starting", "ready", "failed"}
    /\ app \in {"up", "closing", "exited"}
    /\ pc \in [Actors -> PCs]
    /\ on \in [Actors -> 0..MaxInstances]
    /\ service \in Services

Init ==
    /\ service \in Services
    /\ registered = 0 /\ created = 0
    /\ child = [i \in Instances |-> "none"]
    /\ status = [i \in Instances |-> "stopped"]
    /\ restarts = [i \in Instances |-> 0]
    /\ shouldRun = {}
    /\ locked = [i \in Instances |-> NoActor]
    /\ connected = {} /\ logged = FALSE
    /\ tunnel = "unpaired" /\ app = "up"
    /\ pc = [a \in Actors |-> IF a = Monitor THEN "watch"
                             ELSE IF a \in Boots /\ service # "minio" THEN "done"
                             ELSE "idle"]
    /\ on = [a \in Actors |-> 0]

-----------------------------------------------------------------------------
(* What an actor does when a call returns *)

\* The monitor goes on with its loop, unless it was cancelled meanwhile.
Watching == IF app = "up" THEN "watch" ELSE "cancelled"

AfterStart(a, ok) == IF a = Monitor \/ (a \in Boots /\ ok) THEN "probe"
                     ELSE IF a \in Boots THEN "done"
                     ELSE IF ok THEN "verify" ELSE "lost"

AfterProbe(a, ok) == IF a = Monitor THEN Watching
                     ELSE IF a \in Boots THEN IF ok THEN "done" ELSE "stop"
                     ELSE IF ok THEN "won" ELSE "lost"

AfterStop(a) == IF a \in Workflows THEN "register" ELSE "done"

Goto(a, p) == pc' = [pc EXCEPT ![a] = p]

-----------------------------------------------------------------------------
(* ManagedProcess.start *)

StartBegin(a) ==
    LET i == on[a] IN
    /\ pc[a] = "start"
    /\ locked[i] = NoActor
    /\ IF child[i] \in Live
       THEN /\ Goto(a, AfterStart(a, TRUE))
            /\ UNCHANGED <<status, shouldRun, locked>>
       ELSE /\ status' = [status EXCEPT ![i] = "starting"]
            /\ shouldRun' = shouldRun \cup {i}
            /\ locked' = [locked EXCEPT ![i] = a]
            /\ Goto(a, "spawn")
    /\ UNCHANGED <<child, restarts, outside, node, on, service>>

\* Mutant of Spawn: a Popen that raises leaves the lock taken.
SpawnKeepsLock(a) ==
    LET i == on[a] IN
    /\ pc[a] = "spawn"
    /\ \/ /\ child' = [child EXCEPT ![i] = "up"]
          /\ status' = [status EXCEPT ![i] = "running"]
          /\ locked' = [locked EXCEPT ![i] = NoActor]
          /\ Goto(a, AfterStart(a, TRUE))
       \/ /\ status' = [status EXCEPT ![i] = "failed"]
          /\ Goto(a, AfterStart(a, FALSE))
          /\ UNCHANGED <<child, locked>>
    /\ UNCHANGED <<restarts, shouldRun, outside, node, on, service>>

\* Popen starts a child, or raises.
Spawn(a) ==
    LET i == on[a] IN
    /\ pc[a] = "spawn"
    /\ locked' = [locked EXCEPT ![i] = NoActor]
    /\ \/ /\ child' = [child EXCEPT ![i] = "up"]
          /\ status' = [status EXCEPT ![i] = "running"]
          /\ Goto(a, AfterStart(a, TRUE))
       \/ /\ status' = [status EXCEPT ![i] = "failed"]
          /\ Goto(a, AfterStart(a, FALSE))
          /\ UNCHANGED child
    /\ UNCHANGED <<restarts, shouldRun, outside, node, on, service>>

-----------------------------------------------------------------------------
(* ManagedProcess.wait_ready *)

\* MinIO's health endpoint answers whoever holds the port; cloudflared's check
\* reads the last lines of a log file all instances append to.
CheckPasses == IF service = "cloudflared" THEN logged ELSE connected # {}

\* One iteration: the child has exited or time is up, or the check passes.
Probe(a) ==
    LET i == on[a] IN
    /\ pc[a] = "probe"
    /\ \/ Goto(a, AfterProbe(a, FALSE))
       \/ child[i] # "dead" /\ CheckPasses /\ Goto(a, "ready")
    /\ UNCHANGED <<object, outside, node, on, service>>

\* The status is written without the lock.
ProbeReady(a) ==
    /\ pc[a] = "ready"
    /\ status' = [status EXCEPT ![on[a]] = "ready"]
    /\ Goto(a, AfterProbe(a, TRUE))
    /\ UNCHANGED <<child, restarts, shouldRun, locked, outside, node, on, service>>

-----------------------------------------------------------------------------
(* ManagedProcess.stop *)

StopBegin(a) ==
    LET i == on[a] IN
    /\ pc[a] = "stop"
    /\ locked[i] = NoActor
    /\ shouldRun' = shouldRun \ {i}
    /\ IF child[i] \in Live
       THEN /\ child' = [child EXCEPT ![i] = IF @ = "up" THEN "termed" ELSE @]
            /\ locked' = [locked EXCEPT ![i] = a]
            /\ Goto(a, "stopping")
            /\ UNCHANGED status
       ELSE /\ status' = [status EXCEPT ![i] = "stopped"]
            /\ Goto(a, AfterStop(a))
            /\ UNCHANGED <<child, locked>>
    /\ UNCHANGED <<restarts, outside, node, on, service>>

\* Mutant of StopEnd: no kill after the timeout.
StopEndWithoutKill(a) ==
    LET i == on[a] IN
    /\ pc[a] = "stopping"
    /\ status' = [status EXCEPT ![i] = "stopped"]
    /\ locked' = [locked EXCEPT ![i] = NoActor]
    /\ Goto(a, AfterStop(a))
    /\ UNCHANGED <<child, restarts, shouldRun, outside, node, on, service>>

\* The child is gone, or it is killed after the timeout and not waited for.
StopEnd(a) ==
    LET i == on[a] IN
    /\ pc[a] = "stopping"
    /\ child' = [child EXCEPT ![i] = IF @ = "dead" THEN @ ELSE "killed"]
    /\ status' = [status EXCEPT ![i] = "stopped"]
    /\ locked' = [locked EXCEPT ![i] = NoActor]
    /\ Goto(a, AfterStop(a))
    /\ UNCHANGED <<restarts, shouldRun, outside, node, on, service>>

-----------------------------------------------------------------------------
(* ProcessManager.run_monitor_loop *)

MonitorLook ==
    /\ pc[Monitor] = "watch"
    /\ registered \in shouldRun
    /\ child[registered] = "dead"
    /\ on' = [on EXCEPT ![Monitor] = registered]
    /\ Goto(Monitor, "mark")
    /\ UNCHANGED <<object, outside, node, service>>

\* Mutant of MonitorMark: gives up without saying so.
MonitorMarkSilently ==
    LET i == on[Monitor] IN
    /\ pc[Monitor] = "mark"
    /\ status' = [status EXCEPT ![i] = "crashed"]
    /\ IF restarts[i] < MaxRestarts
       THEN /\ restarts' = [restarts EXCEPT ![i] = @ + 1]
            /\ Goto(Monitor, "backoff")
       ELSE /\ Goto(Monitor, "watch")
            /\ UNCHANGED restarts
    /\ UNCHANGED <<child, shouldRun, locked, outside, node, on, service>>

\* Mutant of MonitorMark: restarts without limit.
MonitorMarkForever ==
    LET i == on[Monitor] IN
    /\ pc[Monitor] = "mark"
    /\ status' = [status EXCEPT ![i] = "crashed"]
    /\ restarts' = [restarts EXCEPT ![i] = @ + 1]
    /\ Goto(Monitor, "backoff")
    /\ UNCHANGED <<child, shouldRun, locked, outside, node, on, service>>

MonitorMark ==
    LET i == on[Monitor] IN
    /\ pc[Monitor] = "mark"
    /\ IF restarts[i] < MaxRestarts
       THEN /\ status' = [status EXCEPT ![i] = "crashed"]
            /\ restarts' = [restarts EXCEPT ![i] = @ + 1]
            /\ Goto(Monitor, "backoff")
       ELSE /\ status' = [status EXCEPT ![i] = "failed"]
            /\ Goto(Monitor, "watch")
            /\ UNCHANGED restarts
    /\ UNCHANGED <<child, shouldRun, locked, outside, node, on, service>>

\* After the backoff the instance is started whatever became of it meanwhile.
MonitorWake ==
    /\ pc[Monitor] = "backoff"
    /\ Goto(Monitor, "start")
    /\ UNCHANGED <<object, outside, node, on, service>>

-----------------------------------------------------------------------------
(* Callers *)

Register(a, next) ==
    /\ created < MaxInstances
    /\ created' = created + 1
    /\ registered' = created + 1
    /\ Goto(a, next)
    /\ UNCHANGED <<object, outside, tunnel, app, service>>

\* lifespan: setup_minio registers, unless the port is taken or the download fails.
Boot(b) ==
    /\ pc[b] = "idle"
    /\ \/ /\ Register(b, "start")
          /\ on' = [on EXCEPT ![b] = created + 1]
       \/ /\ Goto(b, "done")
          /\ UNCHANGED <<object, outside, node, on, service>>

\* start_tunnel_workflow, from startup, a claimed pairing or /tunnel/restart:
\* setup_cloudflared stops the instance the name refers to.
Begin(w) ==
    /\ service = "cloudflared"
    /\ app = "up" /\ pc[w] = "idle" /\ created < MaxInstances
    /\ tunnel' = "starting"
    /\ on' = [on EXCEPT ![w] = registered]
    /\ Goto(w, IF registered = 0 THEN "register" ELSE "stop")
    /\ UNCHANGED <<object, outside, registered, created, app, service>>

\* ensure_binary raises, or a new instance takes the name.
Replace(w) ==
    /\ pc[w] = "register"
    /\ \/ Register(w, "lookup") /\ UNCHANGED on
       \/ /\ Goto(w, "lost")
          /\ UNCHANGED <<object, outside, node, on, service>>

\* ProcessManager.start looks the name up again.
Lookup(w) ==
    /\ pc[w] = "lookup"
    /\ on' = [on EXCEPT ![w] = registered]
    /\ Goto(w, "start")
    /\ UNCHANGED <<object, outside, node, service>>

\* Back on the event loop, verify_cloudflared_health looks it up once more.
Verify(w) ==
    /\ app = "up" /\ pc[w] = "verify"
    /\ on' = [on EXCEPT ![w] = registered]
    /\ Goto(w, "probe")
    /\ UNCHANGED <<object, outside, node, service>>

Finish(w) ==
    /\ app = "up" /\ pc[w] \in {"won", "lost"}
    /\ tunnel' = IF pc[w] = "won" THEN "ready" ELSE "failed"
    /\ Goto(w, "idle")
    /\ UNCHANGED <<object, outside, registered, created, app, on, service>>

\* The end of the lifespan: the monitor is cancelled at its await (a wait_ready it
\* left to a thread goes on), then shutdown_all stops the registered instance.
Shutdown ==
    /\ app = "up"
    /\ \A b \in Boots : pc[b] = "done"
    /\ pc[Monitor] \in {"watch", "backoff", "probe", "ready"}
    /\ app' = "closing"
    /\ on' = [on EXCEPT ![Closer] = registered]
    /\ pc' = [pc EXCEPT ![Monitor] = IF @ \in {"watch", "backoff"} THEN "cancelled" ELSE @,
                        ![Closer] = IF registered = 0 THEN "done" ELSE "stop"]
    /\ UNCHANGED <<object, outside, registered, created, tunnel, service>>

\* Threads of the executor are joined, coroutines are gone; then atexit runs
\* shutdown_all again.
AtExit ==
    /\ app = "closing" /\ pc[Closer] = "done"
    /\ pc[Monitor] = "cancelled"
    /\ \A w \in Workflows : pc[w] \in {"idle", "verify", "won", "lost"}
    /\ app' = "exited"
    /\ on' = [on EXCEPT ![Closer] = registered]
    /\ Goto(Closer, IF registered = 0 THEN "done" ELSE "stop")
    /\ UNCHANGED <<object, outside, registered, created, tunnel, service>>

-----------------------------------------------------------------------------
(* The children *)

\* A child exits by itself, or because it was told to.
Exit(i) ==
    /\ child[i] \in Live
    /\ child' = [child EXCEPT ![i] = "dead"]
    /\ connected' = connected \ {i}
    /\ UNCHANGED <<status, restarts, shouldRun, locked, logged, node, pc, on, service>>

Connect(i) ==
    /\ child[i] = "up" /\ i \notin connected
    /\ connected' = connected \cup {i}
    /\ logged' = TRUE
    /\ UNCHANGED <<object, node, pc, on, service>>

\* Forty other lines push the registration out of the tail.
LogScrolls ==
    /\ logged
    /\ \E i \in Instances : child[i] \in Live
    /\ logged' = FALSE
    /\ UNCHANGED <<object, connected, node, pc, on, service>>

-----------------------------------------------------------------------------
(* Specification *)

Call(a) == StartBegin(a) \/ Spawn(a) \/ Probe(a) \/ ProbeReady(a) \/ StopBegin(a) \/ StopEnd(a)

MonitorStep == MonitorLook \/ MonitorMark \/ MonitorWake

Work(w) == Replace(w) \/ Lookup(w) \/ Verify(w) \/ Finish(w)

World == \/ \E i \in Instances : Exit(i) \/ Connect(i)
         \/ LogScrolls

Next == \/ \E a \in Actors : Call(a)
        \/ MonitorStep
        \/ \E b \in Boots : Boot(b)
        \/ \E w \in Workflows : Begin(w) \/ Work(w)
        \/ Shutdown \/ AtExit
        \/ World

Spec == Init /\ [][Next]_vars

\* Threads and coroutines that can go on do: calls return, timeouts end, the loop
\* polls, and the atexit hook runs once the threads are joined.  Nothing is assumed
\* of the children, of the users who restart the tunnel, nor of when the node is
\* shut down.
Fairness == /\ \A a \in Actors : WF_vars(Call(a))
            /\ WF_vars(MonitorStep)
            /\ \A w \in Workflows : WF_vars(Work(w))
            /\ WF_vars(AtExit)

FairSpec == Spec /\ Fairness

-----------------------------------------------------------------------------
(* Properties *)

Up == {i \in Instances : child[i] \in {"up", "termed"}}

\* The application has exited and its last stop() returned, and a child still runs.
ChildLeft == app = "exited" /\ pc[Closer] = "done" /\ Up # {}

\* MinIO, which is registered once, is never left running: whatever the monitor, the
\* boot and the two shutdowns did in which order, its child was told to stop and
\* killed if it did not.
CleanExit == service = "minio" => ~ChildLeft

\* A registered process that died while it should run is restarted or reported as
\* failed, unless it is stopped, replaced or the node shuts down: the monitor
\* does not get lost in its backoffs and probes.
Recovers ==
    \A i \in Instances :
        (registered = i /\ i \in shouldRun /\ child[i] = "dead")
            ~> (\/ child[i] # "dead" \/ status[i] = "failed"
                \/ i \notin shouldRun \/ registered # i \/ app # "up")

\* A shutdown ends: no lock and no thread it waits for is held for ever.
ShutdownEnds == app = "closing" ~> (app = "exited" /\ pc[Closer] = "done")
=============================================================================
