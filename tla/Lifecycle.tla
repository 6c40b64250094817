------------------------------- MODULE Lifecycle -------------------------------
(***************************************************************************)
(* The application registry and the lifecycle service of MachineDeck.       *)
(*                                                                         *)
(* One process serves HTTP requests on one asyncio event loop.  A request   *)
(* runs without interruption between two awaits; `loop' names the request   *)
(* that is running, or None when every request is suspended at an await.    *)
(* Requests on one application are serialised by an asyncio.Lock whose      *)
(* waiters are served in order: the head of queue[a] holds the lock of a.   *)
(* The database survives a crash of the process, the locks do not.  The     *)
(* runtime (systemd or Docker Compose) lives on independently.              *)
(*                                                                         *)
(* A request has its own database session, with a copy of the rows it has   *)
(* read: seen[r] is its copy of the status column.  Flushing writes only    *)
(* the columns whose value differs from the copy.                           *)
(***************************************************************************)
EXTENDS Naturals, Sequences

CONSTANTS
    Apps,       \* application ids
    Requests,   \* HTTP requests; each is served once
    None,       \* no request, no row, no job
    Initial     \* identity of an instance row that predates every request

ASSUME AppsAssumption == Apps # {}

ASSUME IdentityAssumption ==
    /\ None \notin Requests
    /\ Initial \notin Requests
    /\ None # Initial

VARIABLES
    inst,       \* inst[a]: identity of a's instance row, None when a is not registered
    enabled,    \* enabled[a]: the registry row's enabled column
    status,     \* status[a]: the instance row's status column
    exec,       \* exec[r]: status of the execution row that r created
    runtime,    \* runtime[a]: the state the runtime manager would report
    job,        \* job[a]: an operation the runtime manager has still to carry out
    queue,      \* queue[a]: holder and waiters of a's lock
    loop,       \* the request running on the event loop
    pc,         \* pc[r]: where request r is
    kind,       \* kind[r]: what r asks for
    app,        \* app[r]: the application r is about
    seen,       \* seen[r]: the status column in r's session
    seenInst,   \* seenInst[r]: the instance row in r's session
    obs         \* obs[r]: what the runtime adapter last told r

database == <<inst, enabled, status, exec>>
world    == <<runtime, job>>
sessions == <<seen, seenInst, obs>>
request  == <<kind, app>>
vars     == <<database, world, sessions, request, queue, loop, pc>>

-----------------------------------------------------------------------------
(* Statuses and the transition table                                        *)

Statuses == {"CHECKING", "QUEUED", "STARTING", "RUNNING", "UNHEALTHY",
             "STOPPING", "STOPPED", "FAILED", "UNKNOWN", "DISABLED"}

ActiveStatuses == {"CHECKING", "STARTING", "RUNNING", "UNHEALTHY", "STOPPING"}

AllowedTransitions ==
    [s \in Statuses |->
        CASE s = "STOPPED"   -> {"CHECKING", "DISABLED"}
          [] s = "CHECKING"  -> {"STARTING", "QUEUED", "FAILED", "STOPPED"}
          [] s = "QUEUED"    -> {"CHECKING", "STOPPED"}
          [] s = "STARTING"  -> {"RUNNING", "UNHEALTHY", "FAILED", "STOPPED"}
          [] s = "RUNNING"   -> {"STARTING", "STOPPING", "UNHEALTHY", "FAILED", "UNKNOWN"}
          [] s = "UNHEALTHY" -> {"RUNNING", "STARTING", "STOPPING", "FAILED"}
          [] s = "STOPPING"  -> {"STOPPED", "FAILED"}
          [] s = "FAILED"    -> {"CHECKING", "STOPPING", "STOPPED"}
          [] s = "UNKNOWN"   -> {"CHECKING", "RUNNING", "STOPPING", "STOPPED", "FAILED"}
          [] s = "DISABLED"  -> {"STOPPED"}]

\* require_transition does not raise
MayBecome(s, target) == target = s \/ target \in AllowedTransitions[s]

\* The statuses the runtime itself can be in
RuntimeStates == {"STARTING", "RUNNING", "UNHEALTHY", "STOPPING", "STOPPED", "FAILED"}

-----------------------------------------------------------------------------
(* Requests                                                                 *)

Actions == {"start", "stop", "restart"}
Kinds   == Actions \cup {"create", "update", "delete", "status", "logs"}

\* pc[r] while r carries out a lifecycle action under the lock
InAction == {"ports", "transition", "checked", "op", "failed", "confirm", "applied"}

\* pc[r] while r holds the lock and has read what it needs
Holding == InAction \cup {"observe", "reconciled"}

\* pc[r] when r is over: answered, answered by an unhandled exception, or
\* lost with the process
Ended == {"done", "raised", "lost"}

Points == Holding \cup Ended \cup {"idle", "queued"}

\* Faulty variant of Holds: any waiter may enter
HoldsAnywhere(r) == \E i \in DOMAIN queue[app[r]] : queue[app[r]][i] = r

Holds(r) == queue[app[r]] # <<>> /\ Head(queue[app[r]]) = r

\* r runs now, or every request is suspended and r may resume
MayRun(r) == loop \in {None, r}

-----------------------------------------------------------------------------
(* Steps that requests are made of                                          *)

Goto(r, point) == pc' = [pc EXCEPT ![r] = point]

\* r goes on without awaiting: nobody else runs before its next step
Continue(r, point) == Goto(r, point) /\ loop' = r

\* r awaits something that does not complete at once
Await(r, point) == Goto(r, point) /\ loop' = None

\* Ask for the lock of a: taken at once when it is free, else wait in line
Enqueue(r, a) ==
    /\ queue' = [queue EXCEPT ![a] = Append(@, r)]
    /\ pc' = [pc EXCEPT ![r] = "queued"]
    /\ loop' = IF queue[a] = <<>> THEN r ELSE None

\* Leave the locked region and answer (or raise)
Release(r, point) ==
    /\ queue' = [queue EXCEPT ![app[r]] = Tail(@)]
    /\ pc' = [pc EXCEPT ![r] = point]
    /\ loop' = None
    /\ obs' = [obs EXCEPT ![r] = None]

\* Set the status attribute of r's copy and flush it: the column is part of the
\* UPDATE only when the value differs from the copy
WriteStatus(r, s) ==
    status' = [status EXCEPT ![app[r]] = IF s = seen[r] THEN @ ELSE s]

SetSeen(r, s) == seen' = [seen EXCEPT ![r] = s]

Finish(r, outcome) == exec' = [exec EXCEPT ![r] = outcome]

-----------------------------------------------------------------------------
(* Registry requests                                                        *)

\* POST /applications: no lock and no await
Create(r, a) ==
    /\ pc[r] = "idle" /\ loop = None
    /\ kind' = [kind EXCEPT ![r] = "create"] /\ app' = [app EXCEPT ![r] = a]
    /\ Goto(r, "done")
    /\ \/ /\ inst[a] # None                              \* ApplicationExistsError
          /\ UNCHANGED <<inst, enabled, status>>
       \/ /\ inst[a] = None
          /\ inst' = [inst EXCEPT ![a] = r]
          /\ \E on \in BOOLEAN :
                /\ enabled' = [enabled EXCEPT ![a] = on]
                /\ status' = [status EXCEPT ![a] = IF on THEN "STOPPED" ELSE "DISABLED"]
    /\ UNCHANGED <<exec, world, sessions, queue, loop>>

\* Requests that do nothing before they ask for the lock
Arrive(r, a, k) ==
    /\ pc[r] = "idle" /\ loop = None
    /\ k \in Actions \cup {"update", "delete"}
    /\ kind' = [kind EXCEPT ![r] = k] /\ app' = [app EXCEPT ![r] = a]
    /\ Enqueue(r, a)
    /\ UNCHANGED <<database, world, sessions>>

\* Faulty variant of Update: the handler does not take the lock
UpdateUnlocked(r) ==
    /\ pc[r] = "queued" /\ kind[r] = "update" /\ MayRun(r)
    /\ \/ UNCHANGED enabled
       \/ /\ inst[app[r]] # None
          /\ status[app[r]] \notin ActiveStatuses
          /\ \E on \in BOOLEAN : enabled' = [enabled EXCEPT ![app[r]] = on]
    /\ queue' = [queue EXCEPT ![app[r]] = SelectSeq(@, LAMBDA q : q # r)]
    /\ Goto(r, "done") /\ loop' = None
    /\ UNCHANGED <<inst, status, exec, world, request, sessions>>

\* PUT /applications/{id}: the whole handler runs under the lock, without await
Update(r) ==
    /\ pc[r] = "queued" /\ kind[r] = "update" /\ MayRun(r) /\ Holds(r)
    /\ \/ UNCHANGED enabled                              \* invalid manifest, not found, active
       \/ /\ inst[app[r]] # None
          /\ status[app[r]] \notin ActiveStatuses
          /\ \E on \in BOOLEAN : enabled' = [enabled EXCEPT ![app[r]] = on]
    /\ Release(r, "done")
    /\ UNCHANGED <<inst, status, exec, world, request, seen, seenInst>>

\* DELETE /applications/{id}: the instance row goes with the registry row
Delete(r) ==
    /\ pc[r] = "queued" /\ kind[r] = "delete" /\ MayRun(r) /\ Holds(r)
    /\ IF inst[app[r]] # None /\ status[app[r]] \notin ActiveStatuses
       THEN /\ inst' = [inst EXCEPT ![app[r]] = None]
            /\ enabled' = [enabled EXCEPT ![app[r]] = FALSE]
            /\ status' = [status EXCEPT ![app[r]] = "STOPPED"]
       ELSE UNCHANGED <<inst, enabled, status>>
    /\ Release(r, "done")
    /\ UNCHANGED <<exec, world, request, seen, seenInst>>

-----------------------------------------------------------------------------
(* Status and log requests: the rows are read before the lock is asked for  *)

ReadBeforeLock(r, a, k) ==
    /\ pc[r] = "idle" /\ loop = None
    /\ k \in {"status", "logs"}
    /\ kind' = [kind EXCEPT ![r] = k] /\ app' = [app EXCEPT ![r] = a]
    /\ \/ /\ Goto(r, "done")                             \* not found, invalid configuration
          /\ UNCHANGED <<status, seen, seenInst, queue, loop>>
       \/ /\ inst[a] # None /\ k = "status" /\ ~enabled[a]
          /\ status' = [status EXCEPT ![a] = "DISABLED"]
          /\ Goto(r, "done")
          /\ UNCHANGED <<seen, seenInst, queue, loop>>
       \/ /\ inst[a] # None /\ (enabled[a] \/ k = "logs")
          /\ SetSeen(r, status[a])
          /\ seenInst' = [seenInst EXCEPT ![r] = inst[a]]
          /\ Enqueue(r, a)
          /\ UNCHANGED status
    /\ UNCHANGED <<inst, enabled, exec, world, obs>>

AskAdapter(r) ==
    /\ pc[r] = "queued" /\ kind[r] \in {"status", "logs"} /\ MayRun(r) /\ Holds(r)
    /\ Await(r, "observe")
    /\ UNCHANGED <<database, world, sessions, request, queue>>

\* What adapter.status() may return
Observations(a) == {runtime[a], "UNKNOWN"}

\* _apply_runtime_state: overwrite the status whatever it is, commit, refresh.
\* The commit fails when the row r read is gone.
Reconcile(r) ==
    /\ pc[r] = "observe" /\ kind[r] = "status" /\ loop = None
    /\ \/ /\ inst[app[r]] # seenInst[r]
          /\ Release(r, "raised")
          /\ UNCHANGED <<status, seen>>
       \/ /\ inst[app[r]] = seenInst[r]
          /\ \E s \in Observations(app[r]) :
                /\ WriteStatus(r, s)
                /\ obs' = [obs EXCEPT ![r] = s]
          /\ SetSeen(r, status'[app[r]])
          /\ Continue(r, "reconciled")
          /\ UNCHANGED queue
    /\ UNCHANGED <<inst, enabled, exec, world, request, seenInst>>

\* The locked region ends; for logs, with the lines or LOG_READ_FAILED
Answer(r) ==
    /\ MayRun(r)
    /\ \/ pc[r] = "reconciled"
       \/ pc[r] = "observe" /\ kind[r] = "logs"
    /\ Release(r, "done")
    /\ UNCHANGED <<database, world, request, seen, seenInst>>

-----------------------------------------------------------------------------
(* Lifecycle actions                                                        *)

\* Statuses in which an action is refused before an execution is recorded
Refused(k, s) ==
    IF k = "start" THEN s \in {"RUNNING", "STARTING", "CHECKING"}
                   ELSE s \in {"STOPPED", "DISABLED"}

Reject(r) ==
    /\ pc[r] = "queued" /\ kind[r] \in Actions /\ MayRun(r) /\ Holds(r)
    /\ Release(r, "done")                                \* APP_NOT_FOUND, CONFIG_INVALID,
    /\ UNCHANGED <<database, world, request, seen, seenInst>>   \* APP_DISABLED, Refused

\* Read the rows under the lock and record the execution
Accept(r) ==
    LET a == app[r] IN
    /\ pc[r] = "queued" /\ kind[r] \in Actions /\ MayRun(r) /\ Holds(r)
    /\ inst[a] # None /\ enabled[a] /\ ~Refused(kind[r], status[a])
    /\ SetSeen(r, status[a])
    /\ seenInst' = [seenInst EXCEPT ![r] = inst[a]]
    /\ exec' = [exec EXCEPT ![r] = "RUNNING"]
    /\ IF kind[r] = "stop" THEN Continue(r, "transition") ELSE Await(r, "ports")
    /\ UNCHANGED <<inst, enabled, status, world, request, queue, obs>>

\* The port check of start and restart returns
PortsChecked(r) ==
    /\ pc[r] = "ports" /\ loop = None
    /\ \/ Continue(r, "transition") /\ UNCHANGED <<exec, queue, obs>>
       \/ Finish(r, "FAILED") /\ Release(r, "done")      \* conflict, or discovery unavailable
    /\ UNCHANGED <<inst, enabled, status, world, request, seen, seenInst>>

FirstTarget(k) == CASE k = "start"   -> "CHECKING"
                    [] k = "stop"    -> "STOPPING"
                    [] k = "restart" -> "STARTING"

\* The first status the action announces; for stop and restart the adapter is called
Transition(r) ==
    LET target == FirstTarget(kind[r]) IN
    /\ pc[r] = "transition" /\ MayRun(r)
    /\ \/ /\ ~MayBecome(seen[r], target)                 \* STATE_TRANSITION_INVALID
          /\ Finish(r, "FAILED") /\ Release(r, "done")
          /\ UNCHANGED <<status, seen, job>>
       \/ /\ MayBecome(seen[r], target)
          /\ WriteStatus(r, target) /\ SetSeen(r, target)
          /\ IF kind[r] = "start"
             THEN Continue(r, "checked") /\ UNCHANGED job
             ELSE Await(r, "op") /\ job' = [job EXCEPT ![app[r]] = kind[r]]
          /\ UNCHANGED <<exec, queue, obs>>
    /\ UNCHANGED <<inst, enabled, runtime, request, seenInst>>

\* start announces STARTING in a second commit, then calls the adapter
AnnounceStarting(r) ==
    /\ pc[r] = "checked" /\ MayRun(r)
    /\ WriteStatus(r, "STARTING") /\ SetSeen(r, "STARTING")
    /\ job' = [job EXCEPT ![app[r]] = kind[r]]
    /\ Await(r, "op")
    /\ UNCHANGED <<inst, enabled, exec, runtime, request, seenInst, queue, obs>>

\* The adapter reports success: the runtime manager has carried out the operation
OpSucceeds(r) ==
    /\ pc[r] = "op" /\ loop = None
    /\ job[app[r]] = None
    /\ Await(r, "confirm")
    /\ UNCHANGED <<database, world, sessions, request, queue>>

\* The adapter reports failure.  After RUNTIME_TIMEOUT the manager may still
\* carry the operation out.  FAILED is written whatever the status was.
OpFails(r) ==
    /\ pc[r] = "op" /\ loop = None
    /\ job' \in {job, [job EXCEPT ![app[r]] = None]}
    /\ WriteStatus(r, "FAILED") /\ SetSeen(r, "FAILED")
    /\ Continue(r, "failed")
    /\ UNCHANGED <<inst, enabled, exec, runtime, request, seenInst, queue, obs>>

\* Faulty variant of OpRaises: the exception leaves the lock locked
OpRaisesLocked(r) ==
    /\ pc[r] = "op" /\ loop = None /\ kind[r] \in {"start", "restart"}
    /\ job' = [job EXCEPT ![app[r]] = None]
    /\ Await(r, "raised")
    /\ UNCHANGED <<database, runtime, request, sessions, queue>>

\* Writing the unit file raises an OSError, which nothing catches: the lock is
\* released and neither the status nor the execution is touched
OpRaises(r) ==
    /\ pc[r] = "op" /\ loop = None /\ kind[r] \in {"start", "restart"}
    /\ job' = [job EXCEPT ![app[r]] = None]
    /\ Release(r, "raised")
    /\ UNCHANGED <<database, runtime, request, seen, seenInst>>

FinishFailed(r) ==
    /\ pc[r] = "failed" /\ MayRun(r)
    /\ Finish(r, "FAILED") /\ Release(r, "done")
    /\ UNCHANGED <<inst, enabled, status, world, request, seen, seenInst>>

\* The runtime is asked again and its answer becomes the status
Confirm(r) ==
    /\ pc[r] = "confirm" /\ loop = None
    /\ \E s \in Observations(app[r]) :
          /\ WriteStatus(r, s)
          /\ obs' = [obs EXCEPT ![r] = s]
    /\ SetSeen(r, status'[app[r]])
    /\ Continue(r, "applied")
    /\ UNCHANGED <<inst, enabled, exec, world, request, seenInst, queue>>

Expected(k) == IF k = "stop" THEN {"STOPPED"} ELSE {"STARTING", "RUNNING", "UNHEALTHY"}

\* Faulty variant of FinishConfirmed: success is taken from the command alone
FinishUnconfirmed(r) ==
    /\ pc[r] = "applied" /\ MayRun(r)
    /\ Finish(r, "SUCCEEDED")
    /\ Release(r, "done")
    /\ UNCHANGED <<inst, enabled, status, world, request, seen, seenInst>>

FinishConfirmed(r) ==
    /\ pc[r] = "applied" /\ MayRun(r)
    /\ Finish(r, IF seen[r] \in Expected(kind[r]) THEN "SUCCEEDED" ELSE "FAILED")
    /\ Release(r, "done")
    /\ UNCHANGED <<inst, enabled, status, world, request, seen, seenInst>>

-----------------------------------------------------------------------------
(* The runtime, and the death of the process                                *)

JobOutcomes(k) == CASE k = "start"   -> {"STARTING", "RUNNING", "FAILED"}
                    [] k = "stop"    -> {"STOPPING", "STOPPED", "FAILED"}
                    [] k = "restart" -> {"STARTING", "RUNNING", "STOPPED", "FAILED"}

RunJob(a) ==
    /\ job[a] # None
    /\ \E s \in JobOutcomes(job[a]) : runtime' = [runtime EXCEPT ![a] = s]
    /\ job' = [job EXCEPT ![a] = None]
    /\ UNCHANGED <<database, sessions, request, queue, loop, pc>>

\* What an application does on its own; nothing starts by itself
Drifts == [s \in RuntimeStates |->
              CASE s = "STARTING"  -> {"RUNNING", "FAILED"}
                [] s = "RUNNING"   -> {"STARTING", "UNHEALTHY", "STOPPED", "FAILED"}
                [] s = "UNHEALTHY" -> {"RUNNING", "STOPPED", "FAILED"}
                [] s = "STOPPING"  -> {"STOPPED", "FAILED"}
                [] s = "STOPPED"   -> {}
                [] s = "FAILED"    -> {}]

Drift(a) ==
    /\ \E s \in Drifts[runtime[a]] : runtime' = [runtime EXCEPT ![a] = s]
    /\ UNCHANGED <<database, job, sessions, request, queue, loop, pc>>

\* Faulty variant of Crash: startup closes open executions and leaves the statuses
CrashSweep ==
    /\ \E r \in Requests : pc[r] \notin Ended \cup {"idle"}
    /\ pc' = [r \in Requests |-> IF pc[r] \in Ended \cup {"idle"} THEN pc[r] ELSE "lost"]
    /\ queue' = [a \in Apps |-> <<>>] /\ loop' = None
    /\ obs' = [r \in Requests |-> None]
    /\ exec' = [r \in Requests |-> IF exec[r] = "RUNNING" THEN "FAILED" ELSE exec[r]]
    /\ UNCHANGED <<inst, enabled, status, world, request, seen, seenInst>>

\* The process dies, at any point, also between two commits of one handler, and
\* is started again.  Startup touches no status and no execution.
Crash ==
    /\ \E r \in Requests : pc[r] \notin Ended \cup {"idle"}
    /\ pc' = [r \in Requests |-> IF pc[r] \in Ended \cup {"idle"} THEN pc[r] ELSE "lost"]
    /\ queue' = [a \in Apps |-> <<>>]
    /\ loop' = None
    /\ obs' = [r \in Requests |-> None]
    /\ \E unsent \in SUBSET Apps :
          job' = [a \in Apps |-> IF a \in unsent THEN None ELSE job[a]]
    /\ UNCHANGED <<database, runtime, request, seen, seenInst>>

-----------------------------------------------------------------------------
(* The specification                                                        *)

\* A database with or without the application, its status in step with the runtime
Init ==
    /\ inst \in [Apps -> {None, Initial}]
    /\ runtime \in [Apps -> {"STOPPED", "RUNNING"}]
    /\ enabled \in [Apps -> BOOLEAN]
    /\ \A a \in Apps : inst[a] = None \/ ~enabled[a] => runtime[a] = "STOPPED"
    /\ \A a \in Apps : inst[a] = None => ~enabled[a]
    /\ status = [a \in Apps |-> IF inst[a] # None /\ ~enabled[a] THEN "DISABLED" ELSE runtime[a]]
    /\ exec = [r \in Requests |-> "none"]
    /\ job = [a \in Apps |-> None]
    /\ queue = [a \in Apps |-> <<>>]
    /\ loop = None
    /\ pc = [r \in Requests |-> "idle"]
    /\ kind = [r \in Requests |-> "status"]
    /\ app = [r \in Requests |-> CHOOSE a \in Apps : TRUE]
    /\ seen = [r \in Requests |-> "STOPPED"]
    /\ seenInst = [r \in Requests |-> None]
    /\ obs = [r \in Requests |-> None]

\* What the server does with r once it has arrived
Serve(r) ==
    \/ Update(r) \/ Delete(r)
    \/ AskAdapter(r) \/ Reconcile(r) \/ Answer(r)
    \/ Reject(r) \/ Accept(r) \/ PortsChecked(r) \/ Transition(r) \/ AnnounceStarting(r)
    \/ OpSucceeds(r) \/ OpFails(r) \/ OpRaises(r) \/ FinishFailed(r)
    \/ Confirm(r) \/ FinishConfirmed(r)

Submit(r) ==
    \E a \in Apps :
        \/ Create(r, a)
        \/ \E k \in Kinds : Arrive(r, a, k)
        \/ \E k \in Kinds : ReadBeforeLock(r, a, k)

\* Nobody asks for anything any more
Quiet == (\A r \in Requests : pc[r] \in Ended) /\ UNCHANGED vars

Next ==
    \/ \E r \in Requests : Submit(r) \/ Serve(r)
    \/ \E a \in Apps : RunJob(a) \/ Drift(a)
    \/ Crash
    \/ Quiet

\* The event loop resumes every request whose await completes, and every await
\* completes: commands are killed after their timeout
Fairness == \A r \in Requests : WF_vars(Serve(r))

Spec == Init /\ [][Next]_vars
FairSpec == Spec /\ Fairness

-----------------------------------------------------------------------------
(* Properties                                                               *)

\* Every variable has the values its column, attribute or local can have.
TypeOK ==
    /\ inst \in [Apps -> Requests \cup {None, Initial}]
    /\ enabled \in [Apps -> BOOLEAN]
    /\ status \in [Apps -> Statuses]
    /\ exec \in [Requests -> {"none", "RUNNING", "SUCCEEDED", "FAILED"}]
    /\ runtime \in [Apps -> RuntimeStates]
    /\ job \in [Apps -> Actions \cup {None}]
    /\ queue \in [Apps -> Seq(Requests)]
    /\ loop \in Requests \cup {None}
    /\ pc \in [Requests -> Points]
    /\ kind \in [Requests -> Kinds]
    /\ app \in [Requests -> Apps]
    /\ seen \in [Requests -> Statuses]
    /\ seenInst \in [Requests -> Requests \cup {None, Initial}]
    /\ obs \in [Requests -> Statuses \cup {None}]

\* While a lifecycle action is under way, across all its awaits, the row it read
\* is still the row of a registered and enabled application, and the status in
\* its session is the status in the database: LifecycleService.action never
\* decides on, or writes over, something another request has changed.
ActionRowCurrent ==
    \A r \in Requests : pc[r] \in InAction =>
        /\ inst[app[r]] # None
        /\ inst[app[r]] = seenInst[r]
        /\ enabled[app[r]]
        /\ status[app[r]] = seen[r]

\* At most one request is in the locked region of an application: two actions
\* never drive the same runtime at once (ApplicationLockRegistry).
OneHolderPerApplication ==
    \A r1, r2 \in Requests :
        pc[r1] \in Holding /\ pc[r2] \in Holding /\ app[r1] = app[r2] => r1 = r2

\* CHECKING is announced and left without an await in between, so it can be found
\* in the database only while, or because, a start is unfinished: there is an
\* execution row that says RUNNING for it.
CheckingIsExplained ==
    \A a \in Apps : status[a] = "CHECKING" =>
        \E r \in Requests : app[r] = a /\ kind[r] = "start" /\ exec[r] = "RUNNING"

\* An execution becomes SUCCEEDED only while the database shows, and the runtime
\* has just reported, a status the action was meant to reach.
SuccessIsConfirmed ==
    [][\A r \in Requests : exec[r] = "RUNNING" /\ exec'[r] = "SUCCEEDED" =>
           /\ status[app[r]] = obs[r]
           /\ obs[r] \in Expected(kind[r])]_vars

\* Every request that has arrived is answered, or lost with the process: no path
\* through a handler leaves the lock of an application locked.
EveryRequestEnds ==
    \A r \in Requests : pc[r] \notin Ended \cup {"idle"} ~> pc[r] \in Ended

\* Registry and lifecycle service implement serial operations: an operation is
\* under way from the commit of its execution row to the end of its locked region.
UnderWay(a) == {r \in Requests : app[r] = a /\ pc[r] \in InAction}

Operation == [a \in Apps |-> IF UnderWay(a) = {} THEN None ELSE CHOOSE r \in UnderWay(a) : TRUE]

Serial == INSTANCE SerialOperations WITH
              Operations <- Requests, row <- inst, on <- enabled,
              busy <- Operation, result <- exec

SerialSpec == Serial!Spec

=============================================================================
