----------------------------- MODULE ModelRuntime -----------------------------
(***************************************************************************)
(* The speech server's model lifecycle (transcription/model_runtime.py):   *)
(* one active model generation, replaced under load, retired generations   *)
(* that drain their session leases, and a shutdown that joins all of it.   *)
(*                                                                         *)
(* A step is a stretch of code between two awaits of the event loop, or    *)
(* one critical section of `_state_lock` (leases are released, and models  *)
(* loaded and unloaded, on worker threads).  Every generation number is    *)
(* also the identity of the native model prepared under that number.       *)
(***************************************************************************)
EXTENDS Naturals, FiniteSets

CONSTANTS Tasks,          \* asyncio tasks that call the preparation methods
          Sessions,       \* session leases; each is opened at most once
          Configs,        \* model configurations
          InitialConfig,  \* the configuration `start` prepares
          MaxGen,         \* bound: generations prepared in a behaviour
          MaxCancels,     \* bound: task cancellations in a behaviour
          None            \* Python's None, where a task is expected

NoGen == 0
Gens == 1..MaxGen

ASSUME ConstantsAssumption ==
    /\ IsFiniteSet(Sessions)
    /\ InitialConfig \in Configs
    /\ MaxGen \in Nat
    /\ MaxCancels \in Nat
    /\ None \notin Tasks

VARIABLES
    status,           \* _status: kind, the current generation it reports, progress
    active,           \* _active
    draining,         \* keys of _draining
    nextGen,          \* _next_generation
    preparingGen,     \* _preparing_generation
    preparationTask,  \* _preparation_task
    prepareLock,      \* the task that holds _prepare_lock
    reserved,         \* _preparation_reserved
    shuttingDown,     \* _shutting_down
    config, leases, retired, started, complete,  \* the fields of _Generation
    native,           \* native model of each generation, as its threads see it
    calls,            \* number of PreparedModel.shutdown calls per generation
    forced,           \* generations unloaded by shutdown although leased
    pc, job,          \* per task: where it awaits, and its call
    lease, leaseState,\* per session: pinned generation and state of its lease
    sd, sdJoin, sdQueue,   \* the shutdown call
    disk, memory,     \* configuration persisted, and published in memory
    cancels

prepVars == <<preparingGen, preparationTask, prepareLock, reserved>>
coreVars == <<status, active, draining, nextGen, shuttingDown>>
runtimeVars == <<coreVars, prepVars>>
genVars  == <<config, leases, retired, started, complete>>
nativeVars == <<native, calls, forced>>
taskVars == <<pc, job>>
leaseVars == <<lease, leaseState>>
sdVars   == <<sd, sdJoin, sdQueue>>
hookVars == <<disk, memory>>
outerVars == <<leaseVars, sdVars, hookVars>>
modelVars == <<genVars, nativeVars>>
vars == <<runtimeVars, genVars, nativeVars, taskVars, leaseVars, sdVars,
          hookVars, cancels>>

NoJob == [kind |-> "none", want |-> InitialConfig, gen |-> NoGen,
          old |-> NoGen, outcome |-> "return"]

(* The status values: contracts.py's Starting, Preparing, Ready, Failed and *)
(* Stopping, reduced to the generation they report as current and the      *)
(* generation whose progress event a Preparing status shows.               *)
StatusOfNext(kind, current) == [kind |-> kind, current |-> current + 1, progress |-> NoGen]
StatusOf(kind, current) == [kind |-> kind, current |-> current, progress |-> NoGen]

\* factory.runtime_accepts_sessions
Accepts(st) == \/ st.kind = "ready"
               \/ st.kind \in {"preparing", "failed"} /\ st.current # NoGen

Init ==
    /\ status = StatusOf("starting", NoGen)
    /\ active = NoGen /\ draining = {} /\ nextGen = 0 /\ preparingGen = NoGen
    /\ preparationTask = None /\ prepareLock = None
    /\ reserved = FALSE /\ shuttingDown = FALSE
    /\ config = [g \in Gens |-> InitialConfig]
    /\ leases = [g \in Gens |-> 0]
    /\ retired = [g \in Gens |-> FALSE]
    /\ started = [g \in Gens |-> FALSE]
    /\ complete = [g \in Gens |-> FALSE]
    /\ native = [g \in Gens |-> "none"]
    /\ calls = [g \in Gens |-> 0]
    /\ forced = [g \in Gens |-> FALSE]
    /\ pc = [t \in Tasks |-> "idle"]
    /\ job = [t \in Tasks |-> NoJob]
    /\ lease = [s \in Sessions |-> NoGen]
    /\ leaseState = [s \in Sessions |-> "none"]
    /\ sd = "idle" /\ sdJoin = None /\ sdQueue = {}
    /\ disk = InitialConfig /\ memory = InitialConfig
    /\ cancels = 0

-----------------------------------------------------------------------------
(* Native models.  A worker thread finishes loading or unloading a model.  *)

NativeLoad(g) ==
    /\ native[g] = "loading"
    /\ \E outcome \in {"loaded", "failed"} : native' = [native EXCEPT ![g] = outcome]
    /\ UNCHANGED <<runtimeVars, genVars, calls, forced, taskVars, outerVars, cancels>>

NativeUnload(g) ==
    /\ native[g] = "unloading"
    /\ native' = [native EXCEPT ![g] = "unloaded"]
    /\ UNCHANGED <<runtimeVars, genVars, calls, forced, taskVars, outerVars, cancels>>

\* PreparedModel.shutdown is called: only the first call unloads the engine.
CallShutdown(g) ==
    /\ calls' = [calls EXCEPT ![g] = @ + 1]
    /\ native' = [native EXCEPT ![g] = IF @ = "loaded" THEN "unloading" ELSE @]

AcceptsProgress(g) == ~shuttingDown /\ status.kind = "preparing" /\ preparingGen = g

\* _accept_progress: the sink given to generation g's loader delivers an event.
Progress(g) ==
    /\ g <= nextGen
    /\ AcceptsProgress(g)
    /\ status' = [status EXCEPT !.progress = g]
    /\ UNCHANGED <<active, draining, nextGen, prepVars, shuttingDown, modelVars, taskVars,
                   outerVars, cancels>>

-----------------------------------------------------------------------------
(* Preparation and activation.                                             *)

Call(t, kind, want) ==
    /\ pc[t] = "idle"
    /\ ~shuttingDown
    /\ pc' = [pc EXCEPT ![t] = "queued"]
    /\ job' = [job EXCEPT ![t] = [NoJob EXCEPT !.kind = kind, !.want = want]]
    /\ UNCHANGED <<coreVars, preparingGen, preparationTask, prepareLock, modelVars, outerVars,
                   cancels>>

\* start; a caller that finds a preparation in flight only waits for it.
Start(t) ==
    /\ active = NoGen /\ preparationTask = None
    /\ Call(t, "initial", InitialConfig)
    /\ UNCHANGED reserved

\* prepare_and_activate
PrepareAndActivate(t, c) ==
    /\ ~(active = NoGen /\ preparationTask # None)
    /\ Call(t, "direct", c)
    /\ UNCHANGED reserved

\* schedule_prepare_and_activate
Schedule(t, c) ==
    /\ ~reserved /\ preparationTask = None
    /\ Call(t, "scheduled", c)
    /\ reserved' = TRUE

\* The `finally` blocks of _prepare_and_activate and _run_reserved_replacement.
Finish(t) ==
    /\ preparationTask' = IF preparationTask = t THEN None ELSE preparationTask
    /\ preparingGen' = IF preparingGen = job[t].gen THEN NoGen ELSE preparingGen
    /\ prepareLock' = IF prepareLock = t THEN None ELSE prepareLock
    /\ reserved' = (reserved /\ job[t].kind # "scheduled")
    /\ pc' = [pc EXCEPT ![t] = "idle"]
    /\ job' = [job EXCEPT ![t] = NoJob]

\* A task that obtains _prepare_lock and finds nothing to prepare returns or raises.
AdmitNothing(t) ==
    /\ pc[t] = "queued" /\ prepareLock = None
    /\ shuttingDown \/ (job[t].kind = "initial" /\ active # NoGen)
    /\ Finish(t)
    /\ UNCHANGED <<coreVars, modelVars, outerVars, cancels>>

SameConfig(t) ==
    job[t].kind # "initial" /\ active # NoGen /\ config[active] = job[t].want

AdmitSame(t) ==
    /\ pc[t] = "queued" /\ prepareLock = None /\ ~shuttingDown
    /\ active # NoGen /\ SameConfig(t)
    /\ prepareLock' = t
    /\ pc' = [pc EXCEPT ![t] = "samePersist"]
    /\ UNCHANGED <<coreVars, preparingGen, preparationTask, reserved, modelVars, job, outerVars,
                   cancels>>

\* A new generation number, the Preparing status, and the loader thread.
AdmitNew(t) ==
    /\ pc[t] = "queued" /\ prepareLock = None /\ ~shuttingDown
    /\ ~(job[t].kind = "initial" /\ active # NoGen) /\ ~SameConfig(t)
    /\ nextGen < MaxGen
    /\ nextGen' = nextGen + 1
    /\ status' = StatusOf("preparing", active)
    /\ preparingGen' = nextGen'
    /\ preparationTask' = t /\ prepareLock' = t
    /\ config' = [config EXCEPT ![nextGen'] = job[t].want]
    /\ native' = [native EXCEPT ![nextGen'] = "loading"]
    /\ pc' = [pc EXCEPT ![t] = "prepare"]
    /\ job' = [job EXCEPT ![t].gen = nextGen']
    /\ UNCHANGED <<active, draining, reserved, shuttingDown, leases, retired, started, complete,
                   calls, forced, outerVars, cancels>>

\* The persist hook of an unchanged configuration; its failure is the call's.
SamePersist(t) ==
    /\ pc[t] = "samePersist"
    /\ \/ /\ disk' = job[t].want
          /\ pc' = [pc EXCEPT ![t] = "samePublish"]
          /\ UNCHANGED <<job, prepVars>>
       \/ Finish(t) /\ UNCHANGED disk
    /\ UNCHANGED <<coreVars, modelVars, leaseVars, sdVars, memory, cancels>>

SamePublish(t) ==
    /\ pc[t] = "samePublish"
    /\ IF shuttingDown
       THEN UNCHANGED <<memory, status>>
       ELSE /\ memory' = job[t].want
            /\ status' = IF active # NoGen THEN StatusOf("ready", active) ELSE status
    /\ Finish(t)
    /\ UNCHANGED <<active, draining, nextGen, shuttingDown, modelVars, leaseVars, sdVars, disk,
                   cancels>>

\* `await self._discard(prepared)`, then the rest of the call's outcome.
GoDiscard(t, outcome) ==
    /\ CallShutdown(job[t].gen)
    /\ pc' = [pc EXCEPT ![t] = "discard"]
    /\ job' = [job EXCEPT ![t].outcome = outcome]

OutcomeForgets(outcome) ==
    IF shuttingDown \/ outcome = "return" THEN status ELSE StatusOf("failed", NoGen)

\* What the except clauses leave in _status when the call raises.
OutcomeStatus(outcome) ==
    IF shuttingDown \/ outcome = "return" THEN status
    ELSE IF outcome = "error" THEN StatusOf("failed", active)
    ELSE IF active # NoGen THEN StatusOf("ready", active) ELSE status

PrepareReturns(t) ==
    /\ pc[t] = "prepare"
    /\ \/ /\ native[job[t].gen] = "failed"
          /\ status' = OutcomeStatus("error")
          /\ Finish(t)
          /\ UNCHANGED <<native, calls>>
       \/ /\ native[job[t].gen] = "loaded"
          /\ IF shuttingDown THEN GoDiscard(t, "return")
             ELSE /\ pc' = [pc EXCEPT ![t] = "persist"]
                  /\ UNCHANGED <<job, native, calls>>
          /\ UNCHANGED <<status, prepVars>>
    /\ UNCHANGED <<active, draining, nextGen, shuttingDown, genVars, forced, outerVars, cancels>>

\* The persist hook; `start` has none.
Writes(t) == disk' = IF job[t].kind = "initial" THEN disk ELSE job[t].want

Persist(t) ==
    /\ pc[t] = "persist"
    /\ \/ /\ Writes(t)
          /\ pc' = [pc EXCEPT ![t] = "activate"]
          /\ UNCHANGED <<job, native, calls>>
       \/ /\ job[t].kind # "initial"
          /\ GoDiscard(t, "error")
          /\ UNCHANGED disk
    /\ UNCHANGED <<runtimeVars, genVars, forced, leaseVars, sdVars, memory, cancels>>

\* One critical section publishes the settings, swaps _active and retires the old.
Activate(t) ==
    /\ pc[t] = "activate"
    /\ IF shuttingDown
       THEN /\ GoDiscard(t, "return")
            /\ UNCHANGED <<memory, active, status, retired, draining>>
       ELSE /\ memory' = IF job[t].kind = "initial" THEN memory ELSE job[t].want
            /\ active' = job[t].gen
            /\ status' = StatusOf("ready", job[t].gen)
            /\ pc' = [pc EXCEPT ![t] = "retire"]
            /\ job' = [job EXCEPT ![t].old = active]
            /\ retired' = [g \in Gens |-> retired[g] \/ g = active]
            /\ draining' = IF active # NoGen /\ leases[active] > 0
                           THEN draining \cup {active} ELSE draining
            /\ UNCHANGED <<native, calls>>
    /\ UNCHANGED <<nextGen, prepVars, shuttingDown, config, leases, started, complete, forced,
                   leaseVars, sdVars, disk, cancels>>

ClaimAgain(g) == started' = [started EXCEPT ![g] = TRUE] /\ CallShutdown(g)
\* _shutdown_generation(g): claim the native shutdown, or wait for its owner.
Claim(g) ==
    IF started[g] THEN UNCHANGED <<started, native, calls>>
    ELSE started' = [started EXCEPT ![g] = TRUE] /\ CallShutdown(g)

MarkOnlyDrained(g) == draining' = draining \ {g} /\ UNCHANGED complete
\* The `finally` of a native shutdown.
MarkComplete(g) ==
    draining' = draining \ {g} /\ complete' = [complete EXCEPT ![g] = TRUE]

IdleUnchecked(g) == g \in Gens
Idle(g) == leases[g] = 0

\* `old.leases == 0` is read after the critical section that retired it.
Retire(t) ==
    /\ pc[t] = "retire"
    /\ LET old == job[t].old IN
       IF old # NoGen /\ Idle(old)
       THEN /\ Claim(old)
            /\ pc' = [pc EXCEPT ![t] = IF started[old] THEN "waitOld" ELSE "unloadOld"]
            /\ UNCHANGED <<job, prepVars>>
       ELSE Finish(t) /\ UNCHANGED <<started, native, calls>>
    /\ UNCHANGED <<coreVars, config, leases, retired, complete, forced, outerVars, cancels>>

UnloadOldDone(t) ==
    /\ pc[t] = "unloadOld" /\ native[job[t].old] = "unloaded"
    /\ MarkComplete(job[t].old)
    /\ Finish(t)
    /\ UNCHANGED <<status, active, nextGen, shuttingDown, config, leases, retired, started,
                   nativeVars, outerVars, cancels>>

WaitOldDone(t) ==
    /\ pc[t] = "waitOld" /\ complete[job[t].old]
    /\ Finish(t)
    /\ UNCHANGED <<coreVars, modelVars, outerVars, cancels>>

\* A second shutdown call, after a cancelled first one, returns at once.
DiscardDone(t) ==
    /\ pc[t] = "discard"
    /\ native[job[t].gen] = "unloaded" \/ calls[job[t].gen] > 1
    /\ status' = OutcomeStatus(job[t].outcome)
    /\ Finish(t)
    /\ UNCHANGED <<active, draining, nextGen, shuttingDown, modelVars, outerVars, cancels>>

-----------------------------------------------------------------------------
(* Cancellation of a preparing task, at each await (once per call).        *)

CancelBudget(t) == cancels < MaxCancels /\ job[t].outcome # "cancel" /\ cancels' = cancels + 1

\* A hook being awaited may or may not have written the settings file.
CancelledHook(t) == disk' \in {disk, job[t].want}

CancelQueued(t) ==
    /\ pc[t] \in {"queued", "samePersist"}
    /\ CancelBudget(t)
    /\ IF pc[t] = "samePersist" THEN CancelledHook(t) ELSE UNCHANGED disk
    /\ Finish(t)
    /\ UNCHANGED <<coreVars, modelVars, leaseVars, sdVars, memory>>

\* A scheduled task cancelled before its first step never enters the `try`
\* whose `finally` gives the reservation back.
CancelUnstarted(t) ==
    /\ pc[t] = "queued" /\ job[t].kind = "scheduled"
    /\ CancelBudget(t)
    /\ pc' = [pc EXCEPT ![t] = "idle"]
    /\ job' = [job EXCEPT ![t] = NoJob]
    /\ UNCHANGED <<runtimeVars, modelVars, outerVars>>

\* The worker cannot be cancelled: the handler waits for it and discards its result.
CancelPrepare(t) ==
    /\ pc[t] = "prepare"
    /\ CancelBudget(t)
    /\ pc' = [pc EXCEPT ![t] = "joinNative"]
    /\ job' = [job EXCEPT ![t].outcome = "cancel"]
    /\ UNCHANGED <<runtimeVars, modelVars, outerVars>>

\* Cancelled after the worker has finished but before the task resumes:
\* _prepare_native's `finally` has already forgotten the worker, so the handler
\* finds neither a result nor a worker to wait for.
CancelPrepareLate(t) ==
    /\ pc[t] = "prepare" /\ native[job[t].gen] \in {"loaded", "failed"}
    /\ CancelBudget(t)
    /\ status' = OutcomeStatus("cancel")
    /\ Finish(t)
    /\ UNCHANGED <<active, draining, nextGen, shuttingDown, modelVars, outerVars>>

JoinNative(t) ==
    /\ pc[t] = "joinNative"
    /\ \/ /\ native[job[t].gen] = "failed"
          /\ status' = OutcomeStatus("cancel")
          /\ Finish(t)
          /\ UNCHANGED <<native, calls>>
       \/ /\ native[job[t].gen] = "loaded"
          /\ GoDiscard(t, "cancel")
          /\ UNCHANGED <<status, prepVars>>
    /\ UNCHANGED <<active, draining, nextGen, shuttingDown, genVars, forced, outerVars, cancels>>

\* Cancelled while the persist hook, or the discard of a stopping runtime, is awaited.
CancelDiscard(t) ==
    /\ \/ pc[t] = "persist" /\ job[t].kind # "initial" /\ CancelledHook(t)
       \/ pc[t] = "discard" /\ job[t].outcome = "return" /\ UNCHANGED disk
    /\ CancelBudget(t)
    /\ GoDiscard(t, "cancel")
    /\ UNCHANGED <<runtimeVars, genVars, forced, leaseVars, sdVars, memory>>

\* Cancelled inside an except clause: what is left of the clause is skipped.
CancelFailing(t) ==
    /\ pc[t] = "discard" /\ job[t].outcome = "error"
    /\ CancelBudget(t)
    /\ Finish(t)
    /\ UNCHANGED <<coreVars, modelVars, outerVars>>

\* Cancelled after activation: the unload goes on in its thread, but the
\* `finally` of _shutdown_generation already reports it complete.
CancelRetire(t) ==
    /\ pc[t] \in {"unloadOld", "waitOld"}
    /\ CancelBudget(t)
    /\ IF pc[t] = "unloadOld"
       THEN MarkComplete(job[t].old)
       ELSE UNCHANGED <<draining, complete>>
    /\ status' = OutcomeStatus("cancel")
    /\ Finish(t)
    /\ UNCHANGED <<active, nextGen, shuttingDown, config, leases, retired, started, nativeVars,
                   outerVars>>

-----------------------------------------------------------------------------
(* Session leases.                                                         *)

\* open_session
OpenSession(s) ==
    /\ leaseState[s] = "none"
    /\ ~shuttingDown /\ active # NoGen
    /\ native[active] = "loaded"   \* PreparedModel.open_session raises otherwise
    /\ leases' = [leases EXCEPT ![active] = @ + 1]
    /\ lease' = [lease EXCEPT ![s] = active]
    /\ leaseState' = [leaseState EXCEPT ![s] = "open"]
    /\ UNCHANGED <<runtimeVars, config, retired, started, complete, nativeVars, taskVars, sdVars,
                   hookVars, cancels>>

\* SessionLease.close: marked closed, the native session is closed ...
CloseLease(s) ==
    /\ leaseState[s] = "open"
    /\ leaseState' = [leaseState EXCEPT ![s] = "closing"]
    /\ UNCHANGED <<runtimeVars, modelVars, taskVars, lease, sdVars, hookVars, cancels>>

NeverLast(g) == FALSE
LastRelease(g) == leases[g] = 1 /\ retired[g] /\ ~started[g]

\* ... and ModelRuntime._release drops the count; the last release of a
\* retired generation claims its native shutdown.
Release(s) ==
    LET g == lease[s] IN
    /\ leaseState[s] = "closing"
    /\ leases' = [leases EXCEPT ![g] = IF @ > 0 THEN @ - 1 ELSE 0]
    /\ IF LastRelease(g)
       THEN Claim(g) /\ leaseState' = [leaseState EXCEPT ![s] = "unloading"]
       ELSE /\ leaseState' = [leaseState EXCEPT ![s] = "closed"]
            /\ UNCHANGED <<started, native, calls>>
    /\ UNCHANGED <<runtimeVars, config, retired, complete, forced, taskVars, lease, sdVars,
                   hookVars, cancels>>

ReleaseDone(s) ==
    /\ leaseState[s] = "unloading" /\ native[lease[s]] = "unloaded"
    /\ MarkComplete(lease[s])
    /\ leaseState' = [leaseState EXCEPT ![s] = "closed"]
    /\ UNCHANGED <<status, active, nextGen, prepVars, shuttingDown, config, leases, retired,
                   started, nativeVars, taskVars, lease, sdVars, hookVars, cancels>>

-----------------------------------------------------------------------------
(* Shutdown.  A concurrent second call only waits for the first.           *)

ShutdownBegin ==
    /\ sd = "idle"
    /\ shuttingDown' = TRUE
    /\ status' = StatusOf("stopping", NoGen)
    /\ retired' = [g \in Gens |-> retired[g] \/ g = active]
    /\ draining' = IF active # NoGen THEN draining \cup {active} ELSE draining
    /\ active' = NoGen
    /\ sdJoin' = preparationTask
    /\ sd' = "join"
    /\ UNCHANGED <<nextGen, prepVars, config, leases, started, complete, nativeVars, taskVars,
                   leaseVars, sdQueue, hookVars, cancels>>

NothingToJoin == TRUE
PreparationJoined == sdJoin # None => pc[sdJoin] = "idle"

\* The preparation in flight has ended: capture the generations to drain.
ShutdownCapture ==
    /\ sd = "join"
    /\ PreparationJoined
    /\ sdQueue' = draining
    /\ sd' = "drain"
    /\ UNCHANGED <<runtimeVars, modelVars, taskVars, leaseVars, sdJoin, hookVars, cancels>>

\* _draining keeps its insertion order, which is that of the generation numbers.
Oldest(g) == g \in sdQueue /\ \A h \in sdQueue : g <= h

DrainWithoutTimeout(g, timedOut) == leases[g] = 0
DrainEnds(g, timedOut) == leases[g] = 0 \/ timedOut

\* The next generation has drained, or _drain_timeout_s has passed.
ShutdownDrain ==
    /\ sd = "drain"
    /\ \E g \in Gens, timedOut \in BOOLEAN :
       /\ Oldest(g) /\ DrainEnds(g, timedOut)
       /\ forced' = [forced EXCEPT ![g] = @ \/ (leases[g] > 0 /\ ~started[g])]
       /\ Claim(g)
       /\ sd' = IF started[g] THEN "wait" ELSE "unload"
    /\ UNCHANGED <<runtimeVars, config, leases, retired, complete, taskVars, leaseVars, sdJoin,
                   sdQueue, hookVars, cancels>>

ShutdownNext ==
    /\ sd \in {"wait", "unload"}
    /\ \E g \in Gens :
       /\ Oldest(g)
       /\ sdQueue' = sdQueue \ {g}
       /\ IF sd = "unload"
          THEN native[g] = "unloaded" /\ MarkComplete(g)
          ELSE complete[g] /\ UNCHANGED <<draining, complete>>
    /\ sd' = "drain"
    /\ UNCHANGED <<status, active, nextGen, prepVars, shuttingDown, config, leases, retired,
                   started, nativeVars, taskVars, leaseVars, sdJoin, hookVars, cancels>>

ShutdownEnd ==
    /\ sd = "drain" /\ sdQueue = {}
    /\ sd' = "done"
    /\ UNCHANGED <<runtimeVars, modelVars, taskVars, leaseVars, sdJoin, sdQueue, hookVars,
                   cancels>>

-----------------------------------------------------------------------------
Native == \E g \in Gens : NativeLoad(g) \/ NativeUnload(g)

Calls == \E t \in Tasks : \/ Start(t)
                          \/ \E c \in Configs : PrepareAndActivate(t, c) \/ Schedule(t, c)

TaskStep(t) == \/ AdmitNothing(t) \/ AdmitSame(t) \/ AdmitNew(t)
               \/ SamePersist(t) \/ SamePublish(t) \/ PrepareReturns(t)
               \/ Persist(t) \/ Activate(t) \/ Retire(t) \/ UnloadOldDone(t)
               \/ WaitOldDone(t) \/ DiscardDone(t) \/ JoinNative(t)

Cancel(t) == \/ CancelQueued(t) \/ CancelUnstarted(t) \/ CancelPrepare(t) \/ CancelPrepareLate(t)
             \/ CancelDiscard(t) \/ CancelFailing(t) \/ CancelRetire(t)

LeaseStep(s) == Release(s) \/ ReleaseDone(s)

ShutdownStep == ShutdownCapture \/ ShutdownDrain \/ ShutdownNext \/ ShutdownEnd

\* Everything but the opening and closing of leases, which their owner decides.
RuntimeNext ==
    \/ Native
    \/ Calls
    \/ \E g \in Gens : Progress(g)
    \/ \E t \in Tasks : TaskStep(t) \/ Cancel(t)
    \/ \E s \in Sessions : LeaseStep(s)
    \/ ShutdownBegin
    \/ ShutdownStep

Next == RuntimeNext \/ \E s \in Sessions : OpenSession(s) \/ CloseLease(s)

(* Worker threads finish, the event loop runs every ready task, and a       *)
(* thread that is closing a lease carries on.  Nothing obliges a caller to *)
(* prepare, to cancel, to open or close a lease, or to shut down.          *)
Fairness ==
    /\ \A g \in Gens : WF_vars(NativeLoad(g)) /\ WF_vars(NativeUnload(g))
    /\ \A t \in Tasks : WF_vars(TaskStep(t))
    /\ \A s \in Sessions : WF_vars(LeaseStep(s))
    /\ WF_vars(ShutdownStep)

Spec == Init /\ [][Next]_vars /\ Fairness

-----------------------------------------------------------------------------
Statuses == [kind : {"starting", "preparing", "ready", "failed", "stopping"},
             current : Gens \cup {NoGen}, progress : Gens \cup {NoGen}]

Jobs == [kind : {"none", "initial", "direct", "scheduled"}, want : Configs,
         gen : Gens \cup {NoGen}, old : Gens \cup {NoGen},
         outcome : {"return", "error", "cancel"}]

NativeStates == {"none", "loading", "loaded", "failed", "unloading", "unloaded"}

Awaits == {"idle", "queued", "samePersist", "samePublish", "prepare", "joinNative",
           "persist", "activate", "discard", "retire", "unloadOld", "waitOld"}

(* Type correctness of the runtime, its generations, tasks and leases.      *)
TypeOK ==
    /\ status \in Statuses
    /\ active \in Gens \cup {NoGen}
    /\ draining \subseteq Gens
    /\ nextGen \in 0..MaxGen
    /\ preparingGen \in Gens \cup {NoGen}
    /\ preparationTask \in Tasks \cup {None}
    /\ prepareLock \in Tasks \cup {None}
    /\ reserved \in BOOLEAN /\ shuttingDown \in BOOLEAN
    /\ config \in [Gens -> Configs]
    /\ leases \in [Gens -> Nat]
    /\ retired \in [Gens -> BOOLEAN]
    /\ started \in [Gens -> BOOLEAN]
    /\ complete \in [Gens -> BOOLEAN]
    /\ native \in [Gens -> NativeStates]
    /\ calls \in [Gens -> Nat]
    /\ forced \in [Gens -> BOOLEAN]
    /\ pc \in [Tasks -> Awaits]
    /\ job \in [Tasks -> Jobs]
    /\ lease \in [Sessions -> Gens \cup {NoGen}]
    /\ leaseState \in [Sessions -> {"none", "open", "closing", "unloading", "closed"}]
    /\ sd \in {"idle", "join", "drain", "wait", "unload", "done"}
    /\ sdJoin \in Tasks \cup {None}
    /\ sdQueue \subseteq Gens
    /\ disk \in Configs /\ memory \in Configs
    /\ cancels \in Nat

\* The sessions whose lease still counts against generation g.
Holders(g) == {s \in Sessions : leaseState[s] \in {"open", "closing"} /\ lease[s] = g}

(* A model stays loaded while any session holds a lease on it, whatever     *)
(* replacements, cancellations and releases interleave; only a shutdown    *)
(* whose drain timed out (_drain_timeout_s) may unload it under a lease.   *)
LeasedModelStaysLoaded ==
    \A g \in Gens : Holders(g) # {} => native[g] = "loaded" \/ forced[g]

(* The native shutdown of a generation that was ever active is requested at *)
(* most once, though the replacing task, the last release of a lease and   *)
(* the runtime's shutdown all compete for it (shutdown_started).           *)
ActivatedShutDownOnce ==
    \A g \in Gens : retired[g] => calls[g] <= 1

(* /health, /settings and the session handler read _status to decide about  *)
(* admission (runtime_accepts_sessions): it promises a current generation  *)
(* exactly when open_session would find one, and names that generation;    *)
(* the settings shown with it are those its model was prepared from.       *)
StatusTellsAdmission ==
    /\ Accepts(status) <=> active # NoGen
    /\ Accepts(status) => status.current = active /\ native[active] = "loaded"
    /\ active # NoGen => memory = config[active]

(* When shutdown has returned nothing is loaded or being loaded or unloaded, *)
(* whatever was in flight when it began: it joins the native work others   *)
(* started.  A cancelled preparation may leave its model behind (README).  *)
ShutdownJoinsUnloads ==
    sd = "done" /\ cancels = 0 => \A g \in Gens : native[g] \in {"none", "failed", "unloaded"}

(* Shutdown terminates although leases may never be released.               *)
ShutdownTerminates == shuttingDown ~> sd = "done"

(* Every preparation ends, so that the next one can be admitted.            *)
PreparationEnds == prepareLock # None ~> prepareLock = None

(* A retired model does not stay in memory once its sessions are over.      *)
RetiredModelsUnload ==
    \A g \in Gens : retired[g] /\ Holders(g) = {} ~> native[g] = "unloaded"
=============================================================================
