----------------------------- MODULE ServerManager -----------------------------
(***************************************************************************)
(* How the app starts, watches, stops, adopts and replaces the speech      *)
(* server process (main/services/server-manager.ts).  Lifecycle requests   *)
(* queue behind each other; exit events of child processes, health polls,  *)
(* the detection at startup and the quitting app interleave with the       *)
(* awaits of the request that runs.                                        *)
(*                                                                         *)
(* A packaged build runs the interpreter itself (`direct`) or through a    *)
(* launcher, whose daemon the manager only learns of from the PID file.  A *)
(* wait for a process that outlives its timeout, SIGTERM and the SIGKILL   *)
(* that follows it are one step: a fault, and the process is `stuck`.      *)
(***************************************************************************)
EXTENDS Integers, Sequences, FiniteSets

CONSTANTS None,
          MaxRequests,  \* bound: requests of the user
          MaxFaults,    \* bound: crashes, failed probes, failed calls and timeouts
          MaxLauncherFaults  \* the same where a launcher runs the server

ASSUME NoneAssumption == None \notin Nat \X {"child", "daemon"}
ASSUME BoundsAssumption == MaxRequests \in Nat /\ MaxFaults \in Nat /\ MaxLauncherFaults \in Nat

VARIABLES
    mgr,       \* the manager's fields, and the living children a poll made it forget (a history)
    ls,        \* its lease bookkeeping, and the leases not released
    queue,     \* lifecycle requests not settled; the first one runs
    op,        \* where it is, and its local variables
    runs,      \* per process generation, what the callbacks of its child close over
    inflight,  \* the health poll in flight
    late,      \* a poll still has to replace the lease it released
    detect,    \* where detectExisting is
    direct, old,                                   \* kind of build; the server that was there
    alive, ready, unborn, term, exits, stuck, file, \* processes, undelivered exits, server.pid
    quit, faults, requests

world == <<alive, ready, unborn, term, exits, stuck, file>>
bounds == <<direct, old, faults, requests, quit>>
vars == <<mgr, ls, queue, op, runs, inflight, late, detect, world, bounds>>

\* Every start, restart and detection makes at most one generation.
Gens == 1..MaxRequests + 1
Existing == <<0, "daemon">>
Child(g) == <<g, "child">>
Server(g) == IF direct THEN Child(g) ELSE <<g, "daemon">>
Procs == {Existing} \cup (Gens \X {"child", "daemon"})
LeaseIds == 1..3 * MaxRequests + 3

Frame(place) == [pc |-> place, target |-> None, child |-> None, lease |-> None, g |-> 0]
NoRun == [spawned |-> FALSE, lease |-> None, bound |-> None, verified |-> FALSE, released |-> FALSE]

Init ==
    /\ mgr = [status |-> "idle", managed |-> FALSE, child |-> None, pidFile |-> None,
              gen |-> 0, poll |-> {}, cleaningUp |-> FALSE, forgotten |-> {}]
    /\ ls = [active |-> None, pids |-> {}, identified |-> FALSE, retained |-> {}, held |-> {}]
    /\ op = Frame("next") /\ runs = [g \in Gens |-> NoRun]
    /\ inflight = None /\ late = FALSE
    /\ \/ queue = <<"start">> /\ detect = Frame("done")    \* serverAutoStart
       \/ queue = <<>> /\ detect = Frame("read")
    /\ direct \in BOOLEAN /\ old \in {"none", "cpu", "gpu", "other"}
    /\ alive = (IF old = "none" THEN {} ELSE {Existing}) /\ ready = alive
    /\ file = (IF old = "none" THEN None ELSE Existing)
    /\ unborn = {} /\ term = {} /\ exits = {} /\ stuck = {}
    /\ quit = FALSE /\ faults = 0 /\ requests = 0

Fault == faults < (IF direct THEN MaxFaults ELSE MaxLauncherFaults) /\ faults' = faults + 1
Alive(p) == p \in alive

\* A bug: a pid is signalled that no longer is our process.
TellAnyone(ps) == term' = term \cup ps

\* /shutdown, SIGTERM or SIGKILL
Tell(ps) == term' = term \cup (ps \cap alive)

\* The runtime of a server: does it match this build, does it use the pack?
Matches(p) == p # Existing \/ old # "other"
UsesPack(p) == IF p = Existing THEN old = "gpu" ELSE runs[p[1]].lease # None

-------------------------------------------------------------------------------
(* Leases                                                                  *)

Dropped(l, lease) == [l EXCEPT !.held = @ \ {lease}, !.active = IF @ = lease THEN None ELSE @]

Retain(l, next) ==
    IF l.active \in {None, next} THEN l.retained
    ELSE l.retained \cup {[lease |-> l.active, pids |-> l.pids, identified |-> l.identified]}

Over(r) == r.identified /\ r.pids # {} /\ \A p \in r.pids : ~Alive(p)

\* replaceRuntimeLease
Replace(l, next, pids, identified) ==
    LET kept == Retain(l, next)
    IN  [active |-> next, pids |-> pids, identified |-> identified,
         retained |-> {r \in kept : ~Over(r)},
         held |-> l.held \ {r.lease : r \in {x \in kept : Over(x)}}]

\* acquireRuntime makes a lease that nothing refers to yet: the least of them.
Watched == {w.lease : w \in mgr.poll}
               \cup (IF inflight = None THEN {} ELSE {inflight.watch.lease})
Referred == ls.held \cup {r.lease : r \in ls.retained} \cup {runs[g].lease : g \in Gens}
                \cup Watched \cup {ls.active, op.lease}
Acquirable ==
    LET free == LeaseIds \ Referred IN {n \in free : \A m \in free : n <= m}
Acquire(l, n) == [l EXCEPT !.held = @ \cup {n}]

\* A bug: the exit of a launcher counts for the daemon nobody has seen yet.
MayReleaseUnverified(g, force) ==
    /\ runs[g].lease # None /\ ~runs[g].released
    /\ ~Alive(Child(g)) /\ ~Alive(runs[g].bound)

\* What releaseProcessLease checks; `force` skips the liveness test of a launcher.
MayRelease(g, force) ==
    LET r == runs[g]
    IN  /\ r.lease # None /\ ~r.released
        /\ r.spawned => r.verified \/ direct
        /\ ~force \/ direct => (~r.spawned \/ ~Alive(Child(g))) /\ ~Alive(r.bound)

ReleaseRun(l, g) == IF MayRelease(g, FALSE) THEN Dropped(l, runs[g].lease) ELSE l
Released(g) == [runs EXCEPT ![g].released = @ \/ MayRelease(g, FALSE)]

-------------------------------------------------------------------------------
(* Health polling                                                          *)

Watch(p, child, lease) == [server |-> p, child |-> child, lease |-> lease]

\* stopHealthPolling and startHealthPolling make an answer in flight stale.
StalePoll == inflight' = IF inflight = None THEN None ELSE [inflight EXCEPT !.current = FALSE]

PollSend ==
    /\ inflight = None /\ ~quit
    /\ \E w \in mgr.poll : inflight' = [watch |-> w, current |-> TRUE]
    /\ UNCHANGED <<mgr, ls, queue, op, runs, late, detect, world, bounds>>

\* A bug: the answer to an earlier interval counts.
CurrentOrLate == TRUE
Current == inflight.current

Gone(w) == ~Alive(w.server) /\ (w.child = None \/ ~Alive(w.child))

PollReturn ==
    /\ inflight # None /\ ~quit
    /\ inflight' = None
    /\ LET w == inflight.watch
           owns == w.lease # None /\ ls.active = w.lease
       IN  \/ /\ ~Current /\ UNCHANGED <<mgr, ls, late, faults>>
           \/ /\ Current /\ Gone(w)
              /\ mgr' = [mgr EXCEPT !.poll = {}, !.child = None, !.pidFile = None, !.status = "error",
                                    !.forgotten = @ \cup ({mgr.child} \cap alive)]
              /\ ls' = IF owns THEN Dropped(ls, w.lease) ELSE Replace(ls, None, {}, FALSE)
              /\ late' = (late \/ owns)
              /\ UNCHANGED faults
           \/ /\ Current /\ ~Gone(w)              \* not healthy
              /\ IF Alive(w.server) THEN Fault ELSE UNCHANGED faults
              /\ mgr' = [mgr EXCEPT !.status = IF @ = "running" THEN "error" ELSE @]
              /\ UNCHANGED <<ls, late>>
           \/ /\ Current /\ Alive(w.server) /\ Fault      \* another runtime identity
              /\ mgr' = [mgr EXCEPT !.status = "error"]
              /\ UNCHANGED <<ls, late>>
           \/ /\ Current /\ Alive(w.server)               \* healthy
              /\ mgr' = [mgr EXCEPT !.status = IF @ = "error" THEN "running" ELSE @]
              /\ UNCHANGED <<ls, late, faults>>
    /\ UNCHANGED <<queue, op, runs, detect, world, direct, old, requests, quit>>

\* The poll goes on once the release it awaited is over.
PollReplace ==
    /\ late /\ ~quit
    /\ late' = FALSE /\ ls' = Replace(ls, None, {}, FALSE)
    /\ UNCHANGED <<mgr, queue, op, runs, inflight, detect, world, bounds>>

-------------------------------------------------------------------------------
(* The lifecycle queue                                                     *)

Goto(place) == op' = [op EXCEPT !.pc = place]
EndRequest == queue' = Tail(queue) /\ op' = Frame("next")

\* A request equal to the last one that has not settled joins it.
Enqueued(q, kind) == IF q # <<>> /\ q[Len(q)] = kind THEN q ELSE Append(q, kind)
StartInFlight == \E i \in DOMAIN queue : queue[i] = "start"

\* The user's first request comes after startup got to its detection.
Request(kind) ==
    /\ ~mgr.cleaningUp /\ requests < MaxRequests /\ detect.pc # "read"
    /\ requests' = requests + 1
    /\ queue' = IF kind = "restart" /\ ~mgr.managed /\ ~StartInFlight THEN queue
                ELSE Enqueued(queue, kind)
    /\ UNCHANGED <<mgr, ls, op, runs, inflight, late, detect, world, direct, old, faults, quit>>

\* What the renderer may ask for over IPC.
UserRequests == {"start", "stop", "restart"}

\* cleanup, which the quitting app awaits.
Cleanup ==
    /\ ~mgr.cleaningUp
    /\ mgr' = [mgr EXCEPT !.cleaningUp = TRUE, !.poll = {}]
    /\ StalePoll
    /\ queue' = IF mgr.child # None \/ queue # <<>> THEN Append(queue, "cleanup") ELSE queue
    /\ UNCHANGED <<ls, op, runs, late, detect, world, bounds>>

AppExit ==
    /\ mgr.cleaningUp /\ ~quit /\ \A i \in DOMAIN queue : queue[i] # "cleanup"
    /\ quit' = TRUE
    /\ UNCHANGED <<mgr, ls, queue, op, runs, inflight, late, detect, world, direct, old, faults, requests>>

Begin ==
    /\ op.pc = "next" /\ queue # <<>> /\ ~quit
    /\ IF Head(queue) # "start" THEN Goto("stop") /\ UNCHANGED queue
       ELSE IF mgr.cleaningUp THEN EndRequest
       ELSE Goto("start") /\ UNCHANGED queue
    /\ UNCHANGED <<mgr, ls, runs, inflight, late, detect, world, bounds>>

At(place) == op.pc = place /\ ~quit

\* A failed or refused start.
GiveUp == mgr' = [mgr EXCEPT !.status = "error"] /\ EndRequest

-------------------------------------------------------------------------------
(* startOnce: the server that is already there                             *)

StartOnce ==
    /\ At("start")
    /\ IF mgr.status \in {"running", "starting"} THEN EndRequest ELSE Goto("probe") /\ UNCHANGED queue
    /\ UNCHANGED <<mgr, ls, runs, inflight, late, detect, world, bounds>>

\* A bug: only a server of one's own is looked for.
ServesManaged == mgr.managed /\ file # None /\ Alive(file)

Serves == file # None /\ Alive(file)

Probe ==
    /\ At("probe")
    /\ IF mgr.cleaningUp THEN EndRequest /\ UNCHANGED file
       ELSE /\ UNCHANGED queue
            /\ IF Serves
               THEN op' = [op EXCEPT !.pc = "verify", !.target = file] /\ UNCHANGED file
               ELSE Goto("acquire") /\ file' = None
    /\ UNCHANGED <<mgr, ls, runs, inflight, late, detect, alive, ready, unborn, term, exits, stuck, bounds>>

\* isOwnedServerProcess: our own child, or what the system says of the pid.
MayBeUnverified(p) == p # mgr.child

Verify ==
    /\ At("verify")
    /\ IF mgr.cleaningUp THEN EndRequest /\ UNCHANGED <<mgr, faults>>
       ELSE \/ Goto("check") /\ UNCHANGED <<mgr, queue, faults>>
            \/ MayBeUnverified(op.target) /\ Fault /\ GiveUp
    /\ UNCHANGED <<ls, runs, inflight, late, detect, world, direct, old, requests, quit>>

\* A server that was found: managed is FALSE and its generation is a new one.
Adopt(p, lease) ==
    /\ mgr' = [mgr EXCEPT !.status = "running", !.managed = FALSE, !.pidFile = p,
                          !.gen = @ + 1, !.poll = {Watch(p, mgr.child, lease)}]
    /\ StalePoll

Evict(lease) == op' = [op EXCEPT !.pc = "evicting", !.lease = lease] /\ Tell({op.target})

Check ==
    /\ At("check")
    /\ \/ /\ mgr.cleaningUp /\ EndRequest /\ UNCHANGED <<mgr, ls, inflight, term, faults>>
       \/ /\ ~mgr.cleaningUp /\ Alive(op.target) /\ Matches(op.target) /\ UNCHANGED <<term, faults>>
          /\ IF UsesPack(op.target)
             THEN Goto("lease") /\ UNCHANGED <<mgr, ls, queue, inflight>>
             ELSE Adopt(op.target, None) /\ ls' = Replace(ls, None, {op.target}, TRUE) /\ EndRequest
       \/ /\ ~mgr.cleaningUp /\ Evict(None) /\ UNCHANGED <<mgr, ls, queue, inflight>>
          /\ IF Alive(op.target) /\ Matches(op.target) THEN Fault ELSE UNCHANGED faults
    /\ UNCHANGED <<runs, late, detect, alive, ready, unborn, exits, stuck, file, direct, old, requests, quit>>

LeaseExisting ==
    /\ At("lease")
    /\ \/ Fault /\ Evict(None) /\ UNCHANGED <<mgr, ls, queue, inflight>>
       \/ \E n \in Acquirable :
             /\ ls' = Replace(Acquire(ls, n), n, {op.target}, TRUE)
             /\ \/ Adopt(op.target, n) /\ EndRequest /\ UNCHANGED <<term, faults>>
                \/ /\ Fault /\ Evict(n)        \* leased, but of another pack or not bound
                   /\ UNCHANGED <<mgr, queue, inflight>>
    /\ UNCHANGED <<runs, late, detect, alive, ready, unborn, exits, stuck, file, direct, old, requests, quit>>

Evicted ==
    /\ At("evicting")
    /\ \/ /\ ~Alive(op.target)
          /\ ls' = IF op.lease = None THEN ls ELSE Dropped(ls, op.lease)
          /\ IF mgr.cleaningUp THEN EndRequest /\ UNCHANGED file
             ELSE file' = None /\ op' = Frame("acquire") /\ UNCHANGED queue
          /\ UNCHANGED <<mgr, stuck, faults>>
       \/ /\ Alive(op.target) /\ Fault /\ stuck' = stuck \cup {op.target}
          /\ IF mgr.cleaningUp THEN EndRequest /\ UNCHANGED mgr ELSE GiveUp
          /\ UNCHANGED <<ls, file>>
    /\ UNCHANGED <<runs, inflight, late, detect, alive, ready, unborn, term, exits, direct, old, requests, quit>>

-------------------------------------------------------------------------------
(* startOnce: a new server                                                 *)

\* The pack is leased before the command is built; without it the server is a CPU server.
Acquired ==
    /\ At("acquire")
    /\ IF mgr.cleaningUp THEN EndRequest /\ UNCHANGED <<mgr, ls, faults>>
       ELSE \/ /\ Fault /\ GiveUp /\ UNCHANGED ls          \* no server executable
            \/ \E n \in {None} \cup Acquirable :
                  /\ mgr' = [mgr EXCEPT !.status = "starting", !.managed = TRUE]
                  /\ ls' = Replace(IF n = None THEN ls ELSE Acquire(ls, n), n, {}, FALSE)
                  /\ op' = [op EXCEPT !.pc = "spawn", !.lease = n]
                  /\ UNCHANGED <<queue, faults>>
    /\ UNCHANGED <<runs, inflight, late, detect, world, direct, old, requests, quit>>

Spawn ==
    /\ At("spawn")
    /\ LET g == mgr.gen + 1
           run == [spawned |-> TRUE, lease |-> op.lease, bound |-> None, verified |-> FALSE, released |-> FALSE]
       IN  \/ /\ mgr.cleaningUp /\ EndRequest
              /\ ls' = IF op.lease = None THEN ls ELSE Dropped(ls, op.lease)
              /\ UNCHANGED <<mgr, runs, inflight, alive, unborn, faults>>
           \/ /\ ~mgr.cleaningUp
              /\ mgr' = [mgr EXCEPT !.gen = g, !.child = Child(g)]
              /\ ls' = [ls EXCEPT !.pids = {Child(g)}, !.identified = direct]
              /\ runs' = [runs EXCEPT ![g] = run]
              /\ alive' = alive \cup {Child(g)}
              /\ unborn' = IF direct THEN unborn ELSE unborn \cup {g}
              /\ op' = [op EXCEPT !.g = g, !.pc = IF op.lease = None THEN "waitpid" ELSE "bind"]
              /\ UNCHANGED <<queue, inflight, faults>>
           \/ /\ ~mgr.cleaningUp /\ Fault                   \* no process: its error event
              /\ mgr' = [mgr EXCEPT !.gen = g, !.child = None, !.pidFile = None, !.poll = {},
                                    !.status = "error"]
              /\ StalePoll
              /\ runs' = [runs EXCEPT ![g] = [run EXCEPT !.spawned = FALSE, !.released = TRUE]]
              /\ ls' = IF op.lease = None THEN [ls EXCEPT !.pids = {}, !.identified = FALSE]
                       ELSE [Dropped(ls, op.lease) EXCEPT !.pids = {}, !.identified = FALSE]
              /\ op' = [op EXCEPT !.g = g, !.pc = "waitpid"]
              /\ UNCHANGED <<queue, alive, unborn>>
    /\ UNCHANGED <<late, detect, ready, term, exits, stuck, file, direct, old, requests, quit>>

\* safeBindServerPid of the child, refused once its exit has released the lease.
BindChild ==
    /\ At("bind")
    /\ \/ /\ ~runs[op.g].released /\ Goto("waitpid")
          /\ runs' = [runs EXCEPT ![op.g].bound = Child(op.g)] /\ UNCHANGED <<term, faults>>
       \/ /\ IF runs[op.g].released THEN UNCHANGED faults ELSE Fault
          /\ Goto("killed") /\ Tell({Child(op.g)})
          /\ runs' = [runs EXCEPT ![op.g].bound = IF runs[op.g].released THEN @ ELSE Child(op.g)]
    /\ UNCHANGED <<mgr, ls, queue, inflight, late, detect, alive, ready, unborn, exits, stuck, file,
                   direct, old, requests, quit>>

\* Both processes were told to end; then the start fails.
Killed ==
    /\ At("killed") /\ Goto("catch")
    /\ LET left == {Child(op.g), runs[op.g].bound} \cap alive
       IN  /\ IF left = {} THEN UNCHANGED faults ELSE Fault
           /\ stuck' = stuck \cup left
    /\ UNCHANGED <<mgr, ls, queue, runs, inflight, late, detect, alive, ready, unborn, term, exits, file,
                   direct, old, requests, quit>>

PidFileWritten(g) == file = Server(g)
WillServe(g) == Alive(Server(g)) \/ g \in unborn

\* The timeout (180 s) is long after a poll (every 3 s) has noticed a dead server.
PollsAnswered == \A w \in mgr.poll : ~Gone(w)

WaitPidFile ==
    /\ At("waitpid")
    /\ \/ PidFileWritten(op.g) /\ Goto("own") /\ UNCHANGED faults
       \/ /\ PollsAnswered /\ Goto("catch")
          /\ IF WillServe(op.g) THEN Fault ELSE UNCHANGED faults
    /\ UNCHANGED <<mgr, ls, queue, runs, inflight, late, detect, world, direct, old, requests, quit>>

\* The daemon is known and, if it is ours, bound to the lease.
Own ==
    /\ At("own")
    /\ LET p == Server(op.g)
       IN  \/ /\ p = mgr.child \/ Alive(p)
              /\ mgr' = [mgr EXCEPT !.pidFile = p]
              /\ ls' = [ls EXCEPT !.pids = {Child(op.g), p}, !.identified = TRUE]
              /\ \/ /\ runs' = [runs EXCEPT ![op.g].bound = p, ![op.g].verified = TRUE]
                    /\ Goto("health") /\ UNCHANGED <<term, faults>>
                    /\ op.lease = None \/ ~runs[op.g].released
                 \/ /\ op.lease # None
                    /\ IF runs[op.g].released THEN UNCHANGED faults ELSE Fault
                    /\ runs' = [runs EXCEPT ![op.g].bound = p, ![op.g].verified = TRUE]
                    /\ Tell({Child(op.g), p}) /\ Goto("killed")
           \/ /\ p # mgr.child /\ Goto("catch") /\ UNCHANGED <<mgr, ls, runs, term>>
              /\ IF Alive(p) THEN Fault ELSE UNCHANGED faults
    /\ UNCHANGED <<queue, inflight, late, detect, alive, ready, unborn, exits, stuck, file,
                   direct, old, requests, quit>>

Healthy ==
    /\ At("health")
    /\ LET p == Server(op.g)
       IN  \/ /\ Alive(p) /\ EndRequest /\ StalePoll
              /\ mgr' = [mgr EXCEPT !.status = "running", !.pidFile = p,
                                    !.poll = {Watch(p, mgr.child, ls.active)}]
              /\ UNCHANGED faults
           \/ /\ Goto("catch") /\ UNCHANGED <<mgr, queue, inflight>>
              /\ IF Alive(p) THEN Fault ELSE UNCHANGED faults
    /\ UNCHANGED <<ls, runs, late, detect, world, direct, old, requests, quit>>

StartFails ==
    /\ At("catch") /\ op' = [op EXCEPT !.pc = "failed", !.child = mgr.child]
    /\ mgr' = [mgr EXCEPT !.status = "error"]
    /\ Tell({mgr.child})
    /\ UNCHANGED <<ls, queue, runs, inflight, late, detect, alive, ready, unborn, exits, stuck, file, bounds>>

StartFailed ==
    /\ At("failed") /\ EndRequest
    /\ LET left == {op.child} \cap alive
       IN  /\ IF left = {} THEN UNCHANGED faults ELSE Fault
           /\ stuck' = stuck \cup left
           /\ mgr' = [mgr EXCEPT !.child = IF left = {} THEN None ELSE @]
    /\ IF ls.active = op.lease /\ op.lease # None
       THEN ls' = ReleaseRun(ls, op.g) /\ runs' = Released(op.g)
       ELSE UNCHANGED <<ls, runs>>
    /\ UNCHANGED <<inflight, late, detect, alive, ready, unborn, term, exits, file, direct, old, requests, quit>>

-------------------------------------------------------------------------------
(* stopOnce                                                                *)

\* A restart goes on with startOnce.
EndStop ==
    IF Head(queue) = "restart" /\ ~mgr.cleaningUp
    THEN op' = Frame("start") /\ UNCHANGED queue
    ELSE EndRequest

StopOnce ==
    /\ At("stop")
    /\ IF mgr.status \in {"stopped", "idle", "stopping"} \/ ~mgr.managed
       THEN EndStop /\ UNCHANGED <<mgr, inflight, term>>
       ELSE /\ mgr' = [mgr EXCEPT !.status = "stopping", !.poll = {}]
            /\ StalePoll
            /\ op' = [op EXCEPT !.pc = "stopping", !.child = mgr.child, !.target = mgr.pidFile,
                                !.lease = ls.active]
            /\ Tell({mgr.pidFile})
            /\ UNCHANGED queue
    /\ UNCHANGED <<ls, runs, late, detect, alive, ready, unborn, exits, stuck, file, bounds>>

Ours == {op.child, op.target} \ {None}

ConfirmStopped ==
    IF op.lease # None /\ op.target = None
    THEN mgr' = [mgr EXCEPT !.status = "error"] /\ UNCHANGED ls
    ELSE /\ mgr' = [mgr EXCEPT !.status = "stopped", !.child = None, !.pidFile = None]
         /\ ls' = Replace([Dropped(ls, op.lease) EXCEPT !.active = None], None, {}, FALSE)

\* Within the grace period, or by force; a daemon that is not verifiably ours is left alone.
StopWait ==
    /\ At("stopping")
    /\ \/ /\ Ours \cap alive = {}
          /\ ConfirmStopped /\ EndStop /\ UNCHANGED <<term, faults>>
       \/ /\ Ours \cap alive # {} \/ op.target = None
          /\ IF op.target = None THEN UNCHANGED faults ELSE Fault
          /\ \E sure \in BOOLEAN :
                Tell(IF sure THEN Ours ELSE {op.child})
          /\ Goto("forced") /\ UNCHANGED <<mgr, ls, queue>>
    /\ UNCHANGED <<runs, inflight, late, detect, alive, ready, unborn, exits, stuck, file,
                   direct, old, requests, quit>>

StopForced ==
    /\ At("forced") /\ EndStop
    /\ LET left == Ours \cap alive
       IN  /\ IF left = {} THEN ConfirmStopped
              ELSE mgr' = [mgr EXCEPT !.status = "error"] /\ UNCHANGED ls
           /\ stuck' = stuck \cup left
           /\ IF left \subseteq term /\ left # {} THEN Fault ELSE UNCHANGED faults
    /\ UNCHANGED <<runs, inflight, late, detect, alive, ready, unborn, term, exits, file,
                   direct, old, requests, quit>>

-------------------------------------------------------------------------------
(* Events of a child process                                               *)

Forget(m) == [m EXCEPT !.child = None, !.pidFile = None, !.poll = {}]

\* A bug: the exit of an earlier child counts.
NeverStale(g) == FALSE

StaleGeneration(g) == g # mgr.gen

\* The launcher exited and the daemon it started lives on.
LauncherOnly(g) == runs[g].bound \notin {None, Child(g)} /\ Alive(runs[g].bound)

ExitEvent(g) ==
    /\ g \in exits /\ ~quit
    /\ exits' = exits \ {g}
    /\ IF ~StaleGeneration(g) /\ LauncherOnly(g)
       THEN mgr' = [mgr EXCEPT !.child = None] /\ UNCHANGED <<ls, runs, inflight>>
       ELSE /\ ls' = ReleaseRun(ls, g) /\ runs' = Released(g)
            /\ IF StaleGeneration(g) THEN UNCHANGED <<mgr, inflight>>
               ELSE /\ mgr' = [Forget(mgr) EXCEPT !.status = IF @ = "stopping" THEN "stopped" ELSE "error"]
                    /\ StalePoll
    /\ UNCHANGED <<queue, op, late, detect, alive, ready, unborn, term, stuck, file, bounds>>

\* An error event, a failed kill say, while a process of the child lives.
ErrorEvent(g) ==
    /\ runs[g].spawned /\ (Alive(Child(g)) \/ Alive(runs[g].bound)) /\ ~quit /\ Fault
    /\ mgr' = [mgr EXCEPT !.status = IF StaleGeneration(g) THEN @ ELSE "error"]
    /\ UNCHANGED <<ls, queue, op, runs, inflight, late, detect, world, direct, old, requests, quit>>

-------------------------------------------------------------------------------
(* detectExisting, at startup and outside the queue                        *)

DetectGoto(place) == detect' = [detect EXCEPT !.pc = place]
DetectFails(status) == mgr' = [mgr EXCEPT !.status = status] /\ detect' = Frame("done")

DetectRead ==
    /\ detect.pc = "read" /\ ~quit
    /\ IF file # None /\ Alive(file)
       THEN detect' = [detect EXCEPT !.pc = "verify", !.target = file] /\ UNCHANGED <<mgr, file>>
       ELSE DetectFails("stopped") /\ file' = None
    /\ UNCHANGED <<ls, queue, op, runs, inflight, late, alive, ready, unborn, term, exits, stuck, bounds>>

DetectVerify ==
    /\ detect.pc = "verify" /\ ~quit
    /\ \/ DetectGoto("check") /\ UNCHANGED <<mgr, faults>>
       \/ MayBeUnverified(detect.target) /\ Fault /\ DetectFails("error")
    /\ UNCHANGED <<ls, queue, op, runs, inflight, late, world, direct, old, requests, quit>>

DetectCheck ==
    /\ detect.pc = "check" /\ ~quit
    /\ LET p == detect.target
       IN  \/ /\ Alive(p) /\ Matches(p) /\ UNCHANGED faults
              /\ IF UsesPack(p) THEN DetectGoto("lease") /\ UNCHANGED <<mgr, ls, inflight>>
                 ELSE Adopt(p, None) /\ ls' = Replace(ls, None, {p}, TRUE) /\ detect' = Frame("done")
           \/ /\ DetectFails("error") /\ UNCHANGED <<ls, inflight>>
              /\ IF Alive(p) /\ Matches(p) THEN Fault ELSE UNCHANGED faults
    /\ UNCHANGED <<queue, op, runs, late, world, direct, old, requests, quit>>

DetectLease ==
    /\ detect.pc = "lease" /\ ~quit
    /\ \E n \in Acquirable :
          LET leased == Replace(Acquire(ls, n), n, {detect.target}, TRUE)
          IN  \/ /\ Adopt(detect.target, n) /\ ls' = leased
                 /\ detect' = Frame("done") /\ UNCHANGED faults
              \/ Fault /\ DetectFails("error") /\ UNCHANGED inflight /\ ls' \in {ls, leased}
    /\ UNCHANGED <<queue, op, runs, late, world, direct, old, requests, quit>>

-------------------------------------------------------------------------------
(* Server processes                                                        *)

LauncherStarts(g) ==
    /\ g \in unborn /\ Alive(Child(g))
    /\ unborn' = unborn \ {g} /\ alive' = alive \cup {Server(g)}
    /\ UNCHANGED <<mgr, ls, queue, op, runs, inflight, late, detect, ready, term, exits, stuck, file, bounds>>

WritePidFile(p) ==
    /\ Alive(p) /\ p \notin ready /\ p = Server(p[1])
    /\ ready' = ready \cup {p} /\ file' = p
    /\ UNCHANGED <<mgr, ls, queue, op, runs, inflight, late, detect, alive, unborn, term, exits, stuck, bounds>>

\* Told to end, a crash, or a launcher whose daemon is over; a clean exit removes the PID file.
Dies(p) ==
    /\ Alive(p)
    /\ IF p \in term \/ (~direct /\ p[2] = "child" /\ p[1] \notin unborn /\ ~Alive(Server(p[1])))
       THEN UNCHANGED faults ELSE Fault
    /\ alive' = alive \ {p} /\ ready' = ready \ {p} /\ term' = term \ {p}
    /\ unborn' = IF p[2] = "child" THEN unborn \ {p[1]} ELSE unborn
    /\ exits' = IF p[2] = "child" THEN exits \cup {p[1]} ELSE exits
    /\ file' \in IF file = p /\ p \in term THEN {file, None} ELSE {file}
    /\ UNCHANGED <<mgr, ls, queue, op, runs, inflight, late, detect, stuck, direct, old, requests, quit>>

Manager ==
    \/ Begin \/ StartOnce \/ Probe \/ Verify \/ Check \/ LeaseExisting \/ Evicted
    \/ Acquired \/ Spawn \/ BindChild \/ Killed \/ WaitPidFile \/ Own \/ Healthy
    \/ StartFails \/ StartFailed \/ StopOnce \/ StopWait \/ StopForced
    \/ DetectRead \/ DetectVerify \/ DetectCheck \/ DetectLease
    \/ PollReturn \/ PollReplace \/ \E g \in Gens : ExitEvent(g)

Environment ==
    \/ PollSend \/ Cleanup \/ AppExit \/ \E kind \in UserRequests : Request(kind)
    \/ \E g \in Gens : ErrorEvent(g) \/ LauncherStarts(g)
    \/ ~quit /\ \E p \in Procs : WritePidFile(p) \/ Dies(p)

Next == Manager \/ Environment

Spec == Init /\ [][Next]_vars

-------------------------------------------------------------------------------
(* Type correctness of the manager's fields.                               *)
TypeOK ==
    /\ mgr.status \in {"idle", "starting", "running", "stopping", "stopped", "error"}
    /\ mgr.child \in Procs \cup {None} /\ mgr.pidFile \in Procs \cup {None}
    /\ mgr.gen \in 0..MaxRequests + 1
    /\ ls.held \subseteq LeaseIds /\ ls.active \in LeaseIds \cup {None}
    /\ alive \subseteq Procs /\ ready \cup term \subseteq alive /\ file \in Procs \cup {None}
    /\ \A i \in DOMAIN queue : queue[i] \in {"start", "stop", "restart", "cleanup"}

(* "A living server remains protected" (docs/architecture/eve-gpu-pack-    *)
(* lifecycle.md): while a process of a server that was started with a pack *)
(* lives, its lease is not released.                                       *)
LeaseCoversConsumers ==
    \A p \in alive : p[1] > 0 /\ runs[p[1]].lease # None => runs[p[1]].lease \in ls.held

\* No process has outlived an attempt to end it, and the poll of an earlier
\* server has made the manager forget none (see QuitStopsServer).
Tidy == direct /\ stuck = {} /\ mgr.forgotten = {}

(* Start looks for the server in the PID file before it spawns another, so *)
(* two servers never serve, as long as the manager is Tidy.                *)
OneServer == Tidy => \A p, q \in ready : p = q

(* "Stopped" is shown when nothing the manager spawned is still running,   *)
(* as long as it is Tidy.                                                  *)
StoppedMeansGone == Tidy /\ mgr.status = "stopped" => \A p \in alive : p[1] = 0

(* "Cleanup on app quit" (server-manager.ts): an app that shows a server as  *)
(* its own does not leave it running when it quits.                        *)
QuitStopsServer ==
    direct /\ quit /\ mgr.managed => \A p \in alive \ stuck : p[1] = 0

(* "Running" is shown of a server whose end a health poll will notice; once *)
(* no request is under way it is the server whose port the app uses, as    *)
(* long as the manager is Tidy.                                            *)
RunningIsWatched ==
    mgr.status = "running" /\ ~mgr.cleaningUp =>
        /\ mgr.pidFile # None /\ mgr.poll # {}
        /\ Tidy /\ op.pc = "next" => \A w \in mgr.poll : w.server = mgr.pidFile
===============================================================================
