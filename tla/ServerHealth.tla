----------------------------- MODULE ServerHealth -----------------------------
(***************************************************************************)
(* What the app believes of a speech server: the PID file it reads, the    *)
(* process it takes for its own, the health answer it accepts, how long it *)
(* waits for one, what it shows, and the interpreter it starts             *)
(* (main/services/server-health.ts, server-manager.ts, server-startup.ts). *)
(*                                                                         *)
(* A JSON value is a record [kind, was]; `Missing` is one that is not there. *)
(* Times are milliseconds.                                                 *)
(***************************************************************************)
EXTENDS Integers, Sequences, SequencesExt

Missing == [kind |-> "missing", was |-> ""]
Null == [kind |-> "null", was |-> ""]
Text(s) == [kind |-> "string", was |-> s]
Number(n) == [kind |-> "number", was |-> n]
IsText(x) == x.kind = "string"
IsNumber(x) == x.kind = "number"
IsTextOrNull(x) == x.kind \in {"string", "null"}
Same(x, y) == x.kind = y.kind /\ x.was = y.was

\* At most one PID file, and only one whose fields make sense.
ParsePidFile(data) ==
    IF /\ \A f \in {"pid", "port", "startedAt"} : IsNumber(data[f]) /\ data[f].was > 0
       /\ data.port.was <= 65535
    THEN {[f \in {"pid", "port", "startedAt"} |-> data[f].was]} ELSE {}

\* readPidFile; a strict reader is told of a file it cannot use.
ReadPidFile(file, strict) ==
    IF file.kind = "missing" THEN [fails |-> FALSE, found |-> {}]
    ELSE IF file.kind = "object" /\ ParsePidFile(file.was) # {}
    THEN [fails |-> FALSE, found |-> ParsePidFile(file.was)]
    ELSE [fails |-> strict, found |-> {}]

\* waitForPidFile takes no PID file of an earlier server.
TakesPidFile(found, after) == {p \in found : p.startedAt >= after}

IsOwned(snapshot, pid, startedAt) ==
    /\ snapshot.pid = pid
    /\ snapshot.interpreter /\ snapshot.runsMain
    /\ startedAt - snapshot.created \in -5000..60000

ParseRuntime(r) ==
    IF /\ \A f \in {"app_build", "pack_id", "effective_device"} : IsTextOrNull(r[f])
       /\ IsText(r.server_build) /\ r.server_build.was # ""
    THEN {r} ELSE {}

\* `expected` is [app_build, server_build, pack_id].
IsExpected(runtimes, expected) ==
    \E r \in runtimes : \A f \in {"app_build", "server_build", "pack_id"} : Same(r[f], expected[f])

Statuses == {"missing", "partial", "downloading", "ready", "error"}
Phases == {"checking", "downloading", "loading", "ready", "error"}
Least(a, b) == IF a < b THEN a ELSE b
Measure(x) == IF IsNumber(x) /\ x.was >= 0 THEN {x.was} ELSE {}
ParseDownload(d) ==
    IF IsText(d.model) /\ IsNumber(d.size_gb) /\ d.size_gb.was >= 0 /\ IsText(d.status) /\ d.status.was \in Statuses
    THEN {[model |-> d.model.was, status |-> d.status.was,
           phase |-> IF IsText(d.phase) THEN {d.phase.was} \cap Phases ELSE {},
           progress |-> {Least(100, p) : p \in Measure(d.progress)}]}
    ELSE {}

ParseHealthy(payload) ==
    [healthy |-> payload.kind = "object",
     runtime |-> IF payload.kind = "object" THEN ParseRuntime(payload.was.runtime) ELSE {},
     download |-> IF payload.kind = "object" THEN ParseDownload(payload.was.download) ELSE {},
     engine |-> IF payload.kind = "object" /\ payload.was.engine \in {"loading", "ready", "error"}
                THEN {payload.was.engine} ELSE {}]

\* waitForHealth: probe i takes durations[i] and finds the server healthy or
\* not; a probe is cut at its own timeout and at the deadline.
RequestTimeout == 2500
Pause == 500
Probed(wait, probe) ==
    LET remaining == wait.deadline - wait.now
        took == Least(probe.takes, Least(RequestTimeout, remaining))
        over == wait.now + took >= wait.deadline
    IN  IF wait.result # "waiting" THEN wait
        ELSE IF probe.healthy /\ took = probe.takes THEN [wait EXCEPT !.now = @ + took, !.result = "healthy"]
        ELSE IF over THEN [wait EXCEPT !.now = @ + took, !.result = "none"]
        ELSE LET next == wait.now + took + Least(Pause, remaining - took)
             IN  [wait EXCEPT !.now = next, !.result = IF next >= wait.deadline THEN "none" ELSE @]
WaitForHealth(timeout, probes) ==
    FoldLeft(Probed,
             [now |-> 0, deadline |-> timeout, result |-> IF timeout > 0 THEN "waiting" ELSE "none"],
             probes)

\* getState: what is shown of the manager's fields.
State(mgr, now, override) ==
    [status |-> mgr.status, pidFile |-> mgr.pidFile, managed |-> mgr.managed,
     uptime |-> IF mgr.status = "running" THEN {now - t : t \in mgr.startedAt} ELSE {},
     wsUrl |-> {p.port : p \in mgr.pidFile},
     error |-> IF override # {} THEN override ELSE mgr.currentError]
\* updateStatus forgets the error of an earlier status.
UpdateStatus(mgr, status, error) ==
    [mgr EXCEPT !.status = status, !.currentError = IF status = "error" THEN error ELSE {}]
\* resolveServerApiUrl
ApiUrl(configured, state) ==
    IF state.status = "running" /\ state.wsUrl # {} THEN state.wsUrl ELSE configured

\* getServerCommand: the files a packaged build finds decide what it runs.
\* A pack is [id, directory], `packs` at most one.
Command(packaged, files, packs) ==
    LET bundled == ".runtime" \in files
        packages == "site-packages" \in files
    IN  IF ~packaged \/ (bundled /\ ~packages) \/ (~bundled /\ "legacy" \notin files) THEN {}
        ELSE {[direct |-> bundled, packages |-> packages, packs |-> packs,
               path |-> SetToSeq({p.directory : p \in packs}) \o <<"system">>]}

\* The environment of the server.  The user's may hold the variables of a
\* pack too; a server without a pack must not see them.
ChildEnvironment(user, command, packs) ==
    [path |-> command.path,
     packs |-> IF packs = {} THEN {} ELSE IF command.packs # {} THEN command.packs ELSE user.packs]
===============================================================================
