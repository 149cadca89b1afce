------------------------- MODULE ServerManager_proofs -------------------------
(***************************************************************************)
(* For every bound on requests and faults: the types; "running" is shown   *)
(* of a server that is polled; of an interpreter that runs directly and of *)
(* which nothing was left behind, one server serves and none is left when  *)
(* "stopped" is shown; and a server that runs directly keeps its lease.    *)
(***************************************************************************)
EXTENDS ServerManager, TLAPS

MaybeProc == Procs \cup {None}
Leases == LeaseIds \cup {None}
Watches == [server : Procs, child : MaybeProc, lease : Leases]
Retained == [lease : Leases, pids : SUBSET MaybeProc, identified : BOOLEAN]
LeaseStates == [active : Leases, pids : SUBSET MaybeProc, identified : BOOLEAN,
                retained : SUBSET Retained, held : SUBSET LeaseIds]
Runs == [spawned : BOOLEAN, lease : Leases, bound : MaybeProc, verified : BOOLEAN, released : BOOLEAN]

\* Where a request looks at a server it found, has one of its own, or ends one.
Finding == {"verify", "check", "lease", "evicting"}
Spawning == {"bind", "waitpid", "own", "health", "killed", "catch", "failed"}
Stopping == {"stopping", "forced"}
Places == {"next", "start", "probe", "verify", "check", "lease", "evicting", "acquire", "spawn",
           "bind", "waitpid", "own", "health", "killed", "catch", "failed", "stop", "stopping",
           "forced", "read", "done"}
Frames == [pc : Places, target : MaybeProc, child : MaybeProc, lease : Leases, g : 0..MaxRequests + 1]
Statuses == {"idle", "starting", "running", "stopping", "stopped", "error"}
Kinds == {"start", "stop", "restart", "cleanup"}

\* What every variable holds.
MgrType ==
    mgr \in [status : Statuses, managed : BOOLEAN, child : MaybeProc, pidFile : MaybeProc,
             gen : 0..MaxRequests + 1, poll : SUBSET Watches, cleaningUp : BOOLEAN,
             forgotten : SUBSET Procs]
LeaseType == ls \in LeaseStates
OpType ==
    /\ op \in Frames
    /\ op.pc \in Finding => op.target \in Procs
    /\ op.pc \in Spawning => op.g \in Gens
DetectType ==
    /\ detect \in Frames
    /\ detect.pc \in {"verify", "check", "lease"} => detect.target \in Procs
RunsType == runs \in [Gens -> Runs]
InflightType == inflight \in [watch : Watches, current : BOOLEAN] \cup {None}
WorldType ==
    /\ alive \subseteq Procs /\ ready \cup term \subseteq alive /\ file \in MaybeProc
    /\ unborn \subseteq Gens /\ exits \subseteq Gens /\ direct \in BOOLEAN
Types == MgrType /\ LeaseType /\ OpType /\ DetectType /\ RunsType /\ InflightType /\ WorldType

\* Every request that has not settled, but for a cleanup, has a generation left.
Budget ==
    /\ queue \in Seq(Kinds) /\ requests \in Nat /\ requests <= MaxRequests
    /\ mgr.gen + Len(queue) + (IF detect.pc = "done" THEN 0 ELSE 1)
          <= requests + 1 + (IF mgr.cleaningUp /\ queue # <<>> THEN 1 ELSE 0) + (IF op.pc \in Spawning THEN 1 ELSE 0)
    /\ mgr.cleaningUp /\ queue # <<>> => queue[Len(queue)] = "cleanup"
    /\ op.pc # "next" => queue # <<>>
    /\ op.pc \notin {"next", "stop"} \cup Stopping => queue[1] # "cleanup"

TypeInv == Types /\ Budget

\* Nothing is of a generation that has not been made; the PID file and a
\* daemon appear only when the launcher has started it.
WorldInv ==
    /\ \A p \in alive : p[1] <= mgr.gen
    /\ \A g \in unborn \cup exits : g <= mgr.gen
    /\ direct => unborn = {} /\ \A p \in alive : p = Existing \/ p[2] = "child"
    /\ file \in alive => file \in ready
    /\ file # None => file[1] <= mgr.gen
    /\ \A g \in unborn : file # <<g, "daemon">> /\ <<g, "daemon">> \notin alive

\* A server that was there before is the only one while it lives, and nothing
\* but the request or the detection that found it deals with it.
ExistingInv ==
    /\ detect.pc = "read" =>
          queue = <<>> /\ op.pc = "next" /\ mgr.child = None /\ alive \subseteq {Existing} /\ unborn = {}
    /\ detect.pc \in {"verify", "check", "lease"} => detect.target = Existing
    /\ Existing \in alive =>
          /\ file = Existing /\ alive = {Existing} /\ unborn = {} /\ ~mgr.managed
          /\ op.pc \notin {"acquire", "spawn"} \cup Spawning \cup Stopping
          /\ op.pc \in Finding => op.target = Existing
    /\ op.pc \in Finding => op.target[1] <= mgr.gen

\* One server is polled, none once a stop is under way, and "running" is never
\* shown without a poll.
PollInv ==
    /\ \A v, w \in mgr.poll : v = w
    /\ \A w \in mgr.poll :
          /\ w.server[1] <= mgr.gen
          /\ mgr.pidFile # None \/ (w.server = Existing /\ Existing \notin alive)
          /\ op.pc \in Stopping => w.server = Existing
    /\ inflight # None /\ inflight.current => inflight.watch \in mgr.poll
    /\ mgr.status = "running" /\ ~mgr.cleaningUp => mgr.pidFile # None /\ mgr.poll # {}
    /\ op.pc \in {"spawn"} \cup Spawning => mgr.status \notin {"stopped", "stopping"}
    /\ mgr.status = "stopping" => op.pc \in Stopping
    /\ op.pc \in Spawning => op.g <= mgr.gen

\* Of a direct build that left nothing behind: at most one process lives, the
\* manager, the PID file and the running request all mean that one, and the
\* places between them say how far its start or its end has come.
OneProcess ==
    /\ \A p, q \in alive : p = q
    /\ \A p \in ready : p = file
    /\ \A p \in alive : p = Existing \/ p = mgr.child
    /\ \A p \in alive : p[2] = "child" => \A g \in exits : g < p[1]
    /\ op.pc \in {"acquire", "spawn"} => alive = {}
    /\ op.pc \in Finding => alive \subseteq {op.target}
    /\ op.pc \in {"bind", "waitpid", "own", "health"} => alive \subseteq {Child(op.g)}
    /\ op.pc = "failed" => alive \subseteq {op.child}
    /\ op.pc \in Stopping => alive \subseteq {Existing, op.child}
    /\ op.pc \notin {"bind", "waitpid", "killed", "catch", "failed"} => alive \subseteq ready
    /\ mgr.status = "stopped" => alive \subseteq {Existing}
    /\ \A w \in mgr.poll : w.server = mgr.pidFile \/ w.server \notin alive
    /\ mgr.status = "running" /\ ~mgr.cleaningUp /\ op.pc \notin {"own", "health", "killed", "catch"}
          => \A w \in mgr.poll : w.server = mgr.pidFile
TidyInv == Tidy => OneProcess

IInv == TypeInv /\ WorldInv /\ ExistingInv /\ PollInv /\ TidyInv

\* Lease n is held, and no retained record of it can be found over while a
\* process of keep lives.
Held(l, n, keep) ==
    /\ n \in l.held
    /\ \A r \in l.retained : r.lease = n => r.pids = {} \/ ~r.identified \/ r.pids \cap keep # {}

Consumer(g) == runs[g].lease # None /\ Child(g) \in alive

\* What a generation's callbacks know of it.
RunInv ==
    \A g \in Gens :
        /\ runs[g].bound \in {None, Child(g)}
        /\ Child(g) \in alive => runs[g].spawned /\ g \notin exits
        /\ \A h \in Gens : runs[g].lease = runs[h].lease => g = h \/ runs[g].lease = None

\* The child is the last process that was spawned.
ChildInv ==
    /\ mgr.child # None =>
          \E h \in Gens : /\ mgr.child = Child(h) /\ h <= mgr.gen
                          /\ \A g \in exits : g <= h
                          /\ \A p \in alive : p[1] <= h
    /\ op.pc \in Spawning => mgr.child \in {None, Child(op.g)}
    /\ op.pc = "failed" => mgr.child \in {None, op.child}

\* Whoever would release a consumer's lease waits for the consumer.
CoverInv ==
    \A g \in Gens : Consumer(g) =>
        /\ Held(ls, runs[g].lease, {Child(g)})
        /\ ls.active = runs[g].lease => mgr.child = Child(g) /\ Child(g) \in ls.pids
        /\ \A w \in mgr.poll : w.lease = runs[g].lease => Child(g) \in {w.server, w.child}
        /\ op.pc \in Stopping /\ op.lease = runs[g].lease => op.child = Child(g)

\* A lease that was acquired and has no process yet is nobody else's.
FreshInv ==
    /\ op.pc \in {"spawn", "evicting"} /\ op.lease # None => \A g \in Gens : runs[g].lease # op.lease
    /\ op.pc = "spawn" /\ ls.active # None => \A g \in Gens : runs[g].lease # ls.active
    /\ op.pc = "spawn" /\ op.lease # None =>
          /\ Held(ls, op.lease, {})
          /\ ls.active = op.lease => ls.pids = {}
          /\ \A w \in mgr.poll : w.lease # op.lease

LeaseInv == direct => RunInv /\ ChildInv /\ CoverInv /\ FreshInv

-------------------------------------------------------------------------------
(* Types, and a generation for every start                                 *)

LEMMA DroppedType ==
  ASSUME NEW l \in LeaseStates, NEW lease PROVE Dropped(l, lease) \in LeaseStates
BY DEF Dropped, LeaseStates, Leases

LEMMA AcquireType ==
  ASSUME NEW l \in LeaseStates, NEW n \in LeaseIds PROVE Acquire(l, n) \in LeaseStates
BY DEF Acquire, LeaseStates

LEMMA ReplaceType ==
  ASSUME NEW l \in LeaseStates, NEW next \in Leases, NEW pids \in SUBSET MaybeProc,
         NEW identified \in BOOLEAN
  PROVE  Replace(l, next, pids, identified) \in LeaseStates
BY DEF Replace, Retain, Retained, LeaseStates

LEMMA ReleaseRunType ==
  ASSUME NEW l \in LeaseStates, NEW g PROVE ReleaseRun(l, g) \in LeaseStates
BY DroppedType DEF ReleaseRun

LEMMA ReleasedType ==
  ASSUME RunsType, NEW g \in Gens PROVE Released(g) \in [Gens -> Runs]
<1> DEFINE r == [runs[g] EXCEPT !.released = @ \/ MayRelease(g, FALSE)]
<1>1. runs[g] \in Runs BY DEF RunsType
<1>2. (runs[g].released \/ MayRelease(g, FALSE)) \in BOOLEAN OBVIOUS
<1>3. r \in Runs
  <2> DEFINE b == runs[g].released \/ MayRelease(g, FALSE)
  <2>1. b \in BOOLEAN BY <1>2
  <2> HIDE DEF b
  <2>2. r = [runs[g] EXCEPT !.released = b] BY DEF b
  <2> HIDE DEF r
  <2> QED BY <1>1, <2>1, <2>2 DEF Runs
<1>4. Released(g) = [runs EXCEPT ![g] = r] BY DEF Released
<1> HIDE DEF r
<1> QED BY <1>3, <1>4 DEF RunsType

LEMMA ProcFacts ==
  /\ None \notin Procs /\ Existing \in Procs
  /\ \A g \in Gens : Child(g) \in Procs /\ Server(g) \in Procs
<1>1. \A g \in Gens : g \in Nat /\ g > 0
  BY BoundsAssumption DEF Gens
<1>2. Procs \subseteq Nat \X {"child", "daemon"}
  BY <1>1 DEF Procs, Existing
<1> QED BY <1>2, NoneAssumption DEF Procs, Child, Server

LEMMA WatchType ==
  ASSUME NEW p \in Procs, NEW c \in MaybeProc, NEW lease \in Leases
  PROVE  {Watch(p, c, lease)} \in SUBSET Watches
BY DEF Watch, Watches

\* What an action that has a generation left may make of it.
LEMMA NextGen ==
  ASSUME MgrType, mgr.gen <= MaxRequests
  PROVE  mgr.gen + 1 \in Gens /\ mgr.gen + 1 \in 0..MaxRequests + 1
BY BoundsAssumption DEF MgrType, Gens

LEMMA AdoptType ==
  ASSUME MgrType, mgr.gen <= MaxRequests, NEW p \in Procs, NEW lease \in Leases, Adopt(p, lease)
  PROVE  MgrType'
<1> DEFINE w == {Watch(p, mgr.child, lease)}
<1>1. w \in SUBSET Watches BY WatchType DEF MgrType
<1>2. mgr' = [mgr EXCEPT !.status = "running", !.managed = FALSE, !.pidFile = p,
                         !.gen = @ + 1, !.poll = w]
  BY DEF Adopt
<1>3. mgr.gen + 1 \in 0..MaxRequests + 1 BY NextGen
<1>4. p \in MaybeProc BY DEF MaybeProc
<1> HIDE DEF w
<1> QED BY <1>1, <1>2, <1>3, <1>4 DEF MgrType, Statuses

LEMMA MgrTypeStep ==
  ASSUME Types, Next,
         \/ Check \/ LeaseExisting \/ Spawn \/ DetectCheck \/ DetectLease => mgr.gen <= MaxRequests
  PROVE  MgrType'
<1> USE ProcFacts DEF MgrType, Statuses, MaybeProc
<1>1. CASE Verify \/ Evicted \/ Acquired \/ StartFails \/ StartFailed \/ StopOnce \/ Cleanup
  BY <1>1, ZenonT(60) DEF Verify, Evicted, Acquired, StartFails, StartFailed, StopOnce, Cleanup, GiveUp, Types
<1>2. CASE Check
  BY <1>2, AdoptType DEF Check, At, Types, OpType, Finding, Leases
<1>3. CASE LeaseExisting
  BY <1>3, AdoptType DEF LeaseExisting, At, Types, OpType, Finding, Leases, Acquirable
<1>4. CASE Spawn
  <2>1. Child(mgr.gen + 1) \in Procs /\ mgr.gen + 1 \in 0..MaxRequests + 1
    BY <1>4, NextGen DEF Types
  <2> QED BY <1>4, <2>1, ZenonT(60) DEF Spawn, Types
<1>5. CASE Own
  <2>1. Server(op.g) \in Procs BY <1>5 DEF Own, At, Types, OpType, Spawning
  <2> QED BY <1>5, <2>1 DEF Own, Types
<1>6. CASE Healthy
  <2>1. Server(op.g) \in Procs BY <1>6 DEF Healthy, At, Types, OpType, Spawning
  <2>2. {Watch(Server(op.g), mgr.child, ls.active)} \in SUBSET Watches
    BY <2>1, WatchType DEF Types, LeaseType, LeaseStates
  <2> QED BY <1>6, <2>1, <2>2, ZenonT(60) DEF Healthy, Types
<1>7. CASE StopWait \/ StopForced
  BY <1>7, ZenonT(60) DEF StopWait, StopForced, ConfirmStopped, Types
<1>8. CASE \E g \in Gens : ExitEvent(g) \/ ErrorEvent(g)
  BY <1>8, ZenonT(60) DEF ExitEvent, ErrorEvent, Forget, Types
<1>9. CASE PollReturn
  <2>1. mgr.forgotten \cup ({mgr.child} \cap alive) \in SUBSET Procs BY DEF Types, WorldType
  <2>2. \/ \E s \in Statuses : mgr' = [mgr EXCEPT !.status = s]
        \/ mgr' = [mgr EXCEPT !.poll = {}, !.child = None, !.pidFile = None, !.status = "error",
                              !.forgotten = @ \cup ({mgr.child} \cap alive)]
        \/ UNCHANGED mgr
    BY <1>9 DEF PollReturn, Types
  <2> QED BY <2>1, <2>2, ZenonT(60) DEF Types
<1>10. CASE DetectRead \/ DetectVerify
  BY <1>10 DEF DetectRead, DetectVerify, DetectFails, Types
<1>11. CASE DetectCheck
  BY <1>11, AdoptType DEF DetectCheck, DetectFails, Types, DetectType, Leases
<1>12. CASE DetectLease
  BY <1>12, AdoptType DEF DetectLease, DetectFails, Types, DetectType, Leases, Acquirable
<1>13. CASE UNCHANGED mgr
  BY <1>13 DEF Types
<1> QED
  BY <1>1, <1>2, <1>3, <1>4, <1>5, <1>6, <1>7, <1>8, <1>9, <1>10, <1>11, <1>12, <1>13
  DEF Next, Manager, Environment, Begin, StartOnce, Probe, BindChild, Killed, WaitPidFile, PollReplace,
      PollSend, AppExit, Request, LauncherStarts, WritePidFile, Dies

LEMMA LeaseTypeStep ==
  ASSUME Types, Next, Spawn => mgr.gen <= MaxRequests PROVE LeaseType'
<1> USE DroppedType, AcquireType, ReplaceType, ReleaseRunType DEF LeaseType
<1>1. /\ op.lease \in Leases /\ op.target \in MaybeProc /\ detect.target \in MaybeProc
      /\ None \in Leases /\ Acquirable \subseteq LeaseIds /\ LeaseIds \subseteq Leases
      /\ {op.target} \in SUBSET MaybeProc /\ {detect.target} \in SUBSET MaybeProc
      /\ {} \in SUBSET MaybeProc
  BY DEF Types, OpType, DetectType, Frames, Leases, Acquirable
<1>2. CASE Check \/ DetectCheck
  BY <1>1, <1>2 DEF Check, DetectCheck, Types
<1>3. CASE LeaseExisting
  BY <1>1, <1>3 DEF LeaseExisting, Types
<1>4. CASE Evicted \/ StartFailed
  BY <1>4 DEF Evicted, StartFailed, Types
<1>5. CASE Acquired
  <2>1. CASE UNCHANGED ls
    BY <2>1 DEF Types
  <2>2. CASE \E n \in {None} \cup Acquirable :
               ls' = Replace(IF n = None THEN ls ELSE Acquire(ls, n), n, {}, FALSE)
    BY <1>1, <2>2 DEF Types
  <2> QED BY <1>5, <2>1, <2>2 DEF Acquired
<1>6. CASE Spawn
  <2>1. \/ ls' \in {ls, Dropped(ls, op.lease)}
        \/ /\ ls' = [ls EXCEPT !.pids = {Child(mgr.gen + 1)}, !.identified = direct]
           /\ {Child(mgr.gen + 1)} \in SUBSET MaybeProc /\ direct \in BOOLEAN
        \/ ls' = [ls EXCEPT !.pids = {}, !.identified = FALSE]
        \/ ls' = [Dropped(ls, op.lease) EXCEPT !.pids = {}, !.identified = FALSE]
    BY <1>6, NextGen, ProcFacts DEF Spawn, Types, WorldType, MaybeProc
  <2>2. ls \in LeaseStates /\ Dropped(ls, op.lease) \in LeaseStates
    BY DEF Types
  <2>3. ASSUME NEW l \in LeaseStates, NEW ps \in SUBSET MaybeProc, NEW b \in BOOLEAN
        PROVE  [l EXCEPT !.pids = ps, !.identified = b] \in LeaseStates
    BY DEF LeaseStates
  <2>4. {} \in SUBSET MaybeProc /\ FALSE \in BOOLEAN OBVIOUS
  <2>5. CASE ls' = [ls EXCEPT !.pids = {Child(mgr.gen + 1)}, !.identified = direct]
    BY <1>6, <2>1, <2>2, <2>3, <2>5 DEF Types, WorldType, MaybeProc
  <2>6. CASE ls' = [ls EXCEPT !.pids = {}, !.identified = FALSE]
    BY <2>2, <2>3, <2>4, <2>6
  <2>7. CASE ls' = [Dropped(ls, op.lease) EXCEPT !.pids = {}, !.identified = FALSE]
    BY <2>2, <2>3, <2>4, <2>7
  <2> QED BY <2>1, <2>2, <2>5, <2>6, <2>7
<1>7. CASE Own
  <2>1. Child(op.g) \in Procs /\ Server(op.g) \in Procs
    BY <1>7, ProcFacts DEF Own, At, Types, OpType, Spawning
  <2>2. UNCHANGED ls \/ ls' = [ls EXCEPT !.pids = {Child(op.g), Server(op.g)}, !.identified = TRUE]
    BY <1>7 DEF Own
  <2>3. {Child(op.g), Server(op.g)} \in SUBSET MaybeProc BY <2>1 DEF MaybeProc
  <2> QED BY <2>2, <2>3 DEF Types, LeaseStates
<1>8. CASE StopWait \/ StopForced
  <2>1. UNCHANGED ls \/ ls' = Replace([Dropped(ls, op.lease) EXCEPT !.active = None], None, {}, FALSE)
    BY <1>8 DEF StopWait, StopForced, ConfirmStopped
  <2>2. Dropped(ls, op.lease) \in LeaseStates
    BY DEF Types
  <2>3. [Dropped(ls, op.lease) EXCEPT !.active = None] \in LeaseStates
    BY <1>1, <2>2 DEF LeaseStates
  <2> QED BY <1>1, <2>1, <2>3 DEF Types
<1>9. CASE \E g \in Gens : ExitEvent(g)
  BY <1>9 DEF ExitEvent, Types
<1>10. CASE PollReturn \/ PollReplace
  BY <1>1, <1>10 DEF PollReturn, PollReplace, Types
<1>11. CASE DetectLease
  BY <1>1, <1>11 DEF DetectLease, Types
<1>12. CASE UNCHANGED ls
  BY <1>12 DEF Types
<1> QED
  BY <1>2, <1>3, <1>4, <1>5, <1>6, <1>7, <1>8, <1>9, <1>10, <1>11, <1>12
  DEF Next, Manager, Environment, Begin, StartOnce, Probe, Verify, BindChild, Killed, WaitPidFile, Healthy,
      StartFails, StopOnce, DetectRead, DetectVerify, PollSend, Cleanup, AppExit, Request, ErrorEvent,
      LauncherStarts, WritePidFile, Dies

LEMMA PlaceFacts ==
  /\ "next" \in Places /\ "start" \in Places /\ "probe" \in Places /\ "verify" \in Places
  /\ "check" \in Places /\ "lease" \in Places /\ "evicting" \in Places /\ "acquire" \in Places
  /\ "spawn" \in Places /\ "bind" \in Places /\ "waitpid" \in Places /\ "own" \in Places
  /\ "health" \in Places /\ "killed" \in Places /\ "catch" \in Places /\ "failed" \in Places
  /\ "stop" \in Places /\ "stopping" \in Places /\ "forced" \in Places /\ "read" \in Places
  /\ "done" \in Places
BY DEF Places

LEMMA FrameFields ==
  ASSUME NEW place \in Places
  PROVE  /\ Frame(place) \in Frames /\ Frame(place).pc = place
         /\ Frame(place).target = None /\ Frame(place).child = None
         /\ Frame(place).lease = None /\ Frame(place).g = 0
BY BoundsAssumption DEF Frame, Frames, MaybeProc, Leases

LEMMA GotoFields ==
  ASSUME op \in Frames, NEW place \in Places, Goto(place)
  PROVE  /\ op' \in Frames /\ op'.pc = place
         /\ op'.target = op.target /\ op'.child = op.child /\ op'.lease = op.lease /\ op'.g = op.g
<1>1. op' \in Frames BY DEF Goto, Frames
<1> QED BY <1>1 DEF Goto, Frames

LEMMA EvictFields ==
  ASSUME op \in Frames, NEW lease \in Leases, Evict(lease)
  PROVE  /\ op' \in Frames /\ op'.pc = "evicting"
         /\ op'.target = op.target /\ op'.child = op.child /\ op'.lease = lease /\ op'.g = op.g
<1>1. op' \in Frames BY PlaceFacts DEF Evict, Frames
<1> QED BY <1>1 DEF Evict, Frames

LEMMA EndFields ==
  /\ EndRequest => op' = Frame("next") /\ queue' = Tail(queue)
  /\ EndStop => \/ op' = Frame("start") /\ UNCHANGED queue
                \/ op' = Frame("next") /\ queue' = Tail(queue)
  /\ GiveUp => op' = Frame("next") /\ queue' = Tail(queue) /\ mgr' = [mgr EXCEPT !.status = "error"]
BY DEF EndRequest, EndStop, GiveUp

LEMMA OpTypeStep ==
  ASSUME Types, Next, Spawn => mgr.gen <= MaxRequests PROVE OpType'
<1> USE PlaceFacts, FrameFields, GotoFields, EndFields DEF OpType, Finding, Spawning, Types
<1>1. CASE Begin \/ StartOnce \/ Verify
  BY <1>1 DEF Begin, StartOnce, Verify, At
<1>2. CASE Probe
  <2>1. CASE file \in Procs /\ op' = [op EXCEPT !.pc = "verify", !.target = file]
    <3>1. op' \in Frames BY <2>1 DEF Frames, MaybeProc
    <3> QED BY <2>1, <3>1 DEF Frames
  <2> QED BY <1>2, <2>1 DEF Probe, Serves, WorldType, MaybeProc
<1>3. CASE Check
  <2>1. op.target \in Procs /\ None \in Leases BY <1>3 DEF Check, At, Leases
  <2>2. op' = Frame("next") \/ Goto("lease") \/ Evict(None) BY <1>3 DEF Check
  <2> QED BY <2>1, <2>2, EvictFields
<1>4. CASE LeaseExisting
  BY <1>4, EvictFields, ZenonT(60) DEF LeaseExisting, At, Leases, Acquirable
<1>5. CASE Evicted
  BY <1>5 DEF Evicted, At
<1>6. CASE Acquired
  <2>1. ASSUME NEW n \in Leases, op' = [op EXCEPT !.pc = "spawn", !.lease = n] PROVE OpType'
    <3>1. op' \in Frames BY <2>1 DEF Frames
    <3> QED BY <2>1, <3>1 DEF Frames
  <2> QED BY <1>6, <2>1, ZenonT(60) DEF Acquired, Leases, Acquirable
<1>7. CASE Spawn
  <2>1. mgr.gen + 1 \in Gens /\ mgr.gen + 1 \in 0..MaxRequests + 1
    BY <1>7, NextGen
  <2>2. ASSUME NEW place \in {"waitpid", "bind"}, op' = [op EXCEPT !.g = mgr.gen + 1, !.pc = place]
        PROVE  OpType'
    <3>1. op' \in Frames BY <2>1, <2>2, ZenonT(60) DEF Frames
    <3> QED BY <2>1, <2>2, <3>1 DEF Frames
  <2> QED BY <1>7, <2>2, ZenonT(60) DEF Spawn
<1>8. CASE BindChild \/ Killed \/ WaitPidFile
  BY <1>8 DEF BindChild, Killed, WaitPidFile, At
<1>9. CASE Own \/ Healthy
  BY <1>9 DEF Own, Healthy, At
<1>10. CASE StartFailed
  BY <1>10 DEF StartFailed
<1>11. CASE StartFails
  <2>1. op' = [op EXCEPT !.pc = "failed", !.child = mgr.child] /\ mgr.child \in MaybeProc /\ op.g \in Gens
    BY <1>11 DEF StartFails, At, MgrType
  <2>2. op' \in Frames BY <2>1 DEF Frames
  <2> QED BY <2>1, <2>2 DEF Frames
<1>12. CASE StopOnce
  <2>1. ASSUME op' = [op EXCEPT !.pc = "stopping", !.child = mgr.child, !.target = mgr.pidFile, !.lease = ls.active]
        PROVE  OpType'
    <3>1. mgr.child \in MaybeProc /\ mgr.pidFile \in MaybeProc /\ ls.active \in Leases
      BY DEF MgrType, LeaseType, LeaseStates
    <3>2. op' \in Frames BY <2>1, <3>1 DEF Frames
    <3> QED BY <2>1, <3>2 DEF Frames
  <2> QED BY <1>12, <2>1 DEF StopOnce
<1>13. CASE StopWait \/ StopForced
  BY <1>13 DEF StopWait, StopForced, At
<1>14. CASE UNCHANGED op
  BY <1>14
<1> QED
  BY <1>1, <1>2, <1>3, <1>4, <1>5, <1>6, <1>7, <1>8, <1>9, <1>10, <1>11, <1>12, <1>13, <1>14
  DEF Next, Manager, Environment, DetectRead, DetectVerify, DetectCheck, DetectLease, PollReturn,
      PollReplace, ExitEvent, PollSend, Cleanup, AppExit, Request, ErrorEvent, LauncherStarts,
      WritePidFile, Dies

LEMMA DetectTypeStep ==
  ASSUME Types, Next PROVE DetectType'
<1> USE PlaceFacts, FrameFields DEF DetectType
<1>1. CASE DetectRead
  <2>1. CASE file \in Procs /\ detect' = [detect EXCEPT !.pc = "verify", !.target = file]
    <3>1. detect' \in Frames BY <2>1 DEF Types, Frames, MaybeProc
    <3> QED BY <2>1, <3>1 DEF Types, Frames
  <2> QED BY <1>1, <2>1 DEF DetectRead, DetectFails, Types, WorldType, MaybeProc
<1>2. CASE DetectVerify \/ DetectCheck \/ DetectLease
  <2>1. ASSUME NEW place \in {"check", "lease"}, detect' = [detect EXCEPT !.pc = place] PROVE DetectType'
    <3>1. detect' \in Frames BY <2>1 DEF Types, Frames
    <3>2. detect.target \in Procs BY <1>2 DEF DetectVerify, DetectCheck, DetectLease, Types
    <3> QED BY <2>1, <3>1, <3>2 DEF Types, Frames
  <2> QED BY <1>2, <2>1 DEF DetectVerify, DetectCheck, DetectLease, DetectGoto, DetectFails
<1>3. CASE UNCHANGED detect
  BY <1>3 DEF Types
<1> QED
  BY <1>1, <1>2, <1>3
  DEF Next, Manager, Environment, Begin, StartOnce, Probe, Verify, Check, LeaseExisting, Evicted,
      Acquired, Spawn, BindChild, Killed, WaitPidFile, Own, Healthy, StartFails, StartFailed,
      StopOnce, StopWait, StopForced, PollReturn, PollReplace, ExitEvent, PollSend, Cleanup,
      AppExit, Request, ErrorEvent, LauncherStarts, WritePidFile, Dies

LEMMA RunsTypeStep ==
  ASSUME Types, Next, Spawn => mgr.gen <= MaxRequests PROVE RunsType'
<1> USE DEF RunsType, Types
<1>1. CASE Spawn
  <2>1. mgr.gen + 1 \in Gens BY <1>1, NextGen
  <2>2. op.lease \in Leases BY DEF OpType, Frames
  <2>3. \E r \in Runs : runs' = [runs EXCEPT ![mgr.gen + 1] = r] \/ UNCHANGED runs
    <3> DEFINE r == [spawned |-> TRUE, lease |-> op.lease, bound |-> None, verified |-> FALSE, released |-> FALSE]
    <3>1. r \in Runs BY <2>2 DEF Runs, MaybeProc
    <3>2. [r EXCEPT !.spawned = FALSE, !.released = TRUE] \in Runs BY <2>2 DEF Runs, MaybeProc
    <3> QED BY <1>1, <3>1, <3>2 DEF Spawn
  <2> QED BY <2>1, <2>3
<1>2. CASE BindChild \/ Own
  <2>1. op.g \in Gens BY <1>2 DEF BindChild, Own, At, OpType, Spawning
  <2>2. Child(op.g) \in MaybeProc /\ Server(op.g) \in MaybeProc BY <2>1, ProcFacts DEF MaybeProc
  <2>3. runs[op.g] \in Runs /\ runs[op.g].bound \in MaybeProc BY <2>1 DEF Runs
  <2>4. \A p \in MaybeProc : [runs EXCEPT ![op.g].bound = p] \in [Gens -> Runs]
    BY <2>1, <2>3 DEF Runs
  <2>5. \A p \in MaybeProc : [runs EXCEPT ![op.g].bound = p, ![op.g].verified = TRUE] \in [Gens -> Runs]
    BY <2>1, <2>3 DEF Runs
  <2> QED BY <1>2, <2>2, <2>3, <2>4, <2>5 DEF BindChild, Own
<1>3. CASE StartFailed
  <2>1. op.g \in Gens BY <1>3 DEF StartFailed, At, OpType, Spawning
  <2> QED BY <1>3, <2>1, ReleasedType DEF StartFailed
<1>4. CASE \E g \in Gens : ExitEvent(g)
  BY <1>4, ReleasedType DEF ExitEvent
<1>5. CASE UNCHANGED runs
  BY <1>5
<1> QED
  BY <1>1, <1>2, <1>3, <1>4, <1>5
  DEF Next, Manager, Environment, Begin, StartOnce, Probe, Verify, Check, LeaseExisting, Evicted,
      Acquired, Killed, WaitPidFile, Healthy, StartFails, StopOnce, StopWait, StopForced,
      DetectRead, DetectVerify, DetectCheck, DetectLease, PollReturn, PollReplace, PollSend, Cleanup,
      AppExit, Request, ErrorEvent, LauncherStarts, WritePidFile, Dies

LEMMA StalePollType ==
  ASSUME InflightType, StalePoll PROVE InflightType'
BY DEF StalePoll, InflightType

LEMMA InflightTypeStep ==
  ASSUME Types, Next PROVE InflightType'
<1> USE StalePollType DEF Types
<1>1. CASE Check \/ LeaseExisting \/ DetectCheck \/ DetectLease
  BY <1>1 DEF Check, LeaseExisting, DetectCheck, DetectLease, Adopt, InflightType
<1>2. CASE Spawn \/ Healthy \/ StopOnce \/ Cleanup \/ \E g \in Gens : ExitEvent(g)
  BY <1>2 DEF Spawn, Healthy, StopOnce, Cleanup, ExitEvent, InflightType
<1>3. CASE PollSend
  BY <1>3 DEF PollSend, InflightType, MgrType
<1>4. CASE PollReturn
  BY <1>4 DEF PollReturn, InflightType
<1>5. CASE UNCHANGED inflight
  BY <1>5 DEF InflightType
<1> QED
  BY <1>1, <1>2, <1>3, <1>4, <1>5
  DEF Next, Manager, Environment, Begin, StartOnce, Probe, Verify, Evicted, Acquired, BindChild,
      Killed, WaitPidFile, Own, StartFails, StartFailed, StopWait, StopForced, DetectRead,
      DetectVerify, PollReplace, AppExit, Request, ErrorEvent, LauncherStarts, WritePidFile, Dies

LEMMA WorldTypeStep ==
  ASSUME Types, Next, Spawn => mgr.gen <= MaxRequests PROVE WorldType'
<1> USE ProcFacts DEF Types, WorldType, MaybeProc, world, bounds
<1>1. CASE Probe
  BY <1>1 DEF Probe
<1>2. CASE Evicted
  BY <1>2 DEF Evicted
<1>3. CASE Spawn
  <2>1. mgr.gen + 1 \in Gens BY <1>3, NextGen
  <2> QED BY <1>3, <2>1 DEF Spawn
<1>4. CASE Check \/ LeaseExisting \/ BindChild \/ Own
  BY <1>4 DEF Check, LeaseExisting, BindChild, Own, Evict, Tell
<1>5. CASE StartFails \/ StopOnce \/ StopWait
  BY <1>5 DEF StartFails, StopOnce, StopWait, Tell
<1>6. CASE DetectRead
  BY <1>6 DEF DetectRead
<1>7. CASE \E g \in Gens : ExitEvent(g)
  BY <1>7 DEF ExitEvent
<1>8. CASE \E g \in Gens : LauncherStarts(g)
  BY <1>8 DEF LauncherStarts
<1>9. CASE \E p \in Procs : WritePidFile(p)
  BY <1>9 DEF WritePidFile, Alive
<1>10. CASE \E p \in Procs : Dies(p)
  <2>1. \A p \in Procs : p[2] = "child" => p[1] \in Gens
    BY DEF Procs, Existing
  <2> QED BY <1>10, <2>1 DEF Dies
<1>11. CASE UNCHANGED <<alive, ready, term, file, unborn, exits, direct>>
  BY <1>11
<1> QED
  BY <1>1, <1>2, <1>3, <1>4, <1>5, <1>6, <1>7, <1>8, <1>9, <1>10, <1>11
  DEF Next, Manager, Environment, Begin, StartOnce, Verify, Acquired, Killed, WaitPidFile, Healthy,
      StartFailed, StopForced, DetectVerify, DetectCheck, DetectLease, PollReturn, PollReplace,
      PollSend, Cleanup, AppExit, Request, ErrorEvent

LEMMA HasGeneration ==
  ASSUME Types, Budget
  PROVE  /\ Check \/ LeaseExisting \/ Spawn => mgr.gen <= MaxRequests
         /\ DetectCheck \/ DetectLease => mgr.gen <= MaxRequests
<1>1. mgr.gen \in Nat /\ Len(queue) \in Nat /\ MaxRequests \in Nat
  BY BoundsAssumption DEF Types, MgrType, Budget
<1>2. CASE Check \/ LeaseExisting \/ Spawn
  <2>1. /\ op.pc \in {"check", "lease", "spawn"} /\ queue # <<>> /\ queue[1] # "cleanup"
    BY <1>2 DEF Budget, Check, LeaseExisting, Spawn, At, Stopping
  <2>2. Len(queue) >= 1 /\ (mgr.cleaningUp => Len(queue) >= 2)
    BY <2>1 DEF Budget
  <2> QED BY <1>1, <2>1, <2>2 DEF Budget, Spawning
<1>3. CASE DetectCheck \/ DetectLease
  <2>1. detect.pc # "done" BY <1>3 DEF DetectCheck, DetectLease
  <2>2. op.pc \in Spawning => queue # <<>> /\ queue[1] # "cleanup"
    BY DEF Budget, Spawning, Stopping
  <2>3. /\ op.pc \in Spawning => Len(queue) >= 1
        /\ mgr.cleaningUp /\ queue # <<>> => Len(queue) >= 1
        /\ mgr.cleaningUp /\ op.pc \in Spawning => Len(queue) >= 2
    BY <2>2 DEF Budget
  <2> QED BY <1>1, <2>1, <2>3 DEF Budget
<1> QED BY <1>2, <1>3

LEMMA TailFacts ==
  ASSUME NEW q \in Seq(Kinds), q # <<>>
  PROVE  /\ Tail(q) \in Seq(Kinds) /\ Len(Tail(q)) = Len(q) - 1 /\ Len(q) \in Nat \ {0}
         /\ Tail(q) # <<>> => Tail(q)[Len(Tail(q))] = q[Len(q)]
         /\ Tail(q) = <<>> => Len(q) = 1
<1>1. Tail(q) \in Seq(Kinds) /\ Len(Tail(q)) = Len(q) - 1 /\ Len(q) \in Nat \ {0}
  OBVIOUS
<1>2. ASSUME Tail(q) # <<>> PROVE Tail(q)[Len(Tail(q))] = q[Len(q)]
  BY <1>2
<1>3. ASSUME Tail(q) = <<>> PROVE Len(q) = 1
  <2>1. Len(<<>>) = 0 OBVIOUS
  <2>2. Len(Tail(q)) = 0 BY <1>3, <2>1
  <2>3. Len(q) \in Nat /\ Len(q) - 1 = 0 BY <1>1, <2>2
  <2> QED BY <2>3
<1> QED BY <1>1, <1>2, <1>3

LEMMA AppendFacts ==
  ASSUME NEW q \in Seq(Kinds), NEW kind \in Kinds
  PROVE  /\ Append(q, kind) \in Seq(Kinds) /\ Len(Append(q, kind)) = Len(q) + 1 /\ Len(q) \in Nat
         /\ Append(q, kind) # <<>> /\ Append(q, kind)[Len(q) + 1] = kind
         /\ q # <<>> => Append(q, kind)[1] = q[1]
OBVIOUS

LEMMA BudgetNumbers ==
  ASSUME Types, Budget
  PROVE  /\ mgr.gen \in Nat /\ Len(queue) \in Nat /\ MaxRequests \in Nat
         /\ mgr.cleaningUp \in BOOLEAN /\ op \in Frames /\ detect \in Frames
BY BoundsAssumption DEF Types, MgrType, Budget, OpType, DetectType

\* A request that ends, having used its generation or not.
LEMMA BudgetEnds ==
  ASSUME Types, Budget, queue # <<>>, op' = Frame("next"), queue' = Tail(queue),
         mgr'.cleaningUp = mgr.cleaningUp, UNCHANGED <<detect, requests>>,
         mgr'.gen = mgr.gen \/ (mgr'.gen = mgr.gen + 1 /\ op.pc \in {"check", "lease"})
  PROVE  Budget'
<1>1. Frame("next").pc = "next" BY PlaceFacts, FrameFields
<1>2. queue' \in Seq(Kinds) /\ Len(queue') = Len(queue) - 1 /\ Len(queue) >= 1
      /\ (queue' # <<>> => queue'[Len(queue')] = queue[Len(queue)])
      /\ (queue' = <<>> => Len(queue) = 1)
  BY TailFacts DEF Budget
<1>3. mgr.cleaningUp /\ queue' = <<>> => op.pc \notin Spawning /\ mgr'.gen = mgr.gen
  BY <1>2 DEF Budget, Spawning, Stopping
<1>4. op'.pc \notin Spawning /\ (mgr'.gen = mgr.gen \/ (mgr'.gen = mgr.gen + 1 /\ op.pc \notin Spawning))
  BY <1>1 DEF Spawning
<1>5. /\ mgr.gen + Len(queue) + (IF detect.pc = "done" THEN 0 ELSE 1)
          <= requests + 1 + (IF mgr.cleaningUp /\ queue # <<>> THEN 1 ELSE 0) + (IF op.pc \in Spawning THEN 1 ELSE 0)
      /\ requests \in Nat
  BY DEF Budget
<1>6. requests' = requests /\ detect' = detect OBVIOUS
<1>7. mgr'.gen + Len(queue') + (IF detect'.pc = "done" THEN 0 ELSE 1)
        <= requests' + 1 + (IF mgr'.cleaningUp /\ queue' # <<>> THEN 1 ELSE 0) + 0
  <2> DEFINE d == IF detect.pc = "done" THEN 0 ELSE 1
  <2>1. d \in {0, 1} OBVIOUS
  <2>2. mgr.gen + Len(queue) + d
          <= requests + 1 + (IF mgr.cleaningUp /\ queue # <<>> THEN 1 ELSE 0) + (IF op.pc \in Spawning THEN 1 ELSE 0)
    BY <1>5
  <2> HIDE DEF d
  <2>3. mgr'.gen + Len(queue') + d
          <= requests + 1 + (IF mgr.cleaningUp /\ queue' # <<>> THEN 1 ELSE 0) + 0
    <3>1. CASE mgr.cleaningUp /\ queue' = <<>>
      BY <1>2, <1>3, <1>5, <2>1, <2>2, <3>1, BudgetNumbers
    <3>2. CASE mgr.cleaningUp /\ queue' # <<>>
      BY <1>2, <1>4, <1>5, <2>1, <2>2, <3>2, BudgetNumbers
    <3>3. CASE ~mgr.cleaningUp
      BY <1>2, <1>4, <1>5, <2>1, <2>2, <3>3, BudgetNumbers
    <3> QED BY <3>1, <3>2, <3>3
  <2> QED BY <1>6, <2>3 DEF d
<1> QED BY <1>1, <1>2, <1>4, <1>7 DEF Budget

\* A request that goes on.
LEMMA BudgetMoves ==
  ASSUME Types, Budget, UNCHANGED queue, mgr'.gen = mgr.gen,
         mgr'.cleaningUp = mgr.cleaningUp, UNCHANGED <<detect, requests>>,
         op.pc # "next", op.pc \in Spawning => op'.pc \in Spawning,
         op'.pc \in {"next", "stop"} \cup Stopping \/ op.pc \notin {"stop"} \cup Stopping
  PROVE  Budget'
BY BudgetNumbers DEF Budget

LEMMA BudgetDetects ==
  ASSUME Types, Budget, UNCHANGED <<queue, op, requests>>, mgr'.cleaningUp = mgr.cleaningUp,
         detect.pc # "done",
         mgr'.gen = mgr.gen \/ (mgr'.gen = mgr.gen + 1 /\ detect'.pc = "done")
  PROVE  Budget'
BY BudgetNumbers DEF Budget

\* Who does not make a generation.
LEMMA GenKept ==
  ASSUME MgrType,
         \/ Verify \/ Evicted \/ Acquired \/ Own \/ Healthy \/ StartFails \/ StartFailed
         \/ StopOnce \/ StopWait \/ StopForced \/ DetectRead \/ DetectVerify \/ PollReturn
         \/ \E g \in Gens : ExitEvent(g) \/ ErrorEvent(g)
  PROVE  mgr'.gen = mgr.gen /\ mgr'.cleaningUp = mgr.cleaningUp
<1> USE DEF MgrType
<1>1. CASE Verify \/ Evicted
  BY <1>1 DEF Verify, Evicted, GiveUp
<1>2. CASE Acquired
  BY <1>2 DEF Acquired, GiveUp
<1>3. CASE Own
  BY <1>3 DEF Own
<1>4. CASE Healthy
  BY <1>4 DEF Healthy
<1>5. CASE StartFails \/ StartFailed \/ StopOnce
  BY <1>5 DEF StartFails, StartFailed, StopOnce
<1>6. CASE StopWait
  BY <1>6 DEF StopWait, ConfirmStopped
<1>7. CASE StopForced
  BY <1>7 DEF StopForced, ConfirmStopped
<1>8. CASE DetectRead \/ DetectVerify
  BY <1>8 DEF DetectRead, DetectVerify, DetectFails
<1>9. CASE PollReturn
  BY <1>9 DEF PollReturn
<1>10. CASE \E g \in Gens : ExitEvent(g)
  BY <1>10 DEF ExitEvent, Forget
<1>11. CASE \E g \in Gens : ErrorEvent(g)
  BY <1>11 DEF ErrorEvent
<1> QED
  BY <1>1, <1>2, <1>3, <1>4, <1>5, <1>6, <1>7, <1>8, <1>9, <1>10, <1>11

LEMMA GenMade ==
  ASSUME MgrType
  PROVE  /\ \A p, lease : Adopt(p, lease) => mgr'.gen = mgr.gen + 1 /\ mgr'.cleaningUp = mgr.cleaningUp
         /\ \A status : DetectFails(status) => mgr'.gen = mgr.gen /\ mgr'.cleaningUp = mgr.cleaningUp
BY DEF MgrType, Adopt, DetectFails

LEMMA BudgetStep ==
  ASSUME Types, Budget, Next PROVE Budget'
<1>0. MgrType /\ op \in Frames /\ detect \in Frames /\ queue \in Seq(Kinds) /\ (op.pc # "next" => queue # <<>>)
  BY DEF Types, OpType, DetectType, Budget
<1>a. \A place \in Places : Frame(place).pc = place
  BY FrameFields
<1>b. \A place \in Places : Goto(place) => op'.pc = place
  BY <1>0, GotoFields
<1>c. \A lease : Evict(lease) => op'.pc = "evicting"
  BY <1>0 DEF Evict, Frames
<1>1. CASE Begin
  <2>1. op.pc = "next" /\ UNCHANGED <<mgr, detect, requests>> /\ queue # <<>>
    BY <1>1 DEF Begin, bounds
  <2>2. CASE EndRequest
    BY <2>1, <2>2, BudgetEnds DEF EndRequest
  <2>3. CASE Goto("stop") /\ UNCHANGED queue
    <3>1. op'.pc = "stop" BY <1>b, <2>3, PlaceFacts
    <3> QED BY <2>1, <2>3, <3>1 DEF Budget, Spawning
  <2>4. CASE Goto("start") /\ UNCHANGED queue /\ Head(queue) = "start"
    <3>1. op'.pc = "start" BY <1>b, <2>4, PlaceFacts
    <3>2. queue[1] = "start" BY <1>0, <2>1, <2>4
    <3> QED BY <2>1, <2>4, <3>1, <3>2 DEF Budget, Spawning
  <2> QED BY <1>1, <2>2, <2>3, <2>4 DEF Begin
<1>2. CASE StartOnce \/ Probe \/ Verify
  <2>1. op.pc \in {"start", "probe", "verify"} /\ UNCHANGED <<detect, requests>>
    BY <1>2 DEF StartOnce, Probe, Verify, At, bounds
  <2>2. mgr'.gen = mgr.gen /\ mgr'.cleaningUp = mgr.cleaningUp
    BY <1>0, <1>2, GenKept DEF StartOnce, Probe
  <2>3. (op'.pc \in {"probe", "verify", "acquire", "check"} /\ UNCHANGED queue) \/ EndRequest
    <3>1. CASE StartOnce
      BY <1>b, <3>1, PlaceFacts DEF StartOnce
    <3>2. CASE Probe
      BY <1>0, <1>b, <3>2, PlaceFacts DEF Probe, Frames
    <3>3. CASE Verify
      BY <1>b, <3>3, PlaceFacts DEF Verify, GiveUp
    <3> QED BY <1>2, <3>1, <3>2, <3>3
  <2> QED BY <1>0, <2>1, <2>2, <2>3, BudgetEnds, BudgetMoves DEF EndRequest, Spawning, Stopping
<1>3. CASE Check \/ LeaseExisting
  <2>1. op.pc \in {"check", "lease"} /\ UNCHANGED <<detect, requests>>
    BY <1>3 DEF Check, LeaseExisting, At
  <2>2. CASE UNCHANGED mgr /\ EndRequest
    BY <1>0, <2>1, <2>2, BudgetEnds DEF EndRequest
  <2>3. CASE UNCHANGED <<mgr, queue>> /\ (Goto("lease") \/ \E lease : Evict(lease))
    BY <1>b, <1>c, <2>1, <2>3, PlaceFacts, BudgetMoves DEF Spawning, Stopping
  <2>4. CASE EndRequest /\ \E lease : Adopt(op.target, lease)
    BY <1>0, <2>1, <2>4, GenMade, BudgetEnds DEF EndRequest, Spawning
  <2> QED BY <1>3, <2>2, <2>3, <2>4 DEF Check, LeaseExisting
<1>4. CASE Evicted \/ Acquired
  <2>1. op.pc \in {"evicting", "acquire"} /\ UNCHANGED <<detect, requests>>
    BY <1>4 DEF Evicted, Acquired, At
  <2>2. mgr'.gen = mgr.gen /\ mgr'.cleaningUp = mgr.cleaningUp
    BY <1>0, <1>4, GenKept
  <2>3. (op'.pc \in {"acquire", "spawn"} /\ UNCHANGED queue) \/ EndRequest
    <3>1. CASE Evicted
      BY <1>a, <3>1, PlaceFacts DEF Evicted, GiveUp
    <3>2. CASE Acquired
      BY <1>0, <3>2 DEF Acquired, GiveUp, Frames
    <3> QED BY <1>4, <3>1, <3>2
  <2> QED BY <1>0, <2>1, <2>2, <2>3, BudgetEnds, BudgetMoves DEF EndRequest, Spawning, Stopping
<1>5. CASE Spawn
  <2>1. op.pc = "spawn" /\ UNCHANGED <<detect, requests>> BY <1>5 DEF Spawn, At
  <2>2. CASE UNCHANGED mgr /\ EndRequest
    BY <1>0, <2>1, <2>2, BudgetEnds DEF EndRequest
  <2>3. ASSUME UNCHANGED queue, NEW place \in {"waitpid", "bind"},
               op' = [op EXCEPT !.g = mgr.gen + 1, !.pc = place],
               mgr'.gen = mgr.gen + 1, mgr'.cleaningUp = mgr.cleaningUp
        PROVE  Budget'
    <3>1. op'.pc \in {"waitpid", "bind"} BY <1>0, <2>3 DEF Frames
    <3>2. queue # <<>> /\ queue[1] # "cleanup" BY <2>1 DEF Budget, Stopping
    <3> QED BY <2>1, <2>3, <3>1, <3>2, BudgetNumbers DEF Budget, Spawning
  <2>4. \/ mgr' = [mgr EXCEPT !.gen = mgr.gen + 1, !.child = Child(mgr.gen + 1)]
        \/ mgr' = [mgr EXCEPT !.gen = mgr.gen + 1, !.child = None, !.pidFile = None, !.poll = {},
                              !.status = "error"]
        => mgr'.gen = mgr.gen + 1 /\ mgr'.cleaningUp = mgr.cleaningUp
    BY <1>0 DEF MgrType
  <2> QED BY <1>5, <2>2, <2>3, <2>4 DEF Spawn
<1>6. CASE BindChild \/ Killed \/ WaitPidFile \/ Own \/ Healthy
  <2>1. op.pc \in Spawning /\ UNCHANGED <<detect, requests>>
    BY <1>6 DEF BindChild, Killed, WaitPidFile, Own, Healthy, At, Spawning, bounds
  <2>2. mgr'.gen = mgr.gen /\ mgr'.cleaningUp = mgr.cleaningUp
    BY <1>0, <1>6, GenKept DEF BindChild, Killed, WaitPidFile
  <2>3. (op'.pc \in Spawning /\ UNCHANGED queue) \/ EndRequest
    BY <1>b, <1>6, PlaceFacts DEF BindChild, Killed, WaitPidFile, Own, Healthy, Spawning
  <2> QED BY <1>0, <2>1, <2>2, <2>3, BudgetEnds, BudgetMoves DEF EndRequest, Spawning, Stopping
<1>7. CASE StartFails \/ StartFailed
  <2>1. op.pc \in Spawning /\ UNCHANGED <<detect, requests>>
    BY <1>7 DEF StartFails, StartFailed, At, Spawning, bounds
  <2>2. mgr'.gen = mgr.gen /\ mgr'.cleaningUp = mgr.cleaningUp
    BY <1>0, <1>7, GenKept
  <2>3. (op'.pc \in Spawning /\ UNCHANGED queue) \/ EndRequest
    BY <1>0, <1>7 DEF StartFails, StartFailed, Spawning, Frames
  <2> QED BY <1>0, <2>1, <2>2, <2>3, BudgetEnds, BudgetMoves DEF EndRequest, Spawning, Stopping
<1>8. CASE StopOnce \/ StopWait \/ StopForced
  <2>1. op.pc \in {"stop", "stopping", "forced"} /\ UNCHANGED <<detect, requests>>
    BY <1>8 DEF StopOnce, StopWait, StopForced, At, bounds
  <2>2. mgr'.gen = mgr.gen /\ mgr'.cleaningUp = mgr.cleaningUp
    BY <1>0, <1>8, GenKept
  <2>3. (op'.pc \in Stopping /\ UNCHANGED queue) \/ EndStop
    <3>1. CASE StopOnce
      BY <1>0, <3>1 DEF StopOnce, Stopping, Frames
    <3>2. CASE StopWait \/ StopForced
      BY <1>b, <3>2, PlaceFacts DEF StopWait, StopForced, Stopping
    <3> QED BY <1>8, <3>1, <3>2
  <2>4. CASE op'.pc \in Stopping /\ UNCHANGED queue
    BY <2>1, <2>2, <2>4, BudgetMoves DEF Spawning, Stopping
  <2>5. CASE EndRequest
    BY <1>0, <2>1, <2>2, <2>5, BudgetEnds DEF EndRequest
  <2>6. CASE op' = Frame("start") /\ UNCHANGED queue /\ Head(queue) = "restart"
    <3>1. op'.pc = "start" BY <1>a, <2>6, PlaceFacts
    <3>2. queue # <<>> /\ queue[1] = "restart" BY <1>0, <2>1, <2>6
    <3> QED BY <2>1, <2>2, <2>6, <3>1, <3>2, BudgetNumbers DEF Budget, Spawning
  <2> QED BY <2>3, <2>4, <2>5, <2>6 DEF EndStop
<1>9. CASE DetectRead \/ DetectVerify \/ DetectCheck \/ DetectLease
  <2>1. detect.pc # "done" /\ UNCHANGED <<queue, op, requests>>
    BY <1>9 DEF DetectRead, DetectVerify, DetectCheck, DetectLease, bounds
  <2>2. CASE DetectRead \/ DetectVerify
    BY <1>0, <2>1, <2>2, GenKept, BudgetDetects
  <2>3. CASE detect' = Frame("done") /\ \E p, lease : Adopt(p, lease)
    BY <1>a, <2>1, <2>3, PlaceFacts, GenMade, BudgetDetects, <1>0
  <2>4. CASE UNCHANGED mgr \/ \E status : DetectFails(status)
    BY <2>1, <2>4, GenMade, BudgetDetects, <1>0
  <2> QED BY <1>9, <2>2, <2>3, <2>4 DEF DetectCheck, DetectLease
<1>10. CASE \E kind \in UserRequests : Request(kind)
  <2>1. UNCHANGED <<mgr, op, detect>> /\ requests' = requests + 1 /\ requests < MaxRequests /\ ~mgr.cleaningUp
    BY <1>10 DEF Request
  <2>2. CASE queue' = queue
    BY <2>1, <2>2, BudgetNumbers DEF Budget
  <2>3. ASSUME NEW kind \in Kinds, queue' = Append(queue, kind) PROVE Budget'
    <3>1. /\ queue' \in Seq(Kinds) /\ Len(queue') = Len(queue) + 1 /\ queue' # <<>>
          /\ queue # <<>> => queue'[1] = queue[1]
      BY <1>0, <2>3, AppendFacts
    <3> QED BY <2>1, <3>1, BudgetNumbers DEF Budget
  <2> QED BY <1>10, <2>2, <2>3 DEF Request, Enqueued, UserRequests, Kinds
<1>11. CASE Cleanup
  <2>1. mgr'.gen = mgr.gen /\ ~mgr.cleaningUp /\ mgr'.cleaningUp /\ UNCHANGED <<op, detect, requests>>
    BY <1>0, <1>11 DEF Cleanup, bounds, MgrType
  <2>2. CASE queue' = queue /\ queue = <<>>
    BY <2>1, <2>2, BudgetNumbers DEF Budget
  <2>3. CASE queue' = Append(queue, "cleanup")
    <3>1. "cleanup" \in Kinds BY DEF Kinds
    <3>2. /\ queue' \in Seq(Kinds) /\ Len(queue') = Len(queue) + 1 /\ queue' # <<>>
          /\ queue # <<>> => queue'[1] = queue[1]
          /\ queue'[Len(queue')] = "cleanup"
      BY <1>0, <2>3, <3>1, AppendFacts
    <3> QED BY <2>1, <3>2, BudgetNumbers DEF Budget
  <2> QED BY <1>11, <2>2, <2>3 DEF Cleanup
<1>12. CASE PollReturn \/ \E g \in Gens : ExitEvent(g) \/ ErrorEvent(g)
  <2>1. mgr'.gen = mgr.gen /\ mgr'.cleaningUp = mgr.cleaningUp
    BY <1>0, <1>12, GenKept
  <2>2. UNCHANGED <<queue, op, detect, requests>>
    BY <1>12 DEF PollReturn, ExitEvent, ErrorEvent, bounds
  <2> QED BY <2>1, <2>2 DEF Budget
<1>13. CASE UNCHANGED <<mgr, queue, op, detect, requests>>
  BY <1>13 DEF Budget
<1> QED
  BY <1>1, <1>2, <1>3, <1>4, <1>5, <1>6, <1>7, <1>8, <1>9, <1>10, <1>11, <1>12, <1>13
  DEF Next, Manager, Environment, PollReplace, PollSend, AppExit, LauncherStarts, WritePidFile, Dies, bounds

LEMMA TypeInit == Init => TypeInv
<1> SUFFICES ASSUME Init PROVE TypeInv
  OBVIOUS
<1> USE PlaceFacts, ProcFacts, FrameFields DEF Init
<1>1. MgrType /\ InflightType /\ WorldType
  BY BoundsAssumption DEF MgrType, Statuses, MaybeProc, InflightType, WorldType
<1>2. LeaseType /\ RunsType
  BY DEF LeaseType, LeaseStates, Leases, RunsType, Runs, NoRun, MaybeProc
<1>3. OpType /\ DetectType
  BY DEF OpType, DetectType, Finding, Spawning
<1>4. Budget
  <2>1. queue \in Seq(Kinds) /\ Len(queue) <= 1 /\ (detect.pc # "done" => Len(queue) = 0)
    <3>1. <<"start">> \in Seq(Kinds) /\ Len(<<"start">>) = 1 /\ <<>> \in Seq(Kinds) /\ Len(<<>>) = 0
      BY DEF Kinds
    <3>2. (queue = <<"start">> /\ detect.pc = "done") \/ queue = <<>>
      OBVIOUS
    <3>3. CASE queue = <<"start">> /\ detect.pc = "done"
      BY <3>1, <3>3
    <3>4. CASE queue = <<>>
      BY <3>1, <3>4
    <3> QED BY <3>2, <3>3, <3>4
  <2>2. Len(queue) \in Nat /\ op.pc = "next" /\ mgr.gen = 0 /\ ~mgr.cleaningUp /\ requests = 0
    BY <2>1
  <2> QED BY <2>1, <2>2, BoundsAssumption DEF Budget, Spawning
<1> QED BY <1>1, <1>2, <1>3, <1>4 DEF TypeInv, Types

LEMMA TypeStep == TypeInv /\ [Next]_vars => TypeInv'
<1>1. ASSUME TypeInv, Next PROVE TypeInv'
  <2>1. Types /\ Budget BY <1>1 DEF TypeInv
  <2>2. /\ Check \/ LeaseExisting \/ Spawn => mgr.gen <= MaxRequests
        /\ DetectCheck \/ DetectLease => mgr.gen <= MaxRequests
    BY <2>1, HasGeneration
  <2>3. MgrType' BY <1>1, <2>1, <2>2, MgrTypeStep
  <2>4. LeaseType' /\ OpType' /\ RunsType' /\ WorldType'
    BY <1>1, <2>1, <2>2, LeaseTypeStep, OpTypeStep, RunsTypeStep, WorldTypeStep
  <2>5. DetectType' /\ InflightType'
    BY <1>1, <2>1, DetectTypeStep, InflightTypeStep
  <2>6. Budget' BY <1>1, <2>1, BudgetStep
  <2> QED BY <2>3, <2>4, <2>5, <2>6 DEF TypeInv, Types
<1>2. ASSUME TypeInv, UNCHANGED vars PROVE TypeInv'
  BY <1>2 DEF vars, world, bounds, TypeInv, Types, Budget, MgrType, LeaseType, OpType, DetectType, RunsType,
              InflightType, WorldType
<1> QED BY <1>1, <1>2

(* TypeOK holds: a start never runs out of generations, a lease and a      *)
(* process the manager refers to is one there can be.                      *)
THEOREM ServerTypes == Spec => []TypeOK
<1>1. TypeInv => TypeOK
  <2>1. ASSUME TypeInv PROVE TypeOK
    <3>1. /\ mgr.status \in Statuses /\ mgr.child \in MaybeProc /\ mgr.pidFile \in MaybeProc
          /\ mgr.gen \in 0..MaxRequests + 1
      BY <2>1 DEF TypeInv, Types, MgrType
    <3>2. ls.held \subseteq LeaseIds /\ ls.active \in Leases
      BY <2>1 DEF TypeInv, Types, LeaseType, LeaseStates
    <3>3. \A i \in DOMAIN queue : queue[i] \in Kinds
      BY <2>1 DEF TypeInv, Budget
    <3> QED BY <2>1, <3>1, <3>2, <3>3 DEF TypeOK, TypeInv, Types, WorldType, Statuses, MaybeProc, Leases, Kinds
  <2> QED BY <2>1
<1> QED BY <1>1, TypeInit, TypeStep, PTL DEF Spec

-------------------------------------------------------------------------------
(* Processes, and the fields an action leaves alone                        *)

LEMMA ProcShape ==
  /\ Existing \in Procs /\ Existing[1] = 0 /\ Existing[2] = "daemon"
  /\ \A p \in Procs : p[1] \in Nat /\ (p # Existing => p[1] \in Gens) /\ p # None
  /\ \A p \in Procs : p = <<p[1], p[2]>> /\ p[2] \in {"child", "daemon"}
  /\ \A g \in Gens : /\ g \in Nat /\ g > 0 /\ Child(g) \in Procs /\ Child(g) # Existing
                     /\ Child(g)[1] = g /\ Child(g)[2] = "child"
                     /\ Server(g) \in Procs /\ Server(g) # Existing /\ Server(g)[1] = g
                     /\ (direct => Server(g) = Child(g)) /\ (~direct => Server(g) = <<g, "daemon">>)
<1>1. \A g \in Gens : g \in Nat /\ g > 0 BY BoundsAssumption DEF Gens
<1> QED BY <1>1, ProcFacts DEF Procs, Existing, Child, Server

LEMMA StalePollFields ==
  ASSUME InflightType, StalePoll PROVE ~(inflight' # None /\ inflight'.current)
BY DEF InflightType, StalePoll

LEMMA WatchFields ==
  ASSUME NEW p, NEW child, NEW lease
  PROVE  Watch(p, child, lease).server = p /\ Watch(p, child, lease).child = child
BY DEF Watch

LEMMA AdoptFields ==
  ASSUME MgrType, NEW p, NEW lease, Adopt(p, lease)
  PROVE  /\ mgr'.status = "running" /\ mgr'.managed = FALSE /\ mgr'.pidFile = p
         /\ mgr'.gen = mgr.gen + 1 /\ mgr'.poll = {Watch(p, mgr.child, lease)}
         /\ mgr'.child = mgr.child /\ mgr'.cleaningUp = mgr.cleaningUp /\ mgr'.forgotten = mgr.forgotten
BY DEF MgrType, Adopt

\* What only changes the shown status.
Shows(status) == mgr' = [mgr EXCEPT !.status = status]
LEMMA ShowsFields ==
  ASSUME MgrType, NEW status, Shows(status)
  PROVE  /\ mgr'.status = status
         /\ mgr'.managed = mgr.managed /\ mgr'.pidFile = mgr.pidFile /\ mgr'.gen = mgr.gen
         /\ mgr'.poll = mgr.poll /\ mgr'.child = mgr.child /\ mgr'.cleaningUp = mgr.cleaningUp
         /\ mgr'.forgotten = mgr.forgotten
BY DEF MgrType, Shows

LEMMA AcquiredFields ==
  ASSUME MgrType, mgr' = [mgr EXCEPT !.status = "starting", !.managed = TRUE]
  PROVE  /\ mgr'.status = "starting" /\ mgr'.managed = TRUE
         /\ mgr'.pidFile = mgr.pidFile /\ mgr'.gen = mgr.gen /\ mgr'.poll = mgr.poll
         /\ mgr'.child = mgr.child /\ mgr'.cleaningUp = mgr.cleaningUp /\ mgr'.forgotten = mgr.forgotten
BY DEF MgrType

LEMMA SpawnedFields ==
  ASSUME MgrType, NEW g, mgr' = [mgr EXCEPT !.gen = g, !.child = Child(g)]
  PROVE  /\ mgr'.gen = g /\ mgr'.child = Child(g)
         /\ mgr'.status = mgr.status /\ mgr'.managed = mgr.managed /\ mgr'.pidFile = mgr.pidFile
         /\ mgr'.poll = mgr.poll /\ mgr'.cleaningUp = mgr.cleaningUp /\ mgr'.forgotten = mgr.forgotten
BY DEF MgrType

LEMMA NotSpawnedFields ==
  ASSUME MgrType, NEW g,
         mgr' = [mgr EXCEPT !.gen = g, !.child = None, !.pidFile = None, !.poll = {}, !.status = "error"]
  PROVE  /\ mgr'.gen = g /\ mgr'.child = None /\ mgr'.pidFile = None /\ mgr'.poll = {}
         /\ mgr'.status = "error" /\ mgr'.managed = mgr.managed
         /\ mgr'.cleaningUp = mgr.cleaningUp /\ mgr'.forgotten = mgr.forgotten
BY DEF MgrType

LEMMA HealthyFields ==
  ASSUME MgrType, NEW p, NEW polled,
         mgr' = [mgr EXCEPT !.status = "running", !.pidFile = p, !.poll = polled]
  PROVE  /\ mgr'.status = "running" /\ mgr'.pidFile = p /\ mgr'.poll = polled
         /\ mgr'.gen = mgr.gen /\ mgr'.child = mgr.child /\ mgr'.managed = mgr.managed
         /\ mgr'.cleaningUp = mgr.cleaningUp /\ mgr'.forgotten = mgr.forgotten
BY DEF MgrType

LEMMA StoppingFields ==
  ASSUME MgrType, mgr' = [mgr EXCEPT !.status = "stopping", !.poll = {}]
  PROVE  /\ mgr'.status = "stopping" /\ mgr'.poll = {}
         /\ mgr'.pidFile = mgr.pidFile /\ mgr'.gen = mgr.gen /\ mgr'.child = mgr.child
         /\ mgr'.managed = mgr.managed /\ mgr'.cleaningUp = mgr.cleaningUp /\ mgr'.forgotten = mgr.forgotten
BY DEF MgrType

LEMMA StoppedFields ==
  ASSUME MgrType, mgr' = [mgr EXCEPT !.status = "stopped", !.child = None, !.pidFile = None]
  PROVE  /\ mgr'.status = "stopped" /\ mgr'.child = None /\ mgr'.pidFile = None
         /\ mgr'.poll = mgr.poll /\ mgr'.gen = mgr.gen
         /\ mgr'.managed = mgr.managed /\ mgr'.cleaningUp = mgr.cleaningUp /\ mgr'.forgotten = mgr.forgotten
BY DEF MgrType

LEMMA GoneFields ==
  ASSUME MgrType, NEW lost,
         mgr' = [mgr EXCEPT !.poll = {}, !.child = None, !.pidFile = None, !.status = "error",
                            !.forgotten = @ \cup lost]
  PROVE  /\ mgr'.status = "error" /\ mgr'.child = None /\ mgr'.pidFile = None /\ mgr'.poll = {}
         /\ mgr'.forgotten = mgr.forgotten \cup lost
         /\ mgr'.gen = mgr.gen /\ mgr'.managed = mgr.managed /\ mgr'.cleaningUp = mgr.cleaningUp
BY DEF MgrType

LEMMA ExitedFields ==
  ASSUME MgrType, mgr' = [Forget(mgr) EXCEPT !.status = IF @ = "stopping" THEN "stopped" ELSE "error"]
  PROVE  /\ mgr'.status = (IF mgr.status = "stopping" THEN "stopped" ELSE "error")
         /\ mgr'.child = None /\ mgr'.pidFile = None /\ mgr'.poll = {}
         /\ mgr'.gen = mgr.gen /\ mgr'.managed = mgr.managed /\ mgr'.cleaningUp = mgr.cleaningUp
         /\ mgr'.forgotten = mgr.forgotten
BY DEF MgrType, Forget

LEMMA WorldInvStep ==
  ASSUME Types, WorldInv, Next,
         \/ Check \/ LeaseExisting \/ Spawn \/ DetectCheck \/ DetectLease => mgr.gen <= MaxRequests
  PROVE  WorldInv'
<1>0. MgrType /\ WorldType /\ mgr.gen \in Nat
  BY BoundsAssumption DEF Types, MgrType
<1>00. \A p \in alive : p \in Procs /\ p[1] \in Nat
  BY <1>0, ProcShape DEF WorldType
<1>n. None \notin Procs /\ \A g \in Gens : None # Child(g) /\ None # <<g, "daemon">>
  BY ProcShape, ProcFacts DEF Procs
<1>1. CASE Verify \/ Own \/ Healthy \/ StartFails \/ StartFailed \/ StopOnce \/ StopWait \/ StopForced
           \/ DetectVerify \/ PollReturn \/ \E g \in Gens : ErrorEvent(g)
  <2>1. mgr'.gen = mgr.gen BY <1>0, <1>1, GenKept
  <2>2. UNCHANGED <<alive, ready, unborn, exits, file, direct>>
    BY <1>1 DEF Verify, Own, Healthy, StartFails, StartFailed, StopOnce, StopWait, StopForced, DetectVerify,
                PollReturn, ErrorEvent, world, bounds
  <2> QED BY <2>1, <2>2 DEF WorldInv
<1>2. CASE Evicted \/ Acquired \/ DetectRead \/ \E g \in Gens : ExitEvent(g)
  <2>1. mgr'.gen = mgr.gen BY <1>0, <1>2, GenKept
  <2>2. UNCHANGED <<alive, ready, unborn, direct>> /\ file' \in {file, None} /\ exits' \subseteq exits
    BY <1>2 DEF Evicted, Acquired, DetectRead, ExitEvent, world, bounds
  <2>3. None \notin alive /\ \A g \in unborn : None # <<g, "daemon">>
    BY <1>0, <1>n DEF WorldType
  <2>4. CASE file' = file
    BY <2>1, <2>2, <2>4 DEF WorldInv
  <2>5. CASE file' = None
    BY <2>1, <2>2, <2>3, <2>5 DEF WorldInv
  <2> QED BY <2>2, <2>4, <2>5
<1>3. CASE Check \/ LeaseExisting \/ DetectCheck \/ DetectLease
  <2>1. mgr'.gen = mgr.gen \/ mgr'.gen = mgr.gen + 1
    BY <1>0, <1>3, GenMade DEF Check, LeaseExisting, DetectCheck, DetectLease
  <2>2. UNCHANGED <<alive, ready, unborn, exits, file, direct>>
    BY <1>3 DEF Check, LeaseExisting, DetectCheck, DetectLease, world, bounds
  <2>3. \A g \in unborn \cup exits : g \in Nat BY <1>0, ProcShape DEF WorldType
  <2>4. file # None => file[1] \in Nat BY <1>0, ProcShape DEF WorldType, MaybeProc
  <2> QED BY <1>0, <1>00, <2>1, <2>2, <2>3, <2>4 DEF WorldInv
<1>4. CASE Spawn
  <2>1. mgr.gen + 1 \in Gens BY <1>0, <1>4, NextGen
  <2>2. CASE UNCHANGED <<mgr, alive, unborn>>
    BY <1>4, <2>2 DEF Spawn, WorldInv
  <2>3. ASSUME mgr'.gen = mgr.gen + 1, alive' \in {alive, alive \cup {Child(mgr.gen + 1)}},
               unborn' \in {unborn, unborn \cup {mgr.gen + 1}}, direct => unborn' = unborn
        PROVE  WorldInv'
    <3>1. UNCHANGED <<ready, exits, file, direct>> BY <1>4 DEF Spawn
    <3>2. \A g \in unborn \cup exits : g \in Nat BY <1>0, ProcShape DEF WorldType
    <3>3. file # None => file[1] \in Nat /\ file[1] <= mgr.gen BY <1>0, ProcShape DEF WorldType, MaybeProc, WorldInv
    <3>4. file # Child(mgr.gen + 1) /\ file # <<mgr.gen + 1, "daemon">>
      <4>1. CASE file = None
        BY <1>n, <2>1, <4>1, ProcShape
      <4>2. CASE file # None
        <5>1. Child(mgr.gen + 1)[1] = mgr.gen + 1 /\ <<mgr.gen + 1, "daemon">>[1] = mgr.gen + 1
          BY <2>1, ProcShape
        <5>2. file[1] # mgr.gen + 1 BY <1>0, <3>3, <4>2
        <5> QED BY <5>1, <5>2
      <4> QED BY <4>1, <4>2
    <3>6. <<mgr.gen + 1, "daemon">> \notin alive /\ <<mgr.gen + 1, "daemon">> # Child(mgr.gen + 1)
      <4>1. <<mgr.gen + 1, "daemon">>[1] = mgr.gen + 1 /\ <<mgr.gen + 1, "daemon">>[2] = "daemon"
        OBVIOUS
      <4>2. \A p \in alive : p[1] # mgr.gen + 1 BY <1>0, <1>00 DEF WorldInv
      <4> QED BY <2>1, <4>1, <4>2, ProcShape
    <3>7. \A g \in unborn : <<g, "daemon">> # Child(mgr.gen + 1)
      <4>1. \A g : <<g, "daemon">>[2] = "daemon" OBVIOUS
      <4> QED BY <2>1, <4>1, ProcShape
    <3>5. file = None \/ file # None OBVIOUS
    <3> QED BY <1>0, <1>00, <2>1, <2>3, <3>1, <3>2, <3>3, <3>4, <3>6, <3>7, ProcShape DEF WorldInv
  <2> QED BY <1>0, <1>4, <2>2, <2>3, SpawnedFields, NotSpawnedFields DEF Spawn
<1>5. CASE Probe
  <2>1. CASE file' = file
    BY <1>5, <2>1 DEF Probe, WorldInv, bounds
  <2>2. CASE file' = None
    <3>1. None \notin alive /\ \A g \in unborn : None # <<g, "daemon">>
      BY <1>0, <1>n DEF WorldType
    <3> QED BY <1>5, <2>2, <3>1 DEF Probe, WorldInv, bounds
  <2> QED BY <1>5, <2>1, <2>2 DEF Probe
<1>6. CASE Cleanup
  <2>1. mgr'.gen = mgr.gen BY <1>0, <1>6 DEF Cleanup, MgrType
  <2> QED BY <1>6, <2>1 DEF Cleanup, WorldInv, world, bounds
<1>7. CASE \E g \in Gens : LauncherStarts(g)
  <2>1. PICK g \in Gens : LauncherStarts(g) BY <1>7
  <2>2. ~direct /\ Server(g) = <<g, "daemon">> /\ Server(g)[1] = g /\ g \in unborn
    BY <2>1, ProcShape DEF LauncherStarts, WorldInv
  <2>3. \A h \in unborn : h # g => <<h, "daemon">> # <<g, "daemon">>
    OBVIOUS
  <2> QED BY <2>1, <2>2, <2>3 DEF LauncherStarts, WorldInv, bounds
<1>8. CASE \E p \in Procs : WritePidFile(p)
  <2>1. PICK p \in Procs : WritePidFile(p) BY <1>8
  <2>2. \A g \in unborn : p # <<g, "daemon">>
    BY <2>1 DEF WritePidFile, WorldInv, Alive
  <2> QED BY <2>1, <2>2, <1>00 DEF WritePidFile, WorldInv, bounds, Alive
<1>9. CASE \E p \in Procs : Dies(p)
  <2>1. PICK p \in Procs : Dies(p) BY <1>9
  <2>2. /\ UNCHANGED <<mgr, direct>> /\ alive' = alive \ {p} /\ ready' = ready \ {p} /\ p \in alive
        /\ file' \in {file, None} /\ unborn' \subseteq unborn /\ exits' \subseteq exits \cup {p[1]}
    BY <2>1 DEF Dies, Alive
  <2>3. None \notin alive /\ \A g \in unborn : None # <<g, "daemon">>
    BY <1>0, <1>n DEF WorldType
  <2>4. p[1] <= mgr.gen BY <2>2 DEF WorldInv
  <2>5. CASE file' = file
    BY <2>2, <2>4, <2>5 DEF WorldInv
  <2>6. CASE file' = None
    BY <2>2, <2>3, <2>4, <2>6 DEF WorldInv
  <2> QED BY <2>2, <2>5, <2>6
<1>10. CASE UNCHANGED <<mgr, alive, ready, unborn, exits, file, direct>>
  BY <1>10 DEF WorldInv
<1> QED
  BY <1>1, <1>2, <1>3, <1>4, <1>5, <1>6, <1>7, <1>8, <1>9, <1>10
  DEF Next, Manager, Environment, Begin, StartOnce, BindChild, Killed, WaitPidFile, PollReplace,
      PollSend, AppExit, Request, world, bounds

-------------------------------------------------------------------------------
(* The server that was there                                               *)

\* What a lifecycle action makes of its place and its target.
LEMMA OpFields ==
  ASSUME OpType
  PROVE  /\ \A place \in Places : Goto(place) => op'.pc = place /\ op'.target = op.target
                                            /\ op'.child = op.child /\ op'.g = op.g
         /\ \A lease : Evict(lease) => op'.pc = "evicting" /\ op'.target = op.target
         /\ EndRequest => op'.pc = "next"
         /\ EndStop => op'.pc \in {"next", "start"}
<1>1. \A place \in Places : Goto(place) => op'.pc = place /\ op'.target = op.target
                                            /\ op'.child = op.child /\ op'.g = op.g
  BY GotoFields DEF OpType
<1>2. \A lease : Evict(lease) => op'.pc = "evicting" /\ op'.target = op.target
  BY DEF Evict, OpType, Frames
<1>3. Frame("next").pc = "next" /\ Frame("start").pc = "start"
  BY PlaceFacts, FrameFields
<1> QED BY <1>1, <1>2, <1>3 DEF EndRequest, EndStop

LEMMA ExistingInvStep ==
  ASSUME Types, WorldInv, ExistingInv, Next, mgr'.gen \in Nat, mgr.gen \in Nat, mgr'.gen >= mgr.gen
  PROVE  ExistingInv'
<1>0. OpType /\ MgrType /\ op \in Frames /\ detect \in Frames /\ alive \subseteq Procs /\ Existing # None
      /\ (op.pc \in Finding => op.target \in Procs /\ op.target[1] \in Nat)
  BY ProcShape DEF Types, WorldType, OpType, DetectType
<1>m. op.pc \in Finding => op.target[1] <= mgr'.gen
  <2> SUFFICES ASSUME op.pc \in Finding PROVE op.target[1] <= mgr'.gen
    OBVIOUS
  <2>1. op.target[1] \in Nat /\ op.target[1] <= mgr.gen BY <1>0 DEF ExistingInv
  <2> QED BY <2>1
<1>1. CASE Begin \/ StartOnce \/ Verify
  <2>1. /\ detect' = detect /\ UNCHANGED world /\ (detect.pc = "read" => FALSE)
        /\ mgr'.managed = mgr.managed
    BY <1>0, <1>1, ShowsFields DEF Begin, StartOnce, Verify, At, bounds, ExistingInv, GiveUp, Shows
  <2>2. op'.pc \in {"next", "start", "stop", "probe"} \/ (op'.pc = "check" /\ op.pc = "verify" /\ op'.target = op.target)
    BY <1>0, <1>1, OpFields, PlaceFacts DEF Begin, StartOnce, Verify, At, GiveUp
  <2> QED BY <1>0, <2>1, <2>2 DEF ExistingInv, world, Finding, Spawning, Stopping
<1>2. CASE Probe
  <2>1. /\ UNCHANGED <<detect, mgr, alive, unborn>> /\ op.pc = "probe"
    BY <1>2 DEF Probe, At
  <2>2. CASE op'.pc = "next" /\ file' = file
    BY <2>1, <2>2 DEF ExistingInv, Finding, Spawning, Stopping
  <2>3. CASE Serves /\ op' = [op EXCEPT !.pc = "verify", !.target = file] /\ file' = file
    <3>1. op'.pc = "verify" /\ op'.target = file /\ file # None /\ file \in alive
      BY <1>0, <2>3 DEF Frames, Serves, Alive
    <3> QED BY <2>1, <2>3, <3>1 DEF ExistingInv, WorldInv, Finding, Spawning, Stopping
  <2>4. CASE ~Serves /\ op'.pc = "acquire"
    BY <1>0, <2>1, <2>4 DEF ExistingInv, Serves, Alive, Finding
  <2> QED BY <1>0, <1>2, <2>2, <2>3, <2>4, OpFields, PlaceFacts DEF Probe
<1>3. CASE Check \/ LeaseExisting
  <2>1. /\ UNCHANGED <<detect, alive, unborn, file>> /\ op.pc \in {"check", "lease"}
        /\ mgr'.managed \in {mgr.managed, FALSE} /\ mgr'.child = mgr.child
    BY <1>0, <1>3, AdoptFields DEF Check, LeaseExisting, At
  <2>2. op'.pc = "next" \/ (op'.pc \in {"lease", "evicting"} /\ op'.target = op.target)
    BY <1>0, <1>3, OpFields, PlaceFacts DEF Check, LeaseExisting
  <2>3. /\ detect.pc # "read" /\ op.target[1] <= mgr'.gen
        /\ Existing \in alive => ~mgr'.managed
    <3>1. detect.pc # "read" BY <2>1 DEF ExistingInv
    <3>2. op.target[1] <= mgr'.gen BY <1>m, <2>1 DEF Finding
    <3> QED BY <2>1, <3>1, <3>2 DEF ExistingInv
  <2> QED BY <2>1, <2>2, <2>3 DEF ExistingInv, Finding, Spawning, Stopping
<1>4. CASE Evicted
  <2>1. /\ UNCHANGED <<detect, alive, unborn>> /\ op.pc = "evicting" /\ mgr'.managed = mgr.managed
    BY <1>0, <1>4, ShowsFields DEF Evicted, At, GiveUp, Shows
  <2>2. op'.pc \in {"next", "acquire"} /\ (Alive(op.target) => op'.pc = "next" /\ file' = file)
    BY <1>0, <1>4, OpFields, FrameFields, PlaceFacts DEF Evicted, GiveUp
  <2> QED BY <2>1, <2>2 DEF ExistingInv, Finding, Spawning, Stopping, Alive
<1>5. CASE Acquired
  <2>1. /\ UNCHANGED <<detect, alive, unborn, file>> /\ op.pc = "acquire" /\ op'.pc \in {"next", "spawn"}
    BY <1>0, <1>5, OpFields DEF Acquired, At, GiveUp, world, Frames
  <2> QED BY <2>1 DEF ExistingInv, Finding
<1>6. CASE Spawn
  <2>1. /\ UNCHANGED <<detect, file>> /\ op.pc = "spawn" /\ op'.pc \in {"next", "waitpid", "bind"}
        /\ alive' \subseteq alive \cup {Child(mgr.gen + 1)}
    BY <1>0, <1>6, OpFields DEF Spawn, At, Frames
  <2>2. Existing # Child(mgr.gen + 1)
    BY DEF Existing, Child
  <2> QED BY <2>1, <2>2 DEF ExistingInv, Finding
<1>7. CASE BindChild \/ Killed \/ WaitPidFile \/ Own \/ Healthy \/ StartFails \/ StartFailed
  <2>1. /\ UNCHANGED <<detect, alive, file>> /\ op.pc \in Spawning /\ op'.pc \in {"next"} \cup Spawning
    BY <1>0, <1>7, OpFields, PlaceFacts
    DEF BindChild, Killed, WaitPidFile, Own, Healthy, StartFails, StartFailed, At, Spawning, world, Frames
  <2> QED BY <2>1 DEF ExistingInv, Finding, Spawning
<1>8. CASE StopOnce \/ StopWait \/ StopForced
  <2>1. /\ UNCHANGED <<detect, alive, file, unborn>> /\ op.pc \in {"stop"} \cup Stopping
        /\ op'.pc \in {"next", "start"} \cup Stopping /\ (mgr.managed \/ op.pc \in Stopping \/ UNCHANGED mgr)
        /\ (~mgr.managed /\ op.pc = "stop" => op'.pc \in {"next", "start"})
    BY <1>0, <1>8, OpFields, PlaceFacts, ZenonT(60) DEF StopOnce, StopWait, StopForced, At, Stopping, Frames
  <2> QED BY <2>1 DEF ExistingInv, Finding, Spawning, Stopping
<1>9. CASE DetectRead
  <2>1. /\ UNCHANGED <<op, queue, alive, unborn>> /\ detect.pc = "read" /\ mgr'.managed = mgr.managed
        /\ (file' = file \/ ~(file # None /\ Alive(file)))
    BY <1>0, <1>9, ShowsFields DEF DetectRead, DetectFails, Shows
  <2>2. CASE file # None /\ Alive(file)
    <3>1. detect'.pc = "verify" /\ detect'.target = file BY <1>0, <1>9, <2>2 DEF DetectRead, Frames
    <3> QED BY <2>1, <2>2, <3>1 DEF ExistingInv, Alive, Finding
  <2>3. CASE ~(file # None /\ Alive(file))
    <3>1. detect'.pc = "done" BY <1>9, <2>3, FrameFields, PlaceFacts DEF DetectRead, DetectFails
    <3> QED BY <1>0, <2>1, <2>3, <3>1 DEF ExistingInv, Alive, Finding
  <2> QED BY <2>2, <2>3
<1>10. CASE DetectVerify \/ DetectCheck \/ DetectLease
  <2>1. /\ UNCHANGED <<op, alive, unborn, file>> /\ detect.pc \in {"verify", "check", "lease"}
    BY <1>10 DEF DetectVerify, DetectCheck, DetectLease, world
  <2>2. mgr'.managed \in {mgr.managed, FALSE}
    BY <1>0, <1>10, ShowsFields, AdoptFields DEF DetectVerify, DetectCheck, DetectLease, DetectFails, Shows
  <2>3. detect'.pc = "done" \/ (detect'.pc \in {"check", "lease"} /\ detect'.target = detect.target)
    <3>1. Frame("done").pc = "done" BY FrameFields, PlaceFacts
    <3>2. detect' = Frame("done") \/ \E place \in {"check", "lease"} : DetectGoto(place)
      BY <1>10 DEF DetectVerify, DetectCheck, DetectLease, DetectFails
    <3> QED BY <1>0, <3>1, <3>2 DEF DetectGoto, Frames
  <2>4. (op.pc \in Finding => op.target[1] <= mgr'.gen) /\ (Existing \in alive => ~mgr'.managed)
    BY <1>m, <2>2 DEF ExistingInv
  <2> QED BY <2>1, <2>3, <2>4 DEF ExistingInv
<1>11. CASE PollReturn \/ \E g \in Gens : ExitEvent(g) \/ ErrorEvent(g)
  <2>1. UNCHANGED <<op, detect, queue, alive, unborn, file>>
    BY <1>11 DEF PollReturn, ExitEvent, ErrorEvent, world, bounds
  <2>2. mgr'.managed = mgr.managed /\ mgr'.child \in {mgr.child, None}
    BY <1>0, <1>11 DEF PollReturn, ExitEvent, ErrorEvent, Forget, MgrType
  <2> QED BY <1>0, <2>1, <2>2 DEF ExistingInv
<1>12. CASE Cleanup
  <2>1. /\ UNCHANGED <<op, detect, alive, unborn, file>> /\ mgr'.managed = mgr.managed /\ mgr'.child = mgr.child
        /\ (mgr.child = None /\ queue = <<>> => queue' = queue)
    BY <1>0, <1>12 DEF Cleanup, MgrType, world, bounds
  <2> QED BY <1>0, <2>1 DEF ExistingInv
<1>13. CASE \E kind \in UserRequests : Request(kind)
  BY <1>0, <1>13 DEF Request, ExistingInv, world
<1>14. CASE \E g \in Gens : LauncherStarts(g)
  <2>1. PICK g \in Gens : LauncherStarts(g) BY <1>14
  <2>2. Server(g) # Existing BY ProcShape
  <2> QED BY <2>1, <2>2 DEF LauncherStarts, ExistingInv, bounds
<1>15. CASE \E p \in Procs : WritePidFile(p)
  BY <1>0, <1>15 DEF WritePidFile, ExistingInv, WorldInv, Alive, bounds
<1>16. CASE \E p \in Procs : Dies(p)
  BY <1>0, <1>16 DEF Dies, ExistingInv, Alive
<1>17. CASE UNCHANGED <<mgr, queue, op, detect, alive, unborn, file>>
  BY <1>17 DEF ExistingInv
<1> QED
  BY <1>1, <1>2, <1>3, <1>4, <1>5, <1>6, <1>7, <1>8, <1>9, <1>10, <1>11, <1>12, <1>13, <1>14, <1>15, <1>16, <1>17
  DEF Next, Manager, Environment, PollReplace, PollSend, AppExit, world, bounds

-------------------------------------------------------------------------------
(* Polls                                                                   *)

LEMMA PollOfOne ==
  ASSUME NEW p \in Procs, p[1] <= mgr'.gen, NEW child, NEW lease,
         mgr'.poll = {Watch(p, child, lease)}, mgr'.pidFile = p, mgr'.status = "running",
         ~(inflight' # None /\ inflight'.current),
         op'.pc \in Stopping => p = Existing,
         op'.pc \in Spawning => op'.g <= mgr'.gen
  PROVE  PollInv'
<1>1. p # None BY ProcShape
<1>2. mgr'.poll # {} OBVIOUS
<1>3. \A w \in mgr'.poll : w.server = p BY WatchFields
<1> QED BY <1>1, <1>2, <1>3 DEF PollInv

LEMMA PollInvStep ==
  ASSUME Types, WorldInv, ExistingInv, PollInv, Next, mgr'.gen \in Nat, mgr.gen \in Nat, mgr'.gen >= mgr.gen
  PROVE  PollInv'
<1>0. /\ OpType /\ MgrType /\ InflightType /\ op \in Frames /\ alive \subseteq Procs /\ Existing # None
      /\ Existing[1] = 0 /\ (op.pc \in Finding => op.target \in Procs /\ op.target[1] \in Nat)
      /\ (op.pc \in Spawning => op.g \in Gens /\ op.g \in Nat)
  BY ProcShape DEF Types, WorldType, OpType
<1>1. \A w \in mgr.poll : w.server[1] <= mgr'.gen
  <2> SUFFICES ASSUME NEW w \in mgr.poll PROVE w.server[1] <= mgr'.gen
    OBVIOUS
  <2>1. w.server \in Procs BY <1>0 DEF MgrType, Watches
  <2>2. w.server[1] \in Nat /\ w.server[1] <= mgr.gen BY <2>1, ProcShape DEF PollInv
  <2> QED BY <2>2
<1>2. op.pc \in Spawning => op.g <= mgr'.gen
  <2>1. op.pc \in Spawning => op.g <= mgr.gen BY DEF PollInv
  <2> QED BY <1>0, <2>1
<1>3. CASE Begin \/ StartOnce \/ Probe
  <2>1. /\ UNCHANGED <<mgr, inflight, alive>> /\ op.pc \in {"next", "start", "probe"}
        /\ op'.pc \in {"next", "start", "stop", "probe", "acquire", "verify"}
    BY <1>0, <1>3, OpFields, PlaceFacts DEF Begin, StartOnce, Probe, At, bounds, world, Frames
  <2> QED BY <2>1 DEF PollInv, Spawning, Stopping
<1>4. CASE Verify \/ Evicted
  <2>1. /\ UNCHANGED <<inflight, alive>> /\ op.pc \in {"verify", "evicting"}
        /\ op'.pc \in {"next", "check", "acquire"} /\ (UNCHANGED mgr \/ Shows("error"))
    BY <1>0, <1>4, OpFields, FrameFields, PlaceFacts DEF Verify, Evicted, At, GiveUp, world, Shows
  <2> QED BY <1>0, <2>1, ShowsFields DEF PollInv, Spawning, Stopping
<1>5. CASE Check \/ LeaseExisting
  <2>1. /\ UNCHANGED alive /\ op.pc \in {"check", "lease"} /\ op'.pc \in {"next", "lease", "evicting"}
    BY <1>0, <1>5, OpFields, PlaceFacts DEF Check, LeaseExisting, At
  <2>2. CASE UNCHANGED <<mgr, inflight>>
    BY <2>1, <2>2 DEF PollInv, Spawning, Stopping
  <2>3. ASSUME NEW lease, Adopt(op.target, lease), op'.pc = "next" PROVE PollInv'
    <3>1. op.target \in Procs /\ op.target # None /\ op.target[1] <= mgr'.gen
      <4>1. op.pc \in Finding BY <2>1 DEF Finding
      <4>2. op.target[1] <= mgr.gen BY <4>1 DEF ExistingInv
      <4> QED BY <1>0, <4>1, <4>2, ProcShape
    <3>2. ~(inflight' # None /\ inflight'.current) BY <1>0, <2>3, StalePollFields DEF Adopt
    <3>3. mgr'.poll = {Watch(op.target, mgr.child, lease)} /\ mgr'.pidFile = op.target /\ mgr'.status = "running"
      BY <1>0, <2>3, AdoptFields
    <3>4. op'.pc \notin Spawning /\ op'.pc \notin Stopping BY <2>3 DEF Spawning, Stopping
    <3> QED BY <3>1, <3>2, <3>3, <3>4, PollOfOne
  <2> QED BY <1>0, <1>5, <2>2, <2>3, OpFields DEF Check, LeaseExisting
<1>6. CASE Acquired
  <2>1. /\ UNCHANGED <<inflight, alive>> /\ op.pc = "acquire"
        /\ \/ op'.pc = "next" /\ (UNCHANGED mgr \/ Shows("error"))
           \/ op'.pc = "spawn" /\ mgr' = [mgr EXCEPT !.status = "starting", !.managed = TRUE]
    BY <1>0, <1>6, OpFields DEF Acquired, At, GiveUp, world, Frames, Shows
  <2>2. op'.pc \notin Spawning /\ op'.pc \notin Stopping BY <2>1 DEF Spawning, Stopping
  <2>3. CASE UNCHANGED mgr /\ op'.pc = "next"
    BY <2>1, <2>2, <2>3 DEF PollInv, Stopping
  <2>4. CASE Shows("error") /\ op'.pc = "next"
    <3>1. mgr'.status = "error" /\ mgr'.poll = mgr.poll /\ mgr'.gen = mgr.gen /\ mgr'.pidFile = mgr.pidFile
      BY <1>0, <2>4, ShowsFields
    <3> QED BY <2>1, <2>2, <2>4, <3>1 DEF PollInv
  <2>5. CASE mgr' = [mgr EXCEPT !.status = "starting", !.managed = TRUE]
    <3>1. mgr'.status = "starting" /\ mgr'.poll = mgr.poll /\ mgr'.gen = mgr.gen /\ mgr'.pidFile = mgr.pidFile
      BY <1>0, <2>5, AcquiredFields
    <3> QED BY <2>1, <2>2, <3>1 DEF PollInv
  <2> QED BY <2>1, <2>3, <2>4, <2>5
<1>7. CASE Spawn
  <2>1. op.pc = "spawn" /\ mgr.status \notin {"stopped", "stopping"} /\ Existing \notin alive
    BY <1>7 DEF Spawn, At, ExistingInv, PollInv
  <2>2. Existing \notin alive'
    <3>1. mgr.gen + 1 \in Gens => Child(mgr.gen + 1) # Existing BY ProcShape
    <3>2. alive' = alive \/ alive' = alive \cup {Child(mgr.gen + 1)} BY <1>7 DEF Spawn
    <3>3. Child(mgr.gen + 1) # Existing BY ProcFacts DEF Child, Existing
    <3> QED BY <2>1, <3>2, <3>3
  <2>3. CASE EndRequest /\ UNCHANGED <<mgr, inflight>>
    <3>1. op'.pc = "next" BY <1>0, <2>3, OpFields
    <3> QED BY <2>1, <2>2, <2>3, <3>1 DEF PollInv, Spawning, Stopping
  <2>4. ASSUME mgr'.gen = mgr.gen + 1, op'.pc \in {"waitpid", "bind"}, op'.g = mgr.gen + 1,
               \/ /\ mgr'.poll = mgr.poll /\ mgr'.pidFile = mgr.pidFile /\ mgr'.status = mgr.status
                  /\ mgr'.cleaningUp = mgr.cleaningUp /\ UNCHANGED inflight
               \/ /\ mgr'.poll = {} /\ mgr'.status = "error" /\ ~(inflight' # None /\ inflight'.current)
        PROVE  PollInv'
    <3>1. op'.g <= mgr'.gen BY <1>0, <2>4
    <3>2. op'.pc \notin Stopping BY <2>4 DEF Stopping
    <3>3. op.pc \notin Stopping BY <2>1 DEF Stopping
    <3>4. CASE /\ mgr'.poll = mgr.poll /\ mgr'.pidFile = mgr.pidFile /\ mgr'.status = mgr.status
               /\ mgr'.cleaningUp = mgr.cleaningUp /\ UNCHANGED inflight
      BY <1>1, <2>1, <2>2, <3>1, <3>2, <3>3, <3>4 DEF PollInv
    <3>5. CASE mgr'.poll = {} /\ mgr'.status = "error" /\ ~(inflight' # None /\ inflight'.current)
      BY <3>1, <3>5 DEF PollInv
    <3> QED BY <2>4, <3>4, <3>5
  <2>5. ASSUME NEW place \in {"waitpid", "bind"}, op' = [op EXCEPT !.g = mgr.gen + 1, !.pc = place]
        PROVE  op'.pc \in {"waitpid", "bind"} /\ op'.g = mgr.gen + 1
    BY <1>0, <2>5 DEF Frames
  <2>6. CASE /\ mgr' = [mgr EXCEPT !.gen = mgr.gen + 1, !.child = Child(mgr.gen + 1)] /\ UNCHANGED inflight
             /\ op' = [op EXCEPT !.g = mgr.gen + 1, !.pc = IF op.lease = None THEN "waitpid" ELSE "bind"]
    <3>1. op'.pc \in {"waitpid", "bind"} /\ op'.g = mgr.gen + 1
      BY <2>5, <2>6
    <3>2. /\ mgr'.gen = mgr.gen + 1 /\ mgr'.poll = mgr.poll /\ mgr'.pidFile = mgr.pidFile
          /\ mgr'.status = mgr.status /\ mgr'.cleaningUp = mgr.cleaningUp
      BY <1>0, <2>6, SpawnedFields
    <3> QED BY <2>4, <2>6, <3>1, <3>2
  <2>7. CASE /\ mgr' = [mgr EXCEPT !.gen = mgr.gen + 1, !.child = None, !.pidFile = None, !.poll = {},
                                   !.status = "error"]
             /\ StalePoll /\ op' = [op EXCEPT !.g = mgr.gen + 1, !.pc = "waitpid"]
    <3>1. op'.pc \in {"waitpid", "bind"} /\ op'.g = mgr.gen + 1
      BY <2>5, <2>7
    <3>2. mgr'.gen = mgr.gen + 1 /\ mgr'.poll = {} /\ mgr'.status = "error"
      BY <1>0, <2>7, NotSpawnedFields
    <3>3. ~(inflight' # None /\ inflight'.current) BY <1>0, <2>7, StalePollFields
    <3> QED BY <2>4, <3>1, <3>2, <3>3
  <2> QED BY <1>7, <2>3, <2>6, <2>7 DEF Spawn
<1>8. CASE BindChild \/ Killed \/ WaitPidFile
  <2>1. /\ UNCHANGED <<mgr, inflight, alive>> /\ op.pc \in {"bind", "killed", "waitpid"}
        /\ op'.pc \in {"waitpid", "killed", "catch", "own"} /\ op'.g = op.g
    BY <1>0, <1>8, OpFields, PlaceFacts DEF BindChild, Killed, WaitPidFile, At, world
  <2> QED BY <2>1 DEF PollInv, Spawning, Stopping
<1>9. CASE Own
  <2>1. /\ UNCHANGED <<inflight, alive>> /\ op.pc = "own" /\ op'.pc \in {"health", "killed", "catch"} /\ op'.g = op.g
        /\ UNCHANGED mgr \/ mgr' = [mgr EXCEPT !.pidFile = Server(op.g)]
    BY <1>0, <1>9, OpFields, PlaceFacts DEF Own, At
  <2>2. Server(op.g) # None BY <1>0, <2>1, ProcShape DEF Spawning
  <2>3. mgr' = [mgr EXCEPT !.pidFile = Server(op.g)] =>
            /\ mgr'.pidFile = Server(op.g) /\ mgr'.poll = mgr.poll /\ mgr'.status = mgr.status
            /\ mgr'.cleaningUp = mgr.cleaningUp /\ mgr'.gen = mgr.gen
    BY <1>0 DEF MgrType
  <2> QED BY <2>1, <2>2, <2>3 DEF PollInv, Spawning, Stopping
<1>10. CASE Healthy
  <2>1. UNCHANGED alive /\ op.pc = "health" BY <1>10 DEF Healthy, At, world
  <2>2. CASE Goto("catch") /\ UNCHANGED <<mgr, inflight>>
    <3>1. op'.pc = "catch" /\ op'.g = op.g BY <1>0, <2>2, OpFields, PlaceFacts
    <3> QED BY <2>1, <2>2, <3>1 DEF PollInv, Spawning, Stopping
  <2>3. CASE /\ EndRequest /\ StalePoll
             /\ mgr' = [mgr EXCEPT !.status = "running", !.pidFile = Server(op.g),
                                   !.poll = {Watch(Server(op.g), mgr.child, ls.active)}]
    <3>1. Server(op.g) \in Procs /\ Server(op.g) # None /\ Server(op.g)[1] = op.g /\ op.g <= mgr'.gen
      BY <1>0, <1>2, <2>1, ProcShape DEF Spawning
    <3>2. op'.pc = "next" /\ ~(inflight' # None /\ inflight'.current)
      BY <1>0, <2>3, OpFields, StalePollFields
    <3>3. /\ mgr'.poll = {Watch(Server(op.g), mgr.child, ls.active)}
          /\ mgr'.pidFile = Server(op.g) /\ mgr'.status = "running"
      BY <1>0, <2>3, HealthyFields
    <3>4. op'.pc \notin Spawning /\ op'.pc \notin Stopping BY <3>2 DEF Spawning, Stopping
    <3> QED BY <3>1, <3>2, <3>3, <3>4, PollOfOne
  <2> QED BY <1>10, <2>2, <2>3 DEF Healthy
<1>11. CASE StartFails \/ StartFailed
  <2>1. /\ UNCHANGED <<inflight, alive>> /\ op.pc \in {"catch", "failed"}
        /\ (op'.pc \in {"next", "failed"} /\ op'.g = op.g) \/ op'.pc = "next"
    BY <1>0, <1>11, OpFields DEF StartFails, StartFailed, At, Frames
  <2>2. /\ mgr'.status \in {mgr.status, "error"} /\ mgr'.poll = mgr.poll /\ mgr'.pidFile = mgr.pidFile
        /\ mgr'.cleaningUp = mgr.cleaningUp
    BY <1>0, <1>11 DEF StartFails, StartFailed, MgrType
  <2> QED BY <1>1, <1>2, <2>1, <2>2 DEF PollInv, Spawning, Stopping
<1>12. CASE StopOnce
  <2>1. UNCHANGED alive /\ op.pc = "stop" BY <1>12 DEF StopOnce, At
  <2>2. CASE EndStop /\ UNCHANGED <<mgr, inflight>>
    BY <1>0, <2>1, <2>2, OpFields DEF PollInv, Spawning, Stopping
  <2>3. CASE /\ mgr' = [mgr EXCEPT !.status = "stopping", !.poll = {}] /\ StalePoll
             /\ op' = [op EXCEPT !.pc = "stopping", !.child = mgr.child, !.target = mgr.pidFile,
                                !.lease = ls.active]
    <3>1. op'.pc = "stopping" BY <1>0, <2>3 DEF Frames
    <3> QED BY <1>0, <2>3, <3>1, StoppingFields, StalePollFields DEF PollInv, Spawning, Stopping
  <2> QED BY <1>12, <2>2, <2>3 DEF StopOnce
<1>13. CASE StopWait \/ StopForced
  <2>1. UNCHANGED <<alive, inflight>> /\ op.pc \in Stopping
    BY <1>13 DEF StopWait, StopForced, At, Stopping
  <2>2. CASE Goto("forced") /\ UNCHANGED mgr
    <3>1. op'.pc = "forced" BY <1>0, <2>2, OpFields, PlaceFacts
    <3> QED BY <2>1, <2>2, <3>1 DEF PollInv, Spawning, Stopping
  <2>3. CASE EndStop /\ (Shows("error") \/ mgr' = [mgr EXCEPT !.status = "stopped", !.child = None, !.pidFile = None])
    <3>1. op'.pc \in {"next", "start"} BY <1>0, <2>3, OpFields
    <3>2. Existing \notin alive BY <2>1 DEF ExistingInv
    <3> QED BY <1>0, <2>1, <2>3, <3>1, <3>2, ShowsFields, StoppedFields DEF PollInv, Spawning, Stopping
  <2> QED BY <1>13, <2>2, <2>3 DEF StopWait, StopForced, ConfirmStopped, Shows
<1>14. CASE DetectRead \/ DetectVerify
  <2>1. /\ UNCHANGED <<op, inflight, alive>>
        /\ UNCHANGED mgr \/ Shows("error") \/ (Shows("stopped") /\ detect.pc = "read")
    BY <1>14 DEF DetectRead, DetectVerify, DetectFails, Shows, world
  <2> QED BY <1>0, <2>1, ShowsFields DEF PollInv, ExistingInv, Spawning, Stopping
<1>15. CASE DetectCheck \/ DetectLease
  <2>1. UNCHANGED <<op, alive>> /\ detect.target = Existing
    BY <1>15 DEF DetectCheck, DetectLease, ExistingInv, world
  <2>2. CASE UNCHANGED inflight /\ (UNCHANGED mgr \/ Shows("error"))
    BY <1>0, <2>1, <2>2, ShowsFields DEF PollInv, Spawning, Stopping
  <2>3. ASSUME NEW lease, Adopt(Existing, lease) PROVE PollInv'
    <3>2. ~(inflight' # None /\ inflight'.current) BY <1>0, <2>3, StalePollFields DEF Adopt
    <3>3. mgr'.poll = {Watch(Existing, mgr.child, lease)} /\ mgr'.pidFile = Existing /\ mgr'.status = "running"
      BY <1>0, <2>3, AdoptFields
    <3>4. op'.pc \in Spawning => op'.g <= mgr'.gen BY <1>2, <2>1
    <3>5. Existing \in Procs /\ Existing[1] <= mgr'.gen BY <1>0, ProcShape
    <3> QED BY <3>2, <3>3, <3>4, <3>5, PollOfOne
  <2> QED BY <1>15, <2>1, <2>2, <2>3 DEF DetectCheck, DetectLease, DetectFails, Shows
<1>16. CASE PollSend
  BY <1>0, <1>16 DEF PollSend, PollInv, world
<1>17. CASE PollReturn
  <2>1. UNCHANGED <<op, alive>> /\ inflight' = None /\ inflight # None
    BY <1>17 DEF PollReturn, world
  <2>2. CASE UNCHANGED mgr
    BY <2>1, <2>2 DEF PollInv
  <2>3. CASE \E lost : mgr' = [mgr EXCEPT !.poll = {}, !.child = None, !.pidFile = None, !.status = "error",
                                         !.forgotten = @ \cup lost]
    BY <1>0, <1>2, <2>1, <2>3, GoneFields DEF PollInv, Stopping
  <2>4. CASE Shows("error") \/ Shows(IF mgr.status = "running" THEN "error" ELSE mgr.status)
    BY <1>0, <2>1, <2>4, ShowsFields DEF PollInv, Spawning, Stopping
  <2>5. CASE /\ inflight.current /\ inflight.watch.server \in alive
             /\ Shows(IF mgr.status = "error" THEN "running" ELSE mgr.status)
    <3>1. inflight.watch \in mgr.poll BY <2>1, <2>5 DEF PollInv
    <3>2. mgr.pidFile # None /\ mgr.poll # {} BY <2>5, <3>1 DEF PollInv
    <3> QED BY <1>0, <2>1, <2>5, <3>2, ShowsFields DEF PollInv, Spawning, Stopping
  <2> QED BY <1>17, <2>2, <2>3, <2>4, <2>5 DEF PollReturn, Current, Alive, Shows
<1>18. CASE \E g \in Gens : ExitEvent(g)
  <2>1. PICK g \in Gens : ExitEvent(g) BY <1>18
  <2>2. UNCHANGED <<op, alive>> BY <2>1 DEF ExitEvent
  <2>3. CASE UNCHANGED inflight /\ (UNCHANGED mgr \/ mgr' = [mgr EXCEPT !.child = None])
    BY <1>0, <2>2, <2>3 DEF MgrType, PollInv
  <2>4. CASE StalePoll /\ mgr' = [Forget(mgr) EXCEPT !.status = IF @ = "stopping" THEN "stopped" ELSE "error"]
    BY <1>0, <1>2, <2>2, <2>4, ExitedFields, StalePollFields DEF PollInv, Spawning, Stopping
  <2> QED BY <2>1, <2>3, <2>4 DEF ExitEvent
<1>19. CASE \E g \in Gens : ErrorEvent(g)
  <2>1. PICK g \in Gens : ErrorEvent(g) BY <1>19
  <2>2. UNCHANGED <<op, inflight, alive>> /\ (Shows(mgr.status) \/ Shows("error"))
    BY <2>1 DEF ErrorEvent, world, Shows
  <2> QED BY <1>0, <2>2, ShowsFields DEF PollInv, Spawning, Stopping
<1>20. CASE Cleanup
  <2>1. /\ UNCHANGED <<op, alive>> /\ mgr'.status = mgr.status /\ mgr'.cleaningUp /\ mgr'.poll = {}
        /\ mgr'.gen = mgr.gen /\ ~(inflight' # None /\ inflight'.current)
    BY <1>0, <1>20, StalePollFields DEF Cleanup, MgrType, world
  <2> QED BY <2>1 DEF PollInv
<1>21. CASE \E g \in Gens : LauncherStarts(g)
  <2>1. \A g \in Gens : Server(g) # Existing BY ProcShape
  <2> QED BY <1>21, <2>1 DEF LauncherStarts, PollInv
<1>22. CASE \E p \in Procs : Dies(p)
  BY <1>22 DEF Dies, PollInv
<1>23. CASE UNCHANGED <<mgr, op, inflight, alive>>
  BY <1>23 DEF PollInv
<1> QED
  BY <1>3, <1>4, <1>5, <1>6, <1>7, <1>8, <1>9, <1>10, <1>11, <1>12, <1>13, <1>14, <1>15, <1>16, <1>17,
     <1>18, <1>19, <1>20, <1>21, <1>22, <1>23
  DEF Next, Manager, Environment, PollReplace, AppExit, Request, WritePidFile, world, bounds

-------------------------------------------------------------------------------
(* One process                                                             *)

\* The state in which nothing lives satisfies what is said of the living.
LEMMA NobodyLives ==
  ASSUME alive' = {}, ready' = {},
         mgr'.status = "running" /\ ~mgr'.cleaningUp /\ op'.pc \notin {"own", "health", "killed", "catch"}
             => \A w \in mgr'.poll : w.server = mgr'.pidFile
  PROVE  OneProcess'
BY DEF OneProcess

\* Nothing but what is shown, and where the request is, has changed.
LEMMA TidyStaysSo ==
  ASSUME Types, Next, Tidy' PROVE Tidy
<1>1. stuck \subseteq stuck' /\ direct' = direct
  BY DEF Next, Manager, Environment, Begin, StartOnce, Probe, Verify, Check, LeaseExisting, Evicted, Acquired,
         Spawn, BindChild, Killed, WaitPidFile, Own, Healthy, StartFails, StartFailed, StopOnce, StopWait,
         StopForced, DetectRead, DetectVerify, DetectCheck, DetectLease, PollReturn, PollReplace, ExitEvent,
         PollSend, Cleanup, AppExit, Request, ErrorEvent, LauncherStarts, WritePidFile, Dies, world, bounds
<1>2. mgr.forgotten \subseteq mgr'.forgotten
  <2>0. MgrType BY DEF Types
  <2>1. CASE PollReturn
    <3>1. CASE \E lost : mgr' = [mgr EXCEPT !.poll = {}, !.child = None, !.pidFile = None, !.status = "error",
                                           !.forgotten = @ \cup lost]
      BY <2>0, <3>1, GoneFields
    <3>2. CASE UNCHANGED mgr \/ \E s : Shows(s)
      BY <2>0, <3>2, ShowsFields
    <3> QED BY <2>1, <3>1, <3>2 DEF PollReturn, Shows
  <2>2. CASE UNCHANGED mgr
    BY <2>2
  <2>3. CASE Verify \/ Evicted \/ Acquired \/ StartFails \/ StartFailed \/ StopOnce \/ Cleanup \/ Own \/ Healthy \/ Spawn
    <3>1. mgr'.forgotten = mgr.forgotten
      BY <2>0, <2>3 DEF MgrType, Verify, Evicted, Acquired, StartFails, StartFailed, StopOnce, Cleanup, Own, Healthy, Spawn, GiveUp
    <3> QED BY <3>1
  <2>4. CASE StopWait \/ StopForced \/ (\E g \in Gens : ExitEvent(g) \/ ErrorEvent(g)) \/ DetectRead \/ DetectVerify
    <3>1. mgr'.forgotten = mgr.forgotten
      BY <2>0, <2>4 DEF MgrType, StopWait, StopForced, ExitEvent, ErrorEvent, DetectRead, DetectVerify, ConfirmStopped, Forget, DetectFails
    <3> QED BY <3>1
  <2>5. CASE Check \/ LeaseExisting \/ DetectCheck \/ DetectLease
    <3>1. UNCHANGED mgr \/ Shows("error") \/ \E p, lease : Adopt(p, lease)
      BY <2>5 DEF Check, LeaseExisting, DetectCheck, DetectLease, DetectFails, Shows
    <3> QED BY <2>0, <3>1, ShowsFields, AdoptFields
  <2> QED BY <2>1, <2>2, <2>3, <2>4, <2>5
    DEF Next, Manager, Environment, Begin, StartOnce, Probe, BindChild, Killed, WaitPidFile, PollReplace,
        PollSend, AppExit, Request, LauncherStarts, WritePidFile, Dies
<1> QED BY <1>1, <1>2 DEF Tidy

LEMMA OneProcessStep ==
  ASSUME Types, WorldInv, ExistingInv, PollInv, OneProcess, Tidy, Tidy', Next, mgr.gen \in Nat
  PROVE  OneProcess'
<1>0. /\ OpType /\ MgrType /\ InflightType /\ op \in Frames
      /\ alive \subseteq Procs /\ ready \subseteq alive /\ exits \subseteq Gens /\ None \notin alive
      /\ (op.pc \in Spawning => op.g \in Gens /\ op.g \in Nat)
  BY ProcShape DEF Types, WorldType, OpType
<1>d. direct /\ unborn = {} /\ (\A g \in Gens : Server(g) = Child(g)) /\ stuck' = {} /\ mgr'.forgotten = {}
  BY ProcShape DEF Tidy, WorldInv
<1>1. CASE Begin \/ StartOnce
  <2>1. /\ UNCHANGED <<mgr, alive, ready, exits, file>> /\ op.pc \in {"next", "start"}
        /\ op'.pc \in {"next", "start", "stop", "probe"}
    BY <1>0, <1>1, OpFields, PlaceFacts DEF Begin, StartOnce, At, world
  <2> QED BY <2>1 DEF OneProcess, Finding, Stopping
<1>2. CASE Probe
  <2>1. UNCHANGED <<mgr, alive, ready, exits>> /\ op.pc = "probe"
    BY <1>2 DEF Probe, At
  <2>2. CASE op'.pc = "next" /\ file' = file
    BY <2>1, <2>2 DEF OneProcess, Finding, Stopping
  <2>3. CASE Serves /\ op' = [op EXCEPT !.pc = "verify", !.target = file] /\ file' = file
    <3>1. op'.pc = "verify" /\ op'.target = file /\ file \in alive
      BY <1>0, <2>3 DEF Frames, Serves, Alive
    <3> QED BY <2>1, <2>3, <3>1 DEF OneProcess, Finding, Stopping
  <2>4. CASE ~Serves /\ op'.pc = "acquire"
    <3>1. alive = {}
      <4>1. alive \subseteq ready /\ \A p \in ready : p = file BY <2>1 DEF OneProcess
      <4> QED BY <1>0, <2>4, <4>1 DEF Serves, Alive
    <3> QED BY <1>0, <2>1, <2>4, <3>1 DEF OneProcess, Finding, Stopping
  <2> QED BY <1>0, <1>2, <2>2, <2>3, <2>4, OpFields, PlaceFacts DEF Probe
<1>3. CASE Verify
  <2>1. UNCHANGED <<alive, ready, exits, file>> /\ op.pc = "verify" /\ (UNCHANGED mgr \/ Shows("error"))
    BY <1>3 DEF Verify, At, GiveUp, Shows, world
  <2>2. op'.pc = "next" \/ (op'.pc = "check" /\ op'.target = op.target)
    BY <1>0, <1>3, OpFields, PlaceFacts DEF Verify, GiveUp
  <2>3. CASE UNCHANGED mgr
    BY <2>1, <2>2, <2>3 DEF OneProcess, Finding, Stopping
  <2>4. CASE Shows("error")
    <3>1. mgr'.status = "error" /\ mgr'.poll = mgr.poll /\ mgr'.pidFile = mgr.pidFile /\ mgr'.child = mgr.child
      BY <1>0, <2>4, ShowsFields
    <3> QED BY <2>1, <2>2, <3>1 DEF OneProcess, Finding, Stopping
  <2> QED BY <2>1, <2>3, <2>4
<1>4. CASE Check \/ LeaseExisting
  <2>1. UNCHANGED <<alive, ready, exits, file>> /\ op.pc \in {"check", "lease"}
    BY <1>4 DEF Check, LeaseExisting, At
  <2>2. op'.pc = "next" \/ (op'.pc \in {"lease", "evicting"} /\ op'.target = op.target)
    BY <1>0, <1>4, OpFields, PlaceFacts DEF Check, LeaseExisting
  <2>3. CASE UNCHANGED mgr
    BY <2>1, <2>2, <2>3 DEF OneProcess, Finding, Stopping
  <2>4. ASSUME NEW lease, Adopt(op.target, lease), op'.pc = "next" PROVE OneProcess'
    <3>1. /\ mgr'.poll = {Watch(op.target, mgr.child, lease)} /\ mgr'.pidFile = op.target
          /\ mgr'.status = "running" /\ mgr'.child = mgr.child
      BY <1>0, <2>4, AdoptFields
    <3>2. \A w \in mgr'.poll : w.server = mgr'.pidFile BY <3>1, WatchFields
    <3> QED BY <2>1, <2>4, <3>1, <3>2 DEF OneProcess, Finding, Stopping
  <2> QED BY <1>0, <1>4, <2>3, <2>4, OpFields DEF Check, LeaseExisting
<1>5. CASE Evicted
  <2>1. UNCHANGED <<alive, ready, exits>> /\ op.pc = "evicting"
    BY <1>5 DEF Evicted, At
  <2>2. op.target \notin alive /\ UNCHANGED mgr
    BY <1>d, <1>5 DEF Evicted, Alive
  <2>3. alive = {} /\ ready = {}
    <3>1. alive \subseteq {op.target} BY <2>1 DEF OneProcess, Finding
    <3> QED BY <1>0, <2>2, <3>1
  <2> QED BY <2>1, <2>2, <2>3, NobodyLives DEF OneProcess
<1>6. CASE Acquired
  <2>1. /\ UNCHANGED <<alive, ready, exits, file>> /\ op.pc = "acquire"
        /\ UNCHANGED mgr \/ Shows("error") \/ mgr' = [mgr EXCEPT !.status = "starting", !.managed = TRUE]
    BY <1>6 DEF Acquired, At, GiveUp, world, Shows
  <2>2. alive = {} /\ ready = {} BY <1>0, <2>1 DEF OneProcess
  <2>3. UNCHANGED mgr \/ mgr'.status # "running"
    <3>1. Shows("error") => mgr'.status = "error" BY <1>0, ShowsFields
    <3>2. mgr' = [mgr EXCEPT !.status = "starting", !.managed = TRUE] => mgr'.status = "starting"
      BY <1>0, AcquiredFields
    <3> QED BY <2>1, <3>1, <3>2
  <2> QED BY <2>1, <2>2, <2>3, NobodyLives DEF OneProcess
<1>7. CASE Spawn
  <2>1. UNCHANGED <<ready, exits, file>> /\ op.pc = "spawn" /\ alive = {} /\ ready = {}
    BY <1>0, <1>7 DEF Spawn, At, OneProcess
  <2>2. CASE EndRequest /\ UNCHANGED <<mgr, alive>>
    BY <2>1, <2>2, NobodyLives DEF OneProcess
  <2>3. CASE /\ mgr' = [mgr EXCEPT !.gen = mgr.gen + 1, !.child = None, !.pidFile = None, !.poll = {},
                                   !.status = "error"]
             /\ UNCHANGED alive
    <3>1. mgr'.status = "error" BY <1>0, <2>3, NotSpawnedFields
    <3> QED BY <2>1, <2>3, <3>1, NobodyLives
  <2>4. CASE /\ mgr' = [mgr EXCEPT !.gen = mgr.gen + 1, !.child = Child(mgr.gen + 1)]
             /\ alive' = alive \cup {Child(mgr.gen + 1)}
             /\ op' = [op EXCEPT !.g = mgr.gen + 1, !.pc = IF op.lease = None THEN "waitpid" ELSE "bind"]
    <3>1. /\ mgr'.child = Child(mgr.gen + 1) /\ mgr'.poll = mgr.poll /\ mgr'.pidFile = mgr.pidFile
          /\ mgr'.status = mgr.status /\ mgr'.cleaningUp = mgr.cleaningUp
      BY <1>0, <2>4, SpawnedFields
    <3>2. op'.pc \in {"bind", "waitpid"} /\ op'.g = mgr.gen + 1
      <4>1. ASSUME NEW place \in {"waitpid", "bind"}, op' = [op EXCEPT !.g = mgr.gen + 1, !.pc = place]
            PROVE  op'.pc \in {"bind", "waitpid"} /\ op'.g = mgr.gen + 1
        BY <1>0, <4>1 DEF Frames
      <4> QED BY <2>4, <4>1
    <3>3. Child(mgr.gen + 1)[1] = mgr.gen + 1 BY DEF Child
    <3>4. \A w \in mgr.poll : w.server # Child(mgr.gen + 1)
      <4> SUFFICES ASSUME NEW w \in mgr.poll PROVE w.server # Child(mgr.gen + 1)
        OBVIOUS
      <4>1. w.server \in Procs BY <1>0 DEF MgrType, Watches
      <4>2. w.server[1] \in Nat /\ w.server[1] <= mgr.gen BY <4>1, ProcShape DEF PollInv
      <4> QED BY <3>3, <4>2
    <3>5. \A g \in exits : g < mgr.gen + 1
      <4> SUFFICES ASSUME NEW g \in exits PROVE g < mgr.gen + 1
        OBVIOUS
      <4>1. g \in Nat /\ g <= mgr.gen BY <1>0, ProcShape DEF WorldInv
      <4> QED BY <4>1
    <3>6. alive' = {Child(mgr.gen + 1)} /\ mgr.status # "stopped"
      BY <2>1, <2>4 DEF PollInv
    <3>7. op'.pc \notin Finding /\ op'.pc \notin Stopping BY <3>2 DEF Finding, Stopping
    <3> QED BY <2>1, <3>1, <3>2, <3>3, <3>4, <3>5, <3>6, <3>7 DEF OneProcess
  <2> QED BY <1>7, <2>2, <2>3, <2>4 DEF Spawn
<1>8. CASE BindChild \/ Killed
  <2>1. /\ UNCHANGED <<mgr, alive, ready, exits, file>> /\ op.pc \in {"bind", "killed"}
        /\ op'.pc \in {"waitpid", "killed", "catch"} /\ op'.g = op.g /\ (op'.pc = "waitpid" => op.pc = "bind")
    BY <1>0, <1>8, OpFields, PlaceFacts DEF BindChild, Killed, At
  <2> QED BY <2>1 DEF OneProcess, Finding, Stopping
<1>9. CASE WaitPidFile
  <2>1. UNCHANGED <<mgr, alive, ready, exits, file>> /\ op.pc = "waitpid"
    BY <1>9 DEF WaitPidFile, At, world
  <2>2. CASE op'.pc = "catch"
    BY <2>1, <2>2 DEF OneProcess, Finding, Stopping
  <2>3. CASE PidFileWritten(op.g) /\ op'.pc = "own" /\ op'.g = op.g
    <3>1. file = Child(op.g) BY <1>0, <1>d, <2>1, <2>3 DEF PidFileWritten, Spawning
    <3>2. alive \subseteq ready
      <4>1. alive \subseteq {Child(op.g)} BY <2>1 DEF OneProcess
      <4> QED BY <3>1, <4>1 DEF WorldInv
    <3> QED BY <2>1, <2>3, <3>2 DEF OneProcess, Finding, Stopping
  <2> QED BY <1>0, <1>9, <2>2, <2>3, OpFields, PlaceFacts DEF WaitPidFile
<1>10. CASE Own
  <2>1. /\ UNCHANGED <<alive, ready, exits, file>> /\ op.pc = "own"
        /\ op'.pc \in {"health", "killed", "catch"} /\ op'.g = op.g
        /\ UNCHANGED mgr \/ mgr' = [mgr EXCEPT !.pidFile = Child(op.g)]
    BY <1>0, <1>d, <1>10, OpFields, PlaceFacts DEF Own, At, Spawning
  <2>2. CASE UNCHANGED mgr
    BY <2>1, <2>2 DEF OneProcess, Finding, Stopping
  <2>3. CASE mgr' = [mgr EXCEPT !.pidFile = Child(op.g)]
    <3>1. /\ mgr'.pidFile = Child(op.g) /\ mgr'.poll = mgr.poll /\ mgr'.status = mgr.status
          /\ mgr'.child = mgr.child
      BY <1>0, <2>3 DEF MgrType
    <3>2. alive \subseteq {Child(op.g)} BY <2>1 DEF OneProcess
    <3>3. \A w \in mgr'.poll : w.server = mgr'.pidFile \/ w.server \notin alive' BY <2>1, <3>1, <3>2
    <3> QED BY <2>1, <3>1, <3>2, <3>3 DEF OneProcess, Finding, Stopping
  <2> QED BY <2>1, <2>2, <2>3
<1>11. CASE Healthy
  <2>1. UNCHANGED <<alive, ready, exits, file>> /\ op.pc = "health"
    BY <1>11 DEF Healthy, At, world
  <2>2. CASE op'.pc = "catch" /\ UNCHANGED mgr
    BY <2>1, <2>2 DEF OneProcess, Finding, Stopping
  <2>3. CASE /\ EndRequest
             /\ mgr' = [mgr EXCEPT !.status = "running", !.pidFile = Server(op.g),
                                   !.poll = {Watch(Server(op.g), mgr.child, ls.active)}]
    <3>1. /\ mgr'.status = "running" /\ mgr'.pidFile = Server(op.g) /\ mgr'.child = mgr.child
          /\ mgr'.poll = {Watch(Server(op.g), mgr.child, ls.active)}
      BY <1>0, <2>3, HealthyFields
    <3>2. \A w \in mgr'.poll : w.server = mgr'.pidFile BY <3>1, WatchFields
    <3>3. op'.pc = "next" BY <1>0, <2>3, OpFields
    <3> QED BY <2>1, <3>1, <3>2, <3>3 DEF OneProcess, Finding, Stopping
  <2> QED BY <1>0, <1>11, <2>2, <2>3, OpFields, PlaceFacts DEF Healthy
<1>12. CASE StartFails
  <2>1. /\ UNCHANGED <<alive, ready, exits, file>> /\ op.pc = "catch"
        /\ op' = [op EXCEPT !.pc = "failed", !.child = mgr.child] /\ Shows("error")
    BY <1>12 DEF StartFails, At, Shows
  <2>2. op'.pc = "failed" /\ op'.child = mgr.child BY <1>0, <2>1 DEF Frames
  <2>3. mgr'.status = "error" /\ mgr'.poll = mgr.poll /\ mgr'.pidFile = mgr.pidFile /\ mgr'.child = mgr.child
    BY <1>0, <2>1, ShowsFields
  <2>4. Existing \notin alive BY <2>1 DEF ExistingInv, Spawning
  <2> QED BY <2>1, <2>2, <2>3, <2>4 DEF OneProcess, Finding, Stopping
<1>13. CASE StartFailed
  <2>1. UNCHANGED <<alive, ready, exits, file>> /\ op.pc = "failed" /\ {op.child} \cap alive = {}
    BY <1>d, <1>13 DEF StartFailed, At
  <2>2. alive = {} /\ ready = {}
    <3>1. alive \subseteq {op.child} BY <2>1 DEF OneProcess
    <3> QED BY <1>0, <2>1, <3>1
  <2>3. mgr'.status = mgr.status /\ mgr'.poll = mgr.poll /\ mgr'.pidFile = mgr.pidFile /\ mgr'.cleaningUp = mgr.cleaningUp
    BY <1>0, <1>13 DEF StartFailed, MgrType
  <2> QED BY <2>1, <2>2, <2>3, NobodyLives DEF OneProcess
<1>14. CASE StopOnce
  <2>1. UNCHANGED <<alive, ready, exits, file>> /\ op.pc = "stop"
    BY <1>14 DEF StopOnce, At
  <2>2. CASE op'.pc \in {"next", "start"} /\ UNCHANGED mgr
    BY <2>1, <2>2 DEF OneProcess, Finding, Stopping
  <2>3. CASE /\ mgr' = [mgr EXCEPT !.status = "stopping", !.poll = {}]
             /\ op' = [op EXCEPT !.pc = "stopping", !.child = mgr.child, !.target = mgr.pidFile,
                                !.lease = ls.active]
    <3>1. op'.pc = "stopping" /\ op'.child = mgr.child BY <1>0, <2>3 DEF Frames
    <3>2. mgr'.status = "stopping" /\ mgr'.poll = {} /\ mgr'.child = mgr.child BY <1>0, <2>3, StoppingFields
    <3> QED BY <2>1, <3>1, <3>2 DEF OneProcess, Finding, Stopping
  <2> QED BY <1>0, <1>14, <2>2, <2>3, OpFields DEF StopOnce
<1>15. CASE StopWait \/ StopForced
  <2>1. UNCHANGED <<alive, ready, exits, file>> /\ op.pc \in Stopping
    BY <1>15 DEF StopWait, StopForced, At, Stopping
  <2>2. CASE op'.pc = "forced" /\ op'.child = op.child /\ UNCHANGED mgr
    BY <2>1, <2>2 DEF OneProcess, Finding, Stopping
  <2>3. CASE /\ Ours \cap alive = {}
             /\ Shows("error") \/ mgr' = [mgr EXCEPT !.status = "stopped", !.child = None, !.pidFile = None]
    <3>1. alive = {} /\ ready = {}
      <4>1. alive \subseteq {Existing, op.child} BY <2>1 DEF OneProcess
      <4>2. Existing \notin alive BY <2>1 DEF ExistingInv
      <4>3. op.child \notin alive BY <1>0, <2>3 DEF Ours
      <4> QED BY <1>0, <4>1, <4>2, <4>3
    <3>2. mgr'.status # "running" BY <1>0, <2>3, ShowsFields, StoppedFields
    <3> QED BY <2>1, <3>1, <3>2, NobodyLives
  <2>4. StopForced => Ours \cap alive = {} BY <1>d DEF StopForced
  <2> QED BY <1>0, <1>15, <2>2, <2>3, <2>4, OpFields, PlaceFacts DEF StopWait, StopForced, ConfirmStopped, Shows
<1>16. CASE DetectRead
  <2>1. UNCHANGED <<op, alive, ready, exits>> /\ op.pc = "next"
    BY <1>16 DEF DetectRead, ExistingInv
  <2>2. CASE UNCHANGED <<mgr, file>>
    BY <2>1, <2>2 DEF OneProcess
  <2>3. CASE (file = None \/ ~Alive(file)) /\ Shows("stopped")
    <3>1. alive = {} /\ ready = {}
      <4>1. alive \subseteq ready /\ \A p \in ready : p = file BY <2>1 DEF OneProcess
      <4> QED BY <1>0, <2>3, <4>1 DEF Alive
    <3>2. mgr'.status = "stopped" BY <1>0, <2>3, ShowsFields
    <3> QED BY <2>1, <3>1, <3>2, NobodyLives
  <2> QED BY <1>16, <2>2, <2>3 DEF DetectRead, DetectFails, Shows
<1>17. CASE DetectVerify \/ DetectCheck \/ DetectLease
  <2>1. UNCHANGED <<op, alive, ready, exits, file>>
    BY <1>17 DEF DetectVerify, DetectCheck, DetectLease, world
  <2>2. CASE UNCHANGED mgr
    BY <2>1, <2>2 DEF OneProcess
  <2>3. CASE Shows("error")
    <3>1. mgr'.status = "error" /\ mgr'.poll = mgr.poll /\ mgr'.pidFile = mgr.pidFile /\ mgr'.child = mgr.child
      BY <1>0, <2>3, ShowsFields
    <3> QED BY <2>1, <3>1 DEF OneProcess
  <2>4. ASSUME NEW p, NEW lease, Adopt(p, lease) PROVE OneProcess'
    <3>1. /\ mgr'.poll = {Watch(p, mgr.child, lease)} /\ mgr'.pidFile = p
          /\ mgr'.status = "running" /\ mgr'.child = mgr.child
      BY <1>0, <2>4, AdoptFields
    <3>2. \A w \in mgr'.poll : w.server = mgr'.pidFile BY <3>1, WatchFields
    <3> QED BY <2>1, <3>1, <3>2 DEF OneProcess
  <2> QED BY <1>17, <2>2, <2>3, <2>4 DEF DetectVerify, DetectCheck, DetectLease, DetectFails, Shows
<1>18. CASE PollReturn
  <2>1. UNCHANGED <<op, alive, ready, exits, file>> BY <1>18 DEF PollReturn, world
  <2>2. CASE UNCHANGED mgr
    BY <2>1, <2>2 DEF OneProcess
  <2>3. CASE mgr' = [mgr EXCEPT !.poll = {}, !.child = None, !.pidFile = None, !.status = "error",
                                !.forgotten = @ \cup ({mgr.child} \cap alive)]
    <3>1. mgr'.status = "error" /\ mgr'.poll = {} /\ mgr'.forgotten = mgr.forgotten \cup ({mgr.child} \cap alive)
      BY <1>0, <2>3, GoneFields
    <3>2. \A p \in alive : p = Existing BY <1>d, <3>1 DEF OneProcess
    <3> QED BY <2>1, <3>1, <3>2 DEF OneProcess
  <2>4. ASSUME NEW status \in {mgr.status, "error"}, status # "running", Shows(status) PROVE OneProcess'
    <3>1. mgr'.status = status /\ mgr'.poll = mgr.poll /\ mgr'.pidFile = mgr.pidFile /\ mgr'.child = mgr.child
      BY <1>0, <2>4, ShowsFields
    <3> QED BY <2>1, <2>4, <3>1 DEF OneProcess
  <2>5. CASE /\ Current /\ Alive(inflight.watch.server) /\ inflight # None
             /\ Shows(IF mgr.status = "error" THEN "running" ELSE mgr.status)
    <3>1. inflight.watch \in mgr.poll /\ inflight.watch.server \in alive
      BY <2>5 DEF PollInv, Current, Alive
    <3>2. inflight.watch.server = mgr.pidFile BY <3>1 DEF OneProcess
    <3>3. \A w \in mgr.poll : w.server = mgr.pidFile BY <3>1, <3>2 DEF PollInv
    <3>4. /\ mgr'.status \in {"running", mgr.status} /\ mgr'.poll = mgr.poll /\ mgr'.pidFile = mgr.pidFile
          /\ mgr'.child = mgr.child
      BY <1>0, <2>5, ShowsFields
    <3> QED BY <2>1, <3>3, <3>4 DEF OneProcess
  <2> QED BY <1>18, <2>2, <2>3, <2>4, <2>5 DEF PollReturn, Shows
<1>19. CASE \E g \in Gens : ExitEvent(g)
  <2>1. PICK g \in Gens : ExitEvent(g) BY <1>19
  <2>2. UNCHANGED <<op, alive, ready, file>> /\ g \in exits /\ exits' \subseteq exits
    BY <2>1 DEF ExitEvent
  <2>3. CASE UNCHANGED mgr
    BY <2>2, <2>3 DEF OneProcess
  <2>4. CASE g = mgr.gen
    <3>1. \A p \in alive : p = Existing
      <4> SUFFICES ASSUME NEW p \in alive, p # Existing PROVE FALSE
        OBVIOUS
      <4>1. p[1] \in Nat /\ p[1] <= mgr.gen BY <1>0, ProcShape DEF WorldInv
      <4>2. p[2] = "child" BY <1>d DEF WorldInv
      <4>3. g < p[1] BY <2>2, <4>2 DEF OneProcess
      <4> QED BY <2>4, <4>1, <4>3
    <3>2. CASE mgr' = [mgr EXCEPT !.child = None]
      <4>1. mgr'.status = mgr.status /\ mgr'.poll = mgr.poll /\ mgr'.pidFile = mgr.pidFile /\ mgr'.cleaningUp = mgr.cleaningUp
        BY <1>0, <3>2 DEF MgrType
      <4> QED BY <2>2, <3>1, <4>1 DEF OneProcess
    <3>3. CASE mgr' = [Forget(mgr) EXCEPT !.status = IF @ = "stopping" THEN "stopped" ELSE "error"]
      <4>1. mgr'.status \in {"stopped", "error"} /\ mgr'.poll = {} BY <1>0, <3>3, ExitedFields
      <4> QED BY <2>2, <3>1, <4>1 DEF OneProcess
    <3> QED BY <2>1, <2>3, <3>2, <3>3 DEF ExitEvent
  <2> QED BY <2>1, <2>3, <2>4 DEF ExitEvent, StaleGeneration
<1>20. CASE \E g \in Gens : ErrorEvent(g)
  <2>1. PICK g \in Gens : ErrorEvent(g) BY <1>20
  <2>2. UNCHANGED <<op, alive, ready, exits, file>> /\ (Shows(mgr.status) \/ Shows("error"))
    BY <2>1 DEF ErrorEvent, world, Shows
  <2>3. /\ mgr'.status \in {mgr.status, "error"} /\ mgr'.poll = mgr.poll /\ mgr'.pidFile = mgr.pidFile
        /\ mgr'.child = mgr.child /\ mgr'.cleaningUp = mgr.cleaningUp
    BY <1>0, <2>2, ShowsFields
  <2> QED BY <2>2, <2>3 DEF OneProcess
<1>21. CASE Cleanup
  <2>1. UNCHANGED <<op, alive, ready, exits, file>> /\ mgr'.status = mgr.status /\ mgr'.poll = {} /\ mgr'.child = mgr.child
    BY <1>0, <1>21 DEF Cleanup, MgrType, world
  <2> QED BY <2>1 DEF OneProcess
<1>22. CASE \E g \in Gens : LauncherStarts(g)
  BY <1>d, <1>22 DEF LauncherStarts
<1>23. CASE \E p \in Procs : WritePidFile(p)
  <2>1. PICK p \in Procs : WritePidFile(p) BY <1>23
  <2>2. UNCHANGED <<mgr, op, alive, exits>> /\ p \in alive /\ file' = p /\ ready' = ready \cup {p}
    BY <2>1 DEF WritePidFile, Alive
  <2>3. \A q \in alive : q = p BY <2>2 DEF OneProcess
  <2>4. alive \subseteq ready' /\ \A q \in ready' : q = file' BY <1>0, <2>2, <2>3
  <2> QED BY <2>2, <2>4 DEF OneProcess
<1>24. CASE \E p \in Procs : Dies(p)
  <2>1. PICK p \in Procs : Dies(p) BY <1>24
  <2>2. UNCHANGED <<mgr, op>> /\ p \in alive /\ alive' = alive \ {p} /\ ready' = ready \ {p}
    BY <2>1 DEF Dies, Alive
  <2>3. alive' = {} /\ ready' = {} BY <1>0, <2>2 DEF OneProcess
  <2> QED BY <2>2, <2>3, NobodyLives DEF OneProcess
<1>25. CASE UNCHANGED <<mgr, op, alive, ready, exits, file>>
  BY <1>25 DEF OneProcess
<1> QED
  BY <1>1, <1>2, <1>3, <1>4, <1>5, <1>6, <1>7, <1>8, <1>9, <1>10, <1>11, <1>12, <1>13, <1>14, <1>15, <1>16,
     <1>17, <1>18, <1>19, <1>20, <1>21, <1>22, <1>23, <1>24, <1>25
  DEF Next, Manager, Environment, PollReplace, PollSend, AppExit, Request, world, bounds

-------------------------------------------------------------------------------
(* The invariant and what follows from it                                  *)

LEMMA GenGrows ==
  ASSUME Types, Next PROVE mgr'.gen = mgr.gen \/ mgr'.gen = mgr.gen + 1
<1>0. MgrType BY DEF Types
<1>1. CASE Check \/ LeaseExisting \/ DetectCheck \/ DetectLease
  BY <1>0, <1>1, GenMade DEF Check, LeaseExisting, DetectCheck, DetectLease
<1>2. CASE Spawn
  BY <1>0, <1>2, SpawnedFields, NotSpawnedFields DEF Spawn
<1>3. CASE Verify \/ Evicted \/ Acquired \/ Own \/ Healthy \/ StartFails \/ StartFailed
           \/ StopOnce \/ StopWait \/ StopForced \/ DetectRead \/ DetectVerify \/ PollReturn
           \/ \E g \in Gens : ExitEvent(g) \/ ErrorEvent(g)
  BY <1>0, <1>3, GenKept
<1>4. CASE Cleanup
  BY <1>0, <1>4 DEF Cleanup, MgrType
<1>5. CASE UNCHANGED mgr
  BY <1>5
<1> QED
  BY <1>1, <1>2, <1>3, <1>4, <1>5
  DEF Next, Manager, Environment, Begin, StartOnce, Probe, BindChild, Killed, WaitPidFile, PollReplace,
      PollSend, AppExit, Request, LauncherStarts, WritePidFile, Dies

LEMMA IInvInit == Init => IInv
<1> SUFFICES ASSUME Init PROVE IInv
  OBVIOUS
<1>1. TypeInv BY TypeInit
<1>2. /\ op.pc = "next" /\ mgr.gen = 0 /\ mgr.poll = {} /\ mgr.status = "idle" /\ mgr.child = None
      /\ mgr.pidFile = None /\ mgr.managed = FALSE /\ mgr.cleaningUp = FALSE
  BY PlaceFacts, FrameFields DEF Init
<1>3. detect.pc = "done" \/ (detect.pc = "read" /\ queue = <<>>)
  BY PlaceFacts, FrameFields DEF Init
<1>4. /\ unborn = {} /\ exits = {} /\ ready = alive /\ inflight = None
      /\ (alive = {} /\ file = None) \/ (alive = {Existing} /\ file = Existing)
  BY DEF Init
<1>5. Existing[1] = 0 /\ Existing[2] = "daemon" BY ProcShape
<1>6. WorldInv BY <1>2, <1>4, <1>5 DEF WorldInv
<1>7. ExistingInv BY <1>2, <1>3, <1>4 DEF ExistingInv, Finding, Spawning, Stopping
<1>8. PollInv BY <1>2, <1>4 DEF PollInv, Spawning, Stopping
<1>9. TidyInv BY <1>2, <1>4, <1>5 DEF TidyInv, OneProcess, Finding, Stopping
<1> QED BY <1>1, <1>6, <1>7, <1>8, <1>9 DEF IInv

LEMMA IInvStep == IInv /\ [Next]_vars => IInv'
<1>1. ASSUME IInv, Next PROVE IInv'
  <2>1. TypeInv /\ Types /\ Budget /\ WorldInv /\ ExistingInv /\ PollInv /\ TidyInv
    BY <1>1 DEF IInv, TypeInv
  <2>2. TypeInv' BY <1>1, <2>1, TypeStep
  <2>3. \/ Check \/ LeaseExisting \/ Spawn \/ DetectCheck \/ DetectLease => mgr.gen <= MaxRequests
    BY <2>1, HasGeneration
  <2>4. mgr.gen \in Nat /\ mgr'.gen \in Nat /\ mgr'.gen >= mgr.gen
    <3>1. mgr.gen \in Nat BY <2>1, BoundsAssumption DEF Types, MgrType
    <3> QED BY <1>1, <2>1, <3>1, GenGrows
  <2>5. WorldInv' BY <1>1, <2>1, <2>3, WorldInvStep
  <2>6. ExistingInv' BY <1>1, <2>1, <2>4, ExistingInvStep
  <2>7. PollInv' BY <1>1, <2>1, <2>4, PollInvStep
  <2>8. TidyInv'
    <3>1. ASSUME Tidy' PROVE OneProcess'
      <4>1. Tidy BY <1>1, <2>1, <3>1, TidyStaysSo
      <4>2. OneProcess BY <2>1, <4>1 DEF TidyInv
      <4> QED BY <1>1, <2>1, <2>4, <3>1, <4>1, <4>2, OneProcessStep
    <3> QED BY <3>1 DEF TidyInv
  <2> QED BY <2>2, <2>5, <2>6, <2>7, <2>8 DEF IInv
<1>2. ASSUME IInv, UNCHANGED vars PROVE IInv'
  <2>1. TypeInv' BY <1>2, TypeStep DEF IInv
  <2>2. UNCHANGED <<mgr, queue, op, inflight, detect, alive, ready, unborn, exits, stuck, file, direct>>
    BY <1>2 DEF vars, world, bounds
  <2>3. WorldInv' /\ ExistingInv' /\ PollInv'
    BY <1>2, <2>2 DEF IInv, WorldInv, ExistingInv, PollInv
  <2>4. TidyInv'
    BY <1>2, <2>2 DEF IInv, TidyInv, Tidy, OneProcess
  <2> QED BY <2>1, <2>3, <2>4 DEF IInv
<1> QED BY <1>1, <1>2

(* start() looks for the server in the PID file before it spawns another:  *)
(* two servers never serve, however often the user asks and polls fail, as *)
(* long as the manager is Tidy: nothing outlived its end or was forgotten. *)
THEOREM OneServerServes == Spec => []OneServer
<1>1. IInv => OneServer
  BY DEF IInv, TidyInv, OneProcess, OneServer
<1> QED BY <1>1, IInvInit, IInvStep, PTL DEF Spec

(* "Stopped" is shown only when nothing the manager spawned still runs:     *)
(* after a confirmed stop and after the exit event of the child alike, as  *)
(* long as the manager is Tidy.                                            *)
THEOREM NothingIsLeft == Spec => []StoppedMeansGone
<1>1. IInv => StoppedMeansGone
  BY ProcShape DEF IInv, TidyInv, OneProcess, StoppedMeansGone
<1> QED BY <1>1, IInvInit, IInvStep, PTL DEF Spec

(* "Running" is shown of a server whose end a health poll will notice; that *)
(* it is the server whose port the app uses holds while the manager is Tidy. *)
THEOREM RunningServerIsPolled == Spec => []RunningIsWatched
<1>1. IInv => RunningIsWatched
  BY DEF IInv, PollInv, TidyInv, OneProcess, RunningIsWatched
<1> QED BY <1>1, IInvInit, IInvStep, PTL DEF Spec

-------------------------------------------------------------------------------
(* Leases: what an action does to them                                     *)

LEMMA AcquireHolds ==
  ASSUME NEW l \in LeaseStates, NEW m \in LeaseIds
  PROVE  LET a == Acquire(l, m)
         IN  /\ a \in LeaseStates /\ a.active = l.active /\ a.pids = l.pids /\ a.identified = l.identified
             /\ a.retained = l.retained /\ m \in a.held
             /\ \A n, keep : Held(l, n, keep) => Held(a, n, keep)
<1>1. Acquire(l, m).held = l.held \cup {m} BY DEF Acquire, LeaseStates
<1>2. /\ Acquire(l, m).active = l.active /\ Acquire(l, m).pids = l.pids
      /\ Acquire(l, m).identified = l.identified /\ Acquire(l, m).retained = l.retained
  BY DEF Acquire, LeaseStates
<1> QED BY <1>1, <1>2, AcquireType DEF Held

LEMMA DroppedHolds ==
  ASSUME NEW l \in LeaseStates, NEW lease
  PROVE  LET d == Dropped(l, lease)
         IN  /\ d.active = (IF l.active = lease THEN None ELSE l.active)
             /\ d.pids = l.pids /\ d.identified = l.identified /\ d.retained = l.retained
             /\ \A n, keep : Held(l, n, keep) /\ n # lease => Held(d, n, keep)
<1>1. Dropped(l, lease).held = l.held \ {lease} BY DEF Dropped, LeaseStates
<1>2. /\ Dropped(l, lease).active = (IF l.active = lease THEN None ELSE l.active)
      /\ Dropped(l, lease).pids = l.pids
      /\ Dropped(l, lease).identified = l.identified /\ Dropped(l, lease).retained = l.retained
  BY DEF Dropped, LeaseStates
<1> QED BY <1>1, <1>2 DEF Held

LEMMA ReplaceHolds ==
  ASSUME NEW l \in LeaseStates, NEW next, NEW pids, NEW identified,
         NEW n, NEW keep \in SUBSET alive, Held(l, n, keep),
         l.active = n => l.pids = {} \/ l.pids \cap keep # {}
  PROVE  Held(Replace(l, next, pids, identified), n, keep)
<1> DEFINE kept == Retain(l, next)
           new == [lease |-> l.active, pids |-> l.pids, identified |-> l.identified]
<1>1. kept \subseteq l.retained \cup {new} BY DEF Retain
<1>2. \A r \in kept : r.lease = n => r.pids = {} \/ ~r.identified \/ r.pids \cap keep # {}
  <2>1. new.lease = l.active /\ new.pids = l.pids OBVIOUS
  <2> HIDE DEF new
  <2> QED BY <1>1, <2>1 DEF Held
<1>3. \A r \in kept : r.lease = n => ~Over(r)
  BY <1>2 DEF Over, Alive
<1>4. /\ Replace(l, next, pids, identified).retained = {r \in kept : ~Over(r)}
      /\ Replace(l, next, pids, identified).held = l.held \ {r.lease : r \in {x \in kept : Over(x)}}
  BY DEF Replace
<1> HIDE DEF kept
<1> QED BY <1>2, <1>3, <1>4 DEF Held

LEMMA ReplaceFields ==
  ASSUME NEW l, NEW next, NEW pids, NEW identified
  PROVE  /\ Replace(l, next, pids, identified).active = next
         /\ Replace(l, next, pids, identified).pids = pids
BY DEF Replace

LEMMA ReleasedFields ==
  ASSUME RunsType, NEW h \in Gens
  PROVE  \A g \in Gens : /\ Released(h)[g].lease = runs[g].lease /\ Released(h)[g].bound = runs[g].bound
                         /\ Released(h)[g].spawned = runs[g].spawned
BY DEF Released, RunsType, Runs

\* Who is spawned, bound, started.
LEMMA SpawnedRun ==
  ASSUME RunsType, mgr.gen + 1 \in Gens,
         NEW run \in Runs, runs' = [runs EXCEPT ![mgr.gen + 1] = run]
  PROVE  runs'[mgr.gen + 1] = run /\ \A g \in Gens \ {mgr.gen + 1} : runs'[g] = runs[g]
BY DEF RunsType

LEMMA DirectKept ==
  ASSUME Next PROVE direct' = direct
BY DEF Next, Manager, Environment, Begin, StartOnce, Probe, Verify, Check, LeaseExisting, Evicted, Acquired,
       Spawn, BindChild, Killed, WaitPidFile, Own, Healthy, StartFails, StartFailed, StopOnce, StopWait,
       StopForced, DetectRead, DetectVerify, DetectCheck, DetectLease, PollReturn, PollReplace, ExitEvent,
       PollSend, Cleanup, AppExit, Request, ErrorEvent, LauncherStarts, WritePidFile, Dies, world, bounds

\* The leases of the generations there have been are fixed when they are spawned.
LEMMA RunsMove ==
  ASSUME Types, Next, ~Spawn
  PROVE  \A g \in Gens : /\ runs'[g].lease = runs[g].lease /\ runs'[g].spawned = runs[g].spawned
                         /\ runs'[g].bound \in {runs[g].bound, Child(g), Server(g)}
<1>0. RunsType BY DEF Types
<1>1. CASE BindChild \/ Own
  <2>1. op.g \in Gens BY <1>1 DEF BindChild, Own, At, Types, OpType, Spawning
  <2>2. BindChild => \E b \in {runs[op.g].bound, Child(op.g)} : runs' = [runs EXCEPT ![op.g].bound = b]
    BY DEF BindChild
  <2>3. Own => runs' = [runs EXCEPT ![op.g].bound = Server(op.g), ![op.g].verified = TRUE] \/ UNCHANGED runs
    BY DEF Own
  <2>4. CASE \E b \in {runs[op.g].bound, Child(op.g)} : runs' = [runs EXCEPT ![op.g].bound = b]
    BY <1>0, <2>1, <2>4 DEF RunsType, Runs
  <2>5. CASE runs' = [runs EXCEPT ![op.g].bound = Server(op.g), ![op.g].verified = TRUE]
    BY <1>0, <2>1, <2>5 DEF RunsType, Runs
  <2> QED BY <1>1, <2>2, <2>3, <2>4, <2>5
<1>2. CASE StartFailed \/ \E g \in Gens : ExitEvent(g)
  <2>1. UNCHANGED runs \/ \E h \in Gens : runs' = Released(h)
    BY <1>2 DEF StartFailed, ExitEvent, At, Types, OpType, Spawning
  <2> QED BY <1>0, <2>1, ReleasedFields
<1>3. CASE UNCHANGED runs
  BY <1>3
<1> QED
  BY <1>1, <1>2, <1>3
  DEF Next, Manager, Environment, Begin, StartOnce, Probe, Verify, Check, LeaseExisting, Evicted,
      Acquired, Killed, WaitPidFile, Healthy, StartFails, StopOnce, StopWait, StopForced,
      DetectRead, DetectVerify, DetectCheck, DetectLease, PollReturn, PollReplace, PollSend, Cleanup,
      AppExit, Request, ErrorEvent, LauncherStarts, WritePidFile, Dies

\* Without launchers, only a start adds a process, and only a death an exit.
LEMMA ProcessesMove ==
  ASSUME Types, WorldInv, direct, Next, ~Spawn
  PROVE  \/ alive' = alive /\ exits' \subseteq exits
         \/ \E p \in alive : /\ alive' = alive \ {p}
                             /\ exits' = (IF p[2] = "child" THEN exits \cup {p[1]} ELSE exits)
<1>1. CASE \E p \in Procs : Dies(p)
  BY <1>1 DEF Dies, Alive
<1>2. CASE \E g \in Gens : ExitEvent(g) \/ LauncherStarts(g)
  BY <1>2 DEF ExitEvent, LauncherStarts, WorldInv
<1>3. CASE \E p \in Procs : WritePidFile(p)
  BY <1>3 DEF WritePidFile
<1>4. CASE UNCHANGED <<alive, exits>>
  BY <1>4
<1> QED
  BY <1>1, <1>2, <1>3, <1>4
  DEF Next, Manager, Environment, Begin, StartOnce, Probe, Verify, Check, LeaseExisting, Evicted, Acquired,
      BindChild, Killed, WaitPidFile, Own, Healthy, StartFails, StartFailed, StopOnce, StopWait,
      StopForced, DetectRead, DetectVerify, DetectCheck, DetectLease, PollReturn, PollReplace,
      PollSend, Cleanup, AppExit, Request, ErrorEvent, world

\* Where the request goes, and what it carries.
LEMMA OpMoves ==
  ASSUME Types, Next, ~Spawn
  PROVE  /\ op'.pc \in Spawning => op.pc \in Spawning /\ op'.g = op.g
         /\ op'.pc = "failed" => \/ op.pc = "failed" /\ op'.child = op.child
                                 \/ StartFails /\ op'.child = mgr.child
         /\ op'.pc \in Stopping => \/ op.pc \in Stopping /\ op'.lease = op.lease /\ op'.child = op.child
                                   \/ StopOnce /\ op'.lease = ls.active /\ op'.child = mgr.child
         /\ op'.pc = "spawn" => \/ op.pc = "spawn" /\ op'.lease = op.lease
                                \/ Acquired
         /\ op'.pc = "evicting" => \/ op.pc = "evicting" /\ op'.lease = op.lease
                                   \/ op'.lease = None
                                   \/ LeaseExisting
<1>0. op \in Frames BY DEF Types, OpType
<1>g. \A place \in Places : Goto(place) =>
          op'.pc = place /\ op'.child = op.child /\ op'.lease = op.lease /\ op'.g = op.g
  BY <1>0, GotoFields
<1>e. (EndRequest => op'.pc = "next") /\ (EndStop => op'.pc \in {"next", "start"}) /\ (GiveUp => op'.pc = "next")
  BY OpFields DEF Types, GiveUp
<1>1. CASE Begin \/ StartOnce \/ Probe \/ Verify
  <2>1. op'.pc \in {"next", "start", "stop", "probe", "acquire", "verify", "check"}
    <3>1. CASE Probe
      <4>1. op' = [op EXCEPT !.pc = "verify", !.target = file] => op'.pc = "verify" BY <1>0 DEF Frames
      <4> QED BY <1>g, <1>e, <3>1, <4>1, PlaceFacts DEF Probe
    <3> QED BY <1>1, <1>g, <1>e, <3>1, PlaceFacts DEF Begin, StartOnce, Verify
  <2> QED BY <2>1 DEF Spawning, Stopping
<1>2. CASE Check
  <2>1. Evict(None) => op'.pc = "evicting" /\ op'.lease = None BY <1>0, EvictFields DEF Leases
  <2>2. op'.pc \in {"next", "lease"} \/ (op'.pc = "evicting" /\ op'.lease = None)
    BY <1>2, <1>g, <1>e, <2>1, PlaceFacts DEF Check
  <2> QED BY <2>2 DEF Spawning, Stopping
<1>3. CASE LeaseExisting
  <2>1. op'.pc \in {"next", "evicting"}
    BY <1>3, <1>e, OpFields DEF LeaseExisting, Types
  <2> QED BY <1>3, <2>1 DEF Spawning, Stopping
<1>4. CASE Evicted
  <2>1. Frame("acquire").pc = "acquire" BY PlaceFacts, FrameFields
  <2>2. op'.pc \in {"next", "acquire"} BY <1>4, <1>e, <2>1 DEF Evicted
  <2> QED BY <2>2 DEF Spawning, Stopping
<1>5. CASE Acquired
  <2>1. \A n : op' = [op EXCEPT !.pc = "spawn", !.lease = n] => op'.pc = "spawn" BY <1>0 DEF Frames
  <2>2. op'.pc \in {"next", "spawn"} BY <1>5, <1>e, <2>1 DEF Acquired
  <2> QED BY <1>5, <2>2 DEF Spawning, Stopping
<1>6. CASE BindChild \/ Killed \/ WaitPidFile \/ Own \/ Healthy
  <2>1. op.pc \in Spawning BY <1>6 DEF BindChild, Killed, WaitPidFile, Own, Healthy, At, Spawning
  <2>2. op'.pc = "next" \/ (op'.pc \in {"waitpid", "killed", "catch", "own", "health"} /\ op'.g = op.g)
    BY <1>6, <1>g, <1>e, PlaceFacts DEF BindChild, Killed, WaitPidFile, Own, Healthy
  <2> QED BY <2>1, <2>2 DEF Spawning, Stopping
<1>7. CASE StartFails
  <2>1. op' = [op EXCEPT !.pc = "failed", !.child = mgr.child] /\ op.pc = "catch"
    BY <1>7 DEF StartFails, At
  <2>2. op'.pc = "failed" /\ op'.child = mgr.child /\ op'.g = op.g BY <1>0, <2>1 DEF Frames
  <2> QED BY <1>7, <2>1, <2>2 DEF Spawning, Stopping
<1>8. CASE StartFailed
  BY <1>8, <1>e DEF StartFailed, Spawning, Stopping
<1>9. CASE StopOnce
  <2>1. CASE op' = [op EXCEPT !.pc = "stopping", !.child = mgr.child, !.target = mgr.pidFile, !.lease = ls.active]
    <3>1. op'.pc = "stopping" /\ op'.child = mgr.child /\ op'.lease = ls.active BY <1>0, <2>1 DEF Frames
    <3> QED BY <1>9, <3>1 DEF Spawning, Stopping
  <2> QED BY <1>9, <1>e, <2>1 DEF StopOnce, Spawning, Stopping
<1>10. CASE StopWait \/ StopForced
  <2>1. op.pc \in Stopping BY <1>10 DEF StopWait, StopForced, At, Stopping
  <2>2. op'.pc \in {"next", "start"} \/ (op'.pc = "forced" /\ op'.child = op.child /\ op'.lease = op.lease)
    BY <1>10, <1>g, <1>e, PlaceFacts DEF StopWait, StopForced
  <2> QED BY <2>1, <2>2 DEF Spawning, Stopping
<1>11. CASE UNCHANGED op
  BY <1>11
<1> QED
  BY <1>1, <1>2, <1>3, <1>4, <1>5, <1>6, <1>7, <1>8, <1>9, <1>10, <1>11
  DEF Next, Manager, Environment, DetectRead, DetectVerify, DetectCheck, DetectLease, PollReturn,
      PollReplace, ExitEvent, PollSend, Cleanup, AppExit, Request, ErrorEvent, LauncherStarts,
      WritePidFile, Dies

\* What happens to the child, and to what is polled.
LEMMA MgrMoves ==
  ASSUME Types, Next, ~Spawn
  PROVE  /\ \/ mgr'.child = mgr.child
            \/ mgr'.child = None /\ (PollReturn \/ StartFailed \/ StopWait \/ StopForced
                                        \/ \E g \in Gens : ExitEvent(g))
         /\ \/ mgr'.poll \subseteq mgr.poll
            \/ Healthy /\ mgr'.poll = {Watch(Server(op.g), mgr.child, ls.active)}
            \/ \E p : (Check \/ DetectCheck) /\ mgr'.poll = {Watch(p, mgr.child, None)}
            \/ \E p : \E n \in Acquirable : (LeaseExisting \/ DetectLease) /\ mgr'.poll = {Watch(p, mgr.child, n)}
<1>0. MgrType BY DEF Types
<1>1. CASE Verify \/ Evicted \/ Acquired \/ StartFails \/ StopOnce \/ Cleanup \/ Own \/ DetectRead \/ DetectVerify
  <2>1. mgr'.child = mgr.child /\ mgr'.poll \in {mgr.poll, {}}
    BY <1>0, <1>1 DEF Verify, Evicted, Acquired, StartFails, StopOnce, Cleanup, Own, DetectRead, DetectVerify,
                      GiveUp, DetectFails, MgrType
  <2> QED BY <2>1
<1>2. CASE Check \/ DetectCheck
  <2>1. \/ UNCHANGED mgr \/ Shows("error") \/ \E p : Adopt(p, None)
    BY <1>2 DEF Check, DetectCheck, DetectFails, Shows
  <2> QED BY <1>0, <1>2, <2>1, ShowsFields, AdoptFields
<1>3. CASE LeaseExisting \/ DetectLease
  <2>1. \/ UNCHANGED mgr \/ Shows("error") \/ \E p : \E n \in Acquirable : Adopt(p, n)
    BY <1>3 DEF LeaseExisting, DetectLease, DetectFails, Shows
  <2>2. ASSUME NEW p, NEW n \in Acquirable, Adopt(p, n)
        PROVE  mgr'.child = mgr.child /\ mgr'.poll = {Watch(p, mgr.child, n)}
    BY <1>0, <2>2, AdoptFields
  <2>3. Shows("error") => mgr'.child = mgr.child /\ mgr'.poll = mgr.poll BY <1>0, ShowsFields
  <2> QED BY <1>3, <2>1, <2>2, <2>3
<1>4. CASE Healthy
  <2>1. CASE UNCHANGED mgr
    BY <2>1
  <2>2. CASE mgr' = [mgr EXCEPT !.status = "running", !.pidFile = Server(op.g),
                                !.poll = {Watch(Server(op.g), mgr.child, ls.active)}]
    <3>1. mgr'.child = mgr.child /\ mgr'.poll = {Watch(Server(op.g), mgr.child, ls.active)}
      BY <1>0, <2>2, HealthyFields
    <3> QED BY <1>4, <3>1
  <2> QED BY <1>4, <2>1, <2>2 DEF Healthy
<1>5. CASE StartFailed
  <2>1. mgr'.poll = mgr.poll /\ mgr'.child \in {mgr.child, None}
    BY <1>0, <1>5 DEF StartFailed, MgrType
  <2> QED BY <1>5, <2>1
<1>6. CASE StopWait \/ StopForced
  <2>1. UNCHANGED mgr \/ Shows("error") \/ mgr' = [mgr EXCEPT !.status = "stopped", !.child = None, !.pidFile = None]
    BY <1>6 DEF StopWait, StopForced, ConfirmStopped, Shows
  <2> QED BY <1>0, <1>6, <2>1, ShowsFields, StoppedFields
<1>7. CASE PollReturn
  <2>1. \/ UNCHANGED mgr \/ \E s : Shows(s)
        \/ mgr' = [mgr EXCEPT !.poll = {}, !.child = None, !.pidFile = None, !.status = "error",
                              !.forgotten = @ \cup ({mgr.child} \cap alive)]
    BY <1>7 DEF PollReturn, Shows
  <2> QED BY <1>0, <1>7, <2>1, ShowsFields, GoneFields
<1>8. CASE \E g \in Gens : ExitEvent(g)
  <2>1. mgr'.child \in {mgr.child, None} /\ mgr'.poll \in {mgr.poll, {}}
    BY <1>0, <1>8 DEF ExitEvent, Forget, MgrType
  <2> QED BY <1>8, <2>1
<1>9. CASE \E g \in Gens : ErrorEvent(g)
  <2>1. Shows(mgr.status) \/ Shows("error") BY <1>9 DEF ErrorEvent, Shows
  <2> QED BY <1>0, <2>1, ShowsFields
<1>10. CASE UNCHANGED mgr
  BY <1>10
<1> QED
  BY <1>1, <1>2, <1>3, <1>4, <1>5, <1>6, <1>7, <1>8, <1>9, <1>10
  DEF Next, Manager, Environment, Begin, StartOnce, Probe, BindChild, Killed, WaitPidFile, PollReplace,
      PollSend, AppExit, Request, LauncherStarts, WritePidFile, Dies

-------------------------------------------------------------------------------
(* Leases: runs and the child                                              *)

LEMMA ChildIsItsOwn ==
  \A g, h : Child(g) = Child(h) => g = h
<1>1. \A g : Child(g)[1] = g BY DEF Child
<1> QED BY <1>1

LEMMA Spawned ==
  ASSUME Types, Spawn, mgr.gen <= MaxRequests
  PROVE  LET n == mgr.gen + 1
         IN  /\ n \in Gens /\ op.pc = "spawn" /\ UNCHANGED <<exits, file>>
             /\ \/ /\ UNCHANGED <<mgr, runs, alive>> /\ op'.pc = "next"
                   /\ ls' = IF op.lease = None THEN ls ELSE Dropped(ls, op.lease)
                \/ /\ mgr'.child = Child(n) /\ mgr'.poll = mgr.poll /\ mgr'.gen = n
                   /\ ls' = [ls EXCEPT !.pids = {Child(n)}, !.identified = direct]
                   /\ runs'[n].lease = op.lease /\ runs'[n].bound = None /\ runs'[n].spawned
                   /\ \A g \in Gens \ {n} : runs'[g] = runs[g]
                   /\ alive' = alive \cup {Child(n)}
                   /\ op'.pc \in {"waitpid", "bind"} /\ op'.g = n
                \/ /\ mgr'.child = None /\ mgr'.poll = {} /\ mgr'.gen = n
                   /\ runs'[n].lease = op.lease /\ runs'[n].bound = None
                   /\ \A g \in Gens \ {n} : runs'[g] = runs[g]
                   /\ ls' = IF op.lease = None THEN [ls EXCEPT !.pids = {}, !.identified = FALSE]
                            ELSE [Dropped(ls, op.lease) EXCEPT !.pids = {}, !.identified = FALSE]
                   /\ UNCHANGED alive
                   /\ op'.pc \in {"waitpid", "bind"} /\ op'.g = n
<1>0. MgrType /\ RunsType /\ op \in Frames /\ op.lease \in Leases BY DEF Types, OpType, Frames
<1>1. mgr.gen + 1 \in Gens /\ op.pc = "spawn" /\ UNCHANGED <<exits, file>>
  BY <1>0, NextGen DEF Spawn, At
<1>2. CASE /\ EndRequest /\ ls' = (IF op.lease = None THEN ls ELSE Dropped(ls, op.lease))
           /\ UNCHANGED <<mgr, runs, alive>>
  <2>1. op'.pc = "next" BY <1>2, OpFields DEF Types
  <2> QED BY <1>1, <1>2, <2>1
<1>3. ASSUME NEW place \in {"waitpid", "bind"}, op' = [op EXCEPT !.g = mgr.gen + 1, !.pc = place]
      PROVE  op'.pc \in {"waitpid", "bind"} /\ op'.g = mgr.gen + 1
  BY <1>0, <1>3 DEF Frames
<1> DEFINE run == [spawned |-> TRUE, lease |-> op.lease, bound |-> None, verified |-> FALSE, released |-> FALSE]
           failed == [run EXCEPT !.spawned = FALSE, !.released = TRUE]
<1>4. run \in Runs /\ failed \in Runs /\ run.lease = op.lease /\ run.bound = None /\ run.spawned
      /\ failed.lease = op.lease /\ failed.bound = None
  BY <1>0 DEF Runs, MaybeProc
<1> HIDE DEF run, failed
<1>5. CASE /\ mgr' = [mgr EXCEPT !.gen = mgr.gen + 1, !.child = Child(mgr.gen + 1)]
           /\ ls' = [ls EXCEPT !.pids = {Child(mgr.gen + 1)}, !.identified = direct]
           /\ runs' = [runs EXCEPT ![mgr.gen + 1] = run]
           /\ alive' = alive \cup {Child(mgr.gen + 1)}
           /\ op' = [op EXCEPT !.g = mgr.gen + 1, !.pc = IF op.lease = None THEN "waitpid" ELSE "bind"]
  <2>1. mgr'.child = Child(mgr.gen + 1) /\ mgr'.poll = mgr.poll /\ mgr'.gen = mgr.gen + 1
    BY <1>0, <1>5, SpawnedFields
  <2>2. runs'[mgr.gen + 1] = run /\ \A g \in Gens \ {mgr.gen + 1} : runs'[g] = runs[g]
    BY <1>0, <1>1, <1>4, <1>5, SpawnedRun
  <2>3. op'.pc \in {"waitpid", "bind"} /\ op'.g = mgr.gen + 1 BY <1>3, <1>5
  <2> QED BY <1>1, <1>4, <1>5, <2>1, <2>2, <2>3
<1>6. CASE /\ mgr' = [mgr EXCEPT !.gen = mgr.gen + 1, !.child = None, !.pidFile = None, !.poll = {},
                                 !.status = "error"]
           /\ runs' = [runs EXCEPT ![mgr.gen + 1] = failed]
           /\ ls' = IF op.lease = None THEN [ls EXCEPT !.pids = {}, !.identified = FALSE]
                    ELSE [Dropped(ls, op.lease) EXCEPT !.pids = {}, !.identified = FALSE]
           /\ UNCHANGED alive
           /\ op' = [op EXCEPT !.g = mgr.gen + 1, !.pc = "waitpid"]
  <2>1. mgr'.child = None /\ mgr'.poll = {} /\ mgr'.gen = mgr.gen + 1
    BY <1>0, <1>6, NotSpawnedFields
  <2>2. runs'[mgr.gen + 1] = failed /\ \A g \in Gens \ {mgr.gen + 1} : runs'[g] = runs[g]
    BY <1>0, <1>1, <1>4, <1>6, SpawnedRun
  <2>3. op'.pc \in {"waitpid", "bind"} /\ op'.g = mgr.gen + 1 BY <1>3, <1>6
  <2> QED BY <1>1, <1>4, <1>6, <2>1, <2>2, <2>3
<1> QED BY <1>2, <1>5, <1>6 DEF Spawn, run, failed

LEMMA RunInvStep ==
  ASSUME Types, WorldInv, RunInv, FreshInv, direct, Next, mgr.gen \in Nat, Spawn => mgr.gen <= MaxRequests
  PROVE  RunInv'
<1>0. \A g \in Gens : Server(g) = Child(g) /\ Child(g) # None /\ Child(g)[1] = g /\ Child(g)[2] = "child"
  BY ProcShape
<1>1. CASE ~Spawn
  <2>1. \A g \in Gens : /\ runs'[g].lease = runs[g].lease /\ runs'[g].spawned = runs[g].spawned
                        /\ runs'[g].bound \in {runs[g].bound, Child(g)}
    BY <1>0, <1>1, RunsMove
  <2>2. \A g \in Gens : Child(g) \in alive' => Child(g) \in alive /\ (g \in exits' => g \in exits)
    <3>1. CASE alive' = alive /\ exits' \subseteq exits
      BY <3>1
    <3>2. ASSUME NEW p \in alive, alive' = alive \ {p}, exits' = (IF p[2] = "child" THEN exits \cup {p[1]} ELSE exits)
          PROVE  \A g \in Gens : Child(g) \in alive' => Child(g) \in alive /\ (g \in exits' => g \in exits)
      <4>1. \A g \in Gens : p[2] = "child" /\ p[1] = g => p = Child(g)
        BY ProcShape DEF Types, WorldType, Child
      <4> QED BY <3>2, <4>1
    <3> QED BY <1>1, <3>1, <3>2, ProcessesMove
  <2>3. \A g \in Gens : runs'[g].bound \in {None, Child(g)} BY <2>1 DEF RunInv
  <2>4. \A g \in Gens : Child(g) \in alive' => runs'[g].spawned /\ g \notin exits' BY <2>1, <2>2 DEF RunInv
  <2>5. \A g, h \in Gens : runs'[g].lease = runs'[h].lease => g = h \/ runs'[g].lease = None BY <2>1 DEF RunInv
  <2> QED BY <2>3, <2>4, <2>5 DEF RunInv
<1>2. CASE Spawn
  <2> DEFINE n == mgr.gen + 1
  <2>1. CASE UNCHANGED <<runs, alive, exits>>
    BY <2>1 DEF RunInv
  <2>2. CASE /\ n \in Gens /\ UNCHANGED exits /\ op.pc = "spawn"
             /\ runs'[n].lease = op.lease /\ runs'[n].bound = None
             /\ \A g \in Gens \ {n} : runs'[g] = runs[g]
             /\ \/ alive' = alive
                \/ alive' = alive \cup {Child(n)} /\ runs'[n].spawned
    <3>1. Child(n) \notin alive /\ n \notin exits
      <4>1. Child(n)[1] = n BY DEF Child
      <4>2. \A p \in alive : p[1] <= mgr.gen BY DEF WorldInv
      <4>3. \A g \in exits : g <= mgr.gen BY DEF WorldInv
      <4>4. ~(n <= mgr.gen) OBVIOUS
      <4> QED BY <4>1, <4>2, <4>3, <4>4
    <3>2. \A g \in Gens : op.lease # None => runs[g].lease # op.lease BY <2>2 DEF FreshInv
    <3>3. \A g \in Gens \ {n} : Child(g) \in alive' => Child(g) \in alive
      BY <2>2, ChildIsItsOwn
    <3> HIDE DEF n
    <3>4. \A g \in Gens : runs'[g].bound \in {None, Child(g)} BY <2>2 DEF RunInv
    <3>5. \A g \in Gens : Child(g) \in alive' => runs'[g].spawned /\ g \notin exits'
      BY <2>2, <3>1, <3>3 DEF RunInv
    <3>6. \A g, h \in Gens : runs'[g].lease = runs'[h].lease => g = h \/ runs'[g].lease = None
      BY <2>2, <3>2 DEF RunInv
    <3> QED BY <3>4, <3>5, <3>6 DEF RunInv
  <2> QED BY <1>2, <2>1, <2>2, Spawned
<1> QED BY <1>1, <1>2

LEMMA ChildInvStep ==
  ASSUME Types, WorldInv, ChildInv, direct, Next, mgr.gen \in Nat, mgr'.gen \in Nat, mgr'.gen >= mgr.gen,
         Spawn => mgr.gen <= MaxRequests
  PROVE  ChildInv'
<1>0. alive \subseteq Procs /\ exits \subseteq Gens /\ \A g \in Gens : g \in Nat
  BY ProcShape DEF Types, WorldType
<1>1. CASE ~Spawn
  <2>1. mgr'.child \in {mgr.child, None} BY <1>1, MgrMoves
  <2>2. mgr'.child # None =>
          \E h \in Gens : /\ mgr'.child = Child(h) /\ h <= mgr'.gen
                          /\ \A g \in exits' : g <= h
                          /\ \A p \in alive' : p[1] <= h
    <3> SUFFICES ASSUME mgr'.child # None
                 PROVE  \E h \in Gens : /\ mgr'.child = Child(h) /\ h <= mgr'.gen
                                        /\ \A g \in exits' : g <= h
                                        /\ \A p \in alive' : p[1] <= h
      OBVIOUS
    <3>1. PICK h \in Gens : /\ mgr.child = Child(h) /\ h <= mgr.gen
                            /\ \A g \in exits : g <= h
                            /\ \A p \in alive : p[1] <= h
      BY <2>1 DEF ChildInv
    <3>2. h <= mgr'.gen BY <1>0, <3>1
    <3>3. alive' \subseteq alive /\ \A g \in exits' : g \in exits \/ \E p \in alive : g = p[1]
      BY <1>1, ProcessesMove
    <3>4. \A g \in exits' : g <= h BY <3>1, <3>3
    <3> QED BY <2>1, <3>1, <3>2, <3>3, <3>4
  <2>3. op'.pc \in Spawning => mgr'.child \in {None, Child(op'.g)}
    BY <1>1, <2>1, OpMoves DEF ChildInv
  <2>4. op'.pc = "failed" => mgr'.child \in {None, op'.child}
    BY <1>1, <2>1, OpMoves DEF ChildInv
  <2> QED BY <2>2, <2>3, <2>4 DEF ChildInv
<1>2. CASE Spawn
  <2> DEFINE n == mgr.gen + 1
  <2>1. CASE UNCHANGED <<mgr, alive, exits>> /\ op'.pc = "next"
    BY <2>1 DEF ChildInv, Spawning
  <2>2. CASE mgr'.child = None
    BY <2>2 DEF ChildInv
  <2>3. CASE /\ mgr'.child = Child(n) /\ mgr'.gen = n /\ alive' = alive \cup {Child(n)} /\ UNCHANGED exits
             /\ op'.pc \in {"waitpid", "bind"} /\ op'.g = n /\ n \in Gens
    <3>1. \A g \in exits' : g <= n
      <4> SUFFICES ASSUME NEW g \in exits PROVE g <= n
        BY <2>3
      <4>1. g \in Nat /\ g <= mgr.gen BY <1>0 DEF WorldInv
      <4> QED BY <4>1
    <3>2. \A p \in alive' : p[1] <= n
      <4>1. Child(n)[1] = n /\ n <= n BY <1>0 DEF Child
      <4>2. ASSUME NEW p \in alive PROVE p[1] <= n
        <5>1. p[1] \in Nat /\ p[1] <= mgr.gen BY <1>0, ProcShape DEF WorldInv
        <5> QED BY <5>1
      <4> QED BY <2>3, <4>1, <4>2
    <3>3. n <= mgr'.gen BY <2>3
    <3> HIDE DEF n
    <3> QED BY <2>3, <3>1, <3>2, <3>3 DEF ChildInv
  <2> QED BY <1>2, <2>1, <2>2, <2>3, Spawned
<1> QED BY <1>1, <1>2

-------------------------------------------------------------------------------
(* Leases: consumers are covered                                           *)

\* A lease that is acquired is new to everybody.
LEMMA FreshLease ==
  ASSUME NEW n \in Acquirable
  PROVE  /\ n \in LeaseIds /\ n # ls.active /\ n # op.lease
         /\ \A r \in ls.retained : r.lease # n
         /\ \A g \in Gens : runs[g].lease # n
         /\ \A w \in mgr.poll : w.lease # n
BY DEF Acquirable, Referred, Watched

LEMMA ReplacedLeases ==
  ASSUME Types, NEW n \in {None} \cup Acquirable, NEW pids, NEW identified,
         NEW l, l = ls \/ (n \in Acquirable /\ l = Acquire(ls, n)),
         ls' = Replace(l, n, pids, identified)
  PROVE  /\ ls'.active = n /\ ls'.pids = pids
         /\ \A m : \A keep \in SUBSET alive :
               Held(ls, m, keep) /\ (ls.active = m => ls.pids = {} \/ ls.pids \cap keep # {}) => Held(ls', m, keep)
<1>1. l \in LeaseStates /\ l.active = ls.active /\ l.pids = ls.pids
      /\ \A m, keep : Held(ls, m, keep) => Held(l, m, keep)
  BY AcquireHolds, FreshLease DEF Types, LeaseType
<1>2. ls'.active = n /\ ls'.pids = pids BY ReplaceFields
<1>3. ASSUME NEW m, NEW keep \in SUBSET alive, Held(ls, m, keep), ls.active = m => ls.pids = {} \/ ls.pids \cap keep # {}
      PROVE  Held(ls', m, keep)
  <2>1. Held(l, m, keep) BY <1>1, <1>3
  <2>2. l.active = m => l.pids = {} \/ l.pids \cap keep # {} BY <1>1, <1>3
  <2> QED BY <1>1, <2>1, <2>2, ReplaceHolds
<1> QED BY <1>2, <1>3

\* A process that is released lives no more.
LEMMA ReleasedRun ==
  ASSUME Types, RunInv, direct, NEW h \in Gens
  PROVE  \/ ReleaseRun(ls, h) = ls
         \/ Child(h) \notin alive /\ ReleaseRun(ls, h) = Dropped(ls, runs[h].lease)
BY DEF ReleaseRun, MayRelease, RunInv, Alive

\* Neither processes nor their leases are new, leases stay held and what is
\* released with the child was not its own.
LEMMA CoverKept ==
  ASSUME CoverInv, alive' \subseteq alive, \A g \in Gens : runs'[g].lease = runs[g].lease,
         \A g \in Gens : Consumer(g) => Held(ls', runs[g].lease, {Child(g)}),
         \A g \in Gens : Consumer(g) /\ ls'.active = runs[g].lease =>
             ls.active = runs[g].lease /\ mgr'.child = mgr.child /\ Child(g) \in ls'.pids,
         \A w \in mgr'.poll : \/ w \in mgr.poll
                              \/ w.lease = ls.active /\ w.child = mgr.child
                              \/ \A g \in Gens : runs[g].lease # None => w.lease # runs[g].lease,
         op'.pc \in Stopping => \/ op.pc \in Stopping /\ op'.lease = op.lease /\ op'.child = op.child
                                \/ op'.lease = ls.active /\ op'.child = mgr.child
  PROVE  CoverInv'
<1> SUFFICES ASSUME NEW g \in Gens, Consumer(g)'
             PROVE  /\ Held(ls', runs'[g].lease, {Child(g)})
                    /\ ls'.active = runs'[g].lease => mgr'.child = Child(g) /\ Child(g) \in ls'.pids
                    /\ \A w \in mgr'.poll : w.lease = runs'[g].lease => Child(g) \in {w.server, w.child}
                    /\ op'.pc \in Stopping /\ op'.lease = runs'[g].lease => op'.child = Child(g)
  BY DEF CoverInv, Held
<1>1. Consumer(g) /\ runs'[g].lease = runs[g].lease /\ runs[g].lease # None BY DEF Consumer
<1>2. /\ ls.active = runs[g].lease => mgr.child = Child(g) /\ Child(g) \in ls.pids
      /\ \A w \in mgr.poll : w.lease = runs[g].lease => Child(g) \in {w.server, w.child}
      /\ op.pc \in Stopping /\ op.lease = runs[g].lease => op.child = Child(g)
  BY <1>1 DEF CoverInv
<1>3. Held(ls', runs'[g].lease, {Child(g)}) BY <1>1
<1>4. ls'.active = runs'[g].lease => mgr'.child = Child(g) /\ Child(g) \in ls'.pids BY <1>1, <1>2
<1>5. \A w \in mgr'.poll : w.lease = runs'[g].lease => Child(g) \in {w.server, w.child}
  BY <1>1, <1>2
<1>6. op'.pc \in Stopping /\ op'.lease = runs'[g].lease => op'.child = Child(g)
  BY <1>1, <1>2
<1> QED BY <1>3, <1>4, <1>5, <1>6

LEMMA CoverInvStep ==
  ASSUME Types, WorldInv, PollInv, RunInv, ChildInv, CoverInv, FreshInv, direct, Next, mgr.gen \in Nat,
         Spawn => mgr.gen <= MaxRequests
  PROVE  CoverInv'
<1>0. /\ MgrType /\ ls \in LeaseStates /\ None \notin alive /\ \A g \in Gens : {Child(g)} # {} /\ Child(g) # None
      /\ \A g \in Gens : Consumer(g) => {Child(g)} \in SUBSET alive
  BY ProcShape DEF Types, LeaseType, WorldType, Consumer
<1>c. \A g \in Gens : Consumer(g) =>
        /\ runs[g].lease # None /\ Child(g) \in alive
        /\ Held(ls, runs[g].lease, {Child(g)})
        /\ ls.active = runs[g].lease => mgr.child = Child(g) /\ Child(g) \in ls.pids
  BY DEF CoverInv, Consumer
<1>1. CASE Spawn
  <2> DEFINE n == mgr.gen + 1
  <2>s. op.pc = "spawn" /\ n \in Gens BY <1>1, Spawned
  <2>f. /\ op.lease # None => \A g \in Gens : runs[g].lease # op.lease
        /\ ls.active # None => \A g \in Gens : runs[g].lease # ls.active
        /\ op.lease # None => /\ Held(ls, op.lease, {}) /\ \A w \in mgr.poll : w.lease # op.lease
    BY <2>s DEF FreshInv
  <2>d. op.lease # None => \A m, keep : Held(ls, m, keep) /\ m # op.lease => Held(Dropped(ls, op.lease), m, keep)
    BY <1>0, DroppedHolds
  <2>a. Dropped(ls, op.lease).active \in {ls.active, None} BY <1>0, DroppedHolds
  <2>1. CASE /\ UNCHANGED <<mgr, runs, alive>> /\ op'.pc = "next"
             /\ ls' = IF op.lease = None THEN ls ELSE Dropped(ls, op.lease)
    <3>1. \A g \in Gens : Consumer(g) => Held(ls', runs[g].lease, {Child(g)})
      BY <1>c, <2>1, <2>d, <2>f
    <3>2. \A g \in Gens : Consumer(g) => ls'.active # runs[g].lease
      BY <1>c, <2>1, <2>a, <2>f
    <3>3. op'.pc \notin Stopping BY <2>1 DEF Stopping
    <3> QED BY <2>1, <3>1, <3>2, <3>3, CoverKept
  <2>2. CASE /\ mgr'.child = Child(n) /\ mgr'.poll = mgr.poll
             /\ ls' = [ls EXCEPT !.pids = {Child(n)}, !.identified = direct]
             /\ runs'[n].lease = op.lease
             /\ \A g \in Gens \ {n} : runs'[g] = runs[g]
             /\ alive' = alive \cup {Child(n)}
             /\ op'.pc \in {"waitpid", "bind"}
    <3>1. ls'.held = ls.held /\ ls'.retained = ls.retained /\ ls'.active = ls.active /\ ls'.pids = {Child(n)}
      BY <1>0, <2>2 DEF LeaseStates
    <3>2. \A m, keep : Held(ls, m, keep) => Held(ls', m, keep) BY <3>1 DEF Held
    <3>3. op'.pc \notin Stopping BY <2>2 DEF Stopping
    <3>4. ASSUME NEW g \in Gens, g # n, Consumer(g)'
          PROVE  /\ Held(ls', runs'[g].lease, {Child(g)})
                 /\ ls'.active # runs'[g].lease
                 /\ \A w \in mgr'.poll : w.lease = runs'[g].lease => Child(g) \in {w.server, w.child}
      <4>1. runs'[g] = runs[g] BY <2>2, <3>4
      <4>2. Child(g) # Child(n) BY <3>4, ChildIsItsOwn
      <4>3. Consumer(g) BY <2>2, <3>4, <4>1, <4>2 DEF Consumer
      <4>4. ls'.active # runs'[g].lease BY <1>c, <2>f, <3>1, <4>1, <4>3
      <4> QED BY <1>c, <2>2, <3>2, <4>1, <4>3, <4>4 DEF CoverInv
    <3>5. ASSUME runs'[n].lease # None
          PROVE  /\ Held(ls', runs'[n].lease, {Child(n)})
                 /\ mgr'.child = Child(n) /\ Child(n) \in ls'.pids
                 /\ \A w \in mgr'.poll : w.lease # runs'[n].lease
      <4>1. Held(ls', op.lease, {}) /\ \A w \in mgr.poll : w.lease # op.lease BY <2>2, <2>f, <3>2, <3>5
      <4>2. Held(ls', op.lease, {Child(n)}) BY <4>1 DEF Held
      <4> QED BY <2>2, <3>1, <4>1, <4>2
    <3> HIDE DEF n
    <3>6. ASSUME NEW g \in Gens, Consumer(g)'
          PROVE  /\ Held(ls', runs'[g].lease, {Child(g)})
                 /\ ls'.active = runs'[g].lease => mgr'.child = Child(g) /\ Child(g) \in ls'.pids
                 /\ \A w \in mgr'.poll : w.lease = runs'[g].lease => Child(g) \in {w.server, w.child}
                 /\ op'.pc \in Stopping /\ op'.lease = runs'[g].lease => op'.child = Child(g)
      <4>1. CASE g # n
        BY <3>3, <3>4, <3>6, <4>1
      <4>2. CASE g = n
        <5>1. runs'[n].lease # None BY <3>6, <4>2 DEF Consumer
        <5> QED BY <3>3, <3>5, <4>2, <5>1
      <4> QED BY <4>1, <4>2
    <3> QED BY <3>6 DEF CoverInv, Held
  <2>3. CASE /\ mgr'.poll = {} /\ UNCHANGED alive
             /\ runs'[n].lease = op.lease
             /\ \A g \in Gens \ {n} : runs'[g] = runs[g]
             /\ ls' = IF op.lease = None THEN [ls EXCEPT !.pids = {}, !.identified = FALSE]
                      ELSE [Dropped(ls, op.lease) EXCEPT !.pids = {}, !.identified = FALSE]
             /\ op'.pc \in {"waitpid", "bind"}
    <3>1. \A m, keep : Held(ls, m, keep) /\ m # op.lease => Held(ls', m, keep)
      <4>1. CASE op.lease = None
        <5>1. ls'.held = ls.held /\ ls'.retained = ls.retained BY <1>0, <2>3, <4>1 DEF LeaseStates
        <5> QED BY <5>1 DEF Held
      <4>2. CASE op.lease # None
        <5>1. Dropped(ls, op.lease) \in LeaseStates BY <1>0, DroppedType
        <5>2. ls'.held = Dropped(ls, op.lease).held /\ ls'.retained = Dropped(ls, op.lease).retained
          BY <2>3, <4>2, <5>1 DEF LeaseStates
        <5> QED BY <2>d, <4>2, <5>2 DEF Held
      <4> QED BY <4>1, <4>2
    <3>2. ls'.active \in {ls.active, None}
      <4>1. Dropped(ls, op.lease) \in LeaseStates BY <1>0, DroppedType
      <4> QED BY <1>0, <2>3, <2>a, <4>1 DEF LeaseStates
    <3>3. op'.pc \notin Stopping BY <2>3 DEF Stopping
    <3>n. Child(n) \notin alive
      <4>1. Child(n)[1] = n BY DEF Child
      <4>2. \A p \in alive : p[1] <= mgr.gen BY DEF WorldInv
      <4> QED BY <4>1, <4>2
    <3>4. ASSUME NEW g \in Gens, Consumer(g)'
          PROVE  Held(ls', runs'[g].lease, {Child(g)}) /\ ls'.active # runs'[g].lease
      <4>1. g # n BY <2>3, <3>4, <3>n DEF Consumer
      <4>2. runs'[g] = runs[g] BY <2>3, <4>1
      <4>3. Consumer(g) BY <2>3, <3>4, <4>2 DEF Consumer
      <4>4. ls'.active # runs'[g].lease BY <1>c, <2>f, <3>2, <4>2, <4>3
      <4>5. op.lease # runs[g].lease BY <1>c, <2>f, <4>3
      <4> QED BY <1>c, <3>1, <4>2, <4>3, <4>4, <4>5
    <3> QED BY <2>3, <3>3, <3>4 DEF CoverInv, Held
  <2> QED BY <1>1, <2>1, <2>2, <2>3, Spawned
<1>2. CASE ~Spawn
  <2>r. alive' \subseteq alive /\ \A g \in Gens : runs'[g].lease = runs[g].lease
    BY <1>2, RunsMove, ProcessesMove
  <2>p. \A w \in mgr'.poll : \/ w \in mgr.poll
                             \/ w.lease = ls.active /\ w.child = mgr.child
                             \/ \A g \in Gens : runs[g].lease # None => w.lease # runs[g].lease
    <3>1. \A p, c, lease : Watch(p, c, lease).lease = lease /\ Watch(p, c, lease).child = c BY DEF Watch
    <3>2. \A n \in Acquirable : \A g \in Gens : runs[g].lease # n BY FreshLease
    <3>3. CASE mgr'.poll \subseteq mgr.poll
      BY <3>3
    <3>4. CASE mgr'.poll = {Watch(Server(op.g), mgr.child, ls.active)}
      BY <3>1, <3>4
    <3>5. ASSUME NEW p, mgr'.poll = {Watch(p, mgr.child, None)}
          PROVE  \A w \in mgr'.poll : \A g \in Gens : runs[g].lease # None => w.lease # runs[g].lease
      BY <3>1, <3>5
    <3>6. ASSUME NEW p, NEW n \in Acquirable, mgr'.poll = {Watch(p, mgr.child, n)}
          PROVE  \A w \in mgr'.poll : \A g \in Gens : runs[g].lease # None => w.lease # runs[g].lease
      BY <3>1, <3>2, <3>6
    <3> QED BY <1>2, <3>3, <3>4, <3>5, <3>6, MgrMoves
  <2>o. op'.pc \in Stopping => \/ op.pc \in Stopping /\ op'.lease = op.lease /\ op'.child = op.child
                               \/ op'.lease = ls.active /\ op'.child = mgr.child
    BY <1>2, OpMoves
  <2>k. ASSUME \A g \in Gens : Consumer(g) => Held(ls', runs[g].lease, {Child(g)}),
               \A g \in Gens : Consumer(g) /\ ls'.active = runs[g].lease =>
                   ls.active = runs[g].lease /\ mgr'.child = mgr.child /\ Child(g) \in ls'.pids
        PROVE  CoverInv'
    BY <2>r, <2>p, <2>o, <2>k, CoverKept
  <2>u. ASSUME ls' = ls, mgr'.child = mgr.child PROVE CoverInv'
    BY <1>c, <2>k, <2>u
  <2>l. ASSUME NEW n \in {None} \cup Acquirable, NEW pids, NEW identified,
               NEW l, l = ls \/ (n \in Acquirable /\ l = Acquire(ls, n)),
               ls' = Replace(l, n, pids, identified)
        PROVE  CoverInv'
    <3>1. /\ ls'.active = n
          /\ \A m : \A keep \in SUBSET alive :
               Held(ls, m, keep) /\ (ls.active = m => ls.pids = {} \/ ls.pids \cap keep # {}) => Held(ls', m, keep)
      BY <2>l, ReplacedLeases
    <3>2. \A g \in Gens : Consumer(g) => n # runs[g].lease BY <1>c, FreshLease
    <3>3. \A g \in Gens : Consumer(g) => Held(ls', runs[g].lease, {Child(g)})
      BY <1>0, <1>c, <3>1
    <3> QED BY <2>k, <3>1, <3>2, <3>3
  <2>1. CASE Verify \/ StartFails \/ StopOnce \/ DetectRead \/ DetectVerify \/ Cleanup \/ Healthy
    <3>1. mgr'.child = mgr.child
      BY <1>0, <2>1 DEF Verify, StartFails, StopOnce, DetectRead, DetectVerify, Cleanup, Healthy, GiveUp, DetectFails, MgrType
    <3>2. ls' = ls BY <2>1 DEF Verify, StartFails, StopOnce, DetectRead, DetectVerify, Cleanup, Healthy
    <3> QED BY <2>u, <3>1, <3>2
  <2>2. CASE Check \/ DetectCheck
    <3>1. \/ ls' = ls /\ (UNCHANGED mgr \/ Shows("error"))
          \/ \E pids : ls' = Replace(ls, None, pids, TRUE)
      BY <2>2 DEF Check, DetectCheck, DetectFails, Shows
    <3> QED BY <1>0, <2>u, <2>l, <3>1, ShowsFields
  <2>3. CASE LeaseExisting \/ DetectLease
    <3>1. \/ ls' = ls /\ (UNCHANGED mgr \/ Shows("error"))
          \/ \E pids : \E n \in Acquirable : ls' = Replace(Acquire(ls, n), n, pids, TRUE)
      BY <2>3 DEF LeaseExisting, DetectLease, DetectFails, Shows
    <3> QED BY <1>0, <2>u, <2>l, <3>1, ShowsFields
  <2>4. CASE Acquired
    <3>1. \/ ls' = ls /\ (UNCHANGED mgr \/ Shows("error"))
          \/ \E n \in {None} \cup Acquirable :
                /\ ls' = Replace(IF n = None THEN ls ELSE Acquire(ls, n), n, {}, FALSE)
      BY <2>4 DEF Acquired, GiveUp, Shows
    <3> QED BY <1>0, <2>u, <2>l, <3>1, ShowsFields
  <2>5. CASE Evicted
    <3>1. op.pc = "evicting" BY <2>5 DEF Evicted, At
    <3>2. op.lease # None => \A g \in Gens : runs[g].lease # op.lease BY <3>1 DEF FreshInv
    <3>3. mgr'.child = mgr.child BY <1>0, <2>5 DEF Evicted, GiveUp, MgrType
    <3>4. CASE ls' = ls
      BY <2>u, <3>3, <3>4
    <3>5. CASE op.lease # None /\ ls' = Dropped(ls, op.lease)
      <4>1. /\ ls'.active = (IF ls.active = op.lease THEN None ELSE ls.active) /\ ls'.pids = ls.pids
            /\ \A n, keep : Held(ls, n, keep) /\ n # op.lease => Held(ls', n, keep)
        BY <1>0, <3>5, DroppedHolds
      <4> QED BY <1>c, <2>k, <3>2, <3>3, <3>5, <4>1
    <3> QED BY <2>5, <3>4, <3>5 DEF Evicted
  <2>6. CASE Own
    <3>1. op.pc = "own" /\ op.g \in Gens BY <2>6 DEF Own, At, Types, OpType, Spawning
    <3>2. mgr'.child = mgr.child BY <1>0, <2>6 DEF Own, MgrType
    <3>3. CASE ls' = ls
      BY <2>u, <3>2, <3>3
    <3>4. CASE ls' = [ls EXCEPT !.pids = {Child(op.g), Server(op.g)}, !.identified = TRUE]
      <4>1. ls'.held = ls.held /\ ls'.retained = ls.retained /\ ls'.active = ls.active
            /\ ls'.pids = {Child(op.g), Server(op.g)}
        BY <1>0, <3>4 DEF LeaseStates
      <4>2. mgr.child \in {None, Child(op.g)} BY <3>1 DEF ChildInv, Spawning
      <4>3. \A m, keep : Held(ls, m, keep) => Held(ls', m, keep) BY <4>1 DEF Held
      <4> QED BY <1>0, <1>c, <2>k, <3>2, <4>1, <4>2, <4>3
    <3> QED BY <2>6, <3>3, <3>4 DEF Own
  <2>7. CASE StartFailed
    <3>1. op.pc = "failed" /\ op.g \in Gens BY <2>7 DEF StartFailed, At, Types, OpType, Spawning
    <3>2. mgr'.child = mgr.child \/ op.child \notin alive
      BY <1>0, <2>7 DEF StartFailed, MgrType
    <3>3. mgr.child \in {None, op.child} BY <3>1 DEF ChildInv
    <3>4. \A g \in Gens : Consumer(g) /\ ls.active = runs[g].lease => mgr'.child = mgr.child
      BY <1>0, <1>c, <3>2, <3>3
    <3>5. CASE ls' = ls
      BY <1>c, <2>k, <3>4, <3>5
    <3>6. CASE Child(op.g) \notin alive /\ ls' = Dropped(ls, runs[op.g].lease)
      <4>1. /\ ls'.active = (IF ls.active = runs[op.g].lease THEN None ELSE ls.active) /\ ls'.pids = ls.pids
            /\ \A n, keep : Held(ls, n, keep) /\ n # runs[op.g].lease => Held(ls', n, keep)
        BY <1>0, <3>6, DroppedHolds
      <4>2. \A g \in Gens : Consumer(g) => runs[g].lease # runs[op.g].lease
        BY <1>c, <3>1, <3>6 DEF RunInv
      <4> QED BY <1>c, <2>k, <3>4, <4>1, <4>2
    <3>7. ls' \in {ls, ReleaseRun(ls, op.g)} BY <2>7 DEF StartFailed
    <3> QED BY <3>1, <3>5, <3>6, <3>7, ReleasedRun
  <2>8. CASE StopWait \/ StopForced
    <3>1. op.pc \in Stopping BY <2>8 DEF StopWait, StopForced, At, Stopping
    <3>2. CASE ls' = ls /\ (UNCHANGED mgr \/ Shows("error"))
      BY <1>0, <2>u, <3>2, ShowsFields
    <3>3. CASE Ours \cap alive = {} /\ ls' = Replace([Dropped(ls, op.lease) EXCEPT !.active = None], None, {}, FALSE)
      <4> DEFINE d == Dropped(ls, op.lease)
                 l == [d EXCEPT !.active = None]
      <4>1. d \in LeaseStates /\ \A n, keep : Held(ls, n, keep) /\ n # op.lease => Held(d, n, keep)
        BY <1>0, DroppedType, DroppedHolds
      <4>2. l \in LeaseStates /\ l.active = None /\ l.held = d.held /\ l.retained = d.retained
        BY <4>1 DEF LeaseStates, Leases
      <4>3. \A g \in Gens : Consumer(g) => op.lease # runs[g].lease
        <5>1. \A g \in Gens : Consumer(g) /\ op.lease = runs[g].lease => op.child = Child(g)
          BY <3>1 DEF CoverInv
        <5> QED BY <1>0, <1>c, <3>3, <5>1 DEF Ours
      <4> HIDE DEF d, l
      <4>4. \A n, keep : Held(d, n, keep) => Held(l, n, keep) BY <4>2 DEF Held
      <4>5. ls' = Replace(l, None, {}, FALSE) BY <3>3 DEF d, l
      <4>6. ls'.active = None BY <4>5 DEF Replace
      <4>7. ASSUME NEW g \in Gens, Consumer(g) PROVE Held(ls', runs[g].lease, {Child(g)})
        <5>1. Held(l, runs[g].lease, {Child(g)}) BY <1>c, <4>1, <4>3, <4>4, <4>7
        <5>2. l.active # runs[g].lease BY <1>c, <4>2, <4>7
        <5>3. {Child(g)} \in SUBSET alive BY <1>0, <4>7
        <5> QED BY <4>2, <4>5, <5>1, <5>2, <5>3, ReplaceHolds
      <4> QED BY <1>c, <2>k, <4>6, <4>7
    <3> QED BY <2>8, <3>2, <3>3 DEF StopWait, StopForced, ConfirmStopped, Shows
  <2>9. CASE PollReturn
    <3>1. CASE ls' = ls /\ (UNCHANGED mgr \/ \E s : Shows(s))
      BY <1>0, <2>u, <3>1, ShowsFields
    <3>2. CASE \E pids : ls' = Replace(ls, None, pids, FALSE)
      BY <2>l, <3>2
    <3>3. CASE /\ inflight # None /\ Current /\ Gone(inflight.watch)
               /\ inflight.watch.lease # None /\ ls.active = inflight.watch.lease
               /\ ls' = Dropped(ls, inflight.watch.lease)
      <4>1. inflight.watch \in mgr.poll BY <3>3 DEF PollInv, Current
      <4>2. \A g \in Gens : Consumer(g) => inflight.watch.lease # runs[g].lease
        <5>1. \A g \in Gens : Consumer(g) /\ inflight.watch.lease = runs[g].lease =>
                 Child(g) \in {inflight.watch.server, inflight.watch.child}
          BY <4>1 DEF CoverInv
        <5> QED BY <1>0, <1>c, <3>3, <5>1 DEF Gone, Alive
      <4>3. /\ ls'.active = None
            /\ \A n, keep : Held(ls, n, keep) /\ n # inflight.watch.lease => Held(ls', n, keep)
        BY <1>0, <3>3, DroppedHolds
      <4> QED BY <1>c, <2>k, <4>2, <4>3
    <3> QED BY <2>9, <3>1, <3>2, <3>3 DEF PollReturn, Shows
  <2>10. CASE PollReplace
    BY <2>10, <2>l DEF PollReplace
  <2>11. CASE \E g \in Gens : ExitEvent(g)
    <3>1. PICK h \in Gens : ExitEvent(h) BY <2>11
    <3>2. ~LauncherOnly(h) /\ h \in exits BY <3>1 DEF LauncherOnly, RunInv, ExitEvent
    <3>3. ls' = ReleaseRun(ls, h) /\ (UNCHANGED mgr \/ h = mgr.gen)
      BY <3>1, <3>2 DEF ExitEvent, StaleGeneration
    <3>4. \A g \in Gens : Consumer(g) /\ ls.active = runs[g].lease => UNCHANGED mgr
      <4> SUFFICES ASSUME NEW g \in Gens, Consumer(g), ls.active = runs[g].lease, h = mgr.gen PROVE FALSE
        BY <3>3
      <4>1. mgr.child = Child(g) /\ Child(g) # None /\ Child(g) \in alive BY <1>0, <1>c
      <4>2. PICK c \in Gens : mgr.child = Child(c) /\ c <= mgr.gen /\ \A e \in exits : e <= c
        BY <4>1 DEF ChildInv
      <4>3. c = g BY <4>1, <4>2, ChildIsItsOwn
      <4>4. g <= h /\ h <= g BY <3>2, <4>2, <4>3
      <4>5. g = h BY <4>4, ProcShape
      <4> QED BY <3>2, <4>1, <4>5 DEF RunInv
    <3>5. CASE ls' = ls
      BY <1>c, <2>k, <3>4, <3>5
    <3>6. CASE Child(h) \notin alive /\ ls' = Dropped(ls, runs[h].lease)
      <4>1. /\ ls'.active = (IF ls.active = runs[h].lease THEN None ELSE ls.active) /\ ls'.pids = ls.pids
            /\ \A n, keep : Held(ls, n, keep) /\ n # runs[h].lease => Held(ls', n, keep)
        BY <1>0, <3>6, DroppedHolds
      <4>2. \A g \in Gens : Consumer(g) => runs[g].lease # runs[h].lease
        BY <1>c, <3>6 DEF RunInv
      <4> QED BY <1>c, <2>k, <3>4, <4>1, <4>2
    <3> QED BY <3>3, <3>5, <3>6, ReleasedRun
  <2>12. CASE \E g \in Gens : ErrorEvent(g)
    <3>1. ls' = ls /\ (Shows(mgr.status) \/ Shows("error")) BY <2>12 DEF ErrorEvent, Shows
    <3> QED BY <1>0, <2>u, <3>1, ShowsFields
  <2>13. CASE UNCHANGED <<mgr, ls>>
    BY <2>u, <2>13
  <2> QED
    BY <1>2, <2>1, <2>2, <2>3, <2>4, <2>5, <2>6, <2>7, <2>8, <2>9, <2>10, <2>11, <2>12, <2>13
    DEF Next, Manager, Environment, Begin, StartOnce, Probe, BindChild, Killed, WaitPidFile,
        PollSend, AppExit, Request, LauncherStarts, WritePidFile, Dies
<1> QED BY <1>1, <1>2

-------------------------------------------------------------------------------
(* Leases: acquired ones are nobody else's                                 *)

LEMMA FreshInvStep ==
  ASSUME Types, WorldInv, PollInv, RunInv, FreshInv, direct, Next, Spawn => mgr.gen <= MaxRequests
  PROVE  FreshInv'
<1>1. CASE Spawn
  <2>1. op'.pc \in {"waitpid", "bind", "next"} BY <1>1, Spawned
  <2> QED BY <2>1 DEF FreshInv
<1>2. CASE ~Spawn
  <2>r. \A g \in Gens : runs'[g].lease = runs[g].lease BY <1>2, RunsMove
  <2>t. MgrType /\ ls \in LeaseStates /\ op \in Frames
    BY DEF Types, LeaseType, OpType
  <2>1. CASE op'.pc = "evicting"
    <3>1. op'.lease # None => \A g \in Gens : runs[g].lease # op'.lease
      <4>1. CASE op.pc = "evicting" /\ op'.lease = op.lease
        BY <4>1 DEF FreshInv
      <4>2. CASE LeaseExisting
        <5>1. \/ op'.pc = "next" \/ Evict(None) \/ \E n \in Acquirable : Evict(n)
          BY <4>2, OpFields DEF LeaseExisting, Types
        <5>2. Evict(None) => op'.lease = None BY <2>t, EvictFields DEF Leases
        <5>3. ASSUME NEW n \in Acquirable, Evict(n) PROVE \A g \in Gens : runs[g].lease # op'.lease
          <6>1. n \in LeaseIds /\ \A g \in Gens : runs[g].lease # n BY FreshLease
          <6>2. op'.lease = n BY <2>t, <5>3, <6>1, EvictFields DEF Leases
          <6> QED BY <6>1, <6>2
        <5> QED BY <2>1, <5>1, <5>2, <5>3
      <4> QED BY <1>2, <2>1, <4>1, <4>2, OpMoves
    <3> QED BY <2>1, <2>r, <3>1 DEF FreshInv
  <2>2. CASE op'.pc = "spawn" /\ Acquired
    <3>1. PICK n \in {None} \cup Acquirable :
              /\ ls' = Replace(IF n = None THEN ls ELSE Acquire(ls, n), n, {}, FALSE)
              /\ op' = [op EXCEPT !.pc = "spawn", !.lease = n]
              /\ mgr' = [mgr EXCEPT !.status = "starting", !.managed = TRUE]
      <4>1. (EndRequest => op'.pc = "next") /\ (GiveUp => op'.pc = "next")
        BY OpFields DEF Types, GiveUp
      <4> QED BY <2>2, <4>1 DEF Acquired
    <3>2. op'.lease = n BY <2>t, <3>1 DEF Frames
    <3>3. mgr'.poll = mgr.poll BY <2>t, <3>1, AcquiredFields
    <3>4. ls'.active = n /\ ls'.pids = {} BY <3>1 DEF Replace
    <3>5. n # None => /\ \A g \in Gens : runs[g].lease # n
                      /\ \A w \in mgr.poll : w.lease # n
      BY FreshLease
    <3>6. ASSUME n # None PROVE Held(ls', n, {})
      <4> DEFINE l == Acquire(ls, n)
      <4>1. n \in LeaseIds /\ n # ls.active /\ \A r \in ls.retained : r.lease # n BY <3>6, FreshLease
      <4>2. l \in LeaseStates /\ l.active = ls.active /\ l.retained = ls.retained /\ n \in l.held
        BY <2>t, <4>1, AcquireHolds
      <4>3. ls' = Replace(l, n, {}, FALSE) BY <3>1, <3>6
      <4> HIDE DEF l
      <4>4. Held(l, n, {}) /\ l.active # n BY <4>1, <4>2 DEF Held
      <4>5. Held(Replace(l, n, {}, FALSE), n, {}) BY <4>2, <4>4, ReplaceHolds
      <4> QED BY <4>3, <4>5
    <3> QED BY <2>r, <2>2, <3>2, <3>3, <3>4, <3>5, <3>6 DEF FreshInv, Held
  <2>3. CASE op'.pc = "spawn" /\ op.pc = "spawn" /\ op'.lease = op.lease
    <3>f. /\ op.lease # None => \A g \in Gens : runs[g].lease # op.lease
          /\ ls.active # None => \A g \in Gens : runs[g].lease # ls.active
          /\ op.lease # None => /\ Held(ls, op.lease, {})
                                /\ ls.active = op.lease => ls.pids = {}
                                /\ \A w \in mgr.poll : w.lease # op.lease
      BY <2>3 DEF FreshInv
    <3>1. op.lease # None => \A w \in mgr'.poll : w.lease # op.lease
      <4> SUFFICES ASSUME op.lease # None, NEW w \in mgr'.poll PROVE w.lease # op.lease
        OBVIOUS
      <4>1. \A p, c, lease : Watch(p, c, lease).lease = lease BY DEF Watch
      <4>2. CASE mgr'.poll \subseteq mgr.poll
        BY <3>f, <4>2
      <4>3. ASSUME NEW p, mgr'.poll = {Watch(p, mgr.child, None)} PROVE w.lease # op.lease
        BY <4>1, <4>3
      <4>4. ASSUME NEW p, NEW n \in Acquirable, mgr'.poll = {Watch(p, mgr.child, n)} PROVE w.lease # op.lease
        BY <4>1, <4>4, FreshLease
      <4>5. ~Healthy BY <2>3 DEF Healthy, At
      <4> QED BY <1>2, <4>2, <4>3, <4>4, <4>5, MgrMoves
    <3>k. ASSUME ls'.active # None => \A g \in Gens : runs[g].lease # ls'.active,
                 op.lease # None => Held(ls', op.lease, {}) /\ (ls'.active = op.lease => ls'.pids = {})
          PROVE  FreshInv'
      BY <2>3, <2>r, <3>f, <3>1, <3>k DEF FreshInv, Held
    <3>2. CASE ls' = ls
      BY <3>2, <3>f, <3>k
    <3>3. ASSUME NEW n \in {None} \cup Acquirable, NEW pids, NEW identified,
                 NEW l, l = ls \/ (n \in Acquirable /\ l = Acquire(ls, n)),
                 ls' = Replace(l, n, pids, identified)
          PROVE  FreshInv'
      <4>1. /\ ls'.active = n
            /\ \A m : \A keep \in SUBSET alive :
                 Held(ls, m, keep) /\ (ls.active = m => ls.pids = {} \/ ls.pids \cap keep # {}) => Held(ls', m, keep)
        BY <3>3, ReplacedLeases
      <4>2. n # None => n # op.lease /\ \A g \in Gens : runs[g].lease # n BY FreshLease
      <4>3. op.lease # None => Held(ls', op.lease, {}) BY <3>f, <4>1
      <4> QED BY <3>k, <4>1, <4>2, <4>3
    <3>4. ASSUME NEW lease, lease # op.lease, ls' = Dropped(ls, lease) PROVE FreshInv'
      <4>1. /\ ls'.active = (IF ls.active = lease THEN None ELSE ls.active) /\ ls'.pids = ls.pids
            /\ \A m, keep : Held(ls, m, keep) /\ m # lease => Held(ls', m, keep)
        BY <2>t, <3>4, DroppedHolds
      <4> QED BY <3>f, <3>k, <3>4, <4>1
    <3>5. CASE DetectCheck
      <4>1. ls' = ls \/ \E pids : ls' = Replace(ls, None, pids, TRUE) BY <3>5 DEF DetectCheck
      <4> QED BY <3>2, <3>3, <4>1
    <3>6. CASE DetectLease
      <4>1. ls' = ls \/ \E pids : \E n \in Acquirable : ls' = Replace(Acquire(ls, n), n, pids, TRUE)
        BY <3>6 DEF DetectLease
      <4> QED BY <3>2, <3>3, <4>1
    <3>7. CASE PollReturn
      <4>1. \/ ls' = ls \/ \E pids : ls' = Replace(ls, None, pids, FALSE)
            \/ inflight # None /\ Current /\ inflight.watch.lease # None /\ ls' = Dropped(ls, inflight.watch.lease)
        BY <3>7 DEF PollReturn
      <4>2. inflight # None /\ Current /\ inflight.watch.lease # None => inflight.watch.lease # op.lease
        BY <3>f DEF PollInv, Current
      <4> QED BY <3>2, <3>3, <3>4, <4>1, <4>2
    <3>8. CASE PollReplace
      BY <3>8, <3>3 DEF PollReplace
    <3>9. CASE \E g \in Gens : ExitEvent(g)
      <4>1. ls' = ls \/ \E h \in Gens : ls' = ReleaseRun(ls, h) BY <3>9 DEF ExitEvent
      <4>2. ASSUME NEW h \in Gens, ls' = ReleaseRun(ls, h) PROVE FreshInv'
        <5>1. ls' = ls \/ (runs[h].lease # None /\ ls' = Dropped(ls, runs[h].lease))
          BY <4>2 DEF ReleaseRun, MayRelease
        <5>2. runs[h].lease # None => runs[h].lease # op.lease BY <3>f
        <5> QED BY <3>2, <3>4, <5>1, <5>2
      <4> QED BY <3>2, <4>1, <4>2
    <3> QED
      BY <1>2, <2>3, <3>2, <3>5, <3>6, <3>7, <3>8, <3>9
      DEF Next, Manager, Environment, Begin, StartOnce, Probe, Verify, Check, LeaseExisting, Evicted, Acquired,
          BindChild, Killed, WaitPidFile, Own, Healthy, StartFails, StartFailed, StopOnce, StopWait,
          StopForced, DetectRead, DetectVerify, PollSend, Cleanup, AppExit, Request, ErrorEvent,
          LauncherStarts, WritePidFile, Dies, At
  <2>4. CASE op'.pc \notin {"spawn", "evicting"}
    BY <2>4 DEF FreshInv
  <2> QED BY <1>2, <2>1, <2>2, <2>3, <2>4, OpMoves
<1> QED BY <1>1, <1>2

LEMMA LeaseInvInit == Init => LeaseInv
<1> SUFFICES ASSUME Init PROVE LeaseInv
  OBVIOUS
<1>1. op.pc = "next" /\ mgr.child = None BY PlaceFacts, FrameFields DEF Init
<1>2. alive \subseteq {Existing} BY DEF Init
<1>3. \A g \in Gens : runs[g].lease = None /\ runs[g].bound = None BY DEF Init, NoRun
<1>4. \A g \in Gens : Child(g) \notin alive BY <1>2, ProcShape
<1>5. RunInv BY <1>3, <1>4 DEF RunInv
<1>6. ChildInv BY <1>1 DEF ChildInv, Spawning
<1>7. CoverInv BY <1>4 DEF CoverInv, Consumer
<1>8. FreshInv BY <1>1 DEF FreshInv
<1> QED BY <1>5, <1>6, <1>7, <1>8 DEF LeaseInv

LEMMA LeaseInvStep == IInv /\ LeaseInv /\ [Next]_vars => LeaseInv'
<1> SUFFICES ASSUME IInv, LeaseInv, [Next]_vars, direct' PROVE (RunInv /\ ChildInv /\ CoverInv /\ FreshInv)'
  BY DEF LeaseInv
<1>1. CASE Next
  <2>1. TypeInv /\ Types /\ Budget /\ WorldInv /\ PollInv
    BY DEF IInv, TypeInv
  <2>2. direct BY <1>1, DirectKept
  <2>3. RunInv /\ ChildInv /\ CoverInv /\ FreshInv BY <2>2 DEF LeaseInv
  <2>4. Spawn => mgr.gen <= MaxRequests
    BY <2>1, HasGeneration
  <2>5. mgr.gen \in Nat /\ mgr'.gen \in Nat /\ mgr'.gen >= mgr.gen
    <3>1. mgr.gen \in Nat BY <2>1, BoundsAssumption DEF Types, MgrType
    <3> QED BY <1>1, <2>1, <3>1, GenGrows
  <2>6. RunInv' BY <1>1, <2>1, <2>2, <2>3, <2>4, <2>5, RunInvStep
  <2>7. ChildInv' BY <1>1, <2>1, <2>2, <2>3, <2>4, <2>5, ChildInvStep
  <2>8. CoverInv' BY <1>1, <2>1, <2>2, <2>3, <2>4, <2>5, CoverInvStep
  <2>9. FreshInv' BY <1>1, <2>1, <2>2, <2>3, <2>4, FreshInvStep
  <2> QED BY <2>6, <2>7, <2>8, <2>9
<1>2. CASE UNCHANGED vars
  <2>1. UNCHANGED <<mgr, ls, op, runs, alive, exits, direct>>
    BY <1>2 DEF vars, world, bounds
  <2>2. RunInv /\ ChildInv /\ CoverInv /\ FreshInv BY <2>1 DEF LeaseInv
  <2>3. RunInv' /\ ChildInv' BY <2>1, <2>2 DEF RunInv, ChildInv
  <2>4. CoverInv' BY <2>1, <2>2 DEF CoverInv, Consumer, Held
  <2>5. FreshInv' BY <2>1, <2>2 DEF FreshInv, Held
  <2> QED BY <2>3, <2>4, <2>5
<1> QED BY <1>1, <1>2

(* Where the interpreter runs directly, the GPU pack of a living server is *)
(* never released: not by its own exit event, a poll that finds an earlier *)
(* server gone, an eviction, a stop, nor by the next lease that is taken.  *)
THEOREM DirectServersKeepTheirLease == Spec => [](direct => LeaseCoversConsumers)
<1>1. IInv /\ LeaseInv => (direct => LeaseCoversConsumers)
  <2> SUFFICES ASSUME IInv, LeaseInv, direct, NEW p \in alive, p[1] > 0, runs[p[1]].lease # None
               PROVE  runs[p[1]].lease \in ls.held
    BY DEF LeaseCoversConsumers
  <2>1. WorldInv /\ CoverInv /\ p \in Procs
    BY DEF IInv, TypeInv, Types, WorldType, LeaseInv
  <2>2. p = Existing \/ p[2] = "child" BY <2>1 DEF WorldInv
  <2>3. p[1] \in Gens /\ p = Child(p[1]) BY <2>1, <2>2, ProcShape DEF Child
  <2> QED BY <2>1, <2>3 DEF CoverInv, Consumer, Held
<1> QED BY <1>1, IInvInit, IInvStep, LeaseInvInit, LeaseInvStep, PTL DEF Spec
===============================================================================
