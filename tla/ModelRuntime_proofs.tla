-------------------------- MODULE ModelRuntime_proofs --------------------------
(* Theorems about ModelRuntime, for every set of tasks, sessions and        *)
(* configurations and every bound; and about the settings page, from which  *)
(* the user has it prepare another model.                                   *)
EXTENDS ModelRuntime, Sequences, FiniteSetTheorems, TLAPS

(* The program counters of a task inside `async with self._prepare_lock`,   *)
(* and of a task that owns a candidate that is not activated.               *)
Candidate == {"prepare", "joinNative", "persist", "activate", "discard"}
Activated == {"retire", "unloadOld", "waitOld"}
Locked == Candidate \cup Activated \cup {"samePersist", "samePublish"}

\* _prepare_lock is exactly the set of awaits between its acquisition and release.
LockInv == \A t \in Tasks : pc[t] \in Locked <=> prepareLock = t

\* A generation that was published: active now, or retired since.
Published(g) == g = active \/ retired[g]

\* No trace of a generation before its number is taken.
FreshInv == \A g \in Gens : g > nextGen => native[g] = "none" /\ ~Published(g) /\ calls[g] = 0

\* The candidate under preparation is the newest generation, unpublished, and
\* loaded whenever it may be published; a task past activation remembers the
\* generation it retired.
TaskInv ==
    \A t \in Tasks :
        /\ pc[t] \in Candidate => /\ job[t].gen \in Gens /\ job[t].gen = nextGen
                                  /\ ~Published(job[t].gen)
        /\ pc[t] \in {"prepare", "joinNative", "persist", "activate"} => calls[job[t].gen] = 0
        /\ pc[t] \in {"persist", "activate"} => native[job[t].gen] = "loaded"
        /\ pc[t] \in Activated /\ job[t].old # NoGen => retired[job[t].old]
        /\ pc[t] \in {"unloadOld", "waitOld"} => job[t].old # NoGen /\ started[job[t].old]

\* The active generation is loaded, in use, and nobody's to unload.
ActiveInv ==
    active # NoGen => /\ ~retired[active] /\ native[active] = "loaded"
                      /\ calls[active] = 0

\* The life of a published generation: exactly the claimed ones are unloaded.
RetiredInv ==
    \A g \in Gens :
        /\ retired[g] /\ ~started[g] => native[g] = "loaded" /\ calls[g] = 0
        /\ started[g] => retired[g] /\ calls[g] = 1
        /\ forced[g] => started[g]

\* A lease counts against a published generation, and the counter is exact.
LeaseInv ==
    /\ \A s \in Sessions : leaseState[s] \in {"open", "closing", "unloading"} =>
                               lease[s] \in Gens /\ Published(lease[s])
    /\ \A g \in Gens : leases[g] = Cardinality(Holders(g))

\* A claimed generation has no lease left, unless the drain timed out.
ClaimInv == \A g \in Gens : started[g] => Holders(g) = {} \/ forced[g]

\* Generations that wait to be drained are retired.
DrainInv ==
    /\ \A g \in draining \cup sdQueue : retired[g]
    /\ shuttingDown => active = NoGen

IInv == TypeOK /\ LockInv /\ FreshInv /\ TaskInv /\ ActiveInv /\ RetiredInv
            /\ LeaseInv /\ ClaimInv /\ DrainInv
-----------------------------------------------------------------------------
(* Lemmas on the updates the actions are built from.                        *)

LEMMA JobUpdate ==
    ASSUME job \in [Tasks -> Jobs], NEW t \in Tasks
    PROVE  /\ \A g \in Gens \cup {NoGen} : /\ [job EXCEPT ![t].gen = g] \in [Tasks -> Jobs]
                                           /\ [job EXCEPT ![t].old = g] \in [Tasks -> Jobs]
           /\ \A o \in {"return", "error", "cancel"} :
                  [job EXCEPT ![t].outcome = o] \in [Tasks -> Jobs]
           /\ job[t].want \in Configs
           /\ job[t].gen \in Gens \cup {NoGen}
           /\ job[t].old \in Gens \cup {NoGen}
           /\ job[t].outcome \in {"return", "error", "cancel"}
BY DEF Jobs

LEMMA StatusType ==
    ASSUME NEW k \in {"starting", "preparing", "ready", "failed", "stopping"},
           NEW g \in Gens \cup {NoGen}
    PROVE  StatusOf(k, g) \in Statuses
BY DEF StatusOf, Statuses

LEMMA OutcomeType ==
    ASSUME status \in Statuses, active \in Gens \cup {NoGen}, NEW o
    PROVE  OutcomeStatus(o) \in Statuses
BY StatusType DEF OutcomeStatus

LEMMA CallShutdownType ==
    ASSUME native \in [Gens -> NativeStates], calls \in [Gens -> Nat],
           NEW g, CallShutdown(g)
    PROVE  native' \in [Gens -> NativeStates] /\ calls' \in [Gens -> Nat]
<1>1. native' \in [Gens -> NativeStates]
  BY DEF CallShutdown, NativeStates
<1>2. calls' = [h \in Gens |-> IF h = g THEN calls[h] + 1 ELSE calls[h]]
  BY DEF CallShutdown
<1> QED BY <1>1, <1>2

LEMMA ClaimType ==
    ASSUME native \in [Gens -> NativeStates], calls \in [Gens -> Nat],
           started \in [Gens -> BOOLEAN], NEW g, Claim(g)
    PROVE  /\ native' \in [Gens -> NativeStates] /\ calls' \in [Gens -> Nat]
           /\ started' \in [Gens -> BOOLEAN]
BY CallShutdownType DEF Claim

\* What the end of a call does to the task and to the preparation fields.
LEMMA FinishType ==
    ASSUME TypeOK, NEW t \in Tasks, Finish(t)
    PROVE  /\ preparationTask' \in Tasks \cup {None}
           /\ preparingGen' \in Gens \cup {NoGen}
           /\ prepareLock' \in Tasks \cup {None}
           /\ reserved' \in BOOLEAN
           /\ pc' \in [Tasks -> Awaits]
           /\ job' \in [Tasks -> Jobs]
<1>1. NoJob \in Jobs
  BY ConstantsAssumption DEF NoJob, Jobs, NoGen
<1> QED BY <1>1 DEF TypeOK, Finish, Awaits

LEMMA GoDiscardType ==
    ASSUME TypeOK, NEW t \in Tasks, NEW o \in {"return", "error", "cancel"}, GoDiscard(t, o)
    PROVE  /\ native' \in [Gens -> NativeStates] /\ calls' \in [Gens -> Nat]
           /\ pc' \in [Tasks -> Awaits]
           /\ job' \in [Tasks -> Jobs]
<1>1. pc' \in [Tasks -> Awaits]
  BY DEF GoDiscard, TypeOK, Awaits
<1> QED BY <1>1, CallShutdownType, JobUpdate DEF GoDiscard, TypeOK

-----------------------------------------------------------------------------
(* Every step preserves type correctness.                                   *)
LEMMA TypeStep == TypeOK /\ [Next]_vars => TypeOK'
<1> SUFFICES ASSUME TypeOK, [Next]_vars PROVE TypeOK'
  OBVIOUS
<1> USE ConstantsAssumption
<1> USE DEF Writes, MarkComplete, Idle, LastRelease, SameConfig, coreVars, prepVars, runtimeVars, genVars, nativeVars, modelVars,
    taskVars, leaseVars, sdVars, hookVars, outerVars
<1>w. \A t \in Tasks : job[t].want \in Configs
  BY JobUpdate DEF TypeOK
<1>a1. ASSUME NEW g \in Gens, NativeLoad(g) PROVE TypeOK'
  BY <1>a1 DEF TypeOK, NativeLoad, NativeStates
<1>a2. ASSUME NEW g \in Gens, NativeUnload(g) PROVE TypeOK'
  BY <1>a2 DEF TypeOK, NativeUnload, NativeStates
<1>a3. ASSUME NEW g \in Gens, Progress(g) PROVE TypeOK'
  BY <1>a3 DEF TypeOK, Progress, Statuses
<1>b1. ASSUME NEW t \in Tasks, Start(t) PROVE TypeOK'
  <2>1. job' \in [Tasks -> Jobs]
    BY <1>b1 DEF TypeOK, Start, Call, Jobs, NoJob, NoGen
  <2> QED
    BY <1>b1, <2>1 DEF TypeOK, Awaits, Start, Call
<1>b2. ASSUME NEW t \in Tasks, NEW c \in Configs, PrepareAndActivate(t, c) PROVE TypeOK'
  <2>1. job' \in [Tasks -> Jobs]
    BY <1>b2 DEF TypeOK, PrepareAndActivate, Call, Jobs, NoJob, NoGen
  <2> QED
    BY <1>b2, <2>1 DEF TypeOK, Awaits, PrepareAndActivate, Call
<1>b3. ASSUME NEW t \in Tasks, NEW c \in Configs, Schedule(t, c) PROVE TypeOK'
  <2>1. job' \in [Tasks -> Jobs]
    BY <1>b3 DEF TypeOK, Schedule, Call, Jobs, NoJob, NoGen
  <2> QED
    BY <1>b3, <2>1 DEF TypeOK, Awaits, Schedule, Call
<1>c1. ASSUME NEW t \in Tasks, AdmitNothing(t) PROVE TypeOK'
  BY <1>c1, FinishType DEF TypeOK, AdmitNothing
<1>c2. ASSUME NEW t \in Tasks, AdmitSame(t) PROVE TypeOK'
  BY <1>c2 DEF TypeOK, AdmitSame, Awaits
<1>c3. ASSUME NEW t \in Tasks, AdmitNew(t) PROVE TypeOK'
  <2>1. nextGen' \in Gens /\ nextGen' \in 0..MaxGen
    BY <1>c3 DEF TypeOK, AdmitNew, Gens
  <2>2. job' \in [Tasks -> Jobs] /\ job[t].want \in Configs
    BY <1>c3, <2>1, JobUpdate DEF TypeOK, AdmitNew
  <2>3. status' \in Statuses
    BY <1>c3, StatusType DEF TypeOK, AdmitNew
  <2>4. config' \in [Gens -> Configs] /\ native' \in [Gens -> NativeStates]
    BY <1>c3, <2>2 DEF TypeOK, AdmitNew, NativeStates
  <2>5. pc' \in [Tasks -> Awaits]
    BY <1>c3 DEF TypeOK, AdmitNew, Awaits
  <2> QED
    BY <1>c3, <2>1, <2>2, <2>3, <2>4, <2>5 DEF TypeOK, AdmitNew
<1>c4. ASSUME NEW t \in Tasks, SamePersist(t) PROVE TypeOK'
  BY <1>c4, FinishType, <1>w DEF TypeOK, SamePersist, Awaits
<1>c5. ASSUME NEW t \in Tasks, SamePublish(t) PROVE TypeOK'
  BY <1>c5, FinishType, <1>w, StatusType DEF TypeOK, SamePublish
<1>c6. ASSUME NEW t \in Tasks, PrepareReturns(t) PROVE TypeOK'
  BY <1>c6, FinishType, GoDiscardType, OutcomeType DEF TypeOK, PrepareReturns, Awaits
<1>c7. ASSUME NEW t \in Tasks, Persist(t) PROVE TypeOK'
  BY <1>c7, GoDiscardType, <1>w DEF TypeOK, Persist, Awaits
<1>c8. ASSUME NEW t \in Tasks, Activate(t) PROVE TypeOK'
  <2>1. CASE shuttingDown
    BY <1>c8, <2>1, GoDiscardType DEF TypeOK, Activate
  <2>2. CASE ~shuttingDown
    <3>1. job' \in [Tasks -> Jobs] /\ job[t].want \in Configs /\ job[t].gen \in Gens \cup {NoGen}
      <4>1. job' = [job EXCEPT ![t].old = active] /\ active \in Gens \cup {NoGen}
        BY <1>c8, <2>2 DEF Activate, TypeOK
      <4> QED BY <4>1, JobUpdate DEF TypeOK
    <3>2. status' \in Statuses
      BY <1>c8, <2>2, <3>1, StatusType DEF Activate
    <3>3. pc' \in [Tasks -> Awaits] /\ retired' \in [Gens -> BOOLEAN] /\ draining' \subseteq Gens
      <4>1. pc' \in [Tasks -> Awaits]
        BY <1>c8, <2>2 DEF TypeOK, Activate, Awaits
      <4>2. retired' \in [Gens -> BOOLEAN]
        BY <1>c8, <2>2 DEF TypeOK, Activate
      <4>3. draining' \subseteq Gens
        BY <1>c8, <2>2 DEF TypeOK, Activate, NoGen
      <4> QED BY <4>1, <4>2, <4>3
    <3> QED
      BY <1>c8, <2>2, <3>1, <3>2, <3>3 DEF TypeOK, Activate
  <2> QED BY <2>1, <2>2
<1>c9. ASSUME NEW t \in Tasks, Retire(t) PROVE TypeOK'
  BY <1>c9, FinishType, ClaimType DEF TypeOK, Retire, Awaits
<1>d1. ASSUME NEW t \in Tasks, UnloadOldDone(t) PROVE TypeOK'
  BY <1>d1, FinishType DEF TypeOK, UnloadOldDone
<1>d2. ASSUME NEW t \in Tasks, WaitOldDone(t) PROVE TypeOK'
  BY <1>d2, FinishType DEF TypeOK, WaitOldDone
<1>d3. ASSUME NEW t \in Tasks, DiscardDone(t) PROVE TypeOK'
  BY <1>d3, FinishType, OutcomeType DEF TypeOK, DiscardDone
<1>d4. ASSUME NEW t \in Tasks, JoinNative(t) PROVE TypeOK'
  BY <1>d4, FinishType, GoDiscardType, OutcomeType DEF TypeOK, JoinNative
<1>e1. ASSUME NEW t \in Tasks, CancelQueued(t) PROVE TypeOK'
  BY <1>e1, FinishType, <1>w DEF TypeOK, CancelQueued, CancelBudget, CancelledHook
<1>e2. ASSUME NEW t \in Tasks, CancelUnstarted(t) PROVE TypeOK'
  <2>1. NoJob \in Jobs
    BY DEF NoJob, Jobs, NoGen
  <2> QED BY <1>e2, <2>1 DEF TypeOK, CancelUnstarted, CancelBudget, Awaits
<1>e3. ASSUME NEW t \in Tasks, CancelPrepare(t) PROVE TypeOK'
  <2>1. job' \in [Tasks -> Jobs]
    BY <1>e3, JobUpdate DEF TypeOK, CancelPrepare
  <2> QED BY <1>e3, <2>1 DEF TypeOK, CancelPrepare, CancelBudget, Awaits
<1>e4. ASSUME NEW t \in Tasks, CancelDiscard(t) PROVE TypeOK'
  BY <1>e4, GoDiscardType, <1>w DEF TypeOK, CancelDiscard, CancelBudget, CancelledHook
<1>e5. ASSUME NEW t \in Tasks, CancelRetire(t) PROVE TypeOK'
  <2>1. draining' \subseteq Gens /\ complete' \in [Gens -> BOOLEAN]
    BY <1>e5 DEF TypeOK, CancelRetire
  <2>2. status' \in Statuses
    BY <1>e5, OutcomeType DEF TypeOK, CancelRetire
  <2> QED BY <1>e5, <2>1, <2>2, FinishType DEF TypeOK, CancelRetire, CancelBudget
<1>e6. ASSUME NEW t \in Tasks, CancelPrepareLate(t) PROVE TypeOK'
  BY <1>e6, FinishType, OutcomeType DEF TypeOK, CancelPrepareLate, CancelBudget
<1>e7. ASSUME NEW t \in Tasks, CancelFailing(t) PROVE TypeOK'
  BY <1>e7, FinishType DEF TypeOK, CancelFailing, CancelBudget
<1>g1. ASSUME NEW s \in Sessions, OpenSession(s) PROVE TypeOK'
  BY <1>g1 DEF TypeOK, OpenSession
<1>g2. ASSUME NEW s \in Sessions, CloseLease(s) PROVE TypeOK'
  BY <1>g2 DEF TypeOK, CloseLease
<1>g3. ASSUME NEW s \in Sessions, Release(s) PROVE TypeOK'
  <2>1. leases' \in [Gens -> Nat]
    <3> DEFINE g == lease[s]
    <3>1. leases' = [h \in Gens |-> IF h = g /\ leases[h] > 0 THEN leases[h] - 1
                                   ELSE IF h = g THEN 0 ELSE leases[h]]
      BY <1>g3 DEF TypeOK, Release
    <3> QED BY <3>1 DEF TypeOK
  <2>3. leaseState' \in [Sessions -> {"none", "open", "closing", "unloading", "closed"}]
    BY <1>g3 DEF TypeOK, Release
  <2>2. /\ native' \in [Gens -> NativeStates] /\ calls' \in [Gens -> Nat]
        /\ started' \in [Gens -> BOOLEAN]
    BY <1>g3, ClaimType DEF TypeOK, Release
  <2> QED BY <1>g3, <2>1, <2>2, <2>3 DEF TypeOK, Release
<1>g4. ASSUME NEW s \in Sessions, ReleaseDone(s) PROVE TypeOK'
  BY <1>g4, ZenonT(60) DEF TypeOK, ReleaseDone
<1>h1. ASSUME ShutdownBegin PROVE TypeOK'
  BY <1>h1, StatusType DEF TypeOK, ShutdownBegin, NoGen
<1>h2. ASSUME ShutdownCapture PROVE TypeOK'
  BY <1>h2 DEF TypeOK, ShutdownCapture
<1>h3. ASSUME ShutdownDrain PROVE TypeOK'
  BY <1>h3, ClaimType DEF TypeOK, ShutdownDrain
<1>h4. ASSUME ShutdownNext PROVE TypeOK'
  BY <1>h4 DEF TypeOK, ShutdownNext
<1>h5. ASSUME ShutdownEnd PROVE TypeOK'
  BY <1>h5 DEF TypeOK, ShutdownEnd
<1>i1. ASSUME UNCHANGED vars PROVE TypeOK'
  BY <1>i1 DEF TypeOK, vars
<1> QED
  BY <1>a1, <1>a2, <1>a3, <1>b1, <1>b2, <1>b3, <1>c1, <1>c2, <1>c3, <1>c4, <1>c5, <1>c6,
     <1>c7, <1>c8, <1>c9, <1>d1, <1>d2, <1>d3, <1>d4, <1>e1, <1>e2, <1>e3, <1>e4, <1>e5, <1>e6, <1>e7,
     <1>g1, <1>g2, <1>g3, <1>g4, <1>h1, <1>h2, <1>h3, <1>h4, <1>h5, <1>i1
  DEF Next, RuntimeNext, Native, Calls, TaskStep, Cancel, LeaseStep, ShutdownStep
-----------------------------------------------------------------------------
(* The strengthened invariant holds initially and is preserved.             *)

LEMMA InitInv == Init => IInv
<1> SUFFICES ASSUME Init PROVE IInv
  OBVIOUS
<1>1. TypeOK
  <2>1. status \in Statuses
    BY StatusType DEF Init
  <2>2. job \in [Tasks -> Jobs]
    BY ConstantsAssumption DEF Init, NoJob, Jobs, NoGen
  <2>3. native \in [Gens -> NativeStates] /\ pc \in [Tasks -> Awaits]
    BY DEF Init, NativeStates, Awaits
  <2>4. /\ config \in [Gens -> Configs] /\ leases \in [Gens -> Nat]
        /\ retired \in [Gens -> BOOLEAN] /\ started \in [Gens -> BOOLEAN]
        /\ complete \in [Gens -> BOOLEAN] /\ forced \in [Gens -> BOOLEAN]
        /\ calls \in [Gens -> Nat]
    BY ConstantsAssumption DEF Init
  <2>5. /\ lease \in [Sessions -> Gens \cup {NoGen}]
        /\ leaseState \in [Sessions -> {"none", "open", "closing", "unloading", "closed"}]
    BY DEF Init
  <2>6. nextGen \in 0..MaxGen
    BY ConstantsAssumption DEF Init
  <2>7. reserved \in BOOLEAN /\ shuttingDown \in BOOLEAN
    BY DEF Init
  <2>8. /\ active \in Gens \cup {NoGen} /\ preparingGen \in Gens \cup {NoGen}
        /\ draining \subseteq Gens /\ sdQueue \subseteq Gens
        /\ preparationTask \in Tasks \cup {None} /\ prepareLock \in Tasks \cup {None}
        /\ sd = "idle" /\ sdJoin \in Tasks \cup {None} /\ cancels \in Nat
        /\ disk \in Configs /\ memory \in Configs
    BY ConstantsAssumption DEF Init
  <2> QED
    BY <2>1, <2>2, <2>3, <2>4, <2>5, <2>6, <2>7, <2>8 DEF TypeOK
<1>2. \A g \in Gens : Holders(g) = {}
  BY DEF Init, Holders
<1>3. LeaseInv
  BY <1>2, FS_EmptySet DEF Init, LeaseInv
<1> QED
  BY <1>1, <1>2, <1>3, ConstantsAssumption DEF IInv, Init, LockInv, FreshInv, TaskInv, ActiveInv, RetiredInv,
     ClaimInv, DrainInv, Published, Locked, Candidate, Activated, Gens, NoGen

-----------------------------------------------------------------------------
(* What the shared pieces of the actions do to the invariant.               *)

\* At most one task is inside the prepare lock.
LEMMA Sole ==
    ASSUME LockInv, NEW t \in Tasks, NEW u \in Tasks, pc[t] \in Locked, u # t
    PROVE  pc[u] \notin Locked
BY DEF LockInv

LEMMA FinishEffect ==
    ASSUME TypeOK, NEW t \in Tasks, Finish(t)
    PROVE  \A u \in Tasks : /\ pc'[u] = IF u = t THEN "idle" ELSE pc[u]
                            /\ u # t => job'[u] = job[u]
BY DEF TypeOK, Finish

\* A task that leaves the lock leaves nothing for TaskInv to say about it.
LEMMA FinishInv ==
    ASSUME IInv, NEW t \in Tasks, Finish(t), pc[t] \in Locked
    PROVE  LockInv' /\ TaskInv'
<1>1. \A u \in Tasks : pc'[u] \notin Locked
  BY FinishEffect, Sole DEF IInv, Locked, Candidate, Activated
<1>2. prepareLock' = None
  BY DEF Finish, IInv, LockInv
<1>3. LockInv'
  BY <1>1, <1>2, ConstantsAssumption DEF LockInv, Locked
<1>4. TaskInv'
  BY <1>1 DEF TaskInv, Locked, Candidate, Activated
<1> QED BY <1>3, <1>4

LEMMA CallEffect ==
    ASSUME TypeOK, NEW g \in Gens, CallShutdown(g)
    PROVE  \A h \in Gens :
               /\ calls'[h] = IF h = g THEN calls[h] + 1 ELSE calls[h]
               /\ native'[h] = IF h = g /\ native[h] = "loaded" THEN "unloading" ELSE native[h]
BY DEF TypeOK, CallShutdown

\* Discarding an unpublished candidate disturbs no published generation.
LEMMA DiscardEffect ==
    ASSUME IInv, NEW t \in Tasks, pc[t] \in Candidate, NEW o, GoDiscard(t, o),
           UNCHANGED <<active, retired, nextGen, started, forced, prepareLock>>
    PROVE  LockInv' /\ FreshInv' /\ TaskInv' /\ ActiveInv' /\ RetiredInv'
<1> DEFINE g == job[t].gen
<1>1. g \in Gens /\ g = nextGen /\ ~Published(g) /\ pc[t] \in Locked
  BY DEF IInv, TaskInv, Locked
<1>2. \A h \in Gens : h # g => native'[h] = native[h] /\ calls'[h] = calls[h]
  BY <1>1, CallEffect DEF IInv, GoDiscard
<1>3. \A u \in Tasks : pc'[u] = IF u = t THEN "discard" ELSE pc[u]
  BY DEF IInv, TypeOK, GoDiscard
<1>4. job'[t].gen = g
  BY DEF IInv, TypeOK, GoDiscard, Jobs
<1>5. LockInv'
  BY <1>1, <1>3 DEF IInv, LockInv, Locked, Candidate
<1>6. FreshInv'
  BY <1>1, <1>2 DEF IInv, TypeOK, FreshInv, Published, Gens
<1>7. TaskInv'
  <2> SUFFICES ASSUME NEW u \in Tasks, u = t PROVE TaskInv!(u)'
    BY <1>1, <1>3, Sole DEF IInv, TaskInv, Locked, Candidate, Activated
  <2> QED BY <1>1, <1>3, <1>4 DEF IInv, Published, Candidate, Activated
<1>8. ActiveInv'
  BY <1>1, <1>2 DEF IInv, ActiveInv, Published, TypeOK, NoGen
<1>9. RetiredInv'
  BY <1>1, <1>2 DEF IInv, RetiredInv, Published
<1> QED BY <1>5, <1>6, <1>7, <1>8, <1>9

\* Claiming a retired generation unloads it, once, and disturbs no other.
LEMMA ClaimEffect ==
    ASSUME IInv, NEW g \in Gens, retired[g], Claim(g), UNCHANGED <<active, retired, nextGen>>,
           \A h \in Gens : forced'[h] => forced[h] \/ h = g
    PROVE  /\ FreshInv' /\ ActiveInv' /\ RetiredInv'
           /\ \A h \in Gens : /\ started'[h] <=> h = g \/ started[h]
                              /\ ~retired[h] => native'[h] = native[h] /\ calls'[h] = calls[h]
<1>1. \A h \in Gens : started'[h] <=> h = g \/ started[h]
  BY DEF Claim, IInv, TypeOK
<1>2. \A h \in Gens : h # g \/ started[g] => native'[h] = native[h] /\ calls'[h] = calls[h]
  BY CallEffect DEF Claim, IInv, TypeOK
<1>3. ~started[g] => calls'[g] = calls[g] + 1 /\ calls[g] = 0
  BY CallEffect DEF Claim, IInv, RetiredInv
<1>4. FreshInv'
  BY <1>2 DEF IInv, FreshInv, Published
<1>5. ActiveInv'
  BY <1>2 DEF IInv, ActiveInv, TypeOK, NoGen
<1>6. RetiredInv'
  <2> SUFFICES ASSUME NEW h \in Gens PROVE RetiredInv!(h)'
    BY DEF RetiredInv
  <2>1. CASE h = g
    BY <1>1, <1>2, <1>3, <2>1 DEF IInv, RetiredInv, TypeOK
  <2>2. CASE h # g
    BY <1>1, <1>2, <2>2 DEF IInv, RetiredInv, TypeOK
  <2> QED BY <2>1, <2>2
<1> QED BY <1>1, <1>2, <1>4, <1>5, <1>6

\* The tasks' view survives a claim: their candidates are unpublished.
LEMMA ClaimTask ==
    ASSUME IInv, UNCHANGED <<active, retired, nextGen, pc, job>>,
           \A h \in Gens : /\ started[h] => started'[h]
                           /\ ~retired[h] => native'[h] = native[h] /\ calls'[h] = calls[h]
    PROVE  TaskInv'
<1> SUFFICES ASSUME NEW u \in Tasks PROVE TaskInv!(u)'
  BY DEF TaskInv
<1>1. job[u].old \in Gens \cup {NoGen}
  BY JobUpdate DEF IInv, TypeOK
<1>2. CASE pc[u] \in Candidate
  BY <1>2 DEF IInv, TaskInv, Published, Candidate, Activated
<1>3. CASE pc[u] \in Activated
  BY <1>1, <1>3 DEF IInv, TaskInv, Candidate, Activated
<1>4. CASE pc[u] \notin Candidate \cup Activated
  BY <1>4 DEF Candidate, Activated
<1> QED BY <1>2, <1>3, <1>4

\* A lease taken or dropped moves the counter of its generation by one.
LEMMA HoldersFinite ==
    \A g : IsFiniteSet(Holders(g)) /\ Cardinality(Holders(g)) \in Nat
BY ConstantsAssumption, FS_Subset, FS_CardinalityType DEF Holders

LEMMA InvStep == IInv /\ [Next]_vars => IInv'
<1> SUFFICES ASSUME IInv, [Next]_vars PROVE IInv'
  OBVIOUS
<1>t. TypeOK'
  BY TypeStep DEF IInv
<1> USE ConstantsAssumption DEF IInv, Gens
<1> USE DEF Writes, MarkComplete, Idle, LastRelease, SameConfig, coreVars, prepVars, runtimeVars, genVars, nativeVars, modelVars,
    taskVars, leaseVars, sdVars, hookVars, outerVars
<1>a1. ASSUME NEW g \in Gens, NativeLoad(g) PROVE IInv'
  <2>1. FreshInv'
    BY <1>a1 DEF TypeOK, FreshInv, Published, NativeLoad
  <2>2. TaskInv'
    BY <1>a1 DEF TypeOK, TaskInv, Candidate, Activated, Locked, LockInv, Published, NoGen, NativeLoad
  <2>3. ActiveInv'
    BY <1>a1 DEF TypeOK, ActiveInv, TaskInv, Published, NoGen, NativeLoad
  <2>4. RetiredInv'
    BY <1>a1 DEF TypeOK, RetiredInv, NativeLoad
  <2> QED BY <1>a1, <2>1, <2>2, <2>3, <2>4, <1>t DEF LockInv, LeaseInv, Holders, Published, ClaimInv, DrainInv, NativeLoad
<1>a2. ASSUME NEW g \in Gens, NativeUnload(g) PROVE IInv'
  <2>1. FreshInv'
    BY <1>a2 DEF TypeOK, FreshInv, Published, NativeUnload
  <2>2. TaskInv'
    BY <1>a2 DEF TypeOK, TaskInv, Candidate, Activated, Locked, LockInv, Published, NoGen, NativeUnload
  <2>3. ActiveInv'
    BY <1>a2 DEF TypeOK, ActiveInv, TaskInv, Published, NoGen, NativeUnload
  <2>4. RetiredInv'
    BY <1>a2 DEF TypeOK, RetiredInv, NativeUnload
  <2> QED BY <1>a2, <2>1, <2>2, <2>3, <2>4, <1>t DEF LockInv, LeaseInv, Holders, Published, ClaimInv, DrainInv, NativeUnload
<1>a3. ASSUME NEW g \in Gens, Progress(g) PROVE IInv'
  <2> QED BY <1>a3, <1>t DEF LockInv, FreshInv, Published, TaskInv, ActiveInv, RetiredInv, LeaseInv, Holders, ClaimInv, DrainInv, Progress
<1>b1. ASSUME NEW t \in Tasks, Start(t) PROVE IInv'
  <2>1. LockInv'
    BY <1>b1 DEF TypeOK, LockInv, Locked, Candidate, Activated, Start, Call, NoJob
  <2>2. TaskInv'
    BY <1>b1 DEF TypeOK, TaskInv, Candidate, Activated, Locked, LockInv, Published, NoGen, Start, Call, NoJob
  <2> QED BY <1>b1, <2>1, <2>2, <1>t DEF FreshInv, Published, ActiveInv, RetiredInv, LeaseInv, Holders, ClaimInv, DrainInv, Start, Call
<1>b2. ASSUME NEW t \in Tasks, NEW c \in Configs, PrepareAndActivate(t, c) PROVE IInv'
  <2>1. LockInv'
    BY <1>b2 DEF TypeOK, LockInv, Locked, Candidate, Activated, PrepareAndActivate, Call, NoJob
  <2>2. TaskInv'
    BY <1>b2 DEF TypeOK, TaskInv, Candidate, Activated, Locked, LockInv, Published, NoGen, PrepareAndActivate, Call, NoJob
  <2> QED BY <1>b2, <2>1, <2>2, <1>t DEF FreshInv, Published, ActiveInv, RetiredInv, LeaseInv, Holders, ClaimInv, DrainInv, PrepareAndActivate, Call
<1>b3. ASSUME NEW t \in Tasks, NEW c \in Configs, Schedule(t, c) PROVE IInv'
  <2>1. LockInv'
    BY <1>b3 DEF TypeOK, LockInv, Locked, Candidate, Activated, Schedule, Call, NoJob
  <2>2. TaskInv'
    BY <1>b3 DEF TypeOK, TaskInv, Candidate, Activated, Locked, LockInv, Published, NoGen, Schedule, Call, NoJob
  <2> QED BY <1>b3, <2>1, <2>2, <1>t DEF FreshInv, Published, ActiveInv, RetiredInv, LeaseInv, Holders, ClaimInv, DrainInv, Schedule, Call
<1>c1. ASSUME NEW t \in Tasks, AdmitNothing(t) PROVE IInv'
  <2>1. LockInv'
    BY <1>c1 DEF TypeOK, LockInv, Locked, Candidate, Activated, AdmitNothing, Finish, NoJob
  <2>2. TaskInv'
    BY <1>c1 DEF TypeOK, TaskInv, Candidate, Activated, Locked, LockInv, Published, NoGen, AdmitNothing, Finish, NoJob
  <2> QED BY <1>c1, <2>1, <2>2, <1>t DEF FreshInv, Published, ActiveInv, RetiredInv, LeaseInv, Holders, ClaimInv, DrainInv, AdmitNothing, Finish
<1>c2. ASSUME NEW t \in Tasks, AdmitSame(t) PROVE IInv'
  <2>1. LockInv'
    BY <1>c2 DEF TypeOK, LockInv, Locked, Candidate, Activated, AdmitSame
  <2>2. TaskInv'
    BY <1>c2 DEF TypeOK, TaskInv, Candidate, Activated, Locked, LockInv, Published, NoGen, AdmitSame
  <2> QED BY <1>c2, <2>1, <2>2, <1>t DEF FreshInv, Published, ActiveInv, RetiredInv, LeaseInv, Holders, ClaimInv, DrainInv, AdmitSame
<1>c3. ASSUME NEW t \in Tasks, AdmitNew(t) PROVE IInv'
  <2>a. /\ nextGen' = nextGen + 1 /\ nextGen' \in Gens /\ nextGen' > nextGen
        /\ prepareLock = None /\ prepareLock' = t
    BY <1>c3 DEF TypeOK, AdmitNew
  <2>b. \A h \in Gens : native'[h] = IF h = nextGen' THEN "loading" ELSE native[h]
    BY <1>c3 DEF TypeOK, AdmitNew
  <2>c. /\ \A u \in Tasks : pc'[u] = IF u = t THEN "prepare" ELSE pc[u]
        /\ job'[t].gen = nextGen'
    BY <1>c3 DEF TypeOK, AdmitNew, Jobs
  <2>d. UNCHANGED <<active, retired, started, calls, forced>>
    BY <1>c3 DEF AdmitNew
  <2>e. \A u \in Tasks : pc[u] \notin Locked
    BY <2>a DEF LockInv
  <2>f. ~Published(nextGen') /\ calls[nextGen'] = 0
    BY <2>a DEF FreshInv
  <2>1. LockInv'
    BY <2>a, <2>c, <2>e DEF LockInv, Locked, Candidate
  <2>2. FreshInv'
    BY <2>a, <2>b, <2>d DEF TypeOK, FreshInv, Published
  <2>3. TaskInv'
    BY <2>a, <2>c, <2>d, <2>e, <2>f DEF TaskInv, Locked, Candidate, Activated, Published
  <2>4. ActiveInv'
    BY <2>a, <2>b, <2>d, <2>f DEF TypeOK, ActiveInv, Published, NoGen
  <2>5. RetiredInv'
    BY <2>a, <2>b, <2>d, <2>f DEF RetiredInv, Published
  <2> QED BY <1>c3, <2>1, <2>2, <2>3, <2>4, <2>5, <1>t DEF LeaseInv, Holders, Published, ClaimInv, DrainInv, AdmitNew
<1>c4. ASSUME NEW t \in Tasks, SamePersist(t) PROVE IInv'
  <2>1. LockInv'
    BY <1>c4 DEF TypeOK, LockInv, Locked, Candidate, Activated, SamePersist, Finish, NoJob
  <2>2. TaskInv'
    BY <1>c4 DEF TypeOK, TaskInv, Candidate, Activated, Locked, LockInv, Published, NoGen, SamePersist, Finish, NoJob
  <2> QED BY <1>c4, <2>1, <2>2, <1>t DEF FreshInv, Published, ActiveInv, RetiredInv, LeaseInv, Holders, ClaimInv, DrainInv, SamePersist, Finish
<1>c5. ASSUME NEW t \in Tasks, SamePublish(t) PROVE IInv'
  <2>1. LockInv'
    BY <1>c5 DEF TypeOK, LockInv, Locked, Candidate, Activated, SamePublish, Finish, NoJob
  <2>2. TaskInv'
    BY <1>c5 DEF TypeOK, TaskInv, Candidate, Activated, Locked, LockInv, Published, NoGen, SamePublish, Finish, NoJob
  <2> QED BY <1>c5, <2>1, <2>2, <1>t DEF FreshInv, Published, ActiveInv, RetiredInv, LeaseInv, Holders, ClaimInv, DrainInv, SamePublish, Finish
<1>c6. ASSUME NEW t \in Tasks, PrepareReturns(t) PROVE IInv'
  <2>p. pc[t] \in Candidate /\ pc[t] \in Locked
    BY <1>c6 DEF PrepareReturns, Candidate, Locked
  <2>1. LockInv' /\ FreshInv' /\ TaskInv' /\ ActiveInv' /\ RetiredInv'
    <3>1. CASE Finish(t) /\ UNCHANGED <<native, calls>>
      BY <1>c6, <2>p, <3>1, FinishInv DEF PrepareReturns, FreshInv, ActiveInv, RetiredInv, Published
    <3>2. CASE GoDiscard(t, "return") /\ UNCHANGED prepareLock
      BY <1>c6, <2>p, <3>2, DiscardEffect DEF PrepareReturns
    <3>3. CASE /\ pc' = [pc EXCEPT ![t] = "persist"] /\ native[job[t].gen] = "loaded"
               /\ UNCHANGED <<job, native, calls, prepareLock>>
      <4>1. \A u \in Tasks : pc'[u] = IF u = t THEN "persist" ELSE pc[u]
        BY <3>3 DEF TypeOK
      <4>2. LockInv'
        BY <2>p, <3>3, <4>1 DEF LockInv, Locked, Candidate
      <4>3. TaskInv'
        BY <1>c6, <2>p, <3>3, <4>1, Sole DEF PrepareReturns, TaskInv, Locked, Candidate, Activated, Published
      <4> QED BY <1>c6, <3>3, <4>2, <4>3 DEF PrepareReturns, FreshInv, ActiveInv, RetiredInv, Published
    <3> QED BY <1>c6, <3>1, <3>2, <3>3 DEF PrepareReturns
  <2> QED BY <1>c6, <1>t, <2>1 DEF PrepareReturns, LeaseInv, ClaimInv, DrainInv, Holders, Published
<1>c7. ASSUME NEW t \in Tasks, Persist(t) PROVE IInv'
  <2>p. pc[t] \in Candidate /\ pc[t] \in Locked
    BY <1>c7 DEF Persist, Candidate, Locked
  <2>1. LockInv' /\ FreshInv' /\ TaskInv' /\ ActiveInv' /\ RetiredInv'
    <3>1. CASE GoDiscard(t, "error")
      BY <1>c7, <2>p, <3>1, DiscardEffect DEF Persist
    <3>2. CASE pc' = [pc EXCEPT ![t] = "activate"] /\ UNCHANGED <<job, native, calls>>
      <4>1. \A u \in Tasks : pc'[u] = IF u = t THEN "activate" ELSE pc[u]
        BY <3>2 DEF TypeOK
      <4>2. LockInv'
        BY <1>c7, <2>p, <4>1 DEF Persist, LockInv, Locked, Candidate
      <4>3. TaskInv'
        BY <1>c7, <2>p, <3>2, <4>1, Sole DEF Persist, TaskInv, Locked, Candidate, Activated, Published
      <4> QED BY <1>c7, <3>2, <4>2, <4>3 DEF Persist, FreshInv, ActiveInv, RetiredInv, Published
    <3> QED BY <1>c7, <3>1, <3>2 DEF Persist
  <2> QED BY <1>c7, <1>t, <2>1 DEF Persist, LeaseInv, ClaimInv, DrainInv, Holders, Published
<1>c8. ASSUME NEW t \in Tasks, Activate(t) PROVE IInv'
  <2>p. pc[t] \in Candidate /\ pc[t] \in Locked
    BY <1>c8 DEF Activate, Candidate, Locked
  <2>1. CASE shuttingDown
    <3>1. GoDiscard(t, "return") /\ UNCHANGED <<active, retired, draining>>
      BY <1>c8, <2>1 DEF Activate
    <3>2. LockInv' /\ FreshInv' /\ TaskInv' /\ ActiveInv' /\ RetiredInv'
      BY <1>c8, <2>p, <3>1, DiscardEffect DEF Activate
    <3> QED BY <1>c8, <1>t, <3>1, <3>2 DEF Activate, LeaseInv, ClaimInv, DrainInv, Holders, Published
  <2>2. CASE ~shuttingDown
    <3> DEFINE g == job[t].gen
    <3>1. /\ g \in Gens /\ g = nextGen /\ ~Published(g) /\ calls[g] = 0 /\ native[g] = "loaded"
          /\ ~started[g] /\ g # active
      BY <1>c8, <2>p DEF Activate, TaskInv, RetiredInv, Published
    <3>2. /\ active' = g
          /\ \A h \in Gens : retired'[h] <=> retired[h] \/ h = active
          /\ UNCHANGED <<native, calls, started, forced, nextGen, leases, lease, leaseState,
                         prepareLock, sdQueue, sd, shuttingDown>>
          /\ \A h \in draining' : h \in draining \/ (h = active /\ h \in Gens)
      <4>1. \A h \in draining' : h \in draining \/ (h = active /\ h \in Gens)
        BY <1>c8, <2>2 DEF TypeOK, Activate, NoGen
      <4>2. active' = g /\ retired' = [h \in Gens |-> retired[h] \/ h = active]
        BY <1>c8, <2>2 DEF Activate
      <4>3. UNCHANGED <<native, calls, started, forced, nextGen, leases, lease, leaseState,
                        prepareLock, sdQueue, sd, shuttingDown>>
        BY <1>c8, <2>2 DEF Activate
      <4> QED BY <4>1, <4>2, <4>3
    <3>3. /\ \A u \in Tasks : pc'[u] = IF u = t THEN "retire" ELSE pc[u]
          /\ job'[t].old = active
      BY <1>c8, <2>2 DEF TypeOK, Activate, Jobs
    <3>4. LockInv'
      BY <2>p, <3>2, <3>3 DEF LockInv, Locked, Activated
    <3>5. FreshInv'
      BY <3>1, <3>2 DEF TypeOK, FreshInv, Published
    <3>6. TaskInv'
      <4>1. active # NoGen => retired'[active]
        BY <3>2 DEF TypeOK
      <4>2. \A u \in Tasks : u # t => pc'[u] \notin Locked
        BY <2>p, <3>3, Sole
      <4> QED BY <3>3, <4>1, <4>2 DEF TaskInv, Locked, Candidate, Activated
    <3>7. ActiveInv'
      BY <3>1, <3>2 DEF ActiveInv, Published
    <3>8. RetiredInv'
      BY <3>2 DEF RetiredInv, ActiveInv, NoGen
    <3>9. LeaseInv'
      <4>1. \A h : Holders(h)' = Holders(h)
        BY <3>2 DEF Holders
      <4>2. \A h \in Gens : Published(h) => Published(h)'
        BY <3>2 DEF Published
      <4> QED BY <3>2, <4>1, <4>2 DEF LeaseInv
    <3>10. ClaimInv'
      BY <3>2 DEF ClaimInv, Holders
    <3>11. DrainInv'
      BY <2>2, <3>2 DEF TypeOK, DrainInv
    <3> QED BY <1>t, <3>4, <3>5, <3>6, <3>7, <3>8, <3>9, <3>10, <3>11
  <2> QED BY <2>1, <2>2
<1>c9. ASSUME NEW t \in Tasks, Retire(t) PROVE IInv'
  <2>p. pc[t] \in Activated /\ pc[t] \in Locked
    BY <1>c9 DEF Retire, Activated, Locked
  <2>f. UNCHANGED <<active, retired, nextGen, forced, lease, leaseState, leases>>
    BY <1>c9 DEF Retire
  <2> DEFINE old == job[t].old
  <2>1. CASE ~(old # NoGen /\ leases[old] = 0)
    <3>1. Finish(t) /\ UNCHANGED <<started, native, calls>>
      BY <1>c9, <2>1 DEF Retire
    <3>2. LockInv' /\ TaskInv'
      BY <2>p, <3>1, FinishInv
    <3> QED BY <1>c9, <1>t, <2>f, <3>1, <3>2 DEF Retire, FreshInv, ActiveInv, RetiredInv, LeaseInv,
               ClaimInv, DrainInv, Holders, Published
  <2>2. CASE old # NoGen /\ leases[old] = 0
    <3>1. old \in Gens /\ retired[old] /\ Holders(old) = {}
      BY <2>p, <2>2, JobUpdate, HoldersFinite, FS_EmptySet DEF TypeOK, TaskInv, LeaseInv
    <3>2. /\ Claim(old) /\ UNCHANGED <<job, prepareLock>>
          /\ \A u \in Tasks : pc'[u] = IF u = t THEN (IF started[old] THEN "waitOld" ELSE "unloadOld")
                                       ELSE pc[u]
      BY <1>c9, <2>2 DEF TypeOK, Retire
    <3>3. /\ FreshInv' /\ ActiveInv' /\ RetiredInv'
          /\ \A h \in Gens : started'[h] <=> h = old \/ started[h]
      BY <2>f, <3>1, <3>2, ClaimEffect
    <3>4. LockInv'
      BY <2>p, <3>2 DEF LockInv, Locked, Activated
    <3>5. TaskInv'
      <4> SUFFICES ASSUME NEW u \in Tasks, u = t PROVE TaskInv!(u)'
        BY <2>p, <3>2, Sole DEF TaskInv, Locked, Candidate, Activated
      <4> QED BY <2>2, <2>f, <3>1, <3>2, <3>3 DEF Candidate, Activated
    <3>6. ClaimInv'
      BY <2>f, <3>1, <3>3 DEF ClaimInv, Holders
    <3> QED BY <1>c9, <1>t, <2>f, <3>3, <3>4, <3>5, <3>6 DEF Retire, LeaseInv, DrainInv, Holders, Published
  <2> QED BY <2>1, <2>2
<1>d1. ASSUME NEW t \in Tasks, UnloadOldDone(t) PROVE IInv'
  <2>1. LockInv'
    BY <1>d1 DEF TypeOK, LockInv, Locked, Candidate, Activated, UnloadOldDone, Finish, NoJob
  <2>2. TaskInv'
    BY <1>d1 DEF TypeOK, TaskInv, Candidate, Activated, Locked, LockInv, Published, NoGen, UnloadOldDone, Finish, NoJob
  <2>3. DrainInv'
    BY <1>d1 DEF TypeOK, DrainInv, NoGen, UnloadOldDone, Finish, NoJob
  <2> QED BY <1>d1, <2>1, <2>2, <2>3, <1>t DEF FreshInv, Published, ActiveInv, RetiredInv, LeaseInv, Holders, ClaimInv, UnloadOldDone, Finish
<1>d2. ASSUME NEW t \in Tasks, WaitOldDone(t) PROVE IInv'
  <2>1. LockInv'
    BY <1>d2 DEF TypeOK, LockInv, Locked, Candidate, Activated, WaitOldDone, Finish, NoJob
  <2>2. TaskInv'
    BY <1>d2 DEF TypeOK, TaskInv, Candidate, Activated, Locked, LockInv, Published, NoGen, WaitOldDone, Finish, NoJob
  <2> QED BY <1>d2, <2>1, <2>2, <1>t DEF FreshInv, Published, ActiveInv, RetiredInv, LeaseInv, Holders, ClaimInv, DrainInv, WaitOldDone, Finish
<1>d3. ASSUME NEW t \in Tasks, DiscardDone(t) PROVE IInv'
  <2>1. LockInv'
    BY <1>d3 DEF TypeOK, LockInv, Locked, Candidate, Activated, DiscardDone, Finish, NoJob
  <2>2. TaskInv'
    BY <1>d3 DEF TypeOK, TaskInv, Candidate, Activated, Locked, LockInv, Published, NoGen, DiscardDone, Finish, NoJob
  <2> QED BY <1>d3, <2>1, <2>2, <1>t DEF FreshInv, Published, ActiveInv, RetiredInv, LeaseInv, Holders, ClaimInv, DrainInv, DiscardDone, Finish
<1>d4. ASSUME NEW t \in Tasks, JoinNative(t) PROVE IInv'
  <2>p. pc[t] \in Candidate /\ pc[t] \in Locked
    BY <1>d4 DEF JoinNative, Candidate, Locked
  <2>1. LockInv' /\ FreshInv' /\ TaskInv' /\ ActiveInv' /\ RetiredInv'
    <3>1. CASE Finish(t) /\ UNCHANGED <<native, calls>>
      BY <1>d4, <2>p, <3>1, FinishInv DEF JoinNative, FreshInv, ActiveInv, RetiredInv, Published
    <3>2. CASE GoDiscard(t, "cancel") /\ UNCHANGED prepareLock
      BY <1>d4, <2>p, <3>2, DiscardEffect DEF JoinNative
    <3> QED BY <1>d4, <3>1, <3>2 DEF JoinNative
  <2> QED BY <1>d4, <1>t, <2>1 DEF JoinNative, LeaseInv, ClaimInv, DrainInv, Holders, Published
<1>e1. ASSUME NEW t \in Tasks, CancelQueued(t) PROVE IInv'
  <2>1. LockInv'
    BY <1>e1 DEF TypeOK, LockInv, Locked, Candidate, Activated, CancelQueued, Finish, NoJob
  <2>2. TaskInv'
    BY <1>e1 DEF TypeOK, TaskInv, Candidate, Activated, Locked, LockInv, Published, NoGen, CancelQueued, Finish, NoJob
  <2> QED BY <1>e1, <2>1, <2>2, <1>t DEF FreshInv, Published, ActiveInv, RetiredInv, LeaseInv, Holders, ClaimInv, DrainInv, CancelQueued, Finish
<1>e2. ASSUME NEW t \in Tasks, CancelUnstarted(t) PROVE IInv'
  <2>1. LockInv'
    BY <1>e2 DEF TypeOK, LockInv, Locked, Candidate, Activated, CancelUnstarted, NoJob
  <2>2. TaskInv'
    BY <1>e2 DEF TypeOK, TaskInv, Candidate, Activated, Locked, LockInv, Published, NoGen, CancelUnstarted, NoJob
  <2> QED BY <1>e2, <2>1, <2>2, <1>t DEF FreshInv, Published, ActiveInv, RetiredInv, LeaseInv, Holders, ClaimInv, DrainInv, CancelUnstarted
<1>e3. ASSUME NEW t \in Tasks, CancelPrepare(t) PROVE IInv'
  <2>1. LockInv'
    BY <1>e3 DEF TypeOK, LockInv, Locked, Candidate, Activated, CancelPrepare
  <2>2. TaskInv'
    BY <1>e3 DEF TypeOK, TaskInv, Candidate, Activated, Locked, LockInv, Published, NoGen, CancelPrepare
  <2> QED BY <1>e3, <2>1, <2>2, <1>t DEF FreshInv, Published, ActiveInv, RetiredInv, LeaseInv, Holders, ClaimInv, DrainInv, CancelPrepare
<1>e4. ASSUME NEW t \in Tasks, CancelDiscard(t) PROVE IInv'
  <2>p. pc[t] \in Candidate
    BY <1>e4 DEF CancelDiscard, Candidate
  <2>1. LockInv' /\ FreshInv' /\ TaskInv' /\ ActiveInv' /\ RetiredInv'
    BY <1>e4, <2>p, DiscardEffect DEF CancelDiscard
  <2> QED BY <1>e4, <1>t, <2>1 DEF CancelDiscard, LeaseInv, ClaimInv, DrainInv, Holders, Published
<1>e5. ASSUME NEW t \in Tasks, CancelRetire(t) PROVE IInv'
  <2>1. LockInv'
    BY <1>e5 DEF TypeOK, LockInv, Locked, Candidate, Activated, CancelRetire, Finish, NoJob
  <2>2. TaskInv'
    BY <1>e5 DEF TypeOK, TaskInv, Candidate, Activated, Locked, LockInv, Published, NoGen, CancelRetire, Finish, NoJob
  <2>3. DrainInv'
    BY <1>e5 DEF TypeOK, DrainInv, NoGen, CancelRetire, Finish, NoJob
  <2> QED BY <1>e5, <2>1, <2>2, <2>3, <1>t DEF FreshInv, Published, ActiveInv, RetiredInv, LeaseInv, Holders, ClaimInv, CancelRetire, Finish
<1>e6. ASSUME NEW t \in Tasks, CancelPrepareLate(t) PROVE IInv'
  <2>1. LockInv' /\ TaskInv'
    BY <1>e6, FinishInv DEF CancelPrepareLate, Locked, Candidate
  <2> QED BY <1>e6, <2>1, <1>t DEF FreshInv, Published, ActiveInv, RetiredInv, LeaseInv, Holders,
             ClaimInv, DrainInv, CancelPrepareLate
<1>e7. ASSUME NEW t \in Tasks, CancelFailing(t) PROVE IInv'
  <2>1. LockInv' /\ TaskInv'
    BY <1>e7, FinishInv DEF CancelFailing, Locked, Candidate
  <2> QED BY <1>e7, <2>1, <1>t DEF FreshInv, Published, ActiveInv, RetiredInv, LeaseInv, Holders,
             ClaimInv, DrainInv, CancelFailing
<1>g1. ASSUME NEW s \in Sessions, OpenSession(s) PROVE IInv'
  <2>a. /\ active \in Gens /\ lease'[s] = active /\ leaseState'[s] = "open" /\ s \notin Holders(active)
        /\ \A h \in Gens : leases'[h] = IF h = active THEN leases[h] + 1 ELSE leases[h]
        /\ UNCHANGED <<active, retired, started, forced>>
    BY <1>g1 DEF TypeOK, OpenSession, Holders, NoGen
  <2>b. \A h \in Gens : Holders(h)' = IF h = active THEN Holders(h) \cup {s} ELSE Holders(h)
    BY <1>g1 DEF TypeOK, OpenSession, Holders
  <2>1. LeaseInv'
    <3>1. \A h \in Gens : leases'[h] = Cardinality(Holders(h)')
      <4>1. Cardinality(Holders(active) \cup {s}) = Cardinality(Holders(active)) + 1
        BY <2>a, HoldersFinite, FS_AddElement
      <4> QED BY <2>a, <2>b, <4>1 DEF LeaseInv
    <3>2. \A r \in Sessions : r # s => UNCHANGED <<lease[r], leaseState[r]>>
      BY <1>g1 DEF TypeOK, OpenSession
    <3> QED BY <2>a, <3>1, <3>2 DEF LeaseInv, Published
  <2>2. ClaimInv'
    BY <2>a, <2>b DEF ClaimInv, RetiredInv, ActiveInv, NoGen
  <2> QED BY <1>g1, <2>1, <2>2, <1>t DEF LockInv, FreshInv, Published, TaskInv, ActiveInv, RetiredInv, DrainInv, OpenSession
<1>g2. ASSUME NEW s \in Sessions, CloseLease(s) PROVE IInv'
  <2>a. \A h : Holders(h)' = Holders(h)
    BY <1>g2 DEF TypeOK, CloseLease, Holders
  <2>b. \A r \in Sessions : leaseState'[r] \in {"open", "closing", "unloading"} =>
                               leaseState[r] \in {"open", "closing", "unloading"}
    BY <1>g2 DEF TypeOK, CloseLease
  <2>1. LeaseInv'
    BY <1>g2, <2>a, <2>b DEF LeaseInv, CloseLease, Published
  <2>2. ClaimInv'
    BY <1>g2, <2>a DEF ClaimInv, CloseLease
  <2> QED BY <1>g2, <2>1, <2>2, <1>t DEF LockInv, FreshInv, Published, TaskInv, ActiveInv, RetiredInv, DrainInv, CloseLease
<1>g3. ASSUME NEW s \in Sessions, Release(s) PROVE IInv'
  <2> DEFINE g == lease[s]
  <2>a. g \in Gens /\ Published(g) /\ s \in Holders(g)
    BY <1>g3 DEF Release, LeaseInv, Holders
  <2>b. leases[g] \in Nat \ {0} /\ leases[g] = Cardinality(Holders(g))
    BY <2>a, HoldersFinite, FS_EmptySet DEF LeaseInv
  <2>c. UNCHANGED <<active, retired, nextGen, forced, lease, pc, job, prepareLock>>
    BY <1>g3 DEF Release
  <2>d. \A h \in Gens : leases'[h] = IF h = g THEN leases[h] - 1 ELSE leases[h]
    BY <1>g3, <2>a, <2>b DEF TypeOK, Release
  <2>e. /\ \A r \in Sessions : r # s => leaseState'[r] = leaseState[r]
        /\ leaseState'[s] \in {"unloading", "closed"}
    BY <1>g3 DEF TypeOK, Release
  <2>h. \A h \in Gens : Holders(h)' = IF h = g THEN Holders(h) \ {s} ELSE Holders(h)
    BY <2>c, <2>e DEF Holders
  <2>1. LeaseInv'
    <3>1. \A h \in Gens : leases'[h] = Cardinality(Holders(h)')
      BY <2>a, <2>b, <2>d, <2>h, HoldersFinite, FS_RemoveElement DEF LeaseInv
    <3> QED BY <1>g3, <2>a, <2>c, <2>e, <3>1 DEF LeaseInv, Published
  <2>2. LockInv'
    BY <2>c DEF LockInv
  <2>3. CASE UNCHANGED <<started, native, calls>>
    <3>1. ClaimInv'
      BY <2>c, <2>h, <2>3 DEF ClaimInv
    <3> QED BY <1>g3, <1>t, <2>1, <2>2, <2>c, <2>3, <3>1 DEF Release, FreshInv, TaskInv, ActiveInv,
               RetiredInv, DrainInv, Published
  <2>4. CASE Claim(g) /\ leases[g] = 1 /\ retired[g]
    <3>1. /\ FreshInv' /\ ActiveInv' /\ RetiredInv'
          /\ \A h \in Gens : /\ started'[h] <=> h = g \/ started[h]
                             /\ ~retired[h] => native'[h] = native[h] /\ calls'[h] = calls[h]
      BY <2>a, <2>c, <2>4, ClaimEffect
    <3>2. \A h \in Gens : h = g => Holders(h)' = {}
      <4>1. Cardinality(Holders(g) \ {s}) = 0
        <5>1. Cardinality(Holders(g) \ {s}) = Cardinality(Holders(g)) - 1
          BY <2>a, HoldersFinite, FS_RemoveElement
        <5> QED BY <2>b, <2>4, <5>1
      <4>2. IsFiniteSet(Holders(g) \ {s})
        BY HoldersFinite, FS_RemoveElement
      <4>3. Holders(g) \ {s} = {}
        BY <4>1, <4>2, FS_EmptySet
      <4> QED BY <2>a, <2>h, <4>3
    <3>3. ClaimInv'
      BY <2>c, <2>h, <3>1, <3>2 DEF ClaimInv
    <3>4. TaskInv'
      BY <2>c, <3>1, ClaimTask
    <3> QED BY <1>g3, <1>t, <2>1, <2>2, <3>1, <3>3, <3>4 DEF Release, DrainInv
  <2> QED BY <1>g3, <2>3, <2>4 DEF Release
<1>g4. ASSUME NEW s \in Sessions, ReleaseDone(s) PROVE IInv'
  <2>a. \A h : Holders(h)' = Holders(h)
    BY <1>g4 DEF TypeOK, ReleaseDone, Holders
  <2>b. \A r \in Sessions : leaseState'[r] \in {"open", "closing", "unloading"} =>
                               leaseState[r] \in {"open", "closing", "unloading"}
    BY <1>g4 DEF TypeOK, ReleaseDone
  <2>1. LeaseInv'
    BY <1>g4, <2>a, <2>b DEF LeaseInv, ReleaseDone, Published
  <2>2. ClaimInv'
    BY <1>g4, <2>a DEF ClaimInv, ReleaseDone
  <2>3. DrainInv'
    BY <1>g4 DEF TypeOK, DrainInv, NoGen, ReleaseDone
  <2> QED BY <1>g4, <2>1, <2>2, <2>3, <1>t DEF LockInv, FreshInv, Published, TaskInv, ActiveInv, RetiredInv, ReleaseDone
<1>h1. ASSUME ShutdownBegin PROVE IInv'
  <2>a. /\ active' = NoGen /\ shuttingDown'
        /\ \A h \in Gens : retired'[h] <=> retired[h] \/ h = active
        /\ \A h \in draining' : h \in draining \/ (h = active /\ h \in Gens)
        /\ UNCHANGED <<native, calls, started, forced, nextGen, leases, lease, leaseState,
                       sdQueue, pc, job>>
    BY <1>h1 DEF TypeOK, ShutdownBegin, NoGen
  <2>b. \A h \in Gens : Published(h)' <=> Published(h)
    BY <2>a DEF Published, NoGen
  <2>1. FreshInv'
    BY <2>a, <2>b DEF FreshInv
  <2>2. TaskInv'
    BY <2>a, <2>b, JobUpdate DEF TypeOK, TaskInv, NoGen
  <2>3. ActiveInv'
    BY <2>a DEF ActiveInv
  <2>4. RetiredInv'
    BY <2>a DEF RetiredInv, ActiveInv, NoGen
  <2>5. LeaseInv'
    BY <2>a, <2>b DEF LeaseInv, Holders
  <2>6. DrainInv'
    BY <1>h1, <2>a DEF TypeOK, DrainInv, ShutdownBegin
  <2> QED BY <1>h1, <2>1, <2>2, <2>3, <2>4, <2>5, <2>6, <1>t DEF LockInv, ClaimInv, Holders, ShutdownBegin
<1>h2. ASSUME ShutdownCapture PROVE IInv'
  <2>1. DrainInv'
    BY <1>h2 DEF TypeOK, DrainInv, NoGen, ShutdownCapture
  <2> QED BY <1>h2, <2>1, <1>t DEF LockInv, FreshInv, Published, TaskInv, ActiveInv, RetiredInv, LeaseInv, Holders, ClaimInv, ShutdownCapture
<1>h3. ASSUME ShutdownDrain PROVE IInv'
  <2>p. PICK g \in Gens : /\ Oldest(g) /\ Claim(g)
                         /\ forced' = [forced EXCEPT ![g] = @ \/ (leases[g] > 0 /\ ~started[g])]
    BY <1>h3 DEF ShutdownDrain
  <2>a. g \in sdQueue /\ retired[g]
    BY <2>p DEF Oldest, DrainInv
  <2>b. /\ Claim(g) /\ \A h \in Gens : forced'[h] <=> forced[h] \/ (h = g /\ leases[g] > 0 /\ ~started[g])
        /\ UNCHANGED <<active, retired, nextGen, lease, leaseState, leases, pc, job, prepareLock,
                       draining, sdQueue, shuttingDown>>
    BY <1>h3, <2>p DEF TypeOK, ShutdownDrain
  <2>1. /\ FreshInv' /\ ActiveInv' /\ RetiredInv'
        /\ \A h \in Gens : /\ started'[h] <=> h = g \/ started[h]
                           /\ ~retired[h] => native'[h] = native[h] /\ calls'[h] = calls[h]
    BY <2>a, <2>b, ClaimEffect
  <2>2. LockInv' /\ LeaseInv'
    BY <2>b DEF LockInv, LeaseInv, Holders, Published
  <2>3. TaskInv'
    BY <2>b, <2>1, ClaimTask
  <2>4. ClaimInv'
    <3>1. leases[g] = 0 => Holders(g) = {}
      BY <2>a, HoldersFinite, FS_EmptySet DEF LeaseInv
    <3>2. leases[g] \in Nat
      BY <2>a DEF TypeOK
    <3> QED BY <2>a, <2>b, <2>1, <3>1, <3>2 DEF ClaimInv, Holders
  <2>5. DrainInv'
    BY <1>h3, <2>a, <2>b DEF DrainInv, ShutdownDrain
  <2> QED BY <1>t, <2>1, <2>2, <2>3, <2>4, <2>5
<1>h4. ASSUME ShutdownNext PROVE IInv'
  <2>1. DrainInv'
    BY <1>h4 DEF TypeOK, DrainInv, NoGen, ShutdownNext
  <2> QED BY <1>h4, <2>1, <1>t DEF LockInv, FreshInv, Published, TaskInv, ActiveInv, RetiredInv, LeaseInv, Holders, ClaimInv, ShutdownNext
<1>h5. ASSUME ShutdownEnd PROVE IInv'
  <2>1. DrainInv'
    BY <1>h5 DEF TypeOK, DrainInv, NoGen, ShutdownEnd
  <2> QED BY <1>h5, <2>1, <1>t DEF LockInv, FreshInv, Published, TaskInv, ActiveInv, RetiredInv, LeaseInv, Holders, ClaimInv, ShutdownEnd
<1>i1. CASE UNCHANGED vars
  BY <1>i1, <1>t DEF vars, LockInv, FreshInv, TaskInv, ActiveInv, RetiredInv, LeaseInv,
     ClaimInv, DrainInv, Published, Holders
<1> QED
  BY <1>a1, <1>a2, <1>a3, <1>b1, <1>b2, <1>b3, <1>c1, <1>c2, <1>c3, <1>c4, <1>c5, <1>c6, <1>c7, <1>c8, <1>c9, <1>d1, <1>d2, <1>d3, <1>d4, <1>e1, <1>e2, <1>e3, <1>e4, <1>e5, <1>e6, <1>e7, <1>g1, <1>g2, <1>g3, <1>g4, <1>h1, <1>h2, <1>h3, <1>h4, <1>h5, <1>i1
  DEF Next, RuntimeNext, Native, Calls, TaskStep, Cancel, LeaseStep, ShutdownStep

-----------------------------------------------------------------------------
(* Admission: what _status and the settings in memory promise.              *)

\* _status promises a current generation exactly when there is one.
StatusInv ==
    /\ Accepts(status) <=> active # NoGen
    /\ Accepts(status) => status.current = active
    /\ shuttingDown => status.kind = "stopping"

\* The settings in memory are those of the active generation.
SettingsInv ==
    IF active # NoGen THEN memory = config[active] ELSE shuttingDown \/ memory = InitialConfig

\* What a task is about to publish is what its generation was prepared from;
\* `start` publishes a generation only where there was none.
Want(t) ==
    /\ pc[t] # "idle" /\ job[t].kind = "initial" => job[t].want = InitialConfig
    /\ pc[t] \in Candidate => /\ config[job[t].gen] = job[t].want
                              /\ job[t].kind = "initial" => active = NoGen
    /\ pc[t] \in {"samePersist", "samePublish"} =>
           shuttingDown \/ (active # NoGen /\ config[active] = job[t].want)
WantInv == \A t \in Tasks : Want(t)

AdmissionInv == StatusInv /\ SettingsInv /\ WantInv

LEMMA OutcomeKeeps ==
    ASSUME IInv, StatusInv, NEW o, status' = OutcomeStatus(o), UNCHANGED <<active, shuttingDown>>
    PROVE  StatusInv'
BY DEF IInv, TypeOK, StatusInv, OutcomeStatus, StatusOf, Accepts

LEMMA StatusStep == IInv /\ StatusInv /\ [Next]_vars => StatusInv'
<1> SUFFICES ASSUME IInv, StatusInv, [Next]_vars PROVE StatusInv'
  OBVIOUS
<1>1. CASE UNCHANGED <<status, active, shuttingDown>>
  BY <1>1 DEF StatusInv
<1>2. ASSUME NEW g \in Gens, Progress(g) PROVE StatusInv'
  <2>1. /\ status'.kind = status.kind /\ status'.current = status.current
        /\ UNCHANGED <<active, shuttingDown>>
    BY <1>2 DEF IInv, TypeOK, Statuses, Progress
  <2> QED BY <2>1 DEF StatusInv, Accepts
<1>3. ASSUME NEW t \in Tasks, AdmitNew(t) PROVE StatusInv'
  BY <1>3 DEF AdmitNew, StatusInv, StatusOf, Accepts
<1>4. ASSUME NEW t \in Tasks, SamePublish(t) PROVE StatusInv'
  BY <1>4 DEF SamePublish, StatusInv, StatusOf, Accepts
<1>5. ASSUME NEW t \in Tasks, Activate(t) PROVE StatusInv'
  <2>1. job[t].gen # NoGen
    BY <1>5 DEF IInv, TaskInv, Activate, Candidate, Gens, NoGen
  <2>2. CASE shuttingDown
    BY <1>5, <2>2 DEF Activate, StatusInv
  <2>3. CASE ~shuttingDown
    BY <1>5, <2>1, <2>3 DEF Activate, StatusInv, StatusOf, Accepts
  <2> QED BY <2>2, <2>3
<1>6. CASE ShutdownBegin
  BY <1>6 DEF ShutdownBegin, StatusInv, StatusOf, Accepts
<1>7. ASSUME NEW t \in Tasks, PrepareReturns(t) \/ JoinNative(t) \/ DiscardDone(t)
                              \/ CancelPrepareLate(t) \/ CancelRetire(t)
      PROVE  StatusInv'
  <2>1. UNCHANGED <<status, active, shuttingDown>>
        \/ \E o : status' = OutcomeStatus(o) /\ UNCHANGED <<active, shuttingDown>>
    BY <1>7 DEF PrepareReturns, JoinNative, DiscardDone, CancelPrepareLate, CancelRetire
  <2> QED BY <1>1, <2>1, OutcomeKeeps
<1>8. ASSUME NEW t \in Tasks,
             \/ Start(t) \/ \E c \in Configs : PrepareAndActivate(t, c) \/ Schedule(t, c)
             \/ AdmitNothing(t) \/ AdmitSame(t) \/ SamePersist(t) \/ Persist(t) \/ Retire(t)
             \/ UnloadOldDone(t) \/ WaitOldDone(t) \/ CancelQueued(t) \/ CancelUnstarted(t)
             \/ CancelPrepare(t) \/ CancelDiscard(t) \/ CancelFailing(t)
      PROVE  StatusInv'
  BY <1>1, <1>8
     DEF Start, PrepareAndActivate, Schedule, Call, AdmitNothing, AdmitSame, SamePersist, Persist,
         Retire, UnloadOldDone, WaitOldDone, CancelQueued, CancelUnstarted, CancelPrepare,
         CancelDiscard, CancelFailing, coreVars, runtimeVars
<1>9. ASSUME \/ \E g \in Gens : NativeLoad(g) \/ NativeUnload(g)
             \/ \E s \in Sessions : \/ OpenSession(s) \/ CloseLease(s) \/ Release(s)
                                    \/ ReleaseDone(s)
             \/ ShutdownStep \/ UNCHANGED vars
      PROVE  StatusInv'
  BY <1>1, <1>9
     DEF NativeLoad, NativeUnload, OpenSession, CloseLease, Release, ReleaseDone, ShutdownStep,
         ShutdownCapture, ShutdownDrain, ShutdownNext, ShutdownEnd, vars, coreVars, runtimeVars
<1> QED BY <1>2, <1>3, <1>4, <1>5, <1>6, <1>7, <1>8, <1>9
        DEF Next, RuntimeNext, Native, Calls, TaskStep, Cancel, LeaseStep

LEMMA SettingsStep == IInv /\ SettingsInv /\ WantInv /\ [Next]_vars => SettingsInv'
<1> SUFFICES ASSUME IInv, SettingsInv, WantInv, [Next]_vars PROVE SettingsInv'
  OBVIOUS
<1>1. CASE UNCHANGED <<active, shuttingDown, memory, config>>
  BY <1>1 DEF SettingsInv
<1>2. ASSUME NEW t \in Tasks, AdmitNew(t) PROVE SettingsInv'
  <2>1. active # NoGen => active # nextGen'
    BY <1>2 DEF IInv, TypeOK, FreshInv, Published, AdmitNew, NoGen
  <2> QED BY <1>2, <2>1 DEF AdmitNew, SettingsInv, hookVars, outerVars, IInv, TypeOK, NoGen
<1>3. ASSUME NEW t \in Tasks, SamePublish(t) PROVE SettingsInv'
  BY <1>3 DEF SamePublish, SettingsInv, WantInv, Want, modelVars, genVars
<1>4. ASSUME NEW t \in Tasks, Activate(t) PROVE SettingsInv'
  <2>1. /\ job[t].gen # NoGen /\ config[job[t].gen] = job[t].want
        /\ job[t].kind = "initial" => active = NoGen /\ job[t].want = InitialConfig
    BY <1>4 DEF IInv, TaskInv, WantInv, Want, Activate, Candidate, Gens, NoGen
  <2>2. CASE shuttingDown
    BY <1>4, <2>2 DEF Activate, SettingsInv
  <2>3. CASE ~shuttingDown
    BY <1>4, <2>1, <2>3 DEF Activate, SettingsInv
  <2> QED BY <2>2, <2>3
<1>5. CASE ShutdownBegin
  BY <1>5 DEF ShutdownBegin, SettingsInv
<1>6. ASSUME NEW t \in Tasks,
             \/ Start(t) \/ \E c \in Configs : PrepareAndActivate(t, c) \/ Schedule(t, c)
             \/ AdmitNothing(t) \/ AdmitSame(t) \/ SamePersist(t) \/ Persist(t) \/ Retire(t)
             \/ PrepareReturns(t) \/ JoinNative(t) \/ DiscardDone(t)
             \/ UnloadOldDone(t) \/ WaitOldDone(t) \/ Cancel(t)
      PROVE  SettingsInv'
  BY <1>1, <1>6
     DEF Start, PrepareAndActivate, Schedule, Call, AdmitNothing, AdmitSame, SamePersist, Persist,
         Retire, PrepareReturns, JoinNative, DiscardDone, UnloadOldDone, WaitOldDone, Cancel,
         CancelQueued, CancelUnstarted, CancelPrepare, CancelPrepareLate, CancelDiscard,
         CancelFailing, CancelRetire, coreVars, runtimeVars, genVars, modelVars, hookVars, outerVars
<1>7. ASSUME \/ \E g \in Gens : NativeLoad(g) \/ NativeUnload(g) \/ Progress(g)
             \/ \E s \in Sessions : \/ OpenSession(s) \/ CloseLease(s) \/ Release(s)
                                    \/ ReleaseDone(s)
             \/ ShutdownStep \/ UNCHANGED vars
      PROVE  SettingsInv'
  BY <1>1, <1>7
     DEF NativeLoad, NativeUnload, Progress, OpenSession, CloseLease, Release, ReleaseDone,
         ShutdownStep, ShutdownCapture, ShutdownDrain, ShutdownNext, ShutdownEnd, vars, coreVars,
         runtimeVars, genVars, modelVars, hookVars, outerVars
<1> QED BY <1>2, <1>3, <1>4, <1>5, <1>6, <1>7
        DEF Next, RuntimeNext, Native, Calls, TaskStep, LeaseStep

\* A step of task t, which disturbs what other tasks are about to publish no more
\* than the stop of the runtime does.
LEMMA WantOfOthers ==
    ASSUME WantInv, NEW t \in Tasks, Want(t)', UNCHANGED <<active, config, shuttingDown>>,
           \A u \in Tasks : u # t => pc'[u] = pc[u] /\ job'[u] = job[u]
    PROVE  WantInv'
BY DEF WantInv, Want

LEMMA FinishWant ==
    ASSUME IInv, WantInv, NEW t \in Tasks, Finish(t), UNCHANGED <<active, config, shuttingDown>>
    PROVE  WantInv'
<1>1. Want(t)'
  BY FinishEffect DEF IInv, Want, Candidate
<1> QED BY <1>1, WantOfOthers, FinishEffect DEF IInv

\* A candidate that is discarded stays one, with its configuration.
LEMMA MoveWant ==
    ASSUME IInv, WantInv, NEW t \in Tasks, pc[t] \in Candidate, pc' = [pc EXCEPT ![t] = pc'[t]],
           pc'[t] \in Candidate \cup Activated \cup {"idle"},
           UNCHANGED <<active, config, shuttingDown>>,
           job' = job \/ \E o : job' = [job EXCEPT ![t].outcome = o]
    PROVE  WantInv'
<1>1. \A u \in Tasks : u # t => pc'[u] = pc[u] /\ job'[u] = job[u]
  BY DEF IInv, TypeOK
<1>2. job'[t].gen = job[t].gen /\ job'[t].want = job[t].want /\ job'[t].kind = job[t].kind
  BY DEF IInv, TypeOK, Jobs
<1>3. Want(t)'
  BY <1>2 DEF WantInv, Want, Candidate, Activated
<1> QED BY <1>1, <1>3, WantOfOthers

LEMMA WantStep == IInv /\ WantInv /\ [Next]_vars => WantInv'
<1> SUFFICES ASSUME IInv, WantInv, [Next]_vars PROVE WantInv'
  OBVIOUS
<1>1. CASE UNCHANGED <<active, config, shuttingDown, pc, job>>
  BY <1>1 DEF WantInv, Want
<1>2. ASSUME NEW t \in Tasks, NEW k \in {"initial", "direct", "scheduled"}, NEW c \in Configs,
             k = "initial" => c = InitialConfig, Call(t, k, c)
      PROVE  WantInv'
  <2>1. /\ pc'[t] = "queued" /\ job'[t].kind = k /\ job'[t].want = c
        /\ \A u \in Tasks : u # t => pc'[u] = pc[u] /\ job'[u] = job[u]
    BY <1>2 DEF Call, IInv, TypeOK, Jobs, NoJob
  <2>2. Want(t)'
    BY <1>2, <2>1 DEF Want, Candidate
  <2> QED BY <1>2, <2>1, <2>2, WantOfOthers DEF Call, coreVars, modelVars, genVars
<1>3. ASSUME NEW t \in Tasks, AdmitSame(t) PROVE WantInv'
  <2>1. /\ pc'[t] = "samePersist" /\ job' = job
        /\ \A u \in Tasks : u # t => pc'[u] = pc[u]
        /\ active # NoGen /\ config[active] = job[t].want /\ job[t].kind # "initial"
        /\ UNCHANGED <<active, config, shuttingDown>>
    BY <1>3 DEF AdmitSame, SameConfig, IInv, TypeOK, coreVars, modelVars, genVars
  <2>2. Want(t)'
    BY <2>1 DEF Want, Candidate
  <2> QED BY <2>1, <2>2, WantOfOthers
<1>4. ASSUME NEW t \in Tasks, AdmitNew(t) PROVE WantInv'
  <2>1. nextGen' \in Gens /\ nextGen' = nextGen + 1 /\ (active # NoGen => active # nextGen')
    BY <1>4, ConstantsAssumption DEF AdmitNew, IInv, TypeOK, FreshInv, Published, Gens, NoGen
  <2>2. /\ pc'[t] = "prepare" /\ job'[t].gen = nextGen' /\ job'[t].want = job[t].want
        /\ job'[t].kind = job[t].kind /\ pc[t] = "queued"
        /\ \A u \in Tasks : u # t => pc'[u] = pc[u] /\ job'[u] = job[u]
        /\ config' = [config EXCEPT ![nextGen'] = job[t].want]
        /\ UNCHANGED <<active, shuttingDown>>
    BY <1>4 DEF AdmitNew, IInv, TypeOK, Jobs
  <2>3. job[t].kind = "initial" => active = NoGen
    BY <1>4 DEF AdmitNew
  <2>4. Want(t)'
    BY <2>1, <2>2, <2>3 DEF WantInv, Want, IInv, TypeOK
  <2>5. ASSUME NEW u \in Tasks, u # t PROVE Want(u)'
    <3>1. pc[u] \notin Locked
      BY <1>4, ConstantsAssumption DEF AdmitNew, IInv, LockInv
    <3> QED BY <2>2, <2>5, <3>1 DEF WantInv, Want, Locked
  <2> QED BY <2>4, <2>5 DEF WantInv
<1>5. ASSUME NEW t \in Tasks, SamePersist(t) PROVE WantInv'
  <2>1. CASE pc' = [pc EXCEPT ![t] = "samePublish"] /\ UNCHANGED job
    <3>1. /\ pc'[t] = "samePublish" /\ job' = job
          /\ \A u \in Tasks : u # t => pc'[u] = pc[u]
          /\ UNCHANGED <<active, config, shuttingDown>>
      BY <1>5, <2>1 DEF SamePersist, IInv, TypeOK, coreVars, modelVars, genVars
    <3>2. Want(t)'
      BY <1>5, <3>1 DEF SamePersist, WantInv, Want, Candidate
    <3> QED BY <3>1, <3>2, WantOfOthers
  <2> QED BY <1>5, <2>1, FinishWant DEF SamePersist, coreVars, modelVars, genVars
<1>6. ASSUME NEW t \in Tasks, Activate(t) PROVE WantInv'
  <2>1. CASE shuttingDown
    <3>1. pc[t] \in Candidate /\ pc'[t] = "discard" /\ pc' = [pc EXCEPT ![t] = pc'[t]]
      BY <1>6, <2>1 DEF Activate, GoDiscard, Candidate, IInv, TypeOK
    <3> QED BY <1>6, <2>1, <3>1, MoveWant DEF Activate, GoDiscard, Candidate
  <2>2. CASE ~shuttingDown
    <3>1. /\ pc'[t] = "retire" /\ job'[t].want = job[t].want /\ job'[t].kind = job[t].kind
          /\ \A u \in Tasks : u # t => pc'[u] = pc[u] /\ job'[u] = job[u]
          /\ UNCHANGED <<config, shuttingDown>>
      BY <1>6, <2>2 DEF Activate, IInv, TypeOK, Jobs
    <3>2. Want(t)'
      BY <1>6, <3>1 DEF Activate, WantInv, Want, Candidate
    <3>3. ASSUME NEW u \in Tasks, u # t PROVE Want(u)'
      <4>1. pc[u] \notin Locked
        BY <1>6, <3>3, Sole DEF Activate, IInv, Locked, Candidate
      <4> QED BY <3>1, <3>3, <4>1 DEF WantInv, Want, Locked
    <3> QED BY <3>2, <3>3 DEF WantInv
  <2> QED BY <2>1, <2>2
<1>7. ASSUME NEW t \in Tasks, Retire(t) PROVE WantInv'
  <2>1. CASE Finish(t)
    BY <1>7, <2>1, FinishWant DEF Retire, coreVars
  <2>2. CASE pc'[t] \in {"waitOld", "unloadOld"} /\ pc' = [pc EXCEPT ![t] = pc'[t]] /\ job' = job
    <3>1. Want(t)'
      BY <1>7, <2>2 DEF Retire, WantInv, Want, Candidate
    <3>2. \A u \in Tasks : u # t => pc'[u] = pc[u]
      BY <2>2 DEF IInv, TypeOK
    <3> QED BY <1>7, <2>2, <3>1, <3>2, WantOfOthers DEF Retire, coreVars
  <2> QED BY <1>7, <2>1, <2>2 DEF Retire, IInv, TypeOK
<1>8. CASE ShutdownBegin
  <2>1. ASSUME NEW t \in Tasks PROVE Want(t)'
    BY <1>8 DEF ShutdownBegin, WantInv, Want, taskVars, modelVars, genVars
  <2> QED BY <2>1 DEF WantInv
<1>9. ASSUME NEW t \in Tasks,
             \/ AdmitNothing(t) \/ SamePublish(t) \/ UnloadOldDone(t) \/ WaitOldDone(t)
             \/ DiscardDone(t) \/ CancelQueued(t) \/ CancelPrepareLate(t) \/ CancelFailing(t)
             \/ CancelRetire(t)
      PROVE  WantInv'
  BY <1>9, FinishWant
     DEF AdmitNothing, SamePublish, UnloadOldDone, WaitOldDone, DiscardDone, CancelQueued,
         CancelPrepareLate, CancelFailing, CancelRetire, coreVars, modelVars, genVars
<1>10. ASSUME NEW t \in Tasks,
              PrepareReturns(t) \/ JoinNative(t) \/ Persist(t) \/ CancelPrepare(t) \/ CancelDiscard(t)
       PROVE  WantInv'
  <2>1. UNCHANGED <<active, config, shuttingDown>> /\ pc[t] \in Candidate
    BY <1>10 DEF PrepareReturns, JoinNative, Persist, CancelPrepare, CancelDiscard, Candidate,
       coreVars, runtimeVars, genVars, modelVars
  <2>2. \/ Finish(t)
        \/ \E p \in Candidate : pc' = [pc EXCEPT ![t] = p]
                                /\ (job' = job \/ \E o : job' = [job EXCEPT ![t].outcome = o])
    BY <1>10 DEF PrepareReturns, JoinNative, Persist, CancelPrepare, CancelDiscard, GoDiscard,
       Candidate
  <2>3. ASSUME NEW p \in Candidate, pc' = [pc EXCEPT ![t] = p],
               job' = job \/ \E o : job' = [job EXCEPT ![t].outcome = o]
        PROVE  WantInv'
    <3>1. pc'[t] = p
      BY <2>3 DEF IInv, TypeOK
    <3> QED BY <2>1, <2>3, <3>1, MoveWant
  <2> QED BY <2>1, <2>2, <2>3, FinishWant
<1>11. ASSUME NEW t \in Tasks, CancelUnstarted(t) PROVE WantInv'
  <2>1. pc'[t] = "idle" /\ \A u \in Tasks : u # t => pc'[u] = pc[u] /\ job'[u] = job[u]
    BY <1>11 DEF CancelUnstarted, IInv, TypeOK
  <2>2. Want(t)'
    BY <2>1 DEF Want, Candidate
  <2> QED BY <1>11, <2>1, <2>2, WantOfOthers DEF CancelUnstarted, coreVars, runtimeVars, genVars, modelVars
<1>12. ASSUME \/ \E g \in Gens : NativeLoad(g) \/ NativeUnload(g) \/ Progress(g)
              \/ \E s \in Sessions : \/ OpenSession(s) \/ CloseLease(s) \/ Release(s)
                                     \/ ReleaseDone(s)
              \/ ShutdownStep \/ UNCHANGED vars
       PROVE  WantInv'
  BY <1>1, <1>12
     DEF NativeLoad, NativeUnload, Progress, OpenSession, CloseLease, Release, ReleaseDone,
         ShutdownStep, ShutdownCapture, ShutdownDrain, ShutdownNext, ShutdownEnd, vars, coreVars,
         runtimeVars, genVars, modelVars, taskVars
<1>13. ASSUME NEW t \in Tasks, Start(t) \/ \E c \in Configs : PrepareAndActivate(t, c) \/ Schedule(t, c)
       PROVE  WantInv'
  BY <1>2, <1>13, ConstantsAssumption DEF Start, PrepareAndActivate, Schedule
<1> QED BY <1>3, <1>4, <1>5, <1>6, <1>7, <1>8, <1>9, <1>10, <1>11, <1>12, <1>13
        DEF Next, RuntimeNext, Native, Calls, TaskStep, Cancel, LeaseStep

-----------------------------------------------------------------------------
(* Shutdown: whatever is loaded, loading or unloading has an owner that the  *)
(* shutdown joins.                                                          *)

Busy == {"loading", "loaded", "unloading"}

\* A preparation that got past the lock is the one shutdown joins, so that once
\* it has been joined nobody prepares or retires, and only what shutdown
\* captured is left to drain.
ShutdownInv ==
    /\ sd = "idle" <=> ~shuttingDown
    /\ sd = "done" => sdQueue = {}
    /\ sd \notin {"idle", "join"} => draining \subseteq sdQueue
    /\ sd = "unload" => \A g \in Gens : Oldest(g) => started[g]
    /\ \A t \in Tasks : pc[t] \in Candidate \cup Activated =>
           preparationTask = t /\ (sd = "idle" \/ (sd = "join" /\ sdJoin = t))

\* A generation is complete only after its native shutdown was claimed, and is
\* then no longer drained.
CompleteInv ==
    /\ \A s \in Sessions : leaseState[s] = "unloading" => started[lease[s]]
    /\ \A g \in Gens : complete[g] => started[g] /\ g \notin draining

\* Who will see generation g unloaded.
Owner(t, g) == \/ pc[t] \in Candidate /\ job[t].gen = g
               \/ pc[t] \in {"retire", "unloadOld"} /\ job[t].old = g
Owned(g) == g = active \/ g \in draining \/ \E t \in Tasks : Owner(t, g)

\* Unless a task was cancelled: a discarded candidate is unloaded by the one call
\* its task waits for, the replacing task leaves an old generation only to a
\* drain or unloaded, and nothing busy is without an owner.
DiscardInv == \A t \in Tasks : pc[t] = "discard" => calls[job[t].gen] = 1
RetireInv ==
    \A t \in Tasks :
        pc[t] = "retire" /\ job[t].old # NoGen /\ job[t].old \notin draining =>
            native[job[t].old] = "unloaded" \/ (leases[job[t].old] = 0 /\ ~started[job[t].old])
BusyInv == \A g \in Gens : native[g] \in Busy => Owned(g)
Joined == DiscardInv /\ RetireInv /\ BusyInv
OwnerInv == cancels = 0 => Joined

JoinInv == ShutdownInv /\ CompleteInv /\ OwnerInv

\* A step that lets nobody past the lock and drains nothing more.
LEMMA ShutdownQuiet ==
    ASSUME ShutdownInv, UNCHANGED <<sd, sdJoin, sdQueue, shuttingDown, preparationTask>>,
           draining' \subseteq draining \/ sd = "idle",
           \A g \in Gens : started[g] => started'[g],
           \A t \in Tasks : pc'[t] \in Candidate \cup Activated => pc[t] \in Candidate \cup Activated
    PROVE  ShutdownInv'
BY DEF ShutdownInv, Oldest

LEMMA ShutdownFinish ==
    ASSUME IInv, ShutdownInv, NEW t \in Tasks, Finish(t),
           UNCHANGED <<sd, sdJoin, sdQueue, shuttingDown>>, draining' \subseteq draining,
           \A g \in Gens : started[g] => started'[g]
    PROVE  ShutdownInv'
<1>1. \A u \in Tasks : pc'[u] = IF u = t THEN "idle" ELSE pc[u]
  BY FinishEffect DEF IInv
<1>2. \A u \in Tasks : u # t /\ preparationTask = u => preparationTask' = u
  BY DEF Finish
<1>3. ASSUME NEW u \in Tasks, pc'[u] \in Candidate \cup Activated
      PROVE  preparationTask' = u /\ (sd = "idle" \/ (sd = "join" /\ sdJoin = u))
  <2>1. u # t
    BY <1>1, <1>3 DEF Candidate, Activated
  <2> QED BY <1>1, <1>2, <1>3, <2>1 DEF ShutdownInv
<1> QED BY <1>3 DEF ShutdownInv, Oldest

LEMMA ShutdownInvStep == IInv /\ ShutdownInv /\ CompleteInv /\ [Next]_vars => ShutdownInv'
<1> SUFFICES ASSUME IInv, ShutdownInv, CompleteInv, [Next]_vars PROVE ShutdownInv'
  OBVIOUS
<1> USE DEF coreVars, prepVars, runtimeVars, genVars, nativeVars, modelVars, taskVars, leaseVars,
            sdVars, hookVars, outerVars
<1>1. ASSUME NEW t \in Tasks, NEW k, NEW c, Call(t, k, c) PROVE ShutdownInv'
  <2>1. \A u \in Tasks : pc'[u] \in Candidate \cup Activated => pc[u] \in Candidate \cup Activated
    BY <1>1 DEF Call, IInv, TypeOK, Candidate, Activated
  <2> QED BY <1>1, <2>1, ShutdownQuiet DEF Call
<1>2. ASSUME NEW t \in Tasks, AdmitNothing(t) \/ SamePublish(t) \/ WaitOldDone(t) \/ DiscardDone(t)
                              \/ CancelQueued(t) \/ CancelPrepareLate(t) \/ CancelFailing(t)
      PROVE  ShutdownInv'
  BY <1>2, ShutdownFinish
     DEF AdmitNothing, SamePublish, WaitOldDone, DiscardDone, CancelQueued, CancelPrepareLate,
         CancelFailing
<1>3. ASSUME NEW t \in Tasks, UnloadOldDone(t) \/ CancelRetire(t) PROVE ShutdownInv'
  BY <1>3, ShutdownFinish DEF UnloadOldDone, CancelRetire, MarkComplete
<1>4. ASSUME NEW t \in Tasks, AdmitSame(t) \/ SamePersist(t) PROVE ShutdownInv'
  <2>1. Finish(t) \/ \A u \in Tasks :
            pc'[u] \in Candidate \cup Activated => pc[u] \in Candidate \cup Activated
    BY <1>4 DEF AdmitSame, SamePersist, IInv, TypeOK, Candidate, Activated
  <2>2. /\ UNCHANGED <<sd, sdJoin, sdQueue, shuttingDown, draining, started>>
        /\ Finish(t) \/ UNCHANGED preparationTask
    BY <1>4 DEF AdmitSame, SamePersist
  <2> QED BY <2>1, <2>2, ShutdownFinish, ShutdownQuiet
<1>5. ASSUME NEW t \in Tasks, AdmitNew(t) PROVE ShutdownInv'
  <2>1. sd = "idle" /\ sd' = "idle" /\ preparationTask' = t
    BY <1>5 DEF AdmitNew, ShutdownInv
  <2>2. \A u \in Tasks : pc'[u] \in Candidate \cup Activated => u = t
    <3>1. \A u \in Tasks : pc[u] \notin Locked
      BY <1>5, ConstantsAssumption DEF AdmitNew, IInv, LockInv
    <3> QED BY <1>5, <3>1 DEF AdmitNew, IInv, TypeOK, Locked
  <2> QED BY <1>5, <2>1, <2>2 DEF AdmitNew, ShutdownInv
<1>6. ASSUME NEW t \in Tasks, PrepareReturns(t) \/ JoinNative(t) \/ Persist(t) \/ CancelPrepare(t)
                              \/ CancelDiscard(t) \/ CancelUnstarted(t)
      PROVE  ShutdownInv'
  <2>1. Finish(t) \/ \A u \in Tasks :
            pc'[u] \in Candidate \cup Activated => pc[u] \in Candidate \cup Activated
    BY <1>6 DEF PrepareReturns, JoinNative, Persist, CancelPrepare, CancelDiscard, CancelUnstarted,
       GoDiscard, IInv, TypeOK, Candidate, Activated
  <2>2. /\ UNCHANGED <<sd, sdJoin, sdQueue, shuttingDown, draining, started>>
        /\ Finish(t) \/ UNCHANGED preparationTask
    BY <1>6 DEF PrepareReturns, JoinNative, Persist, CancelPrepare, CancelDiscard, CancelUnstarted
  <2> QED BY <2>1, <2>2, ShutdownFinish, ShutdownQuiet
<1>7. ASSUME NEW t \in Tasks, Activate(t) PROVE ShutdownInv'
  <2>1. \A u \in Tasks : pc'[u] \in Candidate \cup Activated => pc[u] \in Candidate \cup Activated
    BY <1>7 DEF Activate, GoDiscard, IInv, TypeOK, Candidate
  <2>2. draining' \subseteq draining \/ sd = "idle"
    BY <1>7 DEF Activate, ShutdownInv
  <2> QED BY <1>7, <2>1, <2>2, ShutdownQuiet DEF Activate
<1>8. ASSUME NEW t \in Tasks, Retire(t) PROVE ShutdownInv'
  <2>1. \A g \in Gens : started[g] => started'[g]
    BY <1>8 DEF Retire, Claim, IInv, TypeOK
  <2>2. CASE Finish(t)
    BY <1>8, <2>1, <2>2, ShutdownFinish DEF Retire
  <2>3. CASE UNCHANGED preparationTask /\ \E p \in Activated : pc' = [pc EXCEPT ![t] = p]
    <3>1. \A u \in Tasks :
              pc'[u] \in Candidate \cup Activated => pc[u] \in Candidate \cup Activated
      BY <1>8, <2>3 DEF Retire, IInv, TypeOK, Activated
    <3> QED BY <1>8, <2>1, <2>3, <3>1, ShutdownQuiet DEF Retire
  <2> QED BY <1>8, <2>2, <2>3 DEF Retire, Activated
<1>9. ASSUME \/ \E g \in Gens : NativeLoad(g) \/ NativeUnload(g) \/ Progress(g)
             \/ \E s \in Sessions : OpenSession(s) \/ CloseLease(s) \/ Release(s) \/ ReleaseDone(s)
             \/ UNCHANGED vars
      PROVE  ShutdownInv'
  <2>1. \A g \in Gens : started[g] => started'[g]
    BY <1>9 DEF NativeLoad, NativeUnload, Progress, OpenSession, CloseLease, Release, ReleaseDone,
       Claim, vars, IInv, TypeOK
  <2>2. /\ UNCHANGED <<sd, sdJoin, sdQueue, shuttingDown, preparationTask, pc>>
        /\ draining' \subseteq draining
    BY <1>9 DEF NativeLoad, NativeUnload, Progress, OpenSession, CloseLease, Release, ReleaseDone,
       MarkComplete, vars
  <2> QED BY <2>1, <2>2, ShutdownQuiet
<1>10. CASE ShutdownBegin
  BY <1>10 DEF ShutdownBegin, ShutdownInv
<1>11. CASE ShutdownCapture
  <2>1. \A t \in Tasks : pc[t] \notin Candidate \cup Activated
    <3>1. \A t \in Tasks : t # None
      BY ConstantsAssumption
    <3> QED BY <1>11, <3>1 DEF ShutdownCapture, PreparationJoined, ShutdownInv, Candidate, Activated
  <2> QED BY <1>11, <2>1 DEF ShutdownCapture, ShutdownInv
<1>12. CASE ShutdownDrain
  <2>1. PICK g \in Gens : Oldest(g) /\ Claim(g)
    BY <1>12 DEF ShutdownDrain
  <2>2. started'[g] /\ \A h \in Gens : started[h] => started'[h]
    BY <2>1 DEF Claim, IInv, TypeOK
  <2>3. \A h \in Gens : Oldest(h)' => h = g
    BY <1>12, <2>1, ConstantsAssumption DEF ShutdownDrain, Oldest, Gens
  <2> QED BY <1>12, <2>2, <2>3 DEF ShutdownDrain, ShutdownInv
<1>13. CASE ShutdownNext
  <2>1. PICK g \in Gens : /\ Oldest(g) /\ sdQueue' = sdQueue \ {g}
                         /\ IF sd = "unload" THEN MarkComplete(g)
                            ELSE complete[g] /\ UNCHANGED draining
    BY <1>13 DEF ShutdownNext
  <2>2. draining' \subseteq sdQueue'
    BY <1>13, <2>1 DEF ShutdownNext, MarkComplete, ShutdownInv, CompleteInv
  <2> QED BY <1>13, <2>2 DEF ShutdownNext, ShutdownInv
<1>14. CASE ShutdownEnd
  BY <1>14 DEF ShutdownEnd, ShutdownInv
<1> QED BY <1>1, <1>2, <1>3, <1>4, <1>5, <1>6, <1>7, <1>8, <1>9, <1>10, <1>11, <1>12, <1>13, <1>14
        DEF Next, RuntimeNext, Native, Calls, Start, PrepareAndActivate, Schedule, TaskStep, Cancel,
            LeaseStep, ShutdownStep

\* A step that reports no completion and drains at most the active generation.
LEMMA CompleteQuiet ==
    ASSUME IInv, CompleteInv, UNCHANGED complete, draining' \subseteq draining \cup {active},
           \A g \in Gens : started[g] => started'[g],
           \A s \in Sessions : leaseState'[s] = "unloading" =>
               /\ lease'[s] \in Gens
               /\ \/ started'[lease'[s]]
                  \/ leaseState[s] = "unloading" /\ lease'[s] = lease[s]
    PROVE  CompleteInv'
<1>1. ASSUME NEW g \in Gens, complete[g] PROVE g # active
  BY <1>1 DEF CompleteInv, IInv, ActiveInv, RetiredInv, Gens, NoGen
<1> QED BY <1>1 DEF CompleteInv

\* A step that reports a claimed native shutdown complete.
LEMMA CompleteMark ==
    ASSUME IInv, CompleteInv, NEW g \in Gens, MarkComplete(g), started[g], UNCHANGED <<started, lease>>,
           \A s \in Sessions : leaseState'[s] = "unloading" => leaseState[s] = "unloading"
    PROVE  CompleteInv'
BY DEF CompleteInv, MarkComplete, IInv, TypeOK

LEMMA CompleteStep == IInv /\ ShutdownInv /\ CompleteInv /\ [Next]_vars => CompleteInv'
<1> SUFFICES ASSUME IInv, ShutdownInv, CompleteInv, [Next]_vars PROVE CompleteInv'
  OBVIOUS
<1> USE DEF coreVars, prepVars, runtimeVars, genVars, nativeVars, modelVars, taskVars, leaseVars,
            sdVars, hookVars, outerVars
<1>0. \A s \in Sessions : leaseState[s] = "unloading" => lease[s] \in Gens
  BY DEF IInv, LeaseInv
<1>1. ASSUME \/ \E g \in Gens : NativeLoad(g) \/ NativeUnload(g) \/ Progress(g)
             \/ \E t \in Tasks : \/ \E k, c : Call(t, k, c)
                                 \/ AdmitNothing(t) \/ AdmitSame(t) \/ AdmitNew(t)
                                 \/ SamePersist(t) \/ SamePublish(t) \/ PrepareReturns(t)
                                 \/ Persist(t) \/ WaitOldDone(t) \/ DiscardDone(t) \/ JoinNative(t)
                                 \/ CancelQueued(t) \/ CancelUnstarted(t) \/ CancelPrepare(t)
                                 \/ CancelPrepareLate(t) \/ CancelDiscard(t) \/ CancelFailing(t)
             \/ ShutdownCapture \/ ShutdownEnd \/ UNCHANGED vars
      PROVE  CompleteInv'
  <2>1. UNCHANGED <<complete, draining, started, lease, leaseState>>
    BY <1>1, ZenonT(60) DEF NativeLoad, NativeUnload, Progress, Call, AdmitNothing, AdmitSame, AdmitNew,
       SamePersist, SamePublish, PrepareReturns, Persist, WaitOldDone, DiscardDone, JoinNative,
       CancelQueued, CancelUnstarted, CancelPrepare, CancelPrepareLate, CancelDiscard,
       CancelFailing, ShutdownCapture, ShutdownEnd, vars
  <2> QED BY <2>1 DEF CompleteInv
<1>2. ASSUME \/ \E t \in Tasks : Activate(t) \/ Retire(t)
             \/ ShutdownBegin \/ ShutdownDrain
      PROVE  CompleteInv'
  <2>1. UNCHANGED <<complete, lease, leaseState>> /\ draining' \subseteq draining \cup {active}
    BY <1>2 DEF Activate, Retire, ShutdownBegin, ShutdownDrain
  <2>2. \A g \in Gens : started[g] => started'[g]
    BY <1>2 DEF Activate, Retire, ShutdownBegin, ShutdownDrain, Claim, IInv, TypeOK
  <2> QED BY <1>0, <2>1, <2>2, CompleteQuiet
<1>3. ASSUME NEW t \in Tasks, UnloadOldDone(t) \/ CancelRetire(t) PROVE CompleteInv'
  <2>1. UNCHANGED <<started, lease, leaseState>>
    BY <1>3 DEF UnloadOldDone, CancelRetire
  <2>2. CASE UNCHANGED <<draining, complete>>
    BY <2>1, <2>2 DEF CompleteInv
  <2>3. CASE pc[t] = "unloadOld" /\ MarkComplete(job[t].old)
    <3>1. job[t].old \in Gens /\ started[job[t].old]
      BY <2>3, JobUpdate DEF IInv, TypeOK, TaskInv
    <3> QED BY <2>1, <2>3, <3>1, CompleteMark
  <2> QED BY <1>3, <2>2, <2>3 DEF UnloadOldDone, CancelRetire
<1>4. ASSUME NEW s \in Sessions, OpenSession(s) \/ CloseLease(s) PROVE CompleteInv'
  <2>1. \A r \in Sessions : leaseState'[r] = "unloading" =>
            leaseState[r] = "unloading" /\ lease'[r] = lease[r]
    BY <1>4 DEF OpenSession, CloseLease, IInv, TypeOK
  <2>2. UNCHANGED <<complete, draining, started>>
    BY <1>4 DEF OpenSession, CloseLease
  <2> QED BY <2>1, <2>2 DEF CompleteInv
<1>5. ASSUME NEW s \in Sessions, Release(s) PROVE CompleteInv'
  <2>1. lease[s] \in Gens /\ UNCHANGED <<complete, draining, lease>>
    BY <1>5 DEF Release, IInv, LeaseInv
  <2>2. \A g \in Gens : started[g] => started'[g]
    BY <1>5 DEF Release, Claim, IInv, TypeOK
  <2>3. leaseState'[s] = "unloading" => started'[lease[s]]
    BY <1>5, <2>1 DEF Release, Claim, LastRelease, IInv, TypeOK
  <2>4. \A r \in Sessions \ {s} : leaseState'[r] = leaseState[r]
    BY <1>5 DEF Release, IInv, TypeOK
  <2> QED BY <1>0, <2>1, <2>2, <2>3, <2>4, CompleteQuiet
<1>6. ASSUME NEW s \in Sessions, ReleaseDone(s) PROVE CompleteInv'
  <2>1. lease[s] \in Gens /\ started[lease[s]]
    BY <1>0, <1>6 DEF ReleaseDone, CompleteInv
  <2>2. \A r \in Sessions : leaseState'[r] = "unloading" => leaseState[r] = "unloading"
    BY <1>6 DEF ReleaseDone, IInv, TypeOK
  <2> QED BY <1>6, <2>1, <2>2, CompleteMark DEF ReleaseDone
<1>7. CASE ShutdownNext
  <2>1. PICK g \in Gens : /\ Oldest(g)
                         /\ \/ sd = "unload" /\ MarkComplete(g)
                            \/ UNCHANGED <<draining, complete>>
    BY <1>7 DEF ShutdownNext
  <2>2. UNCHANGED <<started, lease, leaseState>>
    BY <1>7 DEF ShutdownNext
  <2>3. CASE sd = "unload" /\ MarkComplete(g)
    BY <2>1, <2>2, <2>3, CompleteMark DEF ShutdownInv
  <2> QED BY <2>1, <2>2, <2>3 DEF CompleteInv
<1> QED BY <1>1, <1>2, <1>3, <1>4, <1>5, <1>6, <1>7
        DEF Next, RuntimeNext, Native, Calls, Start, PrepareAndActivate, Schedule, TaskStep, Cancel,
            LeaseStep, ShutdownStep

\* A step that claims nothing and takes nothing busy from its owner.
LEMMA OwnerQuiet ==
    ASSUME IInv, Joined, UNCHANGED <<active, draining, calls, leases, started>>,
           \A g \in Gens : /\ native[g] = "unloaded" => native'[g] = "unloaded"
                           /\ native'[g] \in Busy => native[g] \in Busy,
           \A u \in Tasks : /\ pc'[u] \in {"discard", "retire"} =>
                                  pc[u] = pc'[u] /\ job'[u] = job[u]
                            /\ \A g \in Gens : Owner(u, g) => Owner(u, g)'
    PROVE  Joined'
<1>1. DiscardInv'
  BY DEF Joined, DiscardInv
<1>2. RetireInv'
  <2> SUFFICES ASSUME NEW u \in Tasks, pc'[u] = "retire", job'[u].old # NoGen,
                      job'[u].old \notin draining'
               PROVE  native'[job'[u].old] = "unloaded" \/ (leases'[job'[u].old] = 0 /\ ~started'[job'[u].old])
    BY DEF RetireInv
  <2>1. pc[u] = "retire" /\ job'[u] = job[u] /\ job[u].old \in Gens
    BY JobUpdate DEF IInv, TypeOK
  <2> QED BY <2>1 DEF Joined, RetireInv
<1>3. BusyInv'
  BY DEF Joined, BusyInv, Owned
<1> QED BY <1>1, <1>2, <1>3 DEF Joined

\* A task ends without leaving behind anything busy that nobody else owns.
LEMMA FinishOwner ==
    ASSUME IInv, Joined, NEW t \in Tasks, Finish(t),
           UNCHANGED <<active, native, calls, leases, started>>, draining' \subseteq draining,
           \A g \in draining \ draining' : native[g] = "unloaded",
           \A g \in Gens : Owner(t, g) /\ native[g] \in Busy => g \in draining
    PROVE  Joined'
<1>1. \A u \in Tasks : /\ pc'[u] = IF u = t THEN "idle" ELSE pc[u]
                       /\ u # t => job'[u] = job[u]
  BY FinishEffect DEF IInv
<1>2. DiscardInv'
  BY <1>1 DEF Joined, DiscardInv
<1>3. RetireInv'
  BY <1>1 DEF Joined, RetireInv
<1>4. BusyInv'
  <2> SUFFICES ASSUME NEW g \in Gens, native[g] \in Busy PROVE Owned(g)'
    BY DEF BusyInv
  <2>1. CASE g = active \/ g \in draining
    BY <2>1 DEF Owned, Busy
  <2>2. CASE \E u \in Tasks : Owner(u, g)
    <3>1. PICK u \in Tasks : Owner(u, g)
      BY <2>2
    <3>2. CASE u = t
      BY <2>1, <3>1, <3>2
    <3>3. CASE u # t
      BY <1>1, <3>1, <3>3 DEF Owner, Owned
    <3> QED BY <3>2, <3>3
  <2> QED BY <2>1, <2>2 DEF Joined, BusyInv, Owned
<1> QED BY <1>2, <1>3, <1>4 DEF Joined

\* A candidate that is discarded for the first time is unloaded by that call.
LEMMA DiscardOwner ==
    ASSUME IInv, Joined, NEW t \in Tasks, NEW o, GoDiscard(t, o),
           pc[t] \in {"prepare", "joinNative", "persist", "activate"},
           UNCHANGED <<active, draining, leases, started>>
    PROVE  Joined'
<1> DEFINE g == job[t].gen
<1>1. g \in Gens /\ calls[g] = 0 /\ pc[t] \in Locked
  BY DEF IInv, TaskInv, Candidate, Locked
<1>2. \A h \in Gens : /\ calls'[h] = IF h = g THEN calls[h] + 1 ELSE calls[h]
                      /\ native'[h] = IF h = g /\ native[h] = "loaded" THEN "unloading" ELSE native[h]
  BY <1>1, CallEffect DEF IInv, GoDiscard
<1>3. \A u \in Tasks : /\ pc'[u] = IF u = t THEN "discard" ELSE pc[u]
                       /\ job'[u].gen = job[u].gen /\ job'[u].old = job[u].old
  BY DEF IInv, TypeOK, GoDiscard, Jobs
<1>4. DiscardInv'
  <2>1. \A u \in Tasks : pc'[u] = "discard" => u = t
    BY <1>1, <1>3, Sole DEF IInv, Locked, Candidate
  <2> QED BY <1>1, <1>2, <1>3, <2>1 DEF DiscardInv
<1>5. RetireInv'
  <2>1. \A u \in Tasks : pc'[u] # "retire"
    BY <1>1, <1>3, Sole DEF IInv, Locked, Activated
  <2> QED BY <2>1 DEF RetireInv
<1>6. BusyInv'
  <2>1. \A h \in Gens : native'[h] \in Busy => native[h] \in Busy
    BY <1>2 DEF Busy
  <2>2. \A u \in Tasks, h \in Gens : Owner(u, h) => Owner(u, h)'
    BY <1>3 DEF Owner, Candidate
  <2> QED BY <2>1, <2>2 DEF Joined, BusyInv, Owned
<1> QED BY <1>4, <1>5, <1>6 DEF Joined

\* The native side of a claim: whatever it touches was busy before.
LEMMA ClaimBusy ==
    ASSUME IInv, NEW g \in Gens, Claim(g)
    PROVE  \A h \in Gens : /\ native[h] = "unloaded" => native'[h] = "unloaded"
                           /\ native'[h] \in Busy => native[h] \in Busy
                           /\ h # g => calls'[h] = calls[h] /\ started'[h] = started[h]
                                       /\ native'[h] = native[h]
BY CallEffect DEF Claim, IInv, TypeOK, Busy

LEMMA OwnerStep == IInv /\ ShutdownInv /\ OwnerInv /\ [Next]_vars => OwnerInv'
<1> SUFFICES ASSUME IInv, ShutdownInv, OwnerInv, [Next]_vars PROVE OwnerInv'
  OBVIOUS
<1> USE DEF coreVars, prepVars, runtimeVars, genVars, nativeVars, modelVars, taskVars, leaseVars,
            sdVars, hookVars, outerVars
<1>c. ASSUME NEW t \in Tasks, Cancel(t) PROVE OwnerInv'
  <2>1. cancels' = cancels + 1
    BY <1>c DEF Cancel, CancelQueued, CancelUnstarted, CancelPrepare, CancelPrepareLate,
       CancelDiscard, CancelFailing, CancelRetire, CancelBudget
  <2> QED BY <2>1 DEF OwnerInv, IInv, TypeOK
<1>j. ASSUME cancels' = 0 => cancels = 0 /\ (Joined => Joined') PROVE OwnerInv'
  BY <1>j DEF OwnerInv
<1>1. ASSUME NEW t \in Tasks, NEW k, NEW c, Call(t, k, c) PROVE OwnerInv'
  <2>1. \A u \in Tasks : u # t => pc'[u] = pc[u] /\ job'[u] = job[u]
    BY <1>1 DEF Call, IInv, TypeOK
  <2>2. pc[t] = "idle" /\ pc'[t] = "queued"
    BY <1>1 DEF Call, IInv, TypeOK
  <2>3. \A u \in Tasks, g \in Gens : Owner(u, g) => Owner(u, g)'
    BY <2>1, <2>2 DEF Owner, Candidate
  <2> QED BY <1>1, <1>j, <2>1, <2>2, <2>3, OwnerQuiet DEF Call
<1>2. ASSUME NEW t \in Tasks, AdmitNothing(t) \/ SamePublish(t) \/ WaitOldDone(t) PROVE OwnerInv'
  <2>1. \A g \in Gens : ~Owner(t, g)
    BY <1>2 DEF AdmitNothing, SamePublish, WaitOldDone, Owner, Candidate
  <2> QED BY <1>2, <1>j, <2>1, FinishOwner DEF AdmitNothing, SamePublish, WaitOldDone
<1>3. ASSUME NEW t \in Tasks, AdmitSame(t) \/ SamePersist(t) PROVE OwnerInv'
  <2>1. UNCHANGED <<active, draining, native, calls, leases, started, cancels>>
    BY <1>3 DEF AdmitSame, SamePersist
  <2>2. CASE Finish(t)
    <3>1. \A g \in Gens : ~Owner(t, g)
      BY <1>3 DEF AdmitSame, SamePersist, Owner, Candidate
    <3> QED BY <1>j, <2>1, <2>2, <3>1, FinishOwner
  <2>3. CASE UNCHANGED job /\ \E p \in {"samePersist", "samePublish"} : pc' = [pc EXCEPT ![t] = p]
    <3>1. \A u \in Tasks : \/ pc'[u] = pc[u]
                            \/ /\ pc'[u] \in {"samePersist", "samePublish"}
                               /\ pc[u] \in {"queued", "samePersist"}
      <4>1. pc[t] \in {"queued", "samePersist"}
        BY <1>3 DEF AdmitSame, SamePersist
      <4>2. PICK p \in {"samePersist", "samePublish"} : pc' = [pc EXCEPT ![t] = p]
        BY <2>3
      <4>3. \A u \in Tasks : pc'[u] = IF u = t THEN p ELSE pc[u]
        BY <4>2 DEF IInv, TypeOK
      <4> QED BY <4>1, <4>3
    <3>2. \A u \in Tasks, g \in Gens : Owner(u, g) => Owner(u, g)'
      BY <2>3, <3>1 DEF Owner, Candidate
    <3> QED BY <1>j, <2>1, <2>3, <3>1, <3>2, OwnerQuiet
  <2> QED BY <1>3, <2>2, <2>3 DEF AdmitSame, SamePersist
<1>4. ASSUME NEW t \in Tasks, AdmitNew(t), Joined PROVE Joined'
  <2> DEFINE n == nextGen + 1
  <2>1. n \in Gens /\ \A g \in Gens : native'[g] = IF g = n THEN "loading" ELSE native[g]
    BY <1>4, ConstantsAssumption DEF AdmitNew, IInv, TypeOK, Gens
  <2>2. \A u \in Tasks : /\ pc'[u] = IF u = t THEN "prepare" ELSE pc[u]
                         /\ u # t => job'[u] = job[u]
                         /\ pc[u] \notin Locked
    BY <1>4, ConstantsAssumption DEF AdmitNew, IInv, TypeOK, LockInv
  <2>3. job'[t].gen = n
    BY <1>4 DEF AdmitNew, IInv, TypeOK, Jobs
  <2>4. \A u \in Tasks : pc'[u] \notin {"discard", "retire"}
    BY <2>2 DEF Locked, Candidate, Activated
  <2>5. \A g \in Gens : native'[g] \in Busy => Owned(g)'
    <3> SUFFICES ASSUME NEW g \in Gens, native'[g] \in Busy PROVE Owned(g)'
      OBVIOUS
    <3>1. CASE g = n
      BY <2>2, <2>3, <3>1 DEF Owned, Owner, Candidate
    <3>2. CASE g # n
      <4>1. Owned(g) /\ UNCHANGED <<active, draining>>
        BY <1>4, <2>1, <3>2 DEF AdmitNew, Joined, BusyInv
      <4>2. \A u \in Tasks : ~Owner(u, g)
        BY <2>2 DEF Owner, Locked, Candidate, Activated
      <4> QED BY <4>1, <4>2 DEF Owned
    <3> QED BY <3>1, <3>2
  <2> QED BY <2>4, <2>5 DEF Joined, DiscardInv, RetireInv, BusyInv
<1>5. ASSUME NEW t \in Tasks, PrepareReturns(t) \/ JoinNative(t) \/ Persist(t), Joined PROVE Joined'
  <2>1. UNCHANGED <<active, draining, leases, started>>
    BY <1>5 DEF PrepareReturns, JoinNative, Persist
  <2>2. CASE UNCHANGED <<native, calls>> /\ Finish(t) /\ native[job[t].gen] = "failed"
    <3>1. \A g \in Gens : Owner(t, g) => native[g] \notin Busy
      BY <1>5, <2>2 DEF PrepareReturns, JoinNative, Persist, Owner, Busy
    <3> QED BY <1>5, <2>1, <2>2, <3>1, FinishOwner
  <2>3. CASE \E o : GoDiscard(t, o)
    BY <1>5, <2>1, <2>3, DiscardOwner DEF PrepareReturns, JoinNative, Persist
  <2>4. CASE UNCHANGED <<native, calls, job>> /\ \E p \in {"persist", "activate"} :
                                                     pc' = [pc EXCEPT ![t] = p]
    <3>1. pc[t] \in Candidate /\ \A u \in Tasks : pc'[u] = pc[u] \/ (u = t /\ pc'[u] \in {"persist", "activate"})
      BY <1>5, <2>4 DEF PrepareReturns, JoinNative, Persist, IInv, TypeOK, Candidate
    <3>2. \A u \in Tasks, g \in Gens : Owner(u, g) => Owner(u, g)'
      BY <2>4, <3>1 DEF Owner, Candidate
    <3> QED BY <1>5, <2>1, <2>4, <3>1, <3>2, OwnerQuiet
  <2> QED BY <1>5, <2>2, <2>3, <2>4 DEF PrepareReturns, JoinNative, Persist
<1>6. ASSUME NEW t \in Tasks, Activate(t), Joined PROVE Joined'
  <2>1. CASE shuttingDown
    BY <1>6, <2>1, DiscardOwner DEF Activate
  <2>2. CASE ~shuttingDown
    <3>1. \A u \in Tasks : /\ pc'[u] = IF u = t THEN "retire" ELSE pc[u]
                           /\ u # t => job'[u] = job[u] /\ pc[u] \notin Locked
      BY <1>6, <2>2, Sole DEF Activate, IInv, TypeOK, Locked, Candidate
    <3>2. job'[t].old = active /\ active' = job[t].gen
          /\ UNCHANGED <<native, calls, leases, started>>
      BY <1>6, <2>2 DEF Activate, IInv, TypeOK, Jobs
    <3>3. RetireInv'
      <4>1. active # NoGen => active \in draining' \/ (leases[active] = 0 /\ ~started[active])
        BY <1>6, <2>2 DEF Activate, IInv, TypeOK, ActiveInv, RetiredInv
      <4> QED BY <3>1, <3>2, <4>1 DEF RetireInv, Locked, Activated
    <3>4. DiscardInv'
      BY <3>1 DEF DiscardInv, Locked, Candidate
    <3>5. BusyInv'
      <4> SUFFICES ASSUME NEW g \in Gens, native[g] \in Busy PROVE Owned(g)'
        BY <3>2 DEF BusyInv
      <4>1. Owned(g)
        BY <1>6 DEF Joined, BusyInv
      <4>2. CASE g = active
        BY <3>1, <3>2, <4>2 DEF Owned, Owner
      <4>3. CASE g \in draining
        BY <1>6, <2>2, <4>3 DEF Activate, Owned
      <4>4. CASE \E u \in Tasks : Owner(u, g)
        <5>1. Owner(t, g) /\ pc[t] = "activate"
          BY <1>6, <3>1, <4>4 DEF Activate, Owner, Locked, Activated
        <5> QED BY <3>2, <5>1 DEF Owner, Owned
      <4> QED BY <4>1, <4>2, <4>3, <4>4 DEF Owned
    <3> QED BY <3>3, <3>4, <3>5 DEF Joined
  <2> QED BY <2>1, <2>2
<1>7. ASSUME NEW t \in Tasks, Retire(t), Joined PROVE Joined'
  <2> DEFINE old == job[t].old
  <2>1. old \in Gens \cup {NoGen} /\ pc[t] = "retire" /\ UNCHANGED <<active, draining, leases>>
    BY <1>7, JobUpdate DEF Retire, IInv, TypeOK
  <2>2. old # NoGen /\ old \notin draining =>
            native[old] = "unloaded" \/ (leases[old] = 0 /\ ~started[old])
    BY <1>7, <2>1 DEF Joined, RetireInv
  <2>3. CASE ~(old # NoGen /\ Idle(old))
    <3>1. Finish(t) /\ UNCHANGED <<native, calls, started>>
      BY <1>7, <2>3 DEF Retire
    <3>2. \A g \in Gens : Owner(t, g) /\ native[g] \in Busy => g \in draining
      BY <2>1, <2>2, <2>3 DEF Owner, Idle, Candidate, Busy, Gens, NoGen
    <3> QED BY <1>7, <2>1, <3>1, <3>2, FinishOwner
  <2>4. CASE old # NoGen /\ Idle(old)
    <3>1. old \in Gens /\ Claim(old) /\ UNCHANGED job
          /\ \A u \in Tasks : pc'[u] = IF u = t THEN IF started[old] THEN "waitOld" ELSE "unloadOld"
                                       ELSE pc[u]
      BY <1>7, <2>1, <2>4 DEF Retire, IInv, TypeOK
    <3>2. \A u \in Tasks : pc'[u] \notin {"discard", "retire"}
      BY <2>1, <3>1, Sole DEF IInv, Locked, Candidate, Activated
    <3>3. BusyInv'
      <4> SUFFICES ASSUME NEW g \in Gens, native[g] \in Busy PROVE Owned(g)'
        BY <3>1, ClaimBusy DEF BusyInv
      <4>1. Owned(g)
        BY <1>7 DEF Joined, BusyInv
      <4>2. CASE g = active \/ g \in draining
        BY <2>1, <4>2 DEF Owned
      <4>3. CASE g \notin draining /\ \E u \in Tasks : Owner(u, g)
        <5>1. PICK u \in Tasks : Owner(u, g)
          BY <4>3
        <5>2. CASE u = t
          <6>1. g = old /\ ~started[old]
            BY <2>1, <2>2, <2>4, <4>3, <5>1, <5>2 DEF Owner, Candidate, Busy
          <6> QED BY <3>1, <6>1 DEF Owner, Owned
        <5>3. CASE u # t
          BY <3>1, <5>1, <5>3 DEF Owner, Owned
        <5> QED BY <5>2, <5>3
      <4> QED BY <4>1, <4>2, <4>3 DEF Owned
    <3> QED BY <3>2, <3>3 DEF Joined, DiscardInv, RetireInv
  <2> QED BY <2>3, <2>4
<1>8. ASSUME NEW t \in Tasks, UnloadOldDone(t) \/ DiscardDone(t), Joined PROVE Joined'
  <2>1. \A g \in Gens : Owner(t, g) => native[g] \notin Busy
    <3>1. pc[t] = "discard" => calls[job[t].gen] = 1
      BY <1>8 DEF Joined, DiscardInv
    <3> QED BY <1>8, <3>1 DEF UnloadOldDone, DiscardDone, Owner, Busy, Candidate
  <2>2. /\ Finish(t) /\ UNCHANGED <<active, native, calls, leases, started>>
        /\ draining' \subseteq draining /\ \A g \in draining \ draining' : native[g] = "unloaded"
    BY <1>8 DEF UnloadOldDone, DiscardDone, MarkComplete
  <2> QED BY <1>8, <2>1, <2>2, FinishOwner
<1>9. ASSUME \/ \E g \in Gens : NativeLoad(g) \/ NativeUnload(g) \/ Progress(g)
             \/ \E s \in Sessions : CloseLease(s)
             \/ ShutdownCapture \/ ShutdownEnd \/ UNCHANGED vars
      PROVE  OwnerInv'
  <2>1. UNCHANGED <<active, draining, calls, leases, started, pc, job, cancels>>
    BY <1>9 DEF NativeLoad, NativeUnload, Progress, CloseLease, ShutdownCapture, ShutdownEnd, vars
  <2>2. \A g \in Gens : /\ native[g] = "unloaded" => native'[g] = "unloaded"
                        /\ native'[g] \in Busy => native[g] \in Busy
    BY <1>9 DEF NativeLoad, NativeUnload, Progress, CloseLease, ShutdownCapture, ShutdownEnd, vars,
       IInv, TypeOK, Busy
  <2>3. \A u \in Tasks, g \in Gens : Owner(u, g) => Owner(u, g)'
    BY <2>1 DEF Owner
  <2> QED BY <1>j, <2>1, <2>2, <2>3, OwnerQuiet
<1>10. ASSUME NEW s \in Sessions, OpenSession(s), Joined PROVE Joined'
  <2>1. UNCHANGED <<active, draining, native, calls, started, pc, job>>
    BY <1>10 DEF OpenSession
  <2>2. \A g \in Gens : g # active => leases'[g] = leases[g]
    BY <1>10 DEF OpenSession, IInv, TypeOK
  <2>3. RetireInv'
    <3>1. \A u \in Tasks : pc[u] = "retire" /\ job[u].old # NoGen => job[u].old \in Gens \ {active}
      <4>1. \A u \in Tasks : job[u].old \in Gens \cup {NoGen}
        BY JobUpdate DEF IInv, TypeOK
      <4> QED BY <4>1 DEF IInv, TaskInv, ActiveInv, Activated
    <3> QED BY <1>10, <2>1, <2>2, <3>1 DEF Joined, RetireInv
  <2>4. DiscardInv' /\ BusyInv'
    BY <1>10, <2>1 DEF Joined, DiscardInv, BusyInv, Owned, Owner
  <2> QED BY <2>3, <2>4 DEF Joined
<1>11. ASSUME NEW s \in Sessions, Release(s), Joined PROVE Joined'
  <2> DEFINE g == lease[s]
  <2>1. g \in Gens /\ Published(g) /\ UNCHANGED <<active, draining, pc, job>>
    BY <1>11 DEF Release, IInv, LeaseInv
  <2>2. /\ \A h \in Gens : /\ h # g => leases'[h] = leases[h]
                           /\ leases[h] = 0 => leases'[h] = 0
        /\ UNCHANGED <<native, calls, started>> \/ (Claim(g) /\ leases[g] = 1)
    BY <1>11, <2>1 DEF Release, LastRelease, IInv, TypeOK
  <2>3. \A h \in Gens : /\ native[h] = "unloaded" => native'[h] = "unloaded"
                        /\ native'[h] \in Busy => native[h] \in Busy
                        /\ h # g \/ leases[h] = 0 => calls'[h] = calls[h] /\ started'[h] = started[h]
    BY <2>1, <2>2, ClaimBusy
  <2>4. DiscardInv'
    <3>1. \A u \in Tasks : pc[u] = "discard" => job[u].gen \in Gens \ {g}
      BY <2>1 DEF IInv, TaskInv, Candidate
    <3> QED BY <1>11, <2>1, <2>3, <3>1 DEF Joined, DiscardInv
  <2>5. RetireInv'
    <3> SUFFICES ASSUME NEW u \in Tasks, pc[u] = "retire", job[u].old # NoGen,
                        job[u].old \notin draining
                 PROVE  native'[job[u].old] = "unloaded" \/ (leases'[job[u].old] = 0 /\ ~started'[job[u].old])
      BY <2>1 DEF RetireInv
    <3>1. job[u].old \in Gens
      BY JobUpdate DEF IInv, TypeOK
    <3> QED BY <1>11, <2>2, <2>3, <3>1 DEF Joined, RetireInv
  <2>6. BusyInv'
    BY <1>11, <2>1, <2>3 DEF Joined, BusyInv, Owned, Owner
  <2> QED BY <2>4, <2>5, <2>6 DEF Joined
<1>12. ASSUME NEW s \in Sessions, ReleaseDone(s), Joined PROVE Joined'
  <2>1. /\ UNCHANGED <<active, native, calls, leases, started, pc, job>>
        /\ draining' \subseteq draining /\ \A g \in draining \ draining' : native[g] = "unloaded"
    BY <1>12 DEF ReleaseDone, MarkComplete
  <2>2. DiscardInv' /\ RetireInv'
    BY <1>12, <2>1 DEF Joined, DiscardInv, RetireInv
  <2>3. BusyInv'
    BY <1>12, <2>1 DEF Joined, BusyInv, Owned, Owner, Busy
  <2> QED BY <2>2, <2>3 DEF Joined
<1>13. ASSUME ShutdownBegin, Joined PROVE Joined'
  <2>1. /\ UNCHANGED <<native, calls, leases, started, pc, job>> /\ draining \subseteq draining'
        /\ \A g \in Gens : g = active => g \in draining'
    BY <1>13 DEF ShutdownBegin, Gens, NoGen
  <2>2. DiscardInv' /\ RetireInv'
    BY <1>13, <2>1 DEF Joined, DiscardInv, RetireInv
  <2>3. BusyInv'
    BY <1>13, <2>1 DEF Joined, BusyInv, Owned, Owner
  <2> QED BY <2>2, <2>3 DEF Joined
<1>14. ASSUME ShutdownDrain \/ ShutdownNext, Joined PROVE Joined'
  <2>1. UNCHANGED <<active, pc, job>> /\ \A t \in Tasks : pc[t] \notin Candidate \cup Activated
    BY <1>14 DEF ShutdownDrain, ShutdownNext, ShutdownInv
  <2>2. DiscardInv' /\ RetireInv'
    BY <2>1 DEF DiscardInv, RetireInv, Candidate, Activated
  <2>3. /\ \A g \in Gens : native'[g] \in Busy => native[g] \in Busy
        /\ \A g \in draining \ draining' : native'[g] = "unloaded"
    BY <1>14, ClaimBusy DEF ShutdownDrain, ShutdownNext, MarkComplete
  <2>4. BusyInv'
    BY <1>14, <2>1, <2>3 DEF Joined, BusyInv, Owned, Owner, Busy
  <2> QED BY <2>2, <2>4 DEF Joined
<1>15. ASSUME \/ \E t \in Tasks : \/ AdmitNew(t) \/ PrepareReturns(t) \/ JoinNative(t) \/ Persist(t)
                                  \/ Activate(t) \/ Retire(t) \/ UnloadOldDone(t) \/ DiscardDone(t)
              \/ \E s \in Sessions : OpenSession(s) \/ Release(s) \/ ReleaseDone(s)
              \/ ShutdownBegin \/ ShutdownDrain \/ ShutdownNext
       PROVE  OwnerInv'
  <2>1. UNCHANGED cancels
    BY <1>15 DEF AdmitNew, PrepareReturns, JoinNative, Persist, Activate, Retire, UnloadOldDone,
       DiscardDone, OpenSession, Release, ReleaseDone, ShutdownBegin, ShutdownDrain, ShutdownNext
  <2>2. Joined => Joined'
    BY <1>4, <1>5, <1>6, <1>7, <1>8, <1>10, <1>11, <1>12, <1>13, <1>14, <1>15
  <2> QED BY <1>j, <2>1, <2>2
<1> QED BY <1>c, <1>1, <1>2, <1>3, <1>9, <1>15
        DEF Next, RuntimeNext, Native, Calls, Start, PrepareAndActivate, Schedule, TaskStep,
            LeaseStep, ShutdownStep

-----------------------------------------------------------------------------
(* The theorems.                                                            *)

\* The strengthened invariant of the specification.
LEMMA Invariant == Spec => []IInv
<1>1. Init => IInv
  BY InitInv
<1>2. IInv /\ [Next]_vars => IInv'
  BY InvStep
<1> QED BY <1>1, <1>2, PTL DEF Spec

(* Type correctness: what the methods of ModelRuntime and its leases store. *)
THEOREM TypeCorrect == Spec => []TypeOK
<1>1. IInv => TypeOK
  BY DEF IInv
<1> QED BY <1>1, Invariant, PTL

(* A model is never unloaded under a lease, unless shutdown's drain timed    *)
(* out: for any number of replacing tasks, sessions and generations, and   *)
(* whatever is cancelled (_release, _shutdown_generation, shutdown).       *)
THEOREM LeaseSafety == Spec => []LeasedModelStaysLoaded
<1>1. IInv => LeasedModelStaysLoaded
  <2> SUFFICES ASSUME IInv, NEW g \in Gens, Holders(g) # {}, ~forced[g]
               PROVE  native[g] = "loaded"
    BY DEF LeasedModelStaysLoaded
  <2>1. Published(g)
    BY DEF IInv, LeaseInv, Holders
  <2>2. ~started[g]
    BY DEF IInv, ClaimInv
  <2> QED BY <2>1, <2>2 DEF IInv, Published, ActiveInv, RetiredInv, TypeOK, NoGen, Gens
<1> QED BY <1>1, Invariant, PTL

(* The replacing task, the last release and the runtime's shutdown together *)
(* request the native shutdown of a generation at most once.               *)
THEOREM ShutDownOnce == Spec => []ActivatedShutDownOnce
<1>1. IInv => ActivatedShutDownOnce
  BY DEF IInv, RetiredInv, ActivatedShutDownOnce, TypeOK
<1> QED BY <1>1, Invariant, PTL

(* /health, /settings and the session handler may rely on _status: it accepts *)
(* sessions exactly when open_session finds a loaded generation, which it    *)
(* names, and the settings shown are the ones that generation was prepared  *)
(* from.                                                                    *)
THEOREM StatusIsTruthful == Spec => []StatusTellsAdmission
<1>1. Init => AdmissionInv
  BY DEF Init, AdmissionInv, StatusInv, SettingsInv, WantInv, Want, Accepts, StatusOf, Candidate
<1>2. IInv /\ AdmissionInv /\ [Next]_vars => AdmissionInv'
  BY StatusStep, SettingsStep, WantStep DEF AdmissionInv
<1>3. IInv /\ AdmissionInv => StatusTellsAdmission
  BY DEF IInv, ActiveInv, AdmissionInv, StatusInv, SettingsInv, StatusTellsAdmission
<1> QED BY <1>1, <1>2, <1>3, Invariant, PTL DEF Spec

(* A shutdown that has returned leaves no engine loaded, loading or being     *)
(* unloaded, whatever preparations, replacements and releases were under way *)
(* when it began, as long as no preparation was cancelled.                   *)
THEOREM ShutdownJoins == Spec => []ShutdownJoinsUnloads
<1>1. Init => JoinInv
  <2>1. Init => ShutdownInv /\ CompleteInv
    BY DEF Init, ShutdownInv, CompleteInv, Candidate, Activated
  <2>2. Init => OwnerInv
    BY DEF Init, OwnerInv, Joined, DiscardInv, RetireInv, BusyInv, Busy
  <2> QED BY <2>1, <2>2 DEF JoinInv
<1>2. IInv /\ JoinInv /\ [Next]_vars => JoinInv'
  BY ShutdownInvStep, CompleteStep, OwnerStep DEF JoinInv
<1>3. IInv /\ JoinInv => ShutdownJoinsUnloads
  <2> SUFFICES ASSUME IInv, JoinInv, sd = "done", cancels = 0, NEW g \in Gens
               PROVE  native[g] \notin Busy
    BY DEF ShutdownJoinsUnloads, Busy, IInv, TypeOK, NativeStates
  <2>1. active = NoGen /\ draining = {}
    BY DEF JoinInv, ShutdownInv, IInv, DrainInv
  <2>2. \A t \in Tasks : ~Owner(t, g)
    BY DEF JoinInv, ShutdownInv, Owner, Activated
  <2> QED BY <2>1, <2>2 DEF JoinInv, OwnerInv, Joined, BusyInv, Owned, Gens, NoGen
<1> QED BY <1>1, <1>2, <1>3, Invariant, PTL DEF Spec

-----------------------------------------------------------------------------
(* A change staged on the settings page leaves it only when the server has   *)
(* prepared and committed it: EngineSettings, for every value of its         *)
(* constants.  Between two replies the page only forgets what it knows and   *)
(* follows, and a preparation under way can only commit the patch it         *)
(* follows; so a reply that it still asks for shows of that patch what the   *)
(* server still has.                                                         *)

CONSTANTS Keys, Model, Values, Default, Failed, MaxPatches, MaxOutages
VARIABLES srv, managed, main, seen, ui, patching, patches, outages

Page == INSTANCE EngineSettings

\* The shape of the page's state, and a state the effect clears the page for.
PageFields == {"settings", "eng", "connected", "lastKey", "pending", "patch", "applying",
               "applyWaits", "requested", "active", "observed", "confirm", "read", "waiters"}
IsPage(u) ==
    /\ DOMAIN u = PageFields
    /\ u.read # None => DOMAIN u.read = {"for", "current", "answer"}

Off(state) == state # None /\ ~state.running

\* A read that can tell the page something is the one there was.
Told(r, q) == r = q \/ r = None \/ r.answer = None \/ r.current = FALSE

(* What the page does between two replies: it forgets what it knows and    *)
(* follows, and drops what is staged only where its own server stopped.    *)
KeepsChanges(u, v, state) ==
    /\ IsPage(v) /\ Told(v.read, u.read)
    /\ v.patch = u.patch \/ v.patch = Page!Empty
    /\ v.settings = u.settings \/ v.settings = None
    /\ v.pending = u.pending \/ (v.pending = Page!Empty /\ managed /\ Off(state))

\* What the page does in two steps it may do in one.
LEMMA KeepsTwice ==
    ASSUME NEW u, NEW v, NEW w, NEW state, KeepsChanges(u, v, state), KeepsChanges(v, w, state)
    PROVE  KeepsChanges(u, w, state)
BY DEF KeepsChanges, Told

\* The page may do nothing.
LEMMA KeepsSame == ASSUME NEW u, IsPage(u), NEW state PROVE KeepsChanges(u, u, state)
BY DEF KeepsChanges, Told

\* A step that leaves what matters alone.
LEMMA KeepsAll ==
    ASSUME NEW u, IsPage(u), NEW v, NEW state, DOMAIN v = DOMAIN u,
           v.read = u.read, v.patch = u.patch, v.settings = u.settings, v.pending = u.pending
    PROVE  KeepsChanges(u, v, state) /\ IsPage(v)
BY DEF KeepsChanges, Told, IsPage

\* Nothing but the patch is replaced, and no read is current any more.
Renewed(u, v, patch) ==
    /\ IsPage(v) /\ v.patch = patch /\ v.settings = u.settings /\ v.pending = u.pending
    /\ v.read = None \/ v.read.current = FALSE

\* Another patch replaces the one followed, and invalidates the read under way.
LEMMA NewPatchPage ==
    ASSUME NEW u, IsPage(u), NEW patch
    PROVE  Renewed(u, Page!NewPatch(u, patch), patch)
<1> DEFINE v == Page!NewPatch(u, patch)
<1>1. /\ DOMAIN v = DOMAIN u /\ v.patch = patch /\ v.settings = u.settings /\ v.pending = u.pending
      /\ v.read = IF u.read = None THEN None ELSE [u.read EXCEPT !.current = FALSE]
  BY DEF Page!NewPatch, IsPage, PageFields
<1> HIDE DEF v
<1>2. v.read # None => DOMAIN v.read = {"for", "current", "answer"}
  BY <1>1 DEF IsPage
<1>3. v.read = None \/ v.read.current = FALSE
  BY <1>1 DEF IsPage
<1>4. IsPage(v)
  BY <1>1, <1>2 DEF IsPage
<1> QED
  BY <1>1, <1>3, <1>4 DEF v, Renewed

\* A read begins without a reply, or waits for the one under way.
LEMMA LoadPage ==
    ASSUME NEW u, IsPage(u), NEW for, NEW state
    PROVE  KeepsChanges(u, Page!LoadServerSettings(u, for), state)
<1> DEFINE call == [for |-> for, current |-> TRUE, answer |-> None]
           v == Page!LoadServerSettings(u, for)
<1>1. /\ DOMAIN v = DOMAIN u /\ v.patch = u.patch /\ v.settings = u.settings /\ v.pending = u.pending
      /\ v.read = call \/ v.read = u.read
  BY DEF Page!LoadServerSettings, IsPage, PageFields
<1>2. call.answer = None /\ DOMAIN call = {"for", "current", "answer"}
  OBVIOUS
<1> HIDE DEF v, call
<1> QED
  BY <1>1, <1>2 DEF KeepsChanges, IsPage, Told, v

\* The end of a preparation forgets its patch and drops nothing that is staged.
LEMMA FinishPage ==
    ASSUME NEW u, IsPage(u), NEW state
    PROVE  /\ KeepsChanges(u, Page!FinishPreparation(u), state)
           /\ Page!FinishPreparation(u).pending = u.pending
<1> DEFINE w == [u EXCEPT !.requested = FALSE, !.active = FALSE, !.observed = FALSE]
<1>1. /\ DOMAIN w = DOMAIN u /\ w.patch = u.patch /\ w.settings = u.settings
      /\ w.pending = u.pending /\ w.read = u.read
  BY DEF IsPage, PageFields
<1>2. Page!FinishPreparation(u) = Page!NewPatch(w, Page!Empty)
  BY DEF Page!FinishPreparation
<1> HIDE DEF w
<1>3. IsPage(w)
  BY <1>1, KeepsAll
<1> DEFINE x == Page!NewPatch(w, Page!Empty)
<1>x. Renewed(w, x, Page!Empty)
  BY <1>3, NewPatchPage
<1> HIDE DEF x
<1>4. /\ IsPage(x) /\ x.patch = Page!Empty /\ x.settings = w.settings /\ x.pending = w.pending
      /\ x.read = None \/ x.read.current = FALSE
  BY <1>x DEF Renewed
<1>5. KeepsChanges(u, x, state) /\ x.pending = u.pending
  BY <1>1, <1>4 DEF KeepsChanges, Told
<1> QED
  BY <1>2, <1>5 DEF x

\* A confirmation begins with a read.
LEMMA BeginConfirmPage ==
    ASSUME NEW u, IsPage(u), NEW state
    PROVE  KeepsChanges(u, Page!BeginConfirm(u), state)
<1> DEFINE w == [u EXCEPT !.confirm = "current", !.requested = FALSE]
<1>1. /\ DOMAIN w = DOMAIN u /\ w.patch = u.patch /\ w.settings = u.settings
      /\ w.pending = u.pending /\ w.read = u.read
  BY DEF IsPage, PageFields
<1>2. Page!BeginConfirm(u) = u \/ Page!BeginConfirm(u) = Page!LoadServerSettings(w, "confirm")
  BY DEF Page!BeginConfirm
<1> HIDE DEF w
<1>3. IsPage(w) /\ KeepsChanges(u, w, state)
  BY <1>1, KeepsAll
<1> QED
  BY <1>2, <1>3, LoadPage, KeepsTwice, KeepsSame

\* A server that stops clears the page, and what is staged if the app owns it.
LEMMA ClearPage ==
    ASSUME NEW u, IsPage(u), NEW state, Off(state)
    PROVE  KeepsChanges(u, Page!ClearServerSettings(u), state)
<1> DEFINE v == [u EXCEPT !.settings = None, !.eng = None, !.connected = FALSE, !.lastKey = None]
           w == [v EXCEPT !.pending = Page!Empty, !.requested = FALSE, !.active = FALSE,
                          !.observed = FALSE, !.applying = FALSE]
<1>1. /\ DOMAIN v = DOMAIN u /\ v.patch = u.patch /\ v.settings = None
      /\ v.pending = u.pending /\ v.read = u.read
  BY DEF IsPage, PageFields
<1>2. Page!ClearServerSettings(u) = v \/ (managed /\ Page!ClearServerSettings(u) = Page!NewPatch(w, Page!Empty))
  BY DEF Page!ClearServerSettings
<1>3. /\ DOMAIN w = DOMAIN v /\ w.patch = v.patch /\ w.settings = v.settings
      /\ w.pending = Page!Empty /\ w.read = v.read
  BY DEF IsPage, PageFields
<1> HIDE DEF v, w
<1>4. IsPage(v) /\ IsPage(w) /\ KeepsChanges(u, v, state)
  BY <1>1, <1>3 DEF IsPage, KeepsChanges, Told
<1> DEFINE x == Page!NewPatch(w, Page!Empty)
<1>x. Renewed(w, x, Page!Empty)
  BY <1>4, NewPatchPage
<1>6. Page!ClearServerSettings(u) = v \/ (managed /\ Page!ClearServerSettings(u) = x)
  BY <1>2
<1> HIDE DEF x
<1>5. /\ IsPage(x) /\ x.patch = Page!Empty /\ x.settings = w.settings /\ x.pending = w.pending
      /\ x.read = None \/ x.read.current = FALSE
  BY <1>x DEF Renewed
<1>7. managed => KeepsChanges(u, x, state)
  BY <1>1, <1>3, <1>5 DEF KeepsChanges, Told
<1> QED
  BY <1>4, <1>6, <1>7

\* The effect on a state clears the page when the server stopped, or reads.
LEMMA StateEffectPage ==
    ASSUME NEW u, IsPage(u), NEW state
    PROVE  KeepsChanges(u, Page!StateEffect(u, state), state)
<1>1. CASE Off(state)
  BY <1>1, ClearPage DEF Page!StateEffect, Off
<1>2. CASE ~Off(state)
  <2> DEFINE v == IF state = None \/ state.eng = None THEN u ELSE [u EXCEPT !.eng = state.eng]
             w == [v EXCEPT !.lastKey = Page!StateKey(state)]
  <2>1. /\ DOMAIN v = DOMAIN u /\ v.patch = u.patch /\ v.settings = u.settings
        /\ v.pending = u.pending /\ v.read = u.read
    BY DEF IsPage, PageFields
  <2>2. /\ DOMAIN w = DOMAIN v /\ w.patch = v.patch /\ w.settings = v.settings
        /\ w.pending = v.pending /\ w.read = v.read
    BY DEF IsPage, PageFields
  <2>3. Page!StateEffect(u, state) = v \/ Page!StateEffect(u, state) = Page!LoadServerSettings(w, "nobody")
    BY <1>2 DEF Page!StateEffect, Off
  <2> HIDE DEF v, w
  <2>4. IsPage(v) /\ KeepsChanges(u, v, state) /\ IsPage(w) /\ KeepsChanges(v, w, state)
    BY <2>1, <2>2, KeepsAll
  <2> QED
    BY <2>3, <2>4, LoadPage, KeepsTwice
<1> QED
  BY <1>1, <1>2

\* The effect on a preparation ends it or has it confirmed.
LEMMA PreparationEffectPage ==
    ASSUME NEW u, IsPage(u), NEW state
    PROVE  KeepsChanges(u, Page!PreparationEffect(u, state), state)
<1> DEFINE eng == Page!Shared(u, state)
           v == IF u.active /\ Page!IsPending(eng) THEN [u EXCEPT !.observed = TRUE] ELSE u
<1>1. /\ DOMAIN v = DOMAIN u /\ v.patch = u.patch /\ v.settings = u.settings
      /\ v.pending = u.pending /\ v.read = u.read
  BY DEF IsPage, PageFields
<1>2. \/ Page!PreparationEffect(u, state) = v
      \/ Page!PreparationEffect(u, state) = Page!FinishPreparation(v)
      \/ Page!PreparationEffect(u, state) = Page!BeginConfirm(v)
  <2>1. CASE v.pending = Page!Empty
    BY <2>1 DEF Page!PreparationEffect
  <2>2. CASE v.pending # Page!Empty /\ Page!Phase(eng) = "failed"
    BY <2>2 DEF Page!PreparationEffect
  <2>3. CASE v.pending # Page!Empty /\ Page!Phase(eng) # "failed" /\ v.read = None /\ Page!ShouldRefresh(v, eng)
    BY <2>3 DEF Page!PreparationEffect
  <2>4. CASE v.pending # Page!Empty /\ Page!Phase(eng) # "failed" /\ ~(v.read = None /\ Page!ShouldRefresh(v, eng))
    BY <2>4 DEF Page!PreparationEffect
  <2> QED
    BY <2>1, <2>2, <2>3, <2>4
<1> HIDE DEF v
<1>3. IsPage(v) /\ KeepsChanges(u, v, state)
  BY <1>1, KeepsAll
<1>4. KeepsChanges(v, Page!FinishPreparation(v), state) /\ KeepsChanges(v, Page!BeginConfirm(v), state)
  BY <1>3, FinishPage, BeginConfirmPage
<1> QED
  BY <1>2, <1>3, <1>4, KeepsTwice

\* A round of the effects drops only what a stopped server takes along.
LEMMA RoundPage ==
    ASSUME NEW u, NEW w, IsPage(w), NEW state
    PROVE  KeepsChanges(w, Page!Round(u, w, state), state) /\ IsPage(Page!Round(u, w, state))
<1> DEFINE x == IF Page!Reads(u, state) # Page!Reads(w, state) THEN Page!StateEffect(w, state) ELSE w
<1>1. KeepsChanges(w, x, state) /\ IsPage(x)
  BY StateEffectPage, KeepsSame DEF KeepsChanges
<1>2. Page!Round(u, w, state) = Page!PreparationEffect(x, state)
  BY DEF Page!Round
<1> HIDE DEF x
<1>3. KeepsChanges(x, Page!PreparationEffect(x, state), state)
  BY <1>1, PreparationEffectPage
<1>4. KeepsChanges(w, Page!Round(u, w, state), state)
  BY <1>1, <1>2, <1>3, KeepsTwice
<1> QED
  BY <1>4 DEF KeepsChanges

\* So do the effects until nothing changes.
LEMMA SettlePage ==
    ASSUME NEW old, NEW new, IsPage(new), NEW event, NEW state
    PROVE  KeepsChanges(new, Page!Settle(old, new, event, state), state)
<1> DEFINE first == IF event THEN Page!PreparationEffect(Page!StateEffect(new, state), state)
                    ELSE Page!Round(old, new, state)
           second == Page!Round(new, first, state)
<1>1. KeepsChanges(new, Page!PreparationEffect(Page!StateEffect(new, state), state), state)
  <2>1. KeepsChanges(new, Page!StateEffect(new, state), state) /\ IsPage(Page!StateEffect(new, state))
    BY StateEffectPage DEF KeepsChanges
  <2> QED
    BY <2>1, PreparationEffectPage, KeepsTwice
<1>2. Page!Settle(old, new, event, state) = Page!Round(first, second, state)
  BY DEF Page!Settle
<1>3. KeepsChanges(new, first, state) /\ IsPage(first)
  BY <1>1, RoundPage DEF KeepsChanges
<1> HIDE DEF first
<1>4. KeepsChanges(first, second, state) /\ IsPage(second)
  BY <1>3, RoundPage
<1> HIDE DEF second
<1>5. KeepsChanges(second, Page!Round(first, second, state), state)
  BY <1>4, RoundPage
<1> QED
  BY <1>2, <1>3, <1>4, <1>5, KeepsTwice

\* What an operation of the page may do to what is followed and staged.
Follows(u, v) == IsPage(v) /\ Told(v.read, u.read) /\ (v.patch = u.patch \/ v.patch = Page!Empty)

\* Two operations in a row.
LEMMA FollowsTwice ==
    ASSUME NEW u, NEW v, NEW w, Follows(u, v), Follows(v, w) PROVE Follows(u, w)
BY DEF Follows, Told

\* What the page does between replies respects what it follows.
LEMMA KeepsFollows ==
    ASSUME NEW u, NEW v, NEW state, KeepsChanges(u, v, state) PROVE Follows(u, v)
BY DEF KeepsChanges, Follows

\* A handler leaves the page as its effects find it.
LEMMA HandledPage ==
    ASSUME NEW old, NEW new, IsPage(new), NEW state
    PROVE  KeepsChanges(new, Page!Settle(old, new, FALSE, state), state)
BY SettlePage

\* So does an event of the main process.
LEMMA PublishedPage ==
    ASSUME NEW old, NEW new, IsPage(new), NEW state
    PROVE  KeepsChanges(new, Page!Settle(old, new, TRUE, state), state)
BY SettlePage

\* The end of a confirmation drops what the page's settings confirm.
Confirmed(u, v, loaded) ==
    /\ Follows(u, v)
    /\ \/ v.pending = u.pending
       \/ loaded /\ Page!Matches(u.patch, u.settings) /\ v.pending = Page!ClearApplied(u.pending, u.patch)

\* A confirmation drops only what the settings read confirm.
LEMMA EndConfirmPage ==
    ASSUME NEW u, IsPage(u), NEW loaded
    PROVE  Confirmed(u, Page!EndConfirm(u, loaded), loaded)
<1> DEFINE c == [u EXCEPT !.pending = Page!ClearApplied(@, u.patch)]
           r == Page!Rearm(u)
           f == Page!FinishPreparation(u)
           g == Page!FinishPreparation(c)
           v == IF u.confirm = "stale" THEN u
                ELSE IF loaded /\ Page!Phase(u.eng) = "preparing" THEN r
                ELSE IF loaded /\ Page!Phase(u.eng) = "ready" /\ Page!Matches(u.patch, u.settings) THEN g
                ELSE f
           w == [v EXCEPT !.confirm = "none",
                          !.applying = IF u.applyWaits THEN FALSE ELSE @, !.applyWaits = FALSE]
<1>1. Page!EndConfirm(u, loaded) = w
  BY DEF Page!EndConfirm
<1>2. Follows(u, u)
  BY DEF Follows, Told
<1>3. Follows(u, r) /\ r.pending = u.pending
  <2>1. /\ DOMAIN r = DOMAIN u /\ r.patch = u.patch /\ r.read = u.read /\ r.pending = u.pending
    BY DEF Page!Rearm, IsPage, PageFields
  <2> HIDE DEF r
  <2> QED
    BY <2>1 DEF Follows, Told, IsPage
<1>4. Follows(u, f) /\ f.pending = u.pending
  BY FinishPage, KeepsFollows
<1>5. Follows(u, g) /\ g.pending = Page!ClearApplied(u.pending, u.patch)
  <2>1. /\ DOMAIN c = DOMAIN u /\ c.patch = u.patch /\ c.read = u.read
        /\ c.pending = Page!ClearApplied(u.pending, u.patch)
    BY DEF IsPage, PageFields
  <2> HIDE DEF c
  <2>2. Follows(u, c) /\ IsPage(c)
    BY <2>1 DEF Follows, Told, IsPage
  <2>3. Follows(c, g) /\ g.pending = c.pending
    BY <2>2, FinishPage, KeepsFollows
  <2> QED
    BY <2>1, <2>2, <2>3, FollowsTwice
<1> HIDE DEF c, r, f, g
<1>6. Confirmed(u, v, loaded)
  BY <1>2, <1>3, <1>4, <1>5 DEF Confirmed
<1> HIDE DEF v
<1>7. DOMAIN w = DOMAIN v /\ w.patch = v.patch /\ w.read = v.read /\ w.pending = v.pending
  BY <1>6 DEF Confirmed, Follows, IsPage, PageFields
<1> HIDE DEF w
<1>8. Confirmed(u, w, loaded)
  BY <1>6, <1>7 DEF Confirmed, Follows, IsPage
<1> QED
  BY <1>1, <1>8

\* One that was invalidated drops nothing.
LEMMA GivenUpPage ==
    ASSUME NEW u, IsPage(u)
    PROVE  Follows(u, Page!EndConfirm(u, FALSE)) /\ Page!EndConfirm(u, FALSE).pending = u.pending
<1>1. Confirmed(u, Page!EndConfirm(u, FALSE), FALSE)
  BY EndConfirmPage
<1> QED
  BY <1>1 DEF Confirmed

\* A reply that the page still asks for, and that came.
Usable(r) == r.current /\ r.answer \notin {None, Failed}

\* The empty patch sets nothing.
LEMMA EmptyDomain == DOMAIN Page!Empty = {}
BY DEF Page!Empty

\* The return of a read drops what a usable reply shows of the patch followed,
\* and leaves no other reply behind.
LEMMA ReturnPage ==
    ASSUME IsPage(ui), Page!ReadReturns
    PROVE  /\ Page!ReadEnds
           /\ IsPage(ui') /\ Told(ui'.read, None) /\ (ui'.patch = ui.patch \/ ui'.patch = Page!Empty)
           /\ \/ managed /\ Off(Page!State)
              \/ \A k \in DOMAIN ui.pending \ DOMAIN ui'.pending :
                    /\ Usable(ui.read) /\ k \in DOMAIN ui.patch
                    /\ ui.patch[k] = ui.pending[k] /\ ui.read.answer.values[k] = ui.patch[k]
<1> DEFINE read == ui.read
           ok == read.current /\ read.answer # Failed
           stored == [ui EXCEPT !.read = None,
                                !.settings = IF ok THEN read.answer.values ELSE IF read.current THEN None ELSE @,
                                !.eng = IF ok THEN read.answer.eng ELSE IF read.current THEN None ELSE @,
                                !.connected = IF read.current THEN ok ELSE @]
           settled == Page!Settle(ui, stored, FALSE, Page!State)
           resumed == IF read.for = "confirm" THEN Page!EndConfirm(settled, ok) ELSE settled
           Current(call) == call.current
           asking == SelectSeq(resumed.waiters, Current)
           ended == IF asking # resumed.waiters THEN Page!EndConfirm(resumed, FALSE) ELSE resumed
           given == [ended EXCEPT !.waiters = <<>>]
           loads == Page!LoadServerSettings(given, Head(asking).for)
           asked == [loads EXCEPT !.waiters = Tail(asking)]
           waited == IF asking = <<>> THEN given ELSE asked
<1>1. Page!ReadEnds /\ ui' = Page!Settle(settled, waited, FALSE, Page!State)
  BY DEF Page!ReadReturns
<1>2. /\ DOMAIN stored = DOMAIN ui /\ stored.read = None /\ stored.patch = ui.patch
      /\ stored.pending = ui.pending
      /\ ok => stored.settings = read.answer.values
  BY DEF IsPage, PageFields
<1> HIDE DEF stored
<1>3. IsPage(stored)
  BY <1>2 DEF IsPage
<1>4. KeepsChanges(stored, settled, Page!State) /\ IsPage(settled)
  BY <1>3, HandledPage DEF KeepsChanges
<1> HIDE DEF settled
<1>5. Follows(settled, settled)
  BY <1>4 DEF Follows, Told
<1>6. Confirmed(settled, resumed, ok)
  <2>1. Confirmed(settled, Page!EndConfirm(settled, ok), ok)
    BY <1>4, EndConfirmPage
  <2>2. Confirmed(settled, settled, ok)
    BY <1>5 DEF Confirmed
  <2> HIDE DEF ok
  <2> QED
    BY <2>1, <2>2
<1> HIDE DEF resumed
<1>7. IsPage(resumed) /\ Follows(settled, resumed)
  BY <1>6 DEF Confirmed, Follows
<1>8. Follows(resumed, ended) /\ ended.pending = resumed.pending
  <2>1. Follows(resumed, Page!EndConfirm(resumed, FALSE)) /\ Page!EndConfirm(resumed, FALSE).pending = resumed.pending
    BY <1>7, GivenUpPage
  <2>2. Follows(resumed, resumed)
    BY <1>7 DEF Follows, Told
  <2> HIDE DEF asking
  <2> QED
    BY <2>1, <2>2
<1> HIDE DEF asking, ended
<1>9. Follows(ended, given) /\ given.pending = ended.pending
  <2>1. /\ DOMAIN given = DOMAIN ended /\ given.read = ended.read /\ given.patch = ended.patch
        /\ given.pending = ended.pending
    BY <1>8 DEF Follows, IsPage, PageFields
  <2> HIDE DEF given
  <2> QED
    BY <1>8, <2>1 DEF Follows, IsPage, Told
<1> HIDE DEF given
<1>10. Follows(given, asked) /\ asked.pending = given.pending
  <2>1. /\ DOMAIN loads = DOMAIN given /\ loads.pending = given.pending
    BY <1>9 DEF Page!LoadServerSettings, Follows, IsPage, PageFields
  <2>2. Follows(given, loads)
    BY <1>9, LoadPage, KeepsFollows DEF Follows
  <2> HIDE DEF loads
  <2>3. /\ DOMAIN asked = DOMAIN loads /\ asked.read = loads.read /\ asked.patch = loads.patch
        /\ asked.pending = loads.pending
    BY <2>2 DEF Follows, IsPage, PageFields
  <2> HIDE DEF asked
  <2> QED
    BY <2>1, <2>2, <2>3 DEF Follows, IsPage, Told
<1> HIDE DEF loads, asked
<1>11. Follows(given, waited) /\ waited.pending = given.pending
  BY <1>9, <1>10 DEF Follows, Told
<1> HIDE DEF waited
<1>12. Follows(resumed, waited) /\ waited.pending = resumed.pending
  BY <1>8, <1>9, <1>11, FollowsTwice
<1>13. KeepsChanges(waited, ui', Page!State)
  BY <1>1, <1>12, HandledPage DEF Follows
<1>14. IsPage(ui') /\ Told(ui'.read, None) /\ (ui'.patch = ui.patch \/ ui'.patch = Page!Empty)
  <2>1. Follows(stored, settled) /\ Follows(waited, ui')
    BY <1>4, <1>13, KeepsFollows
  <2>2. Follows(stored, ui')
    BY <2>1, <1>7, <1>12, FollowsTwice
  <2> QED
    BY <2>2, <1>2 DEF Follows
<1>15. (managed /\ Off(Page!State)) \/ (settled.pending = ui.pending /\ ui'.pending = resumed.pending)
  <2>1. settled.pending = stored.pending \/ (managed /\ Off(Page!State))
    BY <1>4 DEF KeepsChanges
  <2>2. ui'.pending = waited.pending \/ (managed /\ Off(Page!State))
    BY <1>13 DEF KeepsChanges
  <2>3. stored.pending = ui.pending /\ waited.pending = resumed.pending
    BY <1>2, <1>12
  <2> QED
    BY <2>1, <2>2, <2>3
<1>16. ASSUME settled.pending = ui.pending, ui'.pending = resumed.pending,
              NEW k \in DOMAIN ui.pending \ DOMAIN ui'.pending
       PROVE  /\ Usable(ui.read) /\ k \in DOMAIN ui.patch
              /\ ui.patch[k] = ui.pending[k] /\ ui.read.answer.values[k] = ui.patch[k]
  <2>1. ok /\ Page!Matches(settled.patch, settled.settings)
        /\ ui'.pending = Page!ClearApplied(ui.pending, settled.patch)
    BY <1>6, <1>16 DEF Confirmed
  <2>2. k \in DOMAIN settled.patch /\ settled.patch[k] = ui.pending[k]
    BY <2>1, <1>16 DEF Page!ClearApplied
  <2>3. settled.settings # None /\ settled.settings[k] = settled.patch[k]
    BY <2>1, <2>2 DEF Page!Matches
  <2>4. settled.patch = ui.patch
    BY <2>2, <1>2, <1>4, EmptyDomain DEF KeepsChanges
  <2>5. settled.settings = ui.read.answer.values
    <3>1. stored.settings = read.answer.values
      BY <2>1, <1>2
    <3>2. settled.settings = stored.settings \/ settled.settings = None
      BY <1>4 DEF KeepsChanges
    <3> QED
      BY <3>1, <3>2, <2>3
  <2>6. Usable(ui.read)
    BY <2>1, <1>1 DEF Usable, Page!ReadEnds
  <2> QED
    BY <2>2, <2>3, <2>4, <2>5, <2>6
<1> QED
  BY <1>1, <1>14, <1>15, <1>16

\* A preparation under way is that of the patch.
Preparing == srv.candidate # None \/ srv.phase = "preparing"
Takes(patch) == Preparing => \A k \in DOMAIN patch : srv.candidate[k] = patch[k]
\* What the reply shows of the patch is so at the server.
StillSo(answer, patch) == \A k \in DOMAIN patch : answer.values[k] = patch[k] => srv.values[k] = patch[k]

(* The invariant: what is followed or about to be is what the server takes, *)
(* and nothing is followed while a PATCH is under way.                     *)
SrvFields == {"up", "values", "phase", "load", "loaded", "candidate"}
FollowInv ==
    /\ IsPage(ui) /\ DOMAIN srv = SrvFields
    /\ Takes(ui.patch)
    /\ patching # None => DOMAIN patching = {"patch", "answer"} /\ DOMAIN ui.patch = {}
    /\ patching # None /\ patching.answer \notin {None, Failed} => Takes(patching.patch)
    /\ ui.read # None /\ Usable(ui.read) => StillSo(ui.read.answer, ui.patch)

\* The page starts with a read and follows nothing.
LEMMA FollowInit == ASSUME Page!Init PROVE FollowInv
<1> DEFINE blank == [settings |-> None, eng |-> None, connected |-> FALSE, lastKey |-> None,
                     pending |-> Page!Empty, patch |-> Page!Empty, applying |-> FALSE, applyWaits |-> FALSE,
                     requested |-> FALSE, active |-> FALSE, observed |-> FALSE,
                     confirm |-> "none", read |-> None, waiters |-> <<>>]
<1>1. /\ ui = Page!LoadServerSettings(blank, "nobody") /\ patching = None
      /\ DOMAIN srv = SrvFields
  BY DEF Page!Init, SrvFields
<1>2. DOMAIN blank = PageFields /\ blank.read = None /\ blank.patch = Page!Empty
  BY DEF PageFields
<1> HIDE DEF blank
<1>3. IsPage(blank)
  BY <1>2 DEF IsPage
<1>4. Follows(blank, ui)
  BY <1>1, <1>3, LoadPage, KeepsFollows
<1>5. IsPage(ui) /\ ui.patch = Page!Empty
  BY <1>2, <1>4 DEF Follows
<1>6. DOMAIN ui.patch = {}
  BY <1>5, EmptyDomain
<1> QED
  BY <1>1, <1>5, <1>6 DEF FollowInv, Takes, StillSo

\* A step of the page that sends no request.
LEMMA PageStep ==
    ASSUME FollowInv, UNCHANGED <<srv, patching>>, IsPage(ui'),
           Told(ui'.read, ui.read), ui'.patch = ui.patch \/ ui'.patch = Page!Empty
    PROVE  FollowInv'
<1>1. Takes(ui.patch)' /\ (ui'.read # None /\ Usable(ui'.read) => StillSo(ui'.read.answer, ui'.patch))
  <2>1. CASE ui'.patch = Page!Empty
    BY <2>1, EmptyDomain DEF Takes, StillSo
  <2>2. CASE ui'.patch = ui.patch
    BY <2>2 DEF FollowInv, Takes, StillSo, Preparing, Told, Usable
  <2> QED
    BY <2>1, <2>2
<1> QED
  BY <1>1, EmptyDomain DEF FollowInv, Takes, StillSo, Preparing

\* What the property allows to leave the page.
Leaves == \A k \in DOMAIN ui.pending \ DOMAIN ui'.pending :
            \/ srv.values[k] = ui.pending[k]
            \/ managed /\ ~main'.running
            \/ Page!RevertEngineSettings

\* Nothing leaves when nothing staged changes.
LEMMA NothingLeaves == ASSUME ui'.pending = ui.pending PROVE Leaves
BY DEF Leaves

\* A handler that may enlarge what is staged.
LEMMA HandlerStep ==
    ASSUME NEW new, ui' = Page!Settle(ui, new, FALSE, Page!State), UNCHANGED main,
           Follows(ui, new), DOMAIN ui.pending \subseteq DOMAIN new.pending
    PROVE  Follows(ui, ui') /\ Leaves
<1>1. KeepsChanges(new, ui', Page!State)
  BY HandledPage DEF Follows
<1>2. Follows(ui, ui')
  BY <1>1, KeepsFollows, FollowsTwice
<1>3. CASE ui'.pending = new.pending
  BY <1>2, <1>3 DEF Leaves
<1>4. CASE managed /\ Off(Page!State)
  <2>1. ~main'.running
    BY <1>4 DEF Off, Page!State
  <2> QED
    BY <2>1, <1>2, <1>4 DEF Leaves
<1>5. ui'.pending = new.pending \/ (managed /\ Off(Page!State))
  BY <1>1 DEF KeepsChanges
<1> QED
  BY <1>2, <1>3, <1>4, <1>5

\* An event of the main process drops what is staged only with a stopped server.
LEMMA PublishStep ==
    ASSUME IsPage(ui), Page!Publishes
    PROVE  Follows(ui, ui') /\ Leaves
<1>1. KeepsChanges(ui, ui', Page!State')
  BY PublishedPage DEF Page!Publishes
<1>2. Follows(ui, ui')
  BY <1>1, KeepsFollows
<1>3. CASE ui'.pending = ui.pending
  BY <1>2, <1>3, NothingLeaves
<1>4. CASE managed /\ Off(Page!State')
  <2>1. ~main'.running
    BY <1>4 DEF Off, Page!State
  <2> QED
    BY <2>1, <1>2, <1>4 DEF Leaves
<1>5. ui'.pending = ui.pending \/ (managed /\ Off(Page!State'))
  BY <1>1 DEF KeepsChanges
<1> QED
  BY <1>2, <1>3, <1>4, <1>5

\* A step of the page that sends no request keeps the invariant.
LEMMA FollowStep ==
    ASSUME FollowInv, UNCHANGED <<srv, patching>>, Follows(ui, ui')
    PROVE  FollowInv'
BY PageStep DEF Follows

\* A control of the page adds a change.
LEMMA UpdateStep ==
    ASSUME FollowInv, NEW k, NEW v, Page!UpdateEngineSetting(k, v)
    PROVE  FollowInv' /\ Leaves
<1> DEFINE new == [ui EXCEPT !.pending = Page!MergeInto([j \in {k} |-> v], @)]
<1>1. ui' = Page!Settle(ui, new, FALSE, Page!State) /\ UNCHANGED <<srv, main, patching>>
  BY DEF Page!UpdateEngineSetting, Page!Handles
<1>2. /\ DOMAIN new = DOMAIN ui /\ new.read = ui.read /\ new.patch = ui.patch
      /\ new.pending = Page!MergeInto([j \in {k} |-> v], ui.pending)
  BY DEF FollowInv, IsPage, PageFields
<1> HIDE DEF new
<1>3. Follows(ui, new) /\ DOMAIN ui.pending \subseteq DOMAIN new.pending
  BY <1>2 DEF FollowInv, Follows, IsPage, Told, Page!MergeInto
<1>4. Follows(ui, ui') /\ Leaves
  BY <1>1, <1>3, HandlerStep
<1> QED
  BY <1>1, <1>4, FollowStep

\* A PATCH is sent; the page follows nothing until it returns.
LEMMA ApplyStep ==
    ASSUME FollowInv, NEW patch, NEW pending, DOMAIN ui.pending \subseteq DOMAIN pending,
           Page!ApplyEngineSettings(patch, pending)
    PROVE  FollowInv' /\ Leaves
<1> DEFINE w == [ui EXCEPT !.pending = pending, !.requested = FALSE, !.observed = FALSE,
                           !.applying = TRUE]
           new == Page!NewPatch(w, Page!Empty)
<1>1. /\ ui' = Page!Settle(ui, new, FALSE, Page!State) /\ UNCHANGED <<srv, main>>
      /\ patching' = [patch |-> patch, answer |-> None]
  BY DEF Page!ApplyEngineSettings, Page!Handles
<1>2. /\ DOMAIN w = DOMAIN ui /\ w.read = ui.read /\ w.patch = ui.patch /\ w.pending = pending
  BY DEF FollowInv, IsPage, PageFields
<1> HIDE DEF w
<1>3. IsPage(w)
  BY <1>2 DEF FollowInv, IsPage
<1>4. Renewed(w, new, Page!Empty)
  BY <1>3, NewPatchPage
<1> HIDE DEF new
<1>5. Follows(ui, new) /\ DOMAIN ui.pending \subseteq DOMAIN new.pending
  BY <1>2, <1>4 DEF Follows, Renewed, Told
<1>6. Follows(ui, ui') /\ Leaves
  BY <1>1, <1>5, HandlerStep
<1>7. ui'.patch = Page!Empty
  <2>1. Follows(new, ui')
    BY <1>1, <1>4, HandledPage, KeepsFollows DEF Renewed
  <2> QED
    BY <2>1, <1>4 DEF Follows, Renewed
<1>8. IsPage(ui') /\ (ui'.read = ui.read \/ ~Usable(ui'.read) \/ ui'.read = None)
  BY <1>6 DEF Follows, Told, Usable
<1>9. Takes(ui.patch)' /\ StillSo(ui.read.answer, ui.patch)'
  BY <1>7, EmptyDomain DEF Takes, StillSo
<1>10. DOMAIN patching' = {"patch", "answer"} /\ patching'.answer = None
  BY <1>1
<1>11. DOMAIN ui'.patch = {}
  BY <1>7, EmptyDomain
<1> QED
  BY <1>1, <1>6, <1>8, <1>9, <1>10, <1>11 DEF FollowInv, StillSo

\* The user drops what is staged.
LEMMA RevertStep ==
    ASSUME FollowInv, Page!RevertEngineSettings
    PROVE  FollowInv' /\ Leaves
<1> DEFINE w == [ui EXCEPT !.pending = Page!Empty]
           f == Page!FinishPreparation(w)
           new == Page!LoadServerSettings(f, "nobody")
<1>1. ui' = Page!Settle(ui, new, FALSE, Page!State) /\ UNCHANGED <<srv, patching>>
  BY DEF Page!RevertEngineSettings, Page!Handles
<1>2. DOMAIN w = DOMAIN ui /\ w.read = ui.read /\ w.patch = ui.patch
  BY DEF FollowInv, IsPage, PageFields
<1> HIDE DEF w
<1>3. IsPage(w) /\ Follows(ui, w)
  BY <1>2 DEF FollowInv, Follows, IsPage, Told
<1>4. Follows(w, f) /\ IsPage(f)
  BY <1>3, FinishPage, KeepsFollows DEF Follows
<1> HIDE DEF f
<1>5. Follows(f, new) /\ IsPage(new)
  BY <1>4, LoadPage, KeepsFollows DEF Follows
<1> HIDE DEF new
<1>6. Follows(new, ui')
  BY <1>1, <1>5, HandledPage, KeepsFollows
<1>7. Follows(ui, ui')
  BY <1>3, <1>4, <1>5, <1>6, FollowsTwice
<1> QED
  BY <1>1, <1>7, FollowStep DEF Leaves

\* What a usable reply confirms, the server still has.
LEMMA ReadReturnsStep ==
    ASSUME FollowInv, Page!ReadReturns
    PROVE  FollowInv' /\ Leaves
<1>1. UNCHANGED <<srv, main, patching>>
  BY DEF Page!ReadReturns
<1>2. IsPage(ui)
  BY DEF FollowInv
<1>3. /\ Page!ReadEnds
      /\ IsPage(ui') /\ Told(ui'.read, None) /\ (ui'.patch = ui.patch \/ ui'.patch = Page!Empty)
      /\ \/ managed /\ Off(Page!State)
         \/ \A k \in DOMAIN ui.pending \ DOMAIN ui'.pending :
               /\ Usable(ui.read) /\ k \in DOMAIN ui.patch
               /\ ui.patch[k] = ui.pending[k] /\ ui.read.answer.values[k] = ui.patch[k]
  BY <1>2, ReturnPage
<1>4. FollowInv'
  <2>1. Told(ui'.read, ui.read)
    BY <1>3 DEF Told
  <2> QED
    BY <1>1, <1>3, <2>1, PageStep
<1>5. CASE managed /\ Off(Page!State)
  <2>1. ~main'.running
    BY <1>1, <1>5 DEF Off, Page!State
  <2> QED
    BY <2>1, <1>4, <1>5 DEF Leaves
<1>6. ASSUME NEW k \in DOMAIN ui.pending \ DOMAIN ui'.pending,
             Usable(ui.read), k \in DOMAIN ui.patch, ui.patch[k] = ui.pending[k],
             ui.read.answer.values[k] = ui.patch[k]
      PROVE  srv.values[k] = ui.pending[k]
  <2>1. StillSo(ui.read.answer, ui.patch)
    BY <1>3, <1>6 DEF FollowInv, Page!ReadEnds
  <2> QED
    BY <2>1, <1>6 DEF StillSo
<1> QED
  BY <1>3, <1>4, <1>5, <1>6 DEF Leaves

\* A reply is what the server has now, or none.
LEMMA AnswerReadStep ==
    ASSUME FollowInv, Page!AnswerRead \/ Page!FailRead
    PROVE  FollowInv' /\ Leaves
<1>1. /\ ui.read # None /\ UNCHANGED <<srv, patching>>
      /\ \/ ui' = [ui EXCEPT !.read.answer = Page!Reply]
         \/ ui' = [ui EXCEPT !.read.answer = Failed]
  BY DEF Page!AnswerRead, Page!FailRead
<1>2. /\ DOMAIN ui' = DOMAIN ui /\ ui'.patch = ui.patch /\ ui'.pending = ui.pending
      /\ \/ ui'.read = [ui.read EXCEPT !.answer = Page!Reply]
         \/ ui'.read = [ui.read EXCEPT !.answer = Failed]
  BY <1>1 DEF FollowInv, IsPage, PageFields
<1>3. DOMAIN ui.read = {"for", "current", "answer"}
  BY <1>1 DEF FollowInv, IsPage
<1>4. DOMAIN ui'.read = {"for", "current", "answer"} /\ ui'.read.answer \in {Page!Reply, Failed}
  BY <1>2, <1>3
<1>5. IsPage(ui')
  BY <1>2, <1>4 DEF FollowInv, IsPage
<1>6. Usable(ui'.read) => StillSo(ui.read.answer, ui.patch)'
  <2>1. ui'.read.answer = Failed => ~Usable(ui'.read)
    BY DEF Usable
  <2>2. Page!Reply.values = srv.values
    BY DEF Page!Reply
  <2>3. ASSUME ui'.read.answer = Page!Reply PROVE StillSo(ui.read.answer, ui.patch)'
    BY <2>2, <2>3, <1>1 DEF StillSo
  <2> QED
    BY <2>1, <2>3, <1>4
<1>7. Leaves
  BY <1>2, NothingLeaves
<1>8. Takes(ui.patch)'
  BY <1>1, <1>2 DEF FollowInv, Takes, Preparing
<1> QED
  BY <1>1, <1>2, <1>5, <1>6, <1>7, <1>8 DEF FollowInv, Takes, Preparing

\* The server takes the patch, or refuses it.
LEMMA AnswerPatchStep ==
    ASSUME FollowInv, Page!AnswerPatch
    PROVE  FollowInv' /\ Leaves
<1>1. patching # None /\ UNCHANGED ui
  BY DEF Page!AnswerPatch
<1>2. DOMAIN patching = {"patch", "answer"} /\ DOMAIN ui.patch = {}
  BY <1>1 DEF FollowInv
<1>3. Takes(ui.patch)' /\ StillSo(ui.read.answer, ui.patch)'
  BY <1>1, <1>2 DEF Takes, StillSo
<1>4. Leaves
  BY <1>1, NothingLeaves
<1>5. CASE patching' = [patching EXCEPT !.answer = Failed] /\ UNCHANGED srv
  <2>1. DOMAIN patching' = {"patch", "answer"} /\ patching'.answer = Failed
    BY <1>2, <1>5
  <2> QED
    BY <1>1, <1>2, <1>3, <1>4, <1>5, <2>1 DEF FollowInv
<1>6. CASE \E phase \in {srv.phase, "preparing"} :
              /\ srv' = [srv EXCEPT !.candidate = Page!MergeInto(patching.patch, srv.values),
                                    !.phase = phase]
              /\ phase # srv.phase => ~srv.loaded \/ srv'.candidate # srv.values
              /\ patching' = [patching EXCEPT !.answer = [Page!Reply EXCEPT !.eng.phase = phase]]
  <2>1. PICK phase \in {srv.phase, "preparing"} :
              /\ srv' = [srv EXCEPT !.candidate = Page!MergeInto(patching.patch, srv.values),
                                    !.phase = phase]
              /\ patching' = [patching EXCEPT !.answer = [Page!Reply EXCEPT !.eng.phase = phase]]
    BY <1>6
  <2>2. DOMAIN srv' = SrvFields /\ srv'.candidate = Page!MergeInto(patching.patch, srv.values)
    BY <2>1 DEF FollowInv, SrvFields
  <2>3. DOMAIN patching' = {"patch", "answer"} /\ patching'.patch = patching.patch
    BY <2>1, <1>2
  <2>4. Takes(patching.patch)'
    BY <2>2, <2>3 DEF Takes, Page!MergeInto
  <2> QED
    BY <1>1, <1>2, <1>3, <1>4, <2>2, <2>3, <2>4 DEF FollowInv
<1> QED
  BY <1>5, <1>6 DEF Page!AnswerPatch

\* A PATCH fails, before or after the server took it.
LEMMA FailPatchStep ==
    ASSUME FollowInv, Page!FailPatch
    PROVE  FollowInv' /\ Leaves
<1>1. /\ patching # None /\ UNCHANGED <<srv, ui>>
      /\ patching' = [patching EXCEPT !.answer = Failed]
  BY DEF Page!FailPatch
<1>2. DOMAIN patching = {"patch", "answer"} /\ DOMAIN ui.patch = {}
  BY <1>1 DEF FollowInv
<1>3. DOMAIN patching' = {"patch", "answer"} /\ patching'.answer = Failed
  BY <1>1, <1>2
<1>4. Leaves
  BY <1>1, NothingLeaves
<1>5. Takes(ui.patch)' /\ (ui'.read # None /\ Usable(ui'.read) => StillSo(ui.read.answer, ui.patch)')
  BY <1>1 DEF FollowInv, Takes, StillSo, Preparing
<1> QED
  BY <1>1, <1>2, <1>3, <1>4, <1>5 DEF FollowInv

\* The page follows what the server took.
LEMMA PatchReturnsStep ==
    ASSUME FollowInv, Page!PatchReturns
    PROVE  FollowInv' /\ Leaves
<1> DEFINE patch == patching.patch
           answer == patching.answer
           stored == [ui EXCEPT !.settings = answer.values, !.eng = answer.eng]
           renewed == Page!NewPatch(stored, patch)
           begun == [renewed EXCEPT !.requested = TRUE, !.active = TRUE,
                                    !.observed = Page!IsPending(answer.eng)]
           failed == [ui EXCEPT !.applying = FALSE]
           observed == [begun EXCEPT !.applying = FALSE]
           waits == [begun EXCEPT !.applyWaits = TRUE]
           confirms == Page!BeginConfirm(waits)
           new == IF answer = Failed THEN failed ELSE IF begun.observed THEN observed ELSE confirms
<1>1. /\ patching # None /\ answer # None /\ patching' = None
      /\ ui' = Page!Settle(ui, new, FALSE, Page!State) /\ UNCHANGED <<srv, main>>
  BY DEF Page!PatchReturns, Page!PatchEnds, Page!Handles
<1>2. IsPage(ui)
  BY DEF FollowInv
<1>3. /\ DOMAIN failed = DOMAIN ui /\ failed.read = ui.read /\ failed.patch = ui.patch
      /\ failed.pending = ui.pending
  BY <1>2 DEF IsPage, PageFields
<1>4. Follows(ui, failed)
  <2> HIDE DEF failed
  <2> QED
    BY <1>2, <1>3 DEF Follows, IsPage, Told
<1>5. /\ DOMAIN stored = DOMAIN ui /\ stored.read = ui.read /\ stored.pending = ui.pending
  BY <1>2 DEF IsPage, PageFields
<1> HIDE DEF stored
<1>6. IsPage(stored)
  BY <1>2, <1>5 DEF IsPage
<1>7. Renewed(stored, renewed, patch)
  BY <1>6, NewPatchPage
<1> HIDE DEF renewed
<1>8. /\ DOMAIN begun = DOMAIN renewed /\ begun.read = renewed.read /\ begun.patch = renewed.patch
      /\ begun.pending = renewed.pending
  BY <1>7 DEF Renewed, IsPage, PageFields
<1> HIDE DEF begun
<1> DEFINE Starts(v) == /\ IsPage(v) /\ (v.patch = patch \/ v.patch = Page!Empty)
                        /\ v.pending = ui.pending
                        /\ v.read = None \/ ~Usable(v.read)
<1>10. Starts(begun)
  BY <1>5, <1>7, <1>8 DEF Renewed, IsPage, Usable
<1>11. Starts(observed)
  <2>1. /\ DOMAIN observed = DOMAIN begun /\ observed.read = begun.read /\ observed.patch = begun.patch
        /\ observed.pending = begun.pending
    BY <1>10 DEF IsPage, PageFields
  <2> HIDE DEF observed
  <2> QED
    BY <2>1, <1>10 DEF IsPage
<1>12. Starts(waits)
  <2>1. /\ DOMAIN waits = DOMAIN begun /\ waits.read = begun.read /\ waits.patch = begun.patch
        /\ waits.pending = begun.pending
    BY <1>10 DEF IsPage, PageFields
  <2> HIDE DEF waits
  <2> QED
    BY <2>1, <1>10 DEF IsPage
<1> HIDE DEF failed, observed, waits
<1>13. Starts(confirms)
  <2>1. Follows(waits, confirms)
    BY <1>12, BeginConfirmPage, KeepsFollows
  <2>2. confirms.pending = waits.pending
    BY <1>12 DEF Page!BeginConfirm, Page!LoadServerSettings, IsPage, PageFields
  <2> QED
    BY <2>1, <2>2, <1>12 DEF Follows, Told, Usable
<1> HIDE DEF confirms
<1>14. new = failed \/ (answer # Failed /\ Starts(new))
  BY <1>11, <1>13
<1> HIDE DEF new, Starts
<1>15. IsPage(new) /\ new.pending = ui.pending
  BY <1>3, <1>4, <1>14 DEF Follows, Starts
<1>16. KeepsChanges(new, ui', Page!State)
  BY <1>1, <1>15, HandledPage
<1>17. Follows(new, ui')
  BY <1>16, KeepsFollows
<1>18. Leaves
  <2>1. CASE ui'.pending = ui.pending
    BY <2>1, NothingLeaves
  <2>2. CASE managed /\ Off(Page!State)
    <3>1. ~main'.running
      BY <1>1, <2>2 DEF Off, Page!State
    <3> QED
      BY <3>1, <2>2 DEF Leaves
  <2>3. ui'.pending = new.pending \/ (managed /\ Off(Page!State))
    BY <1>16 DEF KeepsChanges
  <2> QED
    BY <2>1, <2>2, <2>3, <1>15
<1>19. CASE new = failed
  <2>1. Follows(ui, ui')
    BY <1>4, <1>17, <1>19, FollowsTwice
  <2>2. Takes(ui.patch)' /\ (ui'.read # None /\ Usable(ui'.read) => StillSo(ui.read.answer, ui.patch)')
    <3>1. CASE ui'.patch = Page!Empty
      BY <3>1, EmptyDomain DEF Takes, StillSo
    <3>2. CASE ui'.patch = ui.patch
      BY <3>2, <2>1, <1>1 DEF FollowInv, Follows, Takes, StillSo, Preparing, Told, Usable
    <3> QED
      BY <3>1, <3>2, <2>1 DEF Follows
  <2> QED
    BY <2>1, <2>2, <1>1, <1>18 DEF FollowInv, Follows
<1>20. CASE answer # Failed /\ Starts(new)
  <2>1. ui'.read = None \/ ~Usable(ui'.read)
    BY <1>17, <1>20 DEF Starts, Follows, Told, Usable
  <2>2. Takes(patch)
    BY <1>1, <1>20 DEF FollowInv
  <2>3. Takes(ui.patch)'
    <3>1. CASE ui'.patch = Page!Empty
      BY <3>1, EmptyDomain DEF Takes
    <3>2. CASE ui'.patch = patch
      BY <3>2, <2>2, <1>1 DEF Takes, Preparing
    <3> QED
      BY <3>1, <3>2, <1>17, <1>20 DEF Follows, Starts
  <2> QED
    BY <2>1, <2>3, <1>1, <1>17, <1>18 DEF FollowInv, Follows
<1> QED
  BY <1>14, <1>19, <1>20

\* What the server does.
LEMMA ServerStep ==
    ASSUME FollowInv,
           Page!BeginPreparation \/ Page!EndPreparation \/ Page!ServerDies \/ Page!ServerStarts \/ Page!EndStart
    PROVE  FollowInv' /\ Leaves
<1>1. UNCHANGED <<ui, patching>>
  BY DEF Page!BeginPreparation, Page!EndPreparation, Page!ServerDies, Page!ServerStarts, Page!EndStart, Page!ServerSteps
<1>2. DOMAIN srv' = SrvFields
  BY DEF Page!BeginPreparation, Page!EndPreparation, Page!ServerDies, Page!ServerStarts, Page!EndStart, FollowInv, SrvFields
<1>3. Preparing' => Preparing /\ srv'.candidate = srv.candidate
  <2>1. CASE Page!BeginPreparation
    <3>1. Preparing /\ DOMAIN srv = SrvFields
      BY <2>1 DEF Page!BeginPreparation, FollowInv, Preparing
    <3>2. CASE srv' = [srv EXCEPT !.candidate = None, !.phase = "ready"]
      BY <3>1, <3>2 DEF SrvFields, Preparing
    <3>3. CASE srv' = [srv EXCEPT !.phase = "preparing"]
      BY <3>1, <3>3 DEF SrvFields
    <3> QED
      <4>1. srv' = IF srv.loaded /\ srv.candidate = srv.values
                   THEN [srv EXCEPT !.candidate = None, !.phase = "ready"]
                   ELSE [srv EXCEPT !.phase = "preparing"]
        BY <2>1 DEF Page!BeginPreparation
      <4>2. \/ srv' = [srv EXCEPT !.candidate = None, !.phase = "ready"]
            \/ srv' = [srv EXCEPT !.phase = "preparing"]
        BY <4>1
      <4> QED
        BY <3>2, <3>3, <4>2
  <2>2. CASE Page!EndPreparation
    <3>1. DOMAIN srv = SrvFields
      BY DEF FollowInv
    <3>2. srv'.candidate = None /\ srv'.phase # "preparing"
      <4>1. CASE srv' = [srv EXCEPT !.values = srv.candidate, !.candidate = None, !.phase = "ready",
                                    !.load = @ + 1, !.loaded = TRUE]
        BY <3>1, <4>1 DEF SrvFields
      <4>2. CASE srv' = [srv EXCEPT !.candidate = None, !.phase = "failed"]
        BY <3>1, <4>2 DEF SrvFields
      <4> QED
        BY <2>2, <4>1, <4>2 DEF Page!EndPreparation
    <3> QED
      BY <3>2 DEF Preparing
  <2>3. CASE Page!ServerDies
    BY <2>3 DEF Page!ServerDies, FollowInv, SrvFields, Preparing
  <2>4. CASE Page!ServerStarts \/ Page!EndStart
    BY <2>4 DEF Page!ServerStarts, Page!EndStart, FollowInv, SrvFields, Preparing
  <2> QED
    BY <2>1, <2>2, <2>3, <2>4
<1>4. srv'.values = srv.values \/ (Preparing /\ srv'.values = srv.candidate)
  BY DEF Page!BeginPreparation, Page!EndPreparation, Page!ServerDies, Page!ServerStarts, Page!EndStart, FollowInv, SrvFields, Preparing
<1>5. Takes(ui.patch)'
  BY <1>1, <1>3 DEF FollowInv, Takes
<1>6. patching' # None /\ patching'.answer \notin {None, Failed} => Takes(patching.patch)'
  BY <1>1, <1>3 DEF FollowInv, Takes
<1>7. ui'.read # None /\ Usable(ui'.read) => StillSo(ui.read.answer, ui.patch)'
  BY <1>1, <1>4 DEF FollowInv, Takes, StillSo
<1>8. Leaves
  BY <1>1, NothingLeaves
<1> QED
  BY <1>1, <1>2, <1>5, <1>6, <1>7, <1>8 DEF FollowInv

\* A state alone changes nothing at the server.
LEMMA PublishFollows ==
    ASSUME FollowInv, Page!Publishes, UNCHANGED <<srv, patching>>
    PROVE  FollowInv' /\ Leaves
<1>1. Follows(ui, ui') /\ Leaves
  BY PublishStep DEF FollowInv
<1> QED
  BY <1>1, FollowStep

\* The states that change nothing at the server.
LEMMA StateStep ==
    ASSUME FollowInv, NEW differs, Page!Refresh \/ Page!ServerIsBack \/ Page!HealthPoll(differs)
    PROVE  FollowInv' /\ Leaves
<1>1. UNCHANGED <<srv, patching>> /\ (Page!Publishes \/ UNCHANGED ui)
  BY DEF Page!Refresh, Page!ServerIsBack, Page!HealthPoll
<1>2. CASE UNCHANGED ui
  <2>1. Follows(ui, ui') /\ Leaves
    BY <1>2, NothingLeaves DEF FollowInv, Follows, Told
  <2> QED
    BY <2>1, <1>1, FollowStep
<1> QED
  BY <1>1, <1>2, PublishFollows

\* The stop drops the candidate, which demands nothing any more.
LEMMA StopStep ==
    ASSUME FollowInv, Page!StopServer
    PROVE  FollowInv' /\ Leaves
<1>1. /\ Page!Publishes /\ UNCHANGED patching
      /\ srv' = [srv EXCEPT !.up = FALSE, !.candidate = None, !.loaded = FALSE, !.phase = "starting"]
  BY DEF Page!StopServer
<1>2. DOMAIN srv' = SrvFields /\ srv'.values = srv.values /\ ~Preparing'
  BY <1>1 DEF FollowInv, SrvFields, Preparing
<1>3. Follows(ui, ui') /\ Leaves
  BY <1>1, PublishStep DEF FollowInv
<1>4. ui'.read # None /\ Usable(ui'.read) => StillSo(ui.read.answer, ui.patch)'
  <2>1. CASE ui'.patch = Page!Empty
    BY <2>1, EmptyDomain DEF StillSo
  <2>2. CASE ui'.patch = ui.patch
    BY <2>2, <1>2, <1>3 DEF FollowInv, Follows, StillSo, Told, Usable
  <2> QED
    BY <2>1, <2>2, <1>3 DEF Follows
<1>5. patching' # None => DOMAIN ui'.patch = {}
  BY <1>1, <1>3, EmptyDomain DEF FollowInv, Follows
<1> QED
  BY <1>1, <1>2, <1>3, <1>4, <1>5 DEF FollowInv, Follows, Takes

\* Every step keeps the invariant and drops only what it may.
LEMMA FollowNext ==
    ASSUME FollowInv, [Page!Next]_(Page!vars)
    PROVE  FollowInv' /\ (Leaves \/ UNCHANGED Page!vars)
<1>1. ASSUME NEW k \in Keys, NEW v \in Values, Page!UpdateEngineSetting(k, v) PROVE FollowInv' /\ Leaves
  BY <1>1, UpdateStep
<1>2. CASE Page!ApplyPending
  BY <1>2, ApplyStep DEF Page!ApplyPending
<1>3. ASSUME NEW v \in Values, Page!SelectPreset(v) PROVE FollowInv' /\ Leaves
  <2> DEFINE patch == [k \in {Model} |-> v]
             pending == Page!MergeInto(patch, ui.pending)
  <2>1. Page!ApplyEngineSettings(patch, pending)
    BY <1>3 DEF Page!SelectPreset
  <2>2. DOMAIN ui.pending \subseteq DOMAIN pending
    BY DEF Page!MergeInto
  <2> HIDE DEF patch, pending
  <2> QED
    BY <2>1, <2>2, ApplyStep
<1>4. ASSUME NEW differs \in BOOLEAN, Page!HealthPoll(differs) PROVE FollowInv' /\ Leaves
  BY <1>4, StateStep
<1>5. CASE Page!Refresh \/ Page!ServerIsBack
  BY <1>5, StateStep
<1>6. CASE UNCHANGED Page!vars
  BY <1>6 DEF Page!vars, FollowInv, Takes, Preparing, StillSo, SrvFields
<1> QED
  BY <1>1, <1>2, <1>3, <1>4, <1>5, <1>6, RevertStep, AnswerReadStep, ReadReturnsStep,
     AnswerPatchStep, FailPatchStep, PatchReturnsStep, ServerStep, StopStep DEF Page!Next

(* A change staged on the settings page is dropped only when the server has  *)
(* committed it, when the user reverts, or when the server of the app        *)
(* stopped, whatever the order of replies, states and failures.              *)
THEOREM ChangesAreKept == Page!Spec => Page!ClearedIsCommitted
<1>1. Page!Init => FollowInv
  BY FollowInit
<1>2. FollowInv /\ [Page!Next]_(Page!vars) => FollowInv'
  BY FollowNext
<1>3. FollowInv /\ [Page!Next]_(Page!vars) =>
        [\A k \in DOMAIN ui.pending \ DOMAIN ui'.pending :
           \/ srv.values[k] = ui.pending[k]
           \/ managed /\ ~main'.running
           \/ Page!RevertEngineSettings]_(Page!vars)
  BY FollowNext DEF Leaves
<1> QED
  BY <1>1, <1>2, <1>3, PTL DEF Page!Spec, Page!ClearedIsCommitted
=============================================================================
