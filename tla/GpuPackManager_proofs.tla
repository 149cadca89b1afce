------------------------- MODULE GpuPackManager_proofs -------------------------
(***************************************************************************)
(* One thread of all app processes is in the mutation lock, transfers do   *)
(* not mix, an install goes on with pinned bytes alone, and the packs,     *)
(* whatever the apps, their servers and crashes do, follow PackStore.      *)
(***************************************************************************)
EXTENDS GpuPackManager, TLAPS

-------------------------------------------------------------------------------
(* Types.                                                                  *)

LeasePlaces == OutsideLock \cup {"unguard", "locked", "unlock"}
Places == OutsideLock \cup InLock

Contents == {"absent", "valid", "damaged", "gutted", "empty", "foreign"}
Parts == [len : -1..Chunks, bad : 1..Good, meta : -1..Chunks, metaBad : 1..Good]
Consumers == [owner : Servers, kind : {"wrapper", "daemon"}, by : Nat]
Leases == [pack : Packs, owner : Servers, inc : Nat, pids : SUBSET Consumers, bound : BOOLEAN]

TypeInv ==
    /\ dir \in [Packs -> Contents] /\ part \in [Packs -> Parts]
    /\ lock \in Locks \cup {None} /\ leases \subseteq Leases /\ orphans \subseteq {"bare", "marked"}
    /\ inc \in [Procs -> Nat] /\ pc \in [Threads -> Places]
    /\ job \in [Threads -> {"install", "repair", "remove", "lease", None}]
    /\ seen \in [Threads -> Locks \cup {None}] /\ victims \in [Threads -> SUBSET Packs]
    /\ stage \in [Procs -> {None, "bare", "marked"}] /\ off \in [Procs -> -1..Chunks]
    /\ consumers \subseteq Consumers /\ faults \in 0..MaxFaults

\* The lease thread of a process only takes the lock, writes its record and unlocks.
PlaceInv ==
    \A t \in Threads :
        /\ t[2] = "lease" => pc[t] \in LeasePlaces
        /\ pc[t] # "idle" => (job[t] = "lease" <=> t[2] = "lease")

-------------------------------------------------------------------------------
(* The lock.                                                               *)

\* The lock is the record of the thread inside it.
HolderInv ==
    \A t \in Threads :
        /\ pc[t] \in InLock => lock = LockOf(t, TRUE)
        /\ pc[t] = "write" => lock = LockOf(t, FALSE)

\* The recovery guard is the record of the one thread that reclaims.
GuardInv ==
    \A t \in Threads :
        pc[t] \in {"recheck", "unlink", "recreate", "giveup", "unguard"} => guard = LockOf(t, TRUE)

\* What is found stale is a lock; what is unlinked is a dead process's lock.
StaleInv ==
    \A t \in Threads :
        /\ pc[t] \in {"guard", "recheck"} => seen[t] \in Locks
        /\ pc[t] = "unlink" => lock \in Locks /\ ~ProcessAlive(lock)

\* Incarnations only grow: a dead process stays dead.
PastInv ==
    /\ lock \in Locks => lock.inc <= inc[lock.owner]
    /\ \A l \in leases : l.inc <= inc[l.owner]

LockInv == HolderInv /\ GuardInv /\ StaleInv

-------------------------------------------------------------------------------
(* Leases and removals.                                                    *)

RecordInv ==
    \A l \in leases :
        /\ l.pack = PackOf[l.owner]
        /\ l.bound => l.pids # {}
        /\ \A c \in l.pids : c.owner = l.owner

\* The record that protects consumer c: the one its starter held.  Once it is
\* bound, it names the wrapper and the server.
Covers(l, c) ==
    /\ l.owner = c.owner /\ l.inc = c.by
    /\ l.bound => {[c EXCEPT !.kind = "wrapper"], [c EXCEPT !.kind = "daemon"]} \subseteq l.pids

ConsumerInv ==
    /\ \A c \in consumers : \E l \in leases : Covers(l, c)
    /\ \A c, d \in consumers : c.owner = d.owner => c.by = d.by

\* A leased pack can be loaded from; what is being removed is not leased.
LeasedInv == \A k \in Packs : Leased(k) => dir[k] \in {"valid", "damaged"}
RemovalInv ==
    \A t \in Threads :
        /\ victims[t] # {} => Removing(t)
        /\ \A k \in victims[t] : ~Leased(k)

PackInv == RecordInv /\ ConsumerInv /\ LeasedInv /\ RemovalInv

-------------------------------------------------------------------------------
(* Transfers.                                                              *)

TransferInv ==
    /\ \A p \in Procs : off[p] >= 0 => pc[<<p, "op">>] = "stream"
    /\ \A t \in Threads :
          /\ pc[t] = "stream" => off[Owner(t)] >= 0
          /\ pc[t] = "fetch" => part[Mine(t)].len = part[Mine(t)].meta

IInv == TypeInv /\ PlaceInv /\ LockInv /\ PastInv /\ PackInv /\ TransferInv /\ TransfersDoNotMix

-------------------------------------------------------------------------------
(* Facts used throughout.                                                  *)

LEMMA ThreadFacts ==
    ASSUME NEW t \in Threads
    PROVE  /\ Owner(t) \in Procs /\ t[2] \in {"op", "lease"} /\ t = <<Owner(t), t[2]>>
           /\ Mine(t) \in Packs
           /\ t[2] = "lease" => Owner(t) \in Servers
BY PackAssumption DEF Threads, Owner, Mine

LEMMA SameRecord ==
    ASSUME NEW t \in Threads, NEW u \in Threads, NEW v, NEW w, LockOf(t, v) = LockOf(u, w)
    PROVE  t = u /\ v = w
<1>1. Owner(t) = Owner(u) /\ t[2] = u[2] /\ v = w
  BY DEF LockOf
<1> QED BY <1>1, ThreadFacts

LEMMA RecordFacts ==
    ASSUME TypeInv, NEW t \in Threads, NEW v \in BOOLEAN
    PROVE  /\ LockOf(t, v) \in Locks /\ LockOf(t, v) # None /\ ProcessAlive(LockOf(t, v))
           /\ LockOf(t, v).inc = inc[LockOf(t, v).owner]
<1>1. Owner(t) \in Procs /\ t[2] \in {"op", "lease"} /\ inc[Owner(t)] \in Nat
  BY ThreadFacts DEF TypeInv
<1>2. LockOf(t, v) \in Locks
  BY <1>1 DEF LockOf, Locks
<1> QED BY <1>2, NoneAssumption DEF LockOf, ProcessAlive

(* One thread at a time changes packs, stages and partials, also when      *)
(* several processes find the lock of a dead one and reclaim it together.  *)
LEMMA Exclusive == HolderInv => OneMutator
<1> SUFFICES ASSUME HolderInv, NEW t \in Threads, NEW u \in Threads,
                    pc[t] \in InLock, pc[u] \in InLock
             PROVE  t = u
  BY DEF OneMutator
<1>1. LockOf(t, TRUE) = LockOf(u, TRUE)
  BY DEF HolderInv
<1> QED BY <1>1, SameRecord

-------------------------------------------------------------------------------
(* What the steps do to the lock.                                          *)

\* A step inside the lock, as the lock sees it: the thread stays inside.
Inner(t) ==
    /\ pc[t] \in InLock /\ \E place \in InLock \ {"unguard"} : pc' = [pc EXCEPT ![t] = place]
    /\ \A u \in Threads \ {t} : seen'[u] = seen[u]
    /\ UNCHANGED <<lock, guard, inc>>

InnerStep(t) ==
    \/ WriteLease(t)
    \/ InstallCheck(t) \/ MarkStage(t) \/ Inspect(t) \/ Fetch(t) \/ Chunk(t) \/ FinishDownload(t)
    \/ Interrupt(t) \/ Unpack(t) \/ PublishCheck(t) \/ UnmarkStage(t) \/ RenameStage(t) \/ Tidy(t)
    \/ PruneStart(t) \/ RemoveStart(t) \/ Sweep(t) \/ SweepDone(t) \/ SweepFails(t) \/ Cleanup(t)
    \/ RepairCheck(t) \/ Checkpoint(t)

LEMMA InnerSteps ==
    ASSUME TypeInv, NEW t \in Threads, InnerStep(t)
    PROVE  Inner(t)
<1> USE DEF Inner, InLock, Goto, TypeInv, disk, thread, local
<1>1. CASE WriteLease(t) BY <1>1 DEF WriteLease
<1>2. CASE InstallCheck(t) BY <1>2 DEF InstallCheck
<1>3. CASE MarkStage(t) BY <1>3 DEF MarkStage
<1>4. CASE Inspect(t) BY <1>4 DEF Inspect
<1>5. CASE Fetch(t) BY <1>5 DEF Fetch
<1>6. CASE Chunk(t) \/ Checkpoint(t)
  <2>1. pc = [pc EXCEPT ![t] = pc[t]] /\ pc[t] = "stream"
    BY <1>6 DEF Chunk, Checkpoint, Streaming
  <2> QED BY <1>6, <2>1 DEF Chunk, Checkpoint
<1>7. CASE FinishDownload(t) \/ Interrupt(t) BY <1>7 DEF FinishDownload, Interrupt, Streaming
<1>8. CASE Unpack(t) BY <1>8 DEF Unpack
<1>9. CASE PublishCheck(t) BY <1>9 DEF PublishCheck
<1>10. CASE UnmarkStage(t) \/ RenameStage(t) BY <1>10 DEF UnmarkStage, RenameStage
<1>11. CASE Tidy(t) \/ PruneStart(t) BY <1>11 DEF Tidy, PruneStart
<1>12. CASE RemoveStart(t) BY <1>12 DEF RemoveStart
<1>13. CASE Sweep(t) BY <1>13 DEF Sweep, Removing
<1>14. CASE SweepDone(t) BY <1>14 DEF SweepDone, AfterSweep, Removing
<1>15. CASE SweepFails(t) BY <1>15 DEF SweepFails, Removing
<1>16. CASE Cleanup(t) \/ RepairCheck(t) BY <1>16 DEF Cleanup, RepairCheck
<1> QED
  BY <1>1, <1>2, <1>3, <1>4, <1>5, <1>6, <1>7, <1>8, <1>9, <1>10, <1>11, <1>12, <1>13, <1>14,
     <1>15, <1>16 DEF InnerStep
LEMMA LockSteps ==
    ASSUME IInv, [Next]_vars
    PROVE  \/ \E t \in Threads :
                 \/ TryLock(t) \/ WriteLock(t) \/ TakeGuard(t) \/ ReclaimLock(t) \/ UnlinkLock(t)
                 \/ Recreate(t) \/ DropGuard(t) \/ Unlock(t) \/ Inner(t)
                 \/ \E what \in {"install", "repair", "remove", "lease"} : Request(t, what)
           \/ \E p \in Procs : Crash(p)
           \/ UNCHANGED <<lock, guard, inc, pc, seen>>
<1>1. CASE \E p \in Servers : Server(p)
  BY <1>1 DEF Server, Spawn, BindWrapper, BindServer, Release, disk, thread, local, Rest
<1>2. CASE \E c \in consumers : StartDaemon(c) \/ ServerExits(c)
  BY <1>2 DEF StartDaemon, ServerExits, disk, thread, local
<1>3. CASE \E k \in Packs : Meddle(k)
  BY <1>3 DEF Meddle, thread, local
<1>4. CASE UNCHANGED vars
  BY <1>4 DEF vars, disk, thread, local
<1>5. ASSUME NEW t \in Threads, InnerStep(t) PROVE Inner(t)
  BY <1>5, InnerSteps DEF IInv
<1> HIDE DEF Inner
<1> QED BY <1>1, <1>2, <1>3, <1>4, <1>5 DEF Next, Step, InnerStep

\* A step of thread t that leaves the lock, the guard and the clock alone.
LEMMA QuietStep ==
    ASSUME TypeInv, LockInv, NEW t \in Threads, NEW place \in Places,
           pc' = [pc EXCEPT ![t] = place], \A u \in Threads \ {t} : seen'[u] = seen[u],
           UNCHANGED <<lock, guard, inc>>,
           place \in InLock => pc[t] \in InLock,
           place \in {"recheck", "unlink", "recreate", "giveup", "unguard"} =>
               pc[t] \in {"recheck", "unlink", "recreate", "giveup", "unguard"},
           place = "write" => pc[t] = "write",
           place \in {"guard", "recheck"} => seen'[t] \in Locks,
           place = "unlink" => lock \in Locks /\ ~ProcessAlive(lock)
    PROVE  LockInv'
<1>1. \A u \in Threads : pc'[u] = IF u = t THEN place ELSE pc[u]
  BY DEF TypeInv
<1>2. \A u \in Threads, w \in BOOLEAN : LockOf(u, w)' = LockOf(u, w)
  BY DEF LockOf
<1>3. HolderInv'
  BY <1>1, <1>2, ZenonT(60) DEF LockInv, HolderInv
<1>4. GuardInv'
  BY <1>1, <1>2 DEF LockInv, GuardInv
<1>5. StaleInv'
  <2>1. lock \in Locks => ProcessAlive(lock)' = ProcessAlive(lock)
    BY DEF ProcessAlive
  <2> QED BY <1>1, <2>1 DEF LockInv, StaleInv, ProcessAlive
<1> QED BY <1>3, <1>4, <1>5 DEF LockInv

\* Nobody is in the lock, or about to be, but its record's owner.
LEMMA NobodyInside ==
    ASSUME TypeInv, LockInv, lock = None \/ (lock \in Locks /\ ~ProcessAlive(lock)),
           NEW t \in Threads
    PROVE  pc[t] \notin InLock /\ pc[t] # "write"
<1>1. \A w \in BOOLEAN : LockOf(t, w) # None /\ ProcessAlive(LockOf(t, w))
  BY RecordFacts
<1> QED BY <1>1 DEF LockInv, HolderInv
\* A step of thread t that changes the lock while everybody else is outside.
LEMMA SoleStep ==
    ASSUME TypeInv, LockInv, NEW t \in Threads, NEW place \in Places,
           pc' = [pc EXCEPT ![t] = place], \A u \in Threads \ {t} : seen'[u] = seen[u],
           UNCHANGED <<guard, inc>>,
           \A u \in Threads \ {t} : pc[u] \notin InLock /\ pc[u] # "write" /\ pc[u] # "unlink",
           place \in InLock => lock' = LockOf(t, TRUE), place = "write" => lock' = LockOf(t, FALSE),
           place \in {"recheck", "unlink", "recreate", "giveup", "unguard"} => guard = LockOf(t, TRUE),
           place \notin {"guard", "recheck", "unlink"}
    PROVE  LockInv'
<1>1. \A u \in Threads : pc'[u] = IF u = t THEN place ELSE pc[u]
  BY DEF TypeInv
<1>2. \A u \in Threads, w \in BOOLEAN : LockOf(u, w)' = LockOf(u, w)
  BY DEF LockOf
<1>3. HolderInv'
  BY <1>1, <1>2 DEF HolderInv
<1>4. GuardInv'
  BY <1>1, <1>2 DEF LockInv, GuardInv
<1>5. StaleInv'
  BY <1>1 DEF LockInv, StaleInv
<1> QED BY <1>3, <1>4, <1>5 DEF LockInv

\* While t is at its record, the lock is nobody else's and not stale.
LEMMA OthersOutside ==
    ASSUME TypeInv, LockInv, NEW t \in Threads, NEW w \in BOOLEAN, lock = LockOf(t, w),
           NEW u \in Threads \ {t}
    PROVE  pc[u] \notin InLock /\ pc[u] # "write" /\ pc[u] # "unlink"
<1>1. lock \in Locks /\ ProcessAlive(lock)
  BY RecordFacts
<1>2. \A v \in BOOLEAN : lock # LockOf(u, v)
  BY SameRecord
<1> QED BY <1>1, <1>2 DEF LockInv, HolderInv, StaleInv

LEMMA CreateStep ==
    ASSUME TypeInv, LockInv, NEW t \in Threads, Create(t), Goto(t, "write"), UNCHANGED <<guard, inc>>
    PROVE  LockInv'
<1>1. lock = None /\ None \notin Locks /\ lock' = LockOf(t, FALSE)
  BY NoneAssumption DEF Create
<1>2. \A u \in Threads : pc[u] \notin InLock /\ pc[u] # "write" /\ pc[u] # "unlink"
  BY <1>1, NobodyInside DEF LockInv, StaleInv
<1>3. pc' = [pc EXCEPT ![t] = "write"] /\ \A u \in Threads \ {t} : seen'[u] = seen[u]
  BY DEF Goto, TypeInv
<1>4. "write" \in Places \ InLock
  BY DEF Places, OutsideLock, InLock
<1> QED BY <1>1, <1>2, <1>3, <1>4, SoleStep

LEMMA LockPreserved ==
    ASSUME IInv, [Next]_vars
    PROVE  LockInv'
<1> USE DEF IInv
<1>0. /\ OutsideLock \subseteq Places /\ InLock \subseteq Places
      /\ \A place \in OutsideLock : place \notin InLock
  BY DEF OutsideLock, Places, InLock
<1>1. ASSUME NEW t \in Threads, TryLock(t) PROVE LockInv'
  <2>1. CASE Create(t)
    <3>1. Goto(t, "write") /\ UNCHANGED <<guard, inc>>
      BY <1>1, <2>1 DEF TryLock, local, Create
    <3> QED BY <2>1, <3>1, CreateStep
  <2>2. CASE ~Create(t) /\ lock.written /\ ~ProcessAlive(lock)
    <3>1. /\ pc' = [pc EXCEPT ![t] = "guard"] /\ seen' = [seen EXCEPT ![t] = lock]
          /\ lock # None /\ UNCHANGED <<lock, guard, inc>>
      BY <1>1, <2>2 DEF TryLock, local
    <3>2. seen'[t] \in Locks /\ \A u \in Threads \ {t} : seen'[u] = seen[u]
      BY <3>1 DEF TypeInv
    <3> QED BY <1>0, <3>1, <3>2, QuietStep DEF OutsideLock, InLock
  <2>3. CASE ~Create(t) /\ ~(lock.written /\ ~ProcessAlive(lock))
    <3>1. Goto(t, "idle") /\ UNCHANGED <<lock, guard, inc>>
      BY <1>1, <2>3 DEF TryLock, local
    <3>2. pc' = [pc EXCEPT ![t] = "idle"] /\ \A u \in Threads \ {t} : seen'[u] = seen[u]
      BY <3>1 DEF TypeInv, Goto
    <3> QED BY <1>0, <3>1, <3>2, QuietStep DEF OutsideLock, InLock
  <2> QED BY <2>1, <2>2, <2>3
<1>2. ASSUME NEW t \in Threads, WriteLock(t) PROVE LockInv'
  <2> DEFINE place == IF guard = LockOf(t, TRUE) THEN "unguard" ELSE "locked"
  <2>1. /\ lock' = LockOf(t, TRUE) /\ Goto(t, place) /\ UNCHANGED <<guard, inc>>
        /\ lock = LockOf(t, FALSE)
    BY <1>2 DEF WriteLock, local, LockInv, HolderInv
  <2>2. pc' = [pc EXCEPT ![t] = place] /\ \A u \in Threads \ {t} : seen'[u] = seen[u]
    BY <2>1 DEF Goto, TypeInv
  <2>3. place \in InLock /\ place \notin OutsideLock /\ (place = "unguard" => guard = LockOf(t, TRUE))
    BY DEF InLock, OutsideLock
  <2> HIDE DEF place
  <2>4. \A u \in Threads \ {t} : pc[u] \notin InLock /\ pc[u] # "write" /\ pc[u] # "unlink"
    BY <2>1, OthersOutside
  <2> QED BY <1>0, <2>1, <2>2, <2>3, <2>4, SoleStep DEF OutsideLock
<1>3. ASSUME NEW t \in Threads, TakeGuard(t) PROVE LockInv'
  <2>1. CASE guard = None
    <3>1. /\ guard' = LockOf(t, TRUE) /\ pc[t] = "guard" /\ UNCHANGED <<lock, inc>>
          /\ pc' = [pc EXCEPT ![t] = "recheck"] /\ UNCHANGED seen
      <4>1. seen' = [seen EXCEPT ![t] = seen[t]]
        BY <1>3, <2>1 DEF TakeGuard, Goto
      <4> QED BY <1>3, <2>1, <4>1 DEF TakeGuard, Goto, local, TypeInv
    <3>2. \A u \in Threads : LockOf(u, TRUE) # guard
      BY <2>1, RecordFacts
    <3>3. \A u \in Threads : pc'[u] = IF u = t THEN "recheck" ELSE pc[u]
      BY <3>1 DEF TypeInv
    <3>4. \A u \in Threads, w \in BOOLEAN : LockOf(u, w)' = LockOf(u, w)
      BY <3>1 DEF LockOf
    <3>5. HolderInv'
      <4>1. "recheck" \notin InLock
        BY DEF InLock
      <4>2. HolderInv /\ lock' = lock /\ "recheck" # "write"
        BY <3>1 DEF LockInv
      <4>3. \A u \in Threads : (pc'[u] \in InLock => pc[u] \in InLock) /\ (pc'[u] = "write" => pc[u] = "write")
        BY <3>3, <4>1
      <4>4. \A u \in Threads : LockOf(u, TRUE)' = LockOf(u, TRUE) /\ LockOf(u, FALSE)' = LockOf(u, FALSE)
        BY <3>4
      <4> QED BY <4>2, <4>3, <4>4 DEF HolderInv
    <3>6. GuardInv'
      BY <3>1, <3>2, <3>3, <3>4 DEF LockInv, GuardInv
    <3>7. StaleInv'
      <4>1. lock \in Locks => ProcessAlive(lock)' = ProcessAlive(lock)
        BY <3>1 DEF ProcessAlive
      <4> QED BY <3>1, <3>3, <4>1 DEF LockInv, StaleInv, ProcessAlive
    <3> QED BY <3>5, <3>6, <3>7 DEF LockInv
  <2>2. CASE guard # None
    <3>1. Goto(t, "idle") /\ UNCHANGED <<lock, guard, inc>>
      BY <1>3, <2>2 DEF TakeGuard, local
    <3>2. pc' = [pc EXCEPT ![t] = "idle"] /\ \A u \in Threads \ {t} : seen'[u] = seen[u]
      BY <3>1 DEF TypeInv, Goto
    <3> QED BY <1>0, <3>1, <3>2, QuietStep DEF OutsideLock, InLock
  <2> QED BY <2>1, <2>2
<1>4. ASSUME NEW t \in Threads, ReclaimLock(t) PROVE LockInv'
  <2> DEFINE place == IF StillStale(t) THEN "unlink" ELSE "giveup"
  <2>1. pc[t] = "recheck" /\ Goto(t, place) /\ UNCHANGED <<lock, guard, inc>>
    BY <1>4 DEF ReclaimLock, local, disk
  <2>2. pc' = [pc EXCEPT ![t] = place] /\ \A u \in Threads \ {t} : seen'[u] = seen[u]
    BY <2>1 DEF Goto, TypeInv
  <2>3. place \in {"unlink", "giveup"}
    OBVIOUS
  <2>4. place = "unlink" => lock \in Locks /\ ~ProcessAlive(lock)
    BY <2>1 DEF StillStale, LockInv, StaleInv
  <2> HIDE DEF place
  <2> QED BY <1>0, <2>1, <2>2, <2>3, <2>4, QuietStep DEF OutsideLock
<1>5. ASSUME NEW t \in Threads, UnlinkLock(t) PROVE LockInv'
  <2>1. /\ pc[t] = "unlink" /\ lock' = None /\ Goto(t, "recreate") /\ UNCHANGED <<guard, inc>>
        /\ guard = LockOf(t, TRUE) /\ lock \in Locks /\ ~ProcessAlive(lock)
    BY <1>5 DEF UnlinkLock, local, LockInv, GuardInv, StaleInv
  <2>2. pc' = [pc EXCEPT ![t] = "recreate"] /\ \A u \in Threads \ {t} : seen'[u] = seen[u]
    BY <2>1 DEF Goto, TypeInv
  <2>3. \A u \in Threads \ {t} : LockOf(u, TRUE) # guard
    BY <2>1, SameRecord
  <2>4. \A u \in Threads \ {t} : pc[u] \notin InLock /\ pc[u] # "write" /\ pc[u] # "unlink"
    BY <2>1, <2>3, NobodyInside DEF LockInv, GuardInv
  <2> QED BY <1>0, <2>1, <2>2, <2>4, SoleStep DEF OutsideLock
<1>6. ASSUME NEW t \in Threads, Recreate(t) PROVE LockInv'
  <2>1. CASE Create(t) /\ Goto(t, "write")
    BY <1>6, <2>1, CreateStep DEF Recreate, local
  <2>2. CASE UNCHANGED lock /\ Goto(t, "giveup")
    <3>1. pc[t] = "recreate" /\ UNCHANGED <<lock, guard, inc>>
      BY <1>6, <2>2 DEF Recreate, local
    <3>2. pc' = [pc EXCEPT ![t] = "giveup"] /\ \A u \in Threads \ {t} : seen'[u] = seen[u]
      BY <2>2 DEF TypeInv, Goto
    <3> QED BY <1>0, <3>1, <3>2, QuietStep DEF OutsideLock
  <2> QED BY <1>6, <2>1, <2>2 DEF Recreate
<1>7. ASSUME NEW t \in Threads, DropGuard(t) PROVE LockInv'
  <2> DEFINE place == IF pc[t] = "unguard" THEN "locked" ELSE "idle"
  <2>1. /\ pc[t] \in {"unguard", "giveup"} /\ guard' = None /\ Goto(t, place) /\ UNCHANGED <<lock, inc>>
        /\ guard = LockOf(t, TRUE)
    BY <1>7 DEF DropGuard, local, LockInv, GuardInv
  <2>2. pc' = [pc EXCEPT ![t] = place] /\ \A u \in Threads \ {t} : seen'[u] = seen[u]
    BY <2>1 DEF Goto, TypeInv
  <2>3. \A u \in Threads \ {t} : LockOf(u, TRUE) # guard
    BY <2>1, SameRecord
  <2>4. \A u \in Threads : pc'[u] = IF u = t THEN place ELSE pc[u]
    BY <2>2 DEF TypeInv
  <2>5. \A u \in Threads, w \in BOOLEAN : LockOf(u, w)' = LockOf(u, w)
    BY <2>1 DEF LockOf
  <2>6. HolderInv'
    BY <2>1, <2>4, <2>5 DEF LockInv, HolderInv, InLock
  <2>7. GuardInv'
    BY <2>3, <2>4, <2>5 DEF LockInv, GuardInv
  <2>8. StaleInv'
    <3>1. lock \in Locks => ProcessAlive(lock)' = ProcessAlive(lock)
      BY <2>1 DEF ProcessAlive
    <3> QED BY <2>1, <2>2, <2>4, <3>1 DEF LockInv, StaleInv, ProcessAlive
  <2> QED BY <2>6, <2>7, <2>8 DEF LockInv
<1>8. ASSUME NEW t \in Threads, Unlock(t) PROVE LockInv'
  <2> DEFINE place == IF pc[t] = "handover" THEN "lock" ELSE "idle"
  <2>1. pc[t] \in InLock /\ lock = LockOf(t, TRUE)
    BY <1>8 DEF Unlock, LockInv, HolderInv, InLock
  <2>2. /\ lock' = None /\ UNCHANGED <<guard, inc>> /\ pc' = [pc EXCEPT ![t] = place]
        /\ \A u \in Threads \ {t} : seen'[u] = seen[u]
    BY <1>8, <2>1 DEF Unlock, Goto, TypeInv, local
  <2>3. place \in {"lock", "idle"}
    OBVIOUS
  <2> HIDE DEF place
  <2>4. \A u \in Threads \ {t} : pc[u] \notin InLock /\ pc[u] # "write" /\ pc[u] # "unlink"
    BY <2>1, OthersOutside
  <2> QED BY <1>0, <2>2, <2>3, <2>4, SoleStep DEF OutsideLock
<1>9. ASSUME NEW t \in Threads, Inner(t) PROVE LockInv'
  <2>1. PICK place \in InLock \ {"unguard"} : pc' = [pc EXCEPT ![t] = place]
    BY <1>9 DEF Inner
  <2>2. place \notin OutsideLock /\ place # "unguard"
    BY <1>0, <2>1
  <2> QED BY <1>0, <1>9, <2>1, <2>2, QuietStep DEF Inner, OutsideLock
<1>10. ASSUME NEW t \in Threads, NEW what \in {"install", "repair", "remove", "lease"}, Request(t, what)
       PROVE  LockInv'
  <2>1. /\ pc' = [pc EXCEPT ![t] = "lock"] /\ \A u \in Threads \ {t} : seen'[u] = seen[u]
        /\ UNCHANGED <<lock, guard, inc>>
    BY <1>10 DEF Request, disk, local
  <2> QED BY <1>0, <2>1, QuietStep DEF OutsideLock, InLock
<1>11. ASSUME NEW p \in Procs, Crash(p) PROVE LockInv'
  <2>1. /\ \A u \in Threads : /\ pc'[u] = IF Owner(u) = p THEN "idle" ELSE pc[u]
                              /\ seen'[u] = IF Owner(u) = p THEN None ELSE seen[u]
        /\ inc' = [inc EXCEPT ![p] = @ + 1] /\ UNCHANGED <<lock, guard>>
    BY <1>11 DEF Crash
  <2>2. \A u \in Threads, w \in BOOLEAN : Owner(u) # p => LockOf(u, w)' = LockOf(u, w)
    BY <2>1, ThreadFacts DEF LockOf, TypeInv
  <2>3. lock \in Locks /\ ~ProcessAlive(lock) => ~ProcessAlive(lock)'
    BY <2>1 DEF ProcessAlive, PastInv, TypeInv, Locks
  <2>4. HolderInv'
    BY <2>1, <2>2 DEF LockInv, HolderInv, InLock
  <2>5. GuardInv'
    BY <2>1, <2>2 DEF LockInv, GuardInv
  <2>6. StaleInv'
    BY <2>1, <2>3 DEF LockInv, StaleInv, ProcessAlive
  <2> QED BY <2>4, <2>5, <2>6 DEF LockInv
<1>12. CASE UNCHANGED <<lock, guard, inc, pc, seen>>
  <2>1. \A u \in Threads, w \in BOOLEAN : LockOf(u, w)' = LockOf(u, w)
    BY <1>12 DEF LockOf
  <2> QED BY <1>12, <2>1 DEF LockInv, HolderInv, GuardInv, StaleInv, ProcessAlive
<1> QED
  BY <1>1, <1>2, <1>3, <1>4, <1>5, <1>6, <1>7, <1>8, <1>9, <1>10, <1>11, <1>12, LockSteps
-------------------------------------------------------------------------------
(* Types, places and incarnations.                                         *)

\* What Goto does to the types of a thread's variables.
LEMMA GotoTypes ==
    ASSUME TypeInv, NEW t \in Threads, NEW place \in Places, Goto(t, place)
    PROVE  /\ pc' = [pc EXCEPT ![t] = place] /\ pc' \in [Threads -> Places]
           /\ job' \in [Threads -> {"install", "repair", "remove", "lease", None}]
           /\ job'[t] = IF place = "idle" THEN None ELSE job[t]
           /\ \A u \in Threads \ {t} : job'[u] = job[u]
           /\ seen' \in [Threads -> Locks \cup {None}] /\ UNCHANGED victims
BY DEF Goto, TypeInv

(* What the operations on a partial download return: what is accepted and  *)
(* what completes is whole, of the pinned bytes and checkpointed as such.  *)
LEMMA PartFacts ==
    ASSUME NEW f \in Parts
    PROVE  /\ NoPart \in Parts /\ NoPart.len = NoPart.meta
           /\ InspectPartial(f) \in Parts /\ InspectPartial(f).len = InspectPartial(f).meta
           /\ Accepted(InspectPartial(f)) => InspectPartial(f) = Whole
           /\ OpenPart(f) \in Parts /\ (f.len = f.meta => OpenPart(f).len = OpenPart(f).meta)
           /\ Restart(f) \in Parts /\ Restart(f).len = 0
           /\ \A n \in 0..Chunks : Checkpointed(f, n) \in Parts /\ Checkpointed(f, n).len = f.len
           /\ Complete(f) \in Parts /\ (Complete(f) # NoPart => Complete(f) = Whole)
<1>1. Chunks \in Nat \ {0} /\ Good = Chunks + 1 /\ Good \in 1..Good
  BY PackAssumption DEF Good
<1>2. NoPart \in Parts /\ NoPart.len = NoPart.meta
  BY <1>1 DEF NoPart, Parts
<1>3. \A bad \in 1..Good, n \in Nat : Prefix(bad, n) \in 1..Good
  BY <1>1 DEF Prefix
<1>4. \A g \in Parts : g.len = Chunks /\ g.bad = Good /\ g.meta = Chunks /\ g.metaBad = Good => g = Whole
  BY DEF Parts, Whole
<1>5. \A n \in 0..Chunks :
        /\ Cut(f, n) \in Parts /\ Cut(f, n).len = n /\ Cut(f, n).bad = Prefix(f.bad, n)
        /\ Cut(f, n).meta = f.meta /\ Cut(f, n).metaBad = f.metaBad
  <2> TAKE n \in 0..Chunks
  <2>1. f.bad \in 1..Good /\ n \in Nat /\ n \in -1..Chunks
    BY <1>1 DEF Parts
  <2>2. Prefix(f.bad, n) \in 1..Good
    BY <1>3, <2>1
  <2> QED BY <2>1, <2>2 DEF Cut, Parts
<1>6. /\ InspectPartial(f) \in Parts /\ InspectPartial(f).len = InspectPartial(f).meta
      /\ Accepted(InspectPartial(f)) => InspectPartial(f) = Whole
  <2>1. CASE Resumable(f)
    <3> DEFINE g == Cut(f, f.meta)
    <3>1. f.meta \in 0..Chunks /\ f.metaBad \in 1..Good /\ Prefix(f.bad, f.meta) = Prefix(f.metaBad, f.meta)
      BY <2>1, <1>1 DEF Resumable, Parts
    <3>2. /\ g \in Parts /\ g.len = f.meta /\ g.meta = f.meta /\ g.metaBad = f.metaBad
          /\ g.bad = Prefix(f.metaBad, f.meta)
      BY <1>5, <3>1
    <3>3. InspectPartial(f) = g
      BY <2>1 DEF InspectPartial
    <3> HIDE DEF g
    <3>4. ASSUME Accepted(g) PROVE g = Whole
      <4>1. g.meta = Chunks /\ Prefix(f.metaBad, Chunks) = Good
        BY <3>2, <3>4 DEF Accepted
      <4>2. f.metaBad = Good
        BY <1>1, <3>1, <4>1 DEF Prefix
      <4> QED BY <1>4, <3>2, <3>4, <4>1, <4>2 DEF Accepted
    <3> QED BY <3>2, <3>3, <3>4
  <2>2. CASE ~Resumable(f)
    <3>1. ~Accepted(NoPart)
      BY <1>1 DEF Accepted, NoPart
    <3> QED BY <1>2, <2>2, <3>1 DEF InspectPartial
  <2> QED BY <2>1, <2>2
<1>7. OpenPart(f) \in Parts /\ (f.len = f.meta => OpenPart(f).len = OpenPart(f).meta)
  <2>1. CASE f.meta = -1
    <3> DEFINE g == [f EXCEPT !.len = 0, !.meta = 0]
    <3>1. g \in Parts /\ g.len = 0 /\ g.meta = 0
      <4>1. 0 \in -1..Chunks
        BY <1>1
      <4> QED BY <4>1 DEF Parts
    <3>2. OpenPart(f) = g
      BY <2>1 DEF OpenPart
    <3> HIDE DEF g
    <3> QED BY <3>1, <3>2
  <2> QED BY <2>1 DEF OpenPart
<1>8. Restart(f) \in Parts /\ Restart(f).len = 0
  <2>1. 0 \in 0..Chunks
    BY <1>1
  <2> QED BY <1>5, <2>1 DEF Restart
<1>9. \A n \in 0..Chunks :
        /\ Checkpointed(f, n) \in Parts /\ Checkpointed(f, n).len = f.len
        /\ Checkpointed(f, n).bad = f.bad
        /\ Checkpointed(f, n).meta = n /\ Checkpointed(f, n).metaBad = Prefix(f.bad, n)
  <2> TAKE n \in 0..Chunks
  <2>1. f.bad \in 1..Good /\ n \in Nat /\ n \in -1..Chunks
    BY <1>1 DEF Parts
  <2>2. Prefix(f.bad, n) \in 1..Good
    BY <1>3, <2>1
  <2> QED BY <2>1, <2>2 DEF Checkpointed, Parts
<1>10. Complete(f) \in Parts /\ (Complete(f) # NoPart => Complete(f) = Whole)
  <2>1. CASE f.bad = Good /\ f.len = Chunks
    <3>1. Chunks \in 0..Chunks /\ Prefix(Good, Chunks) = Good
      BY <1>1 DEF Prefix
    <3>2. Checkpointed(f, Chunks) \in Parts /\ Checkpointed(f, Chunks) = Whole
      BY <1>4, <1>9, <2>1, <3>1
    <3> QED BY <2>1, <3>2 DEF Complete
  <2> QED BY <1>2, <2>1 DEF Complete
<1> QED BY <1>2, <1>6, <1>7, <1>8, <1>9, <1>10

-------------------------------------------------------------------------------
(* Transfers: only the thread in the lock changes partials and offsets.    *)

\* A step of t before, between or after transfers; it goes on with an install
\* only from another step of it.
Onward(t, place) == place \notin {"stream", "fetch"} /\ (place \in Installing => pc[t] \in Installing)
Elsewhere(t) ==
    /\ UNCHANGED <<part, off>> /\ pc[t] # "stream"
    /\ \E place : pc' = [pc EXCEPT ![t] = place] /\ Onward(t, place)

LEMMA TransferSteps ==
    ASSUME [Next]_vars
    PROVE  \/ \E t \in Threads :
                 \/ Inspect(t) \/ Fetch(t) \/ Chunk(t) \/ FinishDownload(t) \/ Interrupt(t)
                 \/ Tidy(t) \/ RemoveStart(t) \/ Checkpoint(t)
           \/ \E t \in Threads : Elsewhere(t)
           \/ \E p \in Procs : Crash(p)
           \/ UNCHANGED <<part, off, pc>>
<1> USE DEF disk, thread, local, Goto
<1>1. CASE \E p \in Servers : Server(p)
  BY <1>1 DEF Server, Spawn, BindWrapper, BindServer, Release, Rest
<1>2. CASE \E c \in consumers : StartDaemon(c) \/ ServerExits(c)
  BY <1>2 DEF StartDaemon, ServerExits
<1>3. CASE \E k \in Packs : Meddle(k)
  BY <1>3 DEF Meddle
<1>4. CASE UNCHANGED vars
  BY <1>4 DEF vars
<1>5. ASSUME NEW t \in Threads, NEW what, Request(t, what)
      PROVE  Elsewhere(t)
  <2>1. UNCHANGED <<part, off>> /\ pc' = [pc EXCEPT ![t] = "lock"] /\ pc[t] # "stream"
    BY <1>5 DEF Request
  <2>2. Onward(t, "lock")
    BY DEF Onward, Installing
  <2> QED BY <2>1, <2>2, Zenon DEF Elsewhere
<1>6. ASSUME NEW t \in Threads,
             \/ TryLock(t) \/ WriteLock(t) \/ TakeGuard(t) \/ ReclaimLock(t) \/ UnlinkLock(t)
             \/ Recreate(t) \/ DropGuard(t) \/ Unlock(t) \/ WriteLease(t) \/ InstallCheck(t)
             \/ MarkStage(t) \/ Unpack(t) \/ PublishCheck(t) \/ UnmarkStage(t) \/ RenameStage(t)
             \/ PruneStart(t) \/ SweepDone(t) \/ SweepFails(t) \/ Cleanup(t) \/ RepairCheck(t)
      PROVE  Elsewhere(t)
  <2> USE <1>6 DEF Elsewhere, Onward, Installing
  <2>1. CASE TryLock(t) BY <2>1 DEF TryLock
  <2>2. CASE WriteLock(t)
    <3>1. \E place \in {"unguard", "locked"} : pc' = [pc EXCEPT ![t] = place]
      BY <2>2 DEF WriteLock
    <3> QED BY <2>2, <3>1 DEF WriteLock
  <2>3. CASE TakeGuard(t) \/ ReclaimLock(t) BY <2>3, ZenonT(60) DEF TakeGuard, ReclaimLock
  <2>4. CASE UnlinkLock(t) \/ Recreate(t) BY <2>4 DEF UnlinkLock, Recreate
  <2>5. CASE DropGuard(t) \/ Unlock(t) BY <2>5, ZenonT(60) DEF DropGuard, Unlock
  <2>6. CASE WriteLease(t) \/ InstallCheck(t) BY <2>6 DEF WriteLease, InstallCheck
  <2>7. CASE MarkStage(t) \/ Unpack(t) \/ PublishCheck(t) BY <2>7 DEF MarkStage, Unpack, PublishCheck
  <2>8. CASE UnmarkStage(t) \/ RenameStage(t) BY <2>8 DEF UnmarkStage, RenameStage
  <2>9. CASE PruneStart(t) \/ Cleanup(t) \/ RepairCheck(t)
    BY <2>9 DEF PruneStart, Cleanup, RepairCheck
  <2>10. CASE SweepDone(t) \/ SweepFails(t)
    BY <2>10 DEF SweepDone, SweepFails, Removing, AfterSweep
  <2> HIDE DEF Goto
  <2> QED BY <2>1, <2>2, <2>3, <2>4, <2>5, <2>6, <2>7, <2>8, <2>9, <2>10
<1>7. ASSUME NEW t \in Threads, Sweep(t) PROVE UNCHANGED <<part, off, pc>>
  BY <1>7 DEF Sweep
<1> HIDE DEF Goto
<1> QED BY <1>1, <1>2, <1>3, <1>4, <1>5, <1>6, <1>7 DEF Next, Step
\* Nobody but the thread in the lock is at a transfer.
LEMMA OneTransfer ==
    ASSUME TypeInv, LockInv, TransferInv, NEW t \in Threads, pc[t] \in InLock
    PROVE  /\ \A u \in Threads \ {t} : pc[u] \notin {"stream", "fetch"} \cup Installing
           /\ \A p \in Procs : off[p] >= 0 => t = <<p, "op">> /\ pc[t] = "stream"
<1>1. \A u \in Threads \ {t} : pc[u] \notin InLock
  BY Exclusive DEF LockInv, OneMutator
<1>2. \A p \in Procs : <<p, "op">> \in Threads
  BY DEF Threads
<1>3. {"stream", "fetch"} \cup Installing \subseteq InLock
  BY DEF InLock, Installing
<1> QED BY <1>1, <1>2, <1>3 DEF TransferInv

\* A step of the thread in the lock on the partial download of its pack.
LEMMA TransferStep ==
    ASSUME IInv, NEW t \in Threads, pc[t] \in InLock,
           NEW g \in Parts, NEW n \in -1..Chunks, NEW place,
           part' = [part EXCEPT ![Mine(t)] = g], off' = [off EXCEPT ![Owner(t)] = n],
           pc' = [pc EXCEPT ![t] = place],
           n >= 0 => t[2] = "op" /\ place = "stream" /\ g.len = n,
           place = "stream" => n >= 0, place = "fetch" => g.len = g.meta,
           place \in Installing => g = Whole
    PROVE  /\ TransferInv' /\ TransfersDoNotMix'
           /\ part' \in [Packs -> Parts] /\ off' \in [Procs -> -1..Chunks]
<1>1. /\ \A u \in Threads : pc'[u] = IF u = t THEN place ELSE pc[u]
      /\ \A k \in Packs : part'[k] = IF k = Mine(t) THEN g ELSE part[k]
      /\ \A p \in Procs : off'[p] = IF p = Owner(t) THEN n ELSE off[p]
      /\ part' \in [Packs -> Parts] /\ off' \in [Procs -> -1..Chunks]
      /\ \A p \in Procs : off[p] \in -1..Chunks
  BY ThreadFacts DEF IInv, TypeInv
<1>2. /\ \A u \in Threads \ {t} : pc[u] \notin {"stream", "fetch"} /\ pc[u] \notin Installing
      /\ \A p \in Procs : off[p] >= 0 => p = Owner(t)
  BY OneTransfer DEF IInv, Owner
<1>3. \A p \in Procs : off'[p] >= 0 => p = Owner(t) /\ t = <<p, "op">> /\ n >= 0
  BY <1>1, <1>2, ThreadFacts
<1>4. TransferInv'
  <2>1. \A p \in Procs : off'[p] >= 0 => pc'[<<p, "op">>] = "stream"
    BY <1>1, <1>3
  <2>2. \A u \in Threads : pc'[u] = "stream" => off'[Owner(u)] >= 0
    BY <1>1, <1>2, ThreadFacts
  <2>3. \A u \in Threads : pc'[u] = "fetch" => part'[Mine(u)].len = part'[Mine(u)].meta
    BY <1>1, <1>2, ThreadFacts
  <2> QED BY <2>1, <2>2, <2>3 DEF TransferInv
<1>5. TransfersDoNotMix'
  <2>1. \A p \in Procs : off'[p] >= 0 => part'[PackOf[p]].len = off'[p]
    BY <1>1, <1>3, ThreadFacts DEF Mine
  <2>2. \A u \in Threads : pc'[u] \in Installing => part'[Mine(u)] = Whole
    BY <1>1, <1>2, ThreadFacts
  <2> QED BY <2>1, <2>2 DEF TransfersDoNotMix
<1> QED BY <1>1, <1>4, <1>5

LEMMA TransferPreserved ==
    ASSUME IInv, [Next]_vars
    PROVE  /\ TransferInv' /\ TransfersDoNotMix'
           /\ part' \in [Packs -> Parts] /\ off' \in [Procs -> -1..Chunks]
<1> DEFINE Goal == /\ TransferInv' /\ TransfersDoNotMix'
                   /\ part' \in [Packs -> Parts] /\ off' \in [Procs -> -1..Chunks]
<1>1. /\ Chunks \in Nat \ {0} /\ -1 \in -1..Chunks /\ 0 \in -1..Chunks /\ ~(-1 >= 0) /\ 0 >= 0
      /\ \A place \in Installing : place \notin {"stream", "cleanup", "toprune", "unlock", "remove", "idle"}
  BY PackAssumption DEF Installing
<1>2. ASSUME NEW t \in Threads
      PROVE  /\ part[Mine(t)] \in Parts /\ off[Owner(t)] \in -1..Chunks
             /\ Owner(t) \in Procs /\ Mine(t) \in Packs /\ off[Owner(t)] \in Int
             /\ pc[t] \in {"fetch", "stream", "inspect"} => pc[t] \in InLock /\ t[2] = "op"
             /\ part[Mine(t)].len \in -1..Chunks /\ part[Mine(t)].meta \in -1..Chunks
             /\ off[Owner(t)] >= 0 => (pc[t] \in InLock => part[Mine(t)].len = off[Owner(t)])
  <2>1. Owner(t) \in Procs /\ Mine(t) \in Packs /\ t[2] \in {"op", "lease"}
    BY ThreadFacts
  <2>2. part[Mine(t)] \in Parts /\ off[Owner(t)] \in -1..Chunks
    BY <2>1 DEF IInv, TypeInv
  <2>3. pc[t] \in {"fetch", "stream", "inspect"} => pc[t] \in InLock /\ t[2] = "op"
    BY <2>1 DEF InLock, IInv, PlaceInv, LeasePlaces, OutsideLock
  <2>4. off[Owner(t)] >= 0 => part[Mine(t)].len = off[Owner(t)]
    BY <2>1 DEF IInv, TransfersDoNotMix, Mine
  <2> QED BY <1>1, <2>1, <2>2, <2>3, <2>4 DEF Parts
<1>3. ASSUME NEW t \in Threads, Inspect(t) PROVE Goal
  <2> DEFINE f == InspectPartial(part[Mine(t)])
             place == IF Accepted(f) THEN "unpack" ELSE "fetch"
  <2>1. pc[t] = "inspect" /\ part' = [part EXCEPT ![Mine(t)] = f] /\ off' = off /\ Goto(t, place)
    BY <1>3 DEF Inspect, local
  <2>2. f \in Parts /\ f.len = f.meta /\ (Accepted(f) => f = Whole)
    BY <1>2, PartFacts
  <2>3. place # "stream" /\ (place \in Installing => f = Whole)
    BY <2>2 DEF Installing
  <2> HIDE DEF f, place
  <2>4. off[Owner(t)] < 0
    <3>1. off[Owner(t)] >= 0 => pc[t] = "stream"
      BY <1>2, <2>1, OneTransfer DEF IInv
    <3> QED BY <1>2, <2>1, <3>1
  <2>5. off' = [off EXCEPT ![Owner(t)] = off[Owner(t)]] /\ pc' = [pc EXCEPT ![t] = place]
    BY <2>1 DEF IInv, TypeInv, Goto
  <2> DEFINE n == off[Owner(t)]
  <2>6. n \in -1..Chunks /\ ~(n >= 0) /\ pc[t] \in InLock
    BY <1>2, <2>1, <2>4
  <2> HIDE DEF n
  <2>7. off' = [off EXCEPT ![Owner(t)] = n]
    BY <2>5 DEF n
  <2> QED BY <2>1, <2>2, <2>3, <2>5, <2>6, <2>7, TransferStep
<1>4. ASSUME NEW t \in Threads, Fetch(t) PROVE Goal
  <2> DEFINE f == OpenPart(part[Mine(t)])
  <2>1. pc[t] = "fetch" /\ pc[t] \in InLock /\ t[2] = "op" /\ part[Mine(t)].len = part[Mine(t)].meta
    BY <1>2, <1>4 DEF Fetch, IInv, TransferInv
  <2>2. f \in Parts /\ f.len = f.meta
    BY <1>2, <2>1, PartFacts
  <2>3. \/ /\ Resume(f) /\ part' = [part EXCEPT ![Mine(t)] = f]
           /\ off' = [off EXCEPT ![Owner(t)] = f.meta] /\ Goto(t, "stream")
        \/ /\ part' = [part EXCEPT ![Mine(t)] = Restart(f)]
           /\ off' = [off EXCEPT ![Owner(t)] = 0] /\ Goto(t, "stream")
        \/ part' = [part EXCEPT ![Mine(t)] = f] /\ off' = off /\ Goto(t, "cleanup")
    BY <1>4 DEF Fetch
  <2> HIDE DEF f
  <2>4. CASE /\ Resume(f) /\ part' = [part EXCEPT ![Mine(t)] = f]
             /\ off' = [off EXCEPT ![Owner(t)] = f.meta] /\ Goto(t, "stream")
    <3>1. f.meta \in -1..Chunks /\ f.meta >= 0 /\ pc' = [pc EXCEPT ![t] = "stream"]
      BY <1>1, <2>2, <2>4 DEF Resume, Parts, Goto
    <3> QED BY <1>1, <2>1, <2>2, <2>4, <3>1, TransferStep
  <2>5. CASE /\ part' = [part EXCEPT ![Mine(t)] = Restart(f)]
             /\ off' = [off EXCEPT ![Owner(t)] = 0] /\ Goto(t, "stream")
    <3>1. Restart(f) \in Parts /\ Restart(f).len = 0
      BY <2>2, PartFacts
    <3>2. pc' = [pc EXCEPT ![t] = "stream"]
      BY <2>5 DEF Goto
    <3> QED BY <1>1, <2>1, <2>5, <3>1, <3>2, TransferStep
  <2>6. CASE part' = [part EXCEPT ![Mine(t)] = f] /\ off' = off /\ Goto(t, "cleanup")
    <3> DEFINE n == off[Owner(t)]
    <3>1. n \in -1..Chunks /\ ~(n >= 0)
      BY <1>2, <2>1, OneTransfer DEF IInv
    <3>2. off' = [off EXCEPT ![Owner(t)] = n] /\ pc' = [pc EXCEPT ![t] = "cleanup"]
      BY <2>6 DEF Goto, IInv, TypeInv
    <3> HIDE DEF n
    <3> QED BY <1>1, <2>1, <2>2, <2>6, <3>1, <3>2, TransferStep
  <2> QED BY <2>3, <2>4, <2>5, <2>6
<1>5. ASSUME NEW t \in Threads, Chunk(t) PROVE Goal
  <2> DEFINE f == part[Mine(t)]
             o == off[Owner(t)]
  <2>1. /\ pc[t] = "stream" /\ pc[t] \in InLock /\ t[2] = "op" /\ o < Chunks /\ o >= 0 /\ f.len = o
        /\ off' = [off EXCEPT ![Owner(t)] = o + 1] /\ pc' = [pc EXCEPT ![t] = "stream"]
        /\ f \in Parts /\ o \in -1..Chunks
    BY <1>2, <1>5 DEF Chunk, Streaming, IInv, TransferInv, thread, TypeInv
  <2>2. PICK ok \in BOOLEAN :
          part' = [part EXCEPT ![Mine(t)] =
                     [f EXCEPT !.len = @ + 1,
                               !.bad = IF @ = Good /\ ~(ok /\ f.len = o) THEN f.len + 1 ELSE @]]
    BY <1>5 DEF Chunk
  <2> DEFINE bad == IF f.bad = Good /\ ~(ok /\ f.len = o) THEN f.len + 1 ELSE f.bad
             g == [f EXCEPT !.len = o + 1, !.bad = bad]
  <2>3. part' = [part EXCEPT ![Mine(t)] = g]
    BY <2>1, <2>2
  <2> HIDE DEF f, o
  <2>4. o + 1 \in -1..Chunks /\ bad \in 1..Good /\ o + 1 >= 0
    BY <1>1, <2>1 DEF Parts, Good
  <2> HIDE DEF bad
  <2>5. g \in Parts /\ g.len = o + 1
    BY <2>1, <2>4 DEF Parts
  <2> HIDE DEF g
  <2> QED BY <1>1, <2>1, <2>3, <2>4, <2>5, TransferStep
<1>6. ASSUME NEW t \in Threads, FinishDownload(t) PROVE Goal
  <2> DEFINE f == Complete(part[Mine(t)])
             place == IF f = NoPart THEN "cleanup" ELSE "unpack"
  <2>1. /\ pc[t] = "stream" /\ t[2] = "op" /\ part' = [part EXCEPT ![Mine(t)] = f]
        /\ off' = [off EXCEPT ![Owner(t)] = -1] /\ Goto(t, place)
    BY <1>6 DEF FinishDownload, Streaming
  <2>2. f \in Parts /\ (f # NoPart => f = Whole) /\ pc[t] \in InLock
    BY <1>2, <2>1, PartFacts
  <2>3. place \notin {"stream", "fetch"} /\ (place \in Installing => f = Whole)
    BY <1>1, <2>2
  <2> HIDE DEF f, place
  <2>4. pc' = [pc EXCEPT ![t] = place]
    BY <2>1 DEF Goto
  <2> QED BY <1>1, <2>1, <2>2, <2>3, <2>4, TransferStep
<1>7. ASSUME NEW t \in Threads, Interrupt(t) PROVE Goal
  <2> DEFINE f == part[Mine(t)]
             o == off[Owner(t)]
             g == IF 0 < o /\ o < Chunks THEN Checkpointed(f, o) ELSE f
  <2>1. /\ pc[t] = "stream" /\ pc[t] \in InLock /\ part' = [part EXCEPT ![Mine(t)] = g]
        /\ off' = [off EXCEPT ![Owner(t)] = -1] /\ pc' = [pc EXCEPT ![t] = "cleanup"]
        /\ f \in Parts /\ o \in -1..Chunks
    BY <1>2, <1>7 DEF Interrupt, Streaming, Goto
  <2> HIDE DEF f, o
  <2>2. g \in Parts
    <3>1. CASE 0 < o /\ o < Chunks
      <4>1. o \in 0..Chunks
        BY <1>1, <2>1, <3>1
      <4>2. Checkpointed(f, o) \in Parts
        BY <2>1, <3>1, <4>1, PartFacts
      <4> QED BY <3>1, <4>2
    <3> QED BY <2>1, <3>1
  <2> HIDE DEF g
  <2> QED BY <1>1, <2>1, <2>2, TransferStep
<1>8. ASSUME NEW t \in Threads, Checkpoint(t) PROVE Goal
  <2> DEFINE f == part[Mine(t)]
             o == off[Owner(t)]
             g == Checkpointed(f, o)
  <2>1. /\ pc[t] = "stream" /\ pc[t] \in InLock /\ t[2] = "op"
        /\ part' = [part EXCEPT ![Mine(t)] = g] /\ off' = off /\ pc' = pc
        /\ f \in Parts /\ o \in -1..Chunks /\ o >= 0 /\ f.len = o
    BY <1>2, <1>8 DEF Checkpoint, Streaming, local, thread, IInv, TransferInv
  <2>2. pc' = [pc EXCEPT ![t] = "stream"] /\ off' = [off EXCEPT ![Owner(t)] = o]
    BY <2>1 DEF IInv, TypeInv
  <2> HIDE DEF f, o
  <2>3. o \in 0..Chunks
    BY <1>1, <2>1
  <2>4. g \in Parts /\ g.len = o
    BY <2>1, <2>3, PartFacts
  <2> HIDE DEF g
  <2> QED BY <1>1, <2>1, <2>2, <2>4, TransferStep
<1>9. ASSUME NEW t \in Threads, Tidy(t) PROVE Goal
  <2> DEFINE g == IF dir[Mine(t)] = "valid" THEN NoPart ELSE part[Mine(t)]
             place == IF dir[Mine(t)] = "valid" THEN "toprune" ELSE "cleanup"
             n == off[Owner(t)]
  <2>1. /\ pc[t] = "tidy" /\ pc[t] \in InLock /\ part' = [part EXCEPT ![Mine(t)] = g]
        /\ off' = [off EXCEPT ![Owner(t)] = n] /\ pc' = [pc EXCEPT ![t] = place]
    BY <1>9 DEF Tidy, Goto, local, InLock, IInv, TypeInv
  <2>2. g \in Parts /\ place \notin {"stream", "fetch"} /\ place \notin Installing /\ n \in -1..Chunks
    BY <1>1, <1>2, PartFacts
  <2>3. ~(n >= 0)
    BY <1>2, <2>1, OneTransfer DEF IInv
  <2> HIDE DEF g, place, n
  <2> QED BY <2>1, <2>2, <2>3, TransferStep
<1>10. ASSUME NEW t \in Threads, RemoveStart(t) PROVE Goal
  <2>1. /\ pc[t] = "locked" /\ pc[t] \in InLock /\ off' = off
        /\ \E place \in {"unlock", "remove"} : pc' = [pc EXCEPT ![t] = place]
    BY <1>10 DEF RemoveStart, Goto, local, InLock
  <2>2. \A u \in Threads : pc'[u] \notin {"stream", "fetch"} /\ pc'[u] \notin Installing
    <3>1. PICK place \in {"unlock", "remove"} : pc' = [pc EXCEPT ![t] = place]
      BY <2>1
    <3>2. \A u \in Threads : pc'[u] = IF u = t THEN place ELSE pc[u]
      BY <3>1 DEF IInv, TypeInv
    <3> QED BY <1>1, <2>1, <3>1, <3>2, OneTransfer DEF IInv
  <2>3. \A p \in Procs : ~(off[p] >= 0)
    BY <2>1, OneTransfer DEF IInv
  <2>4. part' \in [Packs -> Parts]
    <3>1. NoPart \in Parts
      BY <1>2, PartFacts
    <3>2. \/ part' = part
          \/ part' = [k \in Packs |-> IF Resumable(part[k]) THEN NoPart ELSE part[k]]
      BY <1>10 DEF RemoveStart
    <3> QED BY <3>1, <3>2 DEF IInv, TypeInv
  <2> QED BY <2>1, <2>2, <2>3, <2>4 DEF IInv, TypeInv, TransferInv, TransfersDoNotMix
<1>11. ASSUME NEW t \in Threads, NEW place, UNCHANGED <<part, off>>, pc' = [pc EXCEPT ![t] = place],
              place \notin {"stream", "fetch"}, pc[t] # "stream", place \in Installing => pc[t] \in Installing
       PROVE  Goal
  <2>1. \A u \in Threads : pc'[u] = IF u = t THEN place ELSE pc[u]
    BY <1>11 DEF IInv, TypeInv
  <2>2. \A p \in Procs : <<p, "op">> \in Threads
    BY DEF Threads
  <2> QED BY <1>11, <2>1, <2>2 DEF IInv, TypeInv, TransferInv, TransfersDoNotMix
<1>12. ASSUME NEW p \in Procs, Crash(p) PROVE Goal
  <2>1. /\ \A u \in Threads : pc'[u] = IF Owner(u) = p THEN "idle" ELSE pc[u]
        /\ off' = [off EXCEPT ![p] = -1] /\ part' = part
    BY <1>12 DEF Crash
  <2>2. \A q \in Procs : off'[q] = IF q = p THEN -1 ELSE off[q]
    BY <2>1 DEF IInv, TypeInv
  <2>3. \A q \in Procs : <<q, "op">> \in Threads /\ Owner(<<q, "op">>) = q
    BY DEF Threads, Owner
  <2>4. off' \in [Procs -> -1..Chunks]
    BY <1>1, <2>1 DEF IInv, TypeInv
  <2>5. TransferInv'
    BY <2>1, <2>2, <2>3, ThreadFacts DEF IInv, TransferInv
  <2> QED BY <1>1, <2>1, <2>2, <2>4, <2>5 DEF IInv, TypeInv, TransfersDoNotMix
<1>13. ASSUME UNCHANGED <<part, off, pc>> PROVE Goal
  BY <1>13 DEF IInv, TypeInv, TransferInv, TransfersDoNotMix
<1> HIDE DEF Goal
<1>14. ASSUME NEW t \in Threads,
              \/ Inspect(t) \/ Fetch(t) \/ Chunk(t) \/ FinishDownload(t) \/ Interrupt(t)
              \/ Tidy(t) \/ RemoveStart(t) \/ Checkpoint(t)
       PROVE  Goal
  BY <1>3, <1>4, <1>5, <1>6, <1>7, <1>8, <1>9, <1>10, <1>14
<1>15. ASSUME NEW t \in Threads, Elsewhere(t) PROVE Goal
  <2>1. PICK place : pc' = [pc EXCEPT ![t] = place] /\ Onward(t, place)
    BY <1>15, Zenon DEF Elsewhere
  <2> QED BY <1>11, <1>15, <2>1 DEF Elsewhere, Onward
<1>16. Goal
  BY <1>12, <1>13, <1>14, <1>15, TransferSteps
<1> QED BY <1>16 DEF Goal
-------------------------------------------------------------------------------
(* Leases: a step may add one, of a valid pack, and otherwise leases less. *)

LEMMA LeaseFacts ==
    ASSUME TypeInv, NEW l \in leases
    PROVE  /\ l \in Leases /\ l.owner \in Servers /\ l.owner \in Procs /\ l.pack \in Packs
           /\ l.pids \subseteq Consumers /\ l.inc \in Nat /\ l.bound \in BOOLEAN
BY PackAssumption DEF TypeInv, Leases

\* A server protects its pack.
LEMMA ConsumersLease ==
    ASSUME TypeInv, PackInv, NEW c \in consumers
    PROVE  Leased(PackOf[c.owner])
<1>1. PICK l \in leases : Covers(l, c)
  BY DEF PackInv, ConsumerInv
<1>2. c \in Consumers /\ c.kind \in {"wrapper", "daemon"}
  BY DEF TypeInv, Consumers
<1>3. c \in {[c EXCEPT !.kind = "wrapper"], [c EXCEPT !.kind = "daemon"]}
  BY <1>2 DEF Consumers
<1>4. Protects(l)
  BY <1>1, <1>3 DEF Covers, Protects
<1>5. l.pack = PackOf[c.owner]
  BY <1>1 DEF PackInv, RecordInv, Covers
<1> QED BY <1>4, <1>5 DEF Leased

\* Records that expire protect nothing.
Expires == leases' \subseteq leases /\ \A l \in leases \ leases' : ~Protects(l)

LeasesLess ==
    /\ RecordInv' /\ ConsumerInv' /\ leases' \subseteq Leases /\ consumers' \subseteq Consumers
    /\ \A l \in leases' : l.inc <= inc'[l.owner]
    /\ \A k \in Packs : Leased(k)' => Leased(k)

LEMMA ExpiresLess ==
    ASSUME IInv, Expires, UNCHANGED <<inc, consumers>>
    PROVE  LeasesLess
<1>1. \A l : Protects(l)' <=> Protects(l)
  BY DEF Protects, ProcessAlive
<1>2. \A k \in Packs : Leased(k)' => Leased(k)
  BY <1>1 DEF Expires, Leased
<1>3. RecordInv'
  BY DEF IInv, PackInv, RecordInv, Expires
<1>4. \A c \in consumers, l \in leases : Covers(l, c) => Protects(l)
  <2> TAKE c \in consumers, l \in leases
  <2>1. c \in {[c EXCEPT !.kind = "wrapper"], [c EXCEPT !.kind = "daemon"]}
    BY DEF IInv, TypeInv, Consumers
  <2> QED BY <2>1 DEF Covers, Protects
<1>5. ConsumerInv'
  <2>1. \A c \in consumers : \E l \in leases' : Covers(l, c)
    BY <1>4 DEF IInv, PackInv, ConsumerInv, Expires
  <2> QED BY <2>1 DEF IInv, PackInv, ConsumerInv, Covers
<1> QED BY <1>2, <1>3, <1>5 DEF LeasesLess, IInv, TypeInv, Expires, PastInv

LEMMA SpawnLess ==
    ASSUME IInv, NEW p \in Servers, Spawn(p)
    PROVE  LeasesLess
<1>1. PICK l \in leases : l.owner = p /\ ProcessAlive(l) /\ l.pids = {}
  BY DEF Spawn, Held
<1>2. /\ \A c \in consumers : c.owner # p
      /\ consumers' = consumers \cup {Wrapper(p)} /\ UNCHANGED <<leases, inc>>
  BY DEF Spawn, disk, local
<1>3. p \in Procs /\ inc[p] \in Nat /\ l.inc = inc[p] /\ ~l.bound /\ l.pack = PackOf[p]
  BY <1>1, PackAssumption DEF IInv, TypeInv, PackInv, RecordInv, ProcessAlive
<1>4. /\ Wrapper(p) \in Consumers /\ Wrapper(p).owner = p /\ Wrapper(p).by = inc[p]
  BY <1>3 DEF Wrapper, Consumers
<1> HIDE DEF Wrapper
<1>5. Leased(PackOf[p])
  BY <1>1, <1>3 DEF Leased, Protects
<1>6. ASSUME NEW k \in Packs, Leased(k)' PROVE Leased(k)
  <2>1. PICK m \in leases : m.pack = k /\ Protects(m)'
    BY <1>2, <1>6 DEF Leased
  <2>2. CASE Wrapper(p) \in m.pids
    <3>1. m.owner = p /\ m.pack = PackOf[p]
      BY <1>4, <2>2 DEF IInv, PackInv, RecordInv
    <3> QED BY <1>5, <2>1, <3>1
  <2>3. CASE Wrapper(p) \notin m.pids
    <3>1. Protects(m)
      BY <1>2, <2>1, <2>3 DEF Protects, ProcessAlive
    <3> QED BY <2>1, <3>1 DEF Leased
  <2> QED BY <2>2, <2>3
<1>7. ConsumerInv'
  <2>1. Covers(l, Wrapper(p))
    BY <1>1, <1>3, <1>4 DEF Covers
  <2>2. \A c \in consumers' : \E m \in leases' : Covers(m, c)
    BY <1>2, <2>1 DEF IInv, PackInv, ConsumerInv
  <2>3. \A c, d \in consumers' : c.owner = d.owner => c.by = d.by
    BY <1>2, <1>4 DEF IInv, PackInv, ConsumerInv
  <2> QED BY <2>2, <2>3 DEF ConsumerInv, Covers
<1> QED BY <1>2, <1>4, <1>6, <1>7 DEF LeasesLess, IInv, TypeInv, PackInv, RecordInv, PastInv

LEMMA StartDaemonLess ==
    ASSUME IInv, NEW c \in consumers, StartDaemon(c)
    PROVE  LeasesLess
<1> DEFINE d == [c EXCEPT !.kind = "daemon"]
<1>1. consumers' = consumers \cup {d} /\ UNCHANGED <<leases, inc>>
  BY DEF StartDaemon, disk, local
<1>2. c \in Consumers /\ c.owner \in Servers
  BY DEF IInv, TypeInv, Consumers
<1>3. d \in Consumers /\ d.owner = c.owner /\ d.by = c.by
  BY <1>2 DEF Consumers
<1>3b. /\ [d EXCEPT !.kind = "wrapper"] = [c EXCEPT !.kind = "wrapper"]
      /\ [d EXCEPT !.kind = "daemon"] = [c EXCEPT !.kind = "daemon"]
  BY <1>2 DEF Consumers
<1> HIDE DEF d
<1>4. Leased(PackOf[c.owner])
  BY ConsumersLease DEF IInv
<1>5. ASSUME NEW k \in Packs, Leased(k)' PROVE Leased(k)
  <2>1. PICK m \in leases : m.pack = k /\ Protects(m)'
    BY <1>1, <1>5 DEF Leased
  <2>2. CASE d \in m.pids
    <3>1. m.owner = c.owner /\ m.pack = PackOf[c.owner]
      BY <1>3, <2>2 DEF IInv, PackInv, RecordInv
    <3> QED BY <1>4, <2>1, <3>1
  <2>3. CASE d \notin m.pids
    <3>1. Protects(m)
      BY <1>1, <2>1, <2>3 DEF Protects, ProcessAlive
    <3> QED BY <2>1, <3>1 DEF Leased
  <2> QED BY <2>2, <2>3
<1>6. ConsumerInv'
  <2>1. \E m \in leases : Covers(m, d)
    <3>1. PICK m \in leases : Covers(m, c)
      BY DEF IInv, PackInv, ConsumerInv
    <3> QED BY <1>3, <1>3b, <3>1 DEF Covers
  <2>2. \A e \in consumers' : \E m \in leases' : Covers(m, e)
    BY <1>1, <2>1 DEF IInv, PackInv, ConsumerInv
  <2>3. \A e, f \in consumers' : e.owner = f.owner => e.by = f.by
    BY <1>1, <1>3 DEF IInv, PackInv, ConsumerInv
  <2> QED BY <2>2, <2>3 DEF ConsumerInv, Covers
<1> QED BY <1>1, <1>3, <1>5, <1>6 DEF LeasesLess, IInv, TypeInv, PackInv, RecordInv, PastInv

LEMMA ExitLess ==
    ASSUME IInv, NEW c \in consumers, ServerExits(c)
    PROVE  LeasesLess
<1>1. consumers' = consumers \ {c} /\ UNCHANGED <<leases, inc>>
  BY DEF ServerExits, disk, local
<1>2. \A m : Protects(m)' => Protects(m)
  BY <1>1 DEF Protects, ProcessAlive
<1>3. \A k \in Packs : Leased(k)' => Leased(k)
  BY <1>1, <1>2 DEF Leased
<1>4. ConsumerInv' /\ RecordInv'
  BY <1>1 DEF IInv, PackInv, ConsumerInv, RecordInv, Covers
<1> QED BY <1>1, <1>3, <1>4 DEF LeasesLess, IInv, TypeInv, PastInv

LEMMA ReleaseLess ==
    ASSUME IInv, NEW p \in Servers, Release(p)
    PROVE  LeasesLess
<1>1. PICK l \in leases : l.owner = p /\ leases' = leases \ {l}
  BY DEF Release, Held
<1>2. /\ \A c \in consumers : c.owner # p
      /\ UNCHANGED <<consumers, inc>>
  BY DEF Release, Rest, local
<1>3. \A m : Protects(m)' <=> Protects(m)
  BY <1>2 DEF Protects, ProcessAlive
<1>4. \A k \in Packs : Leased(k)' => Leased(k)
  BY <1>1, <1>3 DEF Leased
<1>5. \A c \in consumers : \E m \in leases' : Covers(m, c)
  BY <1>1, <1>2 DEF IInv, PackInv, ConsumerInv, Covers
<1>6. ConsumerInv' /\ RecordInv'
  BY <1>1, <1>2, <1>5 DEF IInv, PackInv, ConsumerInv, RecordInv, Covers
<1> QED BY <1>1, <1>2, <1>4, <1>6 DEF LeasesLess, IInv, TypeInv, PastInv

LEMMA CrashLess ==
    ASSUME IInv, NEW p \in Procs, Crash(p)
    PROVE  LeasesLess
<1>1. inc' = [inc EXCEPT ![p] = @ + 1] /\ UNCHANGED <<leases, consumers>>
  BY DEF Crash
<1>2. \A q \in Procs : inc[q] \in Nat /\ inc'[q] = IF q = p THEN inc[q] + 1 ELSE inc[q]
  BY <1>1 DEF IInv, TypeInv
<1>3. \A l \in leases : ProcessAlive(l)' => ProcessAlive(l)
  BY <1>2, LeaseFacts DEF IInv, PastInv, ProcessAlive
<1>4. \A l \in leases : Protects(l)' => Protects(l)
  BY <1>1, <1>3 DEF Protects
<1>5. \A k \in Packs : Leased(k)' => Leased(k)
  BY <1>1, <1>4 DEF Leased
<1>6. \A l \in leases : l.inc <= inc'[l.owner]
  BY <1>2, LeaseFacts DEF IInv, PastInv
<1> QED BY <1>1, <1>5, <1>6 DEF LeasesLess, IInv, TypeInv, PackInv, RecordInv, ConsumerInv, Covers
\* Binding names another server in a record that its app still holds.
LEMMA RebindLess ==
    ASSUME IInv, NEW l \in leases, ProcessAlive(l), NEW new \in Leases,
           leases' = (leases \ {l}) \cup {new}, UNCHANGED <<inc, consumers>>,
           new.owner = l.owner, new.inc = l.inc, new.pack = l.pack,
           new.bound => new.pids # {}, \A c \in new.pids : c.owner = l.owner,
           \A c \in consumers : Covers(l, c) => Covers(new, c)
    PROVE  LeasesLess
<1>1. \A m : Protects(m)' <=> Protects(m)
  BY DEF Protects, ProcessAlive
<1>2. \A k \in Packs : Leased(k)' => Leased(k)
  <2>1. Protects(l)
    BY DEF Protects
  <2> QED BY <1>1, <2>1 DEF Leased
<1>3. RecordInv'
  BY DEF IInv, PackInv, RecordInv
<1>4. ConsumerInv'
  <2>1. \A c \in consumers : \E m \in leases' : Covers(m, c)
    BY DEF IInv, PackInv, ConsumerInv
  <2> QED BY <2>1 DEF IInv, PackInv, ConsumerInv, Covers
<1>5. \A m \in leases' : m.inc <= inc'[m.owner]
  BY DEF IInv, PastInv
<1> QED BY <1>2, <1>3, <1>4, <1>5 DEF LeasesLess, IInv, TypeInv

LEMMA BindLess ==
    ASSUME IInv, NEW p \in Servers, BindWrapper(p) \/ BindServer(p)
    PROVE  LeasesLess
<1>1. p \in Procs /\ inc[p] \in Nat /\ UNCHANGED <<inc, consumers>>
  BY PackAssumption DEF IInv, TypeInv, BindWrapper, BindServer, Rest, local
<1>2. /\ Wrapper(p) \in Consumers /\ Wrapper(p).owner = p /\ Wrapper(p).by = inc[p]
      /\ Wrapper(p).kind = "wrapper"
  BY <1>1 DEF Wrapper, Consumers
<1> HIDE DEF Wrapper
<1>3. CASE BindWrapper(p)
  <2>1. PICK l \in leases : l.owner = p /\ ProcessAlive(l) /\ Rebind(l, {Wrapper(p)}, FALSE)
    BY <1>3 DEF BindWrapper, Held
  <2> DEFINE new == [l EXCEPT !.pids = @ \cup {Wrapper(p)}, !.bound = @ \/ FALSE]
  <2>2. /\ new \in Leases /\ new.owner = l.owner /\ new.inc = l.inc /\ new.pack = l.pack
        /\ new.pids = l.pids \cup {Wrapper(p)} /\ new.bound = l.bound
    BY <1>2, LeaseFacts DEF IInv, Leases
  <2>3. leases' = (leases \ {l}) \cup {new}
    BY <2>1 DEF Rebind
  <2> HIDE DEF new
  <2>4. /\ new.bound => new.pids # {}
        /\ \A c \in new.pids : c.owner = l.owner
    BY <1>2, <2>1, <2>2 DEF IInv, PackInv, RecordInv
  <2>5. \A c \in consumers : Covers(l, c) => Covers(new, c)
    BY <2>2 DEF Covers
  <2> QED BY <1>1, <2>1, <2>2, <2>3, <2>4, <2>5, RebindLess
<1>4. CASE BindServer(p)
  <2>1. PICK d \in consumers, l \in leases :
          /\ d.owner = p /\ d.kind = "daemon" /\ l.owner = p /\ ProcessAlive(l) /\ ~l.bound
          /\ d.by = inc[p] => Wrapper(p) \in l.pids
          /\ Rebind(l, {d}, TRUE)
    BY <1>4 DEF BindServer, Daemons, Held
  <2>2. d \in Consumers /\ l.inc = inc[p]
    BY <2>1 DEF IInv, TypeInv, ProcessAlive
  <2> DEFINE new == [l EXCEPT !.pids = @ \cup {d}, !.bound = @ \/ TRUE]
  <2>3. /\ new \in Leases /\ new.owner = l.owner /\ new.inc = l.inc /\ new.pack = l.pack
        /\ new.pids = l.pids \cup {d} /\ new.bound
    BY <2>2, LeaseFacts DEF IInv, Leases
  <2>4. leases' = (leases \ {l}) \cup {new}
    BY <2>1 DEF Rebind
  <2> HIDE DEF new
  <2>5. new.pids # {} /\ \A c \in new.pids : c.owner = l.owner
    BY <2>1, <2>3 DEF IInv, PackInv, RecordInv
  <2>6. ASSUME NEW c \in consumers, Covers(l, c) PROVE Covers(new, c)
    <3>1. c \in Consumers /\ c.owner = p /\ c.by = d.by /\ d.by = inc[p]
      BY <2>1, <2>2, <2>6 DEF IInv, TypeInv, PackInv, ConsumerInv, Covers
    <3>2. [c EXCEPT !.kind = "daemon"] = d
      BY <2>1, <2>2, <3>1 DEF Consumers
    <3>3. [c EXCEPT !.kind = "wrapper"] = Wrapper(p)
      BY <1>2, <3>1 DEF Consumers
    <3> QED BY <2>1, <2>3, <2>6, <3>1, <3>2, <3>3 DEF Covers
  <2> QED BY <1>1, <2>1, <2>3, <2>4, <2>5, <2>6, RebindLess
<1> QED BY <1>3, <1>4

LEMMA LeaseSteps ==
    ASSUME IInv, [Next]_vars
    PROVE  LeasesLess \/ \E t \in Threads : WriteLease(t)
<1> USE DEF disk, thread, local
<1>1. ASSUME NEW p \in Servers, Server(p) PROVE LeasesLess
  BY <1>1, SpawnLess, BindLess, ReleaseLess DEF Server
<1>2. ASSUME NEW c \in consumers, StartDaemon(c) \/ ServerExits(c) PROVE LeasesLess
  BY <1>2, StartDaemonLess, ExitLess
<1>3. ASSUME NEW p \in Procs, Crash(p) PROVE LeasesLess
  BY <1>3, CrashLess
<1>4. ASSUME UNCHANGED <<leases, inc, consumers>> PROVE LeasesLess
  BY <1>4, ExpiresLess DEF Expires
<1>5. ASSUME NEW k \in Packs, Meddle(k) PROVE UNCHANGED <<leases, inc, consumers>>
  BY <1>5 DEF Meddle
<1>6. ASSUME UNCHANGED vars PROVE UNCHANGED <<leases, inc, consumers>>
  BY <1>6 DEF vars
<1>7. ASSUME NEW t \in Threads, NEW what, Request(t, what)
      PROVE  UNCHANGED <<leases, inc, consumers>>
  BY <1>7 DEF Request
<1>8. ASSUME NEW t \in Threads,
             \/ TryLock(t) \/ WriteLock(t) \/ TakeGuard(t) \/ ReclaimLock(t) \/ UnlinkLock(t)
             \/ Recreate(t) \/ DropGuard(t) \/ Unlock(t)
      PROVE  UNCHANGED <<leases, inc, consumers>>
  BY <1>8 DEF TryLock, WriteLock, TakeGuard, ReclaimLock, UnlinkLock, Recreate, DropGuard, Unlock
<1>9. ASSUME NEW t \in Threads,
             \/ MarkStage(t) \/ Inspect(t) \/ Fetch(t) \/ Chunk(t) \/ FinishDownload(t)
             \/ Interrupt(t) \/ Checkpoint(t) \/ Unpack(t)
      PROVE  UNCHANGED <<leases, inc, consumers>>
  BY <1>9 DEF MarkStage, Inspect, Fetch, Chunk, FinishDownload, Interrupt, Checkpoint, Unpack
<1>10. ASSUME NEW t \in Threads,
              \/ UnmarkStage(t) \/ RenameStage(t) \/ Tidy(t) \/ Sweep(t) \/ SweepDone(t)
              \/ SweepFails(t) \/ Cleanup(t)
       PROVE  UNCHANGED <<leases, inc, consumers>>
  BY <1>10 DEF UnmarkStage, RenameStage, Tidy, Sweep, SweepDone, SweepFails, Cleanup
<1>11. ASSUME NEW t \in Threads,
              \/ InstallCheck(t) \/ PublishCheck(t) \/ PruneStart(t) \/ RemoveStart(t) \/ RepairCheck(t)
       PROVE  LeasesLess
  <2>1. leases' = leases \/ \E ks : leases' = Unexpired(ks)
    BY <1>11 DEF InstallCheck, PublishCheck, PruneStart, RemoveStart, RepairCheck
  <2>2. UNCHANGED <<inc, consumers>>
    BY <1>11 DEF InstallCheck, PublishCheck, PruneStart, RemoveStart, RepairCheck
  <2>3. Expires
    BY <2>1 DEF Expires, Unexpired
  <2> QED BY <2>2, <2>3, ExpiresLess
<1> HIDE DEF disk, thread, local, LeasesLess
<1> QED
  BY <1>1, <1>2, <1>3, <1>4, <1>5, <1>6, <1>7, <1>8, <1>9, <1>10, <1>11 DEF Next, Step
-------------------------------------------------------------------------------
(* Removals: what is chosen is not leased, and is not leased until removed. *)

\* A thread that has nothing left to remove moves.
Calm(t) == victims[t] = {} /\ UNCHANGED victims /\ \E place : pc' = [pc EXCEPT ![t] = place]

\* The directories to remove are chosen, or the rest of them given up.
Chosen(t) ==
    \/ \E place \in {"replace", "prune", "remove"}, ks \in SUBSET Packs :
          /\ pc' = [pc EXCEPT ![t] = place] /\ victims' = [victims EXCEPT ![t] = ks]
          /\ \A k \in ks : ~Leased(k)
    \/ \E place : pc' = [pc EXCEPT ![t] = place] /\ victims' = [victims EXCEPT ![t] = {}]

LEMMA RemovalSteps ==
    ASSUME IInv, [Next]_vars
    PROVE  \/ \E t \in Threads : Calm(t) \/ Chosen(t) \/ Sweep(t)
           \/ \E p \in Procs : Crash(p)
           \/ UNCHANGED <<pc, victims>>
<1> USE DEF disk, thread, local
<1>1. CASE \E p \in Servers : Server(p)
  BY <1>1 DEF Server, Spawn, BindWrapper, BindServer, Release, Rest
<1>2. CASE \E c \in consumers : StartDaemon(c) \/ ServerExits(c)
  BY <1>2 DEF StartDaemon, ServerExits
<1>3. CASE \E k \in Packs : Meddle(k)
  BY <1>3 DEF Meddle
<1>4. CASE UNCHANGED vars
  BY <1>4 DEF vars
<1>5. ASSUME NEW t \in Threads, ~Removing(t) PROVE victims[t] = {}
  BY <1>5 DEF IInv, PackInv, RemovalInv
<1>6. ASSUME NEW t \in Threads, NEW what, Request(t, what) PROVE Calm(t)
  <2>1. victims[t] = {}
    BY <1>5, <1>6 DEF Request, Removing
  <2> QED BY <1>6, <2>1, Zenon DEF Request, Calm
<1>7. ASSUME NEW t \in Threads,
             \/ TryLock(t) \/ WriteLock(t) \/ TakeGuard(t) \/ ReclaimLock(t) \/ UnlinkLock(t)
             \/ Recreate(t) \/ DropGuard(t) \/ Unlock(t) \/ WriteLease(t)
      PROVE  Calm(t)
  <2>1. victims[t] = {}
    BY <1>5, <1>7 DEF Removing, TryLock, WriteLock, TakeGuard, ReclaimLock, UnlinkLock, Recreate,
         DropGuard, Unlock, WriteLease
  <2>2. UNCHANGED victims /\ \E place : pc' = [pc EXCEPT ![t] = place]
    <3> USE DEF Goto
    <3>1. CASE TryLock(t) \/ UnlinkLock(t) BY <3>1 DEF TryLock, UnlinkLock
    <3>2. CASE WriteLock(t) BY <3>2, Zenon DEF WriteLock
    <3>3. CASE TakeGuard(t) \/ ReclaimLock(t) BY <3>3 DEF TakeGuard, ReclaimLock
    <3>4. CASE Recreate(t) \/ WriteLease(t) BY <3>4 DEF Recreate, WriteLease
    <3>5. CASE DropGuard(t) BY <3>5, Zenon DEF DropGuard
    <3>6. CASE Unlock(t) BY <3>6 DEF Unlock
    <3> QED BY <1>7, <3>1, <3>2, <3>3, <3>4, <3>5, <3>6
  <2> QED BY <2>1, <2>2 DEF Calm
<1>8. ASSUME NEW t \in Threads,
             \/ InstallCheck(t) \/ MarkStage(t) \/ Inspect(t) \/ Fetch(t) \/ FinishDownload(t)
             \/ Interrupt(t) \/ Unpack(t) \/ UnmarkStage(t) \/ RenameStage(t) \/ Tidy(t)
             \/ Cleanup(t) \/ RepairCheck(t)
      PROVE  Calm(t)
  <2>1. victims[t] = {}
    BY <1>5, <1>8 DEF Removing, InstallCheck, MarkStage, Inspect, Fetch, FinishDownload, Interrupt,
         Streaming, Unpack, UnmarkStage, RenameStage, Tidy, Cleanup, RepairCheck
  <2>2. \E place : Goto(t, place)
    <3>1. CASE InstallCheck(t) \/ MarkStage(t) BY <3>1 DEF InstallCheck, MarkStage
    <3>2. CASE Inspect(t) BY <3>2, Zenon DEF Inspect
    <3>3. CASE Fetch(t) \/ Interrupt(t) BY <3>3 DEF Fetch, Interrupt
    <3>4. CASE FinishDownload(t) BY <3>4, Zenon DEF FinishDownload
    <3>5. CASE Unpack(t) \/ UnmarkStage(t) \/ RenameStage(t) \/ Tidy(t)
      BY <3>5 DEF Unpack, UnmarkStage, RenameStage, Tidy
    <3>6. CASE Cleanup(t) BY <3>6 DEF Cleanup
    <3>7. CASE RepairCheck(t) BY <3>7, Zenon DEF RepairCheck
    <3> QED BY <1>8, <3>1, <3>2, <3>3, <3>4, <3>5, <3>6, <3>7
  <2> QED BY <2>1, <2>2 DEF Calm, Goto
<1>9. ASSUME NEW t \in Threads, Chunk(t) \/ Checkpoint(t) PROVE UNCHANGED <<pc, victims>>
  BY <1>9 DEF Chunk, Checkpoint
<1>10. ASSUME NEW t \in Threads, PublishCheck(t) PROVE Calm(t) \/ Chosen(t)
  <2>1. Mine(t) \in Packs /\ victims[t] = {}
    BY <1>5, <1>10, ThreadFacts DEF PublishCheck, Removing
  <2>2. \/ \E place : Goto(t, place)
        \/ /\ pc' = [pc EXCEPT ![t] = "replace"] /\ victims' = [victims EXCEPT ![t] = {Mine(t)}]
           /\ ~Leased(Mine(t))
    BY <1>10 DEF PublishCheck
  <2>3. ASSUME pc' = [pc EXCEPT ![t] = "replace"], victims' = [victims EXCEPT ![t] = {Mine(t)}],
               ~Leased(Mine(t))
        PROVE  Chosen(t)
    <3>1. {Mine(t)} \in SUBSET Packs /\ \A k \in {Mine(t)} : ~Leased(k)
      BY <2>1, <2>3
    <3> QED BY <2>3, <3>1 DEF Chosen
  <2> QED BY <2>1, <2>2, <2>3 DEF Calm, Goto
<1>11. ASSUME NEW t \in Threads, PruneStart(t) PROVE Chosen(t)
  <2>1. PICK keep : victims' = [victims EXCEPT ![t] = Candidates(t) \ keep]
    BY <1>11 DEF PruneStart
  <2>2. /\ Candidates(t) \ keep \in SUBSET Packs /\ \A k \in Candidates(t) \ keep : ~Leased(k)
        /\ pc' = [pc EXCEPT ![t] = "prune"]
    BY <1>11 DEF PruneStart, Candidates
  <2> QED BY <2>1, <2>2 DEF Chosen
<1>12. ASSUME NEW t \in Threads, RemoveStart(t) PROVE Calm(t) \/ Chosen(t)
  <2>1. victims[t] = {}
    BY <1>5, <1>12 DEF RemoveStart, Removing
  <2>2. CASE RemovalDeferred(t)
    BY <1>12, <2>1, <2>2 DEF RemoveStart, Calm, Goto
  <2>3. CASE ~RemovalDeferred(t)
    <3> DEFINE ks == {k \in Packs : Owned(k)}
    <3>1. pc' = [pc EXCEPT ![t] = "remove"] /\ victims' = [victims EXCEPT ![t] = ks]
      BY <1>12, <2>3 DEF RemoveStart
    <3>2. ks \in SUBSET Packs /\ \A k \in ks : ~Leased(k)
      BY <2>3 DEF RemovalDeferred, Owned, Broken
    <3> HIDE DEF ks
    <3> QED BY <3>1, <3>2 DEF Chosen
  <2> QED BY <2>2, <2>3
<1>13. ASSUME NEW t \in Threads, SweepDone(t) PROVE Calm(t)
  <2>1. victims[t] = {} /\ Goto(t, AfterSweep(t))
    BY <1>13 DEF SweepDone
  <2> QED BY <2>1, Zenon DEF Calm, Goto
<1>14. ASSUME NEW t \in Threads, SweepFails(t) PROVE Chosen(t)
  BY <1>14, Zenon DEF SweepFails, Chosen
<1> HIDE DEF disk, thread, local
<1> QED
  BY <1>1, <1>2, <1>3, <1>4, <1>6, <1>7, <1>8, <1>9, <1>10, <1>11, <1>12, <1>13, <1>14 DEF Next, Step
LEMMA DirSteps ==
    ASSUME [Next]_vars
    PROVE  \/ \E t \in Threads : Sweep(t) \/ RenameStage(t)
           \/ \E k \in Packs : Meddle(k)
           \/ UNCHANGED dir
<1> USE DEF disk
<1>1. CASE \E p \in Servers : Server(p)
  BY <1>1 DEF Server, Spawn, BindWrapper, BindServer, Release, Rest
<1>2. CASE \E c \in consumers : StartDaemon(c) \/ ServerExits(c)
  BY <1>2 DEF StartDaemon, ServerExits
<1>3. ASSUME NEW p, Crash(p) PROVE UNCHANGED dir
  BY <1>3 DEF Crash
<1>4. CASE UNCHANGED vars
  BY <1>4 DEF vars
<1>5. ASSUME NEW t, NEW what, Request(t, what) PROVE UNCHANGED dir
  BY <1>5 DEF Request
<1>6. ASSUME NEW t,
             \/ TryLock(t) \/ WriteLock(t) \/ TakeGuard(t) \/ ReclaimLock(t) \/ UnlinkLock(t)
             \/ Recreate(t) \/ DropGuard(t) \/ Unlock(t) \/ WriteLease(t) \/ InstallCheck(t)
             \/ MarkStage(t) \/ Inspect(t) \/ Fetch(t) \/ Chunk(t) \/ FinishDownload(t)
      PROVE  UNCHANGED dir
  BY <1>6 DEF TryLock, WriteLock, TakeGuard, ReclaimLock, UnlinkLock, Recreate, DropGuard, Unlock,
       WriteLease, InstallCheck, MarkStage, Inspect, Fetch, Chunk, FinishDownload
<1>7. ASSUME NEW t,
             \/ Interrupt(t) \/ Unpack(t) \/ PublishCheck(t) \/ UnmarkStage(t) \/ Tidy(t)
             \/ PruneStart(t) \/ RemoveStart(t) \/ SweepDone(t) \/ SweepFails(t) \/ Cleanup(t)
             \/ RepairCheck(t) \/ Checkpoint(t)
      PROVE  UNCHANGED dir
  BY <1>7 DEF Interrupt, Unpack, PublishCheck, UnmarkStage, Tidy, PruneStart, RemoveStart,
       SweepDone, SweepFails, Cleanup, RepairCheck, Checkpoint
<1> HIDE DEF disk
<1> QED BY <1>1, <1>2, <1>3, <1>4, <1>5, <1>6, <1>7 DEF Next, Step

\* A lease is written in the lock, of a pack found valid there.
LEMMA LeaseWritten ==
    ASSUME IInv, NEW t \in Threads, WriteLease(t)
    PROVE  /\ RecordInv' /\ ConsumerInv' /\ leases' \subseteq Leases /\ consumers' \subseteq Consumers
           /\ \A l \in leases' : l.inc <= inc'[l.owner]
           /\ \A k \in Packs : Leased(k)' => Leased(k) \/ dir[k] = "valid"
           /\ \A u \in Threads : victims[u] = {}
<1> DEFINE new == NewLease(Owner(t))
<1>1. /\ pc[t] = "locked" /\ job[t] = "lease" /\ UNCHANGED <<dir, inc, consumers>>
      /\ leases' = IF dir[Mine(t)] = "valid" THEN leases \cup {new} ELSE leases
  BY DEF WriteLease, local
<1>2. Owner(t) \in Servers /\ Owner(t) \in Procs /\ Mine(t) \in Packs /\ inc[Owner(t)] \in Nat
  BY <1>1, ThreadFacts DEF IInv, PlaceInv, TypeInv
<1>3. /\ new \in Leases /\ new.owner = Owner(t) /\ new.inc = inc[Owner(t)] /\ new.pack = Mine(t)
      /\ new.pids = {} /\ ~new.bound
  BY <1>2 DEF NewLease, Leases, Mine
<1> HIDE DEF new
<1>4. \A m : Protects(m)' <=> Protects(m)
  BY <1>1 DEF Protects, ProcessAlive
<1>5. \A k \in Packs : Leased(k)' => Leased(k) \/ dir[k] = "valid"
  BY <1>1, <1>3, <1>4 DEF Leased
<1>6. RecordInv'
  BY <1>1, <1>3 DEF IInv, PackInv, RecordInv, Mine
<1>7. ConsumerInv'
  <2>1. \A c \in consumers : \E m \in leases' : Covers(m, c)
    BY <1>1 DEF IInv, PackInv, ConsumerInv
  <2> QED BY <1>1, <2>1 DEF IInv, PackInv, ConsumerInv, Covers
<1>8. \A l \in leases' : l.inc <= inc'[l.owner]
  BY <1>1, <1>2, <1>3 DEF IInv, PastInv
<1>9. \A u \in Threads : victims[u] = {}
  <2> TAKE u \in Threads
  <2>1. CASE u = t
    BY <1>1, <2>1 DEF IInv, PackInv, RemovalInv, Removing
  <2>2. CASE u # t
    <3>1. pc[t] \in InLock /\ pc[u] \notin InLock
      BY <1>1, <2>2, Exclusive DEF IInv, LockInv, OneMutator, InLock
    <3> QED BY <3>1 DEF IInv, PackInv, RemovalInv, Removing, InLock
  <2> QED BY <2>1, <2>2
<1> QED BY <1>1, <1>3, <1>5, <1>6, <1>7, <1>8, <1>9 DEF IInv, TypeInv

\* What is taken apart is leased by nobody.
LEMMA SweepFacts ==
    ASSUME IInv, NEW t \in Threads, Sweep(t)
    PROVE  \E k \in victims[t] :
              /\ k \in Packs /\ ~Leased(k) /\ dir[k] \notin {"foreign", "absent"}
              /\ dir' = [dir EXCEPT ![k] = NextRemnant(dir[k])]
              /\ victims' = [victims EXCEPT ![t] = IF dir[k] = "empty" THEN @ \ {k} ELSE @]
<1>1. PICK k \in victims[t] :
              /\ dir[k] \notin {"foreign", "absent"}
              /\ dir' = [dir EXCEPT ![k] = NextRemnant(dir[k])]
              /\ victims' = [victims EXCEPT ![t] = IF dir[k] = "empty" THEN @ \ {k} ELSE @]
  BY DEF Sweep, IInv, TypeInv
<1>2. k \in Packs /\ ~Leased(k)
  BY DEF IInv, TypeInv, PackInv, RemovalInv
<1> QED BY <1>1, <1>2

LEMMA PackPreserved ==
    ASSUME IInv, [Next]_vars
    PROVE  /\ PackInv' /\ \A l \in leases' : l.inc <= inc'[l.owner]
           /\ leases' \subseteq Leases /\ consumers' \subseteq Consumers
           /\ dir' \in [Packs -> Contents] /\ victims' \in [Threads -> SUBSET Packs]
<1> USE DEF IInv
<1>1. /\ RecordInv' /\ ConsumerInv' /\ leases' \subseteq Leases /\ consumers' \subseteq Consumers
      /\ \A l \in leases' : l.inc <= inc'[l.owner]
  BY LeaseSteps, LeaseWritten DEF LeasesLess
<1>2. dir' \in [Packs -> Contents]
  <2>1. ASSUME NEW t \in Threads, Sweep(t) PROVE dir' \in [Packs -> Contents]
    BY <2>1, SweepFacts DEF TypeInv, NextRemnant, Contents
  <2>2. ASSUME NEW t \in Threads, RenameStage(t) PROVE dir' \in [Packs -> Contents]
    BY <2>2 DEF TypeInv, RenameStage, Contents
  <2>3. ASSUME NEW k \in Packs, Meddle(k) PROVE dir' \in [Packs -> Contents]
    BY <2>3 DEF TypeInv, Meddle, Contents
  <2> QED BY <2>1, <2>2, <2>3, DirSteps DEF TypeInv
<1>3. LeasedInv'
  <2> SUFFICES ASSUME NEW k \in Packs, Leased(k)' PROVE dir'[k] \in {"valid", "damaged"}
    BY DEF LeasedInv
  <2>1. dir[k] \in {"valid", "damaged"}
    BY LeaseSteps, LeaseWritten DEF LeasesLess, PackInv, LeasedInv
  <2>2. ASSUME NEW t \in Threads, Sweep(t) PROVE dir'[k] = dir[k]
    <3>1. Leased(k)
      <4>1. UNCHANGED <<leases, inc, consumers>>
        BY <2>2 DEF Sweep, local
      <4> QED BY <4>1 DEF Leased, Protects, ProcessAlive
    <3> QED BY <2>2, <3>1, SweepFacts DEF TypeInv
  <2>3. ASSUME NEW t \in Threads, RenameStage(t) PROVE dir'[k] = dir[k]
    BY <2>1, <2>3 DEF RenameStage, TypeInv
  <2>4. ASSUME NEW j \in Packs, Meddle(j) PROVE dir'[k] \in {"valid", "damaged"}
    BY <2>1, <2>4 DEF Meddle, TypeInv
  <2> QED BY <2>1, <2>2, <2>3, <2>4, DirSteps
<1>4. RemovalInv' /\ victims' \in [Threads -> SUBSET Packs]
  <2>1. CASE \E t \in Threads : WriteLease(t)
    <3>1. PICK t \in Threads : WriteLease(t)
      BY <2>1
    <3>2. UNCHANGED victims /\ \A u \in Threads : victims[u] = {}
      BY <3>1, LeaseWritten DEF WriteLease, Goto
    <3> QED BY <3>2 DEF RemovalInv, TypeInv
  <2>2. CASE LeasesLess
    <3>1. \A k \in Packs : ~Leased(k) => ~Leased(k)'
      BY <2>2 DEF LeasesLess
    <3>2. \A u \in Threads : /\ victims[u] \subseteq Packs /\ (victims[u] # {} => Removing(u))
                             /\ \A k \in victims[u] : ~Leased(k)
      BY DEF TypeInv, PackInv, RemovalInv
    <3>3. ASSUME NEW t \in Threads, NEW place, NEW ks \in SUBSET Packs,
                 pc' = [pc EXCEPT ![t] = place], victims' = [victims EXCEPT ![t] = ks],
                 ks # {} => place \in {"replace", "prune", "remove"}, \A k \in ks : ~Leased(k)
          PROVE  RemovalInv' /\ victims' \in [Threads -> SUBSET Packs]
      <4>1. \A u \in Threads : /\ pc'[u] = IF u = t THEN place ELSE pc[u]
                               /\ victims'[u] = IF u = t THEN ks ELSE victims[u]
        BY <3>3 DEF TypeInv
      <4>2. victims' \in [Threads -> SUBSET Packs]
        BY <3>3 DEF TypeInv
      <4>3. ASSUME NEW u \in Threads
            PROVE  (victims'[u] # {} => Removing(u)') /\ \A k \in victims'[u] : ~Leased(k)'
        BY <3>1, <3>2, <3>3, <4>1, <4>2 DEF Removing
      <4> QED BY <4>2, <4>3 DEF RemovalInv
    <3>4. ASSUME NEW t \in Threads, Calm(t)
          PROVE  RemovalInv' /\ victims' \in [Threads -> SUBSET Packs]
      <4>1. victims' = [victims EXCEPT ![t] = {}]
        BY <3>4 DEF Calm, TypeInv
      <4>2. PICK place : pc' = [pc EXCEPT ![t] = place]
        BY <3>4 DEF Calm
      <4> QED BY <3>3, <4>1, <4>2
    <3>5. ASSUME NEW t \in Threads, Chosen(t)
          PROVE  RemovalInv' /\ victims' \in [Threads -> SUBSET Packs]
      BY <3>3, <3>5 DEF Chosen
    <3>6. ASSUME NEW t \in Threads, Sweep(t)
          PROVE  RemovalInv' /\ victims' \in [Threads -> SUBSET Packs]
      <4>1. PICK k \in victims[t] :
               victims' = [victims EXCEPT ![t] = IF dir[k] = "empty" THEN @ \ {k} ELSE @]
        BY <3>6, SweepFacts
      <4> DEFINE ks == IF dir[k] = "empty" THEN victims[t] \ {k} ELSE victims[t]
      <4>2. /\ victims' = [victims EXCEPT ![t] = ks] /\ ks \in SUBSET Packs
            /\ \A j \in ks : ~Leased(j)
        BY <3>2, <4>1
      <4>3. pc' = [pc EXCEPT ![t] = pc[t]] /\ pc[t] \in {"replace", "prune", "remove"}
        BY <3>6 DEF Sweep, Removing, TypeInv
      <4> HIDE DEF ks
      <4> QED BY <3>3, <4>2, <4>3
    <3>7. ASSUME NEW p \in Procs, Crash(p)
          PROVE  RemovalInv' /\ victims' \in [Threads -> SUBSET Packs]
      <4>1. /\ victims' \in [Threads -> SUBSET Packs]
            /\ \A u \in Threads : /\ victims'[u] = IF Owner(u) = p THEN {} ELSE victims[u]
                                  /\ pc'[u] = IF Owner(u) = p THEN "idle" ELSE pc[u]
        BY <3>2, <3>7 DEF Crash
      <4>2. ASSUME NEW u \in Threads
            PROVE  (victims'[u] # {} => Removing(u)') /\ \A k \in victims'[u] : ~Leased(k)'
        BY <3>1, <3>2, <4>1 DEF Removing
      <4> QED BY <4>1, <4>2 DEF RemovalInv
    <3>8. CASE UNCHANGED <<pc, victims>>
      <4>1. ASSUME NEW u \in Threads
            PROVE  (victims'[u] # {} => Removing(u)') /\ \A k \in victims'[u] : ~Leased(k)'
        BY <3>1, <3>2, <3>8 DEF Removing
      <4> QED BY <3>8, <4>1 DEF RemovalInv, TypeInv
    <3> QED BY <3>4, <3>5, <3>6, <3>7, <3>8, RemovalSteps
  <2> QED BY <2>1, <2>2, LeaseSteps
<1> QED BY <1>1, <1>2, <1>3, <1>4 DEF PackInv
-------------------------------------------------------------------------------
(* The other types.                                                        *)

SideTypes ==
    /\ orphans' \subseteq {"bare", "marked"} /\ stage' \in [Procs -> {None, "bare", "marked"}]
    /\ faults' \in 0..MaxFaults

LEMMA SidePreserved ==
    ASSUME IInv, [Next]_vars
    PROVE  SideTypes
<1> USE DEF IInv, TypeInv, disk, thread, local
<1>1. ASSUME UNCHANGED <<orphans, stage>>, UNCHANGED faults \/ Fault PROVE SideTypes
  BY <1>1, PackAssumption DEF SideTypes, Fault
<1>2. ASSUME NEW p \in Procs, NEW x \in {None, "bare", "marked"}, stage' = [stage EXCEPT ![p] = x],
             orphans' \subseteq {"bare", "marked"}, UNCHANGED faults \/ Fault
      PROVE  SideTypes
  BY <1>2, PackAssumption DEF SideTypes, Fault
<1>3. CASE \E p \in Servers : Server(p)
  BY <1>1, <1>3 DEF Server, Spawn, BindWrapper, BindServer, Release, Rest
<1>4. CASE \E c \in consumers : StartDaemon(c) \/ ServerExits(c)
  BY <1>1, <1>4 DEF StartDaemon, ServerExits
<1>5. CASE \E k \in Packs : Meddle(k)
  BY <1>1, <1>5 DEF Meddle
<1>6. CASE UNCHANGED vars
  BY <1>1, <1>6 DEF vars
<1>7. ASSUME NEW t \in Threads, NEW what, Request(t, what) PROVE SideTypes
  BY <1>1, <1>7 DEF Request
<1>8. ASSUME NEW p \in Procs, Crash(p) PROVE SideTypes
  BY <1>2, <1>8 DEF Crash
<1>9. ASSUME NEW t \in Threads,
             \/ TryLock(t) \/ WriteLock(t) \/ TakeGuard(t) \/ ReclaimLock(t) \/ UnlinkLock(t)
             \/ Recreate(t) \/ DropGuard(t) \/ Unlock(t) \/ WriteLease(t)
      PROVE  SideTypes
  BY <1>1, <1>9 DEF TryLock, WriteLock, TakeGuard, ReclaimLock, UnlinkLock, Recreate, DropGuard,
       Unlock, WriteLease
<1>10. ASSUME NEW t \in Threads,
              \/ Inspect(t) \/ Fetch(t) \/ Chunk(t) \/ FinishDownload(t) \/ Interrupt(t)
              \/ Checkpoint(t) \/ Unpack(t) \/ PublishCheck(t)
       PROVE  UNCHANGED <<orphans, stage>> /\ (UNCHANGED faults \/ Fault)
  BY <1>10 DEF Inspect, Fetch, Chunk, FinishDownload, Interrupt, Checkpoint, Unpack, PublishCheck
<1>11. ASSUME NEW t \in Threads,
              \/ Tidy(t) \/ PruneStart(t) \/ Sweep(t) \/ SweepDone(t) \/ SweepFails(t)
       PROVE  UNCHANGED <<orphans, stage>> /\ (UNCHANGED faults \/ Fault)
  BY <1>11 DEF Tidy, PruneStart, Sweep, SweepDone, SweepFails
<1>12. ASSUME NEW t \in Threads, InstallCheck(t) PROVE SideTypes
  <2>1. /\ orphans' = Recovered /\ UNCHANGED faults
        /\ UNCHANGED stage \/ stage' = [stage EXCEPT ![Owner(t)] = "bare"]
    BY <1>12 DEF InstallCheck
  <2> QED BY <2>1, ThreadFacts DEF SideTypes, Recovered
<1>13. ASSUME NEW t \in Threads, MarkStage(t) \/ UnmarkStage(t) \/ RenameStage(t) PROVE SideTypes
  <2>1. PICK x \in {None, "bare", "marked"} : stage' = [stage EXCEPT ![Owner(t)] = x]
    BY <1>13 DEF MarkStage, UnmarkStage, RenameStage
  <2>2. UNCHANGED orphans /\ (UNCHANGED faults \/ Fault)
    BY <1>13 DEF MarkStage, UnmarkStage, RenameStage
  <2> QED BY <1>2, <2>1, <2>2, ThreadFacts
<1>14. ASSUME NEW t \in Threads, Cleanup(t) PROVE SideTypes
  BY <1>2, <1>14, ThreadFacts DEF Cleanup
<1>15. ASSUME NEW t \in Threads, RemoveStart(t) \/ RepairCheck(t) PROVE SideTypes
  <2>1. UNCHANGED <<stage, faults>> /\ orphans' \subseteq orphans
    BY <1>15 DEF RemoveStart, RepairCheck, Recovered
  <2> QED BY <2>1 DEF SideTypes
<1> HIDE DEF disk, thread, local, IInv, TypeInv, SideTypes
<1>16. ASSUME NEW t \in Threads, Step(t) \/ Checkpoint(t) PROVE SideTypes
  BY <1>1, <1>9, <1>10, <1>11, <1>12, <1>13, <1>14, <1>15, <1>16 DEF Step
<1> QED BY <1>3, <1>4, <1>5, <1>6, <1>7, <1>8, <1>16 DEF Next

\* A lock is of an incarnation that is alive or has passed.
LEMMA LockTypes ==
    ASSUME IInv, [Next]_vars
    PROVE  /\ lock' \in Locks \cup {None} /\ inc' \in [Procs -> Nat]
           /\ lock' \in Locks => lock'.inc <= inc'[lock'.owner]
<1> DEFINE Goal == /\ lock' \in Locks \cup {None} /\ inc' \in [Procs -> Nat]
                   /\ lock' \in Locks => lock'.inc <= inc'[lock'.owner]
<1>1. ASSUME UNCHANGED inc, lock' \in {lock, None} PROVE Goal
  BY <1>1, NoneAssumption DEF IInv, TypeInv, PastInv
<1>2. ASSUME NEW t \in Threads, NEW w \in BOOLEAN, UNCHANGED inc, lock' = LockOf(t, w) PROVE Goal
  <2>1. LockOf(t, w) \in Locks /\ LockOf(t, w).inc = inc[LockOf(t, w).owner] /\ LockOf(t, w).inc \in Nat
    BY RecordFacts DEF IInv, Locks
  <2> QED BY <1>2, <2>1 DEF IInv, TypeInv
<1>3. ASSUME NEW p \in Procs, Crash(p) PROVE Goal
  <2>1. inc' = [inc EXCEPT ![p] = @ + 1] /\ UNCHANGED lock
    BY <1>3 DEF Crash
  <2> QED BY <2>1 DEF IInv, TypeInv, PastInv, Locks
<1> HIDE DEF Goal
<1>4. ASSUME NEW t \in Threads,
             \/ TakeGuard(t) \/ ReclaimLock(t) \/ UnlinkLock(t) \/ DropGuard(t) \/ Unlock(t) \/ Inner(t)
             \/ \E what \in {"install", "repair", "remove", "lease"} : Request(t, what)
      PROVE  Goal
  BY <1>1, <1>4 DEF TakeGuard, ReclaimLock, UnlinkLock, DropGuard, Unlock, Inner, Request, disk, local
<1>5. ASSUME NEW t \in Threads, TryLock(t) \/ WriteLock(t) \/ Recreate(t) PROVE Goal
  BY <1>1, <1>2, <1>5 DEF TryLock, WriteLock, Recreate, Create, local
<1>6. Goal
  BY <1>1, <1>3, <1>4, <1>5, LockSteps
<1> QED BY <1>6 DEF Goal

ThreadTypes ==
    /\ PlaceInv' /\ pc' \in [Threads -> Places]
    /\ job' \in [Threads -> {"install", "repair", "remove", "lease", None}]
    /\ seen' \in [Threads -> Locks \cup {None}]

\* A thread at work goes on, a lease thread only within the lock's places.
LEMMA WalkStep ==
    ASSUME IInv, NEW t \in Threads, pc[t] # "idle", NEW place \in Places, Goto(t, place),
           t[2] = "op" \/ place \in LeasePlaces
    PROVE  ThreadTypes
<1>1. /\ pc' \in [Threads -> Places] /\ \A u \in Threads : pc'[u] = IF u = t THEN place ELSE pc[u]
      /\ job' \in [Threads -> {"install", "repair", "remove", "lease", None}]
      /\ job'[t] = IF place = "idle" THEN None ELSE job[t]
      /\ \A u \in Threads \ {t} : job'[u] = job[u]
      /\ seen' \in [Threads -> Locks \cup {None}]
  BY GotoTypes DEF IInv, TypeInv
<1>2. PlaceInv'
  BY <1>1 DEF IInv, PlaceInv
<1> QED BY <1>1, <1>2 DEF ThreadTypes

\* A step inside the lock that has its own rule for the thread's next step.
LEMMA WorkStep ==
    ASSUME IInv, NEW t \in Threads, pc[t] # "idle", NEW place \in Places \ {"idle"},
           pc' = [pc EXCEPT ![t] = place], UNCHANGED job,
           seen' \in [Threads -> Locks \cup {None}],
           t[2] = "op" \/ place \in LeasePlaces
    PROVE  ThreadTypes
<1>1. /\ pc' \in [Threads -> Places] /\ \A u \in Threads : pc'[u] = IF u = t THEN place ELSE pc[u]
  BY DEF IInv, TypeInv
<1>2. PlaceInv'
  BY <1>1 DEF IInv, PlaceInv
<1> QED BY <1>1, <1>2 DEF ThreadTypes, IInv, TypeInv

LEMMA ThreadPreserved ==
    ASSUME IInv, [Next]_vars
    PROVE  ThreadTypes
<1>1. /\ {"idle", "lock", "write", "guard", "recheck", "unlink", "recreate", "giveup", "unguard", "locked",
         "unlock"} \subseteq LeasePlaces
      /\ LeasePlaces \subseteq Places /\ InLock \subseteq Places
  BY DEF LeasePlaces, OutsideLock, InLock, Places
<1>2. ASSUME UNCHANGED <<pc, job, seen>> PROVE ThreadTypes
  BY <1>2 DEF ThreadTypes, IInv, TypeInv, PlaceInv
<1>3. ASSUME NEW t \in Threads, NEW place \in LeasePlaces, pc[t] # "idle", Goto(t, place)
      PROVE  ThreadTypes
  BY <1>1, <1>3, WalkStep
<1>4. ASSUME NEW t \in Threads, pc[t] # "idle", pc[t] \notin LeasePlaces \/ job[t] # "lease"
      PROVE  t[2] = "op"
  BY <1>4, ThreadFacts DEF IInv, PlaceInv
<1>5. ASSUME NEW t \in Threads, t[2] = "op", pc[t] # "idle", NEW place \in Places, Goto(t, place)
      PROVE  ThreadTypes
  BY <1>5, WalkStep
<1>6. CASE \E p \in Servers : Server(p)
  BY <1>2, <1>6 DEF Server, Spawn, BindWrapper, BindServer, Release, Rest, thread
<1>7. CASE \E c \in consumers : StartDaemon(c) \/ ServerExits(c)
  BY <1>2, <1>7 DEF StartDaemon, ServerExits, thread
<1>8. CASE \E k \in Packs : Meddle(k)
  BY <1>2, <1>8 DEF Meddle, thread
<1>9. CASE UNCHANGED vars
  BY <1>2, <1>9 DEF vars, thread
<1>10. ASSUME NEW t \in Threads, NEW what \in {"install", "repair", "remove", "lease"}, Request(t, what)
       PROVE  ThreadTypes
  <2>1. /\ pc' = [pc EXCEPT ![t] = "lock"] /\ job' = [job EXCEPT ![t] = what] /\ UNCHANGED seen
        /\ what = "lease" <=> t[2] = "lease"
    BY <1>10, ThreadFacts DEF Request
  <2>2. \A u \in Threads : /\ pc'[u] = IF u = t THEN "lock" ELSE pc[u]
                           /\ job'[u] = IF u = t THEN what ELSE job[u]
    BY <2>1 DEF IInv, TypeInv
  <2>3. PlaceInv'
    BY <1>1, <2>1, <2>2 DEF IInv, PlaceInv
  <2> QED BY <1>1, <2>1, <2>3 DEF IInv, TypeInv, ThreadTypes
<1>11. ASSUME NEW p \in Procs, Crash(p) PROVE ThreadTypes
  <2>1. \A u \in Threads : /\ pc'[u] = IF Owner(u) = p THEN "idle" ELSE pc[u]
                           /\ job'[u] = IF Owner(u) = p THEN None ELSE job[u]
                           /\ seen'[u] = IF Owner(u) = p THEN None ELSE seen[u]
    BY <1>11 DEF Crash
  <2>2. /\ pc' \in [Threads -> Places] /\ seen' \in [Threads -> Locks \cup {None}]
        /\ job' \in [Threads -> {"install", "repair", "remove", "lease", None}]
    BY <1>1, <1>11 DEF Crash, IInv, TypeInv
  <2>3. PlaceInv'
    BY <1>1, <2>1 DEF IInv, PlaceInv
  <2> QED BY <2>2, <2>3 DEF ThreadTypes
<1>12. ASSUME NEW t \in Threads, TryLock(t) PROVE ThreadTypes
  <2>1. CASE \E place \in LeasePlaces : Goto(t, place)
    BY <1>3, <1>12, <2>1 DEF TryLock
  <2>2. CASE pc' = [pc EXCEPT ![t] = "guard"] /\ seen' = [seen EXCEPT ![t] = lock] /\ UNCHANGED job
    <3>1. seen' \in [Threads -> Locks \cup {None}] /\ pc[t] # "idle" /\ "guard" \in Places \ {"idle"}
      BY <1>1, <1>12, <2>2 DEF IInv, TypeInv, TryLock
    <3> QED BY <1>1, <2>2, <3>1, WorkStep
  <2> QED BY <1>1, <1>12, <2>1, <2>2 DEF TryLock
<1>13. ASSUME NEW t \in Threads,
              \/ WriteLock(t) \/ TakeGuard(t) \/ ReclaimLock(t) \/ UnlinkLock(t) \/ Recreate(t)
              \/ DropGuard(t) \/ WriteLease(t)
       PROVE  ThreadTypes
  <2>1. pc[t] # "idle"
    BY <1>13 DEF WriteLock, TakeGuard, ReclaimLock, UnlinkLock, Recreate, DropGuard, WriteLease
  <2>2. \E place \in LeasePlaces : Goto(t, place)
    <3>1. CASE WriteLock(t) BY <1>1, <3>1 DEF WriteLock
    <3>2. CASE TakeGuard(t) \/ ReclaimLock(t) BY <1>1, <3>2 DEF TakeGuard, ReclaimLock
    <3>3. CASE UnlinkLock(t) \/ Recreate(t) BY <1>1, <3>3 DEF UnlinkLock, Recreate
    <3>4. CASE DropGuard(t) BY <1>1, <3>4 DEF DropGuard
    <3>5. CASE WriteLease(t) BY <1>1, <3>5 DEF WriteLease
    <3> QED BY <1>13, <3>1, <3>2, <3>3, <3>4, <3>5
  <2> QED BY <1>3, <2>1, <2>2
<1>14. ASSUME NEW t \in Threads, Unlock(t) PROVE ThreadTypes
  <2>1. CASE pc[t] = "unlock"
    BY <1>1, <1>3, <1>14, <2>1 DEF Unlock
  <2>2. CASE pc[t] = "handover"
    <3>1. /\ pc' = [pc EXCEPT ![t] = "lock"] /\ job' = [job EXCEPT ![t] = "install"] /\ UNCHANGED seen
      BY <1>14, <2>2 DEF Unlock
    <3>2. \A u \in Threads : /\ pc'[u] = IF u = t THEN "lock" ELSE pc[u]
                             /\ job'[u] = IF u = t THEN "install" ELSE job[u]
      BY <3>1 DEF IInv, TypeInv
    <3>3. t[2] = "op"
      BY <1>4, <2>2 DEF LeasePlaces, OutsideLock
    <3>4. PlaceInv'
      BY <3>2, <3>3 DEF IInv, PlaceInv
    <3> QED BY <1>1, <3>1, <3>4 DEF IInv, TypeInv, ThreadTypes
  <2> QED BY <1>14, <2>1, <2>2 DEF Unlock
<1>15. ASSUME NEW t \in Threads,
              \/ InstallCheck(t) \/ MarkStage(t) \/ Inspect(t) \/ Fetch(t) \/ FinishDownload(t)
              \/ Interrupt(t) \/ Unpack(t) \/ UnmarkStage(t) \/ RenameStage(t) \/ Tidy(t) \/ SweepDone(t)
              \/ Cleanup(t) \/ RepairCheck(t)
       PROVE  ThreadTypes
  <2>1. pc[t] # "idle" /\ (pc[t] \notin LeasePlaces \/ job[t] # "lease")
    BY <1>15 DEF InstallCheck, MarkStage, Inspect, Fetch, FinishDownload, Interrupt, Streaming, Unpack,
         UnmarkStage, RenameStage, Tidy, SweepDone, Removing, Cleanup, RepairCheck, LeasePlaces, OutsideLock
  <2>2. \E place \in InLock : Goto(t, place)
    <3> USE DEF InLock
    <3>1. CASE InstallCheck(t) \/ MarkStage(t) BY <3>1 DEF InstallCheck, MarkStage
    <3>2. CASE Inspect(t) BY <3>2 DEF Inspect
    <3>3. CASE Fetch(t) \/ Interrupt(t) BY <3>3 DEF Fetch, Interrupt
    <3>4. CASE FinishDownload(t) BY <3>4 DEF FinishDownload
    <3>5. CASE Unpack(t) \/ UnmarkStage(t) \/ RenameStage(t) \/ Tidy(t)
      BY <3>5 DEF Unpack, UnmarkStage, RenameStage, Tidy
    <3>6. CASE Cleanup(t) BY <3>6 DEF Cleanup
    <3>7. CASE RepairCheck(t) BY <3>7 DEF RepairCheck
    <3>8. CASE SweepDone(t) BY <3>8 DEF SweepDone, AfterSweep
    <3> QED BY <1>15, <3>1, <3>2, <3>3, <3>4, <3>5, <3>6, <3>7, <3>8
  <2> QED BY <1>1, <1>4, <1>5, <2>1, <2>2
<1>16. ASSUME NEW t \in Threads,
              PublishCheck(t) \/ PruneStart(t) \/ RemoveStart(t) \/ SweepFails(t)
       PROVE  ThreadTypes
  <2>1. pc[t] # "idle" /\ (pc[t] \notin LeasePlaces \/ job[t] # "lease")
    BY <1>16 DEF PublishCheck, PruneStart, RemoveStart, SweepFails, Removing, LeasePlaces, OutsideLock
  <2>2. \E place \in InLock :
          Goto(t, place) \/ (pc' = [pc EXCEPT ![t] = place] /\ UNCHANGED <<job, seen>>)
    <3> USE DEF InLock
    <3>1. CASE PublishCheck(t) BY <3>1 DEF PublishCheck
    <3>2. CASE PruneStart(t) BY <3>2 DEF PruneStart
    <3>3. CASE RemoveStart(t) BY <3>3 DEF RemoveStart
    <3>4. CASE SweepFails(t) BY <3>4 DEF SweepFails
    <3> QED BY <1>16, <3>1, <3>2, <3>3, <3>4
  <2>3. PICK place \in InLock :
          Goto(t, place) \/ (pc' = [pc EXCEPT ![t] = place] /\ UNCHANGED <<job, seen>>)
    BY <2>2
  <2>4. t[2] = "op" /\ place \in Places /\ place # "idle"
    BY <1>1, <1>4, <2>1 DEF InLock
  <2>5. CASE Goto(t, place)
    BY <1>5, <2>1, <2>4, <2>5
  <2>6. CASE pc' = [pc EXCEPT ![t] = place] /\ UNCHANGED <<job, seen>>
    <3>1. seen' \in [Threads -> Locks \cup {None}]
      BY <2>6 DEF IInv, TypeInv
    <3> QED BY <2>1, <2>4, <2>6, <3>1, WorkStep
  <2> QED BY <2>3, <2>5, <2>6
<1>17. ASSUME NEW t \in Threads, Chunk(t) \/ Checkpoint(t) \/ Sweep(t) PROVE UNCHANGED <<pc, job, seen>>
  BY <1>17 DEF Chunk, Checkpoint, Sweep, thread
<1> HIDE DEF ThreadTypes
<1>18. ASSUME NEW t \in Threads, Step(t) \/ Checkpoint(t) PROVE ThreadTypes
  BY <1>2, <1>12, <1>13, <1>14, <1>15, <1>16, <1>17, <1>18 DEF Step
<1> QED BY <1>6, <1>7, <1>8, <1>9, <1>10, <1>11, <1>18 DEF Next

-------------------------------------------------------------------------------
(* The theorems.                                                           *)

LEMMA Initially ==
    ASSUME Init
    PROVE  IInv
<1> USE DEF Init
<1>1. Chunks \in Nat \ {0} /\ MaxFaults \in Nat /\ Good = Chunks + 1
  BY PackAssumption DEF Good
<1>2. \A t \in Threads : pc[t] = "idle" /\ seen[t] = None /\ victims[t] = {} /\ job[t] = None
  OBVIOUS
<1>3. NoPart \in Parts /\ NoPart.meta = -1
  BY <1>1 DEF NoPart, Parts
<1>4. TypeInv
  <2>1. "idle" \in Places /\ -1 \in -1..Chunks /\ 0 \in 0..MaxFaults
    BY <1>1 DEF Places, OutsideLock
  <2>2. dir \in [Packs -> Contents] /\ part \in [Packs -> Parts]
    BY <1>3 DEF Contents
  <2>3. inc \in [Procs -> Nat] /\ stage \in [Procs -> {None, "bare", "marked"}] /\ off \in [Procs -> -1..Chunks]
    BY <2>1
  <2>4. /\ pc \in [Threads -> Places] /\ victims \in [Threads -> SUBSET Packs]
        /\ job \in [Threads -> {"install", "repair", "remove", "lease", None}]
        /\ seen \in [Threads -> Locks \cup {None}]
    BY <2>1
  <2> QED BY <2>1, <2>2, <2>3, <2>4 DEF TypeInv
<1>5. PlaceInv
  BY <1>2 DEF PlaceInv, LeasePlaces, OutsideLock
<1>6. LockInv
  BY <1>2 DEF LockInv, HolderInv, GuardInv, StaleInv, InLock
<1>7. PastInv
  BY NoneAssumption DEF PastInv
<1>8. PackInv
  <2>1. RecordInv /\ ConsumerInv
    BY DEF RecordInv, ConsumerInv
  <2>2. LeasedInv /\ RemovalInv
    BY <1>2 DEF LeasedInv, RemovalInv, Leased
  <2> QED BY <2>1, <2>2 DEF PackInv
<1>9. TransferInv /\ TransfersDoNotMix
  BY <1>1, <1>2, <1>3 DEF TransferInv, TransfersDoNotMix, Installing
<1> QED BY <1>4, <1>5, <1>6, <1>7, <1>8, <1>9 DEF IInv

LEMMA Preserved ==
    ASSUME IInv, [Next]_vars
    PROVE  IInv'
<1>1. TypeInv'
  BY SidePreserved, LockTypes, ThreadPreserved, TransferPreserved, PackPreserved
     DEF TypeInv, SideTypes, ThreadTypes
<1>2. PastInv'
  BY LockTypes, PackPreserved DEF PastInv
<1> QED BY <1>1, <1>2, ThreadPreserved, LockPreserved, PackPreserved, TransferPreserved DEF IInv, ThreadTypes

LEMMA Invariant == Spec => []IInv
BY Initially, Preserved, PTL DEF Spec

(* The disk, the threads of every app process and the running servers stay *)
(* within their types.                                                     *)
THEOREM Types == Spec => []TypeOK
<1>1. IInv => TypeOK
  <2> SUFFICES ASSUME IInv PROVE TypeOK
    OBVIOUS
  <2>1. pc \in [Threads -> OutsideLock \cup InLock]
    BY DEF IInv, TypeInv, Places
  <2>2. \A k \in Packs : part[k].len \in -1..Chunks /\ part[k].meta \in -1..Chunks
    BY DEF IInv, TypeInv, Parts
  <2>3. InUse \subseteq {PackOf[p] : p \in Servers}
    BY DEF IInv, TypeInv, InUse, Consumers
  <2> QED BY <2>1, <2>2, <2>3 DEF TypeOK, IInv, TypeInv, Contents
<1> QED BY <1>1, Invariant, PTL

(* One thread at a time of all app processes is in the mutation lock: any  *)
(* number of them may find the lock of a dead process, reclaim it together *)
(* and die while they do (acquireMutationLock).                            *)
THEOREM LockExcludes == Spec => []OneMutator
<1>1. IInv => OneMutator
  BY Exclusive DEF IInv, LockInv
<1> QED BY <1>1, Invariant, PTL

(* What a transfer appends lands at its write offset, through resumes,     *)
(* restarts, dropped connections and crashes (downloadAssetRange); and an  *)
(* install goes on with a partial that is whole and of the pinned bytes,   *)
(* until its pack is in place, although a corrupt transfer may leave a     *)
(* complete checkpoint (performInstall).                                   *)
THEOREM TransfersStayApart == Spec => []TransfersDoNotMix
<1>1. IInv => TransfersDoNotMix
  BY DEF IInv
<1> QED BY <1>1, Invariant, PTL

-------------------------------------------------------------------------------
(* The packs follow PackStore.                                             *)

\* What PackStore sees of a directory.
View(content) ==
    CASE content = "valid" -> "complete"
      [] content \in {"gutted", "empty"} -> "partial"
      [] OTHER -> content

LEMMA VisibleStep ==
    ASSUME dir \in [Packs -> Contents], NEW k \in Packs, NEW content, dir' = [dir EXCEPT ![k] = content]
    PROVE  Visible' = [Visible EXCEPT ![k] = View(content)] /\ Visible[k] = View(dir[k])
<1>1. Visible = [j \in Packs |-> View(dir[j])] /\ Visible' = [j \in Packs |-> View(dir'[j])]
  BY Zenon DEF Visible, View
<1> HIDE DEF View
<1> QED BY <1>1

LEMMA ConsumerSteps ==
    ASSUME [Next]_vars
    PROVE  \/ \E p \in Servers : Spawn(p)
           \/ \E c \in consumers : StartDaemon(c) \/ ServerExits(c)
           \/ UNCHANGED consumers
<1>1. ASSUME NEW p, BindWrapper(p) \/ BindServer(p) \/ Release(p) PROVE UNCHANGED consumers
  BY <1>1 DEF BindWrapper, BindServer, Release, Rest
<1>2. ASSUME NEW k, Meddle(k) PROVE UNCHANGED consumers
  BY <1>2 DEF Meddle
<1>3. ASSUME NEW p, Crash(p) PROVE UNCHANGED consumers
  BY <1>3 DEF Crash
<1>4. CASE UNCHANGED vars
  BY <1>4 DEF vars
<1>5. ASSUME NEW t, NEW what, Request(t, what) PROVE UNCHANGED consumers
  BY <1>5 DEF Request
<1>6. ASSUME NEW t,
             \/ TryLock(t) \/ WriteLock(t) \/ TakeGuard(t) \/ ReclaimLock(t) \/ UnlinkLock(t)
             \/ Recreate(t) \/ DropGuard(t) \/ Unlock(t) \/ WriteLease(t) \/ InstallCheck(t)
             \/ MarkStage(t) \/ Inspect(t) \/ Fetch(t) \/ Chunk(t) \/ FinishDownload(t)
      PROVE  UNCHANGED consumers
  BY <1>6 DEF TryLock, WriteLock, TakeGuard, ReclaimLock, UnlinkLock, Recreate, DropGuard, Unlock,
       WriteLease, InstallCheck, MarkStage, Inspect, Fetch, Chunk, FinishDownload
<1>7. ASSUME NEW t,
             \/ Interrupt(t) \/ Unpack(t) \/ PublishCheck(t) \/ UnmarkStage(t) \/ RenameStage(t)
             \/ Tidy(t) \/ PruneStart(t) \/ RemoveStart(t) \/ Sweep(t) \/ SweepDone(t)
             \/ SweepFails(t) \/ Cleanup(t) \/ RepairCheck(t) \/ Checkpoint(t)
      PROVE  UNCHANGED consumers
  BY <1>7 DEF Interrupt, Unpack, PublishCheck, UnmarkStage, RenameStage, Tidy, PruneStart,
       RemoveStart, Sweep, SweepDone, SweepFails, Cleanup, RepairCheck, Checkpoint
<1> QED BY <1>1, <1>2, <1>3, <1>4, <1>5, <1>6, <1>7 DEF Next, Step, Server

\* What removes a directory's contents or publishes one, in PackStore's terms.
LEMMA DirRefines ==
    ASSUME IInv, [Next]_vars, UNCHANGED consumers
    PROVE  Packages!Next \/ UNCHANGED <<Visible, InUse>>
<1> USE DEF Packages!Next, Packages!Become, Packages!Publish, Packages!Discard, Packages!Clear,
            Packages!Damage, Packages!Occupy
<1>0. UNCHANGED InUse /\ dir \in [Packs -> Contents]
  BY DEF InUse, IInv, TypeInv
<1>1. ASSUME NEW t \in Threads, Sweep(t) PROVE Packages!Next \/ UNCHANGED <<Visible, InUse>>
  <2>1. PICK k \in victims[t] :
          /\ k \in Packs /\ ~Leased(k) /\ dir[k] \notin {"foreign", "absent"}
          /\ dir' = [dir EXCEPT ![k] = NextRemnant(dir[k])]
    BY <1>1, SweepFacts
  <2>2. k \notin InUse
    BY <2>1, ConsumersLease DEF InUse, IInv
  <2>3. Visible' = [Visible EXCEPT ![k] = View(NextRemnant(dir[k]))] /\ Visible[k] = View(dir[k])
    BY <1>0, <2>1, VisibleStep
  <2>4. CASE dir[k] \in {"valid", "damaged"}
    <3>1. View(dir[k]) \in {"complete", "damaged"} /\ View(NextRemnant(dir[k])) = "partial"
      BY <2>4 DEF View, NextRemnant
    <3>2. Packages!Discard(k)
      BY <1>0, <2>2, <2>3, <3>1
    <3> QED BY <2>1, <3>2
  <2>5. CASE dir[k] = "gutted"
    <3>1. View(dir[k]) = "partial" /\ View(NextRemnant(dir[k])) = "partial"
      BY <2>5 DEF View, NextRemnant
    <3>2. UNCHANGED Visible
      BY <2>3, <3>1 DEF Visible
    <3> QED BY <1>0, <3>2
  <2>6. CASE dir[k] = "empty"
    <3>1. View(dir[k]) = "partial" /\ View(NextRemnant(dir[k])) = "absent"
      BY <2>6 DEF View, NextRemnant
    <3>2. Packages!Clear(k)
      BY <1>0, <2>2, <2>3, <3>1
    <3> QED BY <2>1, <3>2
  <2> QED BY <1>0, <2>1, <2>4, <2>5, <2>6 DEF Contents
<1>2. ASSUME NEW t \in Threads, RenameStage(t) PROVE Packages!Next \/ UNCHANGED <<Visible, InUse>>
  <2>1. Mine(t) \in Packs
    BY ThreadFacts
  <2>2. CASE dir[Mine(t)] = "absent" /\ dir' = [dir EXCEPT ![Mine(t)] = "valid"]
    <3>1. Visible' = [Visible EXCEPT ![Mine(t)] = View("valid")] /\ Visible[Mine(t)] = View("absent")
      BY <1>0, <2>1, <2>2, VisibleStep
    <3>2. View("valid") = "complete" /\ View("absent") = "absent"
      BY DEF View
    <3>3. Packages!Publish(Mine(t))
      BY <1>0, <3>1, <3>2
    <3> QED BY <2>1, <3>3
  <2>3. CASE UNCHANGED dir
    BY <1>0, <2>3 DEF Visible
  <2> QED BY <1>2, <2>2, <2>3 DEF RenameStage
<1>3. ASSUME NEW k \in Packs, Meddle(k) PROVE Packages!Next \/ UNCHANGED <<Visible, InUse>>
  <2>1. CASE dir[k] = "valid" /\ dir' = [dir EXCEPT ![k] = "damaged"]
    <3>1. Visible' = [Visible EXCEPT ![k] = View("damaged")] /\ Visible[k] = View("valid")
      BY <1>0, <2>1, VisibleStep
    <3>2. View("valid") = "complete" /\ View("damaged") = "damaged"
      BY DEF View
    <3>3. Packages!Damage(k)
      BY <1>0, <3>1, <3>2
    <3> QED BY <3>3
  <2>2. CASE dir[k] = "absent" /\ dir' = [dir EXCEPT ![k] = "foreign"]
    <3>1. Visible' = [Visible EXCEPT ![k] = View("foreign")] /\ Visible[k] = View("absent")
      BY <1>0, <2>2, VisibleStep
    <3>2. View("foreign") = "foreign" /\ View("absent") = "absent"
      BY DEF View
    <3>3. Packages!Occupy(k)
      BY <1>0, <3>1, <3>2
    <3> QED BY <3>3
  <2> QED BY <1>3, <2>1, <2>2 DEF Meddle
<1>4. CASE UNCHANGED dir
  BY <1>0, <1>4 DEF Visible
<1> QED BY <1>1, <1>2, <1>3, <1>4, DirSteps

\* A server's pack is in use from its spawn to the exit of the last one.
LEMMA UseRefines ==
    ASSUME IInv, [Next]_vars
    PROVE  Packages!Next \/ UNCHANGED <<Visible, InUse>>
<1> USE DEF Packages!Next, Packages!Use, Packages!EndUse
<1>1. ASSUME NEW p \in Servers, Spawn(p) PROVE Packages!Next \/ UNCHANGED <<Visible, InUse>>
  <2>1. PICK l \in leases : l.owner = p /\ ProcessAlive(l)
    BY <1>1 DEF Spawn, Held
  <2>2. l.pack = PackOf[p] /\ PackOf[p] \in Packs /\ Leased(PackOf[p])
    BY <2>1, LeaseFacts DEF IInv, PackInv, RecordInv, Leased, Protects
  <2>3. dir[PackOf[p]] \in {"valid", "damaged"} /\ UNCHANGED Visible
    BY <1>1, <2>2 DEF IInv, PackInv, LeasedInv, Spawn, disk, Visible
  <2>4. Visible[PackOf[p]] \in {"complete", "damaged"}
    BY <2>2, <2>3 DEF Visible
  <2>5. consumers' = consumers \cup {Wrapper(p)} /\ Wrapper(p).owner = p
    BY <1>1 DEF Spawn, Wrapper
  <2> HIDE DEF Wrapper
  <2>6. InUse' = InUse \cup {PackOf[p]}
    BY <2>5 DEF InUse
  <2>7. Packages!Use(PackOf[p])
    BY <2>3, <2>4, <2>6
  <2> QED BY <2>2, <2>7
<1>2. ASSUME NEW c \in consumers, StartDaemon(c) PROVE UNCHANGED <<Visible, InUse>>
  <2> DEFINE d == [c EXCEPT !.kind = "daemon"]
  <2>1. consumers' = consumers \cup {d} /\ UNCHANGED Visible
    BY <1>2 DEF StartDaemon, disk, Visible
  <2>2. d.owner = c.owner
    BY DEF IInv, TypeInv, Consumers
  <2> HIDE DEF d
  <2> QED BY <2>1, <2>2 DEF InUse
<1>3. ASSUME NEW c \in consumers, ServerExits(c) PROVE Packages!Next \/ UNCHANGED <<Visible, InUse>>
  <2>1. consumers' = consumers \ {c} /\ UNCHANGED Visible
    BY <1>3 DEF ServerExits, disk, Visible
  <2>2. PackOf[c.owner] \in Packs
    BY PackAssumption DEF IInv, TypeInv, Consumers
  <2>3. InUse' = InUse \/ InUse' = InUse \ {PackOf[c.owner]}
    BY <2>1 DEF InUse
  <2> QED BY <2>1, <2>2, <2>3
<1> QED BY <1>1, <1>2, <1>3, ConsumerSteps, DirRefines

(* A pack appears complete or not at all, stays as it is, and is taken     *)
(* apart only while no live server can load from it, whatever dies between *)
(* the spawn of a server and its binding and whatever other apps install,  *)
(* repair or remove meanwhile: the disk refines PackStore.                 *)
THEOREM PublishedWhole == Spec => PacksArePublishedWhole
<1>1. Init => Packages!Init
  <2> SUFFICES ASSUME Init PROVE Packages!Init
    OBVIOUS
  <2>1. Visible \in [Packs -> Packages!Contents]
    BY DEF Init, Visible, Packages!Contents
  <2>2. InUse = {}
    BY DEF Init, InUse
  <2> QED BY <2>1, <2>2 DEF Packages!Init
<1>2. IInv /\ [Next]_vars => [Packages!Next]_<<Visible, InUse>>
  BY UseRefines
<1> QED BY <1>1, <1>2, Invariant, PTL DEF Spec, PacksArePublishedWhole, Packages!Spec, Packages!vars
===============================================================================
