---------------------------- MODULE GpuPackManager ----------------------------
(***************************************************************************)
(* The optional GPU pack (main/services/gpu-pack-manager.ts): directories, *)
(* partial downloads, a mutation lock and runtime leases, all of them      *)
(* files under one root that several app processes share, possibly of      *)
(* different versions, each with a pack of its own.  A process may die     *)
(* between any two steps; what is on disk stays.  Server processes live on *)
(* after the app that started them.                                        *)
(*                                                                         *)
(* Each pack has one asset of `Chunks` chunks.  Validation of a directory  *)
(* is one step, and so is the removal of an abandoned stage.               *)
(***************************************************************************)
EXTENDS Integers, FiniteSets

CONSTANTS None, Procs, Packs, PackOf,
          Servers,   \* the app processes that run a GPU server
          Installed, \* the packs installed to begin with
          Chunks,
          MaxFaults \* bound: crashes, failures and acts of other programs

ASSUME PackAssumption ==
    /\ PackOf \in [Procs -> Packs] /\ IsFiniteSet(Packs) /\ Installed \subseteq Packs /\ Servers \subseteq Procs
    /\ Chunks \in Nat \ {0} /\ MaxFaults \in Nat

\* The records of gpu-pack.lock and gpu-pack.lock.reclaim.
Locks == [owner : Procs, inc : Nat, kind : {"op", "lease"}, written : BOOLEAN]

ASSUME NoneAssumption == None \notin Locks

VARIABLES
    dir,       \* what is at the path of each pack
    part,      \* the partial download of each pack, with its checkpoint
    lock,      \* gpu-pack.lock
    guard,     \* gpu-pack.lock.reclaim
    leases,    \* the lease records
    orphans,   \* abandoned stage directories, "marked" or "bare"
    inc,       \* the incarnation (pid) of each app process
    pc, job,   \* each thread's next step and operation
    seen,      \* the lock a thread found stale
    victims,   \* directories a thread still has to remove
    stage,     \* the stage of the running install
    off,       \* its writeOffset; -1 when no stream is open
    consumers, \* the live server processes
    faults

disk == <<dir, part, lock, guard, leases, orphans>>
thread == <<pc, job, seen, victims>>
local == <<inc, stage, off>>
vars == <<disk, thread, local, consumers, faults>>

Threads == (Procs \X {"op"}) \cup (Servers \X {"lease"})
Owner(t) == t[1]
Mine(t) == PackOf[Owner(t)]

\* `bad` is a file's first bad chunk, Good when there is none; `meta` the
\* checkpointed length, `metaBad` what the checkpoint's hash stands for.
Good == Chunks + 1
NoPart == [len |-> -1, bad |-> Good, meta |-> -1, metaBad |-> Good]

LockOf(t, written) == [owner |-> Owner(t), inc |-> inc[Owner(t)], kind |-> t[2], written |-> written]

\* defaultIsProcessAlive of the pid recorded in a file.
ProcessAlive(record) == inc[record.owner] = record.inc

InUse == {PackOf[c.owner] : c \in consumers}

\* A thread's next steps: on the way to the mutation lock, and in it.
OutsideLock == {"idle", "lock", "write", "guard", "recheck", "unlink", "recreate", "giveup"}
InLock == {"locked", "handover", "unlock", "mark", "inspect", "fetch", "stream", "unpack", "publish",
           "replace", "unmark", "rename", "tidy", "toprune", "prune", "remove", "cleanup", "unguard"}

TypeOK ==
    /\ dir \in [Packs -> {"absent", "valid", "damaged", "gutted", "empty", "foreign"}]
    /\ \A k \in Packs : part[k].len \in -1..Chunks /\ part[k].meta \in -1..Chunks
    /\ pc \in [Threads -> OutsideLock \cup InLock] /\ stage \in [Procs -> {None, "bare", "marked"}]
    /\ off \in [Procs -> -1..Chunks] /\ InUse \subseteq {PackOf[p] : p \in Servers}
    /\ orphans \subseteq {"bare", "marked"} /\ faults \in 0..MaxFaults

Init ==
    /\ dir = [k \in Packs |-> IF k \in Installed THEN "valid" ELSE "absent"]
    /\ part = [k \in Packs |-> NoPart]
    /\ lock = None /\ guard = None /\ leases = {} /\ orphans = {}
    /\ inc = [p \in Procs |-> 0]
    /\ pc = [t \in Threads |-> "idle"] /\ job = [t \in Threads |-> None]
    /\ seen = [t \in Threads |-> None] /\ victims = [t \in Threads |-> {}]
    /\ stage = [p \in Procs |-> None] /\ off = [p \in Procs |-> -1]
    /\ consumers = {} /\ faults = 0

Fault == faults < MaxFaults /\ faults' = faults + 1
Goto(t, place) ==
    /\ pc' = [pc EXCEPT ![t] = place]
    /\ job' = [job EXCEPT ![t] = IF place = "idle" THEN None ELSE @]
    /\ seen' = [seen EXCEPT ![t] = IF place = "recheck" THEN @ ELSE None]
    /\ UNCHANGED victims

-------------------------------------------------------------------------------
(* The mutation lock                                                       *)

\* tryCreate opens the file with `wx` and then writes the record.
Create(t) == lock = None /\ lock' = LockOf(t, FALSE)

\* The first attempt of acquireMutationLock; a held or unreadable lock means busy.
TryLock(t) ==
    /\ pc[t] = "lock"
    /\ \/ Create(t) /\ Goto(t, "write")
       \/ /\ lock # None /\ UNCHANGED lock
          /\ IF lock.written /\ ~ProcessAlive(lock)
             THEN /\ pc' = [pc EXCEPT ![t] = "guard"] /\ seen' = [seen EXCEPT ![t] = lock]
                  /\ UNCHANGED <<job, victims>>
             ELSE Goto(t, "idle")
    /\ UNCHANGED <<dir, part, guard, leases, orphans, local, consumers, faults>>

WriteLock(t) ==
    /\ pc[t] = "write"
    /\ lock' = LockOf(t, TRUE)
    /\ Goto(t, IF guard = LockOf(t, TRUE) THEN "unguard" ELSE "locked")
    /\ UNCHANGED <<dir, part, guard, leases, orphans, local, consumers, faults>>

\* A competing recovery guard is never removed.
TakeGuard(t) ==
    /\ pc[t] = "guard"
    /\ IF guard = None
       THEN guard' = LockOf(t, TRUE) /\ Goto(t, "recheck")
       ELSE UNCHANGED guard /\ Goto(t, "idle")
    /\ UNCHANGED <<dir, part, lock, leases, orphans, local, consumers, faults>>

\* A bug: the guard's holder trusts what it saw before.
ReclaimWithoutRecheck(t) == lock # None

StillStale(t) == lock = seen[t] /\ ~ProcessAlive(lock)

\* Under the guard the lock must still be the one found stale.
ReclaimLock(t) ==
    /\ pc[t] = "recheck"
    /\ IF StillStale(t)
       THEN Goto(t, "unlink") ELSE Goto(t, "giveup")
    /\ UNCHANGED <<disk, local, consumers, faults>>

\* The unlink names the path, not the lock that was read.
UnlinkLock(t) ==
    /\ pc[t] = "unlink"
    /\ lock' = None /\ Goto(t, "recreate")
    /\ UNCHANGED <<dir, part, guard, leases, orphans, local, consumers, faults>>

Recreate(t) ==
    /\ pc[t] = "recreate"
    /\ \/ Create(t) /\ Goto(t, "write")
       \/ lock # None /\ UNCHANGED lock /\ Goto(t, "giveup")
    /\ UNCHANGED <<dir, part, guard, leases, orphans, local, consumers, faults>>

DropGuard(t) ==
    /\ pc[t] \in {"unguard", "giveup"}
    /\ guard' = None
    /\ Goto(t, IF pc[t] = "unguard" THEN "locked" ELSE "idle")
    /\ UNCHANGED <<dir, part, lock, leases, orphans, local, consumers, faults>>

\* Repair hands its lock back before it calls performInstall.
Unlock(t) ==
    /\ pc[t] \in {"unlock", "handover"}
    /\ lock' = IF lock = LockOf(t, TRUE) THEN None ELSE lock
    /\ IF pc[t] = "handover"
       THEN /\ pc' = [pc EXCEPT ![t] = "lock"] /\ job' = [job EXCEPT ![t] = "install"]
            /\ UNCHANGED <<seen, victims>>
       ELSE Goto(t, "idle")
    /\ UNCHANGED <<dir, part, guard, leases, orphans, local, consumers, faults>>

-------------------------------------------------------------------------------
(* Ownership and leases                                                    *)

\* inspectManagerOwnedPackDirectory: a canonical manifest and nothing unexpected.
Broken(k) == dir[k] \in {"damaged", "gutted"}
Owned(k) == dir[k] = "valid" \/ Broken(k)

\* A record protects while its app or any recorded server lives, and for ever
\* while no verified server was bound.
\* A bug: a lease that was never bound expires with its app.
ProtectsWhileAlive(l) == ProcessAlive(l) \/ l.pids \cap consumers # {}

Protects(l) == ProcessAlive(l) \/ ~l.bound \/ l.pids \cap consumers # {}

\* isPackLeased, and the expired records it deletes on the way.
Leased(k) == \E l \in leases : l.pack = k /\ Protects(l)
Unexpired(ks) == {l \in leases : l.pack \in ks => Protects(l)}

NewLease(p) == [pack |-> PackOf[p], owner |-> p, inc |-> inc[p], pids |-> {}, bound |-> FALSE]

\* acquireRuntime under the lock.
WriteLease(t) ==
    /\ pc[t] = "locked" /\ job[t] = "lease"
    /\ leases' = IF dir[Mine(t)] = "valid" THEN leases \cup {NewLease(Owner(t))} ELSE leases
    /\ Goto(t, "unlock")
    /\ UNCHANGED <<dir, part, lock, guard, orphans, local, consumers, faults>>

Held(p) == {l \in leases : l.owner = p /\ ProcessAlive(l)}

Rebind(l, pids, bound) ==
    leases' = (leases \ {l}) \cup {[l EXCEPT !.pids = @ \cup pids, !.bound = @ \/ bound]}

Rest == <<dir, part, lock, guard, orphans, thread, local, consumers, faults>>

Wrapper(p) == [owner |-> p, kind |-> "wrapper", by |-> inc[p]]
Daemons(p) == {c \in consumers : c.owner = p /\ c.kind = "daemon"}

\* The server manager spawns with the leased runtime, binds the wrapper and
\* then the verified server, which the wrapper has started ...
Spawn(p) ==
    /\ \E l \in Held(p) : l.pids = {}
    /\ ~\E c \in consumers : c.owner = p
    /\ consumers' = consumers \cup {Wrapper(p)}
    /\ UNCHANGED <<disk, thread, local, faults>>

BindWrapper(p) ==
    /\ Wrapper(p) \in consumers
    /\ \E l \in Held(p) : Wrapper(p) \notin l.pids /\ Rebind(l, {Wrapper(p)}, FALSE)
    /\ UNCHANGED Rest

StartDaemon(c) ==
    /\ c.kind = "wrapper"
    /\ consumers' = consumers \cup {[c EXCEPT !.kind = "daemon"]}
    /\ UNCHANGED <<disk, thread, local, faults>>

\* ... or binds a server that an earlier process left running.
BindServer(p) ==
    /\ \E d \in Daemons(p), l \in Held(p) :
          /\ ~l.bound /\ (d.by = inc[p] => Wrapper(p) \in l.pids)
          /\ Rebind(l, {d}, TRUE)
    /\ UNCHANGED Rest

ServerExits(c) ==
    /\ consumers' = consumers \ {c}
    /\ UNCHANGED <<disk, thread, local, faults>>

\* The server manager releases after confirmed termination.
Release(p) ==
    /\ ~\E c \in consumers : c.owner = p
    /\ \E l \in Held(p) : leases' = leases \ {l}
    /\ UNCHANGED Rest

-------------------------------------------------------------------------------
(* The partial download                                                    *)

Prefix(bad, n) == IF bad > n THEN Good ELSE bad
Cut(f, n) == [f EXCEPT !.len = n, !.bad = Prefix(@, n)]

\* The stored prefix still hashes to what its checkpoint says.
Resumable(f) ==
    f.meta >= 0 /\ f.len >= f.meta /\ Prefix(f.bad, f.meta) = Prefix(f.metaBad, f.meta)

\* inspectExistingPartial cuts what lies beyond the checkpoint; a partial it
\* does not recognise is left alone and fresh names are taken.
InspectPartial(f) == IF Resumable(f) THEN Cut(f, f.meta) ELSE NoPart

\* A bug: a complete checkpoint that matches its own hash is trusted.
AcceptedByItsCheckpoint(f) == f.meta = Chunks

\* A complete partial is hashed again and compared with the pinned hash.
Accepted(f) == f.meta = Chunks /\ f.bad = Good

Inspect(t) ==
    LET f == InspectPartial(part[Mine(t)]) IN
    /\ pc[t] = "inspect"
    /\ part' = [part EXCEPT ![Mine(t)] = f]
    /\ Goto(t, IF Accepted(f) THEN "unpack" ELSE "fetch")
    /\ UNCHANGED <<dir, lock, guard, leases, orphans, local, consumers, faults>>

OpenPart(f) == IF f.meta = -1 THEN [f EXCEPT !.len = 0, !.meta = 0] ELSE f

\* Of a complete partial that was not accepted the range asked for is empty.
Resume(f) == 0 < f.meta /\ f.meta < Chunks
\* A bug: the file is reopened without truncation.
RestartWithoutTruncate(f) == f

Restart(f) == Cut(f, 0)

\* The response: 206 continues at the checkpoint; 200, or 416 and a second
\* request, starts again with an empty file and the old checkpoint.
Fetch(t) ==
    LET f == OpenPart(part[Mine(t)])
        Stream(g, n) == /\ part' = [part EXCEPT ![Mine(t)] = g]
                        /\ off' = [off EXCEPT ![Owner(t)] = n] /\ Goto(t, "stream")
    IN
    /\ pc[t] = "fetch"
    /\ \/ Resume(f) /\ Stream(f, f.meta) /\ UNCHANGED faults
       \/ Stream(Restart(f), 0) /\ UNCHANGED faults
       \/ Fault /\ part' = [part EXCEPT ![Mine(t)] = f] /\ Goto(t, "cleanup") /\ UNCHANGED off
    /\ UNCHANGED <<dir, lock, guard, leases, orphans, inc, stage, consumers>>

Streaming(t) == pc[t] = "stream" /\ t[2] = "op"

\* One chunk is appended at the end of the file; any may arrive corrupted.
Chunk(t) ==
    LET f == part[Mine(t)] o == off[Owner(t)] IN
    /\ Streaming(t) /\ o < Chunks
    /\ \E ok \in BOOLEAN :
          part' = [part EXCEPT ![Mine(t)] =
                     [f EXCEPT !.len = @ + 1,
                               !.bad = IF @ = Good /\ ~(ok /\ f.len = o) THEN f.len + 1 ELSE @]]
    /\ off' = [off EXCEPT ![Owner(t)] = o + 1]
    /\ UNCHANGED <<dir, lock, guard, leases, orphans, thread, inc, stage, consumers, faults>>

Checkpointed(f, n) == [f EXCEPT !.meta = n, !.metaBad = Prefix(f.bad, n)]

\* A checkpoint follows a sync, CHECKPOINT_INTERVAL_BYTES or more beyond the
\* last one, which a restart from zero keeps; also when the last buffer completes
\* the file, before its hash is compared with the pinned one.
Checkpoint(t) ==
    LET o == off[Owner(t)] IN
    /\ Streaming(t) /\ part[Mine(t)].meta < o
    /\ part' = [part EXCEPT ![Mine(t)] = Checkpointed(@, o)]
    /\ UNCHANGED <<dir, lock, guard, leases, orphans, thread, local, consumers, faults>>

\* The connection drops or is timed out, or the disk is full.
Interrupt(t) ==
    LET o == off[Owner(t)] IN
    /\ Streaming(t) /\ Fault
    /\ part' = [part EXCEPT ![Mine(t)] = IF 0 < o /\ o < Chunks THEN Checkpointed(@, o) ELSE @]
    /\ off' = [off EXCEPT ![Owner(t)] = -1] /\ Goto(t, "cleanup")
    /\ UNCHANGED <<dir, lock, guard, leases, orphans, inc, stage, consumers>>

\* A corrupt complete transfer is no checkpoint: part and metadata are removed.
Complete(f) == IF f.bad = Good /\ f.len = Chunks THEN Checkpointed(f, Chunks) ELSE NoPart

FinishDownload(t) ==
    LET f == Complete(part[Mine(t)]) IN
    /\ Streaming(t) /\ off[Owner(t)] = Chunks
    /\ part' = [part EXCEPT ![Mine(t)] = f]
    /\ off' = [off EXCEPT ![Owner(t)] = -1]
    /\ Goto(t, IF f = NoPart THEN "cleanup" ELSE "unpack")
    /\ UNCHANGED <<dir, lock, guard, leases, orphans, inc, stage, consumers, faults>>

-------------------------------------------------------------------------------
(* Install, repair and remove, under the lock                              *)

Recovered == orphans \ {"marked"}   \* recoverAbandonedOwnedStages

\* performInstall up to its stage directory, with the marker in it.
InstallCheck(t) ==
    LET k == Mine(t)
        Refuse == Goto(t, "unlock") /\ UNCHANGED stage
    IN
    /\ pc[t] = "locked" /\ job[t] = "install"
    /\ orphans' = Recovered
    /\ \/ dir[k] = "valid" /\ Goto(t, "toprune") /\ UNCHANGED <<stage, leases>>
       \/ dir[k] \in {"empty", "foreign"} /\ Refuse /\ UNCHANGED leases
       \/ Broken(k) /\ Leased(k) /\ Refuse /\ UNCHANGED leases
       \/ /\ dir[k] = "absent" \/ (Broken(k) /\ ~Leased(k))
          /\ leases' = IF dir[k] = "absent" THEN leases ELSE Unexpired({k})
          /\ stage' = [stage EXCEPT ![Owner(t)] = "bare"] /\ Goto(t, "mark")
    /\ UNCHANGED <<dir, part, lock, guard, inc, off, consumers, faults>>

MarkStage(t) ==
    /\ pc[t] = "mark"
    /\ stage' = [stage EXCEPT ![Owner(t)] = "marked"] /\ Goto(t, "inspect")
    /\ UNCHANGED <<disk, inc, off, consumers, faults>>

\* Decompression, the manifest and verification of the stage.
Unpack(t) ==
    /\ pc[t] = "unpack"
    /\ \/ Goto(t, "publish") /\ UNCHANGED faults
       \/ Fault /\ Goto(t, "cleanup")
    /\ UNCHANGED <<disk, local, consumers>>

\* The destination is looked at again; an owned invalid pack is taken apart first.
PublishCheck(t) ==
    LET k == Mine(t) IN
    /\ pc[t] = "publish"
    /\ \/ dir[k] = "absent" /\ Goto(t, "unmark") /\ UNCHANGED leases
       \/ dir[k] = "valid" /\ Goto(t, "toprune") /\ UNCHANGED leases
       \/ /\ dir[k] \in {"empty", "foreign"} \/ (Broken(k) /\ Leased(k))
          /\ Goto(t, "cleanup") /\ UNCHANGED leases
       \/ /\ Broken(k) /\ ~Leased(k)
          /\ leases' = Unexpired({k})
          /\ pc' = [pc EXCEPT ![t] = "replace"] /\ victims' = [victims EXCEPT ![t] = {k}]
          /\ UNCHANGED <<job, seen>>
    /\ UNCHANGED <<dir, part, lock, guard, orphans, local, consumers, faults>>

UnmarkStage(t) ==
    /\ pc[t] = "unmark"
    /\ stage' = [stage EXCEPT ![Owner(t)] = "bare"] /\ Goto(t, "rename")
    /\ UNCHANGED <<disk, inc, off, consumers, faults>>

\* A rename that fails gets its marker back, so that the stage can be cleaned up.
RenameStage(t) ==
    LET k == Mine(t) IN
    /\ pc[t] = "rename"
    /\ \/ /\ dir[k] = "absent" /\ dir' = [dir EXCEPT ![k] = "valid"]
          /\ stage' = [stage EXCEPT ![Owner(t)] = None] /\ Goto(t, "tidy") /\ UNCHANGED faults
       \/ /\ IF dir[k] = "absent" THEN Fault ELSE UNCHANGED faults
          /\ stage' = [stage EXCEPT ![Owner(t)] = "marked"] /\ Goto(t, "cleanup") /\ UNCHANGED dir
    /\ UNCHANGED <<part, lock, guard, leases, orphans, inc, off, consumers>>

Tidy(t) ==
    /\ pc[t] = "tidy"
    /\ IF dir[Mine(t)] = "valid"
       THEN part' = [part EXCEPT ![Mine(t)] = NoPart] /\ Goto(t, "toprune")
       ELSE UNCHANGED part /\ Goto(t, "cleanup")
    /\ UNCHANGED <<dir, lock, guard, leases, orphans, local, consumers, faults>>

\* pruneOldPackDirectories keeps one valid prior pack and every leased one.
Candidates(t) == {k \in Packs \ {Mine(t)} : Owned(k) /\ ~Leased(k)}

PruneStart(t) ==
    /\ pc[t] = "toprune"
    /\ LET valid == {k \in Candidates(t) : dir[k] = "valid"} IN
       \E keep \in IF valid = {} THEN {{}} ELSE {{k} : k \in valid} :
          victims' = [victims EXCEPT ![t] = Candidates(t) \ keep]
    /\ leases' = Unexpired({k \in Packs \ {Mine(t)} : Owned(k)})
    /\ pc' = [pc EXCEPT ![t] = "prune"] /\ UNCHANGED <<job, seen>>
    /\ UNCHANGED <<dir, part, lock, guard, orphans, local, consumers, faults>>

RemovalDeferred(t) == \E k \in Packs : (k = Mine(t) \/ dir[k] # "absent") /\ Leased(k)

\* performRemove: all or nothing with respect to leases.
RemoveStart(t) ==
    /\ pc[t] = "locked" /\ job[t] = "remove"
    /\ IF RemovalDeferred(t)
       THEN Goto(t, "unlock") /\ UNCHANGED <<part, leases, orphans>>
       ELSE /\ pc' = [pc EXCEPT ![t] = "remove"]
            /\ victims' = [victims EXCEPT ![t] = {k \in Packs : Owned(k)}]
            /\ part' = [k \in Packs |-> IF Resumable(part[k]) THEN NoPart ELSE part[k]]
            /\ leases' = Unexpired(Packs) /\ orphans' = Recovered
            /\ UNCHANGED <<job, seen>>
    /\ UNCHANGED <<dir, lock, guard, local, consumers, faults>>

Removing(t) == pc[t] \in {"replace", "prune", "remove"}

\* removeOwnedPackDirectory: the files, then the manifest, then the directory.
NextRemnant(s) == CASE s \in {"valid", "damaged"} -> "gutted"
                    [] s = "gutted" -> "empty"
                    [] OTHER -> "absent"

Sweep(t) ==
    /\ Removing(t)
    /\ \E k \in victims[t] :
          /\ \A other \in victims[t] \ {k} : Owned(other)
          /\ dir[k] \notin {"foreign", "absent"}
          /\ dir' = [dir EXCEPT ![k] = NextRemnant(@)]
          /\ victims' = [victims EXCEPT ![t] = IF dir[k] = "empty" THEN @ \ {k} ELSE @]
    /\ UNCHANGED <<part, lock, guard, leases, orphans, pc, job, seen, local, consumers, faults>>

AfterSweep(t) == CASE pc[t] = "replace" -> "unmark" [] pc[t] = "prune" -> "cleanup" [] OTHER -> "unlock"

SweepDone(t) ==
    /\ Removing(t) /\ victims[t] = {} /\ Goto(t, AfterSweep(t))
    /\ UNCHANGED <<disk, local, consumers, faults>>

\* A file that another program holds open cannot be unlinked.
SweepFails(t) ==
    /\ Removing(t) /\ victims[t] # {} /\ Fault
    /\ pc' = [pc EXCEPT ![t] = IF @ = "remove" THEN "unlock" ELSE "cleanup"]
    /\ victims' = [victims EXCEPT ![t] = {}]
    /\ UNCHANGED <<disk, job, seen, local, consumers>>

\* The finally of performInstall; only a marked stage is recognised.
Cleanup(t) ==
    /\ pc[t] = "cleanup"
    /\ orphans' = IF stage[Owner(t)] = "bare" THEN orphans \cup {"bare"} ELSE orphans
    /\ stage' = [stage EXCEPT ![Owner(t)] = None] /\ Goto(t, "unlock")
    /\ UNCHANGED <<dir, part, lock, guard, leases, inc, off, consumers, faults>>

\* performRepair decides whether there is something to repair.
RepairCheck(t) ==
    LET k == Mine(t) IN
    /\ pc[t] = "locked" /\ job[t] = "repair"
    /\ orphans' = Recovered
    /\ IF dir[k] = "valid" \/ Leased(k)
       THEN Goto(t, "unlock") /\ UNCHANGED leases
       ELSE /\ leases' = Unexpired({k})
            /\ Goto(t, IF dir[k] = "absent" \/ Owned(k) THEN "handover" ELSE "unlock")
    /\ UNCHANGED <<dir, part, lock, guard, local, consumers, faults>>

-------------------------------------------------------------------------------
(* Requests, crashes and other programs                                    *)

\* install, repair and remove exclude each other within a process; acquireRuntime
\* runs beside them, but does not start while one of them is active.
Request(t, what) ==
    /\ pc[t] = "idle"
    /\ IF t[2] = "op" THEN what \in {"install", "repair", "remove"}
       ELSE what = "lease" /\ pc[<<Owner(t), "op">>] = "idle" /\ Held(Owner(t)) = {}
    /\ pc' = [pc EXCEPT ![t] = "lock"] /\ job' = [job EXCEPT ![t] = what]
    /\ UNCHANGED <<seen, victims, disk, local, consumers, faults>>

\* The app dies and is started again.
Crash(p) ==
    LET Reset(f, v) == [t \in Threads |-> IF Owner(t) = p THEN v ELSE f[t]] IN
    /\ Fault /\ inc' = [inc EXCEPT ![p] = @ + 1]
    /\ pc' = Reset(pc, "idle") /\ job' = Reset(job, None)
    /\ seen' = Reset(seen, None) /\ victims' = Reset(victims, {})
    /\ orphans' = orphans \cup ({stage[p]} \ {None}) /\ stage' = [stage EXCEPT ![p] = None]
    /\ off' = [off EXCEPT ![p] = -1]
    /\ UNCHANGED <<dir, part, lock, guard, leases, consumers>>

\* Another program corrupts an installed pack, or creates its directory.
Meddle(k) ==
    /\ Fault
    /\ \/ dir[k] = "valid" /\ dir' = [dir EXCEPT ![k] = "damaged"]
       \/ dir[k] = "absent" /\ dir' = [dir EXCEPT ![k] = "foreign"]
    /\ UNCHANGED <<part, lock, guard, leases, orphans, thread, local, consumers>>

Step(t) ==
    \/ TryLock(t) \/ WriteLock(t) \/ TakeGuard(t) \/ ReclaimLock(t) \/ UnlinkLock(t) \/ Recreate(t)
    \/ DropGuard(t) \/ Unlock(t) \/ WriteLease(t)
    \/ InstallCheck(t) \/ MarkStage(t) \/ Inspect(t) \/ Fetch(t) \/ Chunk(t) \/ FinishDownload(t)
    \/ Interrupt(t) \/ Unpack(t) \/ PublishCheck(t) \/ UnmarkStage(t) \/ RenameStage(t) \/ Tidy(t)
    \/ PruneStart(t) \/ RemoveStart(t) \/ Sweep(t) \/ SweepDone(t) \/ SweepFails(t) \/ Cleanup(t)
    \/ RepairCheck(t)

Server(p) == Spawn(p) \/ BindWrapper(p) \/ BindServer(p) \/ Release(p)

Next ==
    \/ \E t \in Threads : Step(t) \/ Checkpoint(t)
    \/ \E t \in Threads, what \in {"install", "repair", "remove", "lease"} : Request(t, what)
    \/ \E p \in Procs : Crash(p)
    \/ \E p \in Servers : Server(p)
    \/ \E c \in consumers : StartDaemon(c) \/ ServerExits(c)
    \/ \E k \in Packs : Meddle(k)

Spec == Init /\ [][Next]_vars

-------------------------------------------------------------------------------
(* One thread at a time changes packs, stages and partials, also when      *)
(* several processes find the lock of a dead one and reclaim it together   *)
(* (acquireMutationLock).                                                  *)
OneMutator == \A t, u \in Threads : pc[t] \in InLock /\ pc[u] \in InLock => t = u

(* Published packs follow PackStore: complete or absent, immutable, taken  *)
(* apart only while no live server can load from them -- through crashes   *)
(* of the app between spawn and bind, and installs, removals and prunes by *)
(* apps of another version (isPackLeased, bindServerPid).                  *)
Visible == [k \in Packs |->
              CASE dir[k] = "valid" -> "complete"
                [] dir[k] \in {"gutted", "empty"} -> "partial"
                [] OTHER -> dir[k]]

Packages == INSTANCE PackStore WITH store <- Visible, used <- InUse
PacksArePublishedWhole == Packages!Spec

(* What is written goes where the write offset says, so that no resume,    *)
(* restart or crash mixes two transfers into one file (downloadAssetRange).*)
(* A corrupt transfer may leave a complete checkpoint; but what an install *)
(* has accepted is whole, pinned and checkpointed as such, and stays so    *)
(* until the pack is in place (performInstall): it is what is decompressed *)
(* and what the next attempt accepts when a later step fails.              *)
Whole == [len |-> Chunks, bad |-> Good, meta |-> Chunks, metaBad |-> Good]
Installing == {"unpack", "publish", "replace", "unmark", "rename", "tidy"}

TransfersDoNotMix ==
    /\ \A p \in Procs : off[p] >= 0 => part[PackOf[p]].len = off[p]
    /\ \A t \in Threads : pc[t] \in Installing => part[Mine(t)] = Whole
===============================================================================
