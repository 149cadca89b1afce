---------------------------- MODULE InferenceQueue ----------------------------
(***************************************************************************)
(* Native inference calls of the server's sessions                         *)
(* (transcription/processor.py): exclusive calls take the inference lock   *)
(* and a one-worker executor, overlapping ones an executor of the size     *)
(* their session was created with.  A call that needs another size first   *)
(* drains the current executor.  A call is cancelled with its task; a      *)
(* native inference that has begun is not.                                 *)
(*                                                                         *)
(* A step is a stretch of code between two awaits, or a step of an         *)
(* executor's threads.  Both locks are AsyncioLock queues.                 *)
(***************************************************************************)
EXTENDS AsyncioLock

CONSTANTS Calls,         \* concurrent _run_transcribe calls
          Exclusive,     \* those of sessions that do not allow overlapping inference
          Workers,       \* transcription_max_workers of each overlapping call's session
          MaxCalls,      \* bound: calls made, each of which may create an executor
          MaxCancels     \* bound: cancelled calls

NoExecutor == 0
Executors == 1..MaxCalls

ASSUME ConstantsAssumption ==
    /\ IsFiniteSet(Calls) /\ Exclusive \subseteq Calls
    /\ Workers \in [Calls \ Exclusive -> Nat \ {0}]
    /\ MaxCalls \in Nat /\ MaxCancels \in Nat

VARIABLES
    pc,            \* where each call awaits
    inferenceLock, \* _inference_lock
    configLock,    \* _executor_config_lock
    executor,      \* _executor
    created,       \* executors created so far
    size,          \* max_workers of each
    shut,          \* executors whose shutdown has been called
    queue,         \* calls submitted to each and not begun
    running,       \* calls each executor's threads run
    abandoned,     \* executors whose drain was cancelled (a history)
    made, cancels

lockVars == <<inferenceLock, configLock>>
executorVars == <<executor, created, size, shut, abandoned>>
vars == <<pc, lockVars, executorVars, queue, running, made, cancels>>

Init ==
    /\ pc = [c \in Calls |-> "idle"]
    /\ inferenceLock = <<>> /\ configLock = <<>>
    /\ executor = NoExecutor /\ created = 0
    /\ size = [e \in Executors |-> 1]
    /\ shut = {} /\ abandoned = {}
    /\ queue = [e \in Executors |-> <<>>]
    /\ running = [e \in Executors |-> {}]
    /\ made = 0 /\ cancels = 0

Goto(c, place) == pc' = [pc EXCEPT ![c] = place]

Wanted(c) == IF c \in Exclusive THEN 1 ELSE Workers[c]

\* Overlapping calls do not take the inference lock.
Overlaps(c) == c \notin Exclusive

Call(c) ==
    /\ pc[c] = "idle" /\ c \notin UNION {running[e] : e \in Executors}
    /\ made < MaxCalls /\ made' = made + 1
    /\ IF Overlaps(c)
       THEN configLock' = Append(configLock, c) /\ Goto(c, "configure") /\ UNCHANGED inferenceLock
       ELSE inferenceLock' = Append(inferenceLock, c) /\ Goto(c, "lock") /\ UNCHANGED configLock
    /\ UNCHANGED <<executorVars, queue, running, cancels>>

Locked(c) ==
    /\ pc[c] = "lock" /\ HeldBy(inferenceLock, c)
    /\ configLock' = Append(configLock, c)
    /\ Goto(c, "configure")
    /\ UNCHANGED <<inferenceLock, executorVars, queue, running, made, cancels>>

\* _submit_inference, in the same step as get_executor returns.
Submit(c, e) ==
    /\ queue' = [queue EXCEPT ![e] = Append(@, c)]
    /\ configLock' = Tail(configLock)
    /\ Goto(c, "await")

Create(c) ==
    /\ created' = created + 1 /\ executor' = created'
    /\ size' = [size EXCEPT ![created'] = Wanted(c)]
    /\ Submit(c, created')

ReusesAny(c) == executor # NoExecutor
Reusable(c) == executor # NoExecutor /\ size[executor] = Wanted(c)

KeepExecutor == UNCHANGED executor
\* _executor is cleared before the old one is awaited.
ForgetExecutor == executor' = NoExecutor

\* get_executor, once it has the configuration lock.
Configure(c) ==
    /\ pc[c] = "configure" /\ HeldBy(configLock, c)
    /\ \/ /\ Reusable(c)
          /\ Submit(c, executor)
          /\ UNCHANGED <<executor, created, size, shut>>
       \/ /\ executor = NoExecutor
          /\ Create(c)
          /\ UNCHANGED shut
       \/ /\ executor # NoExecutor /\ ~Reusable(c)
          /\ shut' = shut \cup {executor}
          /\ ForgetExecutor
          /\ Goto(c, "drain")
          /\ UNCHANGED <<configLock, created, size, queue>>
    /\ UNCHANGED <<inferenceLock, abandoned, running, made, cancels>>

\* The executor shut down last is the one being drained.
Previous == CHOOSE e \in shut : \A f \in shut : f <= e

Drained(e) == queue[e] = <<>> /\ running[e] = {}

\* previous.shutdown(wait=True) returns from its thread.
DrainEnds(c) ==
    /\ pc[c] = "drain" /\ Drained(Previous)
    /\ Create(c)
    /\ UNCHANGED <<inferenceLock, shut, abandoned, running, made, cancels>>

\* The future of a call's inference is done: the call returns.
Return(c) ==
    /\ pc[c] = "await"
    /\ \A e \in Executors : c \notin ToSet(queue[e]) \cup running[e]
    /\ inferenceLock' = Leave(inferenceLock, c)
    /\ Goto(c, "idle")
    /\ UNCHANGED <<configLock, executorVars, queue, running, made, cancels>>

KeepsLock(c) == UNCHANGED lockVars
LeavesLocks(c) ==
    inferenceLock' = Leave(inferenceLock, c) /\ configLock' = Leave(configLock, c)

\* A cancelled call leaves the locks; a queued inference is cancelled with it.
\* A drain goes on in its thread, but no later call waits for it.
Cancel(c) ==
    /\ pc[c] # "idle" /\ cancels < MaxCancels
    /\ LeavesLocks(c)
    /\ queue' = [e \in Executors |-> Leave(queue[e], c)]
    /\ abandoned' = IF pc[c] = "drain" THEN abandoned \cup {Previous} ELSE abandoned
    /\ cancels' = cancels + 1
    /\ Goto(c, "idle")
    /\ UNCHANGED <<executor, created, size, shut, running, made>>

\* A thread of executor e takes the next queued inference, or ends one.
Begin(e) ==
    /\ queue[e] # <<>> /\ Cardinality(running[e]) < size[e]
    /\ running' = [running EXCEPT ![e] = @ \cup {Head(queue[e])}]
    /\ queue' = [queue EXCEPT ![e] = Tail(@)]
    /\ UNCHANGED <<pc, lockVars, executorVars, made, cancels>>

End(e, c) ==
    /\ c \in running[e]
    /\ running' = [running EXCEPT ![e] = @ \ {c}]
    /\ UNCHANGED <<pc, lockVars, executorVars, queue, made, cancels>>

Step(c) == Locked(c) \/ Configure(c) \/ DrainEnds(c) \/ Return(c)

Next == \/ \E c \in Calls : Call(c) \/ Step(c) \/ Cancel(c)
        \/ \E e \in Executors : Begin(e) \/ \E c \in Calls : End(e, c)

\* The event loop runs every ready call, and every native inference ends.
Fairness == /\ \A c \in Calls : WF_vars(Step(c))
            /\ \A e \in Executors : WF_vars(Begin(e)) /\ \A c \in Calls : WF_vars(End(e, c))

Spec == Init /\ [][Next]_vars /\ Fairness

-----------------------------------------------------------------------------
(* No more native inferences run at once, cancelled ones included, than each *)
(* of their sessions allows: one whose session does not allow overlapping  *)
(* runs alone.  Executors whose drain was cancelled are an exception.      *)
WorkersRespected ==
    LET all == UNION {running[e] : e \in Executors \ abandoned}
    IN \A c \in all : Cardinality(all) <= Wanted(c)

(* An inference is never submitted to an executor that has been shut down,  *)
(* which would raise and lose the transcription.                           *)
SubmitsToLiveExecutor ==
    [][\A e \in shut : ToSet(queue'[e]) \subseteq ToSet(queue[e])]_vars

(* Every call ends: no cancelled call keeps a lock, and no two calls that   *)
(* need executors of different sizes wait for each other.                  *)
CallsEnd == \A c \in Calls : pc[c] # "idle" ~> pc[c] = "idle"
===============================================================================
