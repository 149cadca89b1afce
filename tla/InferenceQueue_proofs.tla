------------------------- MODULE InferenceQueue_proofs -------------------------
(* Theorems about InferenceQueue, for every set of calls, every number of    *)
(* workers their sessions want, and every bound.                             *)
EXTENDS InferenceQueue, SequenceTheorems, FiniteSetTheorems, TLAPS

\* The awaits of a call, and those in which it may still create an executor.
Awaits == {"idle", "lock", "configure", "drain", "await"}
Pending == {c \in Calls : pc[c] \in {"lock", "configure", "drain"}}

TypeInv ==
    /\ pc \in [Calls -> Awaits]
    /\ inferenceLock \in Seq(Calls) /\ configLock \in Seq(Calls)
    /\ created \in 0..MaxCalls
    /\ size \in [Executors -> Nat]
    /\ shut \subseteq 1..created
    /\ abandoned \subseteq 1..created
    /\ queue \in [Executors -> Seq(Calls)]
    /\ running \in [Executors -> SUBSET Calls]
    /\ made \in 0..MaxCalls

\* Each call creates at most one executor, so that their number is bounded.
BoundInv == created + Cardinality(Pending) <= made

\* Executors replace one another: all but the current one are shut down.
ExecutorInv ==
    /\ executor \in {NoExecutor, created}
    /\ \A e \in 1..created : e \in shut <=> e # executor

\* The call that drains the last executor keeps the configuration lock, so
\* that nobody creates or obtains an executor meanwhile.
Draining(c) == pc[c] = "drain"
DrainInv ==
    \A c \in Calls : Draining(c) => /\ HeldBy(configLock, c)
                                    /\ executor = NoExecutor /\ created # 0

\* Every executor has as many workers as each session using it wants, and no
\* more inferences run on it.
SizeInv ==
    \A e \in Executors :
        /\ Cardinality(running[e]) <= size[e]
        /\ \A c \in running[e] \cup ToSet(queue[e]) : Wanted(c) = size[e]

\* What is left of the work of earlier executors is being drained by a call.
WorkInv ==
    \A e \in Executors \ abandoned :
        ~Drained(e) => /\ e = created
                       /\ executor = NoExecutor => \E c \in Calls : Draining(c)

IInv == TypeInv /\ BoundInv /\ ExecutorInv /\ DrainInv /\ SizeInv /\ WorkInv

-----------------------------------------------------------------------------
(* Lemmas on queues.                                                         *)

LEMMA LeaveProperties ==
    ASSUME NEW S, NEW q \in Seq(S), NEW c
    PROVE  /\ Leave(q, c) \in Seq(S)
           /\ ToSet(Leave(q, c)) \subseteq ToSet(q)
           /\ \A d : d # c /\ HeldBy(q, d) => HeldBy(Leave(q, c), d)
<1>1. CASE \E i \in 1..Len(q) : q[i] = c
  <2> DEFINE p == Place(q, c)
             front == SubSeq(q, 1, p - 1)
             back == SubSeq(q, p + 1, Len(q))
  <2>1. p \in 1..Len(q) /\ q[p] = c
    BY <1>1 DEF Place
  <2>2. /\ front \in Seq(S) /\ Len(front) = p - 1
        /\ \A i \in 1..(p - 1) : front[i] = q[i]
    BY <2>1, SubSeqProperties
  <2>3. /\ back \in Seq(S) /\ Len(back) = Len(q) - p
        /\ \A i \in 1..(Len(q) - p) : back[i] = q[p + i]
    BY <2>1, SubSeqProperties
  <2>4. Leave(q, c) = front \o back
    BY <1>1 DEF Leave, RemoveAt
  <2> HIDE DEF p, front, back
  <2>5. /\ front \o back \in Seq(S) /\ Len(front \o back) = Len(q) - 1
        /\ \A i \in 1..(Len(q) - 1) :
               (front \o back)[i] = IF i < p THEN q[i] ELSE q[i + 1]
    <3>1. /\ front \o back \in Seq(S) /\ Len(front \o back) = Len(front) + Len(back)
          /\ \A i \in 1..(Len(front) + Len(back)) :
                 (front \o back)[i] = IF i <= Len(front) THEN front[i]
                                      ELSE back[i - Len(front)]
      BY <2>2, <2>3, ConcatProperties
    <3>2. ASSUME NEW i \in 1..(Len(q) - 1)
          PROVE  (front \o back)[i] = IF i < p THEN q[i] ELSE q[i + 1]
      <4>1. CASE i < p
        BY <2>1, <2>2, <2>3, <3>1, <4>1
      <4>2. CASE ~(i < p)
        <5>1. (front \o back)[i] = back[i - (p - 1)] /\ i - (p - 1) \in 1..(Len(q) - p)
          BY <2>1, <2>2, <2>3, <3>1, <4>2
        <5> QED BY <2>1, <2>3, <4>2, <5>1
      <4> QED BY <4>1, <4>2
    <3> QED BY <2>1, <2>2, <2>3, <3>1, <3>2
  <2>6. ToSet(front \o back) \subseteq ToSet(q)
    <3>1. DOMAIN (front \o back) = 1..(Len(q) - 1) /\ DOMAIN q = 1..Len(q)
      BY <2>5, LenProperties
    <3>2. \A i \in 1..(Len(q) - 1) : \E j \in 1..Len(q) : (front \o back)[i] = q[j]
      BY <2>1, <2>5
    <3> QED BY <3>1, <3>2 DEF ToSet
  <2>7. ASSUME NEW d, d # c, HeldBy(q, d) PROVE HeldBy(front \o back, d)
    <3>1. q[1] = d /\ p # 1 /\ Len(q) > 1
      BY <2>1, <2>7 DEF HeldBy
    <3> QED BY <2>1, <2>5, <3>1 DEF HeldBy
  <2> QED BY <2>4, <2>5, <2>6, <2>7
<1>2. CASE ~ \E i \in 1..Len(q) : q[i] = c
  BY <1>2 DEF Leave
<1> QED BY <1>1, <1>2

LEMMA AppendTail ==
    ASSUME NEW S, NEW q \in Seq(S), NEW c \in S
    PROVE  /\ Append(q, c) \in Seq(S)
           /\ ToSet(Append(q, c)) = ToSet(q) \cup {c}
           /\ \A d : HeldBy(q, d) => HeldBy(Append(q, c), d)
           /\ q # <<>> => /\ Tail(q) \in Seq(S) /\ Head(q) \in ToSet(q)
                         /\ ToSet(Tail(q)) \subseteq ToSet(q)
<1>1. ToSet(Append(q, c)) = ToSet(q) \cup {c}
  BY AppendProperties DEF ToSet
<1>2. \A d : HeldBy(q, d) => HeldBy(Append(q, c), d)
  BY HeadTailAppend DEF HeldBy
<1>3. ASSUME q # <<>>
      PROVE  /\ Tail(q) \in Seq(S) /\ Head(q) \in ToSet(q)
             /\ ToSet(Tail(q)) \subseteq ToSet(q)
  BY <1>3, HeadTailProperties DEF ToSet
<1> QED BY <1>1, <1>2, <1>3, AppendProperties

LEMMA EmptyQueue ==
    ASSUME NEW S, NEW q \in Seq(S)
    PROVE  ToSet(q) = {} <=> q = <<>>
<1>1. DOMAIN q = 1..Len(q) /\ (q # <<>> => Len(q) \in Nat \ {0})
  BY LenProperties, EmptySeq
<1>2. q # <<>> => q[1] \in ToSet(q)
  BY <1>1 DEF ToSet
<1>3. q = <<>> => ToSet(q) = {}
  BY <1>1, EmptySeq DEF ToSet
<1> QED BY <1>2, <1>3

-----------------------------------------------------------------------------
(* Lemmas on the steps of calls.                                             *)

LEMMA PendingFinite == IsFiniteSet(Pending) /\ Cardinality(Pending) \in Nat
BY ConstantsAssumption, FS_Subset, FS_CardinalityType DEF Pending

\* A call that moves on within its pending awaits, or leaves them.
LEMMA PendingStep ==
    ASSUME IInv, NEW c \in Calls, NEW place \in Awaits, Goto(c, place)
    PROVE  /\ place \in {"lock", "configure", "drain"} =>
                Cardinality(Pending') <= (IF c \in Pending THEN Cardinality(Pending)
                                               ELSE Cardinality(Pending) + 1)
           /\ place \notin {"lock", "configure", "drain"} =>
                /\ Cardinality(Pending') <= Cardinality(Pending)
                /\ c \in Pending => Cardinality(Pending') = Cardinality(Pending) - 1
           /\ pc' \in [Calls -> Awaits]
           /\ \A d \in Calls : pc'[d] = IF d = c THEN place ELSE pc[d]
           /\ c \in Pending => created < MaxCalls
<1>1. \A d \in Calls : pc'[d] = IF d = c THEN place ELSE pc[d]
  BY DEF IInv, TypeInv, Goto
<1>2. place \in {"lock", "configure", "drain"} => Pending' = Pending \cup {c}
  BY <1>1 DEF Pending
<1>3. place \notin {"lock", "configure", "drain"} => Pending' = Pending \ {c}
  BY <1>1 DEF Pending
<1>4. /\ Cardinality(Pending \cup {c}) = IF c \in Pending THEN Cardinality(Pending) ELSE Cardinality(Pending) + 1
      /\ Cardinality(Pending \ {c}) = IF c \in Pending THEN Cardinality(Pending) - 1 ELSE Cardinality(Pending)
  <2>1. Cardinality(Pending \cup {c}) = IF c \in Pending THEN Cardinality(Pending) ELSE Cardinality(Pending) + 1
    BY PendingFinite, FS_AddElement
  <2>2. Cardinality(Pending \ {c}) = IF c \in Pending THEN Cardinality(Pending) - 1 ELSE Cardinality(Pending)
    BY PendingFinite, FS_RemoveElement
  <2> QED BY <2>1, <2>2
<1>5. pc' \in [Calls -> Awaits]
  BY DEF IInv, TypeInv, Goto
<1>6. c \in Pending => created < MaxCalls
  <2>1. c \in Pending => Cardinality(Pending) # 0
    BY PendingFinite, FS_EmptySet
  <2> QED BY <2>1, PendingFinite, ConstantsAssumption DEF IInv, TypeInv, BoundInv
<1>7. place \in {"lock", "configure", "drain"} =>
          Cardinality(Pending') = IF c \in Pending THEN Cardinality(Pending) ELSE Cardinality(Pending) + 1
  BY <1>2, <1>4
<1>8. place \notin {"lock", "configure", "drain"} =>
          Cardinality(Pending') = IF c \in Pending THEN Cardinality(Pending) - 1 ELSE Cardinality(Pending)
  BY <1>3, <1>4
<1> HIDE DEF Pending
<1> QED BY <1>1, <1>5, <1>6, <1>7, <1>8, PendingFinite

\* Nobody becomes pending but the caller of a call that is counted.
LEMMA BoundStep ==
    ASSUME IInv, NEW c \in Calls, NEW place \in Awaits, Goto(c, place), UNCHANGED created,
           \/ made' = made + 1
           \/ made' = made /\ (c \in Pending \/ place \in {"idle", "await"})
    PROVE  BoundInv'
<1>1. Cardinality(Pending') \in Nat
  <2>1. Pending' \in SUBSET Calls
    BY DEF Pending
  <2> QED BY <2>1, ConstantsAssumption, FS_Subset, FS_CardinalityType
<1>2. Cardinality(Pending') <= Cardinality(Pending) + 1
  BY PendingStep, PendingFinite, <1>1 DEF Awaits
<1>3. made' = made => Cardinality(Pending') <= Cardinality(Pending)
  <2>1. CASE place \in {"idle", "await"}
    BY <2>1, PendingStep
  <2>2. CASE c \in Pending /\ place \in {"lock", "configure", "drain"}
    BY <2>2, PendingStep
  <2>3. ASSUME made' = made PROVE c \in Pending \/ place \in {"idle", "await"}
    BY <2>3 DEF IInv, TypeInv
  <2> QED BY <2>1, <2>2, <2>3 DEF Awaits
<1> QED BY <1>1, <1>2, <1>3, PendingFinite DEF IInv, TypeInv, BoundInv

\* The configuration lock admits one call at a time to the executor.
LEMMA OneDrains ==
    ASSUME IInv, NEW c \in Calls, HeldBy(configLock, c)
    PROVE  \A d \in Calls : Draining(d) => d = c
BY DEF IInv, DrainInv, HeldBy

\* The executor that is drained is the one created last.
LEMMA PreviousIsLast ==
    ASSUME IInv, NEW c \in Calls, Draining(c)
    PROVE  Previous = created /\ created \in shut
<1>1. created \in 1..created /\ created # executor
  BY DEF IInv, TypeInv, DrainInv, NoExecutor
<1>2. created \in shut
  BY <1>1 DEF IInv, ExecutorInv
<1>3. \A e \in shut : e \in Nat /\ e <= created
  BY DEF IInv, TypeInv
<1>4. \E e \in shut : \A f \in shut : f <= e
  BY <1>2, <1>3
<1>5. Previous \in shut /\ \A f \in shut : f <= Previous
  BY <1>4 DEF Previous
<1> QED BY <1>2, <1>3, <1>5 DEF IInv, TypeInv

\* Work is submitted to executor x by the call that holds the lock.
LEMMA SubmitEffect ==
    ASSUME IInv, NEW c \in Calls, HeldBy(configLock, c), NEW x \in Executors, Submit(c, x)
    PROVE  /\ queue' \in [Executors -> Seq(Calls)]
           /\ \A e \in Executors : e # x => queue'[e] = queue[e]
           /\ ToSet(queue'[x]) = ToSet(queue[x]) \cup {c}
           /\ configLock' \in Seq(Calls)
           /\ \A d \in Calls : ~Draining(d)'
<1>1. /\ Append(queue[x], c) \in Seq(Calls)
      /\ ToSet(Append(queue[x], c)) = ToSet(queue[x]) \cup {c}
  BY AppendTail DEF IInv, TypeInv
<1>2. configLock' \in Seq(Calls)
  BY AppendTail DEF IInv, TypeInv, Submit, HeldBy
<1>3. \A d \in Calls : ~Draining(d)'
  BY OneDrains, PendingStep DEF Submit, Awaits, Draining
<1> QED BY <1>1, <1>2, <1>3 DEF IInv, TypeInv, Submit

\* get_executor creates an executor once the last one is drained or given up.
LEMMA CreateStep ==
    ASSUME IInv, NEW c \in Calls, pc[c] \in {"configure", "drain"}, HeldBy(configLock, c),
           executor = NoExecutor, \A e \in Executors \ abandoned : Drained(e),
           Create(c), UNCHANGED <<inferenceLock, shut, abandoned, running, made>>
    PROVE  IInv'
<1> DEFINE x == created + 1
<1>1. c \in Pending /\ Goto(c, "await")
  BY DEF Pending, Create, Submit
<1>2. x \in Executors /\ created' = x /\ executor' = x /\ Submit(c, x)
  <2>1. created < MaxCalls
    BY <1>1, PendingStep DEF Awaits
  <2> QED BY <2>1, ConstantsAssumption DEF Create, IInv, TypeInv, Executors
<1>3. \A e \in Executors : size'[e] = IF e = x THEN Wanted(c) ELSE size[e]
  BY <1>2 DEF Create, IInv, TypeInv
<1>4. Wanted(c) \in Nat /\ Wanted(c) >= 1
  BY ConstantsAssumption DEF Wanted
<1>5. Drained(x) /\ x \notin shut
  BY <1>2 DEF IInv, TypeInv
<1>6. TypeInv'
  <2>1. size' \in [Executors -> Nat]
    BY <1>2, <1>4 DEF Create, IInv, TypeInv
  <2> QED BY <1>1, <1>2, <2>1, SubmitEffect, PendingStep DEF IInv, TypeInv, Awaits, Executors
<1>7. BoundInv'
  BY <1>1, <1>2, PendingStep, PendingFinite DEF IInv, TypeInv, BoundInv, Awaits
<1>8. ExecutorInv'
  BY <1>2 DEF IInv, TypeInv, ExecutorInv, NoExecutor
<1>9. DrainInv'
  BY <1>2, SubmitEffect DEF DrainInv
<1>10. SizeInv'
  <2> SUFFICES ASSUME NEW e \in Executors PROVE SizeInv!(e)'
    BY DEF SizeInv
  <2>1. CASE e = x
    <3>1. ToSet(queue'[x]) = {c} /\ running'[x] = {}
      <4>1. queue[x] \in Seq(Calls) /\ ToSet(queue[x]) = {}
        BY <1>2, <1>5, EmptyQueue DEF Drained, IInv, TypeInv
      <4>2. ToSet(queue'[x]) = ToSet(queue[x]) \cup {c}
        BY <1>2, SubmitEffect
      <4>3. running'[x] = {}
        BY <1>5 DEF Drained
      <4> QED BY <4>1, <4>2, <4>3
    <3>2. Wanted(c)' = Wanted(c)
      BY DEF Wanted
    <3> QED BY <1>2, <1>3, <1>4, <2>1, <3>1, <3>2, FS_EmptySet
  <2>2. CASE e # x
    BY <1>2, <1>3, <2>2, SubmitEffect DEF IInv, SizeInv, Wanted
  <2> QED BY <2>1, <2>2
<1>11. WorkInv'
  <2> SUFFICES ASSUME NEW e \in Executors \ abandoned, e # x PROVE Drained(e)'
    BY <1>2 DEF WorkInv, NoExecutor, IInv, TypeInv
  <2> QED BY <1>2, SubmitEffect DEF Drained
<1> QED BY <1>6, <1>7, <1>8, <1>9, <1>10, <1>11 DEF IInv
-----------------------------------------------------------------------------
(* The invariant.                                                            *)

LEMMA InitInv == Init => IInv
<1> SUFFICES ASSUME Init PROVE IInv
  OBVIOUS
<1>1. TypeInv
  BY ConstantsAssumption, EmptySeq DEF Init, TypeInv, Awaits
<1>2. Pending = {}
  BY DEF Init, Pending
<1>3. BoundInv
  BY <1>2, FS_EmptySet DEF Init, BoundInv
<1>4. \A e \in Executors : running[e] = {} /\ ToSet(queue[e]) = {} /\ Drained(e)
  BY <1>1, EmptyQueue DEF Init, TypeInv, Drained
<1>5. SizeInv
  BY <1>4, FS_EmptySet DEF Init, SizeInv
<1> QED BY <1>1, <1>3, <1>4, <1>5 DEF Init, IInv, ExecutorInv, DrainInv, WorkInv, NoExecutor, Draining

LEMMA InvStep == IInv /\ [Next]_vars => IInv'
<1> SUFFICES ASSUME IInv, [Next]_vars PROVE IInv'
  OBVIOUS
<1> USE DEF lockVars, executorVars
<1>1. ASSUME NEW c \in Calls, Call(c) PROVE IInv'
  <2>1. PICK place \in {"configure", "lock"} : Goto(c, place)
    BY <1>1 DEF Call
  <2>0. /\ inferenceLock' \in Seq(Calls) /\ configLock' \in Seq(Calls)
        /\ \A d : HeldBy(configLock, d) => HeldBy(configLock', d)
    <3>1. /\ \A q \in Seq(Calls) : Append(q, c) \in Seq(Calls)
          /\ \A d : HeldBy(configLock, d) => HeldBy(Append(configLock, c), d)
      BY AppendTail DEF IInv, TypeInv
    <3>2. \/ configLock' = Append(configLock, c) /\ inferenceLock' = inferenceLock
          \/ inferenceLock' = Append(inferenceLock, c) /\ configLock' = configLock
      BY <1>1 DEF Call
    <3> QED BY <3>1, <3>2 DEF IInv, TypeInv
  <2>2. TypeInv'
    <3>1. made' \in 0..MaxCalls
      BY <1>1, ConstantsAssumption DEF IInv, TypeInv, Call
    <3> QED BY <1>1, <2>0, <2>1, <3>1, PendingStep DEF IInv, TypeInv, Call, Awaits
  <2>3. BoundInv'
    BY <1>1, <2>1, BoundStep DEF Call, Awaits
  <2>4. \A d \in Calls : Draining(d)' <=> Draining(d)
    BY <1>1, <2>1, PendingStep DEF Draining, Call, Awaits
  <2>5. DrainInv'
    BY <1>1, <2>0, <2>4 DEF IInv, DrainInv, Call
  <2> QED BY <1>1, <2>2, <2>3, <2>4, <2>5
          DEF IInv, ExecutorInv, SizeInv, WorkInv, Drained, Wanted, Call
<1>2. ASSUME NEW c \in Calls, Locked(c) PROVE IInv'
  <2>1. Goto(c, "configure") /\ c \in Pending
    BY <1>2 DEF Locked, Pending
  <2>2. TypeInv'
    BY <1>2, <2>1, AppendTail, PendingStep DEF IInv, TypeInv, Locked, Awaits
  <2>3. BoundInv'
    BY <1>2, <2>1, BoundStep DEF Locked, Awaits
  <2>4. \A d \in Calls : Draining(d)' <=> Draining(d)
    BY <1>2, <2>1, PendingStep DEF Draining, Locked, Awaits
  <2>5. DrainInv'
    BY <1>2, <2>4, AppendTail DEF IInv, TypeInv, DrainInv, Locked
  <2> QED BY <1>2, <2>2, <2>3, <2>4, <2>5
          DEF IInv, ExecutorInv, SizeInv, WorkInv, Drained, Wanted, Locked
<1>3. ASSUME NEW c \in Calls, Configure(c) PROVE IInv'
  <2>1. pc[c] = "configure" /\ HeldBy(configLock, c) /\ c \in Pending
    BY <1>3 DEF Configure, Pending
  <2>2. \A d \in Calls : ~Draining(d)
    BY <2>1, OneDrains DEF Draining
  <2>3. CASE Reusable(c) /\ Submit(c, executor) /\ UNCHANGED <<executor, created, size, shut>>
    <3>1. executor \in Executors /\ executor = created /\ Goto(c, "await")
      BY <2>3 DEF Reusable, IInv, TypeInv, ExecutorInv, NoExecutor, Executors, Submit
    <3>2. UNCHANGED <<inferenceLock, abandoned, running, made, cancels>>
      BY <1>3 DEF Configure
    <3>3. TypeInv'
      BY <2>1, <2>3, <3>1, <3>2, SubmitEffect, PendingStep DEF IInv, TypeInv, Awaits
    <3>4. BoundInv'
      BY <2>3, <3>1, <3>2, BoundStep DEF Awaits
    <3>5. DrainInv'
      BY <2>1, <2>3, <3>1, SubmitEffect DEF DrainInv
    <3>6. SizeInv'
      <4> SUFFICES ASSUME NEW e \in Executors PROVE SizeInv!(e)'
        BY DEF SizeInv
      <4>1. ToSet(queue'[e]) \subseteq ToSet(queue[e]) \cup (IF e = executor THEN {c} ELSE {})
        BY <2>1, <2>3, <3>1, SubmitEffect
      <4>2. e = executor => Wanted(c) = size[e]
        BY <2>3 DEF Reusable
      <4> QED BY <2>3, <3>2, <4>1, <4>2 DEF IInv, SizeInv, Wanted
    <3>7. WorkInv'
      BY <2>1, <2>2, <2>3, <3>1, <3>2, SubmitEffect DEF IInv, WorkInv, Drained, NoExecutor, Executors
    <3> QED BY <2>3, <3>3, <3>4, <3>5, <3>6, <3>7 DEF IInv, ExecutorInv
  <2>4. CASE executor = NoExecutor /\ Create(c) /\ UNCHANGED shut
    <3>1. \A e \in Executors \ abandoned : Drained(e)
      BY <2>2, <2>4 DEF IInv, WorkInv
    <3> QED BY <1>3, <2>1, <2>4, <3>1, CreateStep DEF Configure
  <2>5. CASE /\ executor # NoExecutor /\ shut' = shut \cup {executor} /\ ForgetExecutor
             /\ Goto(c, "drain") /\ UNCHANGED <<configLock, created, size, queue>>
    <3>1. UNCHANGED <<inferenceLock, abandoned, running, made, cancels>>
      BY <1>3 DEF Configure
    <3>2. executor = created /\ created \in 1..created
      BY <2>5 DEF IInv, TypeInv, ExecutorInv, NoExecutor
    <3>3. \A d \in Calls : Draining(d)' <=> d = c
      BY <2>2, <2>5, PendingStep DEF Draining, Awaits
    <3>4. TypeInv'
      BY <2>5, <3>1, <3>2, PendingStep DEF IInv, TypeInv, Awaits
    <3>5. BoundInv'
      BY <2>1, <2>5, <3>1, BoundStep DEF Awaits
    <3>6. ExecutorInv'
      BY <2>5, <3>2 DEF IInv, ExecutorInv, ForgetExecutor, NoExecutor
    <3>7. DrainInv'
      BY <2>1, <2>5, <3>2, <3>3 DEF DrainInv, ForgetExecutor
    <3>8. WorkInv'
      BY <2>5, <3>1, <3>3 DEF IInv, WorkInv, Drained
    <3> QED BY <2>5, <3>1, <3>4, <3>5, <3>6, <3>7, <3>8 DEF IInv, SizeInv, Wanted
  <2> QED BY <1>3, <2>3, <2>4, <2>5 DEF Configure
<1>4. ASSUME NEW c \in Calls, DrainEnds(c) PROVE IInv'
  <2>1. Draining(c) /\ HeldBy(configLock, c) /\ executor = NoExecutor
    BY <1>4 DEF DrainEnds, Draining, IInv, DrainInv
  <2>2. \A e \in Executors \ abandoned : Drained(e)
    BY <1>4, <2>1, PreviousIsLast DEF DrainEnds, IInv, WorkInv
  <2> QED BY <1>4, <2>1, <2>2, CreateStep DEF DrainEnds
<1>5. ASSUME NEW c \in Calls, Return(c) PROVE IInv'
  <2>1. Goto(c, "idle") /\ ~Draining(c)
    BY <1>5 DEF Return, Draining
  <2>2. TypeInv'
    BY <1>5, <2>1, LeaveProperties, PendingStep DEF IInv, TypeInv, Return, Awaits
  <2>3. BoundInv'
    BY <1>5, <2>1, BoundStep DEF Return, Awaits
  <2>4. \A d \in Calls : Draining(d)' <=> Draining(d)
    BY <2>1, PendingStep DEF Draining, Awaits
  <2> QED BY <1>5, <2>2, <2>3, <2>4
          DEF IInv, ExecutorInv, DrainInv, SizeInv, WorkInv, Drained, Wanted, Return
<1>6. ASSUME NEW c \in Calls, Cancel(c) PROVE IInv'
  <2>1. Goto(c, "idle")
    BY <1>6 DEF Cancel
  <2>2. \A e \in Executors : /\ queue'[e] \in Seq(Calls)
                              /\ ToSet(queue'[e]) \subseteq ToSet(queue[e])
    BY <1>6, LeaveProperties DEF IInv, TypeInv, Cancel
  <2>3. abandoned' = IF Draining(c) THEN abandoned \cup {created} ELSE abandoned
    BY <1>6, PreviousIsLast DEF Cancel, Draining
  <2>4. Draining(c) => created \in 1..created
    BY DEF IInv, TypeInv, DrainInv
  <2>5. queue' \in [Executors -> Seq(Calls)]
    BY <1>6, <2>2 DEF Cancel
  <2>6. TypeInv'
    BY <1>6, <2>1, <2>3, <2>4, <2>5, LeaveProperties, PendingStep
    DEF IInv, TypeInv, Cancel, LeavesLocks, Awaits
  <2>7. BoundInv'
    BY <1>6, <2>1, BoundStep DEF Cancel, Awaits
  <2>8. \A d \in Calls : Draining(d)' <=> Draining(d) /\ d # c
    BY <2>1, PendingStep DEF Draining, Awaits
  <2>9. DrainInv'
    BY <1>6, <2>8, LeaveProperties DEF IInv, TypeInv, DrainInv, Cancel, LeavesLocks
  <2>10. \A e \in Executors : Drained(e) => Drained(e)'
    BY <1>6, <2>2, EmptyQueue DEF Drained, IInv, TypeInv, Cancel
  <2>11. WorkInv'
    <3>1. SUFFICES ASSUME NEW e \in Executors \ abandoned', ~Drained(e)'
                   PROVE  /\ e = created'
                          /\ executor' = NoExecutor => \E d \in Calls : Draining(d)'
      BY DEF WorkInv
    <3>2. e \in Executors \ abandoned /\ ~Drained(e) /\ UNCHANGED <<created, executor>>
      BY <1>6, <2>3, <2>10, <3>1 DEF Cancel
    <3> QED BY <2>3, <2>8, <3>1, <3>2 DEF IInv, WorkInv
  <2> QED BY <1>6, <2>2, <2>6, <2>7, <2>9, <2>11
          DEF IInv, ExecutorInv, SizeInv, Wanted, Cancel
<1>7. ASSUME NEW e \in Executors, Begin(e) PROVE IInv'
  <2>1. /\ Tail(queue[e]) \in Seq(Calls) /\ Head(queue[e]) \in ToSet(queue[e])
        /\ ToSet(Tail(queue[e])) \subseteq ToSet(queue[e]) /\ Head(queue[e]) \in Calls
    BY <1>7, AppendTail, HeadTailProperties DEF IInv, TypeInv, Begin
  <2>2. /\ queue' \in [Executors -> Seq(Calls)]
        /\ \A f \in Executors : queue'[f] = IF f = e THEN Tail(queue[e]) ELSE queue[f]
    BY <1>7, <2>1 DEF IInv, TypeInv, Begin
  <2>3. /\ running' \in [Executors -> SUBSET Calls]
        /\ \A f \in Executors :
               running'[f] = IF f = e THEN running[e] \cup {Head(queue[e])} ELSE running[f]
    BY <1>7, <2>1 DEF IInv, TypeInv, Begin
  <2>4. Cardinality(running'[e]) <= size[e]
    <3>1. IsFiniteSet(running[e]) /\ Cardinality(running[e]) \in Nat /\ size[e] \in Nat
      BY ConstantsAssumption, FS_Subset, FS_CardinalityType DEF IInv, TypeInv
    <3> DEFINE first == Head(queue[e])
    <3> HIDE DEF first
    <3>a. running'[e] = running[e] \cup {first}
      BY <2>3 DEF first
    <3>b. /\ IsFiniteSet(running[e] \cup {first})
          /\ \/ Cardinality(running[e] \cup {first}) = Cardinality(running[e])
             \/ Cardinality(running[e] \cup {first}) = Cardinality(running[e]) + 1
      BY <3>1, FS_AddElement
    <3>2. Cardinality(running'[e]) <= Cardinality(running[e]) + 1
      BY <3>1, <3>a, <3>b
    <3>3. Cardinality(running'[e]) \in Nat
      BY <3>1, <3>a, <3>b
    <3> QED BY <1>7, <3>1, <3>2, <3>3 DEF Begin
  <2>5. SizeInv'
    <3> SUFFICES ASSUME NEW f \in Executors PROVE SizeInv!(f)'
      BY DEF SizeInv
    <3> QED BY <1>7, <2>1, <2>2, <2>3, <2>4 DEF IInv, SizeInv, Wanted, Begin
  <2>6. \A f \in Executors : Drained(f) => Drained(f)'
    BY <1>7, <2>2, <2>3 DEF Drained, Begin
  <2>7. \A d \in Calls : Draining(d)' <=> Draining(d)
    BY <1>7 DEF Begin, Draining
  <2>8. WorkInv'
    BY <1>7, <2>6, <2>7 DEF IInv, WorkInv, Begin
  <2> QED BY <1>7, <2>2, <2>3, <2>5, <2>7, <2>8
          DEF IInv, TypeInv, BoundInv, Pending, ExecutorInv, DrainInv, Begin
<1>8. ASSUME NEW e \in Executors, NEW c \in Calls, End(e, c) PROVE IInv'
  <2>1. /\ running' \in [Executors -> SUBSET Calls]
        /\ \A f \in Executors : running'[f] = IF f = e THEN running[e] \ {c} ELSE running[f]
    BY <1>8 DEF IInv, TypeInv, End
  <2>2. Cardinality(running'[e]) <= size[e]
    <3>1. IsFiniteSet(running[e]) /\ size[e] \in Nat
      BY ConstantsAssumption, FS_Subset DEF IInv, TypeInv
    <3>2. Cardinality(running'[e]) <= Cardinality(running[e])
      BY <2>1, <3>1, FS_Subset
    <3>3. Cardinality(running[e]) \in Nat /\ Cardinality(running'[e]) \in Nat
      BY <2>1, <3>1, FS_Subset, FS_CardinalityType
    <3> QED BY <3>1, <3>2, <3>3 DEF IInv, SizeInv
  <2>3. SizeInv'
    <3> SUFFICES ASSUME NEW f \in Executors PROVE SizeInv!(f)'
      BY DEF SizeInv
    <3> QED BY <1>8, <2>1, <2>2 DEF IInv, SizeInv, Wanted, End
  <2>4. \A f \in Executors : Drained(f) => Drained(f)'
    BY <1>8, <2>1 DEF Drained, End
  <2>5. \A d \in Calls : Draining(d)' <=> Draining(d)
    BY <1>8 DEF End, Draining
  <2>6. WorkInv'
    BY <1>8, <2>4, <2>5 DEF IInv, WorkInv, End
  <2> QED BY <1>8, <2>1, <2>3, <2>5, <2>6
          DEF IInv, TypeInv, BoundInv, Pending, ExecutorInv, DrainInv, End
<1>9. CASE UNCHANGED vars
  BY <1>9 DEF vars, IInv, TypeInv, BoundInv, Pending, ExecutorInv, DrainInv, SizeInv, WorkInv,
              Drained, Draining, Wanted
<1> QED BY <1>1, <1>2, <1>3, <1>4, <1>5, <1>6, <1>7, <1>8, <1>9 DEF Next, Step

LEMMA Invariant == Spec => []IInv
<1> QED BY InitInv, InvStep, PTL DEF Spec

-----------------------------------------------------------------------------
(* The theorems.                                                             *)

(* The concurrency limits of the sessions hold for any number of calls and   *)
(* executors: an inference that allows no overlap runs alone, and one that  *)
(* allows n workers runs with at most n, although cancelled inferences go  *)
(* on running (get_executor, _run_transcribe).                              *)
THEOREM LimitsHold == Spec => []WorkersRespected
<1>1. IInv => WorkersRespected
  <2> SUFFICES ASSUME IInv, NEW e \in Executors \ abandoned, NEW c \in running[e]
               PROVE  Cardinality(UNION {running[f] : f \in Executors \ abandoned}) <= Wanted(c)
    BY DEF WorkersRespected
  <2>1. \A f \in Executors \ abandoned : running[f] # {} => f = created
    BY DEF IInv, WorkInv, Drained
  <2>2. UNION {running[f] : f \in Executors \ abandoned} = running[e]
    BY <2>1
  <2> QED BY <2>2 DEF IInv, SizeInv
<1> QED BY <1>1, Invariant, PTL

(* No inference is submitted to an executor that has been shut down, though  *)
(* calls that want another size replace it at any moment (_submit_inference). *)
THEOREM NothingIsRefused == Spec => SubmitsToLiveExecutor
<1>1. IInv /\ [Next]_vars =>
          [\A e \in shut : ToSet(queue'[e]) \subseteq ToSet(queue[e])]_vars
  <2> SUFFICES ASSUME IInv, Next, NEW e \in shut
               PROVE  ToSet(queue'[e]) \subseteq ToSet(queue[e])
    BY DEF vars
  <2>1. e \in Executors /\ queue[e] \in Seq(Calls) /\ e # executor /\ e # created + 1
    <3>1. e \in 1..created /\ created \in 0..MaxCalls
      BY DEF IInv, TypeInv
    <3>2. e \in Executors /\ e # created + 1
      BY <3>1, ConstantsAssumption DEF Executors
    <3> QED BY <3>1, <3>2 DEF IInv, TypeInv, ExecutorInv
  <2>2. ASSUME NEW c \in Calls, NEW x, Submit(c, x), e # x
        PROVE  ToSet(queue'[e]) \subseteq ToSet(queue[e])
    BY <2>1, <2>2 DEF Submit, IInv, TypeInv
  <2>3. ASSUME NEW c \in Calls, Configure(c) \/ DrainEnds(c)
        PROVE  ToSet(queue'[e]) \subseteq ToSet(queue[e])
    BY <2>1, <2>2, <2>3 DEF Configure, DrainEnds, Create
  <2>4. ASSUME NEW c \in Calls, Call(c) \/ Locked(c) \/ Return(c)
        PROVE  ToSet(queue'[e]) \subseteq ToSet(queue[e])
    BY <2>4 DEF Call, Locked, Return
  <2>5. ASSUME NEW c \in Calls, Cancel(c)
        PROVE  ToSet(queue'[e]) \subseteq ToSet(queue[e])
    BY <2>1, <2>5, LeaveProperties DEF Cancel
  <2>6. ASSUME NEW f \in Executors, Begin(f)
        PROVE  ToSet(queue'[e]) \subseteq ToSet(queue[e])
    <3>1. ToSet(Tail(queue[f])) \subseteq ToSet(queue[f])
      BY <2>6, AppendTail DEF Begin, IInv, TypeInv
    <3> QED BY <2>1, <2>6, <3>1 DEF Begin, IInv, TypeInv
  <2>7. ASSUME NEW f \in Executors, NEW c \in Calls, End(f, c)
        PROVE  ToSet(queue'[e]) \subseteq ToSet(queue[e])
    BY <2>7 DEF End
  <2> QED BY <2>3, <2>4, <2>5, <2>6, <2>7 DEF Next, Step
<1> QED BY <1>1, Invariant, PTL DEF Spec, SubmitsToLiveExecutor
===============================================================================
