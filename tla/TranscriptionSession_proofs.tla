---------------------- MODULE TranscriptionSession_proofs ----------------------
(* Theorems about TranscriptionSession, for any kinds of message and any     *)
(* bounds.                                                                   *)
EXTENDS TranscriptionSession, SequenceTheorems, TLAPS

(* Where each task may await.  A finalizer holds the finalization lock from  *)
(* the transcription to the closing frame; the other places named here are *)
(* those where a task waits for it.                                        *)
Starting == {"connect", "runtime", "waitStart", "ready", "processor"}
Waiting == {"audio", "badAudio", "badJson", "finalize", "emitText", "emitNothing", "emitWarning"}
Finishing == {"transcribe", "sendRecovered", "sendError", "sendFinal", "sendClosing"}
Ending == {"error", "teardown", "done"}

Finalizes(a) == a \in Finalizers /\ pc[a] \in Finishing
Queued(a) == pc[a] \in Waiting \/ Finalizes(a)

PlacesInv ==
    /\ pc["main"] \in Starting \cup Finishing \cup Ending
                      \cup {"limited", "loop", "audio", "badAudio", "badJson", "finalize",
                            "close", "gather"}
    /\ pc["partial"] \in {"none", "cycle", "transcribe", "emitText", "emitNothing",
                          "emitWarning", "done"}
    /\ pc["main"] = "audio" => accepted < MaxAudio
    /\ pc["silence"] \in {"none", "sleep", "finalize", "close", "done"} \cup Finishing

\* Only those who wait for the lock or hold it are in its queue, once, and
\* whoever finalizes holds it.
LockInv ==
    /\ \A a \in Actors : a \in ToSet(lockQ) => Queued(a)
    /\ IsInjective(lockQ)
    /\ \A a \in Finalizers : Finalizes(a) => Holds(a)

\* The two tasks live from the opening of the lease to the cancellation that
\* the end of the message loop brings; then the processor is closed.
LeaseInv ==
    /\ pc["main"] \in Starting \cup {"limited"} => lease = "none"
    /\ lease = "none" =>
           /\ pc["main"] \in Starting \cup Ending \cup {"limited", "close"}
           /\ pc["partial"] = "none" /\ pc["silence"] = "none"
           /\ jobs = {} /\ ~closed /\ ~cancelled
    /\ lease # "none" =>
           /\ cancelled <=> pc["main"] \in Ending \cup {"gather"}
           /\ closed <=> pc["main"] \in Ending
           /\ pc["main"] \in Ending => TasksGone
           /\ lease = "released" <=> closed /\ jobs = {}

\* The state machine finalizes while a task does, or after the task that did
\* was cancelled; audio is given up only when none is accepted any more.
StateInv ==
    /\ \A a \in Finalizers : Finalizes(a) => state = "finalizing" /\ covered = accepted
    /\ state = "finalizing" => cancelled \/ \E a \in Finalizers : Finalizes(a)
    /\ pc["main"] \in Starting \cup {"limited"} =>
           buffer = "open" /\ state \in {"connected", "started"}
    /\ pc["silence"] = "close" => state = "closed"
    /\ buffer = "closed" => state \in {"finalizing", "closed"} \/ cancelled

\* What the client may have seen, by the place of each task.
Over == Sent("final") \/ Sent("error") \/ Sent("closing")
WireInv ==
    /\ pc["main"] \in Starting \ {"processor"} => wire = <<>>
    /\ pc["main"] \in Starting => socket = "open" /\ ~Over
    /\ pc["main"] = "limited" => ~Sent("ready") /\ ~registered
    /\ peer /\ (lease # "none" \/ pc["main"] = "processor") => Sent("ready")
    /\ Over => lease = "none" \/ closed \/ state \in {"finalizing", "closed"}
    /\ Sent("final") => state \in {"finalizing", "closed"} /\ covered = accepted
    /\ \A a \in Finalizers :
           /\ pc[a] \in {"transcribe", "sendRecovered", "sendFinal"} => ~Over
           /\ pc[a] = "sendError" => ~Sent("final") /\ ~Sent("closing")
           /\ pc[a] = "sendClosing" => ~Sent("closing")
    /\ Sent("final") \/ Sent("closing") =>
           socket = "closed" \/ \E a \in Finalizers : pc[a] \in {"sendClosing", "close"}

DoneInv ==
    pc["main"] = "done" =>
        /\ ~registered /\ socket = "closed"
        /\ Sent("ready") => buffer = "closed" /\ state = "closed"

IInv == TypeOK /\ PlacesInv /\ LockInv /\ LeaseInv /\ StateInv /\ WireInv /\ DoneInv

\* The two parts of TypeOK.
DataOK ==
    /\ state \in {"connected", "started", "streaming", "finalizing", "closed"}
    /\ buffer \in {"open", "closed"}
    /\ accepted \in 0..MaxAudio /\ covered \in 0..MaxAudio
    /\ lockQ \in Seq(Actors) /\ pc \in [Actors -> Places] /\ jobs \subseteq Actors
    /\ lease \in {"none", "held", "released"}
    /\ socket \in {"open", "closed"} /\ wire \in Seq(Frames)
FlagsOK ==
    /\ lastText \in BOOLEAN /\ warned \in BOOLEAN /\ cancelled \in BOOLEAN
    /\ raised \in BOOLEAN /\ closed \in BOOLEAN /\ registered \in BOOLEAN /\ peer \in BOOLEAN

-----------------------------------------------------------------------------
(* Lemmas on the lock, the wire and the places of tasks.                     *)

LEMMA LeaveProperties ==
    ASSUME NEW S, NEW q \in Seq(S), IsInjective(q), NEW c
    PROVE  /\ Leave(q, c) \in Seq(S)
           /\ ToSet(Leave(q, c)) = ToSet(q) \ {c}
           /\ IsInjective(Leave(q, c))
           /\ \A d : d # c /\ HeldBy(q, d) => HeldBy(Leave(q, c), d)
<1>0. DOMAIN q = 1..Len(q) /\ Len(q) \in Nat
  BY LenProperties
<1>1. CASE \E i \in 1..Len(q) : q[i] = c
  <2> DEFINE p == Place(q, c)
             front == SubSeq(q, 1, p - 1)
             back == SubSeq(q, p + 1, Len(q))
  <2>1. p \in 1..Len(q) /\ q[p] = c
    BY <1>1 DEF Place
  <2>2. /\ front \in Seq(S) /\ Len(front) = p - 1
        /\ \A i \in 1..(p - 1) : front[i] = q[i]
    BY <2>1, SubSeqProperties
  <2>3. /\ back \in Seq(S) /\ Len(back) = Len(q) - p
        /\ \A i \in 1..(Len(q) - p) : back[i] = q[p + i]
    BY <2>1, SubSeqProperties
  <2>4. Leave(q, c) = front \o back
    BY <1>1 DEF Leave, RemoveAt
  <2> HIDE DEF p, front, back
  <2>5. /\ front \o back \in Seq(S) /\ Len(front \o back) = Len(q) - 1
        /\ \A i \in 1..(Len(q) - 1) :
               (front \o back)[i] = IF i < p THEN q[i] ELSE q[i + 1]
    <3>1. /\ front \o back \in Seq(S) /\ Len(front \o back) = Len(front) + Len(back)
          /\ \A i \in 1..(Len(front) + Len(back)) :
                 (front \o back)[i] = IF i <= Len(front) THEN front[i]
                                      ELSE back[i - Len(front)]
      BY <2>2, <2>3, ConcatProperties
    <3>2. ASSUME NEW i \in 1..(Len(q) - 1)
          PROVE  (front \o back)[i] = IF i < p THEN q[i] ELSE q[i + 1]
      <4>1. CASE i < p
        BY <2>1, <2>2, <2>3, <3>1, <4>1
      <4>2. CASE ~(i < p)
        <5>1. (front \o back)[i] = back[i - (p - 1)] /\ i - (p - 1) \in 1..(Len(q) - p)
          BY <2>1, <2>2, <2>3, <3>1, <4>2
        <5> QED BY <2>1, <2>3, <4>2, <5>1
      <4> QED BY <4>1, <4>2
    <3> QED BY <2>1, <2>2, <2>3, <3>1, <3>2
  <2> DEFINE r == front \o back
  <2>6. DOMAIN r = 1..(Len(q) - 1)
    BY <2>5, LenProperties
  <2> HIDE DEF r
  <2>7. \A i, j \in 1..Len(q) : q[i] = q[j] => i = j
    BY <1>0 DEF IsInjective
  <2>8. /\ r \in Seq(S)
        /\ \A i \in 1..(Len(q) - 1) : r[i] = IF i < p THEN q[i] ELSE q[i + 1]
    BY <2>5 DEF r
  <2>9. ToSet(r) = ToSet(q) \ {c}
    <3>1. \A i \in 1..(Len(q) - 1) : r[i] # c /\ \E j \in 1..Len(q) : r[i] = q[j]
      BY <1>0, <2>1, <2>7, <2>8
    <3>2. ASSUME NEW j \in 1..Len(q), q[j] # c PROVE \E i \in 1..(Len(q) - 1) : r[i] = q[j]
      <4>1. CASE j < p
        BY <1>0, <2>1, <2>8, <4>1
      <4>2. CASE j > p
        <5>1. j - 1 \in 1..(Len(q) - 1) /\ r[j - 1] = q[j]
          BY <1>0, <2>1, <2>8, <4>2
        <5> QED BY <5>1
      <4> QED BY <1>0, <2>1, <3>2, <4>1, <4>2
    <3>3. /\ \A x : x \in ToSet(q) <=> \E i \in 1..Len(q) : x = q[i]
          /\ \A x : x \in ToSet(r) <=> \E i \in 1..(Len(q) - 1) : x = r[i]
      BY <1>0, <2>6 DEF ToSet
    <3>4. \A x \in ToSet(r) : x \in ToSet(q) \ {c}
      BY <3>1, <3>3
    <3>5. \A x \in ToSet(q) \ {c} : x \in ToSet(r)
      BY <3>2, <3>3
    <3> QED BY <3>4, <3>5
  <2>10. IsInjective(r)
    <3>1. ASSUME NEW i \in 1..(Len(q) - 1), NEW j \in 1..(Len(q) - 1), r[i] = r[j]
          PROVE  i = j
      BY <1>0, <2>1, <2>7, <2>8, <3>1
    <3> QED BY <2>6, <3>1 DEF IsInjective
  <2>11. ASSUME NEW d, d # c, HeldBy(q, d) PROVE HeldBy(r, d)
    <3>1. q[1] = d /\ p # 1 /\ Len(q) > 1
      BY <2>1, <2>11 DEF HeldBy
    <3> QED BY <2>1, <2>5, <3>1 DEF HeldBy, r
  <2> QED BY <2>4, <2>8, <2>9, <2>10, <2>11 DEF r
<1>2. CASE ~ \E i \in 1..Len(q) : q[i] = c
  <2>1. Leave(q, c) = q
    BY <1>2 DEF Leave
  <2>2. c \notin ToSet(q)
    BY <1>0, <1>2 DEF ToSet
  <2> QED BY <2>1, <2>2
<1> QED BY <1>1, <1>2

LEMMA AppendTail ==
    ASSUME NEW S, NEW q \in Seq(S), IsInjective(q), NEW c \in S
    PROVE  /\ Append(q, c) \in Seq(S)
           /\ ToSet(Append(q, c)) = ToSet(q) \cup {c}
           /\ c \notin ToSet(q) => IsInjective(Append(q, c))
           /\ \A d : HeldBy(q, d) => HeldBy(Append(q, c), d)
           /\ HeldBy(q, c) => /\ Tail(q) \in Seq(S) /\ IsInjective(Tail(q))
                              /\ ToSet(Tail(q)) = ToSet(q) \ {c}
<1>0. DOMAIN q = 1..Len(q) /\ Len(q) \in Nat
  BY LenProperties
<1>1. /\ Append(q, c) \in Seq(S) /\ Len(Append(q, c)) = Len(q) + 1
      /\ \A i \in 1..Len(q) : Append(q, c)[i] = q[i]
      /\ Append(q, c)[Len(q) + 1] = c
      /\ DOMAIN Append(q, c) = 1..(Len(q) + 1)
  BY AppendProperties, LenProperties
<1>2. ToSet(Append(q, c)) = ToSet(q) \cup {c}
  BY <1>0, <1>1 DEF ToSet
<1>3. c \notin ToSet(q) => IsInjective(Append(q, c))
  BY <1>0, <1>1 DEF ToSet, IsInjective
<1>4. \A d : HeldBy(q, d) => HeldBy(Append(q, c), d)
  BY HeadTailAppend DEF HeldBy
<1>5. ASSUME HeldBy(q, c)
      PROVE  /\ Tail(q) \in Seq(S) /\ IsInjective(Tail(q))
             /\ ToSet(Tail(q)) = ToSet(q) \ {c}
  <2>1. q # <<>> /\ q[1] = c /\ Len(q) # 0
    BY <1>5, HeadTailProperties, EmptySeq DEF HeldBy
  <2>2. /\ Tail(q) \in Seq(S) /\ Len(Tail(q)) = Len(q) - 1
        /\ \A i \in 1..(Len(q) - 1) : Tail(q)[i] = q[i + 1]
        /\ DOMAIN Tail(q) = 1..(Len(q) - 1)
    BY <2>1, HeadTailProperties, LenProperties
  <2>3. \A i, j \in 1..Len(q) : q[i] = q[j] => i = j
    BY <1>0 DEF IsInjective
  <2>4. IsInjective(Tail(q))
    BY <1>0, <2>2, <2>3 DEF IsInjective
  <2>5. ToSet(Tail(q)) = ToSet(q) \ {c}
    <3>1. \A i \in 1..(Len(q) - 1) : Tail(q)[i] # c /\ \E j \in 1..Len(q) : Tail(q)[i] = q[j]
      BY <1>0, <2>1, <2>2, <2>3
    <3>2. ASSUME NEW j \in 1..Len(q), q[j] # c
          PROVE  \E i \in 1..(Len(q) - 1) : Tail(q)[i] = q[j]
      <4>1. j - 1 \in 1..(Len(q) - 1) /\ Tail(q)[j - 1] = q[j]
        BY <1>0, <2>1, <2>2, <3>2
      <4> QED BY <4>1
    <3>3. /\ \A x : x \in ToSet(q) <=> \E i \in 1..Len(q) : x = q[i]
          /\ \A x : x \in ToSet(Tail(q)) <=> \E i \in 1..(Len(q) - 1) : x = Tail(q)[i]
      BY <1>0, <2>2 DEF ToSet
    <3>4. \A x \in ToSet(Tail(q)) : x \in ToSet(q) \ {c}
      BY <3>1, <3>3
    <3>5. \A x \in ToSet(q) \ {c} : x \in ToSet(Tail(q))
      BY <3>2, <3>3
    <3> QED BY <3>4, <3>5
  <2> QED BY <2>2, <2>4, <2>5
<1> QED BY <1>1, <1>2, <1>3, <1>4, <1>5

\* A frame is on the wire after a send, or was not delivered.
LEMMA SendEffect ==
    ASSUME TypeOK, NEW f \in Frames, NEW ok \in BOOLEAN, Send(f, ok)
    PROVE  /\ socket' = socket /\ wire' \in Seq(Frames)
           /\ \A g \in Frames : g # f => (Sent(g)' <=> Sent(g))
           /\ Sent(f) => Sent(f)'
           /\ ok => socket = "open" /\ (peer => Sent(f)')
           /\ socket = "closed" => wire' = wire
           /\ wire' # wire => wire' = Append(wire, f) /\ socket = "open" /\ Sent(f)'
<1>0. wire \in Seq(Frames)
  BY DEF TypeOK
<1>1. \/ wire' = wire /\ (ok => ~peer)
      \/ wire' = Append(wire, f) /\ socket = "open"
  BY DEF Send
<1>2. CASE wire' = wire /\ (ok => ~peer)
  BY <1>0, <1>2 DEF Send, Sent
<1>3. CASE wire' = Append(wire, f) /\ socket = "open"
  <2>1. /\ wire' \in Seq(Frames) /\ Len(wire') = Len(wire) + 1 /\ Len(wire) \in Nat
        /\ \A i \in 1..Len(wire) : wire'[i] = wire[i]
        /\ wire'[Len(wire) + 1] = f
    BY <1>0, <1>3, AppendProperties, LenProperties
  <2>2. \A g \in Frames : g # f => (Sent(g)' <=> Sent(g))
    BY <2>1 DEF Sent
  <2>3. Sent(f)'
    BY <2>1 DEF Sent
  <2> QED BY <1>3, <2>1, <2>2, <2>3 DEF Send, TypeOK
<1> QED BY <1>1, <1>2, <1>3

LEMMA GotoEffect ==
    ASSUME TypeOK, NEW a \in Actors, NEW place \in Places, Goto(a, place)
    PROVE  /\ pc' \in [Actors -> Places] /\ pc'[a] = place
           /\ \A b \in Actors : b # a => pc'[b] = pc[b]
BY DEF TypeOK, Goto

LEMMA ContinueEffect ==
    ASSUME TypeOK, NEW place \in {"loop", "close", "gather"}, Continue(place)
    PROVE  /\ pc' \in [Actors -> Places] /\ pc'["main"] = place
           /\ pc'["partial"] = pc["partial"] /\ pc'["silence"] = pc["silence"]
           /\ cancelled' = (place = "gather")
BY GotoEffect DEF Continue, Actors, Places

LEMMA SameWire == UNCHANGED wire => \A f : Sent(f)' <=> Sent(f)
BY DEF Sent

LEMMA NothingSent == wire = <<>> => \A f : ~Sent(f)
BY DEF Sent

\* A task that obtained the lock leaves its queue.
LEMMA UnlockEffect ==
    ASSUME TypeOK, LockInv, NEW a \in Actors, Holds(a), Unlock
    PROVE  /\ lockQ' \in Seq(Actors) /\ IsInjective(lockQ')
           /\ ToSet(lockQ') = ToSet(lockQ) \ {a}
           /\ \A b \in Actors : Finalizes(b) => b = a
<1>1. \A b \in Actors : Finalizes(b) => b = a
  BY DEF LockInv, Holds, HeldBy, Finalizes
<1> QED BY <1>1, AppendTail DEF TypeOK, LockInv, Holds, Unlock

\* A task that waits for the lock enters its queue.
LEMMA EnterEffect ==
    ASSUME TypeOK, LockInv, NEW a \in Actors, ~Queued(a), lockQ' = Append(lockQ, a)
    PROVE  /\ lockQ' \in Seq(Actors) /\ IsInjective(lockQ')
           /\ ToSet(lockQ') = ToSet(lockQ) \cup {a}
           /\ \A b \in Actors : HeldBy(lockQ, b) => HeldBy(lockQ', b)
BY AppendTail DEF TypeOK, LockInv

\* A finalizer that has not been cancelled runs under the processor's lease,
\* and in the places where it finalizes nobody else does.
LEMMA FinalizerAlone ==
    ASSUME IInv, NEW a \in Finalizers, pc[a] \in Finishing \cup {"finalize"},
           a = "silence" => ~cancelled
    PROVE  /\ lease = "held" /\ ~cancelled /\ ~closed
           /\ pc["main"] \notin Starting \cup Ending \cup {"limited", "gather"}
           /\ Holds(a) => \A b \in Actors : Finalizes(b) => b = a
<1>1. lease # "none" /\ ~cancelled
  BY DEF IInv, LeaseInv, Finalizers, Finishing, Starting, Ending
<1>2. lease = "held" /\ ~closed /\ pc["main"] \notin Starting \cup Ending \cup {"limited", "gather"}
  BY <1>1 DEF IInv, TypeOK, LeaseInv
<1>3. Holds(a) => \A b \in Actors : Finalizes(b) => b = a
  BY DEF IInv, LockInv, Holds, HeldBy, Finalizes
<1> QED BY <1>1, <1>2, <1>3

-----------------------------------------------------------------------------
(* The inductive invariant.                                                  *)

LEMMA InitInv == Init => IInv
<1> SUFFICES ASSUME Init PROVE IInv
  OBVIOUS
<1>1. /\ lockQ \in Seq(Actors) /\ ToSet(lockQ) = {} /\ IsInjective(lockQ)
      /\ wire \in Seq(Frames) /\ \A f : ~Sent(f)
  BY EmptySeq DEF Init, ToSet, IsInjective, Sent
<1>2. TypeOK
  <2>1. pc \in [Actors -> Places]
    BY DEF Init, Places
  <2>2. accepted \in 0..MaxAudio /\ covered \in 0..MaxAudio
    BY ConstantsAssumption DEF Init
  <2> QED BY <1>1, <2>1, <2>2 DEF Init, TypeOK
<1>3. PlacesInv
  BY DEF Init, PlacesInv, Starting, Actors
<1>4. LockInv
  BY <1>1 DEF Init, LockInv, Finalizes, Finalizers, Finishing, Actors
<1>5. LeaseInv
  BY DEF Init, LeaseInv, Starting, Ending, Actors
<1>6. StateInv
  BY DEF Init, StateInv, Finalizes, Finalizers, Finishing, Actors
<1>7. WireInv
  BY <1>1 DEF Init, WireInv, Over, Finalizers, Starting, Actors
<1>8. DoneInv
  BY DEF Init, DoneInv, Actors
<1> QED BY <1>2, <1>3, <1>4, <1>5, <1>6, <1>7, <1>8 DEF IInv

LEMMA ConnectStep ==
    ASSUME IInv, Connect
    PROVE  IInv'
<1>1. /\ pc' \in [Actors -> Places]
      /\ pc'["partial"] = pc["partial"] /\ pc'["silence"] = pc["silence"]
      /\ \/ /\ pc'["main"] = "runtime" /\ registered' = TRUE /\ UNCHANGED wire
            /\ \A g \in Frames : Sent(g)' <=> Sent(g)
         \/ /\ pc'["main"] = "limited" /\ registered' = FALSE
            /\ \A g \in Frames : g # "error" => (Sent(g)' <=> Sent(g))
      /\ socket' = socket /\ wire' \in Seq(Frames)
  <2>1. CASE registered' = TRUE /\ Goto("main", "runtime") /\ UNCHANGED netVars
    BY <2>1, GotoEffect, SameWire DEF IInv, Actors, Places, TypeOK, netVars
  <2>2. ASSUME NEW ok \in BOOLEAN, Send("error", ok), registered' = FALSE, Goto("main", "limited")
        PROVE <1>1!:
    BY <2>2, GotoEffect, SendEffect DEF IInv, Actors, Places, Frames
  <2> QED BY <2>1, <2>2 DEF Connect
<1>2. TypeOK'
  <2>1. DataOK'
    BY <1>1 DEF IInv, TypeOK, DataOK, Connect, bufferVars, leaseVars, netVars
  <2>2. FlagsOK'
    BY <1>1 DEF IInv, TypeOK, FlagsOK, Connect, leaseVars, textVars
  <2> QED BY <2>1, <2>2 DEF TypeOK, DataOK, FlagsOK
<1>3. PlacesInv'
  BY <1>1 DEF IInv, PlacesInv, Starting, Finishing, Ending, Connect, bufferVars
<1>4. LockInv'
  BY <1>1 DEF IInv, LockInv, Actors, Finalizes, Queued, Finalizers, Waiting, Finishing,
     Holds, Connect
<1>5. LeaseInv'
  BY <1>1 DEF IInv, LeaseInv, Starting, Ending, TasksGone, Connect, leaseVars
<1>6. StateInv'
  BY <1>1 DEF IInv, StateInv, Finalizes, Finalizers, Finishing, Starting, Connect,
     bufferVars
<1>7. WireInv'
  BY <1>1, NothingSent DEF IInv, WireInv, LeaseInv, Over, Finalizers, Starting, Frames,
     Connect, bufferVars, leaseVars, netVars
<1>8. DoneInv'
  BY <1>1 DEF IInv, DoneInv, Connect, bufferVars, netVars
<1> QED BY <1>2, <1>3, <1>4, <1>5, <1>6, <1>7, <1>8 DEF IInv

LEMMA LimitedStep ==
    ASSUME IInv, Limited
    PROVE  IInv'
<1>1. /\ pc' \in [Actors -> Places] /\ pc'["main"] = "done"
      /\ pc'["partial"] = pc["partial"] /\ pc'["silence"] = pc["silence"]
      /\ \A g : Sent(g)' <=> Sent(g)
  BY GotoEffect, SameWire DEF IInv, Actors, Places, Limited, CloseSocket
<1>2. TypeOK'
  <2>1. DataOK'
    BY <1>1 DEF IInv, TypeOK, DataOK, Limited, CloseSocket, bufferVars, leaseVars,
       controlVars
  <2>2. FlagsOK'
    BY <1>1 DEF IInv, TypeOK, FlagsOK, Limited, CloseSocket, leaseVars, controlVars,
       textVars
  <2> QED BY <2>1, <2>2 DEF TypeOK, DataOK, FlagsOK
<1>3. PlacesInv'
  BY <1>1 DEF IInv, PlacesInv, Starting, Finishing, Ending, Limited, CloseSocket, bufferVars
<1>4. LockInv'
  BY <1>1 DEF IInv, LockInv, Actors, Finalizes, Queued, Finalizers, Waiting, Finishing,
     Holds, Limited, CloseSocket, controlVars
<1>5. LeaseInv'
  BY <1>1 DEF IInv, LeaseInv, Starting, Ending, TasksGone, Limited, CloseSocket, leaseVars,
     controlVars
<1>6. StateInv'
  BY <1>1 DEF IInv, StateInv, Finalizes, Finalizers, Finishing, Starting, Limited,
     CloseSocket, bufferVars, controlVars
<1>7. WireInv'
  BY <1>1 DEF IInv, WireInv, LeaseInv, Over, Finalizers, Starting, Frames, Limited,
     CloseSocket, bufferVars, leaseVars, controlVars
<1>8. DoneInv'
  BY <1>1 DEF IInv, DoneInv, Limited, CloseSocket, bufferVars, controlVars, WireInv
<1> QED BY <1>2, <1>3, <1>4, <1>5, <1>6, <1>7, <1>8 DEF IInv

LEMMA RefuseStep ==
    ASSUME IInv, Refuse, pc["main"] \in {"runtime", "waitStart"}
    PROVE  IInv'
<1>1. /\ pc' \in [Actors -> Places] /\ pc'["main"] \in {"close", "error"}
      /\ raised' \in BOOLEAN
      /\ pc'["partial"] = pc["partial"] /\ pc'["silence"] = pc["silence"]
      /\ socket' = socket /\ wire' \in Seq(Frames)
      /\ \A g \in Frames : g # "error" => (Sent(g)' <=> Sent(g))
  <2>1. PICK ok \in BOOLEAN :
           /\ Send("error", ok) /\ raised' = ~ok
           /\ Goto("main", IF ok THEN "close" ELSE "error")
    BY DEF Refuse
  <2> QED BY <2>1, GotoEffect, SendEffect DEF IInv, Actors, Places, Frames
<1>2. TypeOK'
  <2>1. DataOK'
    BY <1>1 DEF IInv, TypeOK, DataOK, Refuse, bufferVars, leaseVars
  <2>2. FlagsOK'
    BY <1>1 DEF IInv, TypeOK, FlagsOK, Refuse, leaseVars, textVars
  <2> QED BY <2>1, <2>2 DEF TypeOK, DataOK, FlagsOK
<1>3. PlacesInv'
  BY <1>1 DEF IInv, PlacesInv, Starting, Finishing, Ending, Refuse, bufferVars
<1>4. LockInv'
  BY <1>1 DEF IInv, LockInv, Actors, Finalizes, Queued, Finalizers, Waiting, Finishing,
     Holds, Refuse
<1>5. LeaseInv'
  BY <1>1 DEF IInv, LeaseInv, Starting, Ending, TasksGone, Refuse, leaseVars
<1>6. StateInv'
  BY <1>1 DEF IInv, StateInv, Finalizes, Finalizers, Finishing, Starting, Refuse, bufferVars
<1>7. WireInv'
  BY <1>1 DEF IInv, WireInv, LeaseInv, Over, Finalizers, Starting, Frames, Refuse,
     bufferVars, leaseVars
<1>8. DoneInv'
  BY <1>1 DEF IInv, DoneInv, Refuse, bufferVars
<1> QED BY <1>2, <1>3, <1>4, <1>5, <1>6, <1>7, <1>8 DEF IInv

LEMMA CheckRuntimeStep ==
    ASSUME IInv, CheckRuntime
    PROVE  IInv'
<1> SUFFICES ASSUME pc["main"] = "runtime", Goto("main", "waitStart"),
                    UNCHANGED <<state, bufferVars, textVars, controlVars, leaseVars, peer, netVars>>
             PROVE  IInv'
  BY RefuseStep DEF CheckRuntime
<1>1. /\ pc' \in [Actors -> Places] /\ pc'["main"] = "waitStart"
      /\ pc'["partial"] = pc["partial"] /\ pc'["silence"] = pc["silence"]
      /\ \A g : Sent(g)' <=> Sent(g)
  BY GotoEffect, SameWire DEF IInv, Actors, Places, netVars
<1>2. TypeOK'
  <2>1. DataOK'
    BY <1>1 DEF IInv, TypeOK, DataOK, bufferVars, leaseVars, netVars, controlVars
  <2>2. FlagsOK'
    BY <1>1 DEF IInv, TypeOK, FlagsOK, leaseVars, controlVars, textVars
  <2> QED BY <2>1, <2>2 DEF TypeOK, DataOK, FlagsOK
<1>3. PlacesInv'
  BY <1>1 DEF IInv, PlacesInv, Starting, Finishing, Ending, bufferVars
<1>4. LockInv'
  BY <1>1 DEF IInv, LockInv, Actors, Finalizes, Queued, Finalizers, Waiting, Finishing,
     Holds, controlVars
<1>5. LeaseInv'
  BY <1>1 DEF IInv, LeaseInv, Starting, Ending, TasksGone, leaseVars, controlVars
<1>6. StateInv'
  BY <1>1 DEF IInv, StateInv, Finalizes, Finalizers, Finishing, Starting, bufferVars,
     controlVars
<1>7. WireInv'
  BY <1>1 DEF IInv, WireInv, LeaseInv, Over, Finalizers, Starting, Frames, bufferVars,
     leaseVars, netVars, controlVars
<1>8. DoneInv'
  BY <1>1 DEF IInv, DoneInv, bufferVars, netVars, controlVars
<1> QED BY <1>2, <1>3, <1>4, <1>5, <1>6, <1>7, <1>8 DEF IInv

LEMMA WaitForStartStep ==
    ASSUME IInv, WaitForStart
    PROVE  IInv'
<1> SUFFICES ASSUME pc["main"] = "waitStart",
                    \/ state' = "started" /\ Goto("main", "ready")
                    \/ UNCHANGED state /\ Goto("main", "teardown"),
                    UNCHANGED <<bufferVars, textVars, controlVars, leaseVars, peer, netVars>>
             PROVE  IInv'
  BY RefuseStep DEF WaitForStart
<1>1. /\ pc' \in [Actors -> Places]
      /\ \/ pc'["main"] = "ready" /\ state' = "started"
         \/ pc'["main"] = "teardown" /\ UNCHANGED state
      /\ pc'["partial"] = pc["partial"] /\ pc'["silence"] = pc["silence"]
      /\ \A g : Sent(g)' <=> Sent(g)
  BY GotoEffect, SameWire DEF IInv, Actors, Places, netVars
<1>2. TypeOK'
  <2>1. DataOK'
    BY <1>1 DEF IInv, TypeOK, DataOK, bufferVars, leaseVars, netVars, controlVars
  <2>2. FlagsOK'
    BY <1>1 DEF IInv, TypeOK, FlagsOK, leaseVars, controlVars, textVars
  <2> QED BY <2>1, <2>2 DEF TypeOK, DataOK, FlagsOK
<1>3. PlacesInv'
  BY <1>1 DEF IInv, PlacesInv, Starting, Finishing, Ending, bufferVars
<1>4. LockInv'
  BY <1>1 DEF IInv, LockInv, Actors, Finalizes, Queued, Finalizers, Waiting, Finishing,
     Holds, controlVars
<1>5. LeaseInv'
  BY <1>1 DEF IInv, LeaseInv, Starting, Ending, TasksGone, leaseVars, controlVars
<1>6. StateInv'
  BY <1>1 DEF IInv, StateInv, Finalizes, Finalizers, Finishing, Starting, bufferVars,
     controlVars
<1>7. WireInv'
  BY <1>1 DEF IInv, WireInv, LeaseInv, Over, Finalizers, Starting, Frames, bufferVars,
     leaseVars, netVars, controlVars
<1>8. DoneInv'
  BY <1>1 DEF IInv, DoneInv, bufferVars, netVars, controlVars
<1> QED BY <1>2, <1>3, <1>4, <1>5, <1>6, <1>7, <1>8 DEF IInv

LEMMA SendReadyStep ==
    ASSUME IInv, SendReady
    PROVE  IInv'
<1>1. /\ pc' \in [Actors -> Places] /\ raised' \in BOOLEAN
      /\ \/ pc'["main"] = "processor" /\ (peer => Sent("ready")')
         \/ pc'["main"] = "error"
      /\ pc'["partial"] = pc["partial"] /\ pc'["silence"] = pc["silence"]
      /\ socket' = socket /\ wire' \in Seq(Frames)
      /\ \A g \in Frames : g # "ready" => (Sent(g)' <=> Sent(g))
  <2>1. PICK ok \in BOOLEAN :
           /\ Send("ready", ok) /\ raised' = ~ok
           /\ Goto("main", IF ok THEN "processor" ELSE "error")
    BY DEF SendReady
  <2> QED BY <2>1, GotoEffect, SendEffect DEF IInv, Actors, Places, Frames
<1>2. TypeOK'
  <2>1. DataOK'
    BY <1>1 DEF IInv, TypeOK, DataOK, SendReady, bufferVars, leaseVars
  <2>2. FlagsOK'
    BY <1>1 DEF IInv, TypeOK, FlagsOK, SendReady, leaseVars, textVars
  <2> QED BY <2>1, <2>2 DEF TypeOK, DataOK, FlagsOK
<1>3. PlacesInv'
  BY <1>1 DEF IInv, PlacesInv, Starting, Finishing, Ending, SendReady, bufferVars
<1>4. LockInv'
  BY <1>1 DEF IInv, LockInv, Actors, Finalizes, Queued, Finalizers, Waiting, Finishing,
     Holds, SendReady
<1>5. LeaseInv'
  BY <1>1 DEF IInv, LeaseInv, Starting, Ending, TasksGone, SendReady, leaseVars
<1>6. StateInv'
  BY <1>1 DEF IInv, StateInv, Finalizes, Finalizers, Finishing, Starting, SendReady,
     bufferVars
<1>7. WireInv'
  BY <1>1 DEF IInv, WireInv, LeaseInv, Over, Finalizers, Starting, Frames, SendReady,
     bufferVars, leaseVars
<1>8. DoneInv'
  BY <1>1 DEF IInv, DoneInv, SendReady, bufferVars
<1> QED BY <1>2, <1>3, <1>4, <1>5, <1>6, <1>7, <1>8 DEF IInv

LEMMA OpenProcessorStep ==
    ASSUME IInv, OpenProcessor
    PROVE  IInv'
<1>1. /\ pc' \in [Actors -> Places] /\ raised' \in BOOLEAN
      /\ \/ /\ lease' = "held" /\ pc'["main"] = "loop"
            /\ pc'["partial"] = "cycle" /\ pc'["silence"] = "sleep"
         \/ /\ lease' = lease /\ pc'["main"] = "error"
            /\ pc'["partial"] = pc["partial"] /\ pc'["silence"] = pc["silence"]
      /\ \A g : Sent(g)' <=> Sent(g)
  <2>1. CASE pc' = [main |-> "loop", partial |-> "cycle", silence |-> "sleep"] /\ lease' = "held"
             /\ UNCHANGED raised
    <3>1. pc' \in [Actors -> Places]
      BY <2>1 DEF Actors, Places
    <3> QED BY <2>1, <3>1, SameWire DEF IInv, TypeOK, OpenProcessor, netVars
  <2>2. CASE raised' = TRUE /\ Goto("main", "error") /\ UNCHANGED lease
    BY <2>2, GotoEffect, SameWire DEF IInv, Actors, Places, OpenProcessor, netVars
  <2> QED BY <2>1, <2>2 DEF OpenProcessor
<1>2. TypeOK'
  <2>1. DataOK'
    BY <1>1 DEF IInv, TypeOK, DataOK, OpenProcessor, bufferVars, netVars
  <2>2. FlagsOK'
    BY <1>1 DEF IInv, TypeOK, FlagsOK, OpenProcessor, textVars
  <2> QED BY <2>1, <2>2 DEF TypeOK, DataOK, FlagsOK
<1>3. PlacesInv'
  BY <1>1 DEF IInv, PlacesInv, Starting, Finishing, Ending, OpenProcessor, bufferVars
<1>4. LockInv'
  BY <1>1 DEF IInv, LockInv, Actors, Finalizes, Queued, Finalizers, Waiting, Finishing,
     Holds, OpenProcessor, LeaseInv, Starting
<1>5. LeaseInv'
  BY <1>1 DEF IInv, LeaseInv, Starting, Ending, TasksGone, OpenProcessor
<1>6. StateInv'
  BY <1>1 DEF IInv, StateInv, Finalizes, Finalizers, Finishing, Starting, OpenProcessor,
     bufferVars
<1>7. WireInv'
  BY <1>1 DEF IInv, WireInv, LeaseInv, Over, Finalizers, Starting, Frames, OpenProcessor,
     bufferVars, netVars
<1>8. DoneInv'
  BY <1>1 DEF IInv, DoneInv, OpenProcessor, bufferVars, netVars
<1> QED BY <1>2, <1>3, <1>4, <1>5, <1>6, <1>7, <1>8 DEF IInv

LEMMA ReceiveStep ==
    ASSUME IInv, NEW m \in Messages, Receive(m)
    PROVE  IInv'
<1>1. /\ pc' \in [Actors -> Places] /\ raised' \in BOOLEAN
      /\ cancelled' = (pc'["main"] = "gather")
      /\ pc'["partial"] = pc["partial"] /\ pc'["silence"] = pc["silence"]
      /\ \A g : Sent(g)' <=> Sent(g)
      /\ \/ /\ pc'["main"] \in {"audio", "badAudio", "badJson", "finalize"}
            /\ lockQ' = Append(lockQ, "main")
            /\ pc'["main"] = "audio" => accepted < MaxAudio
         \/ pc'["main"] \in {"loop", "gather"} /\ lockQ' = lockQ
  <2>1. PICK place \in {"audio", "badAudio", "badJson", "finalize", "loop", "gather"} :
           /\ Continue(place) /\ raised' \in BOOLEAN
           /\ \/ /\ place \notin {"loop", "gather"} /\ lockQ' = Append(lockQ, "main")
                 /\ place = "audio" => accepted < MaxAudio
              \/ place \in {"loop", "gather"} /\ lockQ' = lockQ
    BY DEF Receive, Onward, IInv, TypeOK
  <2>2. place \in Places /\ "main" \in Actors
    BY DEF Places, Actors
  <2> QED BY <2>1, <2>2, GotoEffect, SameWire DEF IInv, Receive, Continue, Actors, netVars
<1>2. /\ lockQ' \in Seq(Actors) /\ IsInjective(lockQ')
      /\ ToSet(lockQ') = IF pc'["main"] \in {"loop", "gather"} THEN ToSet(lockQ)
                        ELSE ToSet(lockQ) \cup {"main"}
      /\ \A b \in Actors : HeldBy(lockQ, b) => HeldBy(lockQ', b)
  <2>1. "main" \in Actors /\ ~Queued("main")
    BY DEF Actors, Receive, Queued, Finalizes, Waiting, Finishing
  <2>2. CASE lockQ' = Append(lockQ, "main") /\ pc'["main"] \notin {"loop", "gather"}
    BY <2>1, <2>2, EnterEffect DEF IInv
  <2>3. CASE lockQ' = lockQ /\ pc'["main"] \in {"loop", "gather"}
    BY <2>3 DEF IInv, TypeOK, LockInv
  <2> QED BY <1>1, <2>2, <2>3
<1>3. TypeOK'
  <2>1. DataOK'
    BY <1>1, <1>2 DEF IInv, TypeOK, DataOK, Receive, Continue, bufferVars, leaseVars,
       netVars
  <2>2. FlagsOK'
    BY <1>1, <1>2 DEF IInv, TypeOK, FlagsOK, Receive, Continue, leaseVars, textVars
  <2> QED BY <2>1, <2>2 DEF TypeOK, DataOK, FlagsOK
<1>4. PlacesInv'
  BY <1>1, <1>2 DEF IInv, PlacesInv, Starting, Finishing, Ending, Receive, Continue,
     bufferVars
<1>5. LockInv'
  BY <1>1, <1>2 DEF IInv, LockInv, Actors, Finalizes, Queued, Finalizers, Waiting,
     Finishing, Holds, Receive, Continue
<1>6. LeaseInv'
  BY <1>1, <1>2 DEF IInv, LeaseInv, Starting, Ending, TasksGone, Receive, Continue,
     leaseVars
<1>7. StateInv'
  BY <1>1, <1>2 DEF IInv, StateInv, Finalizes, Finalizers, Finishing, Starting, Receive,
     Continue, bufferVars, LeaseInv, Ending
<1>8. WireInv'
  BY <1>1, <1>2 DEF IInv, WireInv, LeaseInv, Over, Finalizers, Starting, Frames, Receive,
     Continue, bufferVars, leaseVars, netVars
<1>9. DoneInv'
  BY <1>1, <1>2 DEF IInv, DoneInv, Receive, Continue, bufferVars, netVars
<1> QED BY <1>3, <1>4, <1>5, <1>6, <1>7, <1>8, <1>9 DEF IInv

LEMMA ReceiveDisconnectStep ==
    ASSUME IInv, ReceiveDisconnect
    PROVE  IInv'
<1>1. /\ pc' \in [Actors -> Places] /\ pc'["main"] = "gather" /\ cancelled' = TRUE
      /\ pc'["partial"] = pc["partial"] /\ pc'["silence"] = pc["silence"]
      /\ \A g : Sent(g)' <=> Sent(g)
  BY GotoEffect, SameWire DEF IInv, ReceiveDisconnect, Continue, Actors, Places, netVars
<1>2. TypeOK'
  <2>1. DataOK'
    BY <1>1 DEF IInv, TypeOK, DataOK, ReceiveDisconnect, Continue, bufferVars, leaseVars,
       netVars
  <2>2. FlagsOK'
    BY <1>1 DEF IInv, TypeOK, FlagsOK, ReceiveDisconnect, Continue, leaseVars, textVars
  <2> QED BY <2>1, <2>2 DEF TypeOK, DataOK, FlagsOK
<1>3. PlacesInv'
  BY <1>1 DEF IInv, PlacesInv, Starting, Finishing, Ending, ReceiveDisconnect, Continue,
     bufferVars
<1>4. LockInv'
  BY <1>1 DEF IInv, LockInv, Actors, Finalizes, Queued, Finalizers, Waiting, Finishing,
     Holds, ReceiveDisconnect, Continue
<1>5. LeaseInv'
  BY <1>1 DEF IInv, LeaseInv, Starting, Ending, TasksGone, ReceiveDisconnect, Continue,
     leaseVars
<1>6. StateInv'
  BY <1>1 DEF IInv, StateInv, Finalizes, Finalizers, Finishing, Starting, ReceiveDisconnect,
     Continue, bufferVars, LeaseInv, Ending
<1>7. WireInv'
  BY <1>1 DEF IInv, WireInv, LeaseInv, Over, Finalizers, Starting, Frames,
     ReceiveDisconnect, Continue, bufferVars, leaseVars, netVars
<1>8. DoneInv'
  BY <1>1 DEF IInv, DoneInv, ReceiveDisconnect, Continue, bufferVars, netVars
<1> QED BY <1>2, <1>3, <1>4, <1>5, <1>6, <1>7, <1>8 DEF IInv

LEMMA HandleAudioStep ==
    ASSUME IInv, HandleAudio
    PROVE  IInv'
<1>1. /\ lockQ' \in Seq(Actors) /\ IsInjective(lockQ')
      /\ ToSet(lockQ') = ToSet(lockQ) \ {"main"}
      /\ \A b \in Actors : ~Finalizes(b)
  BY UnlockEffect DEF IInv, HandleAudio, Actors, Finalizes, Finishing
<1>2. /\ pc' \in [Actors -> Places] /\ raised' \in BOOLEAN
      /\ pc'["main"] \in {"loop", "gather"} /\ cancelled' = (pc'["main"] = "gather")
      /\ pc'["partial"] = pc["partial"] /\ pc'["silence"] = pc["silence"]
      /\ socket' = socket /\ wire' \in Seq(Frames)
      /\ \A g \in Frames : g # "status" => (Sent(g)' <=> Sent(g))
      /\ accepted' \in 0..MaxAudio /\ accepted' >= accepted
      /\ accepted' # accepted => Accepting
      /\ state' # state => Accepting /\ state' = "streaming"
      /\ buffer' # buffer => buffer' = "closed" /\ pc'["main"] = "gather"
  <2>1. CASE ~Accepting
    <3>1. Continue(Onward(state)) /\ UNCHANGED <<state, bufferVars, raised, netVars>>
      BY <2>1 DEF HandleAudio, AdmitsAudio
    <3>2. PICK place \in {"loop", "gather"} : Continue(place)
      BY <3>1 DEF Onward
    <3> QED BY <2>1, <3>1, <3>2, ContinueEffect, SameWire
            DEF IInv, TypeOK, bufferVars, netVars
  <2>2. CASE /\ Accepting /\ accepted' = accepted + 1 /\ Continue("loop")
             /\ state' = IF state = "started" THEN "streaming" ELSE state
             /\ UNCHANGED <<buffer, raised, netVars>>
    <3>1. accepted + 1 \in 0..MaxAudio /\ accepted \in 0..MaxAudio
      BY ConstantsAssumption DEF IInv, TypeOK, PlacesInv, HandleAudio
    <3> QED BY <2>2, <3>1, ContinueEffect, SameWire DEF IInv, TypeOK, netVars
  <2>3. CASE /\ Accepting /\ buffer' = "closed" /\ raised' = TRUE /\ Continue("gather")
             /\ UNCHANGED <<state, accepted, netVars>>
    BY <2>3, ContinueEffect, SameWire DEF IInv, TypeOK, netVars
  <2>4. ASSUME Accepting, NEW ok \in BOOLEAN, accepted' = accepted + 1, Send("status", ok),
               raised' = ~ok, state' = IF ok /\ state = "started" THEN "streaming" ELSE state,
               Continue(IF ok THEN "loop" ELSE "gather"), UNCHANGED buffer
        PROVE  <1>2!:
    <3>1. accepted + 1 \in 0..MaxAudio /\ accepted \in 0..MaxAudio
      BY ConstantsAssumption DEF IInv, TypeOK, PlacesInv, HandleAudio
    <3> QED BY <2>4, <3>1, GotoEffect, SendEffect DEF IInv, Continue, Actors, Places, Frames
  <2> QED BY <2>1, <2>2, <2>3, <2>4 DEF HandleAudio, AdmitsAudio
<1>3. TypeOK'
  <2>1. DataOK'
    BY <1>1, <1>2 DEF IInv, TypeOK, DataOK, HandleAudio, AdmitsAudio, Accepting, Onward,
       leaseVars, netVars
  <2>2. FlagsOK'
    BY <1>1, <1>2 DEF IInv, TypeOK, FlagsOK, HandleAudio, AdmitsAudio, Accepting, Onward,
       leaseVars, textVars
  <2> QED BY <2>1, <2>2 DEF TypeOK, DataOK, FlagsOK
<1>4. PlacesInv'
  BY <1>1, <1>2 DEF IInv, PlacesInv, Starting, Finishing, Ending, HandleAudio, AdmitsAudio,
     Accepting, Onward
<1>5. LockInv'
  BY <1>1, <1>2 DEF IInv, LockInv, Actors, Finalizes, Queued, Finalizers, Waiting,
     Finishing, Holds, HandleAudio, AdmitsAudio, Accepting, Onward
<1>6. LeaseInv'
  BY <1>1, <1>2 DEF IInv, LeaseInv, Starting, Ending, TasksGone, HandleAudio, AdmitsAudio,
     Accepting, Onward, leaseVars
<1>7. StateInv'
  BY <1>1, <1>2 DEF IInv, StateInv, Finalizes, Finalizers, Finishing, Starting, HandleAudio,
     AdmitsAudio, Accepting, Onward, LeaseInv, Ending
<1>8. WireInv'
  BY <1>1, <1>2 DEF IInv, WireInv, LeaseInv, Over, Finalizers, Starting, Frames,
     HandleAudio, AdmitsAudio, Accepting, Onward, leaseVars, netVars
<1>9. DoneInv'
  BY <1>1, <1>2 DEF IInv, DoneInv, HandleAudio, AdmitsAudio, Accepting, Onward, netVars
<1> QED BY <1>3, <1>4, <1>5, <1>6, <1>7, <1>8, <1>9 DEF IInv

LEMMA HandleMalformedStep ==
    ASSUME IInv, HandleMalformed
    PROVE  IInv'
<1>1. /\ lockQ' \in Seq(Actors) /\ IsInjective(lockQ')
      /\ ToSet(lockQ') = ToSet(lockQ) \ {"main"}
      /\ \A b \in Actors : ~Finalizes(b)
  BY UnlockEffect DEF IInv, HandleMalformed, Actors, Finalizes, Finishing
<1>2. /\ pc' \in [Actors -> Places] /\ raised' \in BOOLEAN
      /\ pc'["main"] \in {"loop", "gather", "close"} /\ cancelled' = (pc'["main"] = "gather")
      /\ pc'["partial"] = pc["partial"] /\ pc'["silence"] = pc["silence"]
      /\ socket' = socket /\ wire' \in Seq(Frames)
      /\ \A g \in Frames : g # "error" => (Sent(g)' <=> Sent(g))
      /\ \/ state' = "closed" /\ buffer' = "closed"
         \/ UNCHANGED <<state, buffer>> /\ (Sent("error")' <=> Sent("error"))
  <2>1. CASE Rejects
    <3>1. PICK ok \in BOOLEAN :
              /\ Send("error", ok) /\ raised' = ~ok
              /\ Continue(IF ok THEN "close" ELSE "gather")
      BY <2>1 DEF HandleMalformed
    <3>2. state' = "closed" /\ buffer' = "closed"
      BY <2>1 DEF HandleMalformed
    <3> QED BY <3>1, <3>2, GotoEffect, SendEffect DEF IInv, Continue, Actors, Places, Frames
  <2>2. CASE ~Rejects
    <3>1. PICK place \in {"loop", "gather", "close"} : Continue(place)
      BY <2>2 DEF HandleMalformed, Onward
    <3> QED BY <2>2, <3>1, ContinueEffect, SameWire
            DEF HandleMalformed, IInv, TypeOK, netVars
  <2> QED BY <2>1, <2>2
<1>3. TypeOK'
  <2>1. DataOK'
    BY <1>1, <1>2 DEF IInv, TypeOK, DataOK, HandleMalformed, Rejects, Active, Accepting,
       Onward, leaseVars
  <2>2. FlagsOK'
    BY <1>1, <1>2 DEF IInv, TypeOK, FlagsOK, HandleMalformed, Rejects, Active, Accepting,
       Onward, leaseVars, textVars
  <2> QED BY <2>1, <2>2 DEF TypeOK, DataOK, FlagsOK
<1>4. PlacesInv'
  BY <1>1, <1>2 DEF IInv, PlacesInv, Starting, Finishing, Ending, HandleMalformed, Rejects,
     Active, Accepting, Onward
<1>5. LockInv'
  BY <1>1, <1>2 DEF IInv, LockInv, Actors, Finalizes, Queued, Finalizers, Waiting,
     Finishing, Holds, HandleMalformed, Rejects, Active, Accepting, Onward
<1>6. LeaseInv'
  BY <1>1, <1>2 DEF IInv, LeaseInv, Starting, Ending, TasksGone, HandleMalformed, Rejects,
     Active, Accepting, Onward, leaseVars
<1>7. StateInv'
  BY <1>1, <1>2 DEF IInv, StateInv, Finalizes, Finalizers, Finishing, Starting,
     HandleMalformed, Rejects, Active, Accepting, Onward, LeaseInv, Ending, Actors
<1>8. WireInv'
  BY <1>1, <1>2 DEF IInv, WireInv, LeaseInv, Over, Finalizers, Starting, Frames,
     HandleMalformed, Rejects, Active, Accepting, Onward, leaseVars, Finalizes, Finishing,
     Actors
<1>9. DoneInv'
  BY <1>1, <1>2 DEF IInv, DoneInv, HandleMalformed, Rejects, Active, Accepting, Onward
<1> QED BY <1>3, <1>4, <1>5, <1>6, <1>7, <1>8, <1>9 DEF IInv

LEMMA FinalizeBeginStep ==
    ASSUME IInv, NEW a \in Finalizers, a = "silence" => ~cancelled, FinalizeBegin(a)
    PROVE  IInv'
<1>1. /\ lease = "held" /\ ~cancelled /\ ~closed
      /\ pc["main"] \notin Starting \cup Ending \cup {"limited", "gather"}
      /\ \A b \in Actors : ~Finalizes(b)
      /\ a \in Actors /\ \A g : Sent(g)' <=> Sent(g)
  BY FinalizerAlone, SameWire DEF FinalizeBegin, Finalizes, Finishing, Finalizers, Actors, netVars
<1>2. /\ pc' \in [Actors -> Places]
      /\ \A b \in {"main", "partial", "silence"} : b # a => pc'[b] = pc[b]
      /\ lockQ' \in Seq(Actors) /\ IsInjective(lockQ')
      /\ \/ /\ state = "closed" /\ pc'[a] = "close" /\ UNCHANGED <<state, covered, jobs>>
            /\ ToSet(lockQ') = ToSet(lockQ) \ {a}
         \/ /\ state # "closed" /\ state' = "finalizing" /\ pc'[a] = "transcribe"
            /\ covered' = accepted /\ jobs' \subseteq Actors /\ lockQ' = lockQ
  <2>1. CASE AlreadyClosed
    <3>1. Unlock /\ Goto(a, "close") /\ UNCHANGED <<state, covered, jobs>> /\ Holds(a)
      BY <2>1 DEF FinalizeBegin
    <3> QED BY <1>1, <2>1, <3>1, UnlockEffect, GotoEffect DEF IInv, Actors, Places, AlreadyClosed
  <2>2. CASE ~AlreadyClosed
    <3>1. buffer = "open" /\ covered' = Readable
      BY <1>1, <2>2 DEF IInv, TypeOK, StateInv, Finalizers, Actors, FinalizeBegin, AlreadyClosed
    <3>2. /\ Goto(a, "transcribe") /\ state' = "finalizing" /\ lockQ' = lockQ
          /\ jobs' \subseteq Actors
      BY <1>1, <2>2 DEF IInv, TypeOK, FinalizeBegin
    <3> QED BY <1>1, <2>2, <3>1, <3>2, GotoEffect
            DEF IInv, TypeOK, LockInv, Actors, Places, AlreadyClosed, Readable
  <2> QED BY <2>1, <2>2
<1>3. TypeOK'
  <2>1. DataOK'
    BY <1>1, <1>2 DEF IInv, TypeOK, DataOK, FinalizeBegin, AlreadyClosed, bufferVars,
       leaseVars, netVars
  <2>2. FlagsOK'
    BY <1>1, <1>2 DEF IInv, TypeOK, FlagsOK, FinalizeBegin, AlreadyClosed, leaseVars,
       textVars
  <2> QED BY <2>1, <2>2 DEF TypeOK, DataOK, FlagsOK
<1>4. PlacesInv'
  BY <1>1, <1>2 DEF IInv, PlacesInv, Starting, Finishing, Ending, FinalizeBegin,
     AlreadyClosed, bufferVars, Finalizers
<1>5. LockInv'
  BY <1>1, <1>2 DEF IInv, LockInv, Actors, Finalizes, Queued, Finalizers, Waiting,
     Finishing, Holds, FinalizeBegin, AlreadyClosed
<1>6. LeaseInv'
  BY <1>1, <1>2 DEF IInv, LeaseInv, Starting, Ending, TasksGone, FinalizeBegin,
     AlreadyClosed, leaseVars, Finalizers
<1>7. StateInv'
  BY <1>1, <1>2 DEF IInv, StateInv, Finalizes, Finalizers, Finishing, Starting,
     FinalizeBegin, AlreadyClosed, bufferVars, Actors
<1>8. WireInv'
  BY <1>1, <1>2 DEF IInv, WireInv, LeaseInv, Over, Finalizers, Starting, Frames,
     FinalizeBegin, AlreadyClosed, bufferVars, leaseVars, netVars, Finalizes, Finishing,
     Actors, StateInv
<1>9. DoneInv'
  BY <1>1, <1>2 DEF IInv, DoneInv, FinalizeBegin, AlreadyClosed, bufferVars, netVars,
     Ending, Finalizers
<1> QED BY <1>3, <1>4, <1>5, <1>6, <1>7, <1>8, <1>9 DEF IInv

LEMMA FinalizeChunkStep ==
    ASSUME IInv, NEW a \in Finalizers, a = "silence" => ~cancelled, FinalizeChunk(a)
    PROVE  IInv'
<1>1. /\ lease = "held" /\ ~cancelled /\ ~closed
      /\ pc["main"] \notin Starting \cup Ending \cup {"limited", "gather"}
      /\ Finalizes(a) /\ \A b \in Actors : Finalizes(b) => b = a
      /\ a \in Actors
  <2>1. Finalizes(a) /\ a \in Actors
    BY DEF FinalizeChunk, FinalizeTranscribed, Finalizes, Finishing, Finalizers, Actors
  <2> QED BY <2>1, FinalizerAlone DEF IInv, LockInv, Finalizes
<1>2. /\ pc' \in [Actors -> Places]
      /\ \A b \in {"main", "partial", "silence"} : b # a => pc'[b] = pc[b]
      /\ socket' = socket /\ wire' \in Seq(Frames)
      /\ \A g \in Frames : g # "status" => (Sent(g)' <=> Sent(g))
      /\ jobs' \subseteq Actors
      /\ \/ pc'[a] = "transcribe" /\ UNCHANGED buffer
         \/ pc'[a] \in {"sendRecovered", "sendError"} /\ buffer' = "closed"
  <2>1. PICK ok \in BOOLEAN :
           /\ Send("status", ok)
           /\ IF ok
              THEN jobs' = jobs \cup {a} /\ UNCHANGED <<pc, buffer>>
              ELSE /\ Goto(a, IF lastText THEN "sendRecovered" ELSE "sendError")
                   /\ buffer' = "closed" /\ UNCHANGED jobs
    BY DEF FinalizeChunk
  <2>2. CASE ok
    BY <1>1, <2>1, <2>2, SendEffect
       DEF IInv, TypeOK, FinalizeChunk, FinalizeTranscribed, Frames, Finalizers
  <2>3. CASE ~ok
    BY <1>1, <2>1, <2>3, SendEffect, GotoEffect, ZenonT(60) DEF IInv, TypeOK, Actors, Frames, Places
  <2> QED BY <2>2, <2>3
<1>3. TypeOK'
  <2>1. DataOK'
    BY <1>1, <1>2 DEF IInv, TypeOK, DataOK, FinalizeChunk, FinalizeTranscribed, bufferVars,
       leaseVars, controlVars
  <2>2. FlagsOK'
    BY <1>1, <1>2 DEF IInv, TypeOK, FlagsOK, FinalizeChunk, FinalizeTranscribed, leaseVars,
       controlVars, textVars
  <2> QED BY <2>1, <2>2 DEF TypeOK, DataOK, FlagsOK
<1>4. PlacesInv'
  BY <1>1, <1>2 DEF IInv, PlacesInv, Starting, Finishing, Ending, FinalizeChunk,
     FinalizeTranscribed, bufferVars, Finalizers
<1>5. LockInv'
  BY <1>1, <1>2 DEF IInv, LockInv, Actors, Finalizes, Queued, Finalizers, Waiting,
     Finishing, Holds, FinalizeChunk, FinalizeTranscribed, controlVars
<1>6. LeaseInv'
  BY <1>1, <1>2 DEF IInv, LeaseInv, Starting, Ending, TasksGone, FinalizeChunk,
     FinalizeTranscribed, leaseVars, controlVars, Finalizers
<1>7. StateInv'
  BY <1>1, <1>2 DEF IInv, StateInv, Finalizes, Finalizers, Finishing, Starting,
     FinalizeChunk, FinalizeTranscribed, bufferVars, controlVars, Actors
<1>8. WireInv'
  BY <1>1, <1>2 DEF IInv, WireInv, LeaseInv, Over, Finalizers, Starting, Frames,
     FinalizeChunk, FinalizeTranscribed, bufferVars, leaseVars, controlVars, Finalizes,
     Finishing, Actors, StateInv
<1>9. DoneInv'
  BY <1>1, <1>2 DEF IInv, DoneInv, FinalizeChunk, FinalizeTranscribed, bufferVars,
     controlVars, Ending, Finalizers
<1> QED BY <1>3, <1>4, <1>5, <1>6, <1>7, <1>8, <1>9 DEF IInv

LEMMA FinalizeResultStep ==
    ASSUME IInv, NEW a \in Finalizers, a = "silence" => ~cancelled, FinalizeResult(a)
    PROVE  IInv'
<1>1. /\ lease = "held" /\ ~cancelled /\ ~closed
      /\ pc["main"] \notin Starting \cup Ending \cup {"limited", "gather"}
      /\ Finalizes(a) /\ \A b \in Actors : Finalizes(b) => b = a
      /\ a \in Actors
  <2>1. Finalizes(a) /\ a \in Actors
    BY DEF FinalizeResult, FinalizeTranscribed, Finalizes, Finishing, Finalizers, Actors
  <2> QED BY <2>1, FinalizerAlone DEF IInv, LockInv, Finalizes
<1>2. /\ pc' \in [Actors -> Places] /\ pc'[a] \in {"sendFinal", "sendRecovered", "sendError"}
      /\ \A b \in {"main", "partial", "silence"} : b # a => pc'[b] = pc[b]
      /\ \A g : Sent(g)' <=> Sent(g)
  BY <1>1, GotoEffect, SameWire DEF IInv, FinalizeResult, Failures, Actors, Places, netVars
<1>3. TypeOK'
  <2>1. DataOK'
    BY <1>1, <1>2 DEF IInv, TypeOK, DataOK, FinalizeResult, FinalizeTranscribed, bufferVars,
       leaseVars, controlVars, netVars
  <2>2. FlagsOK'
    BY <1>1, <1>2 DEF IInv, TypeOK, FlagsOK, FinalizeResult, FinalizeTranscribed, leaseVars,
       controlVars, textVars
  <2> QED BY <2>1, <2>2 DEF TypeOK, DataOK, FlagsOK
<1>4. PlacesInv'
  BY <1>1, <1>2 DEF IInv, PlacesInv, Starting, Finishing, Ending, FinalizeResult,
     FinalizeTranscribed, bufferVars, Finalizers
<1>5. LockInv'
  BY <1>1, <1>2 DEF IInv, LockInv, Actors, Finalizes, Queued, Finalizers, Waiting,
     Finishing, Holds, FinalizeResult, FinalizeTranscribed, controlVars
<1>6. LeaseInv'
  BY <1>1, <1>2 DEF IInv, LeaseInv, Starting, Ending, TasksGone, FinalizeResult,
     FinalizeTranscribed, leaseVars, controlVars, Finalizers
<1>7. StateInv'
  BY <1>1, <1>2 DEF IInv, StateInv, Finalizes, Finalizers, Finishing, Starting,
     FinalizeResult, FinalizeTranscribed, bufferVars, controlVars, Actors
<1>8. WireInv'
  BY <1>1, <1>2 DEF IInv, WireInv, LeaseInv, Over, Finalizers, Starting, Frames,
     FinalizeResult, FinalizeTranscribed, bufferVars, leaseVars, controlVars, netVars,
     Finalizes, Finishing, Actors, StateInv
<1>9. DoneInv'
  BY <1>1, <1>2 DEF IInv, DoneInv, FinalizeResult, FinalizeTranscribed, bufferVars,
     controlVars, netVars, Ending, Finalizers
<1> QED BY <1>3, <1>4, <1>5, <1>6, <1>7, <1>8, <1>9 DEF IInv

LEMMA FinalizeSendStep ==
    ASSUME IInv, NEW a \in Finalizers, a = "silence" => ~cancelled, FinalizeSend(a)
    PROVE  IInv'
<1>1. /\ lease = "held" /\ ~cancelled /\ ~closed
      /\ pc["main"] \notin Starting \cup Ending \cup {"limited", "gather"}
      /\ Finalizes(a) /\ \A b \in Actors : Finalizes(b) => b = a
      /\ a \in Actors
  <2>1. Finalizes(a) /\ a \in Actors
    BY DEF FinalizeSend, Finalizes, Finishing, Finalizers, Actors
  <2> QED BY <2>1, FinalizerAlone DEF IInv, LockInv, Finalizes
<1>2. /\ pc' \in [Actors -> Places]
      /\ \A b \in {"main", "partial", "silence"} : b # a => pc'[b] = pc[b]
      /\ socket' = socket /\ wire' \in Seq(Frames)
      /\ \/ /\ pc[a] = "sendRecovered" /\ pc'[a] = "sendError"
            /\ \A g \in Frames : g # "partial" => (Sent(g)' <=> Sent(g))
         \/ /\ pc[a] = "sendError" /\ pc'[a] = "sendClosing"
            /\ \A g \in Frames : g # "error" => (Sent(g)' <=> Sent(g))
         \/ /\ pc[a] = "sendFinal" /\ pc'[a] = "sendClosing"
            /\ \A g \in Frames : g # "final" => (Sent(g)' <=> Sent(g))
  BY <1>1, GotoEffect, SendEffect DEF IInv, FinalizeSend, Actors, Frames, Places
<1>3. TypeOK'
  <2>1. DataOK'
    BY <1>1, <1>2 DEF IInv, TypeOK, DataOK, FinalizeSend, bufferVars, leaseVars, controlVars
  <2>2. FlagsOK'
    BY <1>1, <1>2 DEF IInv, TypeOK, FlagsOK, FinalizeSend, leaseVars, controlVars, textVars
  <2> QED BY <2>1, <2>2 DEF TypeOK, DataOK, FlagsOK
<1>4. PlacesInv'
  BY <1>1, <1>2 DEF IInv, PlacesInv, Starting, Finishing, Ending, FinalizeSend, bufferVars,
     Finalizers
<1>5. LockInv'
  BY <1>1, <1>2 DEF IInv, LockInv, Actors, Finalizes, Queued, Finalizers, Waiting,
     Finishing, Holds, FinalizeSend, controlVars
<1>6. LeaseInv'
  BY <1>1, <1>2 DEF IInv, LeaseInv, Starting, Ending, TasksGone, FinalizeSend, leaseVars,
     controlVars, Finalizers
<1>7. StateInv'
  BY <1>1, <1>2 DEF IInv, StateInv, Finalizes, Finalizers, Finishing, Starting,
     FinalizeSend, bufferVars, controlVars, Actors
<1>8. WireInv'
  BY <1>1, <1>2 DEF IInv, WireInv, LeaseInv, Over, Finalizers, Starting, Frames,
     FinalizeSend, bufferVars, leaseVars, controlVars, Finalizes, Finishing, Actors,
     StateInv
<1>9. DoneInv'
  BY <1>1, <1>2 DEF IInv, DoneInv, FinalizeSend, bufferVars, controlVars, Ending, Finalizers
<1> QED BY <1>3, <1>4, <1>5, <1>6, <1>7, <1>8, <1>9 DEF IInv

LEMMA FinalizeEndStep ==
    ASSUME IInv, NEW a \in Finalizers, a = "silence" => ~cancelled, FinalizeEnd(a)
    PROVE  IInv'
<1>1. /\ lease = "held" /\ ~cancelled /\ ~closed
      /\ pc["main"] \notin Starting \cup Ending \cup {"limited", "gather"}
      /\ Finalizes(a) /\ Holds(a) /\ \A b \in Actors : Finalizes(b) => b = a
      /\ a \in Actors
  <2>1. Finalizes(a) /\ a \in Actors
    BY DEF FinalizeEnd, Finalizes, Finishing, Finalizers, Actors
  <2> QED BY <2>1, FinalizerAlone DEF IInv, LockInv, Finalizes
<1>2. /\ pc' \in [Actors -> Places] /\ pc'[a] = "close"
      /\ \A b \in {"main", "partial", "silence"} : b # a => pc'[b] = pc[b]
      /\ socket' = socket /\ wire' \in Seq(Frames)
      /\ \A g \in Frames : g # "closing" => (Sent(g)' <=> Sent(g))
      /\ lockQ' \in Seq(Actors) /\ IsInjective(lockQ') /\ ToSet(lockQ') = ToSet(lockQ) \ {a}
  BY <1>1, GotoEffect, SendEffect, UnlockEffect DEF IInv, FinalizeEnd, Actors, Frames, Places
<1>3. TypeOK'
  <2>1. DataOK'
    BY <1>1, <1>2 DEF IInv, TypeOK, DataOK, FinalizeEnd, bufferVars, leaseVars
  <2>2. FlagsOK'
    BY <1>1, <1>2 DEF IInv, TypeOK, FlagsOK, FinalizeEnd, leaseVars, textVars
  <2> QED BY <2>1, <2>2 DEF TypeOK, DataOK, FlagsOK
<1>4. PlacesInv'
  BY <1>1, <1>2 DEF IInv, PlacesInv, Starting, Finishing, Ending, FinalizeEnd, bufferVars,
     Finalizers
<1>5. LockInv'
  BY <1>1, <1>2 DEF IInv, LockInv, Actors, Finalizes, Queued, Finalizers, Waiting,
     Finishing, Holds, FinalizeEnd
<1>6. LeaseInv'
  BY <1>1, <1>2 DEF IInv, LeaseInv, Starting, Ending, TasksGone, FinalizeEnd, leaseVars,
     Finalizers
<1>7. StateInv'
  BY <1>1, <1>2 DEF IInv, StateInv, Finalizes, Finalizers, Finishing, Starting, FinalizeEnd,
     bufferVars, Actors
<1>8. WireInv'
  BY <1>1, <1>2 DEF IInv, WireInv, LeaseInv, Over, Finalizers, Starting, Frames,
     FinalizeEnd, bufferVars, leaseVars, Finalizes, Finishing, Actors, StateInv
<1>9. DoneInv'
  BY <1>1, <1>2 DEF IInv, DoneInv, FinalizeEnd, bufferVars, Ending, Finalizers
<1> QED BY <1>3, <1>4, <1>5, <1>6, <1>7, <1>8, <1>9 DEF IInv

LEMMA MainCloseStep ==
    ASSUME IInv, MainClose
    PROVE  IInv'
<1>1. /\ pc' \in [Actors -> Places] /\ pc'["main"] = IF lease = "none" THEN "teardown" ELSE "gather"
      /\ cancelled' = (lease # "none")
      /\ pc'["partial"] = pc["partial"] /\ pc'["silence"] = pc["silence"]
      /\ \A g : Sent(g)' <=> Sent(g)
  BY GotoEffect, SameWire DEF IInv, MainClose, Continue, CloseSocket, Actors, Places
<1>2. TypeOK'
  <2>1. DataOK'
    BY <1>1 DEF IInv, TypeOK, DataOK, MainClose, Continue, CloseSocket, bufferVars,
       leaseVars
  <2>2. FlagsOK'
    BY <1>1 DEF IInv, TypeOK, FlagsOK, MainClose, Continue, CloseSocket, leaseVars, textVars
  <2> QED BY <2>1, <2>2 DEF TypeOK, DataOK, FlagsOK
<1>3. PlacesInv'
  BY <1>1 DEF IInv, PlacesInv, Starting, Finishing, Ending, MainClose, Continue,
     CloseSocket, bufferVars
<1>4. LockInv'
  BY <1>1 DEF IInv, LockInv, Actors, Finalizes, Queued, Finalizers, Waiting, Finishing,
     Holds, MainClose, Continue, CloseSocket
<1>5. LeaseInv'
  BY <1>1 DEF IInv, LeaseInv, Starting, Ending, TasksGone, MainClose, Continue, CloseSocket,
     leaseVars
<1>6. StateInv'
  BY <1>1 DEF IInv, StateInv, Finalizes, Finalizers, Finishing, Starting, MainClose,
     Continue, CloseSocket, bufferVars, LeaseInv, TypeOK
<1>7. WireInv'
  BY <1>1 DEF IInv, WireInv, LeaseInv, Over, Finalizers, Starting, Frames, MainClose,
     Continue, CloseSocket, bufferVars, leaseVars
<1>8. DoneInv'
  BY <1>1 DEF IInv, DoneInv, MainClose, Continue, CloseSocket, bufferVars
<1> QED BY <1>2, <1>3, <1>4, <1>5, <1>6, <1>7, <1>8 DEF IInv

LEMMA PartialBeginStep ==
    ASSUME IInv, PartialBegin
    PROVE  IInv'
<1>1. /\ pc' \in [Actors -> Places] /\ pc'["partial"] \in {"done", "transcribe"}
      /\ pc'["main"] = pc["main"] /\ pc'["silence"] = pc["silence"]
      /\ jobs' \subseteq Actors /\ (jobs' # jobs => lease = "held" /\ ~closed)
      /\ \A g : Sent(g)' <=> Sent(g)
  <2>1. lease # "none" /\ ~closed
    BY DEF IInv, LeaseInv, PartialBegin
  <2>2. PICK place \in {"done", "transcribe"} : Goto("partial", place) /\ jobs' \subseteq Actors
    BY DEF PartialBegin, IInv, TypeOK, Actors
  <2> QED BY <2>1, <2>2, GotoEffect, SameWire
          DEF IInv, TypeOK, LeaseInv, PartialBegin, Actors, Places, netVars
<1>2. TypeOK'
  <2>1. DataOK'
    BY <1>1 DEF IInv, TypeOK, DataOK, PartialBegin, bufferVars, leaseVars, netVars,
       controlVars
  <2>2. FlagsOK'
    BY <1>1 DEF IInv, TypeOK, FlagsOK, PartialBegin, leaseVars, controlVars, textVars
  <2> QED BY <2>1, <2>2 DEF TypeOK, DataOK, FlagsOK
<1>3. PlacesInv'
  BY <1>1 DEF IInv, PlacesInv, Starting, Finishing, Ending, PartialBegin, bufferVars
<1>4. LockInv'
  BY <1>1 DEF IInv, LockInv, Actors, Finalizes, Queued, Finalizers, Waiting, Finishing,
     Holds, PartialBegin, controlVars
<1>5. LeaseInv'
  BY <1>1 DEF IInv, LeaseInv, Starting, Ending, TasksGone, PartialBegin, leaseVars,
     controlVars
<1>6. StateInv'
  BY <1>1 DEF IInv, StateInv, Finalizes, Finalizers, Finishing, Starting, PartialBegin,
     bufferVars, controlVars
<1>7. WireInv'
  BY <1>1 DEF IInv, WireInv, LeaseInv, Over, Finalizers, Starting, Frames, PartialBegin,
     bufferVars, leaseVars, netVars, controlVars
<1>8. DoneInv'
  BY <1>1 DEF IInv, DoneInv, PartialBegin, bufferVars, netVars, controlVars
<1> QED BY <1>2, <1>3, <1>4, <1>5, <1>6, <1>7, <1>8 DEF IInv

LEMMA PartialResultStep ==
    ASSUME IInv, PartialResult
    PROVE  IInv'
<1>1. PICK place \in {"emitText", "emitNothing", "emitWarning", "cycle"} :
          /\ Goto("partial", place) /\ lastText' \in BOOLEAN
          /\ \/ place # "cycle" /\ lockQ' = Append(lockQ, "partial")
             \/ place = "cycle" /\ lockQ' = lockQ
  BY DEF PartialResult, IInv, TypeOK
<1>2. /\ pc' \in [Actors -> Places] /\ pc'["partial"] = place
      /\ pc'["main"] = pc["main"] /\ pc'["silence"] = pc["silence"]
      /\ \A g : Sent(g)' <=> Sent(g)
  BY <1>1, GotoEffect, SameWire DEF IInv, PartialResult, Actors, Places, netVars
<1>3. /\ lockQ' \in Seq(Actors) /\ IsInjective(lockQ')
      /\ ToSet(lockQ') = IF place = "cycle" THEN ToSet(lockQ) ELSE ToSet(lockQ) \cup {"partial"}
      /\ \A b \in Actors : HeldBy(lockQ, b) => HeldBy(lockQ', b)
  <2>1. "partial" \in Actors /\ ~Queued("partial")
    BY DEF Actors, PartialResult, Queued, Finalizes, Finalizers, Waiting
  <2> QED BY <1>1, <2>1, EnterEffect DEF IInv, TypeOK, LockInv
<1>4. TypeOK'
  <2>1. DataOK'
    BY <1>1, <1>2, <1>3 DEF IInv, TypeOK, DataOK, PartialResult, bufferVars, leaseVars,
       netVars
  <2>2. FlagsOK'
    BY <1>1, <1>2, <1>3 DEF IInv, TypeOK, FlagsOK, PartialResult, leaseVars
  <2> QED BY <2>1, <2>2 DEF TypeOK, DataOK, FlagsOK
<1>5. PlacesInv'
  BY <1>1, <1>2, <1>3 DEF IInv, PlacesInv, Starting, Finishing, Ending, PartialResult,
     bufferVars
<1>6. LockInv'
  BY <1>1, <1>2, <1>3 DEF IInv, LockInv, Actors, Finalizes, Queued, Finalizers, Waiting,
     Finishing, Holds, PartialResult
<1>7. LeaseInv'
  BY <1>1, <1>2, <1>3 DEF IInv, LeaseInv, Starting, Ending, TasksGone, PartialResult,
     leaseVars
<1>8. StateInv'
  BY <1>1, <1>2, <1>3 DEF IInv, StateInv, Finalizes, Finalizers, Finishing, Starting,
     PartialResult, bufferVars
<1>9. WireInv'
  BY <1>1, <1>2, <1>3 DEF IInv, WireInv, LeaseInv, Over, Finalizers, Starting, Frames,
     PartialResult, bufferVars, leaseVars, netVars
<1>10. DoneInv'
  BY <1>1, <1>2, <1>3 DEF IInv, DoneInv, PartialResult, bufferVars, netVars
<1> QED BY <1>4, <1>5, <1>6, <1>7, <1>8, <1>9, <1>10 DEF IInv

LEMMA PartialEmitStep ==
    ASSUME IInv, PartialEmit
    PROVE  IInv'
<1>1. /\ lockQ' \in Seq(Actors) /\ IsInjective(lockQ')
      /\ ToSet(lockQ') = ToSet(lockQ) \ {"partial"}
      /\ \A b \in Actors : ~Finalizes(b)
  BY UnlockEffect DEF IInv, PartialEmit, Actors, Finalizes, Finalizers
<1>2. /\ pc' \in [Actors -> Places] /\ pc'["partial"] \in {"cycle", "done"}
      /\ pc'["main"] = pc["main"] /\ pc'["silence"] = pc["silence"]
      /\ socket' = socket /\ wire' \in Seq(Frames) /\ warned' \in BOOLEAN
      /\ \A g \in Frames : g \notin {"partial", "warning"} => (Sent(g)' <=> Sent(g))
  <2>1. CASE UNCHANGED <<warned, netVars>>
    <3>1. PICK place \in {"cycle", "done"} : Goto("partial", place)
      BY DEF PartialEmit
    <3> QED BY <2>1, <3>1, GotoEffect, SameWire DEF IInv, TypeOK, Actors, Places, netVars
  <2>2. ASSUME NEW ok \in BOOLEAN, Send("partial", ok), Goto("partial", "cycle"), UNCHANGED warned
        PROVE  <1>2!:
    BY <2>2, GotoEffect, SendEffect DEF IInv, TypeOK, Actors, Places, Frames
  <2>3. ASSUME NEW ok \in BOOLEAN, Send("warning", ok), warned' = TRUE,
               Goto("partial", IF ok THEN "cycle" ELSE "done")
        PROVE  <1>2!:
    BY <2>3, GotoEffect, SendEffect DEF IInv, TypeOK, Actors, Places, Frames
  <2> QED BY <2>1, <2>2, <2>3 DEF PartialEmit
<1>3. TypeOK'
  <2>1. DataOK'
    BY <1>1, <1>2 DEF IInv, TypeOK, DataOK, PartialEmit, Emits, Accepting, bufferVars,
       leaseVars
  <2>2. FlagsOK'
    BY <1>1, <1>2 DEF IInv, TypeOK, FlagsOK, PartialEmit, Emits, Accepting, leaseVars
  <2> QED BY <2>1, <2>2 DEF TypeOK, DataOK, FlagsOK
<1>4. PlacesInv'
  BY <1>1, <1>2 DEF IInv, PlacesInv, Starting, Finishing, Ending, PartialEmit, Emits,
     Accepting, bufferVars
<1>5. LockInv'
  BY <1>1, <1>2 DEF IInv, LockInv, Actors, Finalizes, Queued, Finalizers, Waiting,
     Finishing, Holds, PartialEmit, Emits, Accepting
<1>6. LeaseInv'
  BY <1>1, <1>2 DEF IInv, LeaseInv, Starting, Ending, TasksGone, PartialEmit, Emits,
     Accepting, leaseVars
<1>7. StateInv'
  BY <1>1, <1>2 DEF IInv, StateInv, Finalizes, Finalizers, Finishing, Starting, PartialEmit,
     Emits, Accepting, bufferVars
<1>8. WireInv'
  BY <1>1, <1>2 DEF IInv, WireInv, LeaseInv, Over, Finalizers, Starting, Frames,
     PartialEmit, Emits, Accepting, bufferVars, leaseVars
<1>9. DoneInv'
  BY <1>1, <1>2 DEF IInv, DoneInv, PartialEmit, Emits, Accepting, bufferVars, Frames
<1> QED BY <1>3, <1>4, <1>5, <1>6, <1>7, <1>8, <1>9 DEF IInv

LEMMA SilenceTimeoutStep ==
    ASSUME IInv, SilenceTimeout
    PROVE  IInv'
<1>1. PICK place \in {"done", "finalize"} :
          /\ Goto("silence", place)
          /\ \/ place = "finalize" /\ lockQ' = Append(lockQ, "silence")
             \/ place = "done" /\ lockQ' = lockQ
  BY DEF SilenceTimeout
<1>2. /\ pc' \in [Actors -> Places] /\ pc'["silence"] = place
      /\ pc'["main"] = pc["main"] /\ pc'["partial"] = pc["partial"]
      /\ \A g : Sent(g)' <=> Sent(g)
  BY <1>1, GotoEffect, SameWire DEF IInv, SilenceTimeout, Actors, Places, netVars
<1>3. /\ lockQ' \in Seq(Actors) /\ IsInjective(lockQ')
      /\ ToSet(lockQ') = IF place = "done" THEN ToSet(lockQ) ELSE ToSet(lockQ) \cup {"silence"}
      /\ \A b \in Actors : HeldBy(lockQ, b) => HeldBy(lockQ', b)
  <2>1. "silence" \in Actors /\ ~Queued("silence")
    BY DEF Actors, SilenceTimeout, Queued, Finalizes, Finishing, Waiting
  <2> QED BY <1>1, <2>1, EnterEffect DEF IInv, TypeOK, LockInv
<1>4. TypeOK'
  <2>1. DataOK'
    BY <1>1, <1>2, <1>3 DEF IInv, TypeOK, DataOK, SilenceTimeout, bufferVars, leaseVars,
       netVars
  <2>2. FlagsOK'
    BY <1>1, <1>2, <1>3 DEF IInv, TypeOK, FlagsOK, SilenceTimeout, leaseVars, textVars
  <2> QED BY <2>1, <2>2 DEF TypeOK, DataOK, FlagsOK
<1>5. PlacesInv'
  BY <1>1, <1>2, <1>3 DEF IInv, PlacesInv, Starting, Finishing, Ending, SilenceTimeout,
     bufferVars
<1>6. LockInv'
  BY <1>1, <1>2, <1>3 DEF IInv, LockInv, Actors, Finalizes, Queued, Finalizers, Waiting,
     Finishing, Holds, SilenceTimeout
<1>7. LeaseInv'
  BY <1>1, <1>2, <1>3 DEF IInv, LeaseInv, Starting, Ending, TasksGone, SilenceTimeout,
     leaseVars
<1>8. StateInv'
  BY <1>1, <1>2, <1>3 DEF IInv, StateInv, Finalizes, Finalizers, Finishing, Starting,
     SilenceTimeout, bufferVars
<1>9. WireInv'
  BY <1>1, <1>2, <1>3 DEF IInv, WireInv, LeaseInv, Over, Finalizers, Starting, Frames,
     SilenceTimeout, bufferVars, leaseVars, netVars
<1>10. DoneInv'
  BY <1>1, <1>2, <1>3 DEF IInv, DoneInv, SilenceTimeout, bufferVars, netVars
<1> QED BY <1>4, <1>5, <1>6, <1>7, <1>8, <1>9, <1>10 DEF IInv

LEMMA SilenceCloseStep ==
    ASSUME IInv, SilenceClose
    PROVE  IInv'
<1>1. /\ pc' \in [Actors -> Places] /\ pc'["silence"] = "done"
      /\ pc'["main"] = pc["main"] /\ pc'["partial"] = pc["partial"]
      /\ \A g : Sent(g)' <=> Sent(g)
  BY GotoEffect, SameWire DEF IInv, SilenceClose, ReleaseSocket, CloseSocket, Actors, Places
<1>2. TypeOK'
  <2>1. DataOK'
    BY <1>1 DEF IInv, TypeOK, DataOK, SilenceClose, ReleaseSocket, CloseSocket, bufferVars,
       leaseVars, controlVars
  <2>2. FlagsOK'
    BY <1>1 DEF IInv, TypeOK, FlagsOK, SilenceClose, ReleaseSocket, CloseSocket, leaseVars,
       controlVars, textVars
  <2> QED BY <2>1, <2>2 DEF TypeOK, DataOK, FlagsOK
<1>3. PlacesInv'
  BY <1>1 DEF IInv, PlacesInv, Starting, Finishing, Ending, SilenceClose, ReleaseSocket,
     CloseSocket, bufferVars
<1>4. LockInv'
  BY <1>1 DEF IInv, LockInv, Actors, Finalizes, Queued, Finalizers, Waiting, Finishing,
     Holds, SilenceClose, ReleaseSocket, CloseSocket, controlVars
<1>5. LeaseInv'
  BY <1>1 DEF IInv, LeaseInv, Starting, Ending, TasksGone, SilenceClose, ReleaseSocket,
     CloseSocket, leaseVars, controlVars
<1>6. StateInv'
  BY <1>1 DEF IInv, StateInv, Finalizes, Finalizers, Finishing, Starting, SilenceClose,
     ReleaseSocket, CloseSocket, bufferVars, controlVars
<1>7. WireInv'
  BY <1>1 DEF IInv, WireInv, LeaseInv, Over, Finalizers, Starting, Frames, SilenceClose,
     ReleaseSocket, CloseSocket, bufferVars, leaseVars, controlVars
<1>8. DoneInv'
  BY <1>1 DEF IInv, DoneInv, SilenceClose, ReleaseSocket, CloseSocket, bufferVars,
     controlVars
<1> QED BY <1>2, <1>3, <1>4, <1>5, <1>6, <1>7, <1>8 DEF IInv

LEMMA CancelledStep ==
    ASSUME IInv, NEW a \in {"partial", "silence"}, Cancelled(a)
    PROVE  IInv'
<1>1. /\ pc' \in [Actors -> Places] /\ pc'[a] = "done" /\ a \in Actors
      /\ \A b \in {"main", "partial", "silence"} : b # a => pc'[b] = pc[b]
      /\ wire' = wire /\ \A g : Sent(g)' <=> Sent(g)
      /\ socket' = socket \/ socket' = "closed"
      /\ a = "silence" /\ pc[a] # "sleep" => socket' = "closed"
  BY GotoEffect, SameWire DEF IInv, Cancelled, CloseSocket, Actors, Places, netVars
<1>2. /\ lockQ' \in Seq(Actors) /\ IsInjective(lockQ') /\ ToSet(lockQ') = ToSet(lockQ) \ {a}
      /\ \A b : b # a /\ HeldBy(lockQ, b) => HeldBy(lockQ', b)
  BY LeaveProperties DEF IInv, TypeOK, LockInv, Cancelled, Abandon
<1>3. TypeOK'
  <2>1. DataOK'
    BY <1>1, <1>2 DEF IInv, TypeOK, DataOK, Cancelled, CloseSocket, bufferVars, leaseVars,
       netVars
  <2>2. FlagsOK'
    BY <1>1, <1>2 DEF IInv, TypeOK, FlagsOK, Cancelled, CloseSocket, leaseVars, textVars
  <2> QED BY <2>1, <2>2 DEF TypeOK, DataOK, FlagsOK
<1>4. PlacesInv'
  BY <1>1, <1>2 DEF IInv, PlacesInv, Starting, Finishing, Ending, Cancelled, CloseSocket,
     bufferVars
<1>5. LockInv'
  BY <1>1, <1>2 DEF IInv, LockInv, Actors, Finalizes, Queued, Finalizers, Waiting,
     Finishing, Holds, Cancelled, CloseSocket
<1>6. LeaseInv'
  BY <1>1, <1>2 DEF IInv, LeaseInv, Starting, Ending, TasksGone, Cancelled, CloseSocket,
     leaseVars
<1>7. StateInv'
  BY <1>1, <1>2 DEF IInv, StateInv, Finalizes, Finalizers, Finishing, Starting, Cancelled,
     CloseSocket, bufferVars, LeaseInv, Ending, PlacesInv
<1>8. WireInv'
  BY <1>1, <1>2 DEF IInv, WireInv, LeaseInv, Over, Finalizers, Starting, Frames, Cancelled,
     CloseSocket, bufferVars, leaseVars, netVars
<1>9. DoneInv'
  BY <1>1, <1>2 DEF IInv, DoneInv, Cancelled, CloseSocket, bufferVars, netVars
<1> QED BY <1>3, <1>4, <1>5, <1>6, <1>7, <1>8, <1>9 DEF IInv

LEMMA CloseProcessorStep ==
    ASSUME IInv, CloseProcessor
    PROVE  IInv'
<1>1. /\ pc' \in [Actors -> Places] /\ pc'["main"] \in {"error", "teardown"}
      /\ pc'["partial"] = pc["partial"] /\ pc'["silence"] = pc["silence"]
      /\ \A g : Sent(g)' <=> Sent(g)
  BY GotoEffect, SameWire DEF IInv, CloseProcessor, Actors, Places, netVars
<1>2. TypeOK'
  <2>1. DataOK'
    BY <1>1 DEF IInv, TypeOK, DataOK, CloseProcessor, NoInference, bufferVars, netVars,
       controlVars
  <2>2. FlagsOK'
    BY <1>1 DEF IInv, TypeOK, FlagsOK, CloseProcessor, NoInference, controlVars, textVars
  <2> QED BY <2>1, <2>2 DEF TypeOK, DataOK, FlagsOK
<1>3. PlacesInv'
  BY <1>1 DEF IInv, PlacesInv, Starting, Finishing, Ending, CloseProcessor, NoInference,
     bufferVars
<1>4. LockInv'
  BY <1>1 DEF IInv, LockInv, Actors, Finalizes, Queued, Finalizers, Waiting, Finishing,
     Holds, CloseProcessor, NoInference, controlVars
<1>5. LeaseInv'
  BY <1>1 DEF IInv, LeaseInv, Starting, Ending, TasksGone, CloseProcessor, NoInference,
     controlVars
<1>6. StateInv'
  BY <1>1 DEF IInv, StateInv, Finalizes, Finalizers, Finishing, Starting, CloseProcessor,
     NoInference, bufferVars, controlVars
<1>7. WireInv'
  BY <1>1 DEF IInv, WireInv, LeaseInv, Over, Finalizers, Starting, Frames, CloseProcessor,
     NoInference, bufferVars, netVars, controlVars, Ending
<1>8. DoneInv'
  BY <1>1 DEF IInv, DoneInv, CloseProcessor, NoInference, bufferVars, netVars, controlVars
<1> QED BY <1>2, <1>3, <1>4, <1>5, <1>6, <1>7, <1>8 DEF IInv

LEMMA InferenceFinishedStep ==
    ASSUME IInv, NEW a \in Actors, InferenceFinished(a)
    PROVE  IInv'
<1>1. /\ jobs' \subseteq Actors /\ \A g : Sent(g)' <=> Sent(g)
  BY SameWire DEF IInv, TypeOK, InferenceFinished, netVars
<1>2. TypeOK'
  <2>1. DataOK'
    BY <1>1 DEF IInv, TypeOK, DataOK, InferenceFinished, ReleasesLease, bufferVars, netVars,
       controlVars
  <2>2. FlagsOK'
    BY <1>1 DEF IInv, TypeOK, FlagsOK, InferenceFinished, ReleasesLease, controlVars,
       textVars
  <2> QED BY <2>1, <2>2 DEF TypeOK, DataOK, FlagsOK
<1>3. PlacesInv'
  BY <1>1 DEF IInv, PlacesInv, Starting, Finishing, Ending, InferenceFinished,
     ReleasesLease, bufferVars
<1>4. LockInv'
  BY <1>1 DEF IInv, LockInv, Actors, Finalizes, Queued, Finalizers, Waiting, Finishing,
     Holds, InferenceFinished, ReleasesLease, controlVars
<1>5. LeaseInv'
  BY <1>1 DEF IInv, LeaseInv, Starting, Ending, TasksGone, InferenceFinished, ReleasesLease,
     controlVars
<1>6. StateInv'
  BY <1>1 DEF IInv, StateInv, Finalizes, Finalizers, Finishing, Starting, InferenceFinished,
     ReleasesLease, bufferVars, controlVars
<1>7. WireInv'
  BY <1>1 DEF IInv, WireInv, LeaseInv, Over, Finalizers, Starting, Frames,
     InferenceFinished, ReleasesLease, bufferVars, netVars, controlVars
<1>8. DoneInv'
  BY <1>1 DEF IInv, DoneInv, InferenceFinished, ReleasesLease, bufferVars, netVars,
     controlVars
<1> QED BY <1>2, <1>3, <1>4, <1>5, <1>6, <1>7, <1>8 DEF IInv

LEMMA ReportErrorStep ==
    ASSUME IInv, ReportError
    PROVE  IInv'
<1>1. /\ pc' \in [Actors -> Places] /\ pc'["main"] = "teardown"
      /\ pc'["partial"] = pc["partial"] /\ pc'["silence"] = pc["silence"]
      /\ socket' = socket /\ wire' \in Seq(Frames)
      /\ \A g \in Frames : g # "error" => (Sent(g)' <=> Sent(g))
  BY GotoEffect, SendEffect DEF IInv, ReportError, Actors, Places, Frames
<1>2. TypeOK'
  <2>1. DataOK'
    BY <1>1 DEF IInv, TypeOK, DataOK, ReportError, bufferVars, leaseVars, controlVars
  <2>2. FlagsOK'
    BY <1>1 DEF IInv, TypeOK, FlagsOK, ReportError, leaseVars, controlVars, textVars
  <2> QED BY <2>1, <2>2 DEF TypeOK, DataOK, FlagsOK
<1>3. PlacesInv'
  BY <1>1 DEF IInv, PlacesInv, Starting, Finishing, Ending, ReportError, bufferVars
<1>4. LockInv'
  BY <1>1 DEF IInv, LockInv, Actors, Finalizes, Queued, Finalizers, Waiting, Finishing,
     Holds, ReportError, controlVars
<1>5. LeaseInv'
  BY <1>1 DEF IInv, LeaseInv, Starting, Ending, TasksGone, ReportError, leaseVars,
     controlVars
<1>6. StateInv'
  BY <1>1 DEF IInv, StateInv, Finalizes, Finalizers, Finishing, Starting, ReportError,
     bufferVars, controlVars
<1>7. WireInv'
  BY <1>1 DEF IInv, WireInv, LeaseInv, Over, Finalizers, Starting, Frames, ReportError,
     bufferVars, leaseVars, controlVars, Ending, TasksGone
<1>8. DoneInv'
  BY <1>1 DEF IInv, DoneInv, ReportError, bufferVars, controlVars
<1> QED BY <1>2, <1>3, <1>4, <1>5, <1>6, <1>7, <1>8 DEF IInv

LEMMA TeardownStep ==
    ASSUME IInv, Teardown
    PROVE  IInv'
<1>1. /\ pc' \in [Actors -> Places] /\ pc'["main"] = "done"
      /\ pc'["partial"] = pc["partial"] /\ pc'["silence"] = pc["silence"]
      /\ \A g : Sent(g)' <=> Sent(g)
  BY GotoEffect, SameWire DEF IInv, Teardown, CloseSocket, Actors, Places
<1>2. TypeOK'
  <2>1. DataOK'
    BY <1>1 DEF IInv, TypeOK, DataOK, Teardown, CloseSocket, leaseVars
  <2>2. FlagsOK'
    BY <1>1 DEF IInv, TypeOK, FlagsOK, Teardown, CloseSocket, leaseVars, textVars
  <2> QED BY <2>1, <2>2 DEF TypeOK, DataOK, FlagsOK
<1>3. PlacesInv'
  BY <1>1 DEF IInv, PlacesInv, Starting, Finishing, Ending, Teardown, CloseSocket
<1>4. LockInv'
  BY <1>1 DEF IInv, LockInv, Actors, Finalizes, Queued, Finalizers, Waiting, Finishing,
     Holds, Teardown, CloseSocket
<1>5. LeaseInv'
  BY <1>1 DEF IInv, LeaseInv, Starting, Ending, TasksGone, Teardown, CloseSocket, leaseVars
<1>6. StateInv'
  BY <1>1 DEF IInv, StateInv, Finalizes, Finalizers, Finishing, Starting, Teardown,
     CloseSocket, LeaseInv, Ending, TasksGone
<1>7. WireInv'
  BY <1>1 DEF IInv, WireInv, LeaseInv, Over, Finalizers, Starting, Frames, Teardown,
     CloseSocket, leaseVars
<1>8. DoneInv'
  BY <1>1 DEF IInv, DoneInv, Teardown, CloseSocket
<1> QED BY <1>2, <1>3, <1>4, <1>5, <1>6, <1>7, <1>8 DEF IInv

LEMMA DisconnectStep ==
    ASSUME IInv, Disconnect
    PROVE  IInv'
<1>1. \A g : Sent(g)' <=> Sent(g)
  BY SameWire DEF Disconnect, netVars
<1>2. TypeOK'
  <2>1. DataOK'
    BY <1>1 DEF IInv, TypeOK, DataOK, Disconnect, bufferVars, leaseVars, netVars,
       controlVars
  <2>2. FlagsOK'
    BY <1>1 DEF IInv, TypeOK, FlagsOK, Disconnect, leaseVars, controlVars, textVars
  <2> QED BY <2>1, <2>2 DEF TypeOK, DataOK, FlagsOK
<1>3. PlacesInv'
  BY <1>1 DEF IInv, PlacesInv, Starting, Finishing, Ending, Disconnect, bufferVars
<1>4. LockInv'
  BY <1>1 DEF IInv, LockInv, Actors, Finalizes, Queued, Finalizers, Waiting, Finishing,
     Holds, Disconnect, controlVars
<1>5. LeaseInv'
  BY <1>1 DEF IInv, LeaseInv, Starting, Ending, TasksGone, Disconnect, leaseVars,
     controlVars
<1>6. StateInv'
  BY <1>1 DEF IInv, StateInv, Finalizes, Finalizers, Finishing, Starting, Disconnect,
     bufferVars, controlVars
<1>7. WireInv'
  BY <1>1 DEF IInv, WireInv, LeaseInv, Over, Finalizers, Starting, Frames, Disconnect,
     bufferVars, leaseVars, netVars, controlVars
<1>8. DoneInv'
  BY <1>1 DEF IInv, DoneInv, Disconnect, bufferVars, netVars, controlVars
<1> QED BY <1>2, <1>3, <1>4, <1>5, <1>6, <1>7, <1>8 DEF IInv

LEMMA InvStep == IInv /\ [Next]_vars => IInv'
<1> SUFFICES ASSUME IInv, [Next]_vars PROVE IInv'
  OBVIOUS
<1>1. CASE Main
  <2>1. CASE Connect \/ Limited \/ CheckRuntime \/ WaitForStart \/ SendReady \/ OpenProcessor
    BY <2>1, ConnectStep, LimitedStep, CheckRuntimeStep, WaitForStartStep, SendReadyStep,
       OpenProcessorStep
  <2>2. CASE ReceiveDisconnect \/ HandleAudio \/ HandleMalformed
    BY <2>2, ReceiveDisconnectStep, HandleAudioStep, HandleMalformedStep
  <2>3. CASE Finalize("main")
    BY <2>3, FinalizeBeginStep, FinalizeChunkStep, FinalizeResultStep, FinalizeSendStep,
       FinalizeEndStep DEF Finalize, Finalizers
  <2>4. CASE MainClose \/ CloseProcessor \/ ReportError \/ Teardown
    BY <2>4, MainCloseStep, CloseProcessorStep, ReportErrorStep, TeardownStep
  <2> QED BY <1>1, <2>1, <2>2, <2>3, <2>4 DEF Main
<1>2. CASE Partial
  BY <1>2, PartialBeginStep, PartialResultStep, PartialEmitStep, CancelledStep DEF Partial
<1>3. CASE SilenceFinalizes \/ SilenceTimeout
  <2>1. CASE ~cancelled /\ Finalize("silence")
    BY <2>1, FinalizeBeginStep, FinalizeChunkStep, FinalizeResultStep, FinalizeSendStep,
       FinalizeEndStep DEF Finalize, Finalizers
  <2> QED BY <1>3, <2>1, SilenceCloseStep, CancelledStep, SilenceTimeoutStep DEF SilenceFinalizes
<1>4. CASE Disconnect
  BY <1>4, DisconnectStep
<1>5. CASE (\E m \in Messages : Receive(m)) \/ \E a \in Actors : InferenceFinished(a)
  BY <1>5, ReceiveStep, InferenceFinishedStep
<1>6. CASE UNCHANGED vars
  <2> USE <1>6 DEF vars, bufferVars, textVars, controlVars, leaseVars, netVars
  <2>1. \A g : Sent(g)' <=> Sent(g)
    BY SameWire
  <2>2. TypeOK' /\ PlacesInv'
    BY DEF IInv, TypeOK, PlacesInv
  <2>3. LockInv'
    BY DEF IInv, LockInv, Finalizes, Queued, Holds
  <2>4. LeaseInv'
    BY DEF IInv, LeaseInv, TasksGone
  <2>5. StateInv'
    BY DEF IInv, StateInv, Finalizes
  <2>6. WireInv' /\ DoneInv'
    BY <2>1 DEF IInv, WireInv, DoneInv, Over
  <2> QED BY <2>2, <2>3, <2>4, <2>5, <2>6 DEF IInv
<1> QED BY <1>1, <1>2, <1>3, <1>4, <1>5, <1>6 DEF Next

-----------------------------------------------------------------------------
(* The inductive invariant holds in every state of a session.                *)
THEOREM Invariant == Spec => []IInv
BY InitInv, InvStep, PTL DEF Spec

(* A session's state, tasks and connection are always well formed.           *)
THEOREM SessionTypes == Spec => []TypeOK
<1>1. IInv => TypeOK
  BY DEF IInv
<1> QED BY <1>1, Invariant, PTL

(* Every accepted audio frame is in the transcription whose final was sent,  *)
(* whichever of stop, silence, malformed input and teardown meet.            *)
THEOREM FinalIsComplete == Spec => []FinalCoversAllAudio
<1>1. IInv => FinalCoversAllAudio
  BY DEF IInv, WireInv, FinalCoversAllAudio
<1> QED BY <1>1, Invariant, PTL

(* The lease is held as long as native work uses it, and a handler that has  *)
(* returned leaves nothing behind but such work and its lease.               *)
THEOREM NothingLeaks == Spec => []HoldsWhatItUses
<1>1. ASSUME IInv PROVE HoldsWhatItUses
  <2>1. jobs # {} => lease = "held"
    BY <1>1 DEF IInv, TypeOK, LeaseInv
  <2>2. ASSUME pc["main"] = "done"
        PROVE  /\ \A a \in {"partial", "silence"} : pc[a] \in {"none", "done"}
               /\ lease = "held" => jobs # {}
    BY <1>1, <2>2 DEF IInv, LeaseInv, Ending, TasksGone
  <2>3. ASSUME pc["main"] = "done" PROVE lockQ = <<>>
    <3>1. \A a \in Actors : ~Queued(a)
      BY <2>2, <2>3 DEF Actors, Queued, Finalizes, Finalizers, Waiting, Finishing
    <3>2. lockQ \in Seq(Actors) /\ \A a \in Actors : a \notin ToSet(lockQ)
      BY <1>1, <3>1 DEF IInv, TypeOK, LockInv
    <3>3. lockQ # <<>> => lockQ[1] \in Actors /\ lockQ[1] \in ToSet(lockQ)
      BY <3>2, LenProperties, EmptySeq DEF ToSet
    <3> QED BY <3>2, <3>3
  <2> QED BY <1>1, <2>1, <2>2, <2>3 DEF IInv, DoneInv, HoldsWhatItUses
<1> QED BY <1>1, Invariant, PTL

-----------------------------------------------------------------------------
(* Refinement: what is on the wire follows SessionProtocol.                  *)

\* When the protocol lets the server send a frame.
Allowed(f) ==
    /\ f = "ready" => wire = <<>>
    /\ f \in {"partial", "status", "warning", "final"} => Sent("ready") /\ ~Over
    /\ f = "error" => ~Sent("final") /\ ~Sent("closing")
    /\ f = "closing" => Sent("ready") /\ ~Sent("closing")

ProtocolStep == [Protocol!Next]_<<wire, socket>>

LEMMA SendFollows ==
    ASSUME TypeOK, NEW f \in Frames, NEW ok \in BOOLEAN, Send(f, ok),
           peer /\ socket = "open" => Allowed(f)
    PROVE  ProtocolStep
<1>1. CASE UNCHANGED <<wire, socket>>
  BY <1>1 DEF ProtocolStep
<1>2. CASE wire' = Append(wire, f) /\ peer /\ socket = "open" /\ UNCHANGED socket
  <2>1. Protocol!Send(f) /\ Allowed(f)
    BY <1>2 DEF Protocol!Send
  <2>2. /\ f = "ready" => Protocol!Ready
        /\ f \in {"partial", "status", "warning"} => Protocol!Interim(f)
        /\ f = "final" => Protocol!Final
        /\ f = "error" => Protocol!Error
        /\ f = "closing" => Protocol!Closing
    BY <2>1 DEF Allowed, Over, Sent, Protocol!Ready, Protocol!Interim, Protocol!Final,
       Protocol!Error, Protocol!Closing, Protocol!Started, Protocol!Over, Protocol!Occurs
  <2> QED BY <2>2 DEF Frames, ProtocolStep, Protocol!Next
<1> QED BY <1>1, <1>2 DEF Send

LEMMA CloseFollows ==
    ASSUME TypeOK, CloseSocket
    PROVE  ProtocolStep
BY DEF TypeOK, CloseSocket, ProtocolStep, Protocol!Next, Protocol!Close

\* While audio is accepted and the tasks run, the client has seen the session
\* start and no end of it.
LEMMA InterimAllowed ==
    ASSUME IInv, lease # "none", ~cancelled, Accepting, peer,
           NEW f \in {"partial", "status", "warning"}
    PROVE  Allowed(f)
<1>1. ~Over
  BY DEF IInv, LeaseInv, WireInv, Accepting
<1> QED BY <1>1 DEF IInv, WireInv, Allowed

LEMMA FinalizeFollows ==
    ASSUME IInv, NEW a \in Finalizers, a = "silence" => ~cancelled, Finalize(a)
    PROVE  ProtocolStep
<1>1. CASE FinalizeBegin(a) \/ FinalizeResult(a)
  BY <1>1 DEF FinalizeBegin, FinalizeResult, netVars, leaseVars, ProtocolStep
<1>2. CASE FinalizeChunk(a) \/ FinalizeSend(a) \/ FinalizeEnd(a)
  <2>1. PICK f \in Frames, ok \in BOOLEAN :
           /\ Send(f, ok)
           /\ \/ f = "status" /\ pc[a] = "transcribe"
              \/ f = "partial" /\ pc[a] = "sendRecovered"
              \/ f = "error" /\ pc[a] = "sendError"
              \/ f = "final" /\ pc[a] = "sendFinal"
              \/ f = "closing" /\ pc[a] = "sendClosing"
    BY <1>2 DEF FinalizeChunk, FinalizeTranscribed, FinalizeSend, FinalizeEnd, Frames
  <2>2. peer => Sent("ready")
    BY <2>1, FinalizerAlone DEF IInv, WireInv, Finishing
  <2>3. peer => Allowed(f)
    BY <2>1, <2>2 DEF IInv, WireInv, Allowed, Over
  <2> QED BY <2>1, <2>3, SendFollows DEF IInv
<1> QED BY <1>1, <1>2 DEF Finalize

\* A malformed frame is answered by an error, and never after a final: whoever
\* finalizes would hold the lock, or have closed the session or the socket.
LEMMA MalformedFollows == ASSUME IInv, HandleMalformed PROVE ProtocolStep
<1>1. CASE Rejects
  <2>1. PICK ok \in BOOLEAN : Send("error", ok)
    BY <1>1 DEF HandleMalformed
  <2>2. ~Finalizes("silence")
    BY UnlockEffect DEF IInv, HandleMalformed, Actors
  <2>3. state # "closed"
    BY <1>1 DEF Rejects, Accepting, Active
  <2>4. socket = "open" => Allowed("error")
    BY <2>2, <2>3 DEF HandleMalformed, IInv, StateInv, WireInv, Allowed, Finalizes, Finalizers,
       Finishing
  <2> QED BY <2>1, <2>4, SendFollows DEF IInv, Frames
<1>2. CASE ~Rejects
  BY <1>2 DEF HandleMalformed, netVars, ProtocolStep
<1> QED BY <1>1, <1>2

\* An unexpected exception is reported before anything final was sent, or to a
\* closed socket.
LEMMA ReportFollows == ASSUME IInv, ReportError PROVE ProtocolStep
<1>1. PICK ok \in BOOLEAN : Send("error", ok)
  BY DEF ReportError
<1>2. pc["silence"] \notin {"sendClosing", "close"}
  BY DEF ReportError, IInv, LeaseInv, Ending, TasksGone
<1>3. socket = "open" => Allowed("error")
  BY <1>2 DEF ReportError, IInv, WireInv, Allowed, Finalizers
<1> QED BY <1>1, <1>3, SendFollows DEF IInv, Frames

LEMMA StepFollows == IInv /\ [Next]_vars => ProtocolStep
<1> SUFFICES ASSUME IInv, [Next]_vars PROVE ProtocolStep
  OBVIOUS
<1>1. CASE Connect \/ CheckRuntime \/ WaitForStart
  <2>1. UNCHANGED netVars
        \/ \E ok \in BOOLEAN : Send("error", ok) /\ pc["main"] \in Starting
    BY <1>1 DEF Connect, CheckRuntime, WaitForStart, Refuse, Starting
  <2>2. pc["main"] \in Starting => Allowed("error")
    BY DEF IInv, WireInv, Over, Allowed
  <2> QED BY <2>1, <2>2, SendFollows DEF IInv, Frames, netVars, ProtocolStep
<1>2. CASE SendReady
  <2>1. Allowed("ready")
    BY <1>2 DEF SendReady, IInv, WireInv, Starting, Allowed
  <2> QED BY <1>2, <2>1, SendFollows DEF SendReady, IInv, Frames
<1>3. CASE HandleAudio
  <2>1. lease # "none" /\ ~cancelled
    BY <1>3 DEF HandleAudio, IInv, LeaseInv, Starting, Ending
  <2>2. UNCHANGED netVars \/ \E ok \in BOOLEAN : Send("status", ok) /\ Accepting
    BY <1>3 DEF HandleAudio, AdmitsAudio
  <2> QED BY <2>1, <2>2, InterimAllowed, SendFollows DEF IInv, Frames, netVars, ProtocolStep
<1>4. CASE PartialEmit
  <2>1. lease # "none" /\ ~cancelled
    BY <1>4 DEF PartialEmit, IInv, LeaseInv
  <2>2. UNCHANGED netVars
        \/ \E f \in {"partial", "warning"}, ok \in BOOLEAN : Send(f, ok) /\ Accepting
    BY <1>4 DEF PartialEmit, Emits
  <2> QED BY <2>1, <2>2, InterimAllowed, SendFollows DEF IInv, Frames, netVars, ProtocolStep
<1>5. CASE HandleMalformed \/ ReportError
  BY <1>5, MalformedFollows, ReportFollows
<1>6. CASE Finalize("main") \/ (~cancelled /\ Finalize("silence"))
  BY <1>6, FinalizeFollows DEF Finalizers
<1>7. CASE Limited \/ MainClose \/ SilenceClose \/ Teardown
           \/ Cancelled("partial") \/ Cancelled("silence")
  <2>1. CloseSocket \/ UNCHANGED netVars
    BY <1>7 DEF Limited, MainClose, SilenceClose, ReleaseSocket, Teardown, Cancelled
  <2> QED BY <2>1, CloseFollows DEF IInv, netVars, ProtocolStep
<1>8. CASE UNCHANGED netVars
  BY <1>8 DEF netVars, ProtocolStep
<1>9. OpenProcessor \/ ReceiveDisconnect \/ CloseProcessor \/ PartialBegin \/ PartialResult
      \/ SilenceTimeout \/ Disconnect \/ (\E m \in Messages : Receive(m))
      \/ (\E a \in Actors : InferenceFinished(a)) \/ UNCHANGED vars
      => UNCHANGED netVars
  BY DEF OpenProcessor, ReceiveDisconnect, CloseProcessor, PartialBegin, PartialResult,
     SilenceTimeout, Disconnect, Receive, InferenceFinished, vars
<1> QED BY <1>1, <1>2, <1>3, <1>4, <1>5, <1>6, <1>7, <1>8, <1>9
        DEF Next, Main, Partial, SilenceFinalizes

(* The frames a client sees are those SessionProtocol allows, in its order,  *)
(* for every schedule of the tasks and every failure of a send.              *)
THEOREM ProtocolFollowed == Spec => FollowsProtocol
<1>1. Init => Protocol!Init
  BY DEF Init, Protocol!Init
<1>2. IInv /\ [Next]_vars => [Protocol!Next]_<<wire, socket>>
  BY StepFollows DEF ProtocolStep
<1> QED BY <1>1, <1>2, Invariant, PTL DEF Spec, FollowsProtocol, Protocol!Spec

-----------------------------------------------------------------------------
(* When two partial inferences in a row are shorter than the client's        *)
(* silence_timeout, the silence monitor never cuts off a user who speaks:    *)
(* SilenceTiming, for every value of its constants.                          *)

CONSTANTS Timeout, PollPeriod, MaxInference, Horizon, Never
VARIABLES now, spoke, talking, heard, since, snapshot, poll, timedOut

Monitor == INSTANCE SilenceTiming WITH SilenceTimeout <- Timeout

\* The end of the speech the monitor knows of.
Heard == IF heard = Never THEN 0 ELSE heard

\* Audio up to here was given to inferences that have started.
Covered == IF since = Never THEN now ELSE since

(* An inference that started while the user was speaking heard them up to   *)
(* its start; so what the monitor knows is at most one inference older     *)
(* than the start of the current one, or the user paused since.            *)
Fresh ==
    /\ spoke = now \/ talking = now
    /\ talking <= now /\ spoke <= now
    /\ since # Never =>
        /\ since <= now /\ now <= since + MaxInference
        /\ snapshot \in Nat
        /\ snapshot = since \/ talking >= since
    /\ Heard + MaxInference >= Covered \/ talking + MaxInference >= Covered
    /\ Monitor!SpeechIsNotSilence

MonitorInv == Monitor!TypeOK /\ Fresh

LEMMA MonitorInit ==
  ASSUME Monitor!ClockConstants
  PROVE  Monitor!Init => MonitorInv
<1> SUFFICES ASSUME Monitor!Init PROVE MonitorInv
  OBVIOUS
<1>1. timedOut = FALSE
  BY DEF Monitor!Init
<1>2. Monitor!TypeOK
  BY <1>1 DEF Monitor!ClockConstants, Monitor!Init, Monitor!TypeOK
<1>3. Fresh
  BY <1>1 DEF Monitor!ClockConstants, Monitor!Init, Fresh, Heard, Covered,
     Monitor!SpeechIsNotSilence
<1> QED
  BY <1>2, <1>3 DEF MonitorInv

LEMMA MonitorStep ==
  ASSUME Monitor!ClockConstants, 2 * MaxInference < Timeout
  PROVE  MonitorInv /\ [Monitor!Next]_(Monitor!vars) => MonitorInv'
<1> SUFFICES ASSUME MonitorInv, [Monitor!Next]_(Monitor!vars) PROVE MonitorInv'
  OBVIOUS
<1> USE DEF Monitor!ClockConstants, MonitorInv, Monitor!TypeOK, Fresh, Heard, Covered,
            Monitor!SpeechIsNotSilence
<1>1. CASE Monitor!InferenceStarts
  BY <1>1 DEF Monitor!InferenceStarts
<1>2. CASE Monitor!InferenceEnds
  BY <1>2 DEF Monitor!InferenceEnds
<1>3. CASE Monitor!Check
  BY <1>3 DEF Monitor!Check, Monitor!SilenceDuration, Monitor!NextPoll
<1>4. CASE Monitor!Tick
  BY <1>4 DEF Monitor!Tick
<1>5. CASE UNCHANGED Monitor!vars
  BY <1>5 DEF Monitor!vars
<1> QED
  BY <1>1, <1>2, <1>3, <1>4, <1>5 DEF Monitor!Next

(* A user who speaks without a pause is not cut off by the silence monitor,  *)
(* for any timeout longer than two inferences, any polling period and any   *)
(* horizon.                                                                 *)
THEOREM SpeakerIsNotCutOff ==
  ASSUME Monitor!ClockConstants, 2 * MaxInference < Timeout
  PROVE  Monitor!Spec => []Monitor!SpeechIsNotSilence
<1>1. Monitor!Init => MonitorInv
  BY MonitorInit
<1>2. MonitorInv /\ [Monitor!Next]_(Monitor!vars) => MonitorInv'
  BY MonitorStep
<1>3. MonitorInv => Monitor!SpeechIsNotSilence
  BY DEF MonitorInv, Fresh
<1> QED
  BY <1>1, <1>2, <1>3, PTL DEF Monitor!Spec
===============================================================================
