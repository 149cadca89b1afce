------------------------ MODULE DictationClient_proofs ------------------------
(***************************************************************************)
(* Theorems about DictationClient, for any number of dictations and of     *)
(* audio buffers: only complete text is committed, the microphone follows  *)
(* the session, and a held dictation does not outlive its keys.            *)
(***************************************************************************)
EXTENDS DictationClient, SequenceTheorems, FiniteSetTheorems, TLAPS

\* How often x is in a sequence.
Count(q, x) == Cardinality({i \in 1..Len(q) : q[i] = x})

(* What the flags of index.ts, of TranscriptionService and of the           *)
(* CaptureSession say of each other.  Nothing is under way without a        *)
(* session; connect() has resolved before there is a microphone, and while  *)
(* there is one an unfailed session is connected and accepts audio.         *)
Phase(m) ==
    /\ m.session \in {None, m.generation}
    /\ m.session = None => m = ResetFlags(m)
    /\ m.session # None => m.socket # "none" /\ (m.recording <=> ~m.stopping)
    /\ m.recording => ~m.stopRequested /\ m.capture \in {"none", "capturing"}
    /\ m.stopping => m.capture # "capturing"
    /\ m.stopping /\ m.capture = "none" => m.stopRequested \/ m.failed

Connected(m) ==
    /\ m.capture # "none" => m.ready
    /\ m.ready /\ m.capture = "none" => m.resume = "ok"
    /\ m.resume = "ok" => m.recording /\ m.ready /\ m.capture = "none"
    /\ m.resume = "rejected" => m.recording /\ ~m.ready
    /\ m.ready /\ ~m.failed => m.socket = "open"
    /\ m.capture = "draining" => ~m.stopRequested
    /\ m.capture = "closed" /\ ~m.drained => m.failed /\ m.override
    /\ m.drained => m.capture = "closed"

MainInv == Phase(main) /\ Connected(main)

\* The order of two commands on their way to the renderer.
Before(a, b) ==
    \/ a.session < b.session
    \/ a.session = b.session /\ (b.kind = "stop" \/ (a.kind = "start" /\ b.kind = "drain"))

CommandOrder ==
    \A i, j \in 1..Len(toRenderer) : i < j => Before(toRenderer[i], toRenderer[j])

\* What is on its way belongs to a session that has begun and that the renderer
\* has not got over; the current session was not told to stop.
CommandInv ==
    \A i \in 1..Len(toRenderer) :
        LET c == toRenderer[i] IN
        /\ renderer.for <= c.session /\ c.session <= main.generation
        /\ c.kind = "start" =>
              /\ renderer.for < c.session
              /\ c.session = main.session \/ Contains(toRenderer, StopCapture(c.session))
        /\ c.session = main.session =>
              /\ c.kind # "stop" /\ main.capture # "none"
              /\ c.kind = "drain" => main.capture \in {"draining", "closed"}

\* The renderer runs one engine at a time, for the session it was told to start
\* last; it is drained once, and only while main waits for that.
EngineInv ==
    /\ renderer.for <= main.generation
    /\ main.session # None /\ main.capture = "none" => renderer.for < main.session
    /\ renderer.id \in {None, renderer.for}
    /\ renderer.engine # "off" =>
          /\ renderer.id = renderer.for /\ renderer.for # None
          /\ renderer.for = main.session \/ Contains(toRenderer, StopCapture(renderer.for))
    /\ renderer.engine = "draining" =>
          /\ \A i \in 1..Len(toRenderer) : toRenderer[i] # DrainCapture(renderer.for)
          /\ renderer.for = main.session => main.capture \in {"draining", "closed"}

\* An engine that is off or starting has recorded nothing that could be lost, and
\* the worklet answers a drain last.
PortInv ==
    /\ renderer.engine \in {"off", "starting"} => renderer.port = <<>>
    /\ renderer.engine = "starting" \/ (renderer.engine = "off" /\ renderer.id # None) =>
          renderer.recorded = 0
    /\ \A i \in 1..Len(renderer.port) :
          renderer.port[i] = "drained" => i = Len(renderer.port) /\ renderer.engine = "draining"

\* The acknowledgement of a drain is the last message of its session, and comes
\* only if it was asked for.
ReplyInv ==
    \A i \in 1..Len(toMain) :
        /\ toMain[i].session <= renderer.for
        /\ toMain[i].kind = "stopped" /\ toMain[i].session = main.session =>
              /\ main.capture \in {"draining", "closed"}
              /\ renderer.id # main.session
              /\ \A j \in 1..Len(toMain) : i < j => toMain[j].session # main.session

\* The audio of the current session that has been sent, or is under way.
InPort == IF renderer.for = main.session THEN Count(renderer.port, "audio") ELSE 0
Accounted == main.sent + Count(toMain, Audio(main.session)) + InPort

\* Nothing is sent twice, and nothing is lost unless the session failed or the
\* renderer gave the drain up.
AudioInv ==
    /\ main.session # None => Accounted <= Recorded(main.session)
    /\ /\ main.capture \in {"capturing", "draining"} /\ ~main.failed
       /\ \A i \in 1..Len(toMain) : toMain[i] # Stopped(main.session, FALSE)
       => Accounted = Recorded(main.session)
    /\ main.drained /\ ~main.failed =>
          /\ main.sent = Recorded(main.session)
          /\ renderer.for = main.session /\ renderer.id # main.session

\* A quick dictation that hold-to-talk started goes with a press of its hotkey,
\* and a press with a key that is down.
HoldInv ==
    /\ holdToTalk /\ main.recording /\ main.mode = "quick" /\ main.source = "normal" =>
          keys.quick.press = "hold"
    /\ keys.quick.press # "none" => keys.down \cap Required(DefaultHotkeys.quick) # {}

ChannelInv == CommandOrder /\ CommandInv /\ EngineInv /\ PortInv /\ ReplyInv /\ AudioInv

IInv == TypeOK /\ MainInv /\ ChannelInv /\ HoldInv

-----------------------------------------------------------------------------
(* Lemmas on the channels and on counting what is in them.                  *)

LEMMA AppendAt ==
    ASSUME NEW S, NEW q \in Seq(S), NEW e \in S
    PROVE  /\ Append(q, e) \in Seq(S) /\ Len(Append(q, e)) = Len(q) + 1
           /\ Append(q, e)[Len(q) + 1] = e
           /\ \A i \in 1..Len(q) : Append(q, e)[i] = q[i]
BY AppendProperties

LEMMA TailAt ==
    ASSUME NEW S, NEW q \in Seq(S), q # <<>>
    PROVE  /\ Tail(q) \in Seq(S) /\ Len(Tail(q)) = Len(q) - 1 /\ Len(q) \in Nat \ {0}
           /\ Head(q) = q[1] /\ q[1] \in S
           /\ \A i \in 1..(Len(q) - 1) : Tail(q)[i] = q[i + 1]
BY HeadTailProperties, EmptySeq

LEMMA CountType ==
    ASSUME NEW S, NEW q \in Seq(S), NEW x
    PROVE  /\ IsFiniteSet({i \in 1..Len(q) : q[i] = x}) /\ Count(q, x) \in Nat
           /\ (\A i \in 1..Len(q) : q[i] # x) => Count(q, x) = 0
           /\ Count(<<>>, x) = 0
<1> DEFINE T == {i \in 1..Len(q) : q[i] = x}
<1>1. Len(q) \in Nat /\ IsFiniteSet(1..Len(q))
  BY FS_Interval
<1>2. IsFiniteSet(T)
  BY <1>1, FS_Subset
<1>3. Cardinality(T) \in Nat
  BY <1>2, FS_CardinalityType
<1>4. ASSUME \A i \in 1..Len(q) : q[i] # x PROVE Cardinality(T) = 0
  <2>1. T = {}
    BY <1>4
  <2> QED BY <2>1, FS_EmptySet
<1>5. {i \in 1..Len(<<>>) : <<>>[i] = x} = {}
  BY EmptySeq
<1> QED BY <1>2, <1>3, <1>4, <1>5, FS_EmptySet DEF Count

LEMMA CountAppend ==
    ASSUME NEW S, NEW q \in Seq(S), NEW e \in S, NEW x
    PROVE  Count(Append(q, e), x) = Count(q, x) + (IF e = x THEN 1 ELSE 0)
<1> DEFINE T == {i \in 1..Len(q) : q[i] = x}
           U == {i \in 1..Len(Append(q, e)) : Append(q, e)[i] = x}
<1>1. Len(q) \in Nat /\ Len(q) + 1 \notin T
  OBVIOUS
<1>2. U = IF e = x THEN T \cup {Len(q) + 1} ELSE T
  BY AppendAt
<1>3. IsFiniteSet(T) /\ Cardinality(T) \in Nat
  BY CountType, ZenonT(60) DEF Count
<1>4. Count(q, x) = Cardinality(T) /\ Count(Append(q, e), x) = Cardinality(U)
  BY DEF Count
<1> HIDE DEF T, U
<1>5. CASE e = x
  BY <1>1, <1>2, <1>3, <1>4, <1>5, FS_AddElement
<1>6. CASE e # x
  BY <1>2, <1>3, <1>4, <1>6
<1> QED BY <1>5, <1>6

LEMMA CountTail ==
    ASSUME NEW S, NEW q \in Seq(S), q # <<>>, NEW x
    PROVE  Count(q, x) = Count(Tail(q), x) + (IF q[1] = x THEN 1 ELSE 0)
<1> DEFINE T == {i \in 1..Len(Tail(q)) : Tail(q)[i] = x}
           U == {i \in 1..Len(q) : q[i] = x}
           V == U \ {1}
           f == [i \in T |-> i + 1]
<1>1. Len(q) \in Nat \ {0} /\ Len(Tail(q)) = Len(q) - 1
      /\ \A i \in 1..(Len(q) - 1) : Tail(q)[i] = q[i + 1]
  BY TailAt
<1>2. IsFiniteSet(T) /\ Cardinality(T) \in Nat /\ IsFiniteSet(U) /\ Cardinality(U) \in Nat
  <2>1. Tail(q) \in Seq(S)
    BY TailAt
  <2>2. IsFiniteSet(T) /\ Cardinality(T) \in Nat
    BY <2>1, CountType, ZenonT(60) DEF Count
  <2>3. IsFiniteSet(U) /\ Cardinality(U) \in Nat
    BY CountType, ZenonT(60) DEF Count
  <2> QED BY <2>2, <2>3
<1>3. f \in [T -> V]
  BY <1>1
<1>4. \A i, j \in T : f[i] = f[j] => i = j
  OBVIOUS
<1>5. \A v \in V : \E i \in T : f[i] = v
  <2> SUFFICES ASSUME NEW v \in V PROVE v - 1 \in T /\ f[v - 1] = v
    OBVIOUS
  <2> QED BY <1>1
<1>6. ExistsBijection(T, V)
  BY <1>3, <1>4, <1>5, ZenonT(60) DEF ExistsBijection, Bijection, Injection, IsInjective, Surjection
<1>7. Cardinality(V) = Cardinality(T)
  BY <1>2, <1>6, FS_Bijection
<1>8. Cardinality(V) = IF 1 \in U THEN Cardinality(U) - 1 ELSE Cardinality(U)
  BY <1>2, FS_RemoveElement
<1>9. 1 \in U <=> q[1] = x
  BY <1>1
<1>10. Count(q, x) = Cardinality(U) /\ Count(Tail(q), x) = Cardinality(T)
  BY DEF Count
<1> HIDE DEF T, U, V
<1>11. 1 \in U => Cardinality(U) # 0
  BY <1>2, FS_EmptySet
<1> QED BY <1>2, <1>7, <1>8, <1>9, <1>10, <1>11

-----------------------------------------------------------------------------
(* Lemmas on what the helpers of the main process do to its flags.          *)

LEMMA Constants ==
    /\ MaxSessions \in Nat \ {0} /\ MaxAudio \in Nat /\ None = 0
    /\ \A s \in Sessions : s \in Nat /\ s # None /\ s <= MaxSessions
BY ConstantsAssumption DEF Sessions, None

LEMMA MainFields ==
    ASSUME NEW m \in Mains
    PROVE  /\ m.session \in Nat /\ m.generation \in Nat /\ m.generation <= MaxSessions
           /\ m.sent \in 0..MaxAudio
           /\ {m.recording, m.stopping, m.ready, m.failed, m.stopRequested, m.drained,
               m.override} \subseteq BOOLEAN
BY Constants DEF Mains

\* What the channels know of the main process.
SameSession(m, n) ==
    /\ n.session = m.session /\ n.generation = m.generation /\ n.sent = m.sent
    /\ m.failed => n.failed

LEMMA FailSane ==
    ASSUME NEW m \in Mains, Phase(m), Connected(m), m.session # None
    PROVE  /\ Fail(m) \in Mains /\ Phase(Fail(m)) /\ Connected(Fail(m))
           /\ Abort(m) \in Mains /\ Phase(Abort(m)) /\ Connected(Abort(m))
           /\ SameSession(m, Abort(m)) /\ Abort(m).capture = m.capture
           /\ Abort(m).drained = m.drained /\ Abort(m).failed
<1>1. Fail(m) \in Mains /\ Abort(m) \in Mains
  BY DEF Fail, Abort, Mains
<1>2. Phase(Fail(m)) /\ Phase(Abort(m))
  BY DEF Fail, Abort, Mains, Phase
<1>3. Connected(Fail(m)) /\ Connected(Abort(m))
  BY DEF Fail, Abort, Mains, Connected
<1>4. SameSession(m, Abort(m)) /\ Abort(m).capture = m.capture
      /\ Abort(m).drained = m.drained /\ Abort(m).failed
  BY DEF Fail, Abort, Mains, SameSession
<1> QED BY <1>1, <1>2, <1>3, <1>4

\* A user's stop, of the main process as it is or with the toggle's flag changed.
Variant(m) ==
    \/ m = main /\ main.resume = "no"
    \/ main.resume = "no" /\ \E b \in BOOLEAN : m = [main EXCEPT !.longQueued = b]
    \/ main.resume = "rejected" /\ m = [main EXCEPT !.resume = "no", !.override = TRUE]

LEMMA VariantSane ==
    ASSUME main \in Mains, MainInv, NEW m, Variant(m), m.recording
    PROVE  /\ m \in Mains /\ Phase(m) /\ Connected(m) /\ m.session # None /\ m.resume = "no"
           /\ SameSession(main, m) /\ m.capture = main.capture /\ m.drained = main.drained
<1>1. m \in Mains /\ m.resume = "no"
  BY ZenonT(60) DEF Variant, Mains
<1>2. SameSession(main, m) /\ m.capture = main.capture /\ m.drained = main.drained
      /\ main.recording
  BY DEF Variant, Mains, SameSession
<1>3. main.session # None
  <2>1. ~ResetFlags(main).recording
    BY DEF ResetFlags, Idle
  <2> QED BY <1>2, <2>1 DEF MainInv, Phase
<1>4. Phase(m)
  BY <1>2, <1>3 DEF Variant, Mains, MainInv, Phase, SameSession
<1>5. Connected(m)
  BY ZenonT(60) DEF Variant, Mains, MainInv, Connected
<1> QED BY <1>1, <1>2, <1>3, <1>4, <1>5 DEF SameSession

LEMMA ServiceStopEffect ==
    ASSUME NEW m \in Mains, NEW n, n = ServiceStop(m)
    PROVE  /\ n \in Mains /\ SameSession(m, n) /\ n.failed = m.failed
           /\ n.stopRequested \/ n.failed
           /\ n.capture = m.capture /\ n.drained = m.drained /\ n.recording = m.recording
           /\ n.stopping = m.stopping /\ n.ready = m.ready /\ n.resume = m.resume
           /\ n.override = m.override /\ n.mode = m.mode /\ n.source = m.source
           /\ m.socket # "none" => n.socket # "none"
           /\ n.socket = m.socket \/ m.socket = "connecting"
<1>1. CASE m.stopRequested \/ m.failed
  BY <1>1 DEF ServiceStop, SameSession
<1>2. CASE ~(m.stopRequested \/ m.failed)
  <2>1. n = [m EXCEPT !.stopRequested = TRUE,
                      !.socket = IF @ = "connecting" THEN "terminated" ELSE @,
                      !.stopSent = m.socket = "open"]
    BY <1>2 DEF ServiceStop
  <2>2. n \in Mains
    BY <2>1 DEF Mains
  <2> QED BY <2>1, <2>2 DEF Mains, SameSession
<1> QED BY <1>1, <1>2

LEMMA StoppingEffect ==
    ASSUME NEW m \in Mains, Phase(m), Connected(m), m.session # None, m.resume = "no", m.recording,
           NEW n, n = Stopping(m)
    PROVE  /\ n \in Mains /\ Phase(n) /\ Connected(n) /\ SameSession(m, n) /\ n.failed = m.failed
           /\ n.capture = IF m.capture = "none" THEN "none" ELSE "draining"
           /\ n.drained = m.drained /\ ~n.recording
           /\ m.capture \in {"none", "capturing"}
<1> DEFINE k == [m EXCEPT !.recording = FALSE, !.stopping = TRUE]
<1>1. /\ k \in Mains /\ SameSession(m, k) /\ k.failed = m.failed
      /\ k.capture = m.capture /\ k.drained = m.drained /\ ~k.recording /\ k.stopping
      /\ k.ready = m.ready /\ k.resume = m.resume /\ k.override = m.override
      /\ k.socket = m.socket /\ k.stopRequested = m.stopRequested
  BY ZenonT(60) DEF Mains, SameSession
<1>2. m.capture \in {"none", "capturing"} /\ ~m.stopRequested /\ ~m.drained
  BY DEF Phase, Connected
<1>3. n = IF m.capture = "none" THEN ServiceStop(k) ELSE [k EXCEPT !.capture = "draining"]
  BY DEF Stopping
<1> HIDE DEF k
<1>4. CASE m.capture = "none"
  <2>1. n = ServiceStop(k) /\ ~m.ready
    BY <1>3, <1>4 DEF Connected
  <2>2. /\ n \in Mains /\ SameSession(k, n) /\ n.failed = k.failed
        /\ n.stopRequested \/ n.failed
        /\ n.capture = "none" /\ n.drained = m.drained /\ ~n.recording /\ n.stopping /\ ~n.ready
        /\ n.resume = "no" /\ (m.socket # "none" => n.socket # "none")
    BY <1>1, <1>2, <1>4, <2>1, ServiceStopEffect
  <2>3. n.session = m.session /\ n.generation = m.generation /\ n.sent = m.sent
        /\ n.failed = m.failed
    BY <1>1, <2>2 DEF SameSession
  <2>4. Phase(n)
    BY <2>2, <2>3 DEF Phase
  <2>5. Connected(n)
    BY <1>2, <2>2 DEF Connected
  <2> QED BY <1>2, <1>4, <2>2, <2>3, <2>4, <2>5 DEF SameSession
<1>5. CASE m.capture = "capturing"
  <2>0. n = [k EXCEPT !.capture = "draining"] /\ n \in Mains
    BY <1>1, <1>3, <1>5 DEF Mains
  <2>1. /\ SameSession(k, n) /\ n.failed = k.failed
        /\ n.capture = "draining" /\ n.drained = k.drained /\ n.recording = k.recording
        /\ n.stopping = k.stopping /\ n.ready = k.ready /\ n.resume = k.resume
        /\ n.socket = k.socket /\ n.stopRequested = k.stopRequested
    BY <1>1, <2>0, ZenonT(60) DEF Mains, SameSession
  <2>2. Phase(n)
    BY <1>1, <1>2, <1>5, <2>1 DEF Phase, SameSession
  <2>3. Connected(n)
    BY <1>1, <1>2, <1>5, <2>1 DEF Connected, SameSession
  <2> QED BY <1>1, <1>2, <1>5, <2>0, <2>1, <2>2, <2>3 DEF SameSession
<1> QED BY <1>2, <1>4, <1>5

LEMMA AfterDrainEffect ==
    ASSUME NEW m \in Mains, Phase(m), Connected(m), m.session # None, m.capture = "draining",
           NEW d \in BOOLEAN, NEW n, n = AfterDrain(m, d)
    PROVE  /\ n \in Mains /\ Phase(n) /\ Connected(n) /\ SameSession(m, n)
           /\ n.capture = "closed" /\ n.drained = d /\ (d => n.failed = m.failed)
           /\ ~n.recording
<1> DEFINE k == [m EXCEPT !.capture = "closed", !.drained = d]
<1>1. /\ k \in Mains /\ SameSession(m, k) /\ k.failed = m.failed
      /\ k.capture = "closed" /\ k.drained = d /\ ~k.recording /\ k.stopping
      /\ k.ready /\ k.resume = m.resume /\ k.socket = m.socket
  BY DEF Mains, SameSession, Phase, Connected
<1>2. n = IF d THEN ServiceStop(k) ELSE Abort([k EXCEPT !.override = TRUE])
  BY DEF AfterDrain
<1>3. m.resume = "no"
  BY DEF Phase, Connected, Mains
<1> HIDE DEF k
<1>4. CASE d
  <2>1. n = ServiceStop(k)
    BY <1>2, <1>4
  <2>2. /\ n \in Mains /\ SameSession(k, n) /\ n.failed = k.failed
        /\ n.stopRequested \/ n.failed
        /\ n.capture = "closed" /\ n.drained = d /\ ~n.recording /\ n.stopping /\ n.ready
        /\ n.resume = "no" /\ (k.socket # "none" => n.socket # "none")
        /\ n.socket = k.socket \/ k.socket = "connecting"
    BY <1>1, <1>3, <2>1, ServiceStopEffect
  <2>3. n.session = m.session /\ n.generation = m.generation /\ n.sent = m.sent
        /\ n.failed = m.failed
    BY <1>1, <2>2 DEF SameSession
  <2>4. Phase(n)
    BY <1>1, <2>2, <2>3 DEF Phase
  <2>5. Connected(n)
    BY <1>1, <1>4, <2>2, <2>3 DEF Connected
  <2> QED BY <2>2, <2>3, <2>4, <2>5 DEF SameSession
<1>5. CASE ~d
  <2>0. n = [k EXCEPT !.override = TRUE, !.failed = TRUE, !.socket = "terminated"] /\ n \in Mains
    <3>1. k \in Mains /\ n = Abort([k EXCEPT !.override = TRUE])
      BY <1>1, <1>2, <1>5
    <3>2. n = [k EXCEPT !.override = TRUE, !.failed = TRUE, !.socket = "terminated"]
      BY <3>1 DEF Abort, Fail, Mains
    <3> QED BY <3>1, <3>2, ZenonT(60) DEF Mains
  <2>1. /\ SameSession(k, n) /\ n.failed /\ n.override /\ n.socket = "terminated"
        /\ n.capture = "closed" /\ n.drained = d /\ ~n.recording /\ n.stopping /\ n.ready
        /\ n.resume = "no"
    BY <1>1, <1>3, <2>0 DEF Mains, SameSession
  <2>2. Phase(n)
    BY <1>1, <2>1 DEF Phase, SameSession
  <2>3. Connected(n)
    BY <1>5, <2>1 DEF Connected
  <2> QED BY <1>1, <1>5, <2>0, <2>1, <2>2, <2>3 DEF SameSession
<1> QED BY <1>4, <1>5

LEMMA IdleFields ==
    ASSUME NEW g \in 0..MaxSessions, NEW n, n = [Idle EXCEPT !.generation = g]
    PROVE  /\ n \in Mains
           /\ n.session = None /\ n.generation = g /\ n.capture = "none" /\ n.sent = 0
           /\ ~n.drained /\ ~n.recording /\ ~n.stopping /\ ~n.ready /\ n.resume = "no"
           /\ ~n.stopRequested /\ ~n.failed /\ n.socket = "none" /\ ~n.longQueued
           /\ n = ResetFlags(n)
<1>1. /\ n.session = None /\ n.generation = g /\ n.capture = "none" /\ n.sent = 0
      /\ ~n.drained /\ ~n.recording /\ ~n.stopping /\ ~n.ready /\ n.resume = "no"
      /\ ~n.stopRequested /\ ~n.failed /\ n.socket = "none" /\ ~n.longQueued
  BY DEF Idle
<1>2. n \in Mains
  <2>1. Idle \in Mains
    BY Constants DEF Idle, Mains
  <2> QED BY <2>1 DEF Mains
<1>3. n = ResetFlags(n)
  BY <1>1 DEF ResetFlags
<1> QED BY <1>1, <1>2, <1>3

LEMMA ResetEffect ==
    ASSUME NEW m \in Mains, NEW n, n = ResetFlags(m)
    PROVE  /\ n \in Mains /\ Phase(n) /\ Connected(n) /\ n = ResetFlags(n)
           /\ n.session = None /\ n.generation = m.generation /\ n.capture = "none"
           /\ n.sent = 0 /\ ~n.drained /\ ~n.recording /\ ~n.stopping
<1>1. n = [Idle EXCEPT !.generation = m.generation] /\ m.generation \in 0..MaxSessions
  BY DEF ResetFlags, Mains
<1> QED BY <1>1, IdleFields DEF Phase, Connected

\* A session that begins is numbered past all earlier ones.
LEMMA StartedEffect ==
    ASSUME NEW m \in Mains, m = ResetFlags(m), m.generation < MaxSessions,
           NEW source \in {"normal", "lab"}, NEW mode \in {"quick", "long"},
           NEW n, n = Started(m, source, mode)
    PROVE  /\ n \in Mains /\ Phase(n) /\ Connected(n)
           /\ n.session = m.generation + 1 /\ n.generation = m.generation + 1
           /\ n.capture = "none" /\ n.sent = 0 /\ ~n.drained
           /\ n.source = source /\ n.mode = mode
<1>1. m = [Idle EXCEPT !.generation = m.generation] /\ m.generation \in 0..MaxSessions
  BY DEF ResetFlags, Mains
<1>2. /\ m.capture = "none" /\ m.sent = 0 /\ ~m.drained /\ ~m.stopping /\ ~m.ready
      /\ m.resume = "no" /\ ~m.stopRequested /\ ~m.failed
  BY <1>1, IdleFields
<1>3. m.generation + 1 \in Sessions /\ m.generation + 1 # None
  BY <1>1, Constants DEF Sessions
<1>4. /\ n \in Mains /\ n.recording /\ ~n.stopping /\ n.session = m.generation + 1
      /\ n.generation = m.generation + 1 /\ n.socket = "connecting" /\ n.capture = "none"
      /\ n.sent = 0 /\ ~n.drained /\ n.source = source /\ n.mode = mode /\ ~n.ready
      /\ n.resume = "no" /\ ~n.stopRequested
  <2>1. n = [m EXCEPT !.recording = TRUE, !.source = source, !.mode = mode, !.override = FALSE,
                      !.session = m.generation + 1, !.generation = m.generation + 1,
                      !.socket = "connecting"]
    BY DEF Started
  <2>2. m.generation + 1 \in 0..MaxSessions
    BY <1>3, Constants DEF Sessions
  <2>3. n \in Mains
    <3> DEFINE g == m.generation + 1
               before == m.generation
    <3>a. m = [recording |-> FALSE, stopping |-> FALSE, session |-> None, generation |-> before,
               source |-> "normal", mode |-> "quick", longQueued |-> FALSE, override |-> FALSE,
               socket |-> "none", ready |-> FALSE, stopRequested |-> FALSE,
               stopSent |-> FALSE, failed |-> FALSE, resume |-> "no",
               capture |-> "none", drained |-> FALSE, sent |-> 0]
      <4>1. m = [Idle EXCEPT !.generation = before]
        BY <1>1
      <4> HIDE DEF before
      <4> QED BY <4>1 DEF Idle
    <3>b. n = [m EXCEPT !.recording = TRUE, !.source = source, !.mode = mode, !.override = FALSE,
                        !.session = g, !.generation = g, !.socket = "connecting"]
      BY <2>1
    <3> HIDE DEF g, before
    <3>1. n = [recording |-> TRUE, stopping |-> FALSE, session |-> g, generation |-> g,
               source |-> source, mode |-> mode, longQueued |-> FALSE, override |-> FALSE,
               socket |-> "connecting", ready |-> FALSE, stopRequested |-> FALSE,
               stopSent |-> FALSE, failed |-> FALSE, resume |-> "no",
               capture |-> "none", drained |-> FALSE, sent |-> 0]
      BY <3>a, <3>b, ZenonT(60)
    <3>2. 0 \in 0..MaxAudio
      BY Constants
    <3> QED BY <1>3, <2>2, <3>1, <3>2 DEF Mains, g
  <2>4. /\ n.recording = TRUE /\ n.session = m.generation + 1 /\ n.generation = m.generation + 1
        /\ n.socket = "connecting" /\ n.source = source /\ n.mode = mode
    BY <2>1 DEF Mains
  <2>5. /\ n.stopping = m.stopping /\ n.capture = m.capture /\ n.sent = m.sent
        /\ n.drained = m.drained /\ n.ready = m.ready /\ n.resume = m.resume
        /\ n.stopRequested = m.stopRequested
    BY <2>1 DEF Mains
  <2> QED BY <1>2, <2>3, <2>4, <2>5
<1>5. Phase(n) /\ Connected(n)
  BY <1>3, <1>4 DEF Phase, Connected
<1> QED BY <1>4, <1>5

-----------------------------------------------------------------------------
(* The channels: what each kind of step does to them.                       *)

LEMMA Facts ==
    ASSUME IInv
    PROVE  /\ main \in Mains /\ renderer \in Renderers
           /\ toRenderer \in Seq(FromMain) /\ toMain \in Seq(FromRenderer)
           /\ main.session \in Nat /\ main.generation \in Nat /\ main.session <= main.generation
           /\ renderer.for \in Nat /\ renderer.recorded \in 0..MaxAudio
           /\ renderer.port \in Seq({"audio", "drained"}) /\ main.sent \in Nat
           /\ Len(toRenderer) \in Nat /\ Len(toMain) \in Nat
<1>1. main \in Mains /\ renderer \in Renderers
      /\ toRenderer \in Seq(FromMain) /\ toMain \in Seq(FromRenderer)
  BY DEF IInv, TypeOK
<1>2. main.session \in Nat /\ main.generation \in Nat /\ main.sent \in Nat
  BY <1>1, MainFields
<1>3. renderer.for \in Nat /\ renderer.recorded \in 0..MaxAudio
      /\ renderer.port \in Seq({"audio", "drained"})
  BY <1>1, Constants DEF Renderers
<1>4. main.session <= main.generation
  BY <1>2, Constants DEF IInv, MainInv, Phase
<1> QED BY <1>1, <1>2, <1>3, <1>4

\* The messages and what they carry.
LEMMA Commands ==
    ASSUME NEW c \in FromMain
    PROVE  /\ c.session \in Sessions /\ c.session \in Nat /\ c.session # None
           /\ c.kind \in {"start", "stop", "drain"}
           /\ c.kind = "start" <=> c = StartCapture(c.session)
           /\ c.kind = "stop" <=> c = StopCapture(c.session)
           /\ c.kind = "drain" <=> c = DrainCapture(c.session)
BY Constants DEF FromMain, StartCapture, StopCapture, DrainCapture

LEMMA Replies ==
    ASSUME NEW c \in FromRenderer
    PROVE  /\ c.session \in Sessions /\ c.session \in Nat /\ c.session # None
           /\ c.kind \in {"audio", "error", "stopped"}
           /\ c.kind = "audio" <=> c = Audio(c.session)
           /\ c.kind = "stopped" => c.drained \in BOOLEAN /\ c = Stopped(c.session, c.drained)
BY Constants DEF FromRenderer, Audio, CaptureError, Stopped

LEMMA Made ==
    ASSUME NEW s \in Sessions
    PROVE  /\ StartCapture(s) \in FromMain /\ StopCapture(s) \in FromMain
           /\ DrainCapture(s) \in FromMain
           /\ Audio(s) \in FromRenderer /\ CaptureError(s) \in FromRenderer
           /\ \A d \in BOOLEAN : Stopped(s, d) \in FromRenderer
           /\ StartCapture(s).kind = "start" /\ StartCapture(s).session = s
           /\ StopCapture(s).kind = "stop" /\ StopCapture(s).session = s
           /\ DrainCapture(s).kind = "drain" /\ DrainCapture(s).session = s
           /\ Audio(s).kind = "audio" /\ Audio(s).session = s
           /\ CaptureError(s).kind = "error" /\ CaptureError(s).session = s
           /\ \A d \in BOOLEAN : /\ Stopped(s, d).kind = "stopped" /\ Stopped(s, d).session = s
                                 /\ Stopped(s, d).drained = d
<1>1. StartCapture(s) \in FromMain /\ StopCapture(s) \in FromMain /\ DrainCapture(s) \in FromMain
  BY DEF FromMain
<1>2. Audio(s) \in FromRenderer /\ CaptureError(s) \in FromRenderer
  BY DEF FromRenderer
<1>3. ASSUME NEW d \in BOOLEAN PROVE Stopped(s, d) \in FromRenderer
  BY DEF FromRenderer
<1> QED BY <1>1, <1>2, <1>3
        DEF StartCapture, StopCapture, DrainCapture, Audio, CaptureError, Stopped

\* A step of the main process that leaves the channels and the microphone alone.
LEMMA MainQuiet ==
    ASSUME IInv, UNCHANGED <<toRenderer, toMain, renderer>>, SameSession(main, main'),
           main'.capture = main.capture, main'.drained = main.drained
    PROVE  ChannelInv'
<1>1. CommandOrder' /\ CommandInv'
  BY DEF IInv, ChannelInv, CommandOrder, CommandInv, SameSession
<1>2. EngineInv' /\ PortInv' /\ ReplyInv'
  BY DEF IInv, ChannelInv, EngineInv, PortInv, ReplyInv, SameSession
<1>3. AudioInv'
  BY DEF IInv, ChannelInv, AudioInv, Accounted, InPort, Recorded, SameSession
<1> QED BY <1>1, <1>2, <1>3 DEF ChannelInv

\* r continues q with copies of c.
Grown(q, r, c) ==
    /\ Len(q) <= Len(r)
    /\ \A i \in 1..Len(r) : r[i] = IF i <= Len(q) THEN q[i] ELSE c

LEMMA GrownContains ==
    ASSUME NEW q \in Seq(FromMain), NEW r \in Seq(FromMain), NEW c, Grown(q, r, c)
    PROVE  /\ \A x : Contains(q, x) => Contains(r, x)
           /\ Len(q) < Len(r) => Contains(r, c)
BY DEF Grown, Contains

\* Commands to a session that no command on its way follows.
LEMMA GrownOrder ==
    ASSUME IInv, toRenderer' \in Seq(FromMain), NEW c, Grown(toRenderer, toRenderer', c),
           \A i \in 1..Len(toRenderer) : Before(toRenderer[i], c),
           Len(toRenderer') <= Len(toRenderer) + 1 \/ c.kind = "stop"
    PROVE  CommandOrder'
<1> SUFFICES ASSUME NEW i \in 1..Len(toRenderer'), NEW j \in 1..Len(toRenderer'), i < j
             PROVE  Before(toRenderer'[i], toRenderer'[j])
  BY DEF CommandOrder
<1>1. CASE j <= Len(toRenderer)
  BY <1>1, Facts DEF Grown, IInv, ChannelInv, CommandOrder
<1>2. CASE i <= Len(toRenderer) /\ j > Len(toRenderer)
  BY <1>2, Facts DEF Grown
<1>3. CASE i > Len(toRenderer)
  BY <1>3, Facts DEF Grown, Before
<1> QED BY <1>1, <1>2, <1>3, Facts

\* The end of a session, the start of the next one, or both.
LEMMA NewPhase ==
    ASSUME IInv, UNCHANGED <<toMain, renderer>>,
           main'.capture = "none", main'.sent = 0, ~main'.drained,
           \/ main'.session = None /\ main'.generation = main.generation
           \/ main'.session = main.generation + 1 /\ main'.generation = main.generation + 1,
           toRenderer' \in Seq(FromMain),
           Grown(toRenderer, toRenderer', StopCapture(main.session)),
           IF main.session = None THEN toRenderer' = toRenderer
           ELSE Len(toRenderer) < Len(toRenderer')
    PROVE  ChannelInv'
<1> DEFINE s == main.session
           c == StopCapture(s)
<1>f. /\ s \in Nat /\ main.generation \in Nat /\ s \in {None, main.generation} /\ None = 0
      /\ renderer.for \in Nat /\ renderer.for <= main.generation
      /\ renderer.id \in {None, renderer.for}
      /\ toRenderer \in Seq(FromMain) /\ toMain \in Seq(FromRenderer)
  BY Facts, Constants DEF IInv, ChannelInv, EngineInv, MainInv, Phase
<1>c. /\ c.kind = "stop" /\ c.session = s
  BY DEF StopCapture
<1>b. \A i \in 1..Len(toRenderer) :
         /\ toRenderer[i] \in FromMain /\ toRenderer[i].session \in Nat
         /\ toRenderer[i].session # None
         /\ renderer.for <= toRenderer[i].session /\ toRenderer[i].session <= main.generation
         /\ toRenderer[i].kind = "start" =>
               /\ renderer.for < toRenderer[i].session
               /\ toRenderer[i].session = s \/ Contains(toRenderer, StopCapture(toRenderer[i].session))
  <2>1. \A i \in 1..Len(toRenderer) : toRenderer[i] \in FromMain
    BY <1>f
  <2> QED BY <2>1, Commands DEF IInv, ChannelInv, CommandInv
<1>n. main'.session # None => main'.session > main.generation
  BY <1>f
<1>1. CommandOrder'
  <2>1. \A i \in 1..Len(toRenderer) : s # None => Before(toRenderer[i], c)
    BY <1>b, <1>c, <1>f DEF Before
  <2>2. CASE s # None
    BY <1>c, <2>1, <2>2, GrownOrder
  <2>3. CASE s = None
    BY <2>3 DEF IInv, ChannelInv, CommandOrder
  <2> QED BY <2>2, <2>3
<1>2. CommandInv'
  <2> SUFFICES ASSUME NEW i \in 1..Len(toRenderer')
               PROVE  /\ renderer.for <= toRenderer'[i].session
                      /\ toRenderer'[i].session <= main'.generation
                      /\ toRenderer'[i].kind = "start" =>
                            /\ renderer.for < toRenderer'[i].session
                            /\ Contains(toRenderer', StopCapture(toRenderer'[i].session))
                      /\ toRenderer'[i].session # main'.session
    BY DEF CommandInv
  <2>1. \A x : Contains(toRenderer, x) => Contains(toRenderer', x)
    BY <1>f, GrownContains
  <2>2. s # None => Contains(toRenderer', c)
    BY <1>f, GrownContains
  <2>3. CASE i <= Len(toRenderer)
    <3>1. toRenderer'[i] = toRenderer[i] /\ i \in 1..Len(toRenderer)
      BY <1>f, <2>3 DEF Grown
    <3>2. toRenderer[i].kind = "start" => Contains(toRenderer', StopCapture(toRenderer[i].session))
      BY <1>b, <2>1, <2>2, <3>1
    <3> QED BY <1>b, <1>f, <1>n, <3>1, <3>2
  <2>4. CASE i > Len(toRenderer)
    <3>1. toRenderer'[i] = c /\ s # None
      BY <1>f, <2>4 DEF Grown
    <3> QED BY <1>c, <1>f, <1>n, <3>1
  <2> QED BY <1>f, <2>3, <2>4
<1>3. EngineInv'
  <2>1. \A x : Contains(toRenderer, x) => Contains(toRenderer', x)
    BY <1>f, GrownContains
  <2>2. s # None => Contains(toRenderer', c)
    BY <1>f, GrownContains
  <2>3. \A i \in 1..Len(toRenderer') : toRenderer'[i] = DrainCapture(renderer.for) =>
            \E j \in 1..Len(toRenderer) : toRenderer[j] = DrainCapture(renderer.for)
    <3>1. DrainCapture(renderer.for) # c
      BY DEF DrainCapture, StopCapture
    <3> QED BY <1>f, <3>1 DEF Grown
  <2>4. renderer.engine # "off" =>
           /\ renderer.id = renderer.for /\ renderer.for # None
           /\ Contains(toRenderer', StopCapture(renderer.for))
    BY <2>1, <2>2 DEF IInv, ChannelInv, EngineInv
  <2>5. renderer.engine = "draining" =>
            \A i \in 1..Len(toRenderer) : toRenderer[i] # DrainCapture(renderer.for)
    BY DEF IInv, ChannelInv, EngineInv
  <2>6. renderer.engine # "off" => renderer.for # main'.session
    BY <1>f, <1>n, <2>4
  <2> QED BY <1>f, <1>n, <2>3, <2>4, <2>5, <2>6 DEF EngineInv
<1>4. PortInv'
  BY DEF IInv, ChannelInv, PortInv
<1>5. \A i \in 1..Len(toMain) : toMain[i].session # main'.session
  <2>1. \A i \in 1..Len(toMain) : /\ toMain[i].session \in Nat /\ toMain[i].session # None
                                  /\ toMain[i].session <= renderer.for
    BY <1>f, Replies DEF IInv, ChannelInv, ReplyInv
  <2> QED BY <1>f, <1>n, <2>1
<1>6. ReplyInv'
  BY <1>5 DEF IInv, ChannelInv, ReplyInv
<1>7. AudioInv'
  <2> SUFFICES ASSUME main'.session # None PROVE (Accounted <= Recorded(main.session))'
    BY DEF AudioInv
  <2>1. renderer.for # main'.session
    BY <1>f, <1>n
  <2>2. \A i \in 1..Len(toMain) : toMain[i] # Audio(main'.session)
    BY <1>5 DEF Audio
  <2>3. Count(toMain, Audio(main'.session)) = 0
    BY <1>f, <2>2, CountType
  <2> QED BY <2>1, <2>3 DEF Accounted, InPort, Recorded
<1> QED BY <1>1, <1>2, <1>3, <1>4, <1>6, <1>7 DEF ChannelInv

\* The commands of the current session: one is appended.
LEMMA CommandSent ==
    ASSUME IInv, NEW s \in Sessions, s = main.session, UNCHANGED <<toMain, renderer>>,
           NEW c, toRenderer' = Append(toRenderer, c), SameSession(main, main'),
           \/ /\ c = StartCapture(s) /\ main.capture = "none" /\ main'.capture = "capturing"
           \/ /\ c = DrainCapture(s) /\ main.capture = "capturing" /\ main'.capture = "draining",
           main'.drained = main.drained, ~main.drained
    PROVE  ChannelInv'
<1>f. /\ s \in Nat /\ s = main.generation /\ s # None
      /\ renderer.for \in Nat /\ renderer.for <= main.generation
      /\ renderer.id \in {None, renderer.for}
      /\ toRenderer \in Seq(FromMain) /\ toMain \in Seq(FromRenderer)
      /\ main'.session = s /\ main'.generation = s /\ main'.sent = main.sent /\ main.sent \in Nat
      /\ main.failed => main'.failed
  BY Facts, Constants DEF IInv, ChannelInv, EngineInv, MainInv, Phase, SameSession
<1>c. c \in FromMain /\ c.session = s /\ c.kind \in {"start", "drain"}
      /\ (c.kind = "start" => main.capture = "none" /\ main'.capture = "capturing")
      /\ (c.kind = "drain" => main.capture = "capturing" /\ main'.capture = "draining")
  <2>1. /\ StartCapture(s) \in FromMain /\ DrainCapture(s) \in FromMain
        /\ StartCapture(s).kind = "start" /\ StartCapture(s).session = s
        /\ DrainCapture(s).kind = "drain" /\ DrainCapture(s).session = s
    BY Made
  <2> QED BY <2>1
<1>a. /\ toRenderer' \in Seq(FromMain) /\ Len(toRenderer') = Len(toRenderer) + 1
      /\ Grown(toRenderer, toRenderer', c) /\ Len(toRenderer) \in Nat
      /\ toRenderer'[Len(toRenderer) + 1] = c
      /\ \A i \in 1..Len(toRenderer) : toRenderer'[i] = toRenderer[i]
  BY <1>c, <1>f, AppendAt DEF Grown
<1>b. \A i \in 1..Len(toRenderer) :
         LET d == toRenderer[i] IN
         /\ d \in FromMain /\ d.session \in Nat
         /\ renderer.for <= d.session /\ d.session <= s
         /\ d.kind = "start" => /\ renderer.for < d.session
                                /\ d.session = s \/ Contains(toRenderer, StopCapture(d.session))
         /\ d.session = s => d.kind = "start" /\ main.capture = "capturing" /\ c.kind = "drain"
  <2>1. \A i \in 1..Len(toRenderer) : toRenderer[i] \in FromMain
    BY <1>f
  <2> QED BY <1>c, <1>f, <2>1, Commands DEF IInv, ChannelInv, CommandInv
<1>x. \A x : Contains(toRenderer, x) => Contains(toRenderer', x)
  BY <1>a, <1>f, GrownContains
<1>1. CommandOrder'
  <2>1. \A i \in 1..Len(toRenderer) : Before(toRenderer[i], c)
    BY <1>b, <1>c, <1>f DEF Before
  <2> QED BY <1>a, <2>1, GrownOrder
<1>s. c.kind = "start" => renderer.for < s
  BY <1>c, <1>f DEF IInv, ChannelInv, EngineInv
<1>2. CommandInv'
  <2> SUFFICES ASSUME NEW i \in 1..Len(toRenderer'), NEW d, d = toRenderer'[i]
               PROVE  /\ renderer.for <= d.session /\ d.session <= s
                      /\ d.kind = "start" =>
                            /\ renderer.for < d.session
                            /\ d.session = s \/ Contains(toRenderer', StopCapture(d.session))
                      /\ d.session = s => /\ d.kind # "stop" /\ main'.capture # "none"
                                          /\ d.kind = "drain" => main'.capture = "draining"
    BY <1>f DEF CommandInv
  <2>1. CASE i = Len(toRenderer) + 1
    BY <1>a, <1>c, <1>f, <1>s, <2>1
  <2>2. CASE i \in 1..Len(toRenderer)
    <3>1. d = toRenderer[i]
      BY <1>a, <2>2
    <3> QED BY <1>b, <1>c, <1>x, <2>2, <3>1
  <2> QED BY <1>a, <2>1, <2>2
<1>3. EngineInv'
  <2>1. renderer.engine = "draining" =>
            /\ \A i \in 1..Len(toRenderer') : toRenderer'[i] # DrainCapture(renderer.for)
            /\ renderer.for # s
    <3>1. renderer.engine = "draining" => renderer.for # s
      BY <1>c, <1>f DEF IInv, ChannelInv, EngineInv
    <3>2. c = DrainCapture(renderer.for) => renderer.for = s
      BY <1>c DEF DrainCapture
    <3>3. \A i \in 1..Len(toRenderer') : toRenderer'[i] = c \/ i \in 1..Len(toRenderer)
      BY <1>a
    <3> QED BY <1>a, <3>1, <3>2, <3>3 DEF IInv, ChannelInv, EngineInv
  <2>2. renderer.engine # "off" =>
          /\ renderer.id = renderer.for /\ renderer.for # None
          /\ renderer.for = s \/ Contains(toRenderer', StopCapture(renderer.for))
    BY <1>f, <1>x DEF IInv, ChannelInv, EngineInv
  <2>3. main'.capture # "none"
    BY <1>c
  <2> QED BY <1>f, <2>1, <2>2, <2>3 DEF EngineInv
<1>4. PortInv'
  BY DEF IInv, ChannelInv, PortInv
<1>5. \A i \in 1..Len(toMain) :
          /\ toMain[i].session <= renderer.for
          /\ toMain[i].session = s => toMain[i].kind # "stopped"
  BY <1>c, <1>f DEF IInv, ChannelInv, ReplyInv
<1>6. ReplyInv'
  BY <1>5, <1>f DEF ReplyInv
<1>7. AudioInv'
  <2>1. /\ Accounted' = Accounted /\ Recorded(s)' = Recorded(s)
        /\ Accounted <= Recorded(s)
    BY <1>f DEF Accounted, InPort, Recorded, IInv, ChannelInv, AudioInv
  <2>2. c.kind = "drain" /\ ~main'.failed /\ (\A i \in 1..Len(toMain) : toMain[i] # Stopped(s, FALSE))
            => Accounted = Recorded(s)
    BY <1>c, <1>f DEF IInv, ChannelInv, AudioInv
  <2>3. c.kind = "start" => Accounted = Recorded(s)
    <3> SUFFICES ASSUME c.kind = "start" PROVE Accounted = Recorded(s)
      OBVIOUS
    <3>1. Recorded(s) = 0 /\ InPort = 0
      BY <1>f, <1>s DEF Recorded, InPort
    <3>2. Count(toMain, Audio(s)) \in Nat
      BY <1>f, CountType
    <3> QED BY <1>f, <2>1, <3>1, <3>2 DEF Accounted
  <2> QED BY <1>c, <1>f, <2>1, <2>2, <2>3 DEF AudioInv
<1> QED BY <1>1, <1>2, <1>3, <1>4, <1>6, <1>7 DEF ChannelInv

-----------------------------------------------------------------------------
(* The renderer's steps.                                                    *)

\* What the invariant says of the renderer, in one place.
LEMMA Engine ==
    ASSUME IInv
    PROVE  /\ renderer.for \in Nat /\ renderer.for <= main.generation
           /\ main.session \in {None, main.generation} /\ None = 0
           /\ renderer.id \in {None, renderer.for}
           /\ renderer.engine # "off" =>
                 /\ renderer.id = renderer.for /\ renderer.for \in Sessions /\ renderer.for # None
                 /\ renderer.for = main.session \/ Contains(toRenderer, StopCapture(renderer.for))
           /\ main.drained => main.session # None /\ main.capture = "closed"
           /\ main.drained /\ ~main.failed => renderer.for = main.session
                                              /\ renderer.id # main.session
           /\ renderer.engine \in {"off", "starting", "capturing", "draining"}
<1>1. renderer.for \in Sessions \cup {None}
      /\ renderer.engine \in {"off", "starting", "capturing", "draining"}
  BY Facts DEF Renderers
<1>2. main.drained => main.session # None
  <2>1. ~ResetFlags(main).drained
    BY DEF ResetFlags, Idle
  <2> QED BY <2>1 DEF IInv, MainInv, Phase
<1>3. main.drained => main.capture = "closed"
  BY DEF IInv, MainInv, Connected
<1>4. /\ renderer.for <= main.generation /\ renderer.id \in {None, renderer.for}
      /\ renderer.engine # "off" =>
            /\ renderer.id = renderer.for /\ renderer.for # None
            /\ renderer.for = main.session \/ Contains(toRenderer, StopCapture(renderer.for))
  BY DEF IInv, ChannelInv, EngineInv
<1>5. main.session \in {None, main.generation}
  BY DEF IInv, MainInv, Phase
<1>6. main.drained /\ ~main.failed => renderer.for = main.session /\ renderer.id # main.session
  BY DEF IInv, ChannelInv, AudioInv
<1> QED BY <1>1, <1>2, <1>3, <1>4, <1>5, <1>6, Facts, Constants

\* The microphone neither gains nor loses audio.
LEMMA AudioKept ==
    ASSUME IInv, UNCHANGED main, renderer'.for = renderer.for,
           renderer'.recorded = renderer.recorded, renderer'.id \in {renderer.id, None},
           \A i \in 1..Len(toMain) : \E j \in 1..Len(toMain') : toMain'[j] = toMain[i],
           Accounted' = Accounted
    PROVE  AudioInv'
<1>1. Recorded(main.session)' = Recorded(main.session)
  BY DEF Recorded
<1>2. main.drained /\ ~main.failed => renderer'.id # main.session
  BY Engine
<1> QED BY <1>1, <1>2 DEF IInv, ChannelInv, AudioInv

\* A message of the running engine, or of the command that ends it.
LEMMA Replied ==
    ASSUME IInv, UNCHANGED main, NEW msg \in FromRenderer, Report(msg),
           msg.session = renderer.for, renderer.id = renderer.for,
           renderer'.for = renderer.for, renderer'.id \in {None, renderer.for},
           (msg.kind = "stopped" /\ renderer.for = main.session) =>
               main.capture \in {"draining", "closed"} /\ renderer'.id = None
    PROVE  /\ ReplyInv'
           /\ toMain' \in Seq(FromRenderer)
           /\ \A i \in 1..Len(toMain) : \E j \in 1..Len(toMain') : toMain'[j] = toMain[i]
           /\ \E j \in 1..Len(toMain') : toMain'[j] = msg
           /\ \A x : Count(toMain', x) = Count(toMain, x) + (IF msg = x THEN 1 ELSE 0)
           /\ \A x : Count(toMain, x) \in Nat
<1>1. /\ toMain' \in Seq(FromRenderer) /\ Len(toMain') = Len(toMain) + 1 /\ Len(toMain) \in Nat
      /\ toMain'[Len(toMain) + 1] = msg
      /\ \A i \in 1..Len(toMain) : toMain'[i] = toMain[i]
  BY Facts, AppendAt DEF Report
<1>2. \A x : /\ Count(toMain', x) = Count(toMain, x) + (IF msg = x THEN 1 ELSE 0)
             /\ Count(toMain, x) \in Nat
  <2> TAKE x
  <2>1. Count(Append(toMain, msg), x) = Count(toMain, x) + (IF msg = x THEN 1 ELSE 0)
    BY Facts, CountAppend
  <2>2. Count(toMain, x) \in Nat
    BY Facts, CountType
  <2> QED BY <2>1, <2>2 DEF Report
<1>3. msg.session # None
  BY Replies
<1>4. \A i \in 1..Len(toMain) :
          /\ toMain[i].session <= renderer.for
          /\ toMain[i].kind = "stopped" /\ toMain[i].session = main.session =>
                /\ main.capture \in {"draining", "closed"} /\ renderer.for # main.session
                /\ main.session # None
                /\ \A j \in 1..Len(toMain) : i < j => toMain[j].session # main.session
  <2>1. \A i \in 1..Len(toMain) : toMain[i].session # None
    BY Facts, Replies
  <2> QED BY <2>1 DEF IInv, ChannelInv, ReplyInv
<1>5. ReplyInv'
  <2> SUFFICES ASSUME NEW i \in 1..Len(toMain')
               PROVE  /\ toMain'[i].session <= renderer.for
                      /\ toMain'[i].kind = "stopped" /\ toMain'[i].session = main.session =>
                            /\ main.capture \in {"draining", "closed"}
                            /\ renderer'.id # main.session
                            /\ \A j \in 1..Len(toMain') : i < j => toMain'[j].session # main.session
    BY DEF ReplyInv
  <2>1. CASE i \in 1..Len(toMain)
    <3>1. toMain'[i] = toMain[i] /\ \A j \in 1..Len(toMain') :
                j \in 1..Len(toMain) \/ (j = Len(toMain) + 1 /\ toMain'[j] = msg)
      BY <1>1, <2>1
    <3> QED BY <1>1, <1>3, <1>4, <2>1, <3>1
  <2>2. CASE i = Len(toMain) + 1
    BY <1>1, <1>3, <2>2, Engine
  <2> QED BY <1>1, <2>1, <2>2
<1>6. \A i \in 1..Len(toMain) : \E j \in 1..Len(toMain') : toMain'[j] = toMain[i]
  <2> TAKE i \in 1..Len(toMain)
  <2>1. i \in 1..Len(toMain') /\ toMain'[i] = toMain[i]
    BY <1>1
  <2> QED BY <2>1
<1>7. \E j \in 1..Len(toMain') : toMain'[j] = msg
  <2>1. Len(toMain) + 1 \in 1..Len(toMain')
    BY <1>1
  <2> QED BY <1>1, <2>1
<1> QED BY <1>1, <1>2, <1>5, <1>6, <1>7

\* The engine stops for good, and says so unless nothing is waiting for it.
LEMMA EngineStops ==
    ASSUME IInv, UNCHANGED <<main, toRenderer>>, renderer.engine \in {"starting", "draining"},
           renderer' = EngineOff(renderer) \/ renderer' = Released(EngineOff(renderer)),
           renderer.engine = "starting" \/ renderer' = Released(EngineOff(renderer))
    PROVE  CommandOrder' /\ CommandInv' /\ EngineInv' /\ PortInv'
<1>1. /\ renderer'.for = renderer.for /\ renderer'.engine = "off" /\ renderer'.port = <<>>
      /\ renderer'.recorded = renderer.recorded /\ renderer'.id \in {renderer.id, None}
      /\ renderer.engine = "starting" \/ renderer'.id = None
  BY Facts DEF EngineOff, Released, Renderers
<1>2. CommandOrder' /\ CommandInv'
  BY <1>1 DEF IInv, ChannelInv, CommandOrder, CommandInv
<1>3. EngineInv'
  BY <1>1, Engine DEF IInv, ChannelInv, EngineInv
<1>4. PortInv'
  BY <1>1, EmptySeq DEF IInv, ChannelInv, PortInv
<1> QED BY <1>2, <1>3, <1>4

LEMMA EngineStartsInv ==
    ASSUME IInv, EngineStarts
    PROVE  ChannelInv' /\ renderer' \in Renderers /\ toMain' \in Seq(FromRenderer)
<1>0. UNCHANGED <<main, toRenderer>> /\ renderer.engine = "starting" /\ renderer.id = renderer.for
      /\ renderer.for \in Sessions
  BY Engine DEF EngineStarts, RendererUnchanged
<1>p. renderer.port = <<>> /\ renderer.recorded = 0 /\ Count(<<>>, "audio") = 0
  <2>1. Count(<<>>, "audio") = 0
    BY CountType, EmptySeq
  <2> QED BY <1>0, <2>1 DEF IInv, ChannelInv, PortInv
<1>1. CASE renderer' = [renderer EXCEPT !.engine = "capturing"] /\ UNCHANGED toMain
  <2>1. /\ renderer' \in Renderers /\ renderer'.for = renderer.for
        /\ renderer'.engine = "capturing" /\ renderer'.id = renderer.id
        /\ renderer'.recorded = renderer.recorded /\ renderer'.port = renderer.port
    BY <1>1, Facts DEF Renderers
  <2>2. CommandOrder' /\ CommandInv' /\ EngineInv'
    BY <1>0, <1>1, <2>1, Engine DEF IInv, ChannelInv, CommandOrder, CommandInv, EngineInv
  <2>3. PortInv'
    BY <1>p, <2>1, EmptySeq DEF PortInv
  <2>4. ReplyInv' /\ AudioInv'
    BY <1>0, <1>1, <2>1 DEF IInv, ChannelInv, ReplyInv, AudioInv, Accounted, InPort, Recorded
  <2> QED BY <1>1, <2>1, <2>2, <2>3, <2>4, Facts DEF ChannelInv
<1>2. CASE renderer' = EngineOff(renderer) /\ Report(CaptureError(renderer.for))
  <2>1. /\ renderer' \in Renderers /\ renderer'.for = renderer.for
        /\ renderer'.id = renderer.id /\ renderer'.recorded = renderer.recorded
        /\ renderer'.port = <<>>
    BY <1>2, Facts, EmptySeq DEF Renderers, EngineOff
  <2>2. CommandOrder' /\ CommandInv' /\ EngineInv' /\ PortInv'
    BY <1>0, <1>2, EngineStops
  <2>3. CaptureError(renderer.for) \in FromRenderer
        /\ CaptureError(renderer.for).session = renderer.for
        /\ CaptureError(renderer.for).kind = "error"
    BY <1>0, Made
  <2>4. /\ ReplyInv' /\ toMain' \in Seq(FromRenderer)
        /\ \A i \in 1..Len(toMain) : \E j \in 1..Len(toMain') : toMain'[j] = toMain[i]
        /\ \A x : Count(toMain', x) = Count(toMain, x)
                      + (IF CaptureError(renderer.for) = x THEN 1 ELSE 0)
        /\ \A x : Count(toMain, x) \in Nat
    <3> HIDE DEF CaptureError
    <3> QED BY <1>0, <1>2, <2>1, <2>3, Replied
  <2>5. CaptureError(renderer.for) # Audio(main.session)
    BY DEF CaptureError, Audio
  <2>6. Accounted' = Accounted
    BY <1>0, <1>p, <2>1, <2>4, <2>5 DEF Accounted, InPort
  <2>7. AudioInv'
    BY <1>0, <2>1, <2>4, <2>6, AudioKept
  <2> QED BY <2>1, <2>2, <2>4, <2>7 DEF ChannelInv
<1> QED BY <1>0, <1>1, <1>2 DEF EngineStarts

\* What waits in the worklet's port while the engine runs.
LEMMA Port ==
    ASSUME IInv
    PROVE  /\ renderer.port \in Seq({"audio", "drained"}) /\ Len(renderer.port) \in Nat
           /\ Count(renderer.port, "audio") \in Nat
           /\ renderer.port # <<>> => renderer.engine \in {"capturing", "draining"}
           /\ \A i \in 1..Len(renderer.port) :
                  renderer.port[i] = "drained" =>
                      i = Len(renderer.port) /\ renderer.engine = "draining"
<1>1. renderer.port \in Seq({"audio", "drained"}) /\ Len(renderer.port) \in Nat
  BY Facts
<1>2. Count(renderer.port, "audio") \in Nat
  BY <1>1, CountType
<1> QED BY <1>1, <1>2, Engine DEF IInv, ChannelInv, PortInv

LEMMA RecordInv ==
    ASSUME IInv, Record
    PROVE  ChannelInv' /\ renderer' \in Renderers
<1>0. /\ UNCHANGED <<main, toRenderer, toMain>>
      /\ renderer.engine \in {"capturing", "draining"} /\ renderer.recorded < MaxAudio
      /\ ~Contains(renderer.port, "drained")
      /\ renderer' = [renderer EXCEPT !.recorded = @ + 1, !.port = Append(@, "audio")]
  BY DEF Record, RendererUnchanged
<1>1. /\ Append(renderer.port, "audio") \in Seq({"audio", "drained"})
      /\ Len(Append(renderer.port, "audio")) = Len(renderer.port) + 1
      /\ Append(renderer.port, "audio")[Len(renderer.port) + 1] = "audio"
      /\ \A i \in 1..Len(renderer.port) : Append(renderer.port, "audio")[i] = renderer.port[i]
      /\ Count(Append(renderer.port, "audio"), "audio") = Count(renderer.port, "audio") + 1
  BY Port, AppendAt, CountAppend
<1>2. renderer.recorded + 1 \in 0..MaxAudio
  BY <1>0, Facts, Constants
<1>3. /\ renderer' \in Renderers /\ renderer'.for = renderer.for
      /\ renderer'.engine = renderer.engine /\ renderer'.id = renderer.id
      /\ renderer'.recorded = renderer.recorded + 1
      /\ renderer'.port = Append(renderer.port, "audio")
  BY <1>0, <1>1, <1>2, Facts DEF Renderers
<1>4. CommandOrder' /\ CommandInv' /\ EngineInv' /\ ReplyInv'
  BY <1>0, <1>3 DEF IInv, ChannelInv, CommandOrder, CommandInv, EngineInv, ReplyInv
<1>5. PortInv'
  <2>1. \A i \in 1..Len(renderer'.port) : renderer'.port[i] # "drained"
    BY <1>0, <1>1, <1>3, Port DEF Contains
  <2> QED BY <1>0, <1>3, <2>1 DEF PortInv
<1>6. /\ Count(renderer.port, "audio") \in Nat /\ Count(toMain, Audio(main.session)) \in Nat
      /\ main.sent \in Nat /\ renderer.recorded \in Nat
  <2>1. Count(toMain, Audio(main.session)) \in Nat
    BY Facts, CountType
  <2> QED BY <2>1, Port, Facts, Constants
<1>7. AudioInv'
  <2>1. CASE renderer.for = main.session
    <3>a. /\ InPort' = InPort + 1 /\ InPort \in Nat
          /\ (Recorded(main.session))' = Recorded(main.session) + 1
          /\ Recorded(main.session) \in Nat
      BY <1>0, <1>1, <1>3, <1>6, <2>1 DEF InPort, Recorded
    <3>1. Accounted' = Accounted + 1 /\ (Recorded(main.session))' = Recorded(main.session) + 1
          /\ Accounted \in Nat /\ Recorded(main.session) \in Nat
      BY <1>0, <1>6, <3>a DEF Accounted
    <3>2. ~(main.drained /\ ~main.failed)
      BY <1>0, <2>1, Engine
    <3>3. AudioInv
      BY DEF IInv, ChannelInv
    <3>4. main.session # None => Accounted' <= (Recorded(main.session))'
      BY <3>1, <3>3 DEF AudioInv
    <3>5. /\ main.capture \in {"capturing", "draining"} /\ ~main.failed
          /\ \A i \in 1..Len(toMain) : toMain[i] # Stopped(main.session, FALSE)
          => Accounted' = (Recorded(main.session))'
      BY <3>1, <3>3 DEF AudioInv
    <3> QED BY <1>0, <3>2, <3>4, <3>5 DEF AudioInv
  <2>2. CASE renderer.for # main.session
    <3>1. Accounted' = Accounted /\ (Recorded(main.session))' = Recorded(main.session)
      BY <1>0, <1>3, <2>2 DEF Accounted, InPort, Recorded
    <3> QED BY <1>0, <1>3, <3>1 DEF IInv, ChannelInv, AudioInv
  <2> QED BY <2>1, <2>2
<1> QED BY <1>3, <1>4, <1>5, <1>7 DEF ChannelInv

LEMMA AnswerDrainInv ==
    ASSUME IInv, AnswerDrain
    PROVE  ChannelInv' /\ renderer' \in Renderers
<1>0. /\ UNCHANGED <<main, toRenderer, toMain>>
      /\ renderer.engine = "draining" /\ ~Contains(renderer.port, "drained")
      /\ renderer' = [renderer EXCEPT !.port = Append(@, "drained")]
  BY DEF AnswerDrain, RendererUnchanged
<1>1. /\ Append(renderer.port, "drained") \in Seq({"audio", "drained"})
      /\ Len(Append(renderer.port, "drained")) = Len(renderer.port) + 1
      /\ \A i \in 1..Len(renderer.port) : Append(renderer.port, "drained")[i] = renderer.port[i]
      /\ Count(Append(renderer.port, "drained"), "audio") = Count(renderer.port, "audio")
  BY Port, AppendAt, CountAppend
<1>2. /\ renderer' \in Renderers /\ renderer'.for = renderer.for
      /\ renderer'.engine = renderer.engine /\ renderer'.id = renderer.id
      /\ renderer'.recorded = renderer.recorded
      /\ renderer'.port = Append(renderer.port, "drained")
  BY <1>0, <1>1, Facts DEF Renderers
<1>3. CommandOrder' /\ CommandInv' /\ EngineInv' /\ ReplyInv'
  BY <1>0, <1>2 DEF IInv, ChannelInv, CommandOrder, CommandInv, EngineInv, ReplyInv
<1>4. PortInv'
  <2>1. \A i \in 1..Len(renderer'.port) :
            renderer'.port[i] = "drained" => i = Len(renderer'.port)
    BY <1>0, <1>1, <1>2, Port DEF Contains
  <2> QED BY <1>0, <1>2, <2>1 DEF PortInv
<1>5. Accounted' = Accounted
  BY <1>0, <1>1, <1>2 DEF Accounted, InPort
<1>6. AudioInv'
  BY <1>0, <1>2, <1>5, AudioKept
<1> QED BY <1>2, <1>3, <1>4, <1>6 DEF ChannelInv

\* The engine has been drained, or the second it has for that is over.
LEMMA DrainEndsInv ==
    ASSUME IInv, NEW d \in BOOLEAN, DrainEnds(d), UNCHANGED <<main, toRenderer>>,
           renderer.engine = "draining",
           d => renderer.port # <<>> /\ Head(renderer.port) = "drained"
    PROVE  ChannelInv' /\ renderer' \in Renderers /\ toMain' \in Seq(FromRenderer)
<1> DEFINE msg == Stopped(renderer.for, d)
<1>1. renderer.for \in Sessions /\ renderer.id = renderer.for
  BY Engine
<1>2. renderer' = Released(EngineOff(renderer)) /\ Report(msg)
  BY <1>1 DEF DrainEnds
<1>3. /\ renderer' \in Renderers /\ renderer'.for = renderer.for /\ renderer'.id = None
      /\ renderer'.recorded = renderer.recorded /\ renderer'.port = <<>>
  BY <1>2, Facts, EmptySeq DEF Renderers, Released, EngineOff
<1>4. CommandOrder' /\ CommandInv' /\ EngineInv' /\ PortInv'
  BY <1>2, EngineStops
<1>5. msg \in FromRenderer /\ msg.session = renderer.for /\ msg.kind = "stopped"
  BY <1>1, Made
<1>6. renderer.for = main.session => main.capture \in {"draining", "closed"}
  BY DEF IInv, ChannelInv, EngineInv
<1>7. msg # Audio(main.session) /\ (renderer.for = main.session => msg = Stopped(main.session, d))
  BY DEF Stopped, Audio
<1> HIDE DEF msg
<1>8. /\ ReplyInv' /\ toMain' \in Seq(FromRenderer)
      /\ \A i \in 1..Len(toMain) : \E j \in 1..Len(toMain') : toMain'[j] = toMain[i]
      /\ \E j \in 1..Len(toMain') : toMain'[j] = msg
      /\ \A x : Count(toMain', x) = Count(toMain, x) + (IF msg = x THEN 1 ELSE 0)
      /\ \A x : Count(toMain, x) \in Nat
  BY <1>1, <1>2, <1>3, <1>5, <1>6, Replied
<1>9. /\ Count(<<>>, "audio") = 0 /\ Count(renderer.port, "audio") \in Nat
      /\ main.sent \in Nat
  BY CountType, EmptySeq, Port, Facts
<1>10. (Recorded(main.session))' = Recorded(main.session)
       /\ Count(toMain', Audio(main.session)) = Count(toMain, Audio(main.session))
       /\ Count(toMain, Audio(main.session)) \in Nat
  BY <1>3, <1>7, <1>8 DEF Recorded
<1>11. CASE d
  <2>1. Count(renderer.port, "audio") = 0
    <3>0. renderer.port # <<>> /\ Head(renderer.port) = "drained"
      BY <1>11
    <3>1. Len(renderer.port) \in Nat \ {0} /\ renderer.port[1] = "drained"
      BY <3>0, Port, TailAt
    <3>3. Len(renderer.port) = 1
      <4>1. 1 \in 1..Len(renderer.port)
        BY <3>1
      <4> QED BY <3>1, <4>1, Port
    <3>2. \A i \in 1..Len(renderer.port) : renderer.port[i] # "audio"
      BY <3>1, <3>3
    <3> QED BY <3>2, Port, CountType
  <2>2. Accounted' = Accounted
    BY <1>3, <1>9, <1>10, <2>1 DEF Accounted, InPort
  <2>3. AudioInv'
    BY <1>3, <1>8, <2>2, AudioKept
  <2> QED BY <1>3, <1>4, <1>8, <2>3 DEF ChannelInv
<1>12. CASE ~d
  <2>1. CASE renderer.for = main.session
    <3>1. Accounted' <= Accounted /\ Accounted' \in Nat /\ Accounted \in Nat
      BY <1>3, <1>9, <1>10 DEF Accounted, InPort
    <3>2. \E j \in 1..Len(toMain') : toMain'[j] = Stopped(main.session, FALSE)
      BY <1>7, <1>8, <1>12, <2>1
    <3>3. ~(main.drained /\ ~main.failed)
      BY <1>1, <2>1, Engine
    <3>4. main.session # None => Accounted' <= Recorded(main.session)
      <4>1. main.session # None => Accounted <= Recorded(main.session)
        BY DEF IInv, ChannelInv, AudioInv
      <4>2. Recorded(main.session) \in Nat
        BY Facts, Constants DEF Recorded
      <4> QED BY <3>1, <4>1, <4>2
    <3>5. AudioInv'
      BY <1>10, <3>2, <3>3, <3>4 DEF AudioInv
    <3> QED BY <1>3, <1>4, <1>8, <3>5 DEF ChannelInv
  <2>2. CASE renderer.for # main.session
    <3>1. Accounted' = Accounted
      BY <1>3, <1>10, <2>2 DEF Accounted, InPort
    <3>2. AudioInv'
      BY <1>3, <1>8, <3>1, AudioKept
    <3> QED BY <1>3, <1>4, <1>8, <3>2 DEF ChannelInv
  <2> QED BY <2>1, <2>2
<1> QED BY <1>11, <1>12

LEMMA PortMessageInv ==
    ASSUME IInv, PortMessage \/ RendererTimeout
    PROVE  ChannelInv' /\ renderer' \in Renderers /\ toMain' \in Seq(FromRenderer)
<1>0. UNCHANGED <<main, toRenderer>>
  BY DEF PortMessage, RendererTimeout, RendererUnchanged
<1>1. CASE RendererTimeout
  BY <1>0, <1>1, DrainEndsInv DEF RendererTimeout
<1>2. CASE renderer.port # <<>> /\ Head(renderer.port) = "drained" /\ DrainEnds(TRUE)
  <2>1. renderer.engine = "draining"
    BY <1>2, Port, TailAt
  <2> QED BY <1>0, <1>2, <2>1, DrainEndsInv
<1>3. CASE /\ renderer.port # <<>> /\ Head(renderer.port) = "audio"
           /\ renderer' = [renderer EXCEPT !.port = Tail(@)]
           /\ Report(Audio(renderer.for))
  <2>1. /\ renderer.engine \in {"capturing", "draining"}
        /\ renderer.id = renderer.for /\ renderer.for \in Sessions
    BY <1>3, Port, Engine
  <2>2. /\ Tail(renderer.port) \in Seq({"audio", "drained"})
        /\ Len(Tail(renderer.port)) = Len(renderer.port) - 1
        /\ \A i \in 1..(Len(renderer.port) - 1) : Tail(renderer.port)[i] = renderer.port[i + 1]
        /\ Count(renderer.port, "audio") = Count(Tail(renderer.port), "audio") + 1
        /\ Count(Tail(renderer.port), "audio") \in Nat
    <3>1. /\ Tail(renderer.port) \in Seq({"audio", "drained"})
          /\ Len(Tail(renderer.port)) = Len(renderer.port) - 1
          /\ \A i \in 1..(Len(renderer.port) - 1) : Tail(renderer.port)[i] = renderer.port[i + 1]
          /\ renderer.port[1] = "audio"
      BY <1>3, Port, TailAt
    <3>2. Count(renderer.port, "audio") = Count(Tail(renderer.port), "audio") + 1
      BY <1>3, <3>1, Port, CountTail
    <3>3. Count(Tail(renderer.port), "audio") \in Nat
      BY <3>1, CountType
    <3> QED BY <3>1, <3>2, <3>3
  <2>3. /\ renderer' \in Renderers /\ renderer'.for = renderer.for
        /\ renderer'.engine = renderer.engine /\ renderer'.id = renderer.id
        /\ renderer'.recorded = renderer.recorded
        /\ renderer'.port = Tail(renderer.port)
    BY <1>3, <2>2, Facts DEF Renderers
  <2>4. CommandOrder' /\ CommandInv' /\ EngineInv'
    BY <1>0, <2>3 DEF IInv, ChannelInv, CommandOrder, CommandInv, EngineInv
  <2>5. PortInv'
    <3>1. \A i \in 1..Len(renderer'.port) :
              renderer'.port[i] = "drained" => i = Len(renderer'.port)
                                               /\ renderer.engine = "draining"
      <4> SUFFICES ASSUME NEW i \in 1..Len(Tail(renderer.port)),
                          Tail(renderer.port)[i] = "drained"
                   PROVE  i = Len(renderer.port) - 1 /\ renderer.engine = "draining"
        BY <2>2, <2>3
      <4>1. i + 1 \in 1..Len(renderer.port) /\ renderer.port[i + 1] = "drained"
        BY <2>2, Port
      <4> QED BY <4>1, Port
    <3> QED BY <2>1, <2>3, <3>1 DEF PortInv
  <2>6. Audio(renderer.for) \in FromRenderer /\ Audio(renderer.for).session = renderer.for
        /\ Audio(renderer.for).kind = "audio"
    BY <2>1, Made
  <2>7. Audio(renderer.for) = Audio(main.session) <=> renderer.for = main.session
    BY DEF Audio
  <2>8. /\ ReplyInv' /\ toMain' \in Seq(FromRenderer)
        /\ \A i \in 1..Len(toMain) : \E j \in 1..Len(toMain') : toMain'[j] = toMain[i]
        /\ \A x : Count(toMain', x) = Count(toMain, x) + (IF Audio(renderer.for) = x THEN 1 ELSE 0)
        /\ \A x : Count(toMain, x) \in Nat
    <3> HIDE DEF Audio
    <3> QED BY <1>0, <1>3, <2>1, <2>3, <2>6, Replied
  <2>9. Accounted' = Accounted
    <3>1. CASE renderer.for = main.session
      <4>1. InPort' = InPort - 1 /\ InPort \in Nat
        BY <1>0, <2>2, <2>3, <3>1, Port DEF InPort
      <4>2. Count(toMain', Audio(main.session)) = Count(toMain, Audio(main.session)) + 1
            /\ Count(toMain, Audio(main.session)) \in Nat
        BY <2>7, <2>8, <3>1
      <4> QED BY <1>0, <4>1, <4>2, Facts DEF Accounted
    <3>2. CASE renderer.for # main.session
      <4>1. InPort' = 0 /\ InPort = 0
        BY <1>0, <2>3, <3>2 DEF InPort
      <4>2. Count(toMain', Audio(main.session)) = Count(toMain, Audio(main.session))
            /\ Count(toMain, Audio(main.session)) \in Nat
        BY <2>7, <2>8, <3>2
      <4> QED BY <1>0, <4>1, <4>2, Facts DEF Accounted
    <3> QED BY <3>1, <3>2
  <2>10. AudioInv'
    BY <1>0, <2>3, <2>8, <2>9, AudioKept
  <2> QED BY <2>3, <2>4, <2>5, <2>8, <2>10 DEF ChannelInv
<1> QED BY <1>1, <1>2, <1>3 DEF PortMessage

\* The first command on its way, and what it leaves behind it.
LEMMA FirstCommand ==
    ASSUME IInv, toRenderer # <<>>, NEW c, c = Head(toRenderer)
    PROVE  /\ c = toRenderer[1] /\ c \in FromMain /\ 1 \in 1..Len(toRenderer)
           /\ c.session \in Sessions /\ c.session \in Nat /\ c.session # None
           /\ c.kind \in {"start", "stop", "drain"}
           /\ renderer.for <= c.session /\ c.session <= main.generation
           /\ c.kind = "start" =>
                 /\ renderer.for < c.session
                 /\ c.session = main.session \/ Contains(toRenderer, StopCapture(c.session))
           /\ c.session = main.session =>
                 /\ c.kind # "stop" /\ main.capture # "none"
                 /\ c.kind = "drain" => main.capture \in {"draining", "closed"}
           /\ \A i \in 2..Len(toRenderer) : Before(c, toRenderer[i])
<1>1. c = toRenderer[1] /\ c \in FromMain /\ Len(toRenderer) \in Nat \ {0}
  BY Facts, TailAt
<1>2. 1 \in 1..Len(toRenderer)
  BY <1>1
<1>3. /\ c.session \in Sessions /\ c.session \in Nat /\ c.session # None
      /\ c.kind \in {"start", "stop", "drain"}
  BY <1>1, Commands
<1>4. /\ renderer.for <= c.session /\ c.session <= main.generation
      /\ c.kind = "start" =>
            /\ renderer.for < c.session
            /\ c.session = main.session \/ Contains(toRenderer, StopCapture(c.session))
      /\ c.session = main.session =>
            /\ c.kind # "stop" /\ main.capture # "none"
            /\ c.kind = "drain" => main.capture \in {"draining", "closed"}
  BY <1>1, <1>2 DEF IInv, ChannelInv, CommandInv
<1>5. \A i \in 2..Len(toRenderer) : Before(c, toRenderer[i])
  <2> TAKE i \in 2..Len(toRenderer)
  <2>1. 1 \in 1..Len(toRenderer) /\ i \in 1..Len(toRenderer) /\ 1 < i
    BY <1>1
  <2> QED BY <1>1, <2>1 DEF IInv, ChannelInv, CommandOrder
<1> QED BY <1>1, <1>2, <1>3, <1>4, <1>5

\* A start never finds the microphone of an earlier session still running.
LEMMA StartFindsEngineOff ==
    ASSUME IInv, toRenderer # <<>>, Head(toRenderer).kind = "start"
    PROVE  renderer.engine = "off"
<1> SUFFICES ASSUME renderer.engine # "off" PROVE FALSE
  OBVIOUS
<1> DEFINE c == Head(toRenderer)
<1>1. /\ c = toRenderer[1] /\ c.kind = "start" /\ c.session \in Nat
      /\ renderer.for < c.session /\ c.session <= main.generation
      /\ \A i \in 2..Len(toRenderer) : Before(c, toRenderer[i])
  BY FirstCommand
<1> HIDE DEF c
<1>2. /\ renderer.for \in Sessions /\ renderer.for \in Nat /\ renderer.for # None
      /\ main.session \in {None, main.generation} /\ main.generation \in Nat
  BY Engine, Facts
<1>3. renderer.for # main.session
  BY <1>1, <1>2
<1>4. PICK i \in 1..Len(toRenderer) : toRenderer[i] = StopCapture(renderer.for)
  BY <1>3, Engine DEF Contains
<1>5. StopCapture(renderer.for).kind = "stop" /\ StopCapture(renderer.for).session = renderer.for
  BY <1>2, Made
<1>6. i # 1
  BY <1>1, <1>4, <1>5
<1>7. Before(c, StopCapture(renderer.for))
  BY <1>1, <1>4, <1>6, Facts
<1> QED BY <1>1, <1>2, <1>5, <1>7 DEF Before

\* Taking a command off the channel.
LEMMA CommandTaken ==
    ASSUME IInv, toRenderer # <<>>, toRenderer' = Tail(toRenderer), UNCHANGED main,
           NEW c, c = Head(toRenderer),
           renderer'.for = renderer.for \/ (c.kind = "start" /\ renderer'.for = c.session)
    PROVE  /\ toRenderer' \in Seq(FromMain) /\ CommandOrder' /\ CommandInv'
           /\ \A x : x # c /\ Contains(toRenderer, x) => Contains(toRenderer', x)
           /\ \A i \in 1..Len(toRenderer') : Before(c, toRenderer'[i])
                  /\ \E j \in 1..Len(toRenderer) : toRenderer'[i] = toRenderer[j]
<1>1. /\ toRenderer' \in Seq(FromMain) /\ Len(toRenderer') = Len(toRenderer) - 1
      /\ Len(toRenderer) \in Nat \ {0} /\ c = toRenderer[1]
      /\ \A i \in 1..Len(toRenderer') :
             toRenderer'[i] = toRenderer[i + 1] /\ i + 1 \in 1..Len(toRenderer)
  <2>1. /\ Tail(toRenderer) \in Seq(FromMain) /\ Len(Tail(toRenderer)) = Len(toRenderer) - 1
        /\ Len(toRenderer) \in Nat \ {0} /\ c = toRenderer[1]
        /\ \A i \in 1..(Len(toRenderer) - 1) : Tail(toRenderer)[i] = toRenderer[i + 1]
    BY Facts, TailAt
  <2> QED BY <2>1
<1>c. /\ c.session \in Nat /\ renderer.for \in Nat
      /\ c.kind \in {"start", "stop", "drain"}
      /\ \A i \in 2..Len(toRenderer) : Before(c, toRenderer[i])
  BY FirstCommand, Facts
<1>2. CommandOrder'
  <2> SUFFICES ASSUME NEW i \in 1..Len(toRenderer'), NEW j \in 1..Len(toRenderer'), i < j
               PROVE  Before(toRenderer'[i], toRenderer'[j])
    BY DEF CommandOrder
  <2>1. i + 1 \in 1..Len(toRenderer) /\ j + 1 \in 1..Len(toRenderer) /\ i + 1 < j + 1
    BY <1>1
  <2>2. Before(toRenderer[i + 1], toRenderer[j + 1])
    BY <2>1 DEF IInv, ChannelInv, CommandOrder
  <2> QED BY <1>1, <2>2
<1>3. \A x : x # c /\ Contains(toRenderer, x) => Contains(toRenderer', x)
  <2> SUFFICES ASSUME NEW x, x # c, NEW k \in 1..Len(toRenderer), toRenderer[k] = x
               PROVE  \E i \in 1..Len(toRenderer') : toRenderer'[i] = x
    BY DEF Contains
  <2>1. k # 1
    BY <1>1
  <2>2. k - 1 \in 1..Len(toRenderer') /\ toRenderer[(k - 1) + 1] = x
    BY <1>1, <2>1
  <2> QED BY <1>1, <2>2
<1>4. \A i \in 1..Len(toRenderer') : /\ Before(c, toRenderer'[i])
                                     /\ \E j \in 1..Len(toRenderer) : toRenderer'[i] = toRenderer[j]
  <2> TAKE i \in 1..Len(toRenderer')
  <2>1. toRenderer'[i] = toRenderer[i + 1] /\ i + 1 \in 2..Len(toRenderer)
        /\ i + 1 \in 1..Len(toRenderer)
    BY <1>1
  <2> QED BY <1>c, <2>1
<1>5. CommandInv'
  <2> SUFFICES ASSUME NEW i \in 1..Len(toRenderer'), NEW d, d = toRenderer'[i]
               PROVE  /\ renderer'.for <= d.session /\ d.session <= main.generation
                      /\ d.kind = "start" =>
                            /\ renderer'.for < d.session
                            /\ d.session = main.session
                               \/ Contains(toRenderer', StopCapture(d.session))
                      /\ d.session = main.session =>
                            /\ d.kind # "stop" /\ main.capture # "none"
                            /\ d.kind = "drain" => main.capture \in {"draining", "closed"}
    BY DEF CommandInv
  <2>1. i + 1 \in 1..Len(toRenderer) /\ d = toRenderer[i + 1]
    BY <1>1
  <2>2. /\ renderer.for <= d.session /\ d.session <= main.generation
        /\ d.kind = "start" =>
              /\ renderer.for < d.session
              /\ d.session = main.session \/ Contains(toRenderer, StopCapture(d.session))
        /\ d.session = main.session =>
              /\ d.kind # "stop" /\ main.capture # "none"
              /\ d.kind = "drain" => main.capture \in {"draining", "closed"}
    BY <2>1 DEF IInv, ChannelInv, CommandInv
  <2>3. Before(c, d)
    BY <1>4
  <2>4. d \in FromMain /\ d.session \in Nat
    <3>1. d \in FromMain
      BY <2>1, Facts
    <3> QED BY <3>1, Commands
  <2>5. c.session <= d.session /\ (d.kind = "start" => c.session < d.session)
    BY <1>c, <2>3, <2>4 DEF Before
  <2>6. d.kind = "start" => c # StopCapture(d.session)
    BY <1>c, <2>4, <2>5 DEF StopCapture
  <2>7. renderer'.for <= d.session /\ (d.kind = "start" => renderer'.for < d.session)
    BY <1>c, <2>2, <2>4, <2>5
  <2> QED BY <1>3, <2>2, <2>6, <2>7
<1> QED BY <1>1, <1>2, <1>3, <1>4, <1>5

\* The microphone is turned on for a session.
LEMMA StartTaken ==
    ASSUME IInv, HandleCommand, Head(toRenderer).kind = "start"
    PROVE  ChannelInv' /\ renderer' \in Renderers
<1> DEFINE c == Head(toRenderer)
           s == c.session
<1>0. /\ toRenderer # <<>> /\ toRenderer' = Tail(toRenderer) /\ UNCHANGED <<main, toMain>>
      /\ renderer' = StartEngine(renderer, s)
  BY DEF HandleCommand, RendererUnchanged
<1>1. renderer.engine = "off"
  BY <1>0, StartFindsEngineOff
<1>2. /\ c \in FromMain /\ c.kind = "start"
      /\ s \in Sessions /\ s \in Nat /\ s # None
      /\ renderer.for < s /\ s <= main.generation
      /\ s = main.session \/ Contains(toRenderer, StopCapture(s))
      /\ s = main.session => main.capture # "none"
  BY <1>0, FirstCommand
<1>3. c # StopCapture(s)
  BY <1>2 DEF StopCapture
<1> HIDE DEF c, s
<1>4. /\ renderer' = [id |-> s, engine |-> "starting", for |-> s, recorded |-> 0, port |-> <<>>]
      /\ renderer' \in Renderers
  <2>1. renderer' = [id |-> s, engine |-> "starting", for |-> s, recorded |-> 0, port |-> <<>>]
    BY <1>0, <1>1 DEF StartEngine
  <2> QED BY <1>2, <2>1, Constants, EmptySeq DEF Renderers
<1>5. /\ CommandOrder' /\ CommandInv'
      /\ \A x : x # c /\ Contains(toRenderer, x) => Contains(toRenderer', x)
  BY <1>0, <1>2, <1>4, CommandTaken DEF c, s
<1>6. /\ main.session \in {None, main.generation} /\ None = 0 /\ main.generation \in Nat
      /\ renderer.for \in Nat /\ main.session \in Nat
  BY Engine, Facts
<1>7. EngineInv'
  <2>1. s = main.session \/ Contains(toRenderer', StopCapture(s))
    BY <1>2, <1>3, <1>5
  <2>2. main.session # None /\ main.capture = "none" => s < main.session
    BY <1>2, <1>6
  <2> QED BY <1>0, <1>2, <1>4, <2>1, <2>2 DEF EngineInv
<1>8. PortInv'
  BY <1>4, EmptySeq DEF PortInv
<1>9. ReplyInv'
  <2>1. \A i \in 1..Len(toMain) : toMain[i].session \in Nat /\ toMain[i].session <= renderer.for
    BY Facts, Replies DEF IInv, ChannelInv, ReplyInv
  <2>2. \A i \in 1..Len(toMain) : toMain[i].session = main.session => main.session # s
    BY <1>2, <1>6, <2>1
  <2>3. \A i \in 1..Len(toMain) : toMain[i].session <= s
    BY <1>2, <1>6, <2>1
  <2> QED BY <1>0, <1>4, <2>2, <2>3 DEF IInv, ChannelInv, ReplyInv
<1>10. AudioInv'
  <2>1. renderer.for # main.session \/ main.session = None
    BY <1>2, <1>6
  <2>2. main.capture \in {"capturing", "draining"} => main.session # None
    <3>1. main.session = None => main.capture = "none"
      <4>1. ResetFlags(main).capture = "none"
        BY DEF ResetFlags, Idle
      <4> QED BY <4>1 DEF IInv, MainInv, Phase
    <3> QED BY <3>1
  <2>3. ~(main.drained /\ ~main.failed)
    BY <2>1, Engine
  <2>4. main.session # None => /\ InPort = 0 /\ InPort' = 0 /\ Recorded(main.session) = 0
                               /\ (Recorded(main.session))' = 0
    <3>1. Count(<<>>, "audio") = 0
      BY CountType, EmptySeq
    <3> QED BY <1>0, <1>4, <2>1, <3>1 DEF InPort, Recorded
  <2>5. main.session # None => Accounted' = Accounted
    BY <1>0, <2>4 DEF Accounted
  <2> QED BY <1>0, <2>2, <2>3, <2>4, <2>5 DEF IInv, ChannelInv, AudioInv
<1> QED BY <1>4, <1>5, <1>7, <1>8, <1>9, <1>10 DEF ChannelInv

\* The microphone is turned off at once.
LEMMA StopTaken ==
    ASSUME IInv, HandleCommand, Head(toRenderer).kind = "stop",
           Head(toRenderer).session = renderer.id
    PROVE  ChannelInv' /\ renderer' \in Renderers /\ toMain' \in Seq(FromRenderer)
<1> DEFINE c == Head(toRenderer)
<1>0. /\ toRenderer # <<>> /\ toRenderer' = Tail(toRenderer) /\ UNCHANGED main
      /\ renderer' = Released(EngineOff(renderer))
      /\ IF renderer.engine = "draining"
         THEN Report(Stopped(c.session, FALSE)) ELSE UNCHANGED toMain
  BY DEF HandleCommand, RendererUnchanged
<1>1. /\ c.session \in Sessions /\ c.session # None /\ c.session # main.session
      /\ c.session = renderer.for /\ renderer.id = renderer.for
  BY <1>0, FirstCommand, Engine
<1>2. /\ renderer' \in Renderers /\ renderer'.for = renderer.for /\ renderer'.id = None
      /\ renderer'.recorded = renderer.recorded /\ renderer'.port = <<>>
      /\ renderer'.engine = "off"
  BY <1>0, Facts, EmptySeq DEF Renderers, Released, EngineOff
<1>3. CommandOrder' /\ CommandInv'
  BY <1>0, <1>2, CommandTaken
<1>4. EngineInv' /\ PortInv'
  BY <1>0, <1>1, <1>2, EmptySeq DEF IInv, ChannelInv, EngineInv, PortInv
<1>5. Stopped(c.session, FALSE) \in FromRenderer
      /\ Stopped(c.session, FALSE).session = c.session
      /\ Stopped(c.session, FALSE).kind = "stopped"
  BY <1>1, Made
<1>6. Stopped(c.session, FALSE) # Audio(main.session)
  BY DEF Stopped, Audio
<1>7. InPort' = 0 /\ InPort = 0
  BY <1>0, <1>1, <1>2 DEF InPort
<1> HIDE DEF c
<1>8. CASE renderer.engine = "draining"
  <2>1. /\ ReplyInv' /\ toMain' \in Seq(FromRenderer)
        /\ \A i \in 1..Len(toMain) : \E j \in 1..Len(toMain') : toMain'[j] = toMain[i]
        /\ \A x : Count(toMain', x) = Count(toMain, x)
                      + (IF Stopped(c.session, FALSE) = x THEN 1 ELSE 0)
        /\ \A x : Count(toMain, x) \in Nat
    <3> HIDE DEF Stopped
    <3> QED BY <1>0, <1>1, <1>2, <1>5, <1>8, Replied
  <2>2. Accounted' = Accounted
    <3>0. /\ Count(toMain, Audio(main.session)) \in Nat
          /\ Count(toMain', Audio(main.session)) = Count(toMain, Audio(main.session))
                 + (IF Stopped(c.session, FALSE) = Audio(main.session) THEN 1 ELSE 0)
      BY <2>1
    <3>1. Count(toMain', Audio(main.session)) = Count(toMain, Audio(main.session))
      BY <1>6, <3>0
    <3> QED BY <1>0, <1>7, <3>1 DEF Accounted
  <2>3. AudioInv'
    BY <1>0, <1>2, <2>1, <2>2, AudioKept
  <2> QED BY <1>2, <1>3, <1>4, <2>1, <2>3 DEF ChannelInv
<1>9. CASE renderer.engine # "draining"
  <2>1. UNCHANGED toMain
    BY <1>0, <1>9
  <2>2. Accounted' = Accounted
    BY <1>0, <1>7, <2>1 DEF Accounted
  <2>3. AudioInv'
    BY <1>0, <1>2, <2>1, <2>2, AudioKept
  <2>4. ReplyInv'
    <3>1. renderer'.id = main.session => main.session = None
      BY <1>2
    <3>2. \A i \in 1..Len(toMain) : toMain[i].session # None
      BY Facts, Replies
    <3> QED BY <1>0, <1>2, <2>1, <3>1, <3>2 DEF IInv, ChannelInv, ReplyInv
  <2> QED BY <1>2, <1>3, <1>4, <2>1, <2>3, <2>4, Facts DEF ChannelInv
<1> QED BY <1>8, <1>9

\* The microphone is to be drained; if it has not started there is nothing to drain.
LEMMA DrainTaken ==
    ASSUME IInv, HandleCommand, Head(toRenderer).kind = "drain",
           Head(toRenderer).session = renderer.id
    PROVE  ChannelInv' /\ renderer' \in Renderers /\ toMain' \in Seq(FromRenderer)
<1> DEFINE c == Head(toRenderer)
           s == c.session
<1>0. /\ toRenderer # <<>> /\ toRenderer' = Tail(toRenderer) /\ UNCHANGED main
      /\ IF renderer.engine = "capturing"
         THEN renderer' = [renderer EXCEPT !.engine = "draining"] /\ UNCHANGED toMain
         ELSE /\ renderer' = Released(EngineOff(renderer))
              /\ Report(Stopped(s, TRUE))
  BY DEF HandleCommand, RendererUnchanged
<1>1. /\ s \in Sessions /\ s # None /\ s = renderer.for /\ renderer.id = renderer.for
      /\ c \in FromMain /\ c = toRenderer[1] /\ 1 \in 1..Len(toRenderer)
      /\ s = main.session => main.capture \in {"draining", "closed"}
  BY <1>0, FirstCommand, Engine
<1>2. c = DrainCapture(s) /\ c.kind = "drain" /\ s \in Nat
  BY <1>1, Commands
<1>3. StopCapture(renderer.for) # c
  BY <1>2 DEF StopCapture
<1>4. Stopped(s, TRUE) # Audio(main.session)
  BY DEF Stopped, Audio
<1> HIDE DEF c, s
<1>5. CASE renderer.engine = "capturing"
  <2>1. /\ renderer' \in Renderers /\ renderer'.for = renderer.for
        /\ renderer'.engine = "draining" /\ renderer'.id = renderer.id
        /\ renderer'.recorded = renderer.recorded /\ renderer'.port = renderer.port
        /\ UNCHANGED toMain
    BY <1>0, <1>5, Facts DEF Renderers
  <2>2. /\ CommandOrder' /\ CommandInv'
        /\ \A x : x # c /\ Contains(toRenderer, x) => Contains(toRenderer', x)
        /\ \A i \in 1..Len(toRenderer') : Before(c, toRenderer'[i])
    BY <1>0, <2>1, CommandTaken DEF c
  <2>3. \A i \in 1..Len(toRenderer') : toRenderer'[i] # DrainCapture(renderer.for)
    <3>1. ~Before(c, c)
      BY <1>2 DEF Before, s
    <3> QED BY <1>1, <1>2, <2>2, <3>1
  <2>4. renderer.for = main.session \/ Contains(toRenderer', StopCapture(renderer.for))
    BY <1>3, <1>5, <2>2, Engine
  <2>5. EngineInv'
    BY <1>0, <1>1, <2>1, <2>3, <2>4 DEF IInv, ChannelInv, EngineInv
  <2>6. PortInv'
    BY <1>5, <2>1 DEF IInv, ChannelInv, PortInv
  <2>7. ReplyInv'
    BY <1>0, <2>1 DEF IInv, ChannelInv, ReplyInv
  <2>8. AudioInv'
    BY <1>0, <2>1 DEF IInv, ChannelInv, AudioInv, Accounted, InPort, Recorded
  <2> QED BY <2>1, <2>2, <2>5, <2>6, <2>7, <2>8, Facts DEF ChannelInv
<1>6. CASE renderer.engine # "capturing"
  <2>1. renderer' = Released(EngineOff(renderer)) /\ Report(Stopped(s, TRUE))
    BY <1>0, <1>6
  <2>2. renderer.engine \in {"off", "starting"}
    <3>1. renderer.engine # "draining"
      BY <1>1, <1>2 DEF IInv, ChannelInv, EngineInv
    <3> QED BY <1>6, <3>1, Engine
  <2>3. renderer.port = <<>> /\ renderer.recorded = 0
    BY <1>1, <2>2 DEF IInv, ChannelInv, PortInv
  <2>4. /\ renderer' \in Renderers /\ renderer'.for = renderer.for /\ renderer'.id = None
        /\ renderer'.recorded = renderer.recorded /\ renderer'.port = <<>>
        /\ renderer'.engine = "off"
    BY <2>1, Facts, EmptySeq DEF Renderers, Released, EngineOff
  <2>5. CommandOrder' /\ CommandInv'
    BY <1>0, <2>4, CommandTaken
  <2>6. EngineInv' /\ PortInv'
    BY <1>0, <1>1, <2>4, EmptySeq DEF IInv, ChannelInv, EngineInv, PortInv
  <2>7. Stopped(s, TRUE) \in FromRenderer /\ Stopped(s, TRUE).session = s
        /\ Stopped(s, TRUE).kind = "stopped"
    BY <1>1, Made
  <2>8. /\ ReplyInv' /\ toMain' \in Seq(FromRenderer)
        /\ \A i \in 1..Len(toMain) : \E j \in 1..Len(toMain') : toMain'[j] = toMain[i]
        /\ \A x : Count(toMain', x) = Count(toMain, x)
                      + (IF Stopped(s, TRUE) = x THEN 1 ELSE 0)
        /\ \A x : Count(toMain, x) \in Nat
    <3> HIDE DEF Stopped
    <3> QED BY <1>0, <1>1, <2>1, <2>4, <2>7, Replied
  <2>9. InPort' = InPort
    BY <1>0, <2>3, <2>4 DEF InPort
  <2>10. Accounted' = Accounted
    <3>0. /\ Count(toMain, Audio(main.session)) \in Nat
          /\ Count(toMain', Audio(main.session)) = Count(toMain, Audio(main.session))
                 + (IF Stopped(s, TRUE) = Audio(main.session) THEN 1 ELSE 0)
      BY <2>8
    <3>1. Count(toMain', Audio(main.session)) = Count(toMain, Audio(main.session))
      BY <1>4, <3>0
    <3> QED BY <1>0, <2>9, <3>1 DEF Accounted
  <2>11. AudioInv'
    BY <1>0, <2>4, <2>8, <2>10, AudioKept
  <2> QED BY <2>4, <2>5, <2>6, <2>8, <2>11 DEF ChannelInv
<1> QED BY <1>5, <1>6

\* A command of a session that the renderer has done with.
LEMMA StrayTaken ==
    ASSUME IInv, HandleCommand, Head(toRenderer).kind # "start",
           Head(toRenderer).session # renderer.id
    PROVE  ChannelInv' /\ UNCHANGED <<renderer, toMain>>
<1>0. /\ toRenderer # <<>> /\ toRenderer' = Tail(toRenderer) /\ UNCHANGED <<main, renderer, toMain>>
  BY DEF HandleCommand, RendererUnchanged
<1>1. /\ CommandOrder' /\ CommandInv'
      /\ \A x : x # Head(toRenderer) /\ Contains(toRenderer, x) => Contains(toRenderer', x)
      /\ \A i \in 1..Len(toRenderer') :
             \E j \in 1..Len(toRenderer) : toRenderer'[i] = toRenderer[j]
  BY <1>0, CommandTaken
<1>2. renderer.engine # "off" => StopCapture(renderer.for) # Head(toRenderer)
  BY Engine, Made
<1>3. EngineInv'
  BY <1>0, <1>1, <1>2 DEF IInv, ChannelInv, EngineInv
<1>4. PortInv' /\ ReplyInv'
  BY <1>0 DEF IInv, ChannelInv, PortInv, ReplyInv
<1>5. AudioInv'
  BY <1>0 DEF IInv, ChannelInv, AudioInv, Accounted, InPort, Recorded
<1> QED BY <1>0, <1>1, <1>3, <1>4, <1>5 DEF ChannelInv

LEMMA HandleCommandInv ==
    ASSUME IInv, HandleCommand
    PROVE  /\ ChannelInv' /\ renderer' \in Renderers /\ toMain' \in Seq(FromRenderer)
           /\ toRenderer' \in Seq(FromMain)
<1>1. toRenderer # <<>> /\ toRenderer' = Tail(toRenderer)
  BY DEF HandleCommand
<1>2. toRenderer' \in Seq(FromMain)
  BY <1>1, Facts, TailAt
<1>3. Head(toRenderer).kind \in {"start", "stop", "drain"}
  BY <1>1, FirstCommand
<1>4. CASE Head(toRenderer).kind = "start"
  <2>1. UNCHANGED toMain
    BY <1>4 DEF HandleCommand
  <2> QED BY <1>2, <1>4, <2>1, StartTaken, Facts
<1>5. CASE Head(toRenderer).kind = "stop" /\ Head(toRenderer).session = renderer.id
  BY <1>2, <1>5, StopTaken
<1>6. CASE Head(toRenderer).kind = "drain" /\ Head(toRenderer).session = renderer.id
  BY <1>2, <1>6, DrainTaken
<1>7. CASE Head(toRenderer).kind # "start" /\ Head(toRenderer).session # renderer.id
  BY <1>2, <1>7, StrayTaken, Facts
<1> QED BY <1>3, <1>4, <1>5, <1>6, <1>7

-----------------------------------------------------------------------------
(* What the main process takes from the microphone.                         *)

\* Taking a message off the channel.
LEMMA MessageTaken ==
    ASSUME IInv, toMain # <<>>, toMain' = Tail(toMain), UNCHANGED renderer,
           NEW msg, msg = Head(toMain),
           main'.session = main.session,
           (main.capture = "draining" /\ main'.capture \in {"draining", "closed"})
               \/ main'.capture = main.capture
    PROVE  /\ toMain' \in Seq(FromRenderer) /\ msg \in FromRenderer /\ ReplyInv'
           /\ msg.session \in Sessions
           /\ msg = toMain[1] /\ 1 \in 1..Len(toMain)
           /\ \A i \in 1..Len(toMain) :
                  toMain[i] # msg => \E j \in 1..Len(toMain') : toMain'[j] = toMain[i]
           /\ \A x : /\ Count(toMain, x) = Count(toMain', x) + (IF msg = x THEN 1 ELSE 0)
                     /\ Count(toMain', x) \in Nat
<1>1. /\ toMain' \in Seq(FromRenderer) /\ Len(toMain') = Len(toMain) - 1
      /\ Len(toMain) \in Nat \ {0} /\ msg = toMain[1] /\ msg \in FromRenderer
      /\ \A i \in 1..Len(toMain') : toMain'[i] = toMain[i + 1]
  <2>1. /\ Tail(toMain) \in Seq(FromRenderer) /\ Len(Tail(toMain)) = Len(toMain) - 1
        /\ Len(toMain) \in Nat \ {0} /\ Head(toMain) = toMain[1] /\ toMain[1] \in FromRenderer
        /\ \A i \in 1..(Len(toMain) - 1) : Tail(toMain)[i] = toMain[i + 1]
    BY Facts, TailAt
  <2> QED BY <2>1
<1>2. 1 \in 1..Len(toMain) /\ \A i \in 1..Len(toMain') : i + 1 \in 2..Len(toMain)
  BY <1>1
<1>3. \A x : /\ Count(toMain, x) = Count(toMain', x) + (IF msg = x THEN 1 ELSE 0)
             /\ Count(toMain', x) \in Nat
  <2> TAKE x
  <2>1. Count(toMain, x) = Count(Tail(toMain), x) + (IF toMain[1] = x THEN 1 ELSE 0)
    BY Facts, CountTail
  <2>2. Count(toMain', x) \in Nat
    BY <1>1, CountType
  <2> QED BY <1>1, <2>1, <2>2
<1>4. ReplyInv'
  <2> SUFFICES ASSUME NEW i \in 1..Len(toMain')
               PROVE  /\ toMain'[i].session <= renderer.for
                      /\ toMain'[i].kind = "stopped" /\ toMain'[i].session = main.session =>
                            /\ main'.capture \in {"draining", "closed"}
                            /\ renderer.id # main.session
                            /\ \A j \in 1..Len(toMain') : i < j => toMain'[j].session # main.session
    BY DEF ReplyInv
  <2>1. i + 1 \in 1..Len(toMain)
    BY <1>1, <1>2
  <2>2. /\ toMain[i + 1].session <= renderer.for
        /\ toMain[i + 1].kind = "stopped" /\ toMain[i + 1].session = main.session =>
              /\ main.capture \in {"draining", "closed"}
              /\ renderer.id # main.session
              /\ \A j \in 1..Len(toMain) : i + 1 < j => toMain[j].session # main.session
    BY <2>1 DEF IInv, ChannelInv, ReplyInv
  <2>3. ASSUME NEW j \in 1..Len(toMain'), i < j
        PROVE  j + 1 \in 1..Len(toMain) /\ i + 1 < j + 1 /\ toMain'[j] = toMain[j + 1]
    BY <1>1, <1>2, <2>3
  <2> QED BY <1>1, <2>2, <2>3
<1>5. msg.session \in Sessions
  BY <1>1, Replies
<1>6. \A i \in 1..Len(toMain) :
          toMain[i] # msg => \E j \in 1..Len(toMain') : toMain'[j] = toMain[i]
  <2> SUFFICES ASSUME NEW i \in 1..Len(toMain), toMain[i] # msg
               PROVE  i - 1 \in 1..Len(toMain') /\ toMain'[i - 1] = toMain[i]
    OBVIOUS
  <2>1. i # 1 /\ i - 1 \in 1..Len(toMain') /\ (i - 1) + 1 = i
    BY <1>1
  <2> QED BY <1>1, <2>1
<1> QED BY <1>1, <1>2, <1>3, <1>4, <1>5, <1>6

\* The parts of the invariant that do not read the messages to the main process.
LEMMA OthersKept ==
    ASSUME IInv, UNCHANGED <<toRenderer, renderer>>,
           main'.session = main.session, main'.generation = main.generation,
           (main.capture = "draining" /\ main'.capture = "closed")
               \/ main'.capture = main.capture
    PROVE  CommandOrder' /\ CommandInv' /\ EngineInv' /\ PortInv'
<1>1. CommandOrder' /\ CommandInv'
  BY DEF IInv, ChannelInv, CommandOrder, CommandInv
<1>2. EngineInv'
  BY DEF IInv, ChannelInv, EngineInv
<1>3. PortInv'
  BY DEF IInv, ChannelInv, PortInv
<1> QED BY <1>1, <1>2, <1>3

\* A drain that is over, as the acknowledgement or the timer says.
LEMMA Drained ==
    ASSUME IInv, main.session # None, main.capture = "draining", NEW d \in BOOLEAN,
           main' = AfterDrain(main, d), UNCHANGED <<toRenderer, renderer>>,
           \/ d = FALSE /\ UNCHANGED toMain
           \/ /\ toMain # <<>> /\ toMain' = Tail(toMain)
              /\ Head(toMain) = Stopped(main.session, d)
    PROVE  /\ ChannelInv' /\ MainInv' /\ main' \in Mains /\ toMain' \in Seq(FromRenderer)
           /\ ~main'.recording
<1>1. /\ main' \in Mains /\ Phase(main') /\ Connected(main') /\ SameSession(main, main')
      /\ main'.capture = "closed" /\ main'.drained = d /\ (d => main'.failed = main.failed)
      /\ ~main'.recording
  BY Facts, AfterDrainEffect DEF IInv, MainInv
<1>2. CommandOrder' /\ CommandInv' /\ EngineInv' /\ PortInv'
  BY <1>1, OthersKept DEF SameSession
<1>3. /\ ReplyInv' /\ toMain' \in Seq(FromRenderer)
      /\ Count(toMain', Audio(main.session)) = Count(toMain, Audio(main.session))
  <2>1. CASE UNCHANGED toMain
    BY <1>1, <2>1, Facts DEF IInv, ChannelInv, ReplyInv, SameSession
  <2>2. CASE toMain # <<>> /\ toMain' = Tail(toMain) /\ Head(toMain) = Stopped(main.session, d)
    <3>1. /\ ReplyInv' /\ toMain' \in Seq(FromRenderer)
          /\ \A x : /\ Count(toMain, x) = Count(toMain', x) + (IF Head(toMain) = x THEN 1 ELSE 0)
                    /\ Count(toMain', x) \in Nat
      BY <1>1, <2>2, MessageTaken DEF SameSession
    <3>2. Head(toMain) # Audio(main.session)
      BY <2>2 DEF Stopped, Audio
    <3> QED BY <3>1, <3>2
  <2> QED BY <2>1, <2>2
<1>4. Accounted' = Accounted /\ (Recorded(main.session))' = Recorded(main.session)
  BY <1>1, <1>3 DEF Accounted, InPort, Recorded, SameSession
<1>5. d /\ ~main.failed => /\ main.sent = Recorded(main.session)
                           /\ renderer.for = main.session /\ renderer.id # main.session
  <2> SUFFICES ASSUME d, ~main.failed
               PROVE  /\ main.sent = Recorded(main.session)
                      /\ renderer.for = main.session /\ renderer.id # main.session
    OBVIOUS
  <2> DEFINE msg == Stopped(main.session, TRUE)
  <2>1. /\ toMain # <<>> /\ toMain[1] = msg /\ 1 \in 1..Len(toMain)
        /\ msg.kind = "stopped" /\ msg.session = main.session
        /\ Len(toMain) \in Nat \ {0}
    <3>1. d = TRUE
      OBVIOUS
    <3>2. toMain # <<>> /\ Head(toMain) = msg
      BY <3>1
    <3>3. msg.kind = "stopped" /\ msg.session = main.session
      BY DEF Stopped
    <3> HIDE DEF msg
    <3>4. Len(toMain) \in Nat \ {0} /\ Head(toMain) = toMain[1]
      BY <3>2, Facts, TailAt
    <3> QED BY <3>2, <3>3, <3>4
  <2>2. /\ main.session <= renderer.for /\ renderer.id # main.session
        /\ \A j \in 1..Len(toMain) : 1 < j => toMain[j].session # main.session
    BY <2>1 DEF IInv, ChannelInv, ReplyInv
  <2>3. renderer.for = main.session
    BY <2>2, Facts, Engine
  <2>4. \A j \in 1..Len(toMain) : toMain[j] # Audio(main.session)
                                  /\ toMain[j] # Stopped(main.session, FALSE)
    <3>1. ASSUME NEW j \in 1..Len(toMain), 1 < j
          PROVE  toMain[j] # Audio(main.session) /\ toMain[j] # Stopped(main.session, FALSE)
      BY <2>2, <3>1 DEF Audio, Stopped
    <3>2. toMain[1] # Audio(main.session) /\ toMain[1] # Stopped(main.session, FALSE)
      BY <2>1 DEF Audio, Stopped
    <3>3. ASSUME NEW j \in 1..Len(toMain) PROVE j = 1 \/ 1 < j
      BY <2>1
    <3> QED BY <3>1, <3>2, <3>3
  <2>5. Count(toMain, Audio(main.session)) = 0
    BY <2>4, Facts, CountType
  <2>6. InPort = 0
    <3>1. renderer.engine = "off"
      BY <2>2, <2>3, Engine
    <3>2. renderer.port = <<>>
      BY <3>1 DEF IInv, ChannelInv, PortInv
    <3> QED BY <3>2, CountType, EmptySeq DEF InPort
  <2>7. Accounted = Recorded(main.session)
    BY <2>4 DEF IInv, ChannelInv, AudioInv
  <2> QED BY <2>2, <2>3, <2>5, <2>6, <2>7, Facts DEF Accounted
<1>6. AudioInv'
  <2>1. main.session # None => Accounted <= Recorded(main.session)
    BY DEF IInv, ChannelInv, AudioInv
  <2>2. main'.session = main.session /\ main'.sent = main.sent /\ (main.failed => main'.failed)
    BY <1>1 DEF SameSession
  <2> QED BY <1>1, <1>4, <1>5, <2>1, <2>2 DEF AudioInv
<1> QED BY <1>1, <1>2, <1>3, <1>6 DEF ChannelInv, MainInv

\* A message that the main process has no use for.
LEMMA Dropped ==
    ASSUME IInv, toMain # <<>>, toMain' = Tail(toMain), UNCHANGED <<toRenderer, renderer>>,
           SameSession(main, main'), main'.capture = main.capture, main'.drained = main.drained,
           NEW msg, msg = Head(toMain),
           main.capture \in {"capturing", "draining"} /\ ~main'.failed =>
               msg # Audio(main.session) /\ msg # Stopped(main.session, FALSE)
    PROVE  ChannelInv' /\ toMain' \in Seq(FromRenderer)
<1>0. /\ main'.session = main.session /\ main'.generation = main.generation
      /\ main'.sent = main.sent /\ (main.failed => main'.failed)
  BY DEF SameSession
<1>1. CommandOrder' /\ CommandInv' /\ EngineInv' /\ PortInv'
  BY <1>0, OthersKept
<1>2. /\ toMain' \in Seq(FromRenderer) /\ ReplyInv'
      /\ \A i \in 1..Len(toMain) :
             toMain[i] # msg => \E j \in 1..Len(toMain') : toMain'[j] = toMain[i]
      /\ \A x : /\ Count(toMain, x) = Count(toMain', x) + (IF msg = x THEN 1 ELSE 0)
                /\ Count(toMain', x) \in Nat
  BY <1>0, MessageTaken
<1>3. InPort' = InPort /\ InPort \in Nat /\ (Recorded(main.session))' = Recorded(main.session)
      /\ Recorded(main.session) \in Nat /\ main.sent \in Nat
  BY <1>0, Port, Facts, Constants DEF InPort, Recorded
<1>4. Count(toMain', Audio(main.session)) <= Count(toMain, Audio(main.session))
      /\ Count(toMain', Audio(main.session)) \in Nat /\ Count(toMain, Audio(main.session)) \in Nat
  <2>1. /\ Count(toMain, Audio(main.session)) = Count(toMain', Audio(main.session))
               + (IF msg = Audio(main.session) THEN 1 ELSE 0)
        /\ Count(toMain', Audio(main.session)) \in Nat
    BY <1>2
  <2> QED BY <2>1
<1>5. Accounted' <= Accounted /\ Accounted \in Nat /\ Accounted' \in Nat
  BY <1>0, <1>3, <1>4 DEF Accounted
<1>6. main.session # None => Accounted' <= Recorded(main.session)
  <2>1. main.session # None => Accounted <= Recorded(main.session)
    BY DEF IInv, ChannelInv, AudioInv
  <2> QED BY <1>3, <1>5, <2>1
<1>7. /\ main.capture \in {"capturing", "draining"} /\ ~main'.failed
      /\ \A i \in 1..Len(toMain') : toMain'[i] # Stopped(main.session, FALSE)
      => Accounted' = Recorded(main.session)
  <2> SUFFICES ASSUME main.capture \in {"capturing", "draining"}, ~main'.failed,
                      \A i \in 1..Len(toMain') : toMain'[i] # Stopped(main.session, FALSE)
               PROVE  Accounted' = Recorded(main.session)
    OBVIOUS
  <2>1. \A i \in 1..Len(toMain) : toMain[i] # Stopped(main.session, FALSE)
    BY <1>2
  <2>2. Accounted = Recorded(main.session)
    BY <1>0, <2>1 DEF IInv, ChannelInv, AudioInv
  <2>3. Count(toMain', Audio(main.session)) = Count(toMain, Audio(main.session))
    <3>1. /\ Count(toMain, Audio(main.session)) = Count(toMain', Audio(main.session))
                 + (IF msg = Audio(main.session) THEN 1 ELSE 0)
          /\ Count(toMain', Audio(main.session)) \in Nat
      BY <1>2
    <3>2. msg # Audio(main.session)
      OBVIOUS
    <3> QED BY <3>1, <3>2
  <2> QED BY <1>0, <1>3, <2>2, <2>3 DEF Accounted
<1>8. main'.drained /\ ~main'.failed => /\ main.sent = Recorded(main.session)
                                       /\ renderer.for = main.session
                                       /\ renderer.id # main.session
  BY <1>0 DEF IInv, ChannelInv, AudioInv
<1>9. AudioInv'
  BY <1>0, <1>3, <1>6, <1>7, <1>8 DEF AudioInv
<1> QED BY <1>1, <1>2, <1>9 DEF ChannelInv

LEMMA HasSession ==
    ASSUME IInv, main.recording \/ main.stopping \/ main.capture # "none" \/ main.socket # "none"
    PROVE  main.session # None /\ main.session = main.generation /\ main.session \in Sessions
<1>1. /\ ~ResetFlags(main).recording /\ ~ResetFlags(main).stopping
      /\ ResetFlags(main).capture = "none" /\ ResetFlags(main).socket = "none"
  BY DEF ResetFlags, Idle
<1>2. main.session # None
  BY <1>1 DEF IInv, MainInv, Phase
<1>3. main.session \in Sessions
  BY <1>2, Facts DEF Mains
<1> QED BY <1>2, <1>3, Engine

LEMMA MainReceiveInv ==
    ASSUME IInv, MainReceive \/ DrainTimeout
    PROVE  /\ ChannelInv' /\ MainInv' /\ main' \in Mains /\ toMain' \in Seq(FromRenderer)
           /\ main'.recording => main.recording
           /\ main'.mode = main.mode /\ main'.source = main.source
<1> DEFINE msg == Head(toMain)
<1>0. UNCHANGED <<toRenderer, renderer>>
  BY DEF MainReceive, DrainTimeout
<1>d. ASSUME NEW d \in BOOLEAN, main' = AfterDrain(main, d)
      PROVE  main'.mode = main.mode /\ main'.source = main.source
  BY <1>d, Facts DEF AfterDrain, ServiceStop, Abort, Fail, Mains
<1>1. CASE DrainTimeout
  <2>1. main.capture = "draining" /\ main' = AfterDrain(main, FALSE) /\ UNCHANGED toMain
    BY <1>1 DEF DrainTimeout, DrainTimer
  <2> QED BY <1>0, <1>d, <2>1, HasSession, Drained
<1>2. CASE MainReceive
  <2>0. toMain # <<>> /\ toMain' = Tail(toMain)
    BY <1>2 DEF MainReceive
  <2>1. msg \in FromRenderer
    BY <2>0, Facts, TailAt
  <2>2. msg.kind \in {"audio", "error", "stopped"}
    BY <2>1, Replies
  <2>3. CASE /\ msg.kind = "audio" /\ Forwards(main, msg.session) /\ AudioAccepted(main)
    <3>1. main' = [main EXCEPT !.sent = @ + 1]
      BY <1>2, <2>3 DEF MainReceive
    <3>2. /\ msg = Audio(main.session) /\ main.capture \in {"capturing", "draining"}
          /\ ~main.failed /\ main.session # None
      BY <2>1, <2>3, Replies, HasSession DEF Forwards, AudioAccepted
    <3>3. main'.session = main.session /\ main'.capture = main.capture
      BY <3>1, Facts DEF Mains
    <3> HIDE DEF msg
    <3>4. /\ toMain' \in Seq(FromRenderer) /\ ReplyInv'
          /\ \A i \in 1..Len(toMain) :
                 toMain[i] # msg => \E j \in 1..Len(toMain') : toMain'[j] = toMain[i]
          /\ \A x : /\ Count(toMain, x) = Count(toMain', x) + (IF msg = x THEN 1 ELSE 0)
                    /\ Count(toMain', x) \in Nat
      BY <1>0, <2>0, <3>3, MessageTaken DEF msg
    <3>5. /\ Count(toMain, Audio(main.session)) = Count(toMain', Audio(main.session)) + 1
          /\ Count(toMain', Audio(main.session)) \in Nat /\ InPort \in Nat
          /\ main.sent \in Nat
      BY <3>2, <3>4, Facts, Port DEF InPort
    <3>6. main.sent + 1 <= MaxAudio
      <4>1. Accounted <= Recorded(main.session)
        BY <3>2 DEF IInv, ChannelInv, AudioInv
      <4>2. Recorded(main.session) \in 0..MaxAudio
        BY Facts, Constants DEF Recorded
      <4> QED BY <3>5, <4>1, <4>2, Constants DEF Accounted
    <3>7. /\ main' \in Mains /\ main'.sent = main.sent + 1
          /\ main'.generation = main.generation /\ main'.failed = main.failed
          /\ main'.drained = main.drained /\ main'.recording = main.recording
          /\ main'.mode = main.mode /\ main'.source = main.source
      <4>1. main.sent + 1 \in 0..MaxAudio
        BY <3>5, <3>6, Constants
      <4> QED BY <3>1, <4>1, Facts DEF Mains
    <3>8. MainInv'
      <4>1. Phase(main')
        BY <3>1, <3>2, Facts DEF IInv, MainInv, Phase, Mains
      <4>2. Connected(main')
        BY <3>1, Facts DEF IInv, MainInv, Connected, Mains
      <4> QED BY <4>1, <4>2 DEF MainInv
    <3>9. CommandOrder' /\ CommandInv' /\ EngineInv' /\ PortInv'
      BY <1>0, <3>3, <3>7, OthersKept
    <3>10. Accounted' = Accounted /\ (Recorded(main.session))' = Recorded(main.session)
      <4>1. InPort' = InPort /\ (Recorded(main.session))' = Recorded(main.session)
        BY <1>0, <3>3 DEF InPort, Recorded
      <4> QED BY <3>3, <3>5, <3>7, <4>1 DEF Accounted
    <3>11. AudioInv'
      <4>1. msg # Stopped(main.session, FALSE)
        BY <3>2 DEF Audio, Stopped
      <4>2. (\A i \in 1..Len(toMain') : toMain'[i] # Stopped(main.session, FALSE)) =>
                \A i \in 1..Len(toMain) : toMain[i] # Stopped(main.session, FALSE)
        BY <3>4, <4>1
      <4>3. ~main.drained
        BY <3>2 DEF IInv, MainInv, Connected
      <4>4. Accounted <= Recorded(main.session)
        BY <3>2 DEF IInv, ChannelInv, AudioInv
      <4>5. (\A i \in 1..Len(toMain) : toMain[i] # Stopped(main.session, FALSE)) =>
                Accounted = Recorded(main.session)
        BY <3>2 DEF IInv, ChannelInv, AudioInv
      <4> QED BY <3>3, <3>7, <3>10, <4>2, <4>3, <4>4, <4>5 DEF AudioInv
    <3> QED BY <3>4, <3>7, <3>8, <3>9, <3>11 DEF ChannelInv
  <2>4. CASE msg.kind = "stopped" /\ msg.session = main.session /\ main.capture = "draining"
    <3>1. main' = AfterDrain(main, msg.drained) /\ msg.drained \in BOOLEAN
          /\ msg = Stopped(main.session, msg.drained)
      BY <1>2, <2>1, <2>4, Replies DEF MainReceive
    <3>2. main.session # None
      BY <2>4, HasSession
    <3> HIDE DEF msg
    <3>3. Head(toMain) = Stopped(main.session, msg.drained)
      BY <3>1 DEF msg
    <3> QED BY <1>0, <1>d, <2>0, <2>4, <3>1, <3>2, <3>3, Drained
  <2>5. CASE /\ main' = main
             /\ main.capture \in {"capturing", "draining"} /\ ~main.failed =>
                   msg # Audio(main.session) /\ msg # Stopped(main.session, FALSE)
    <3>1. SameSession(main, main') /\ MainInv'
      BY <2>5 DEF SameSession, IInv, MainInv, Phase, Connected
    <3>2. main'.capture = main.capture /\ main'.drained = main.drained
          /\ main'.failed = main.failed
      BY <2>5
    <3>3. ChannelInv' /\ toMain' \in Seq(FromRenderer)
      <4> HIDE DEF msg
      <4>1. msg = Head(toMain)
        BY DEF msg
      <4> QED BY <1>0, <2>0, <2>5, <3>1, <3>2, <4>1, Dropped
    <3> QED BY <2>5, <3>1, <3>3, Facts
  <2>6. CASE msg.kind = "error" /\ AcceptsError(main, msg.session)
    <3> DEFINE m == [main EXCEPT !.override = TRUE]
    <3>1. main' = Abort(m) /\ main.session # None
      BY <1>2, <2>6, HasSession DEF MainReceive, AcceptsError
    <3>2. /\ m \in Mains /\ SameSession(main, m) /\ m.session # None
          /\ m.capture = main.capture /\ m.drained = main.drained
          /\ m.recording = main.recording /\ m.mode = main.mode /\ m.source = main.source
      BY <3>1, Facts DEF Mains, SameSession
    <3>3. Phase(m) /\ Connected(m)
      BY <3>1, Facts DEF IInv, MainInv, Phase, Connected, Mains
    <3> HIDE DEF m
    <3>4. /\ main' \in Mains /\ Phase(main') /\ Connected(main')
          /\ SameSession(m, main') /\ main'.capture = main.capture
          /\ main'.drained = main.drained /\ main'.failed
      BY <3>1, <3>2, <3>3, FailSane
    <3>5. /\ main'.recording = main.recording /\ main'.mode = main.mode
          /\ main'.source = main.source
      BY <3>1, <3>2 DEF Abort, Fail, Mains
    <3>6. SameSession(main, main')
      BY <3>2, <3>4 DEF SameSession
    <3>7. ChannelInv' /\ toMain' \in Seq(FromRenderer)
      BY <1>0, <2>0, <3>4, <3>6, Dropped
    <3> QED BY <3>4, <3>5, <3>7 DEF MainInv
  <2>7. main.capture \in {"capturing", "draining"} /\ ~main.failed => AudioAccepted(main)
    <3>1. main.capture # "none" => main.session # None
      BY HasSession
    <3> QED BY <3>1, Facts DEF IInv, MainInv, Phase, Connected, AudioAccepted, Mains
  <2>8. CASE msg.kind = "audio" /\ ~(Forwards(main, msg.session) /\ AudioAccepted(main))
    <3>1. main' = main
      BY <1>2, <2>8 DEF MainReceive
    <3>2. msg # Stopped(main.session, FALSE)
      BY <2>8 DEF Stopped
    <3>3. msg = Audio(main.session) => msg.session = main.session
      BY DEF Audio
    <3>4. main.capture \in {"capturing", "draining"} /\ ~main.failed => msg # Audio(main.session)
      BY <2>7, <2>8, <3>3 DEF Forwards
    <3> QED BY <2>5, <3>1, <3>2, <3>4
  <2>9. CASE msg.kind = "stopped" /\ ~(msg.session = main.session /\ main.capture = "draining")
    <3>1. main' = main
      BY <1>2, <2>9 DEF MainReceive
    <3>2. msg # Audio(main.session)
      BY <2>9 DEF Audio
    <3>3. msg.session = main.session => main.capture \in {"draining", "closed"}
      <4>1. msg = toMain[1] /\ 1 \in 1..Len(toMain)
        BY <2>0, Facts, TailAt
      <4> QED BY <2>9, <4>1 DEF IInv, ChannelInv, ReplyInv
    <3>4. msg = Stopped(main.session, FALSE) => msg.session = main.session
      BY DEF Stopped
    <3> QED BY <2>5, <2>9, <3>1, <3>2, <3>3, <3>4
  <2>10. CASE msg.kind = "error" /\ ~AcceptsError(main, msg.session)
    <3>1. main' = main
      BY <1>2, <2>10 DEF MainReceive
    <3>2. msg # Audio(main.session) /\ msg # Stopped(main.session, FALSE)
      BY <2>10 DEF Audio, Stopped
    <3> QED BY <2>5, <3>1, <3>2
  <2> QED BY <2>2, <2>3, <2>4, <2>6, <2>8, <2>9, <2>10
<1> QED BY <1>1, <1>2

-----------------------------------------------------------------------------
(* What the main process does on its own.                                   *)

\* A step of the main process that the channels and the invariant survive.
MainStep == ChannelInv' /\ MainInv' /\ main' \in Mains /\ toRenderer' \in Seq(FromMain)

\* No quick dictation begins.
HoldKept ==
    main'.recording /\ main'.mode = "quick" /\ main'.source = "normal" =>
        main.recording /\ main.mode = "quick" /\ main.source = "normal"

LEMMA Rest ==
    ASSUME IInv, UNCHANGED <<main, toRenderer, toMain, renderer>>
    PROVE  MainStep /\ HoldKept
<1>1. ChannelInv'
  <2>1. CommandOrder' /\ CommandInv' /\ EngineInv' /\ PortInv' /\ ReplyInv'
    BY DEF IInv, ChannelInv, CommandOrder, CommandInv, EngineInv, PortInv, ReplyInv
  <2>2. AudioInv'
    BY DEF IInv, ChannelInv, AudioInv, Accounted, InPort, Recorded
  <2> QED BY <2>1, <2>2 DEF ChannelInv
<1>2. MainInv'
  BY DEF IInv, MainInv, Phase, Connected
<1> QED BY <1>1, <1>2, Facts DEF MainStep, HoldKept

LEMMA StopStep ==
    ASSUME IInv, UNCHANGED <<toMain, renderer>>, NEW m, Variant(m), StopRecording(m)
    PROVE  MainStep /\ ~main'.recording
<1>1. /\ m.recording /\ main' = Stopping(m) /\ toRenderer' = toRenderer \o DrainCommands(m)
      /\ main \in Mains /\ MainInv
  BY Facts DEF StopRecording, IInv
<1>2. /\ m \in Mains /\ Phase(m) /\ Connected(m) /\ m.session # None /\ m.resume = "no"
      /\ SameSession(main, m) /\ m.capture = main.capture /\ m.drained = main.drained
  BY <1>1, VariantSane
<1>3. /\ main' \in Mains /\ Phase(main') /\ Connected(main') /\ SameSession(m, main')
      /\ main'.failed = m.failed
      /\ main'.capture = IF m.capture = "none" THEN "none" ELSE "draining"
      /\ main'.drained = m.drained /\ ~main'.recording
      /\ m.capture \in {"none", "capturing"}
  BY <1>1, <1>2, StoppingEffect
<1>4. SameSession(main, main') /\ main'.drained = main.drained /\ m.session = main.session
  BY <1>2, <1>3 DEF SameSession
<1>5. CASE m.capture = "none"
  <2>1. toRenderer' = toRenderer
    BY <1>1, <1>5, Facts DEF DrainCommands
  <2>2. ChannelInv'
    BY <1>2, <1>3, <1>4, <1>5, <2>1, MainQuiet
  <2> QED BY <1>3, <2>1, <2>2, Facts DEF MainStep, MainInv
<1>6. CASE m.capture = "capturing"
  <2>1. main.session \in Sessions
    BY <1>2, <1>6, HasSession
  <2>2. DrainCapture(main.session) \in FromMain
    BY <2>1, Made
  <2>3. toRenderer' = Append(toRenderer, DrainCapture(main.session))
        /\ toRenderer' \in Seq(FromMain)
    <3>1. toRenderer' = toRenderer \o <<DrainCapture(main.session)>>
      BY <1>1, <1>4, <1>6 DEF DrainCommands
    <3> QED BY <2>2, <3>1, Facts, AppendIsConcat, AppendAt
  <2>4. ~main.drained
    BY <1>2, <1>6 DEF Connected
  <2>5. ChannelInv'
    BY <1>2, <1>3, <1>4, <1>6, <2>1, <2>3, <2>4, CommandSent
  <2> QED BY <1>3, <2>3, <2>5 DEF MainStep, MainInv
<1> QED BY <1>3, <1>5, <1>6

LEMMA StartStep ==
    ASSUME IInv, UNCHANGED <<toMain, renderer>>,
           NEW source \in {"normal", "lab"}, NEW mode \in {"quick", "long"}, Start(source, mode)
    PROVE  MainStep /\ main'.source = source /\ main'.mode = mode
<1>1. /\ main \in Mains /\ Phase(main) /\ ~main.recording /\ ~main.stopping
      /\ main.generation < MaxSessions /\ main' = Started(main, source, mode)
      /\ toRenderer' = toRenderer
  BY Facts DEF Start, MayStart, IInv, MainInv
<1>2. main.session = None /\ main = ResetFlags(main)
  BY <1>1 DEF Phase
<1>3. /\ main' \in Mains /\ Phase(main') /\ Connected(main')
      /\ main'.session = main.generation + 1 /\ main'.generation = main.generation + 1
      /\ main'.capture = "none" /\ main'.sent = 0 /\ ~main'.drained
      /\ main'.source = source /\ main'.mode = mode
  BY <1>1, <1>2, StartedEffect
<1>4. Grown(toRenderer, toRenderer', StopCapture(main.session))
  BY <1>1, Facts DEF Grown
<1>5. ChannelInv'
  BY <1>1, <1>2, <1>3, <1>4, Facts, NewPhase
<1> QED BY <1>1, <1>3, <1>5, Facts DEF MainStep, MainInv

\* The commands of a close follow what is on its way.
LEMMA CommandsGrow ==
    ASSUME NEW q \in Seq(FromMain), NEW c \in FromMain,
           NEW commands \in {<<>>, <<c>>}, NEW r, r = q \o commands \o <<c>>
    PROVE  r \in Seq(FromMain) /\ Grown(q, r, c) /\ Len(q) < Len(r)
<1>1. CASE commands = <<>>
  <2>1. r = Append(q, c)
    BY <1>1, AppendIsConcat
  <2>2. /\ r \in Seq(FromMain) /\ Len(r) = Len(q) + 1 /\ Len(q) \in Nat
        /\ r[Len(q) + 1] = c /\ \A i \in 1..Len(q) : r[i] = q[i]
    <3>1. /\ Append(q, c) \in Seq(FromMain) /\ Len(Append(q, c)) = Len(q) + 1
          /\ Append(q, c)[Len(q) + 1] = c
          /\ \A i \in 1..Len(q) : Append(q, c)[i] = q[i]
      BY AppendAt
    <3>2. Len(q) \in Nat
      OBVIOUS
    <3> QED BY <2>1, <3>1, <3>2, Zenon
  <2> QED BY <2>2 DEF Grown
<1>2. CASE commands = <<c>>
  <2>1. r = Append(Append(q, c), c) /\ Append(q, c) \in Seq(FromMain)
    <3>1. q \o <<c>> = Append(q, c) /\ Append(q, c) \in Seq(FromMain)
      BY AppendIsConcat, AppendAt
    <3> QED BY <1>2, <3>1, AppendIsConcat
  <2>2. /\ r \in Seq(FromMain) /\ Len(r) = Len(q) + 2 /\ Len(q) \in Nat
        /\ r[Len(q) + 2] = c /\ r[Len(q) + 1] = c
        /\ \A i \in 1..Len(q) : r[i] = q[i]
    <3>1. /\ Len(Append(q, c)) = Len(q) + 1 /\ Len(q) \in Nat
          /\ Append(q, c)[Len(q) + 1] = c
          /\ \A i \in 1..Len(q) : Append(q, c)[i] = q[i]
      BY AppendAt
    <3>2. /\ r \in Seq(FromMain) /\ Len(r) = Len(Append(q, c)) + 1
          /\ r[Len(Append(q, c)) + 1] = c
          /\ \A i \in 1..Len(Append(q, c)) : r[i] = Append(q, c)[i]
      BY <2>1, AppendAt
    <3> QED BY <3>1, <3>2
  <2> QED BY <2>2 DEF Grown
<1> QED BY <1>1, <1>2

LEMMA CloseStep ==
    ASSUME IInv, UNCHANGED <<toMain, renderer>>, main.socket # "none",
           NEW commands \in {<<>>, CloseCommands(main.session)}, Close(main, commands)
    PROVE  /\ MainStep /\ main'.session # main.session
           /\ main'.recording => main'.mode = "long"
<1>0. /\ main.session \in Sessions /\ main.session # None /\ main.session = main.generation
      /\ main \in Mains /\ main.generation \in Nat /\ None = 0
  BY HasSession, Facts, Constants
<1> DEFINE c == StopCapture(main.session)
<1>1. c \in FromMain
  BY <1>0, Made
<1>2. toRenderer' \in Seq(FromMain) /\ Grown(toRenderer, toRenderer', c)
      /\ Len(toRenderer) < Len(toRenderer')
  <2>1. toRenderer' = toRenderer \o commands \o <<c>> /\ commands \in {<<>>, <<c>>}
    BY DEF Close, CloseCommands
  <2> HIDE DEF c
  <2> QED BY <1>1, <2>1, Facts, CommandsGrow
<1> DEFINE idle == ResetFlags(main)
<1>3. /\ idle \in Mains /\ Phase(idle) /\ Connected(idle) /\ idle = ResetFlags(idle)
      /\ idle.session = None /\ idle.generation = main.generation /\ idle.capture = "none"
      /\ idle.sent = 0 /\ ~idle.drained /\ ~idle.recording /\ ~idle.stopping
  BY <1>0, ResetEffect
<1>4. \/ main' = idle
      \/ idle.generation < MaxSessions /\ main' = Started(idle, "normal", "long")
  BY DEF Close, MayStart
<1> HIDE DEF idle
<1>5. /\ main' \in Mains /\ Phase(main') /\ Connected(main')
      /\ main'.capture = "none" /\ main'.sent = 0 /\ ~main'.drained
      /\ \/ main'.session = None /\ main'.generation = main.generation
         \/ main'.session = main.generation + 1 /\ main'.generation = main.generation + 1
      /\ main'.recording => main'.mode = "long"
  <2>1. CASE main' = idle
    BY <1>3, <2>1
  <2>2. CASE idle.generation < MaxSessions /\ main' = Started(idle, "normal", "long")
    BY <1>3, <2>2, StartedEffect
  <2> QED BY <1>4, <2>1, <2>2
<1>6. ChannelInv'
  BY <1>0, <1>2, <1>5, NewPhase
<1>7. main'.session # main.session
  BY <1>0, <1>5
<1> QED BY <1>2, <1>5, <1>6, <1>7 DEF MainStep, MainInv

\* Before the session is ready, one that has neither failed nor been stopped is recording.
LEMMA NotReady ==
    ASSUME IInv, main.socket # "none", ~main.ready, ~main.stopRequested, ~main.failed
    PROVE  main.recording /\ main.capture = "none"
<1>1. main.session # None
  BY HasSession
<1> QED BY <1>1, Facts DEF IInv, MainInv, Phase, Connected, Mains

LEMMA SocketStep ==
    ASSUME IInv, Open \/ Ready \/ ServerError \/ SocketError
    PROVE  MainStep /\ HoldKept
<1>0. UNCHANGED <<toRenderer, toMain, renderer>> /\ main \in Mains
  BY Facts DEF Open, Ready, ServerError, SocketError, SocketUnchanged
<1>1. main.socket # "none" /\ main.session # None
  <2>1. main.socket # "none"
    BY DEF Open, Ready, ServerError, SocketError
  <2> QED BY <2>1, HasSession
<1>2. /\ main' \in Mains /\ Phase(main') /\ Connected(main') /\ SameSession(main, main')
      /\ main'.capture = main.capture /\ main'.drained = main.drained
      /\ main'.recording = main.recording /\ main'.mode = main.mode
      /\ main'.source = main.source
  <2>1. CASE Open
    <3>1. main' = [main EXCEPT !.socket = "open"] /\ main' \in Mains
      BY <1>0, <2>1 DEF Open, Mains
    <3>2. Phase(main') /\ Connected(main')
      BY <1>0, <1>1, <3>1 DEF IInv, MainInv, Phase, Connected, Mains
    <3> QED BY <1>0, <3>1, <3>2 DEF SameSession, Mains
  <2>2. CASE Ready
    <3>1. main' = [main EXCEPT !.ready = TRUE, !.resume = "ok"] /\ main' \in Mains
          /\ ~main.failed /\ ~main.stopRequested /\ ~main.ready /\ main.socket = "open"
      BY <1>0, <2>2 DEF Ready, Mains
    <3>2. main.recording /\ main.capture = "none"
      BY <3>1, NotReady
    <3>3. Phase(main')
      BY <1>0, <1>1, <3>1 DEF IInv, MainInv, Phase, Mains
    <3>4. Connected(main')
      BY <1>0, <3>1, <3>2 DEF IInv, MainInv, Connected, Mains
    <3> QED BY <1>0, <3>1, <3>3, <3>4 DEF SameSession, Mains
  <2>3. CASE ServerError
    <3>1. main' = Abort(main)
      BY <2>3 DEF ServerError
    <3>2. main'.recording = main.recording /\ main'.mode = main.mode /\ main'.source = main.source
      BY <1>0, <3>1 DEF Abort, Fail, Mains
    <3> QED BY <1>0, <1>1, <3>1, <3>2, FailSane DEF IInv, MainInv
  <2>4. CASE SocketError /\ main.stopRequested /\ ~main.ready
    <3>1. main' = [main EXCEPT !.socket = "terminated"] /\ main' \in Mains
      BY <1>0, <2>4 DEF SocketError, Mains
    <3>2. Phase(main') /\ Connected(main')
      BY <1>0, <1>1, <2>4, <3>1 DEF IInv, MainInv, Phase, Connected, Mains
    <3> QED BY <1>0, <3>1, <3>2 DEF SameSession, Mains
  <2>5. CASE SocketError /\ ~(main.stopRequested /\ ~main.ready)
    <3>1. main' = [Abort(main) EXCEPT !.resume = IF main.ready THEN @ ELSE "rejected"]
          /\ ~main.failed
      BY <1>0, <2>5 DEF SocketError, Abort, Fail, Mains
    <3>2. /\ Abort(main) \in Mains /\ Phase(Abort(main)) /\ Connected(Abort(main))
          /\ SameSession(main, Abort(main)) /\ Abort(main).capture = main.capture
          /\ Abort(main).drained = main.drained /\ Abort(main).failed
      BY <1>0, <1>1, FailSane DEF IInv, MainInv
    <3>3. Abort(main).recording = main.recording /\ Abort(main).ready = main.ready
          /\ Abort(main).mode = main.mode /\ Abort(main).source = main.source
          /\ Abort(main).resume = main.resume
      BY <1>0 DEF Abort, Fail, Mains
    <3>4. ~main.ready => main.recording /\ main.capture = "none"
      BY <1>1, <2>5, <3>1, NotReady
    <3> DEFINE n == Abort(main)
    <3> HIDE DEF n
    <3>5. /\ main' \in Mains /\ SameSession(n, main') /\ main'.capture = n.capture
          /\ main'.drained = n.drained /\ main'.recording = n.recording
          /\ main'.mode = n.mode /\ main'.source = n.source /\ main'.failed = n.failed
          /\ main'.stopping = n.stopping /\ main'.stopRequested = n.stopRequested
          /\ main'.socket = n.socket /\ main'.ready = n.ready /\ main'.override = n.override
          /\ main'.resume = (IF main.ready THEN n.resume ELSE "rejected")
      <4>1. main' = [n EXCEPT !.resume = IF main.ready THEN n.resume ELSE "rejected"] /\ n \in Mains
        BY <3>1, <3>2 DEF n
      <4> QED BY <4>1 DEF SameSession, Mains
    <3>6. Phase(n) /\ Connected(n) /\ n.session # None /\ n.ready = main.ready /\ n.failed
          /\ (~main.ready => n.recording /\ n.capture = "none")
          /\ SameSession(main, n)
      BY <1>1, <3>2, <3>3, <3>4 DEF n, SameSession
    <3>7. Phase(main')
      BY <3>5, <3>6 DEF Phase, SameSession
    <3>8. Connected(main')
      BY <3>5, <3>6 DEF Connected
    <3>9. SameSession(main, main')
      BY <3>5, <3>6 DEF SameSession
    <3> QED BY <3>2, <3>3, <3>5, <3>7, <3>8, <3>9 DEF n
  <2> QED BY <2>1, <2>2, <2>3, <2>4, <2>5
<1>3. ChannelInv'
  BY <1>0, <1>2, MainQuiet
<1> QED BY <1>0, <1>2, <1>3, Facts DEF MainStep, MainInv, HoldKept

LEMMA ResumeStep ==
    ASSUME IInv, Resume
    PROVE  MainStep /\ HoldKept
<1>0. UNCHANGED <<toMain, renderer>> /\ main \in Mains
  BY Facts DEF Resume, SocketUnchanged
<1>1. CASE /\ main.resume = "ok"
           /\ main' = [main EXCEPT !.resume = "no", !.capture = "capturing"]
           /\ toRenderer' = Append(toRenderer, StartCapture(main.session))
  <2>1. main.recording /\ main.ready /\ main.capture = "none" /\ ~main.drained
    BY <1>1 DEF IInv, MainInv, Connected
  <2>2. main.session \in Sessions /\ main.session # None
    BY <2>1, HasSession
  <2>3. /\ main' \in Mains /\ SameSession(main, main') /\ main'.capture = "capturing"
        /\ main'.drained = main.drained /\ main'.recording = main.recording
        /\ main'.mode = main.mode /\ main'.source = main.source
    BY <1>0, <1>1 DEF Mains, SameSession
  <2>4. Phase(main')
    BY <1>0, <1>1, <2>1, <2>2 DEF IInv, MainInv, Phase, Mains
  <2>5. Connected(main')
    BY <1>0, <1>1, <2>1 DEF IInv, MainInv, Connected, Mains
  <2>6. ChannelInv'
    BY <1>0, <1>1, <2>1, <2>2, <2>3, CommandSent
  <2>7. toRenderer' \in Seq(FromMain)
    BY <1>1, <2>2, Made, Facts, AppendAt
  <2> QED BY <2>3, <2>4, <2>5, <2>6, <2>7 DEF MainStep, MainInv, HoldKept
<1>2. CASE /\ main.resume = "rejected"
           /\ StopRecording([main EXCEPT !.resume = "no", !.override = TRUE])
  <2>1. Variant([main EXCEPT !.resume = "no", !.override = TRUE])
    BY <1>2 DEF Variant
  <2> QED BY <1>0, <1>2, <2>1, StopStep DEF HoldKept
<1> QED BY <1>1, <1>2 DEF Resume

LEMMA EndStep ==
    ASSUME IInv, SocketClose \/ Closing \/ \E text \in BOOLEAN : Final(text)
    PROVE  /\ MainStep /\ main'.session # main.session
           /\ main'.recording => main'.mode = "long"
<1>0. UNCHANGED <<toMain, renderer>> /\ main.socket # "none"
  BY DEF SocketClose, Closing, Final, SocketUnchanged
<1>1. \E commands \in {<<>>, CloseCommands(main.session)} : Close(main, commands)
  BY DEF SocketClose, Closing, Final
<1> QED BY <1>0, <1>1, CloseStep

-----------------------------------------------------------------------------
(* The user.                                                                *)

LEMMA HoldStartStep ==
    ASSUME IInv, main.resume = "no", UNCHANGED <<toMain, renderer>>, HoldStart
    PROVE  MainStep
<1>1. CASE UNCHANGED <<main, toRenderer>>
  BY <1>1, Rest
<1>2. CASE Start("normal", "quick")
  BY <1>2, StartStep
<1>3. CASE StopRecording(main)
  BY <1>3, StopStep DEF Variant
<1> QED BY <1>1, <1>2, <1>3 DEF HoldStart

LEMMA HoldEndStep ==
    ASSUME IInv, main.resume = "no", UNCHANGED <<toMain, renderer>>, HoldEnd
    PROVE  /\ MainStep
           /\ ~(holdToTalk /\ main'.recording /\ main'.mode = "quick")
<1>1. CASE holdToTalk /\ main.mode = "quick" /\ main.recording
  BY <1>1, StopStep DEF HoldEnd, Variant
<1>2. CASE ~(holdToTalk /\ main.mode = "quick" /\ main.recording)
  <2>1. UNCHANGED <<main, toRenderer>>
    BY <1>2 DEF HoldEnd
  <2> QED BY <1>2, <2>1, Rest
<1> QED BY <1>1, <1>2

LEMMA ToggleLongStep ==
    ASSUME IInv, main.resume = "no", UNCHANGED <<toMain, renderer>>, ToggleLong
    PROVE  MainStep /\ (main'.recording => main'.mode = "long")
<1>1. CASE \E b \in BOOLEAN : StopRecording([main EXCEPT !.longQueued = b])
  <2>1. PICK b \in BOOLEAN : StopRecording([main EXCEPT !.longQueued = b])
    BY <1>1
  <2>2. Variant([main EXCEPT !.longQueued = b])
    BY DEF Variant
  <2> QED BY <2>1, <2>2, StopStep
<1>2. CASE /\ main.stopping /\ ~main.recording
           /\ main' = [main EXCEPT !.longQueued = TRUE] /\ UNCHANGED toRenderer
  <2>1. main \in Mains /\ main.session # None
    BY <1>2, HasSession, Facts
  <2>2. /\ main' \in Mains /\ SameSession(main, main') /\ main'.capture = main.capture
        /\ main'.drained = main.drained /\ ~main'.recording
    BY <1>2, <2>1 DEF Mains, SameSession
  <2>3. Phase(main') /\ Connected(main')
    BY <1>2, <2>1 DEF IInv, MainInv, Phase, Connected, Mains
  <2>4. ChannelInv'
    BY <1>2, <2>2, MainQuiet
  <2> QED BY <1>2, <2>2, <2>3, <2>4, Facts DEF MainStep, MainInv
<1>3. CASE Start("normal", "long")
  BY <1>3, StartStep
<1>4. CASE ~main.recording /\ UNCHANGED <<main, toRenderer>>
  BY <1>4, Rest
<1> QED BY <1>1, <1>2, <1>3, <1>4 DEF ToggleLong

\* What the recognizers make of a key.
Recognizers == [press : {"none", "hold", "double-tap"}, tap : BOOLEAN]
KeyNames == {"ctrl", "shift", "meta"}
QuickKeys == {"ctrl", "meta"}

LEMMA QuickHotkey ==
    /\ Required(DefaultHotkeys.quick) = QuickKeys
    /\ DefaultHotkeys.quick.key = "meta" /\ IsModifier("meta") /\ KeyNames \subseteq Modifiers
BY DEF Required, DefaultHotkeys, IsModifier, Modifiers, QuickKeys, KeyNames

LEMMA KeyDownEffect ==
    ASSUME keys.down \subseteq Modifiers, keys.quick \in Recognizers, keys.long \in Recognizers,
           NEW key \in KeyNames, NEW recent \in BOOLEAN,
           NEW hook, hook = HookKeyDown(keys, key, DefaultHotkeys, recent)
    PROVE  /\ hook.keys.down = keys.down \cup {key}
           /\ hook.keys.down \subseteq Modifiers
           /\ hook.keys.quick \in Recognizers /\ hook.keys.long \in Recognizers
           /\ hook.action \in {"none", "long", "double-tap", "hold-start"}
           /\ hook.action = "none" => hook.keys.quick = keys.quick
           /\ hook.action = "hold-start" => hook.keys.quick.press = "hold"
           /\ hook.action # "none" =>
                  hook.keys.quick.press = "none" \/ hook.keys.down \cap QuickKeys # {}
<1> DEFINE down == keys.down \cup {key}
           held == down \cap Modifiers
           long == KeyDown(keys.long, key, held, DefaultHotkeys.long, FALSE)
           quick == KeyDown(keys.quick, key, held, DefaultHotkeys.quick, recent)
<1>1. down \subseteq Modifiers /\ held = down
  BY QuickHotkey
<1>2. /\ long.rec \in Recognizers /\ long.action \in {"none", "hold-start", "double-tap"}
  BY DEF KeyDown, Recognizers
<1>3. /\ quick.rec \in Recognizers /\ quick.action \in {"none", "hold-start", "double-tap"}
      /\ quick.action = "none" => quick.rec = keys.quick
      /\ quick.action = "hold-start" => quick.rec.press = "hold"
      /\ quick.action # "none" => MatchesDown(key, held, DefaultHotkeys.quick)
  BY DEF KeyDown, Recognizers
<1>4. MatchesDown(key, held, DefaultHotkeys.quick) => down \cap QuickKeys # {}
  BY <1>1, QuickHotkey DEF MatchesDown, QuickKeys
<1>5. hook = IF long.action # "none"
             THEN [keys |-> [down |-> down, quick |-> AtRest, long |-> long.rec],
                   action |-> "long"]
             ELSE [keys |-> [down |-> down, quick |-> quick.rec, long |-> long.rec],
                   action |-> quick.action]
  BY DEF HookKeyDown
<1>6. AtRest \in Recognizers /\ AtRest.press = "none"
  BY DEF AtRest, Recognizers
<1> HIDE DEF down, held, long, quick
<1>7. CASE long.action # "none"
  <2>1. hook = [keys |-> [down |-> down, quick |-> AtRest, long |-> long.rec], action |-> "long"]
    BY <1>5, <1>7
  <2>2. hook.keys.down = down /\ hook.keys.quick = AtRest /\ hook.keys.long = long.rec
        /\ hook.action = "long"
    BY <2>1
  <2> QED BY <1>1, <1>2, <1>6, <2>2 DEF down
<1>8. CASE long.action = "none"
  <2>1. hook = [keys |-> [down |-> down, quick |-> quick.rec, long |-> long.rec],
                action |-> quick.action]
    BY <1>5, <1>8
  <2>2. hook.keys.down = down /\ hook.keys.quick = quick.rec /\ hook.keys.long = long.rec
        /\ hook.action = quick.action
    BY <2>1
  <2> QED BY <1>1, <1>2, <1>3, <1>4, <2>2 DEF down
<1> QED BY <1>7, <1>8

LEMMA KeyUpEffect ==
    ASSUME keys.down \subseteq Modifiers, keys.quick \in Recognizers, keys.long \in Recognizers,
           NEW key \in KeyNames, NEW short \in BOOLEAN,
           keys.quick.press # "none" => keys.down \cap QuickKeys # {},
           NEW hook, hook = HookKeyUp(keys, key, DefaultHotkeys, short)
    PROVE  /\ hook.keys.down \subseteq Modifiers
           /\ hook.keys.quick \in Recognizers /\ hook.keys.long \in Recognizers
           /\ hook.action \in {"none", "hold-end"}
           /\ hook.action = "none" => hook.keys.quick = keys.quick \/ keys.quick.press # "hold"
           /\ hook.keys.quick.press # "none" => hook.keys.down \cap QuickKeys # {}
<1> DEFINE down == keys.down \ {key}
           held == down \cap Modifiers
           long == KeyUp(keys.long, key, held, DefaultHotkeys.long, FALSE)
           quick == KeyUp(keys.quick, key, held, DefaultHotkeys.quick, short)
<1>1. down \subseteq Modifiers /\ held = down
  OBVIOUS
<1>2. AtRest \in Recognizers /\ AtRest.press = "none"
  BY DEF AtRest, Recognizers
<1>3. long.rec \in Recognizers
  BY <1>2 DEF KeyUp, Recognizers
<1>4. /\ quick.rec \in Recognizers /\ quick.action \in {"none", "hold-end"}
      /\ quick.action = "none" => quick.rec = keys.quick \/ keys.quick.press = "double-tap"
      /\ quick.rec.press # "none" =>
            /\ quick.rec = keys.quick
            /\ ~MatchesRelease(key, DefaultHotkeys.quick) \/ StillHeld(held, DefaultHotkeys.quick)
  BY <1>2 DEF KeyUp, Recognizers
<1>5. quick.rec.press # "none" => down \cap QuickKeys # {}
  <2>1. StillHeld(held, DefaultHotkeys.quick) => down \cap QuickKeys # {}
    BY <1>1, QuickHotkey DEF StillHeld
  <2>2. ~MatchesRelease(key, DefaultHotkeys.quick) => key \notin QuickKeys
    BY QuickHotkey DEF MatchesRelease
  <2> QED BY <1>4, <2>1, <2>2
<1>6. hook = [keys |-> [down |-> down, quick |-> quick.rec, long |-> long.rec],
              action |-> quick.action]
  BY DEF HookKeyUp
<1> HIDE DEF down, held, long, quick
<1>7. hook.keys.down = down /\ hook.keys.quick = quick.rec /\ hook.keys.long = long.rec
      /\ hook.action = quick.action
  BY <1>6
<1> QED BY <1>1, <1>3, <1>4, <1>5, <1>7

\* The keyboard's part of the type invariant.
KeysOK == /\ keys.down \subseteq Modifiers /\ keys.quick \in Recognizers
          /\ keys.long \in Recognizers /\ holdToTalk \in BOOLEAN

LEMMA KeysFacts == ASSUME IInv PROVE KeysOK
BY DEF IInv, TypeOK, KeysOK, Recognizers

LEMMA PressStep ==
    ASSUME IInv, NEW key \in KeyNames, NEW recent \in BOOLEAN, Press(key, recent)
    PROVE  MainStep /\ HoldInv' /\ KeysOK'
<1> DEFINE hook == HookKeyDown(keys, key, DefaultHotkeys, recent)
<1>0. /\ main.resume = "no" /\ UNCHANGED <<toMain, renderer, holdToTalk>>
      /\ keys' = hook.keys
      /\ \/ hook.action = "hold-start" /\ HoldStart
         \/ hook.action \in {"double-tap", "long"} /\ ToggleLong
         \/ hook.action = "none" /\ UNCHANGED <<main, toRenderer>>
  BY DEF Press, Quiet, UserUnchanged
<1>1. KeysOK /\ HoldInv
  BY KeysFacts DEF IInv
<1>2. /\ keys'.down = keys.down \cup {key}
      /\ keys'.down \subseteq Modifiers
      /\ keys'.quick \in Recognizers /\ keys'.long \in Recognizers
      /\ hook.action = "none" => keys'.quick = keys.quick
      /\ hook.action = "hold-start" => keys'.quick.press = "hold"
      /\ hook.action # "none" =>
            keys'.quick.press = "none" \/ keys'.down \cap QuickKeys # {}
  <2> HIDE DEF hook
  <2> QED BY <1>0, <1>1, KeyDownEffect DEF hook, KeysOK
<1> HIDE DEF hook
<1>3. KeysOK'
  BY <1>0, <1>1, <1>2 DEF KeysOK
<1>4. keys'.quick.press # "none" => keys'.down \cap QuickKeys # {}
  BY <1>1, <1>2, QuickHotkey DEF HoldInv
<1>5. MainStep /\ (holdToTalk /\ main'.recording /\ main'.mode = "quick"
                   /\ main'.source = "normal" => keys'.quick.press = "hold")
  <2>1. CASE hook.action = "hold-start" /\ HoldStart
    BY <1>0, <1>2, <2>1, HoldStartStep
  <2>2. CASE hook.action \in {"double-tap", "long"} /\ ToggleLong
    BY <1>0, <2>2, ToggleLongStep
  <2>3. CASE hook.action = "none" /\ UNCHANGED <<main, toRenderer>>
    BY <1>0, <1>1, <1>2, <2>3, Rest DEF HoldInv
  <2> QED BY <1>0, <2>1, <2>2, <2>3
<1> QED BY <1>0, <1>3, <1>4, <1>5, QuickHotkey DEF HoldInv

LEMMA ReleaseStep ==
    ASSUME IInv, NEW key \in KeyNames, NEW short \in BOOLEAN, Release(key, short)
    PROVE  MainStep /\ HoldInv' /\ KeysOK'
<1> DEFINE hook == HookKeyUp(keys, key, DefaultHotkeys, short)
<1>0. /\ main.resume = "no" /\ UNCHANGED <<toMain, renderer, holdToTalk>>
      /\ keys' = hook.keys
      /\ \/ hook.action = "hold-end" /\ HoldEnd
         \/ hook.action = "none" /\ UNCHANGED <<main, toRenderer>>
  BY DEF Release, Quiet, UserUnchanged
<1>1. KeysOK /\ HoldInv
  BY KeysFacts DEF IInv
<1>2. /\ keys'.down \subseteq Modifiers
      /\ keys'.quick \in Recognizers /\ keys'.long \in Recognizers
      /\ hook.action = "none" => keys'.quick = keys.quick \/ keys.quick.press # "hold"
      /\ keys'.quick.press # "none" => keys'.down \cap QuickKeys # {}
  <2>1. keys.quick.press # "none" => keys.down \cap QuickKeys # {}
    BY <1>1, QuickHotkey DEF HoldInv
  <2> HIDE DEF hook
  <2> QED BY <1>0, <1>1, <2>1, KeyUpEffect DEF hook, KeysOK
<1> HIDE DEF hook
<1>3. KeysOK'
  BY <1>0, <1>1, <1>2 DEF KeysOK
<1>4. MainStep /\ (holdToTalk /\ main'.recording /\ main'.mode = "quick"
                   /\ main'.source = "normal" => keys'.quick.press = "hold")
  <2>1. CASE hook.action = "hold-end" /\ HoldEnd
    BY <1>0, <2>1, HoldEndStep
  <2>2. CASE hook.action = "none" /\ UNCHANGED <<main, toRenderer>>
    BY <1>0, <1>1, <1>2, <2>2, Rest DEF HoldInv
  <2> QED BY <1>0, <2>1, <2>2
<1> QED BY <1>0, <1>2, <1>3, <1>4, QuickHotkey DEF HoldInv

LEMMA LabStep ==
    ASSUME IInv, Lab
    PROVE  MainStep /\ HoldKept
<1>0. main.resume = "no" /\ UNCHANGED <<toMain, renderer>>
  BY DEF Lab, Quiet, UserUnchanged
<1>1. CASE Start("lab", "quick")
  BY <1>0, <1>1, StartStep DEF HoldKept
<1>2. CASE StopRecording(main)
  BY <1>0, <1>2, StopStep DEF HoldKept, Variant
<1> QED BY <1>1, <1>2 DEF Lab

-----------------------------------------------------------------------------
(* The invariant.                                                           *)

LEMMA InitInv == Init => IInv
<1> SUFFICES ASSUME Init PROVE IInv
  OBVIOUS
<1>1. /\ main = Idle /\ committed = None /\ keys = NoKeys /\ holdToTalk \in BOOLEAN
      /\ toRenderer = <<>> /\ toMain = <<>>
      /\ renderer = [id |-> None, engine |-> "off", for |-> None, recorded |-> 0, port |-> <<>>]
  BY DEF Init
<1>2. /\ main \in Mains /\ main.session = None /\ main.generation = 0 /\ main.capture = "none"
      /\ main.sent = 0 /\ ~main.drained /\ ~main.recording /\ ~main.stopping /\ ~main.ready
      /\ main.resume = "no" /\ ~main.stopRequested /\ ~main.failed /\ main = ResetFlags(main)
  <2>1. Idle = [Idle EXCEPT !.generation = 0] /\ 0 \in 0..MaxSessions
    BY Constants DEF Idle
  <2> QED BY <1>1, <2>1, IdleFields
<1>3. AtRest \in Recognizers /\ AtRest.press = "none"
  BY DEF AtRest, Recognizers
<1>4. TypeOK
  <2>1. renderer \in Renderers
    BY <1>1, Constants, EmptySeq DEF Renderers
  <2>2. keys.down \subseteq Modifiers /\ {keys.quick, keys.long} \subseteq Recognizers
    BY <1>1, <1>3 DEF NoKeys
  <2> QED BY <1>1, <1>2, <2>1, <2>2, EmptySeq DEF TypeOK, Recognizers
<1>5. MainInv
  BY <1>2 DEF MainInv, Phase, Connected
<1>6. CommandOrder /\ CommandInv /\ EngineInv /\ PortInv /\ ReplyInv
  BY <1>1, <1>2, Constants, EmptySeq
     DEF CommandOrder, CommandInv, EngineInv, PortInv, ReplyInv
<1>7. AudioInv
  BY <1>2 DEF AudioInv
<1>8. HoldInv
  BY <1>1, <1>2, <1>3 DEF HoldInv, NoKeys
<1> QED BY <1>4, <1>5, <1>6, <1>7, <1>8 DEF IInv, ChannelInv

\* What an action preserves, put together.
LEMMA Together ==
    ASSUME MainStep, renderer' \in Renderers, toMain' \in Seq(FromRenderer), KeysOK', HoldInv',
           committed' \in Sessions \cup {None}
    PROVE  IInv'
BY DEF MainStep, KeysOK, Recognizers, TypeOK, IInv

\* The user's part, when the user does nothing.
LEMMA UserRests ==
    ASSUME IInv, UNCHANGED user, HoldKept
    PROVE  KeysOK' /\ HoldInv'
BY KeysFacts DEF user, HoldKept, IInv, HoldInv, KeysOK

LEMMA NextInv == IInv /\ [Next]_vars => IInv'
<1> SUFFICES ASSUME IInv, [Next]_vars PROVE IInv'
  OBVIOUS
<1>f. renderer \in Renderers /\ toMain \in Seq(FromRenderer) /\ toRenderer \in Seq(FromMain)
      /\ main \in Mains /\ main.session \in Sessions \cup {None}
      /\ committed \in Sessions \cup {None} /\ None \in Sessions \cup {None}
      /\ MainInv
  BY Facts DEF IInv, TypeOK, Mains
<1>1. ASSUME NEW key \in KeyNames, NEW quickly \in BOOLEAN,
             Press(key, quickly) \/ Release(key, quickly)
      PROVE  IInv'
  <2>1. MainStep /\ HoldInv' /\ KeysOK'
    BY <1>1, PressStep, ReleaseStep
  <2>2. UNCHANGED <<toMain, renderer>> /\ committed' = None
    BY <1>1 DEF Press, Release, UserUnchanged, CommitsNothing
  <2> QED BY <1>f, <2>1, <2>2, Together
<1>2. CASE Lab
  <2>1. UNCHANGED <<toMain, renderer>> /\ committed' = None /\ UNCHANGED user
    BY <1>2 DEF Lab, UserUnchanged, CommitsNothing
  <2> QED BY <1>2, <1>f, <2>1, LabStep, UserRests, Together
<1>3. CASE Open \/ Ready \/ ServerError \/ SocketError
  <2>1. UNCHANGED <<toMain, renderer>> /\ committed' = None /\ UNCHANGED user
    BY <1>3 DEF Open, Ready, ServerError, SocketError, SocketUnchanged, CommitsNothing
  <2> QED BY <1>3, <1>f, <2>1, SocketStep, UserRests, Together
<1>4. CASE Resume
  <2>1. UNCHANGED <<toMain, renderer>> /\ committed' = None /\ UNCHANGED user
    BY <1>4 DEF Resume, SocketUnchanged, CommitsNothing
  <2> QED BY <1>4, <1>f, <2>1, ResumeStep, UserRests, Together
<1>5. CASE SocketClose \/ Closing \/ \E text \in BOOLEAN : Final(text)
  <2>1. UNCHANGED <<toMain, renderer>> /\ UNCHANGED user
        /\ committed' \in {None, main.session}
    BY <1>5 DEF SocketClose, Closing, Final, SocketUnchanged, CommitsNothing
  <2>2. MainStep /\ HoldKept
    BY <1>5, EndStep DEF HoldKept
  <2> QED BY <1>f, <2>1, <2>2, UserRests, Together
<1>6. CASE MainReceive \/ DrainTimeout
  <2>1. UNCHANGED <<toRenderer, renderer>> /\ committed' = None /\ UNCHANGED user
    BY <1>6 DEF MainReceive, DrainTimeout, CommitsNothing
  <2>2. MainStep /\ HoldKept /\ toMain' \in Seq(FromRenderer)
    BY <1>6, <1>f, <2>1, MainReceiveInv DEF MainStep, HoldKept
  <2> QED BY <1>f, <2>1, <2>2, UserRests, Together
<1>7. CASE HandleCommand \/ EngineStarts \/ Record \/ AnswerDrain \/ PortMessage \/ RendererTimeout
  <2>1. UNCHANGED main /\ committed' = None /\ UNCHANGED user
    BY <1>7 DEF HandleCommand, EngineStarts, Record, AnswerDrain, PortMessage, RendererTimeout,
                RendererUnchanged, CommitsNothing
  <2>2. ChannelInv' /\ renderer' \in Renderers /\ toMain' \in Seq(FromRenderer)
        /\ toRenderer' \in Seq(FromMain)
    <3>1. CASE HandleCommand
      BY <3>1, HandleCommandInv
    <3>2. CASE EngineStarts
      BY <1>f, <3>2, EngineStartsInv DEF EngineStarts
    <3>3. CASE Record
      BY <1>f, <3>3, RecordInv DEF Record
    <3>4. CASE AnswerDrain
      BY <1>f, <3>4, AnswerDrainInv DEF AnswerDrain
    <3>5. CASE PortMessage \/ RendererTimeout
      BY <1>f, <3>5, PortMessageInv DEF PortMessage, RendererTimeout
    <3> QED BY <1>7, <3>1, <3>2, <3>3, <3>4, <3>5
  <2>3. MainStep /\ HoldKept
    BY <1>f, <2>1, <2>2 DEF MainStep, HoldKept, MainInv, Phase, Connected
  <2> QED BY <1>f, <2>1, <2>2, <2>3, UserRests, Together
<1>8. CASE UNCHANGED vars
  <2>1. /\ UNCHANGED <<main, toRenderer, toMain, renderer>> /\ UNCHANGED user
        /\ committed' = committed
    BY <1>8 DEF vars, user
  <2>2. MainStep /\ HoldKept
    BY <2>1, Rest
  <2> QED BY <1>f, <2>1, <2>2, UserRests, Together
<1> QED BY <1>1, <1>2, <1>3, <1>4, <1>5, <1>6, <1>7, <1>8 DEF Next, Keyboard, KeyNames

(* The inductive invariant: what main's flags say of each other, what is on  *)
(* its way in both directions, and what the microphone does meanwhile.     *)
THEOREM Invariant == Spec => []IInv
BY InitInv, NextInv, PTL DEF Spec

(* Both processes and the messages between them have their types, whatever  *)
(* the number of dictations and of buffers.                                *)
THEOREM ClientTypes == Spec => []TypeOK
<1>1. IInv => TypeOK
  BY DEF IInv
<1> QED BY <1>1, Invariant, PTL

(* The microphone runs for the current session or is about to be turned off, *)
(* and no session's start finds the microphone of an earlier one on: the     *)
(* commands are on their way in the order of their sessions, and every      *)
(* session that is over has told its microphone to stop.                   *)
THEOREM MicrophoneOff == Spec => []MicrophoneFollowsSession
<1>1. IInv => MicrophoneFollowsSession
  BY Engine, StartFindsEngineOff DEF MicrophoneFollowsSession
<1> QED BY <1>1, Invariant, PTL

(* A quick dictation under hold-to-talk goes with a press of its hotkey, and *)
(* that press with a key that is down.                                      *)
THEOREM Held == Spec => []HeldWhileRecording
<1>1. IInv => HeldWhileRecording
  BY DEF IInv, HoldInv, HeldWhileRecording
<1> QED BY <1>1, Invariant, PTL

(* What is committed is complete: the acknowledgement of the drain is the    *)
(* last message of its session, so what the microphone recorded has been    *)
(* sent when it is taken, and no stop frame is sent before that.           *)
THEOREM OnlyCompleteText == Spec => CommitsAreComplete
<1> DEFINE Step == committed' # None =>
                     /\ committed' = main.session /\ main'.session # main.session
                     /\ ~main.failed /\ ~main.override
                     /\ main.stopping => main.sent = Recorded(main.session)
<1>1. IInv /\ [Next]_vars => [Step]_vars
  <2> SUFFICES ASSUME IInv, Next, committed' # None PROVE Step
    OBVIOUS
  <2>1. PICK text \in BOOLEAN : Final(text)
    <3>1. Lab => committed' = None
      BY DEF Lab, UserUnchanged, CommitsNothing
    <3>2. Keyboard => committed' = None
      BY DEF Keyboard, Press, Release, UserUnchanged, CommitsNothing
    <3>3. Open \/ Ready \/ ServerError \/ Closing \/ SocketError \/ SocketClose \/ Resume
              => committed' = None
      BY DEF Open, Ready, ServerError, Closing, SocketError, SocketClose, Resume, CommitsNothing
    <3>4. MainReceive \/ DrainTimeout => committed' = None
      BY DEF MainReceive, DrainTimeout, CommitsNothing
    <3>5. HandleCommand \/ EngineStarts \/ Record \/ AnswerDrain \/ PortMessage
              \/ RendererTimeout => committed' = None
      BY DEF HandleCommand, EngineStarts, Record, AnswerDrain, PortMessage, RendererTimeout,
             RendererUnchanged, CommitsNothing
    <3> QED BY <3>1, <3>2, <3>3, <3>4, <3>5 DEF Next
  <2>2. CanCommit(main) /\ committed' = main.session /\ ~main.failed /\ main.ready
    BY <2>1 DEF Final
  <2>3. main'.session # main.session
    BY <2>1, EndStep
  <2>4. ~main.override /\ (main.capture \in {"none", "capturing"} \/ main.drained)
    BY <2>2 DEF CanCommit
  <2>5. main.stopping => main.drained
    <3>1. main.stopping => main.session # None
      BY HasSession
    <3> QED BY <2>2, <2>4, <3>1 DEF IInv, MainInv, Phase, Connected
  <2>6. main.drained => main.sent = Recorded(main.session)
    BY <2>2 DEF IInv, ChannelInv, AudioInv
  <2> QED BY <2>2, <2>3, <2>4, <2>5, <2>6
<1> QED BY <1>1, Invariant, PTL DEF Spec, CommitsAreComplete
===============================================================================
