---------------------------- MODULE DictationClient ----------------------------
(***************************************************************************)
(* A dictation as the desktop app runs it: the main process                *)
(* (main/index.ts) owns the recording flags, the connection to the speech  *)
(* server (services/transcription.ts) and the main side of the microphone  *)
(* stream (services/capture-session.ts); the overlay renderer              *)
(* (renderer/overlay) owns the microphone.  The two exchange commands,     *)
(* audio and acknowledgements over an ordered channel in each direction,   *)
(* tagged with the session that they are for.                              *)
(*                                                                         *)
(* A step is one event handler of a process, with the promise              *)
(* continuations it resolves.  Sessions are numbered by                    *)
(* overlaySessionGeneration.  What the overlay displays is a module of its *)
(* own, RecordingDisplay.  The user types the keys of the default hotkeys; *)
(* no key event is lost.                                                   *)
(***************************************************************************)
EXTENDS Hotkeys, Sequences, SequencesExt

CONSTANTS MaxSessions,  \* bound: dictations
          MaxAudio      \* bound: audio buffers a microphone produces in a dictation

ASSUME ConstantsAssumption == MaxSessions \in Nat \ {0} /\ MaxAudio \in Nat

VARIABLES
    main,        \* the main process, with its current TranscriptionService
    committed,   \* the session whose final text this step gave to paste and history
    keys,        \* the keyboard hook: the keys down and its two recognizers
    holdToTalk,  \* the setting, which the user leaves as it is
    toRenderer, toMain,  \* messages under way
    renderer     \* the overlay: captureSessionId and AudioCapture

vars == <<main, committed, keys, holdToTalk, toRenderer, toMain, renderer>>
user == <<keys, holdToTalk>>

None == 0

CommitsNothing == committed' = None

(* The module variables of index.ts, the flags of transcriptionService and   *)
(* the CaptureSession; `sent` counts the audio written to the socket.      *)
Idle ==
    [recording |-> FALSE, stopping |-> FALSE, session |-> None, generation |-> 0,
     source |-> "normal", mode |-> "quick", longQueued |-> FALSE, override |-> FALSE,
     socket |-> "none", ready |-> FALSE, stopRequested |-> FALSE, stopSent |-> FALSE,
     failed |-> FALSE, resume |-> "no",
     capture |-> "none", drained |-> FALSE, sent |-> 0]

Init ==
    /\ main = Idle
    /\ committed = None
    /\ keys = NoKeys /\ holdToTalk \in BOOLEAN
    /\ toRenderer = <<>> /\ toMain = <<>>
    /\ renderer = [id |-> None, engine |-> "off", for |-> None, recorded |-> 0, port |-> <<>>]

StartCapture(s) == [kind |-> "start", session |-> s]
StopCapture(s) == [kind |-> "stop", session |-> s]
DrainCapture(s) == [kind |-> "drain", session |-> s]
Audio(s) == [kind |-> "audio", session |-> s]
Stopped(s, drained) == [kind |-> "stopped", session |-> s, drained |-> drained]
CaptureError(s) == [kind |-> "error", session |-> s]

-----------------------------------------------------------------------------
(* The connection: TranscriptionService.                                    *)

Fail(m) == [m EXCEPT !.failed = TRUE]

Abort(m) == [Fail(m) EXCEPT !.socket = "terminated"]

\* Before the handshake is over a stop closes the socket; after it, it is a frame.
ServiceStop(m) ==
    IF m.stopRequested \/ m.failed THEN m
    ELSE [m EXCEPT !.stopRequested = TRUE,
                   !.socket = IF @ = "connecting" THEN "terminated" ELSE @,
                   !.stopSent = m.socket = "open"]

AudioAccepted(m) ==
    m.socket = "open" /\ m.ready /\ ~(m.stopRequested \/ m.failed)

-----------------------------------------------------------------------------
(* Starting, stopping and the end of a session: index.ts.                   *)

\* startRecording up to connect.  It does nothing while the server is not ready,
\* so every start may also be refused.
Started(m, source, mode) ==
    [m EXCEPT !.recording = TRUE, !.source = source, !.mode = mode, !.override = FALSE,
              !.session = m.generation + 1, !.generation = m.generation + 1,
              !.socket = "connecting"]

MayStart(m) == ~m.recording /\ ~m.stopping /\ m.generation < MaxSessions

Start(source, mode) ==
    /\ MayStart(main)
    /\ main' = Started(main, source, mode)
    /\ UNCHANGED toRenderer

\* stopRecording: the microphone is drained first, if there is one.
Stopping(m) ==
    LET stopping == [m EXCEPT !.recording = FALSE, !.stopping = TRUE]
    IN IF m.capture = "none" THEN ServiceStop(stopping)
       ELSE [stopping EXCEPT !.capture = "draining"]

DrainCommands(m) == IF m.capture = "none" THEN <<>> ELSE <<DrainCapture(m.session)>>

StopRecording(m) ==
    /\ m.recording
    /\ main' = Stopping(m)
    /\ toRenderer' = toRenderer \o DrainCommands(m)

\* The continuation of stopRecording once capture.stop() has resolved.
AfterDrain(m, drained) ==
    LET closed == [m EXCEPT !.capture = "closed", !.drained = drained]
    IN IF drained THEN ServiceStop(closed) ELSE Abort([closed EXCEPT !.override = TRUE])

ResetFlags(m) == [Idle EXCEPT !.generation = m.generation]

NoCommand(s) == <<>>
CloseCommands(s) == <<StopCapture(s)>>

\* finishClose and onClose: a long dictation queued meanwhile starts now, if it can.
Close(m, commands) ==
    /\ toRenderer' = toRenderer \o commands \o CloseCommands(m.session)
    /\ LET idle == ResetFlags(m) IN
       \/ main' = idle
       \/ m.longQueued /\ MayStart(idle) /\ main' = Started(idle, "normal", "long")

-----------------------------------------------------------------------------
(* The user.                                                                *)

UserUnchanged == CommitsNothing /\ UNCHANGED <<toMain, renderer>>

\* Promise continuations run before the next event that is not the socket's.
Quiet == main.resume = "no"

HoldStart ==
    IF holdToTalk \/ ~main.recording
    THEN \/ Start("normal", "quick")
         \/ UNCHANGED <<main, toRenderer>>
    ELSE StopRecording(main)

HoldEndOnceReady ==
    IF holdToTalk /\ main.mode = "quick" /\ main.recording /\ main.ready
    THEN StopRecording(main)
    ELSE UNCHANGED <<main, toRenderer>>
HoldEnd ==
    IF holdToTalk /\ main.mode = "quick" /\ main.recording
    THEN StopRecording(main)
    ELSE UNCHANGED <<main, toRenderer>>

\* A double tap or the long shortcut: toggleLongRecording.
ToggleLong ==
    \/ main.recording /\ main.mode = "long" /\ StopRecording([main EXCEPT !.longQueued = FALSE])
    \/ /\ main.recording /\ main.mode # "long"
       /\ StopRecording([main EXCEPT !.longQueued = TRUE])
    \/ /\ main.stopping /\ ~main.recording
       /\ main' = [main EXCEPT !.longQueued = TRUE] /\ UNCHANGED toRenderer
    \/ Start("normal", "long")
    \/ ~main.recording /\ ~main.stopping /\ UNCHANGED <<main, toRenderer>>

\* The callbacks of the hook; a key that is held may repeat.
Press(key, recent) ==
    /\ Quiet /\ (recent => keys.quick.tap)
    /\ LET hook == HookKeyDown(keys, key, DefaultHotkeys, recent) IN
       /\ keys' = hook.keys
       /\ \/ hook.action = "hold-start" /\ HoldStart
          \/ hook.action \in {"double-tap", "long"} /\ ToggleLong
          \/ hook.action = "none" /\ UNCHANGED <<main, toRenderer>>
    /\ UNCHANGED holdToTalk /\ UserUnchanged

Release(key, short) ==
    /\ Quiet /\ key \in keys.down /\ (short => keys.quick.press = "hold")
    /\ LET hook == HookKeyUp(keys, key, DefaultHotkeys, short) IN
       /\ keys' = hook.keys
       /\ \/ hook.action = "hold-end" /\ HoldEnd
          \/ hook.action = "none" /\ UNCHANGED <<main, toRenderer>>
    /\ UNCHANGED holdToTalk /\ UserUnchanged

\* The Lab's start, stop and toggle.
Lab ==
    /\ Quiet
    /\ Start("lab", "quick") \/ StopRecording(main)
    /\ UNCHANGED user /\ UserUnchanged

-----------------------------------------------------------------------------
(* Events of the socket.  The server's frames come in the order of           *)
(* SessionProtocol; those that only inform the user are left out.          *)

SocketUnchanged == UNCHANGED <<user, toMain, renderer>>

Open ==
    /\ main.socket = "connecting"
    /\ main' = [main EXCEPT !.socket = "open"]
    /\ CommitsNothing /\ UNCHANGED toRenderer /\ SocketUnchanged

\* The ready frame resolves connect(), unless the user has stopped meanwhile.
Ready ==
    /\ main.socket = "open" /\ ~main.ready /\ ~main.stopRequested /\ ~main.failed
    /\ main' = [main EXCEPT !.ready = TRUE, !.resume = "ok"]
    /\ CommitsNothing /\ UNCHANGED toRenderer /\ SocketUnchanged

CanAlwaysCommit(m) == TRUE
\* canCommit, and no capture error or failed drain.
CanCommit(m) == ~m.override /\ (m.capture \in {"none", "capturing"} \/ m.drained)

\* A final result, empty or not, ends the session in the same handler.  It is
\* not an answer to a session without ready.
Final(text) ==
    /\ main.socket = "open" /\ ~main.failed /\ main.ready
    /\ committed' = IF CanCommit(main) /\ main.source = "normal" /\ text
                    THEN main.session ELSE None
    /\ Close(main, IF CanCommit(main) THEN CloseCommands(main.session) ELSE <<>>)
    /\ SocketUnchanged

\* An error frame of the server ends the connection.
ServerError ==
    /\ main.socket = "open" /\ ~main.failed
    /\ main' = Abort(main)
    /\ CommitsNothing /\ UNCHANGED toRenderer /\ SocketUnchanged

Closing ==
    /\ main.socket = "open" /\ ~main.failed
    /\ Close(main, <<>>)
    /\ CommitsNothing /\ SocketUnchanged

\* The socket's error event rejects connect() if it is still pending.
SocketError ==
    /\ main.socket \in {"connecting", "open"} /\ ~main.failed
    /\ main' = IF main.stopRequested /\ ~main.ready
               THEN [main EXCEPT !.socket = "terminated"]
               ELSE [Fail(main) EXCEPT !.socket = "terminated",
                                       !.resume = IF main.ready THEN @ ELSE "rejected"]
    /\ CommitsNothing /\ UNCHANGED toRenderer /\ SocketUnchanged

SocketClose ==
    /\ main.socket \in {"connecting", "open", "terminated"}
    /\ Close(main, <<>>)
    /\ CommitsNothing /\ SocketUnchanged

\* startRecording after connect(): the microphone is started, or the session stopped.
Resume ==
    /\ \/ /\ main.resume = "ok"
          /\ main' = [main EXCEPT !.resume = "no", !.capture = "capturing"]
          /\ toRenderer' = Append(toRenderer, StartCapture(main.session))
       \/ /\ main.resume = "rejected" /\ main.recording
          /\ StopRecording([main EXCEPT !.resume = "no", !.override = TRUE])
    /\ CommitsNothing /\ SocketUnchanged

-----------------------------------------------------------------------------
(* The main side of the microphone.                                         *)

Forwards(m, s) == s = m.session /\ m.capture \in {"capturing", "draining"}

AcceptsError(m, s) == m.recording /\ m.capture # "none" /\ s = m.session

MainReceive ==
    /\ Quiet /\ toMain # <<>> /\ toMain' = Tail(toMain)
    /\ LET msg == Head(toMain) IN
       main' = CASE msg.kind = "audio" ->
                      IF Forwards(main, msg.session) /\ AudioAccepted(main)
                      THEN [main EXCEPT !.sent = @ + 1] ELSE main
                 [] msg.kind = "stopped" ->
                      IF msg.session = main.session /\ main.capture = "draining"
                      THEN AfterDrain(main, msg.drained) ELSE main
                 [] msg.kind = "error" ->
                      IF AcceptsError(main, msg.session)
                      THEN Abort([main EXCEPT !.override = TRUE]) ELSE main
    /\ CommitsNothing /\ UNCHANGED <<user, toRenderer, renderer>>

NoDrainTimer == FALSE
\* The two-second timer of capture.stop().
DrainTimer == main.capture = "draining"

DrainTimeout ==
    /\ Quiet /\ DrainTimer
    /\ main' = AfterDrain(main, FALSE)
    /\ CommitsNothing /\ UNCHANGED <<user, toRenderer, toMain, renderer>>

-----------------------------------------------------------------------------
(* The overlay renderer and its audio thread.                               *)

RendererUnchanged == CommitsNothing /\ UNCHANGED <<main, user>>

Report(msg) == toMain' = Append(toMain, msg)

\* AudioCapture.stop: the worklet's port is closed, what it holds is dropped.
EngineOff(r) == [r EXCEPT !.engine = "off", !.port = <<>>]

StartEngine(r, s) ==
    IF r.engine = "off"
    THEN [id |-> s, engine |-> "starting", for |-> s, recorded |-> 0, port |-> <<>>]
    ELSE [r EXCEPT !.id = s]

ReleasedToNext(r) == [r EXCEPT !.id = @ + MaxSessions]
Released(r) == [r EXCEPT !.id = None]

HandleCommand ==
    /\ toRenderer # <<>> /\ toRenderer' = Tail(toRenderer)
    /\ LET command == Head(toRenderer)
           mine == command.session = renderer.id IN
       \/ /\ command.kind = "start"
          /\ renderer' = StartEngine(renderer, command.session)
          /\ UNCHANGED toMain
       \/ /\ command.kind = "stop" /\ mine
          /\ renderer' = Released(EngineOff(renderer))
          /\ IF renderer.engine = "draining"
             THEN Report(Stopped(command.session, FALSE)) ELSE UNCHANGED toMain
       \/ /\ command.kind = "drain" /\ mine
          /\ IF renderer.engine = "capturing"
             THEN renderer' = [renderer EXCEPT !.engine = "draining"] /\ UNCHANGED toMain
             ELSE /\ renderer' = Released(EngineOff(renderer))
                  /\ Report(Stopped(command.session, TRUE))
       \/ /\ command.kind # "start" /\ ~mine
          /\ UNCHANGED <<renderer, toMain>>
    /\ RendererUnchanged

\* getUserMedia and the worklet's module are loaded, or one of them fails.
EngineStarts ==
    /\ renderer.engine = "starting"
    /\ \/ renderer' = [renderer EXCEPT !.engine = "capturing"] /\ UNCHANGED toMain
       \/ /\ renderer' = EngineOff(renderer)
          /\ IF renderer.id = renderer.for
             THEN Report(CaptureError(renderer.for)) ELSE UNCHANGED toMain
    /\ UNCHANGED toRenderer /\ RendererUnchanged

\* The audio thread posts a buffer, until it has answered the drain request.
Record ==
    /\ renderer.engine \in {"capturing", "draining"} /\ ~Contains(renderer.port, "drained")
    /\ renderer.recorded < MaxAudio
    /\ renderer' = [renderer EXCEPT !.recorded = @ + 1, !.port = Append(@, "audio")]
    /\ UNCHANGED <<toRenderer, toMain>> /\ RendererUnchanged

AnswerDrain ==
    /\ renderer.engine = "draining" /\ ~Contains(renderer.port, "drained")
    /\ renderer' = [renderer EXCEPT !.port = Append(@, "drained")]
    /\ UNCHANGED <<toRenderer, toMain>> /\ RendererUnchanged

DrainEnds(drained) ==
    /\ renderer' = IF renderer.id = renderer.for
                   THEN Released(EngineOff(renderer)) ELSE EngineOff(renderer)
    /\ Report(Stopped(renderer.for, drained))

PortMessage ==
    /\ renderer.port # <<>>
    /\ \/ /\ Head(renderer.port) = "audio"
          /\ renderer' = [renderer EXCEPT !.port = Tail(@)]
          /\ Report(Audio(renderer.for))
       \/ Head(renderer.port) = "drained" /\ DrainEnds(TRUE)
    /\ UNCHANGED toRenderer /\ RendererUnchanged

\* The one-second timer of AudioCapture.drain.
RendererTimeout ==
    /\ renderer.engine = "draining"
    /\ DrainEnds(FALSE)
    /\ UNCHANGED toRenderer /\ RendererUnchanged

-----------------------------------------------------------------------------
Keyboard == \E key \in {"ctrl", "shift", "meta"}, quickly \in BOOLEAN :
                Press(key, quickly) \/ Release(key, quickly)
Next == \/ Keyboard \/ Lab
        \/ Open \/ Ready \/ ServerError \/ Closing \/ SocketError \/ SocketClose \/ Resume
        \/ \E text \in BOOLEAN : Final(text)
        \/ MainReceive \/ DrainTimeout
        \/ HandleCommand \/ EngineStarts \/ Record \/ AnswerDrain \/ PortMessage \/ RendererTimeout

\* After a stop frame the server ends the session, and a closed socket says so
\* (TranscriptionSession!SessionEnds).  The renderer may hang.
ServerEnds == main.stopSent /\ (SocketClose \/ Closing \/ \E text \in BOOLEAN : Final(text))
SocketGone == main.socket = "terminated" /\ SocketClose

Fairness == WF_vars(Resume \/ DrainTimeout \/ SocketGone \/ ServerEnds)

Spec == Init /\ [][Next]_vars /\ Fairness

-----------------------------------------------------------------------------
Sessions == 1..MaxSessions
FromMain == {StartCapture(s) : s \in Sessions} \cup {StopCapture(s) : s \in Sessions}
            \cup {DrainCapture(s) : s \in Sessions}
FromRenderer == {Audio(s) : s \in Sessions} \cup {CaptureError(s) : s \in Sessions}
                \cup {Stopped(s, d) : s \in Sessions, d \in BOOLEAN}

Mains ==
    [recording : BOOLEAN, stopping : BOOLEAN, session : Sessions \cup {None},
     generation : 0..MaxSessions, source : {"normal", "lab"},
     mode : {"quick", "long"}, longQueued : BOOLEAN, override : BOOLEAN,
     socket : {"none", "connecting", "open", "terminated"}, ready : BOOLEAN,
     stopRequested : BOOLEAN, stopSent : BOOLEAN,
     failed : BOOLEAN, resume : {"no", "ok", "rejected"},
     capture : {"none", "capturing", "draining", "closed"},
     drained : BOOLEAN, sent : 0..MaxAudio]

Renderers ==
    [id : Sessions \cup {None}, for : Sessions \cup {None},
     engine : {"off", "starting", "capturing", "draining"},
     recorded : 0..MaxAudio, port : Seq({"audio", "drained"})]

(* Type correctness of both processes and of the messages between them.     *)
TypeOK ==
    /\ main \in Mains /\ renderer \in Renderers
    /\ committed \in Sessions \cup {None} /\ holdToTalk \in BOOLEAN
    /\ keys.down \subseteq Modifiers
    /\ {keys.quick, keys.long} \subseteq [press : {"none", "hold", "double-tap"}, tap : BOOLEAN]
    /\ toRenderer \in Seq(FromMain) /\ toMain \in Seq(FromRenderer)

Recorded(s) == IF renderer.for = s THEN renderer.recorded ELSE 0

(* The text of a dictation is committed at most once, never after the        *)
(* session failed, and once the user has asked to stop only if every buffer  *)
(* the microphone recorded had been sent, in whatever order the drain, its  *)
(* timers, the socket and the next session interleave.                     *)
CommitsAreComplete ==
    [][committed' # None =>
          /\ committed' = main.session /\ main'.session # main.session
          /\ ~main.failed /\ ~main.override
          /\ main.stopping => main.sent = Recorded(main.session)]_vars

(* The microphone runs for the current session, or the command that turns it *)
(* off is on its way and will not be ignored; and a session's start never  *)
(* finds the microphone of an earlier one still running, which would leave *)
(* it without audio.                                                       *)
MicrophoneFollowsSession ==
    /\ renderer.engine # "off" =>
          /\ renderer.id = renderer.for
          /\ renderer.for = main.session \/ Contains(toRenderer, StopCapture(renderer.for))
    /\ toRenderer # <<>> /\ Head(toRenderer).kind = "start" => renderer.engine = "off"

(* With hold-to-talk a quick dictation does not outlive the keys that        *)
(* started it, in whichever order they are released and with whatever long *)
(* dictations, double taps and repeated keys in between.                   *)
HeldWhileRecording ==
    holdToTalk /\ main.recording /\ main.mode = "quick" /\ main.source = "normal" =>
        keys.down \cap Required(DefaultHotkeys.quick) # {}

(* A dictation that is being stopped ends, even if the renderer hangs: there *)
(* is no time after which the client is stopping for ever.                 *)
StopEnds == []<>~main.stopping
===============================================================================
