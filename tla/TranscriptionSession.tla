------------------------- MODULE TranscriptionSession -------------------------
(***************************************************************************)
(* One WebSocket session of the speech server (websocket/handler.py): the  *)
(* connection's message loop, its partial-emission task and its silence    *)
(* monitor, which share a state machine, an audio buffer, a finalization   *)
(* lock and the processor's model lease.                                   *)
(*                                                                         *)
(* A step is a stretch of code between two awaits.  A frame that is being  *)
(* sent is on the wire when its send starts; the send may then time out,   *)
(* so that one that raises may have been delivered.  Whoever is first in   *)
(* lockQ holds the finalization lock (asyncio.Lock is first come, first    *)
(* served).                                                                *)
(***************************************************************************)
EXTENDS AsyncioLock

CONSTANTS Messages,   \* kinds of message the client sends after its start frame
          MaxAudio,   \* bound: audio frames accepted
          MaxInterim  \* bound: partial, status and warning frames are sent only
                      \* while fewer frames than this are on the wire

ASSUME ConstantsAssumption ==
    /\ Messages \subseteq {"audio", "badAudio", "badJson", "nonObject", "stop", "ignored"}
    /\ MaxAudio \in Nat /\ MaxInterim \in Nat

VARIABLES
    state,      \* the SessionStateMachine
    buffer,     \* the AudioBuffer: open or closed
    accepted,   \* audio frames appended to it
    covered,    \* audio frames the final transcription reads
    lastText,   \* last_partial_text # ""
    warned,     \* warning_sent
    lockQ,      \* finalization_lock: holder, then waiters
    pc,         \* where main, partial and silence await
    cancelled,  \* main has cancelled the other two
    raised,     \* main unwinds an unexpected exception
    jobs,       \* actors whose native inference has been submitted and not ended
    closed,     \* the processor's _closed
    lease,      \* its SessionLease
    registered, \* the session counts against max_sessions
    peer,       \* the client is connected
    socket, wire

bufferVars == <<buffer, accepted, covered>>
leaseVars == <<jobs, closed, lease>>
netVars == <<socket, wire>>
controlVars == <<lockQ, cancelled, raised, registered>>
textVars == <<lastText, warned>>
vars == <<state, bufferVars, textVars, controlVars, pc, leaseVars, peer, netVars>>

Actors == {"main", "partial", "silence"}
Finalizers == {"main", "silence"}

Init ==
    /\ state = "connected" /\ buffer = "open" /\ accepted = 0 /\ covered = 0
    /\ lastText = FALSE /\ warned = FALSE /\ lockQ = <<>>
    /\ pc = [a \in Actors |-> IF a = "main" THEN "connect" ELSE "none"]
    /\ cancelled = FALSE /\ raised = FALSE /\ jobs = {} /\ closed = FALSE
    /\ lease = "none" /\ registered = FALSE
    /\ peer = TRUE /\ socket = "open" /\ wire = <<>>

\* SessionStateMachine
Accepting == state \in {"started", "streaming"}
Active == state # "closed"

Goto(a, place) == pc' = [pc EXCEPT ![a] = place]

\* Leaving the message loop cancels the two tasks before anything else runs.
Continue(place) == Goto("main", place) /\ cancelled' = (place = "gather")

\* FrameSender._send_json: a send that is not `ok` raises, delivered or not.
Send(f, ok) ==
    /\ UNCHANGED socket
    /\ IF ok THEN socket = "open" /\ wire' = IF peer THEN Append(wire, f) ELSE wire
       ELSE \/ wire' = wire
            \/ socket = "open" /\ peer /\ wire' = Append(wire, f)

\* _close_websocket; closing twice raises, which no caller lets change anything.
CloseSocket == socket' = "closed" /\ UNCHANGED wire

Holds(a) == HeldBy(lockQ, a)
Unlock == lockQ' = Tail(lockQ)
Abandon(a) == lockQ' = Leave(lockQ, a)

\* Interim frames are the only ones that could be sent for ever.
RoomForInterim == Len(wire) < MaxInterim

-----------------------------------------------------------------------------
(* Connecting: session limit, model status, start frame, processor.        *)

\* create_session; beyond max_sessions the connection gets an error and no session.
Connect ==
    /\ pc["main"] = "connect"
    /\ \/ registered' = TRUE /\ Goto("main", "runtime") /\ UNCHANGED netVars
       \/ /\ \E ok \in BOOLEAN : Send("error", ok)
          /\ registered' = FALSE /\ Goto("main", "limited")
    /\ UNCHANGED <<state, bufferVars, textVars, lockQ, cancelled, raised, leaseVars, peer>>

Limited ==
    /\ pc["main"] = "limited"
    /\ CloseSocket
    /\ Goto("main", "done")
    /\ UNCHANGED <<state, bufferVars, textVars, controlVars, leaseVars, peer>>

\* Refused: an error and a close.  A send that raises ends in the outer handler.
Refuse ==
    /\ \E ok \in BOOLEAN :
       /\ Send("error", ok)
       /\ raised' = ~ok
       /\ Goto("main", IF ok THEN "close" ELSE "error")
    /\ UNCHANGED <<state, bufferVars, textVars, lockQ, cancelled, registered, leaseVars, peer>>

\* The model runtime's status, which accepts sessions or does not.
CheckRuntime ==
    /\ pc["main"] = "runtime"
    /\ \/ /\ Goto("main", "waitStart")
          /\ UNCHANGED <<state, bufferVars, textVars, controlVars, leaseVars, peer, netVars>>
       \/ Refuse

\* _wait_for_start
WaitForStart ==
    /\ pc["main"] = "waitStart"
    /\ \/ /\ state' = "started" /\ Goto("main", "ready")
          /\ UNCHANGED <<bufferVars, textVars, controlVars, leaseVars, peer, netVars>>
       \/ Refuse
       \/ /\ ~peer /\ Goto("main", "teardown")
          /\ UNCHANGED <<state, bufferVars, textVars, controlVars, leaseVars, peer, netVars>>

SendReady ==
    /\ pc["main"] = "ready"
    /\ \E ok \in BOOLEAN :
       /\ Send("ready", ok)
       /\ raised' = ~ok
       /\ Goto("main", IF ok THEN "processor" ELSE "error")
    /\ UNCHANGED <<state, bufferVars, textVars, lockQ, cancelled, registered, leaseVars, peer>>

\* TranscriptionProcessor opens a model session, and the two tasks start.
OpenProcessor ==
    /\ pc["main"] = "processor"
    /\ \/ /\ lease' = "held"
          /\ pc' = [main |-> "loop", partial |-> "cycle", silence |-> "sleep"]
          /\ UNCHANGED raised
       \/ raised' = TRUE /\ Goto("main", "error") /\ UNCHANGED lease
    /\ UNCHANGED <<state, bufferVars, textVars, lockQ, cancelled, registered, jobs, closed, peer,
                   netVars>>

-----------------------------------------------------------------------------
(* The message loop.                                                       *)

\* After a message: `while context.state_machine.is_active()`.
Onward(s) == IF s = "closed" THEN "gather" ELSE "loop"

\* A message whose handler waits for the finalization lock, fails, or ignores it.
Receive(m) ==
    /\ pc["main"] = "loop" /\ peer
    /\ m = "audio" => accepted < MaxAudio
    /\ CASE m \in {"audio", "badAudio", "badJson"} ->
              lockQ' = Append(lockQ, "main") /\ Continue(m) /\ UNCHANGED raised
         [] m = "stop" ->
              lockQ' = Append(lockQ, "main") /\ Continue("finalize") /\ UNCHANGED raised
         [] m = "nonObject" ->
              raised' = TRUE /\ Continue("gather") /\ UNCHANGED lockQ
         [] OTHER -> Continue(Onward(state)) /\ UNCHANGED <<raised, lockQ>>
    /\ UNCHANGED <<state, bufferVars, textVars, registered, leaseVars, peer, netVars>>

\* The client disconnected, or the silence monitor closed the socket.
ReceiveDisconnect ==
    /\ pc["main"] = "loop" /\ (~peer \/ socket = "closed")
    /\ Continue("gather")
    /\ UNCHANGED <<state, bufferVars, textVars, lockQ, raised, registered, leaseVars, peer,
                   netVars>>

AdmitsAnyAudio == TRUE
AdmitsAudio == Accepting

\* _handle_audio_frame, lock held: appending may fail (the spool is a file),
\* and the frame that makes the dictation long is announced.
HandleAudio ==
    /\ pc["main"] = "audio" /\ Holds("main") /\ Unlock
    /\ IF ~AdmitsAudio
       THEN /\ Continue(Onward(state))
            /\ UNCHANGED <<state, bufferVars, raised, netVars>>
       ELSE \/ /\ accepted' = accepted + 1
               /\ state' = IF state = "started" THEN "streaming" ELSE state
               /\ Continue("loop")
               /\ UNCHANGED <<buffer, raised, netVars>>
            \/ /\ accepted' = accepted + 1 /\ RoomForInterim
               /\ \E ok \in BOOLEAN :
                  /\ Send("status", ok)
                  /\ raised' = ~ok
                  /\ state' = IF ok /\ state = "started" THEN "streaming" ELSE state
                  /\ Continue(IF ok THEN "loop" ELSE "gather")
               /\ UNCHANGED buffer
            \/ /\ buffer' = "closed" /\ raised' = TRUE /\ Continue("gather")
               /\ UNCHANGED <<state, accepted, netVars>>
    /\ UNCHANGED <<covered, textVars, registered, leaseVars, peer>>

\* A malformed frame is fatal unless the session is already closed or finalizing.
Rejects == IF pc["main"] = "badAudio" THEN Accepting ELSE Active

\* Malformed audio (ParseError) and control frames that are not JSON.
HandleMalformed ==
    /\ pc["main"] \in {"badAudio", "badJson"} /\ Holds("main") /\ Unlock
    /\ IF Rejects
       THEN /\ state' = "closed" /\ buffer' = "closed"
            /\ \E ok \in BOOLEAN :
               /\ Send("error", ok)
               /\ raised' = ~ok
               /\ Continue(IF ok THEN "close" ELSE "gather")
       ELSE /\ Continue(IF pc["main"] = "badJson" THEN "close" ELSE Onward(state))
            /\ UNCHANGED <<state, buffer, raised, netVars>>
    /\ UNCHANGED <<accepted, covered, textVars, registered, leaseVars, peer>>

-----------------------------------------------------------------------------
(* Finalization, by the message loop (stop) or by the silence monitor.     *)

ReadableOneMore == accepted + 1
\* Audio frames the buffer yields; a closed one yields none.
Readable == IF buffer = "open" THEN accepted ELSE 0

AlreadyClosed == state = "closed"

\* _finalize_session obtains the lock; transcribe_final reads all buffered audio.
FinalizeBegin(a) ==
    /\ pc[a] = "finalize" /\ Holds(a)
    /\ IF AlreadyClosed
       THEN /\ Unlock /\ Goto(a, "close")
            /\ UNCHANGED <<state, covered, jobs>>
       ELSE /\ state' = "finalizing"
            /\ covered' = Readable
            /\ jobs' = IF covered' > 0 THEN jobs \cup {a} ELSE jobs
            /\ Goto(a, "transcribe")
            /\ UNCHANGED lockQ
    /\ UNCHANGED <<buffer, accepted, textVars, cancelled, raised, registered, closed, lease, peer,
                   netVars>>

FinalizeTranscribed(a) == pc[a] = "transcribe" /\ a \notin jobs

\* The next chunk of a long dictation, after its status frame; a status frame
\* that cannot be sent fails the transcription.
FinalizeChunk(a) ==
    /\ FinalizeTranscribed(a) /\ covered > 0 /\ RoomForInterim
    /\ \E ok \in BOOLEAN :
       /\ Send("status", ok)
       /\ IF ok
          THEN jobs' = jobs \cup {a} /\ UNCHANGED <<pc, buffer>>
          ELSE /\ Goto(a, IF lastText THEN "sendRecovered" ELSE "sendError")
               /\ buffer' = "closed" /\ UNCHANGED jobs
    /\ UNCHANGED <<state, accepted, covered, textVars, controlVars, closed, lease, peer>>

Failures == IF covered > 0 THEN {"sendRecovered", "sendError"} ELSE {}

\* Inference succeeded, or failed with or without text to recover.
FinalizeResult(a) ==
    /\ FinalizeTranscribed(a)
    /\ \E place \in {"sendFinal"} \cup Failures :
          Goto(a, place)
    /\ buffer' = "closed"
    /\ UNCHANGED <<state, accepted, covered, textVars, controlVars, leaseVars, peer, netVars>>

FinalizeSend(a) ==
    /\ \E ok \in BOOLEAN :
       \/ /\ pc[a] = "sendRecovered" /\ Send("partial", ok) /\ Goto(a, "sendError")
       \/ /\ pc[a] = "sendError" /\ Send("error", ok) /\ Goto(a, "sendClosing")
       \/ /\ pc[a] = "sendFinal" /\ Send("final", ok) /\ Goto(a, "sendClosing")
    /\ UNCHANGED <<state, bufferVars, textVars, controlVars, leaseVars, peer>>

FinalizeEnd(a) ==
    /\ pc[a] = "sendClosing"
    /\ \E ok \in BOOLEAN : Send("closing", ok)
    /\ state' = "closed"
    /\ Unlock /\ Goto(a, "close")
    /\ UNCHANGED <<bufferVars, textVars, cancelled, raised, registered, leaseVars, peer>>

Finalize(a) ==
    FinalizeBegin(a) \/ FinalizeChunk(a) \/ FinalizeResult(a) \/ FinalizeSend(a) \/ FinalizeEnd(a)

\* The socket is closed after finalization, an error or a refused start.
MainClose ==
    /\ pc["main"] = "close"
    /\ CloseSocket
    /\ Continue(IF lease = "none" THEN "teardown" ELSE "gather")
    /\ UNCHANGED <<state, bufferVars, textVars, lockQ, raised, registered, leaseVars, peer>>

-----------------------------------------------------------------------------
(* _partial_emission_loop.                                                 *)

PartialBegin ==
    /\ pc["partial"] = "cycle" /\ ~cancelled
    /\ \/ /\ ~Active /\ Goto("partial", "done") /\ UNCHANGED jobs
       \/ /\ Accepting /\ accepted > 0 /\ buffer = "open" /\ RoomForInterim
          /\ jobs' = jobs \cup {"partial"}
          /\ Goto("partial", "transcribe")
    /\ UNCHANGED <<state, bufferVars, textVars, controlVars, closed, lease, peer, netVars>>

\* transcribe_partial returns new text, no news, or fails; then the lock is
\* awaited, except after an error that is only logged.
PartialResult ==
    /\ pc["partial"] = "transcribe" /\ "partial" \notin jobs /\ ~cancelled
    /\ \/ /\ \E text \in BOOLEAN :
             lastText' = text /\ Goto("partial", IF text THEN "emitText" ELSE "emitNothing")
          /\ lockQ' = Append(lockQ, "partial")
       \/ /\ \E place \in {"emitNothing", "emitWarning"} : Goto("partial", place)
          /\ lockQ' = Append(lockQ, "partial")
          /\ UNCHANGED lastText
       \/ Goto("partial", "cycle") /\ UNCHANGED <<lockQ, lastText>>
    /\ UNCHANGED <<state, bufferVars, warned, cancelled, raised, registered, leaseVars, peer,
                   netVars>>

EmitsAlways == TRUE
\* What was transcribed before finalization began is suppressed after it.
Emits == Accepting

\* A warning that cannot be sent raises inside an except clause and ends the task.
PartialEmit ==
    /\ pc["partial"] \in {"emitText", "emitNothing", "emitWarning"}
    /\ Holds("partial") /\ Unlock /\ ~cancelled
    /\ IF ~Emits THEN Goto("partial", "done") /\ UNCHANGED <<warned, netVars>>
       ELSE CASE pc["partial"] = "emitText" ->
                   /\ \E ok \in BOOLEAN : Send("partial", ok)
                   /\ Goto("partial", "cycle") /\ UNCHANGED warned
              [] pc["partial"] = "emitWarning" /\ ~warned ->
                   /\ warned' = TRUE
                   /\ \E ok \in BOOLEAN :
                         Send("warning", ok) /\ Goto("partial", IF ok THEN "cycle" ELSE "done")
              [] OTHER -> Goto("partial", "cycle") /\ UNCHANGED <<warned, netVars>>
    /\ UNCHANGED <<state, bufferVars, lastText, cancelled, raised, registered, leaseVars, peer>>

-----------------------------------------------------------------------------
(* _silence_monitor_loop.  Time is left out: it may find any timeout.      *)

SilenceTimeout ==
    /\ pc["silence"] = "sleep" /\ ~cancelled
    /\ \/ ~Active /\ Goto("silence", "done") /\ UNCHANGED lockQ
       \/ Accepting /\ Goto("silence", "finalize") /\ lockQ' = Append(lockQ, "silence")
    /\ UNCHANGED <<state, bufferVars, textVars, cancelled, raised, registered, leaseVars, peer,
                   netVars>>

KeepSocket == UNCHANGED netVars
ReleaseSocket == CloseSocket

SilenceClose ==
    /\ pc["silence"] = "close" /\ ~cancelled
    /\ ReleaseSocket
    /\ Goto("silence", "done")
    /\ UNCHANGED <<state, bufferVars, textVars, controlVars, leaseVars, peer>>

-----------------------------------------------------------------------------
(* Teardown.                                                               *)

\* A cancelled task leaves the lock; a silence monitor that was finalizing
\* closes the socket on its way out.  Native work goes on.
Cancelled(a) ==
    /\ a # "main" /\ cancelled /\ pc[a] # "done"
    /\ Abandon(a)
    /\ Goto(a, "done")
    /\ state' = IF pc[a] = "sendClosing" THEN "closed" ELSE state
    /\ IF a = "silence" /\ pc[a] # "sleep" THEN CloseSocket ELSE UNCHANGED netVars
    /\ UNCHANGED <<bufferVars, textVars, cancelled, raised, registered, leaseVars, peer>>

TasksGone == pc["partial"] = "done" /\ pc["silence"] = "done"

NoInference == jobs = {}

\* gather, then processor.close: the lease is released once nothing runs on it.
CloseProcessor ==
    /\ pc["main"] = "gather" /\ TasksGone
    /\ closed' = TRUE
    /\ lease' = IF NoInference THEN "released" ELSE lease
    /\ Goto("main", IF raised THEN "error" ELSE "teardown")
    /\ UNCHANGED <<state, bufferVars, textVars, controlVars, jobs, peer, netVars>>

ReleasesNever(a) == FALSE
ReleasesLease(a) == closed /\ jobs = {a}

\* A native inference ends; _inference_finished runs on its thread.
InferenceFinished(a) ==
    /\ a \in jobs
    /\ jobs' = jobs \ {a}
    /\ lease' = IF ReleasesLease(a) THEN "released" ELSE lease
    /\ UNCHANGED <<state, bufferVars, textVars, controlVars, pc, closed, peer, netVars>>

\* The outer except clause reports an unexpected exception.
ReportError ==
    /\ pc["main"] = "error"
    /\ \E ok \in BOOLEAN : Send("error", ok)
    /\ Goto("main", "teardown")
    /\ UNCHANGED <<state, bufferVars, textVars, controlVars, leaseVars, peer>>

Teardown ==
    /\ pc["main"] = "teardown"
    /\ state' = "closed" /\ registered' = FALSE /\ buffer' = "closed"
    /\ CloseSocket
    /\ Goto("main", "done")
    /\ UNCHANGED <<accepted, covered, textVars, lockQ, cancelled, raised, leaseVars, peer>>

Disconnect ==
    /\ peer /\ peer' = FALSE
    /\ UNCHANGED <<state, bufferVars, textVars, controlVars, pc, leaseVars, netVars>>

-----------------------------------------------------------------------------
Main == \/ Connect \/ Limited \/ CheckRuntime \/ WaitForStart \/ SendReady \/ OpenProcessor
        \/ ReceiveDisconnect \/ HandleAudio \/ HandleMalformed \/ Finalize("main")
        \/ MainClose \/ CloseProcessor \/ ReportError \/ Teardown

Partial == PartialBegin \/ PartialResult \/ PartialEmit \/ Cancelled("partial")

SilenceFinalizes == (~cancelled /\ Finalize("silence")) \/ SilenceClose \/ Cancelled("silence")

Next == \/ Main \/ Partial \/ SilenceFinalizes \/ SilenceTimeout \/ Disconnect
        \/ \E m \in Messages : Receive(m)
        \/ \E a \in Actors : InferenceFinished(a)

(* The event loop runs every task that is ready, sends and closes end by    *)
(* their deadline and native inference ends.  Nothing obliges the client to *)
(* send or to disconnect, or the silence monitor to find a timeout.  A      *)
(* dictation has finitely many chunks.                                      *)
Fairness == /\ WF_vars(Main) /\ WF_vars(Partial) /\ WF_vars(SilenceFinalizes)
            /\ \A a \in Actors : WF_vars(InferenceFinished(a))
            /\ \A a \in Finalizers : SF_vars(FinalizeResult(a))

Spec == Init /\ [][Next]_vars /\ Fairness

-----------------------------------------------------------------------------
Places == {"none", "done", "connect", "limited", "runtime", "waitStart", "ready", "processor",
           "loop", "audio", "badAudio", "badJson", "finalize", "transcribe", "sendRecovered",
           "sendError", "sendFinal", "sendClosing", "close", "gather", "error",
           "teardown", "cycle", "emitText", "emitNothing", "emitWarning", "sleep"}

Frames == {"ready", "partial", "status", "warning", "final", "error", "closing"}

(* Type correctness of a session's state, tasks and connection.             *)
TypeOK ==
    /\ state \in {"connected", "started", "streaming", "finalizing", "closed"}
    /\ buffer \in {"open", "closed"}
    /\ accepted \in 0..MaxAudio /\ covered \in 0..MaxAudio
    /\ lastText \in BOOLEAN /\ warned \in BOOLEAN
    /\ lockQ \in Seq(Actors)
    /\ pc \in [Actors -> Places]
    /\ cancelled \in BOOLEAN /\ raised \in BOOLEAN
    /\ jobs \subseteq Actors /\ closed \in BOOLEAN
    /\ lease \in {"none", "held", "released"}
    /\ registered \in BOOLEAN /\ peer \in BOOLEAN
    /\ socket \in {"open", "closed"} /\ wire \in Seq(Frames)

Protocol == INSTANCE SessionProtocol WITH wire <- wire, socket <- socket

(* The frames a client sees follow the documented protocol, whichever of    *)
(* stop, silence, malformed input, failing sends and late partial results  *)
(* meet (docs/protocol.md, "Emission Rules").                              *)
FollowsProtocol == Protocol!Spec

Sent(f) == \E i \in 1..Len(wire) : wire[i] = f

(* A final covers every audio frame the server accepted: none is appended   *)
(* while or after the final transcription reads the buffer, and the buffer *)
(* is never released under it.                                             *)
FinalCoversAllAudio == Sent("final") => covered = accepted

(* The session keeps what it uses and nothing else.  The model lease outlives *)
(* every native inference it submitted, though the tasks that awaited it are  *)
(* cancelled; when the handler returns it leaves no task, no slot of          *)
(* max_sessions, no audio, no socket, and no lease without work under it.     *)
HoldsWhatItUses ==
    /\ jobs # {} => lease = "held"
    /\ pc["main"] = "done" =>
           /\ ~registered /\ socket = "closed" /\ lockQ = <<>>
           /\ \A a \in {"partial", "silence"} : pc[a] \in {"none", "done"}
           /\ Sent("ready") => buffer = "closed" /\ state = "closed"
           /\ lease = "held" => jobs # {}

(* A session that is finalizing, closed, or abandoned by its client ends,   *)
(* and gives its lease back.                                               *)
SessionEnds ==
    ~peer \/ state \in {"finalizing", "closed"} ~> pc["main"] = "done" /\ lease # "held"
=============================================================================
