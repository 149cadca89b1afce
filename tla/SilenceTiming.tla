---------------------------- MODULE SilenceTiming ----------------------------
(***************************************************************************)
(* How the speech server decides that a speaker has fallen silent          *)
(* (websocket/handler.py).  The partial-emission loop transcribes a        *)
(* snapshot of the audio and, when that inference ends, sets               *)
(* last_speech_time to the end of the speech it heard in the snapshot; the *)
(* silence monitor polls last_speech_time.  Audio arrives without a pause. *)
(* Time is discrete, counted from the first audio frame; one inference      *)
(* follows the other, since none is shorter than the emission interval.    *)
(***************************************************************************)
EXTENDS Naturals

CONSTANTS SilenceTimeout,  \* the client's silence_timeout
          PollPeriod,      \* sleep of the silence monitor
          MaxInference,    \* bound: duration of one partial inference
          Horizon,         \* bound: time modelled
          Never            \* no speech heard yet: last_speech_time is None

\* What the constants are; the theorem takes it as its premise.
ClockConstants ==
    /\ SilenceTimeout \in Nat \ {0} /\ PollPeriod \in Nat \ {0} /\ MaxInference \in Nat \ {0}
    /\ Horizon \in Nat /\ Never \notin Nat

VARIABLES now,
          spoke,      \* when the user last spoke
          talking,    \* start of the speech that has gone on without a pause
          heard,      \* last_speech_time
          since,      \* start of the partial inference in progress, or Never
          snapshot,   \* end of the speech in the audio it reads
          poll,       \* the monitor's next check
          timedOut    \* the monitor has decided to finalize

vars == <<now, spoke, talking, heard, since, snapshot, poll, timedOut>>

Init ==
    /\ now = 0 /\ spoke = 0 /\ talking = 0 /\ heard = Never
    /\ since = Never /\ snapshot = Never
    /\ poll = PollPeriod /\ timedOut = FALSE

\* transcribe_partial reads the buffer when it starts.
InferenceStarts ==
    /\ ~timedOut /\ since = Never
    /\ since' = now /\ snapshot' = spoke
    /\ UNCHANGED <<now, spoke, talking, heard, poll, timedOut>>

InferenceEnds ==
    /\ ~timedOut /\ since # Never /\ now > since
    /\ heard' = snapshot
    /\ since' = Never /\ snapshot' = Never
    /\ UNCHANGED <<now, spoke, talking, poll, timedOut>>

\* Before any speech is heard, silence counts from the first audio frame.
SilenceDuration == now - (IF heard = Never THEN 0 ELSE heard)

NextPoll == now + PollPeriod

\* One check of _silence_monitor_loop.
Check ==
    /\ ~timedOut /\ now = poll
    /\ timedOut' = (SilenceDuration >= SilenceTimeout)
    /\ poll' = NextPoll
    /\ UNCHANGED <<now, spoke, talking, heard, since, snapshot>>

\* Time passes while nothing is due; the user speaks through the tick or not.
Tick ==
    /\ ~timedOut /\ now < Horizon /\ now < poll
    /\ since # Never /\ now < since + MaxInference
    /\ now' = now + 1
    /\ \/ spoke' = now' /\ UNCHANGED talking
       \/ talking' = now' /\ UNCHANGED spoke
    /\ UNCHANGED <<heard, since, snapshot, poll, timedOut>>

Next == InferenceStarts \/ InferenceEnds \/ Check \/ Tick

Spec == Init /\ [][Next]_vars

(* Type correctness of the clocks.                                          *)
TypeOK ==
    /\ now \in Nat /\ spoke \in Nat /\ talking \in Nat /\ poll \in Nat
    /\ heard \in Nat \cup {Never} /\ since \in Nat \cup {Never}
    /\ snapshot \in Nat \cup {Never}
    /\ timedOut \in BOOLEAN

(* "Seconds of silence before auto-stop" (docs/protocol.md): a user who has   *)
(* been speaking without a pause for that long is not cut off.             *)
SpeechIsNotSilence == timedOut => now - talking < SilenceTimeout
===============================================================================
