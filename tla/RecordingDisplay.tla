--------------------------- MODULE RecordingDisplay ---------------------------
(***************************************************************************)
(* What the user sees of a dictation: the pill (renderer/overlay/App.svelte*)
(* and pill-view.ts) and the figure of the main window, whose store also   *)
(* guards against an answer older than an event and a listener of an       *)
(* earlier life (renderer/app/recording-renderer-state.ts).                *)
(*                                                                         *)
(* Time is the caller's: it says what the clock and the voice give, and    *)
(* calls the timers that are set.  An optional value is a set.             *)
(***************************************************************************)
EXTENDS Integers, FiniteSets

\* The pill: [state, mode, long, chunk, words, listened, clock, alert, timer].
NoPill == [state |-> "idle", mode |-> "quick", long |-> FALSE, chunk |-> {}, words |-> {},
           listened |-> FALSE, clock |-> FALSE, alert |-> FALSE, timer |-> FALSE]

BeginSession(p) ==
    [p EXCEPT !.alert = FALSE, !.timer = FALSE, !.long = p.mode = "long",
              !.chunk = {}, !.words = {}, !.listened = FALSE]
PillRecording(p, state, mode) ==
    LET told == [p EXCEPT !.state = state, !.mode = mode]
        begun == IF state = "processing" /\ p.state = "idle" THEN BeginSession(told) ELSE told
        live == state \in {"listening", "transcribing"}
    IN  [begun EXCEPT !.clock = live, !.listened = @ \/ live]
PillFinal(p, words) == [p EXCEPT !.words = {words}]
PillWarning(p) == [p EXCEPT !.alert = TRUE, !.timer = TRUE]
PillWarningEnds(p) == [p EXCEPT !.alert = FALSE, !.timer = FALSE]
PillLongStarted(p) == [p EXCEPT !.long = TRUE]
PillChunk(p, index, total) == [p EXCEPT !.chunk = IF index > 0 /\ total > 0 THEN {<<index, total>>} ELSE {}]

\* derivePillView; the label is what it is made of.
PillPhase(p) ==
    CASE p.state = "idle" -> "idle" [] p.state = "error" -> "error" [] p.state = "success" -> "done"
      [] p.state = "processing" -> IF p.listened THEN "working" ELSE "starting"
      [] p.state \in {"listening", "transcribing"} -> "live"
PillAlerts(p) == p.state = "error" \/ (p.alert /\ p.state \notin {"idle", "success"})
PillLabel(p) ==
    CASE p.state = "idle" -> "" [] PillAlerts(p) -> "alert" [] p.state = "success" -> "words"
      [] p.state = "processing" /\ ~PillAlerts(p) -> IF p.listened THEN "progress" ELSE "starting"
      [] p.state \in {"listening", "transcribing"} /\ ~PillAlerts(p) -> "elapsed"
PillIsOpen(p, speaking) == p.state # "idle" /\ (PillPhase(p) = "live" /\ ~PillAlerts(p) => speaking)
PillTag(p) == PillPhase(p) = "live" /\ ~PillAlerts(p) /\ p.long

\* holdVoice: how long the pill stays open after a level.
HoldVoice(level, now, until) == IF level >= 8 /\ now + 800 > until THEN now + 800 ELSE until

Elapsed(ms) == LET total == ms \div 1000 IN <<total \div 3600, (total % 3600) \div 60, total % 60>>

-------------------------------------------------------------------------------
(* The store of the main window: [shown, since, level, last, life, heard,  *)
(* timer, asked].  `life` counts its lives, `heard` whether an event came  *)
(* in this one, `timer` the life that set the timer, `asked` the lives     *)
(* whose request for the present state is not answered.                    *)

NoDisplay == [shown |-> "idle", since |-> {}, level |-> 0, last |-> {}, life |-> 0,
              active |-> FALSE, heard |-> FALSE, timer |-> {}, asked |-> {}]

FigureFor(state) ==
    CASE state = "listening" -> "listening" [] state \in {"processing", "transcribing"} -> "transcribing"
      [] state = "success" -> "done" [] state \in {"idle", "error"} -> "idle"

Initialize(d) ==
    IF d.active THEN d
    ELSE [d EXCEPT !.life = @ + 1, !.active = TRUE, !.heard = FALSE, !.asked = @ \cup {d.life + 1}]
Dispose(d) ==
    [NoDisplay EXCEPT !.life = d.life + 1, !.asked = d.asked]

\* The end of a dictation is shown for a while, though idle is told meanwhile.
ReceiveRecording(d, state, now) ==
    LET next == IF state = "idle" /\ d.shown = "done" THEN "done" ELSE FigureFor(state)
    IN  [d EXCEPT !.heard = TRUE, !.last = {state}, !.shown = next,
                  !.since = IF next # "listening" THEN {} ELSE IF d.last = {"listening"} THEN @ ELSE {now},
                  !.level = IF next = "listening" THEN @ ELSE 0,
                  !.timer = IF next = "done" THEN {d.life} ELSE {}]
AudioLevel(d, level) ==
    IF d.shown # "listening" THEN d
    ELSE [d EXCEPT !.level = IF level < 0 THEN 0 ELSE IF level > 100 THEN 100 ELSE level]
\* getRecordingDebugState: what was asked in an earlier life, or before an
\* event, is old.
Answer(d, life, state, now) ==
    LET taken == [d EXCEPT !.asked = @ \ {life}]
    IN  IF d.active /\ life = d.life /\ ~d.heard THEN ReceiveRecording(taken, state, now) ELSE taken
FinishDone(d) ==
    LET fired == [d EXCEPT !.timer = {}]
    IN  IF d.timer = {d.life} /\ d.shown = "done" THEN [fired EXCEPT !.shown = "idle", !.level = 0, !.since = {}]
        ELSE fired
===============================================================================
