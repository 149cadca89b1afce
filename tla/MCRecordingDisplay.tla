-------------------------- MODULE MCRecordingDisplay --------------------------
(***************************************************************************)
(* RecordingDisplay under every sequence of what the main process tells;   *)
(* TLC evaluates the assumptions once.                                     *)
(***************************************************************************)
EXTENDS Integers, FiniteSets

Display == INSTANCE RecordingDisplay

\* What follows what the main process told last: every session is opened with
\* idle and then processing, also one that replaces a session not yet over.
Follows(state) ==
    {"idle", "error"} \cup
    CASE state = "idle" -> {"processing"}
      [] state = "processing" -> {"listening", "success"}
      [] state = "listening" -> {"processing", "transcribing", "success"}
      [] state = "transcribing" -> {"processing", "success"}
      [] OTHER -> {}

\* The pill, with (a history) whether this session has told its words.
PillSteps(x) ==
    {[p |-> Display!PillRecording(x.p, s, IF s = "idle" THEN m ELSE x.p.mode),
      final |-> x.final /\ ~(s = "processing" /\ x.p.state = "idle"),
      heard |-> (x.heard /\ ~(s = "processing" /\ x.p.state = "idle")) \/ s \in {"listening", "transcribing"}]
        : s \in Follows(x.p.state), m \in {"quick", "long"}}
    \cup {[x EXCEPT !.p = Display!PillFinal(@, w), !.final = TRUE] : w \in {0, 7}}
    \cup {[x EXCEPT !.p = Display!PillWarning(@)], [x EXCEPT !.p = Display!PillChunk(@, 1, 2)],
          [x EXCEPT !.p = IF @.timer THEN Display!PillWarningEnds(@) ELSE @]}
Closed(Step(_), start) ==
    LET after[n \in Nat] ==
            IF n = 0 THEN [all |-> start, new |-> start]
            ELSE LET before == after[n - 1]
                     new == UNION {Step(x) : x \in before.new} \ before.all
                 IN  [all |-> before.all \cup new, new |-> new]
    IN  after[30].all

\* The pill tells only of the session under way: its words and chunks are those
\* of this session, "starting" ends with its first listening, and every alert
\* that is shown goes away again.
PillTellsThisSession ==
    LET all == Closed(PillSteps, {[p |-> Display!NoPill, final |-> FALSE, heard |-> FALSE]}) IN
    /\ \A x \in all : PillSteps(x) \subseteq all
    /\ \A x \in all :
        /\ x.p.words # {} => x.final
        /\ Display!PillPhase(x.p) = "starting" <=> x.p.state = "processing" /\ ~x.heard
        /\ x.p.alert => x.p.timer
        /\ x.p.clock <=> Display!PillPhase(x.p) = "live"
        /\ Display!PillTag(x.p) => Display!PillLabel(x.p) = "elapsed"
        /\ \A speaking \in BOOLEAN :
              Display!PillAlerts(x.p) => Display!PillIsOpen(x.p, speaking)
ASSUME PillTellsThisSession

\* Times of the main window are 1 and 2, its lives at most three.
DisplaySteps(d) ==
    (IF d.life < 4 THEN {Display!Initialize(d)} ELSE {})
    \cup (IF d.active /\ d.life < 5 THEN {Display!Dispose(d)} ELSE {})
    \cup (IF d.active THEN {Display!ReceiveRecording(d, s, t) :
                              s \in {"idle", "processing", "listening", "transcribing", "success", "error"}, t \in 1..2}
                           \cup {Display!AudioLevel(d, l) : l \in {-1, 50, 200}} ELSE {})
    \cup {Display!Answer(d, l, s, 1) : l \in d.asked, s \in {"listening", "success"}}
    \cup (IF d.timer # {} THEN {Display!FinishDone(d)} ELSE {})

\* A level is shown only while listening, the clock runs only then, what was
\* done is not shown for ever, and nothing of an earlier life is shown.
DisplayIsCurrent ==
    LET all == Closed(DisplaySteps, {Display!NoDisplay}) IN
    /\ \A d \in all : DisplaySteps(d) \subseteq all
    /\ \A d \in all :
        /\ d.level \in 0..100 /\ (d.level > 0 => d.shown = "listening")
        /\ d.since # {} <=> d.shown = "listening"
        /\ d.shown = "done" => d.timer = {d.life}
        /\ ~d.active => d.shown = "idle" /\ d.last = {} /\ d.timer = {}
        /\ \A l \in d.asked : (l # d.life \/ d.heard) =>
              [Display!Answer(d, l, "success", 1) EXCEPT !.asked = d.asked] = d
ASSUME DisplayIsCurrent
===============================================================================
