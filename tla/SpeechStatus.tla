----------------------------- MODULE SpeechStatus -----------------------------
(***************************************************************************)
(* What the app tells of the speech server and its model: the phase, the   *)
(* announcements and the progress (renderer/app/server-status.ts,          *)
(* shared/model-progress.ts) and the presets to choose a model from        *)
(* (renderer/app/speech-model-presets.ts).                                 *)
(*                                                                         *)
(* An optional value is a set of at most one.  A server is [status,        *)
(* engine, download], a download [model, status, phase, percent, done,     *)
(* total, rate, eta].                                                      *)
(***************************************************************************)
EXTENDS Integers, Sequences, FiniteSets

ActivePhase(d) ==
    LET shown == d.phase \cap {"checking", "downloading", "loading"}
    IN  IF shown # {} THEN shown
        ELSE IF d.status = "downloading" THEN {"downloading"} ELSE {}
ShowsProgress(downloads) == \E d \in downloads : ActivePhase(d) # {}

AtMost(n, max) == IF n > max THEN max ELSE n
AtLeast(n, min) == IF n < min THEN min ELSE n
\* The metrics of a download by their names; an estimate is always one of them.
Metrics(d) ==
    (IF d.done # {} /\ \E t \in d.total : t > 0 THEN {"bytes"} ELSE {})
    \cup (IF d.percent # {} THEN {"percent"} ELSE {})
    \cup (IF \E r \in d.rate : r > 0 THEN {"rate"} ELSE {})
    \cup (IF \E e \in d.eta : e >= 0 THEN {"eta"} ELSE {"estimating"})
ProgressView(downloads) ==
    {LET phase == CHOOSE p \in ActivePhase(d) : TRUE IN
     [phase |-> phase,
      step |-> CASE phase = "checking" -> 1 [] phase = "downloading" -> 2 [] phase = "loading" -> 3,
      percent |-> CASE phase = "checking" -> {}
                    [] phase = "downloading" -> {AtLeast(AtMost(p, 100), 0) : p \in d.percent}
                    [] phase = "loading" -> {100},
      metrics |-> CASE phase = "checking" -> {}
                    [] phase = "downloading" -> Metrics(d)
                    [] phase = "loading" -> {"depends on disk and GPU"}]
     : d \in {x \in downloads : ActivePhase(x) # {}}}
ShortSummary(downloads) ==
    {[phase |-> v.phase, details |-> IF v.phase = "downloading" THEN v.metrics \cap {"percent", "eta"} ELSE {}]
     : v \in ProgressView(downloads)}

\* formatProgressDuration: "less than a minute", or hours and minutes.
ProgressDuration(seconds) ==
    LET minutes == (seconds + 59) \div 60
    IN  IF seconds < 60 THEN <<0, 0>> ELSE <<minutes \div 60, minutes % 60>>

\* getServerStatusPhase: the first that applies, in the order of the code.
Troubles(s) == s.status = "error" \/ "error" \in s.engine \/ \E d \in s.download : d.status = "error"
ModelPhase(d, engine) ==
    CASE "checking" \in d.phase -> "checking"
      [] "checking" \notin d.phase /\ ("downloading" \in d.phase \/ d.status = "downloading") -> "downloading"
      [] d.phase \cap {"checking", "downloading"} = {} /\ d.status # "downloading"
            /\ ("loading" \in d.phase \/ "loading" \in engine) -> "loading"
      [] OTHER -> IF d.status \in {"missing", "partial"} THEN d.status ELSE "none"
NoDownload == [status |-> "none", phase |-> {}]
StatusPhase(servers) ==
    IF servers = {} THEN "unavailable"
    ELSE LET s == CHOOSE x \in servers : TRUE
             told == ModelPhase(IF s.download = {} THEN NoDownload ELSE CHOOSE d \in s.download : TRUE, s.engine)
         IN  IF Troubles(s) THEN "error"
             ELSE IF s.status \in {"starting", "stopping"} THEN "connecting"
             ELSE IF told # "none" THEN told
             ELSE IF s.status = "running" /\ "ready" \in s.engine THEN "ready"
             ELSE IF s.status = "idle" THEN "stale" ELSE "unavailable"

Milestone(servers) ==
    {AtMost((p \div 25) * 25, 100) :
        p \in {q \in UNION {d.percent : d \in UNION {s.download : s \in servers}} : q >= 25}}

\* publish: `shown` is [phase, milestone, said], `said` the last announcement.
Said(phase, passed) == [phase |-> phase, passed |-> passed]
Initially == [phase |-> "connecting", milestone |-> {}, said |-> Said("connecting", {}), polls |-> FALSE]
Publish(shown, servers) ==
    LET phase == StatusPhase(servers)
        passed == Milestone(servers)
        reached == phase = "downloading" /\ passed # {} /\ passed # shown.milestone
    IN  [phase |-> phase, milestone |-> passed,
         said |-> IF reached THEN Said(phase, passed)
                 ELSE IF phase # shown.phase THEN Said(phase, {}) ELSE shown.said,
         polls |-> ShowsProgress(UNION {s.download : s \in servers})]

-------------------------------------------------------------------------------
(* Presets: [model, label, size, languages]; "" stands for a blank text.   *)

Presets(catalog) ==
    SelectSeq(catalog, LAMBDA item :
        item.model # "" /\ item.label # "" /\ item.size > 0
        /\ item.languages # {} /\ "" \notin item.languages)

\* `pending` is a function of the staged settings; a patch holds only the model.
Patch(presets) == {<<"whisper_model", p.model>> : p \in presets}
PendingCompatibility(pending, staged) == pending \ Patch(staged) # {}
StagedPreset(pending, presets) ==
    LET staged == {i \in DOMAIN presets : <<"whisper_model", presets[i].model>> \in pending}
    IN  {presets[i] : i \in {j \in staged : \A k \in staged : j <= k}}

\* An engine is [model, status, pending], its pending a set of [model, status].
MatchesReady(preset, engines) ==
    \E e \in engines : e.model = preset.model /\ e.status = "ready" /\ e.pending = {}
Target(engines, downloads) ==
    LET pending == UNION {{p.model : p \in e.pending} : e \in engines}
    IN  IF pending # {} THEN pending ELSE {d.model : d \in downloads}
IsPreparing(preset, engines, downloads) ==
    LET pending == UNION {e.pending : e \in engines}
    IN  /\ preset.model \in Target(engines, downloads)
        /\ IF pending # {} THEN \E p \in pending : p.status = "loading"
           ELSE \E d \in downloads :
                    d.status \in {"partial", "downloading"} \/ d.phase \cap {"checking", "downloading", "loading"} # {}
DownloadLabel(downloads, preset) ==
    LET ours == {d \in downloads : d.model = preset.model} IN
    IF ours = {} THEN "available"
    ELSE LET d == CHOOSE x \in ours : TRUE IN
         IF d.status = "error" THEN "needs attention"
         ELSE IF "checking" \in d.phase THEN "checking"
         ELSE IF d.status = "downloading" \/ d.phase \cap {"downloading", "loading"} # {} THEN "preparing"
         ELSE CASE d.status = "ready" -> "installed" [] d.status = "partial" -> "partial" [] OTHER -> "available"
===============================================================================
