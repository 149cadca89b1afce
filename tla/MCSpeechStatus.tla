---------------------------- MODULE MCSpeechStatus ----------------------------
(***************************************************************************)
(* SpeechStatus over all combinations of a few answers; TLC evaluates the  *)
(* assumptions once.                                                       *)
(***************************************************************************)
EXTENDS SpeechStatus

Optional(S) == {{}} \cup {{x} : x \in S}
Downloads == [model : {"m"}, status : {"missing", "partial", "downloading", "ready", "error"},
              phase : Optional({"checking", "downloading", "loading", "ready", "error"}),
              percent : Optional({0, 24, 25, 60, 100}), done : {{}, {5}}, total : {{}, {0}, {9}},
              rate : {{}, {3}}, eta : {{}, {30}}]
Plain(d) == [d EXCEPT !.done = {}, !.total = {}, !.rate = {}, !.eta = {}]
PlainDownloads == {d \in Downloads : Plain(d) = d}
Servers == [status : {"idle", "starting", "running", "stopping", "stopped", "error"},
            engine : Optional({"loading", "ready", "error"}), download : Optional(PlainDownloads)]

\* What the server answers while it loads what it has fetched: the card shows
\* the loading, the status still the download.
SaysBoth(d) == d.status = "downloading" /\ d.phase = {"loading"}

\* "Ready" is shown only of a running server whose engine is, with no trouble
\* and no preparation under way; a preparation that shows progress is one the
\* page polls for, unless trouble or a lifecycle step hides it; and the card
\* and the status tell the same phase, but for the case above.
ReadyIsReady ==
    \A s \in Servers :
        LET shown == Publish(Initially, {s}) IN
        /\ shown.phase = "ready" =>
              s.status = "running" /\ s.engine = {"ready"} /\ ~Troubles(s) /\ ~ShowsProgress(s.download)
        /\ shown.phase \in {"checking", "downloading"} => shown.polls
        /\ shown.polls => shown.phase \in {"checking", "downloading", "loading", "error", "connecting"}
        /\ shown.phase \in {"checking", "downloading"} =>
              \A d \in s.download : \A v \in ProgressView({d}) :
                  v.phase # shown.phase <=> SaysBoth(d)
ASSUME ReadyIsReady

\* The progress never leaves 0..100, nothing but a download has an estimate,
\* and what is told in short is part of what is told at length.
ProgressIsSane ==
    \A d \in Downloads :
        /\ \A v \in ProgressView({d}) :
              /\ v.percent \subseteq 0..100
              /\ v.phase = "downloading" <=> v.metrics \cap {"eta", "estimating"} # {}
              /\ {"eta", "estimating"} \subseteq v.metrics => FALSE
        /\ \A b \in ShortSummary({d}) : \E v \in ProgressView({d}) : v.phase = b.phase /\ b.details \subseteq v.metrics
ASSUME ProgressIsSane

DurationsRoundUp ==
    \A s \in 60..8000 : LET d == ProgressDuration(s)
                            told == 60 * (60 * d[1] + d[2])
                        IN d[2] \in 0..59 /\ told >= s /\ told - s < 60
ASSUME DurationsRoundUp

\* While one download only gains, each quarter is announced at most once, and
\* the last one that was passed was announced.
Fetching(percent) ==
    {[status |-> "running", engine |-> {"loading"},
      download |-> {[model |-> "m", status |-> "downloading", phase |-> {"downloading"}, percent |-> {percent}]}]}
QuartersAreToldOnce ==
    \A a, b, c, d \in {0, 10, 25, 30, 50, 74, 75, 99, 100} :
        a <= b /\ b <= c /\ c <= d =>
        LET s1 == Publish(Initially, Fetching(a))
            s2 == Publish(s1, Fetching(b))
            s3 == Publish(s2, Fetching(c))
            s4 == Publish(s3, Fetching(d))
            said == <<s1.said, s2.said, s3.said, s4.said>>
        IN  /\ d >= 25 => s4.said.passed = {(d \div 25) * 25}
            /\ \A i, j \in 1..4 : i < j /\ said[i] = said[j] => \A k \in i..j : said[k] = said[i]
ASSUME QuartersAreToldOnce

Catalogs == UNION {[1..n -> [model : {"", "m", "n"}, label : {"", "l"}, size : {0, 1}, languages : {{}, {"en"}, {""}}]]
                   : n \in 0..2}
ValidPresets == {[model |-> m, label |-> "l", size |-> 1, languages |-> {"en"}] : m \in {"m", "n", "o"}}
PlainEngines == [model : {"m", "n"}, status : {"loading", "ready", "error"},
                 pending : Optional([model : {"m", "n"}, status : {"loading", "error"}])]

\* Only complete entries of the catalog become presets, and staging one is
\* found again and is no change to the compatibility settings.
StagedIsFound ==
    /\ \A catalog \in Catalogs : LET presets == Presets(catalog) IN
          \A i \in DOMAIN presets : presets[i] \in ValidPresets
    /\ \A p, q \in ValidPresets : \A other \in {{}, {<<"whisper_device", "cpu">>}} :
          LET pending == Patch({p}) \cup other IN
          /\ StagedPreset(pending, <<q, p>>) = {p}
          /\ PendingCompatibility(pending, {p}) <=> other # {}
ASSUME StagedIsFound

\* At most one preset is being prepared, and it is not the one in use unless
\* its files are still being fetched.
OnePreparation ==
    \A p, q \in ValidPresets, e \in Optional(PlainEngines), d \in Optional(PlainDownloads) :
        /\ IsPreparing(p, e, d) /\ IsPreparing(q, e, d) => p = q
        /\ IsPreparing(p, e, d) /\ MatchesReady(p, e) => ShowsProgress(d) \/ \E x \in d : x.status = "partial"
        /\ DownloadLabel(d, p) \in {"checking", "preparing"} /\ (\A x \in e : x.pending = {}) => IsPreparing(p, e, d)
ASSUME OnePreparation
===============================================================================
