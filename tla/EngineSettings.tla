---------------------------- MODULE EngineSettings ----------------------------
(***************************************************************************)
(* The settings page and the speech server's settings                      *)
(* (renderer/app/views/SettingsView.svelte with its helpers).  The page     *)
(* stages changes, sends them as a PATCH, and follows the preparation of    *)
(* the new model through three sources that disagree for a while: the       *)
(* PATCH's response, its own reads of /settings, and the state the main     *)
(* process broadcasts when a health poll sees a difference.  A managed      *)
(* server is stopped and started by the app; an unmanaged one comes and     *)
(* goes by itself.  Every handler runs to its end, then Svelte's effects    *)
(* run until nothing changes, before the next handler or continuation.      *)
(***************************************************************************)
EXTENDS Naturals, Sequences, SequencesExt

CONSTANTS Keys,            \* the settings the page offers; each reloads the model
          Model,           \* the one the presets set
          Values, Default, \* their values; the value they start with
          None, Failed,    \* null or no reply yet; a request without a reply
          MaxPatches,      \* bound: PATCH requests the user sends
          MaxOutages       \* bound: times the server stops

ASSUME SettingsAssumption == Model \in Keys /\ Default \in Values

VARIABLES srv,      \* the server
          managed,  \* the app owns the server
          main,     \* the main process's view of it: [running, eng]
          seen,     \* the page's store holds a state
          ui,       \* the page
          patching, \* the PATCH in flight
          patches, outages

vars == <<srv, managed, main, seen, ui, patching, patches, outages>>

Patches == UNION {[K -> Values] : K \in SUBSET Keys}
Empty == [k \in {} |-> Default]
MergeInto(patch, values) == [k \in DOMAIN values \cup DOMAIN patch |->
                               IF k \in DOMAIN patch THEN patch[k] ELSE values[k]]
ClearApplied(pending, patch) ==
    LET kept == {k \in DOMAIN pending : k \notin DOMAIN patch \/ patch[k] # pending[k]}
    IN  [k \in kept |-> pending[k]]
MatchesAnything(patch, settings) == settings # None
Matches(patch, settings) == \A k \in DOMAIN patch : settings # None /\ settings[k] = patch[k]

\* The engine status of a reply; each load differs by its load_time_s.
Status == [phase |-> srv.phase, load |-> srv.load]
\* enginePreparationPhase: "starting" is reported as loading, as is "preparing".
Phase(eng) == IF eng = None THEN "unknown"
              ELSE IF eng.phase = "starting" THEN "preparing" ELSE eng.phase
\* status is loading or there is a pending part, which failures have, too.
IsPending(eng) == Phase(eng) \in {"preparing", "failed"}

State == IF seen THEN main ELSE None
StateKey(state) == <<state.running, Phase(state.eng)>>

---------------------------------------------------------------------------
(* The page's functions.  read is the request in flight, waiters the calls *)
(* of loadServerSettings that found it busy; all of them, and confirm, are *)
(* current until enginePreparationPatch is replaced: a call that waited    *)
(* then returns false, which nobody but confirm looks at.                  *)

NewPatch(u, patch) ==
    [u EXCEPT !.patch = patch,
              !.read = IF @ = None THEN None ELSE [@ EXCEPT !.current = FALSE],
              !.waiters = LET Awaited(call) == call.for = "confirm"
                              Stale(call) == [call EXCEPT !.current = FALSE]
                          IN  SelectSeq([i \in DOMAIN @ |-> Stale(@[i])], Awaited),
              !.confirm = IF @ = "none" THEN "none" ELSE "stale"]

LoadServerSettings(u, for) ==
    LET call == [for |-> for, current |-> TRUE, answer |-> None]
    IN  IF u.read = None /\ u.waiters = <<>>
        THEN [u EXCEPT !.read = call]
        ELSE [u EXCEPT !.waiters = Append(@, call)]

FinishPreparation(u) ==
    NewPatch([u EXCEPT !.requested = FALSE, !.active = FALSE, !.observed = FALSE], Empty)

BeginConfirm(u) ==
    IF u.confirm # "none" THEN u
    ELSE LoadServerSettings([u EXCEPT !.confirm = "current", !.requested = FALSE], "confirm")

\* Still preparing: the next ready status asks again.
RearmNothing(u) == [u EXCEPT !.observed = TRUE]
Rearm(u) == [u EXCEPT !.requested = TRUE, !.observed = TRUE]

\* The rest of confirmEnginePreparationStatus and of the apply that awaits it.
EndConfirm(u, loaded) ==
    LET v == IF u.confirm = "stale" THEN u
             ELSE IF loaded /\ Phase(u.eng) = "preparing" THEN Rearm(u)
             ELSE IF loaded /\ Phase(u.eng) = "ready" /\ Matches(u.patch, u.settings)
             THEN FinishPreparation([u EXCEPT !.pending = ClearApplied(@, u.patch)])
             ELSE FinishPreparation(u)
    IN  [v EXCEPT !.confirm = "none",
                  !.applying = IF u.applyWaits THEN FALSE ELSE @, !.applyWaits = FALSE]

ClearsSettingsOnly(u) == [u EXCEPT !.settings = None, !.eng = None, !.lastKey = None]

\* recoverInterruptedManagedPreparation and what the effect clears.
ClearServerSettings(u) ==
    LET v == [u EXCEPT !.settings = None, !.eng = None, !.connected = FALSE, !.lastKey = None]
        interrupted == u.requested \/ u.active \/ u.observed \/ u.applying \/ u.pending # Empty
    IN  IF managed /\ interrupted
        THEN NewPatch([v EXCEPT !.pending = Empty, !.requested = FALSE, !.active = FALSE,
                                !.observed = FALSE, !.applying = FALSE], Empty)
        ELSE v

ShouldRetry(u, state) ==
    state # None /\ ~u.connected /\ u.read = None /\ StateKey(state) # u.lastKey

StateEffect(u, state) ==
    IF state # None /\ ~state.running THEN ClearServerSettings(u)
    ELSE LET v == IF state = None \/ state.eng = None THEN u ELSE [u EXCEPT !.eng = state.eng]
         IN  IF ShouldRetry(v, state)
             THEN LoadServerSettings([v EXCEPT !.lastKey = StateKey(state)], "nobody")
             ELSE v

Shared(u, state) == IF u.eng = None /\ state # None THEN state.eng ELSE u.eng

ShouldRefresh(u, eng) == u.requested /\ u.observed /\ Phase(eng) = "ready"

PreparationEffect(u, state) ==
    LET eng == Shared(u, state)
        v == IF u.active /\ IsPending(eng) THEN [u EXCEPT !.observed = TRUE] ELSE u
    IN  IF v.pending = Empty THEN v
        ELSE IF Phase(eng) = "failed" THEN FinishPreparation(v)
        ELSE IF v.read = None /\ ShouldRefresh(v, eng) THEN BeginConfirm(v)
        ELSE v

\* What StateEffect read when it ran last: all it writes, when it clears.
Reads(u, state) ==
    IF state # None /\ ~state.running
    THEN <<u.pending, u.requested, u.active, u.observed, u.applying>>
    ELSE <<u.connected, u.read = None, u.lastKey>>

\* One round of the effects, after a change from u to w.
Round(u, w, state) ==
    PreparationEffect(IF Reads(u, state) # Reads(w, state) THEN StateEffect(w, state) ELSE w, state)

\* The effects run until neither changes what the other read; an event from
\* the main process always runs the first.
Settle(old, new, event, state) ==
    LET first == IF event THEN PreparationEffect(StateEffect(new, state), state)
                 ELSE Round(old, new, state)
        second == Round(new, first, state)
    IN  Round(first, second, state)

\* A handler of the page leaves it as new.
Handles(new) == ui' = Settle(ui, new, FALSE, State)
\* The store publishes a state: main and seen are already primed.
Publishes == ui' = Settle(ui, ui, TRUE, State')

Init ==
    /\ srv = [up |-> TRUE, values |-> [k \in Keys |-> Default], phase |-> "ready", load |-> 0,
              loaded |-> TRUE, candidate |-> None]
    /\ managed \in BOOLEAN
    /\ main = [running |-> TRUE, eng |-> Status] /\ seen = FALSE
    /\ ui = LoadServerSettings(
              [settings |-> None, eng |-> None, connected |-> FALSE, lastKey |-> None,
               pending |-> Empty, patch |-> Empty, applying |-> FALSE, applyWaits |-> FALSE,
               requested |-> FALSE, active |-> FALSE, observed |-> FALSE,
               confirm |-> "none", read |-> None, waiters |-> <<>>], "nobody")
    /\ patching = None /\ patches = 0 /\ outages = 0

---------------------------------------------------------------------------
(* The user.  The controls are shown while the page has the settings.      *)

HasControls == ui.connected /\ ui.settings # None
Idle == ~ui.applying /\ ~ui.active /\ ui.confirm = "none"

\* getSettingValue: the staged value, or else the server's.
Shown(k) == IF k \in DOMAIN ui.pending THEN ui.pending[k] ELSE ui.settings[k]

UpdateEngineSetting(k, v) ==
    /\ HasControls /\ Shown(k) # v
    /\ Handles([ui EXCEPT !.pending = MergeInto([j \in {k} |-> v], @)])
    /\ UNCHANGED <<srv, managed, main, seen, patching, patches, outages>>

\* applyEngineSettings up to its request, of all that is pending or of a preset.
ApplyEngineSettings(patch, pending) ==
    /\ HasControls /\ Idle /\ patch # Empty /\ patching = None /\ patches < MaxPatches
    /\ patching' = [patch |-> patch, answer |-> None]
    /\ patches' = patches + 1
    /\ Handles(NewPatch([ui EXCEPT !.pending = pending, !.requested = FALSE, !.observed = FALSE,
                                   !.applying = TRUE], Empty))
    /\ UNCHANGED <<srv, managed, main, seen, outages>>

ApplyPending == ApplyEngineSettings(ui.pending, ui.pending)

SelectPreset(v) ==
    LET patch == [k \in {Model} |-> v] IN
    /\ HasControls /\ (Model \in DOMAIN ui.pending \/ Shown(Model) # v)
    /\ ApplyEngineSettings(patch, MergeInto(patch, ui.pending))

RevertEngineSettings ==
    /\ HasControls /\ Idle /\ ui.pending # Empty
    /\ Handles(LoadServerSettings(FinishPreparation([ui EXCEPT !.pending = Empty]), "nobody"))
    /\ UNCHANGED <<srv, managed, main, seen, patching, patches, outages>>

---------------------------------------------------------------------------
(* The replies.                                                            *)

ReadEnds == ui.read # None /\ ui.read.answer # None
PatchEnds == patching # None /\ patching.answer # None
Reply == [values |-> srv.values, eng |-> Status]

AnswerRead ==
    /\ ui.read # None /\ ui.read.answer = None /\ srv.up
    /\ ui' = [ui EXCEPT !.read.answer = Reply]
    /\ UNCHANGED <<srv, managed, main, seen, patching, patches, outages>>

\* A refused connection, an error, or no answer within the deadline.
FailRead ==
    /\ ui.read # None /\ ui.read.answer = None
    /\ ui' = [ui EXCEPT !.read.answer = Failed]
    /\ UNCHANGED <<srv, managed, main, seen, patching, patches, outages>>

\* The reply is stored unless its read was invalidated, the effects run, and
\* then the caller and the calls that waited resume in turn: an invalidated one
\* is a confirmation, which ends; the first of the others reads.
ReadReturns ==
    /\ ReadEnds
    /\ LET read == ui.read
           ok == read.current /\ read.answer # Failed
           stored == [ui EXCEPT !.read = None,
                                !.settings = IF ok THEN read.answer.values ELSE IF read.current THEN None ELSE @,
                                !.eng = IF ok THEN read.answer.eng ELSE IF read.current THEN None ELSE @,
                                !.connected = IF read.current THEN ok ELSE @]
           settled == Settle(ui, stored, FALSE, State)
           resumed == IF read.for = "confirm" THEN EndConfirm(settled, ok) ELSE settled
           Current(call) == call.current
           calls == SelectSeq(resumed.waiters, Current)
           given == [IF calls # resumed.waiters THEN EndConfirm(resumed, FALSE) ELSE resumed
                       EXCEPT !.waiters = <<>>]
           waited == IF calls = <<>> THEN given
                     ELSE [LoadServerSettings(given, Head(calls).for) EXCEPT !.waiters = Tail(calls)]
       IN  ui' = Settle(settled, waited, FALSE, State)
    /\ UNCHANGED <<srv, managed, main, seen, patching, patches, outages>>

\* A change is refused while another is prepared, else reserved; the reply
\* tells the status before the preparation begins, or after.
AnswerPatch ==
    /\ patching # None /\ patching.answer = None /\ srv.up
    /\ IF srv.candidate # None \/ srv.phase \in {"starting", "preparing"}
       THEN patching' = [patching EXCEPT !.answer = Failed] /\ UNCHANGED srv
       ELSE \E phase \in {srv.phase, "preparing"} :
              /\ srv' = [srv EXCEPT !.candidate = MergeInto(patching.patch, srv.values),
                                    !.phase = phase]
              /\ phase # srv.phase => ~srv.loaded \/ srv'.candidate # srv.values
              /\ patching' = [patching EXCEPT !.answer = [Reply EXCEPT !.eng.phase = phase]]
    /\ UNCHANGED <<managed, main, seen, ui, patches, outages>>

FailPatch ==
    /\ patching # None /\ patching.answer # Failed
    /\ patching' = [patching EXCEPT !.answer = Failed]
    /\ UNCHANGED <<srv, managed, main, seen, ui, patches, outages>>

\* The rest of applyEngineSettings, up to the confirmation it may await.
PatchReturns ==
    /\ PatchEnds
    /\ patching' = None
    /\ LET patch == patching.patch
           answer == patching.answer
           stored == [ui EXCEPT !.settings = answer.values, !.eng = answer.eng]
           begun == [NewPatch(stored, patch) EXCEPT !.requested = TRUE, !.active = TRUE,
                                                    !.observed = IsPending(answer.eng)]
       IN  Handles(
             IF answer = Failed THEN [ui EXCEPT !.applying = FALSE]
             ELSE IF begun.observed THEN [begun EXCEPT !.applying = FALSE]
             ELSE BeginConfirm([begun EXCEPT !.applyWaits = TRUE]))
    /\ UNCHANGED <<srv, managed, main, seen, patches, outages>>

---------------------------------------------------------------------------
(* The server's preparation of a candidate, and its outages.               *)

ServerSteps == UNCHANGED <<managed, main, seen, ui, patching, patches>>

BeginPreparation ==
    /\ srv.up /\ srv.candidate # None /\ srv.phase # "preparing"
    /\ srv' = IF srv.loaded /\ srv.candidate = srv.values
              THEN [srv EXCEPT !.candidate = None, !.phase = "ready"]
              ELSE [srv EXCEPT !.phase = "preparing"]
    /\ UNCHANGED outages /\ ServerSteps

EndPreparation ==
    /\ srv.up /\ srv.phase = "preparing"
    /\ \/ srv' = [srv EXCEPT !.values = srv.candidate, !.candidate = None, !.phase = "ready",
                             !.load = @ + 1, !.loaded = TRUE]
       \/ srv' = [srv EXCEPT !.candidate = None, !.phase = "failed"]
    /\ UNCHANGED outages /\ ServerSteps

ServerDies ==
    /\ srv.up /\ outages < MaxOutages
    /\ outages' = outages + 1
    /\ srv' = [srv EXCEPT !.up = FALSE, !.candidate = None, !.loaded = FALSE, !.phase = "starting"]
    /\ ServerSteps

\* A managed server is started by the app once it knows that it is gone.
ServerStarts ==
    /\ ~srv.up /\ (managed => ~main.running)
    /\ srv' = [srv EXCEPT !.up = TRUE]
    /\ UNCHANGED outages /\ ServerSteps

EndStart ==
    /\ srv.up /\ srv.phase = "starting" 
    /\ \/ srv' = [srv EXCEPT !.phase = "ready", !.load = @ + 1, !.loaded = TRUE]
       \/ srv' = [srv EXCEPT !.phase = "failed"]
    /\ UNCHANGED outages /\ ServerSteps

---------------------------------------------------------------------------
(* The main process and the store.                                         *)

\* The page asks for the state when it opens or is focused.
Refresh ==
    /\ UNCHANGED <<srv, managed, main, patching, patches, outages>>
    /\ seen' = TRUE /\ Publishes

\* A health poll sends a state when the answer differs from the last one, or
\* when its diagnostics or download do.
Polled == IF srv.up THEN [running |-> TRUE, eng |-> Status] ELSE [running |-> FALSE, eng |-> None]

HealthPoll(differs) ==
    /\ main.running
    /\ main' = Polled
    /\ IF main' # main \/ differs THEN seen' = TRUE /\ Publishes ELSE UNCHANGED <<seen, ui>>
    /\ UNCHANGED <<srv, managed, patching, patches, outages>>

\* The app stops or restarts its server.
StopServer ==
    /\ managed /\ main.running /\ srv.up /\ outages < MaxOutages
    /\ outages' = outages + 1
    /\ srv' = [srv EXCEPT !.up = FALSE, !.candidate = None, !.loaded = FALSE, !.phase = "starting"]
    /\ main' = [running |-> FALSE, eng |-> None]
    /\ seen' = TRUE /\ Publishes
    /\ UNCHANGED <<managed, patching, patches>>

\* A start has found the server healthy, or a poll finds it again.  Requests
\* sent before the outage have met their deadline by then.
CanBeBack == ~main.running /\ srv.up /\ patching = None /\ ui.read = None

ServerIsBack ==
    /\ CanBeBack
    /\ main' = [running |-> TRUE, eng |-> Status]
    /\ seen' = TRUE /\ Publishes
    /\ UNCHANGED <<srv, managed, patching, patches, outages>>

Next ==
    \/ \E k \in Keys, v \in Values : UpdateEngineSetting(k, v)
    \/ ApplyPending \/ RevertEngineSettings
    \/ \E v \in Values : SelectPreset(v)
    \/ AnswerRead \/ FailRead \/ ReadReturns
    \/ AnswerPatch \/ FailPatch \/ PatchReturns
    \/ BeginPreparation \/ EndPreparation \/ ServerDies \/ ServerStarts \/ EndStart
    \/ Refresh \/ StopServer \/ ServerIsBack
    \/ \E differs \in BOOLEAN : HealthPoll(differs)

\* The server finishes what it does; requests are answered or meet their
\* deadline; polls go on, and diagnostics are collected anew (their cache
\* expires), so that states keep being sent.  Weak fairness is written out
\* with the guards where TLC is slow to evaluate ENABLED.
PollTells == main.running /\ (Polled # main \/ ~seen \/ Settle(ui, ui, TRUE, Polled) # ui)

Fairness ==
    /\ WF_vars(BeginPreparation) /\ WF_vars(EndPreparation) /\ WF_vars(EndStart)
    /\ WF_vars(AnswerRead \/ FailRead) /\ WF_vars(AnswerPatch \/ FailPatch)
    /\ []<>~ReadEnds \/ []<><<ReadReturns>>_vars
    /\ []<>~PatchEnds \/ []<><<PatchReturns>>_vars
    /\ []<>~PollTells \/ []<><<HealthPoll(TRUE)>>_vars
    /\ []<>~CanBeBack \/ []<><<ServerIsBack>>_vars

Spec == Init /\ [][Next]_vars /\ Fairness

---------------------------------------------------------------------------

(* Types; a page that shows settings as connected has them; only a page that *)
(* follows a preparation confirms it.                                        *)
TypeOK ==
    /\ srv.phase \in {"starting", "ready", "preparing", "failed"}
    /\ srv.values \in [Keys -> Values] /\ srv.load \in Nat
    /\ main.running \in BOOLEAN /\ seen \in BOOLEAN /\ managed \in BOOLEAN
    /\ ui.pending \in Patches /\ ui.patch \in Patches
    /\ ui.confirm \in {"none", "current", "stale"}
    /\ ui.connected => ui.settings # None
    /\ Len(ui.waiters) <= 2
    /\ patches \in 0..MaxPatches /\ outages \in 0..MaxOutages

(* "Keep pending changes on failure so user can retry": a staged change      *)
(* leaves the page only when the server has committed it, when the user     *)
(* reverts or replaces it, or when the app's own server stopped meanwhile.  *)
ClearedIsCommitted ==
    [][\A k \in DOMAIN ui.pending \ DOMAIN ui'.pending :
         \/ srv.values[k] = ui.pending[k]
         \/ managed /\ ~main'.running
         \/ RevertEngineSettings]_vars

(* The page does not stay in "preparing", with apply and revert disabled,    *)
(* when the server is there to answer.                                      *)
PreparationEnds == ui.active ~> (~ui.active \/ ~srv.up)
===============================================================================
