------------------------- MODULE SettingsTransactions -------------------------
(***************************************************************************)
(* PATCH /settings of the speech server (app.py, config.py).  A patch of   *)
(* keys that need no model reload is committed at once; one that needs a   *)
(* reload becomes a complete candidate, which the model runtime persists   *)
(* on a worker thread and publishes when the new model is activated.       *)
(* ModelRuntime models the reload itself; here it is what it does to the   *)
(* two copies of the settings, the file and the live object.               *)
(***************************************************************************)
EXTENDS FiniteSets

CONSTANTS Keys,        \* settings managed by the API
          ReloadKeys,  \* those that configure the model
          Values,
          Default,     \* the value every key starts with
          Patches      \* PATCH requests, each for one key

VARIABLES
    disk, memory,  \* settings.json, and _settings
    pc,            \* per request: new, checked, then accepted or rejected
    reload,        \* the reserved replacement: its stage, candidate, key, file read
    preparing,     \* the runtime's status is "preparing"
    intended       \* value of the last change of each key that took effect (a history)

vars == <<disk, memory, pc, reload, preparing, intended>>

NoReload == [stage |-> "none"]

Init ==
    /\ disk = [k \in Keys |-> Default] /\ memory = disk /\ intended = disk
    /\ pc = [p \in Patches |-> "new"]
    /\ reload = NoReload /\ preparing = FALSE

\* The status is read on a worker thread; the request goes on with what it saw.
CheckStatus(p) ==
    /\ pc[p] = "new"
    /\ pc' = [pc EXCEPT ![p] = IF preparing THEN "rejected" ELSE "checked"]
    /\ UNCHANGED <<disk, memory, reload, preparing, intended>>

\* build_settings_candidate: the live settings with the patched key.
Candidate(k, v) == [memory EXCEPT ![k] = v]

\* commit_settings, or an OSError.
Commit(p, k, v) ==
    /\ pc[p] = "checked" /\ k \notin ReloadKeys
    /\ \/ /\ disk' = [disk EXCEPT ![k] = v]
          /\ memory' = Candidate(k, v)
          /\ intended' = [intended EXCEPT ![k] = v]
          /\ pc' = [pc EXCEPT ![p] = "accepted"]
       \/ pc' = [pc EXCEPT ![p] = "rejected"] /\ UNCHANGED <<disk, memory, intended>>
    /\ UNCHANGED <<reload, preparing>>

\* schedule_prepare_and_activate, which refuses a second replacement.
StartReload(p, k, v) ==
    /\ pc[p] = "checked" /\ k \in ReloadKeys
    /\ IF reload # NoReload
       THEN pc' = [pc EXCEPT ![p] = "rejected"] /\ UNCHANGED reload
       ELSE /\ pc' = [pc EXCEPT ![p] = "accepted"]
            /\ reload' = [stage |-> "scheduled", key |-> k, candidate |-> Candidate(k, v)]
    /\ UNCHANGED <<disk, memory, preparing, intended>>

SameModel(c) == \A k \in ReloadKeys : c[k] = memory[k]

\* The task starts: only a changed model configuration shows as preparing.
Prepare ==
    /\ reload.stage = "scheduled"
    /\ preparing' = ~SameModel(reload.candidate)
    /\ reload' = [reload EXCEPT !.stage = "prepared"]
    /\ UNCHANGED <<disk, memory, pc, intended>>

\* _persist_settings reads the stored file, then replaces it.
PersistRead ==
    /\ reload.stage = "prepared"
    /\ reload' = [stage |-> "read", key |-> reload.key, candidate |-> reload.candidate,
                  stored |-> disk]
    /\ UNCHANGED <<disk, memory, pc, preparing, intended>>

PersistReplace ==
    /\ reload.stage = "read"
    /\ disk' = [reload.stored EXCEPT ![reload.key] = reload.candidate[reload.key]]
    /\ reload' = [reload EXCEPT !.stage = "persisted"]
    /\ UNCHANGED <<memory, pc, preparing, intended>>

Publish ==
    /\ reload.stage = "persisted"
    /\ memory' = reload.candidate
    /\ intended' = [intended EXCEPT ![reload.key] = reload.candidate[reload.key]]
    /\ reload' = NoReload /\ preparing' = FALSE
    /\ UNCHANGED <<disk, pc>>

\* Preparation or the settings file fails: the reload is given up.
ReloadFails ==
    /\ reload.stage \in {"prepared", "read"}
    /\ reload' = NoReload /\ preparing' = FALSE
    /\ UNCHANGED <<disk, memory, pc, intended>>

Next ==
    \/ \E p \in Patches, k \in Keys, v \in Values :
          CheckStatus(p) \/ Commit(p, k, v) \/ StartReload(p, k, v)
    \/ Prepare \/ PersistRead \/ PersistReplace \/ Publish \/ ReloadFails

Spec == Init /\ [][Next]_vars

(* A change that took effect stays in effect until the same key is changed  *)
(* again: a patch changes only the keys it names.                          *)
ChangesSurvive == memory = intended
===============================================================================
