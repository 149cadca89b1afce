------------------------------ MODULE LoginItems ------------------------------
(***************************************************************************)
(* Launch at login (main/login-item-policy.ts): enabling Eve's login item  *)
(* also removes those its predecessor Murmur left, and is undone when the  *)
(* system does not do as it was asked.                                     *)
(*                                                                         *)
(* A login item is [scope, name, path, args, enabled], its path normalized *)
(* and its arguments reduced to whether there are any.  A machine is       *)
(* [items, ignores]: its login items, and the writes <<name, open>> that   *)
(* have no effect there.                                                   *)
(***************************************************************************)
EXTENDS FiniteSets, Naturals, Sequences

\* Eve's application id and executable, Murmur's executable.
Eve == "eve"
EveExe == "eve.exe"
MurmurExe == "murmur.exe"
LegacyNames == {"Murmur", "electron.app.Murmur", "murmur app id"}

ExactUserItem(i, name, path) ==
    i.scope = "user" /\ i.name = name /\ i.path = path /\ ~i.args

\* The system keeps one item of the user per name.
SetItem(machine, name, path, open) ==
    LET others == {i \in machine.items : i.scope # "user" \/ i.name # name}
        item == [scope |-> "user", name |-> name, path |-> path, args |-> FALSE, enabled |-> TRUE]
    IN  IF <<name, open>> \in machine.ignores THEN machine
        ELSE [machine EXCEPT !.items = others \cup (IF open THEN {item} ELSE {})]

Verified(machine, enabled) ==
    LET exact == {i \in machine.items : ExactUserItem(i, Eve, EveExe)}
    IN  IF enabled THEN \E i \in exact : i.enabled ELSE exact = {}

ExactLegacy(items) == {i \in items : i.name \in LegacyNames /\ ExactUserItem(i, i.name, MurmurExe)}
IgnoredLegacy(items, similar) ==
    {i \in items : i.name \in LegacyNames \cup similar \/ i.path = MurmurExe} \ ExactLegacy(items)

\* What a call leaves behind, and what it answers; `similar` are the names
\* that merely contain Murmur's.
Fails(machine) == [machine |-> machine, ok |-> FALSE, removed |-> 0, ignored |-> 0]
Reconcile(machine, similar) ==
    LET legacy == ExactLegacy(machine.items)
        names == {i.name : i \in legacy}
        kept == {i \in machine.items :
                    ~(i.scope = "user" /\ i.name \in names /\ <<i.name, FALSE>> \notin machine.ignores)}
        after == [machine EXCEPT !.items = kept]
    IN  IF \E i \in kept : i.name \in names /\ ExactUserItem(i, i.name, MurmurExe) THEN Fails(after)
        ELSE [machine |-> after, ok |-> TRUE, removed |-> Cardinality(legacy),
              ignored |-> Cardinality(IgnoredLegacy(machine.items, similar))]

Apply(machine, enabled, similar) ==
    LET set == SetItem(machine, Eve, EveExe, enabled)
        legacy == Reconcile(set, similar)
        Undone(m) == Fails(SetItem(m, Eve, EveExe, FALSE))
    IN  IF ~Verified(set, enabled) THEN IF enabled THEN Undone(set) ELSE Fails(set)
        ELSE IF ~enabled THEN [Fails(set) EXCEPT !.ok = TRUE]
        ELSE IF legacy.ok THEN legacy ELSE Undone(legacy.machine)
===============================================================================
