----------------------------- MODULE MCLoginItems -----------------------------
(***************************************************************************)
(* LoginItems on every machine with some of these items; TLC evaluates the *)
(* assumptions once.                                                       *)
(***************************************************************************)
EXTENDS LoginItems

Item(scope, name, path, args, enabled) ==
    [scope |-> scope, name |-> name, path |-> path, args |-> args, enabled |-> enabled]

\* Eve's own item, as it should be and switched off; Murmur's two exact items;
\* and items that only resemble one of them.
SomeItems ==
    {Item("user", Eve, EveExe, FALSE, TRUE), Item("user", Eve, EveExe, FALSE, FALSE),
     Item("machine", Eve, EveExe, FALSE, TRUE),
     Item("user", "Murmur", MurmurExe, FALSE, TRUE),
     Item("user", "electron.app.Murmur", MurmurExe, FALSE, TRUE),
     Item("user", "Murmur", MurmurExe, TRUE, TRUE),
     Item("machine", "Murmur", MurmurExe, FALSE, TRUE),
     Item("user", "Murmur Helper", "helper.exe", FALSE, TRUE)}
Machines ==
    {[items |-> items, ignores |-> ignores] :
        items \in {s \in SUBSET SomeItems :
                      \A i, j \in s : i.scope = "user" /\ j.scope = "user" /\ i.name = j.name => i = j},
        ignores \in SUBSET {<<Eve, TRUE>>, <<Eve, FALSE>>, <<"Murmur", FALSE>>,
                            <<"electron.app.Murmur", FALSE>>}}
Called(m, enabled) == Apply(m, enabled, {"Murmur Helper"})

\* An answer of success tells the truth: Eve starts at login and its
\* predecessor's own items do not, or Eve does not start.
SuccessIsTrue ==
    \A m \in Machines :
        /\ LET on == Called(m, TRUE) IN
           on.ok => /\ Verified(on.machine, TRUE)
                    /\ ExactLegacy(on.machine.items) = {}
        /\ LET off == Called(m, FALSE) IN off.ok => Verified(off.machine, FALSE)
ASSUME SuccessIsTrue

\* A failed enabling leaves no item of Eve that starts it, unless the system
\* refuses to remove one.
FailureIsUndone ==
    \A m \in Machines :
        LET on == Called(m, TRUE) IN
        ~on.ok /\ <<Eve, FALSE>> \notin m.ignores => Verified(on.machine, FALSE)
ASSUME FailureIsUndone

\* Whatever happens, only items of the user with Eve's name, or exactly
\* Murmur's, are touched; what merely resembles them is counted and kept.
OthersAreKept ==
    \A m \in Machines, enabled \in BOOLEAN :
        LET r == Called(m, enabled)
            ours == {i \in m.items : i.scope = "user" /\ i.name = Eve} \cup ExactLegacy(m.items)
        IN  m.items \ ours \subseteq r.machine.items
ASSUME OthersAreKept

\* Doing it again changes nothing more.
ApplyIsIdempotent ==
    \A m \in Machines, enabled \in BOOLEAN :
        LET r == Called(m, enabled) IN Called(r.machine, enabled).machine = r.machine
ASSUME ApplyIsIdempotent
===============================================================================
