------------------------------- MODULE PackStore -------------------------------
(***************************************************************************)
(* What the GPU pack manager promises of each published pack               *)
(* (docs/architecture/eve-gpu-pack-lifecycle.md, "Disk space and           *)
(* publication" and "Concurrency and server ownership"): a pack appears    *)
(* complete or not at all, is immutable, is taken apart only when no       *)
(* process uses it, and a directory of somebody else is left to its owner. *)
(***************************************************************************)
CONSTANT Packs

VARIABLES store, \* what is at each pack's path
          used   \* the packs some live process may load files of

vars == <<store, used>>

Contents == {"absent", "complete", "damaged", "partial", "foreign"}

Init == store \in [Packs -> Contents] /\ used = {}

Become(k, from, to) ==
    store[k] \in from /\ store' = [store EXCEPT ![k] = to] /\ UNCHANGED used

Publish(k) == Become(k, {"absent"}, "complete")
Discard(k) == k \notin used /\ Become(k, {"complete", "damaged"}, "partial")
Clear(k) == k \notin used /\ Become(k, {"partial"}, "absent")

\* Other programs: a file is corrupted, or the path is taken.
Damage(k) == Become(k, {"complete"}, "damaged")
Occupy(k) == Become(k, {"absent"}, "foreign")

Use(k) == /\ store[k] \in {"complete", "damaged"}
          /\ used' = used \cup {k} /\ UNCHANGED store
EndUse(k) == used' = used \ {k} /\ UNCHANGED store

Next == \E k \in Packs :
           \/ Publish(k) \/ Discard(k) \/ Clear(k) \/ Damage(k) \/ Occupy(k)
           \/ Use(k) \/ EndUse(k)

Spec == Init /\ [][Next]_vars
===============================================================================
