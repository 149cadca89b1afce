--------------------------- MODULE MCInferenceQueue ---------------------------
(* Instance of InferenceQueue for TLC: two exclusive calls and two of a      *)
(* session that allows two workers.                                         *)
EXTENDS InferenceQueue

CONSTANTS x1, x2, o1, o2

TwoWorkers == [c \in {o1, o2} |-> 2]
===============================================================================
