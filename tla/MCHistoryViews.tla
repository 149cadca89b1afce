---------------------------- MODULE MCHistoryViews ----------------------------
(* Instance of HistoryViews for TLC: two entries of an earlier run, on one  *)
(* day and sharing a word, and a new one of the next day.                   *)
EXTENDS HistoryViews, MCInsightsReport, MCInsightsChart

CONSTANTS d1, d2, w1, w2

TwoDays == [e \in Entries |-> IF e \in Old THEN {d1, w1} ELSE {d2, w2}]
===============================================================================
