---------------------------- MODULE InsightsLedger ----------------------------
(***************************************************************************)
(* The history database (main/services/history.ts): the dictations, the    *)
(* aggregate tables Insights is read from, and the ledger of the entries   *)
(* the tables already count.  SQLite commits each transaction whole, and   *)
(* the service is synchronous: a crash between two transactions leaves a   *)
(* state LedgerInit covers, so a crash and restart is a new behaviour.     *)
(*                                                                         *)
(* A cell is a row of one of the tables: a day of the rollups, or a day    *)
(* and word of the word counts.  An entry adds one to each cell it counts  *)
(* in: the sums of words, seconds and confidences of a rollup go with its  *)
(* dictations.  The day of an entry does not change.                       *)
(***************************************************************************)
EXTENDS Integers, FiniteSets

CONSTANTS Entries,      \* numbered in the order of their timestamps
          RollupCells, WordCells,
          Counted,      \* the cells an entry counts in
          StartupLimit, BackgroundLimit, QueryLimit  \* entries of a catch-up

Cells == RollupCells \cup WordCells

ASSUME EntriesAssumption == Entries \subseteq Nat /\ IsFiniteSet(Entries)
ASSUME CountedAssumption == Counted \in [Entries -> SUBSET Cells]
ASSUME LimitsAssumption ==
    /\ StartupLimit \in Nat \ {0}
    /\ BackgroundLimit \in Nat \ {0} /\ QueryLimit \in Nat \ {0}

VARIABLES open,      \* whether the service has initialized the database
          store,     \* transcriptions
          processed, \* insights_processed_entries
          counts,    \* insights_daily_rollups and insights_word_counts
          catchup    \* whether the catch-up timer is set

ledger == <<open, store, processed, counts, catchup>>

Empty == [c \in Cells |-> 0]
CountedIn(c, S) == {e \in S : c \in Counted[e]}
Added(table, S) == [c \in Cells |-> table[c] + Cardinality(CountedIn(c, S))]

\* MAX(count - 1, 0), once for each entry.
Less(n, k) == IF n > k THEN n - k ELSE 0
Removed(table, S) == [c \in Cells |-> Less(table[c], Cardinality(CountedIn(c, S)))]

Tally(S) == Added(Empty, S)

\* What an earlier run, or a version without the ledger, may have left.
Wiped(table) == [c \in Cells |-> IF c \in RollupCells THEN 0 ELSE table[c]]
LedgerInit ==
    /\ open = FALSE /\ catchup = FALSE /\ store \in SUBSET Entries
    /\ \/ processed \in SUBSET store /\ counts = Tally(processed)
       \/ processed = {} /\ counts \in {Tally(store), Wiped(Tally(store))}

Unprocessed == store \ processed
Oldest(limit) ==
    {e \in Unprocessed : Cardinality({f \in Unprocessed : f < e}) < limit}
Fills(limit) == Cardinality(Unprocessed) >= limit

IndexInto(table, S) == counts' = Added(table, S) /\ processed' = processed \cup S

Migrated == IF processed = {} THEN Empty ELSE counts

Initialize ==
    /\ ~open /\ open' = TRUE
    /\ IndexInto(Migrated, Oldest(StartupLimit))
    /\ catchup' = Fills(StartupLimit)
    /\ UNCHANGED store

\* The insert is durable by itself; the derived writes follow, or fail.
Save(e, outcome) ==
    /\ open /\ e \notin store
    /\ \/ outcome = "saved" /\ store' = store \cup {e} /\ IndexInto(counts, {e})
       \/ outcome = "underived" /\ store' = store \cup {e} /\ UNCHANGED <<processed, counts>>
       \/ outcome = "lost" /\ UNCHANGED <<store, processed, counts>>
    /\ UNCHANGED <<open, catchup>>

UncountedUnchecked(ids) == ids \cap store
Uncounted(ids) == ids \cap store \cap processed

DeleteMany(ids) ==
    /\ open
    /\ store' = store \ ids
    /\ counts' = Removed(counts, Uncounted(ids))
    /\ processed' = processed \ Uncounted(ids)
    /\ UNCHANGED <<open, catchup>>

\* The timer; a failing transaction is swallowed and the timer not set again.
CatchUp(fails) ==
    /\ open /\ catchup
    /\ IF fails
       THEN catchup' = FALSE /\ UNCHANGED <<processed, counts>>
       ELSE /\ IndexInto(counts, Oldest(BackgroundLimit))
            /\ catchup' = Fills(BackgroundLimit)
    /\ UNCHANGED <<open, store>>

\* getInsights indexes what is left before it reads the tables.
Query ==
    /\ open
    /\ IndexInto(counts, Oldest(QueryLimit))
    /\ catchup' = (catchup \/ Fills(QueryLimit))
    /\ UNCHANGED <<open, store>>

Rebuild ==
    /\ open
    /\ counts' = Added(Empty, store) /\ processed' = store
    /\ UNCHANGED <<open, store, catchup>>

LedgerNext ==
    \/ Initialize \/ Query \/ Rebuild
    \/ \E e \in Entries, o \in {"saved", "underived", "lost"} : Save(e, o)
    \/ \E ids \in SUBSET store : DeleteMany(ids)
    \/ \E f \in BOOLEAN : CatchUp(f)

LedgerSpec == LedgerInit /\ [][LedgerNext]_ledger

-----------------------------------------------------------------------------
LedgerTypeOK ==
    /\ open \in BOOLEAN /\ catchup \in BOOLEAN
    /\ store \in SUBSET Entries /\ processed \in SUBSET Entries
    /\ counts \in [Cells -> Nat]

(* Whatever was saved, deleted, left unindexed and caught up with, the     *)
(* aggregates Insights shows are a recount of the entries in the ledger,   *)
(* none of which has been deleted: no entry is counted twice or left       *)
(* behind (history.ts:202, "aggregates and the ledger must commit          *)
(* together").                                                             *)
LedgerExact == open => processed \subseteq store /\ counts = Tally(processed)
===============================================================================
