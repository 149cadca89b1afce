------------------------------ MODULE HistoryViews ------------------------------
(***************************************************************************)
(* The History and Insights pages over the history database: paging,       *)
(* filters, the undo window of a delete, bulk deletes, and the refreshes   *)
(* that new entries and deletes cause (renderer/app/views/HistoryView and  *)
(* InsightsView, history-delete-queue, main/services/pipeline.ts).  Both   *)
(* pages stay mounted.                                                     *)
(*                                                                         *)
(* The main process answers requests in their order, without awaiting, and *)
(* its replies and events reach the renderer in order (`inbox`).  Nothing  *)
(* of the renderer can tell when its request was served, so each is served *)
(* as it is sent.                                                          *)
(***************************************************************************)
EXTENDS InsightsLedger, Sequences, SequencesExt, Functions

CONSTANTS None,
          Old,       \* the entries the database may hold at the start
          Quick,     \* the entries of quick dictations, for the filter
          PageSize,
          MaxFaults, \* bound: failed writes
          MaxInbox   \* bound: undelivered messages a user action adds to

ASSUME ViewsAssumption ==
    /\ Old \subseteq Entries /\ Quick \subseteq Entries
    /\ \A e \in Old, new \in Entries \ Old : e < new
    /\ PageSize \in Nat \ {0} /\ MaxFaults \in Nat /\ MaxInbox \in Nat

ASSUME NoneAssumption == \A S \in SUBSET Entries : S # None

VARIABLES
    list,    \* the history list and its loader
    filter, searchTimer,
    pending, \* the deferred deletes
    sel,     \* the selection
    bulk,    \* the entries a bulk delete in flight names
    shown, refresh, \* the insights shown, and the timer that reads them again
    inbox,   \* replies and events on their way to the renderer
    dictated, \* the entries there have been
    faults

views == <<list, filter, searchTimer, pending, sel, bulk, shown, refresh, inbox>>
vars == <<ledger, views, dictated, faults>>

Init ==
    /\ LedgerInit /\ store = Old
    /\ list = [view |-> <<>>, offset |-> 0, hasMore |-> TRUE, loading |-> FALSE,
               stale |-> FALSE, queued |-> FALSE, skewed |-> FALSE]
    /\ filter = "all" /\ searchTimer = FALSE
    /\ pending = [e \in Entries |-> "no"]
    /\ sel = [mode |-> FALSE, ids |-> {}, asking |-> FALSE, stale |-> FALSE]
    /\ bulk = None /\ shown = None /\ refresh = FALSE
    /\ inbox = <<>> /\ dictated = Old /\ faults = 0

Fault == faults < MaxFaults /\ faults' = faults + 1
NoFault == UNCHANGED faults
MayAsk == open /\ Len(inbox) < MaxInbox

Matching(f) == {e \in store : f = "all" \/ e \in Quick}

\* The k-th of a set of numbers, which can be reasoned about where SortSeq and
\* SelectSeq, which have no definition for the provers, cannot.
Nth(S, k) == CHOOSE e \in S : Cardinality({d \in S : d <= e}) = k

\* ORDER BY timestamp DESC
NewestFirst(S) == [i \in 1..Cardinality(S) |-> Nth(S, Cardinality(S) + 1 - i)]
Listed(f) == NewestFirst(Matching(f))
Shown == ToSet(list.view)
Visible == {e \in Shown : pending[e] = "no"}
Hidden == {e \in Entries : pending[e] # "no"}

-----------------------------------------------------------------------------
(* What a handler asks of the main process.                                *)

Page(f, from) ==
    LET total == Cardinality(Matching(f))
        last == from + PageSize
    IN [kind |-> "page", from |-> from, more |-> total > last,
        entries |-> SubSeq(Listed(f), from + 1, IF last < total THEN last ELSE total)]

\* A delete the list has not heard of shifts the pages behind it.
Shifted == \E i \in DOMAIN inbox : inbox[i].kind \in {"deleted", "bulk"} /\ inbox[i].ok

\* loadEntries, once it may load: `reset` has emptied the list.  A page that
\* cannot be read leaves the list as it is, and is asked for again.
Load(l, msgs) ==
    /\ list' = [l EXCEPT !.loading = TRUE, !.stale = FALSE, !.queued = FALSE,
                         !.skewed = @ \/ (Shifted /\ l.offset > 0)]
    /\ inbox' = Append(msgs, Page(filter', l.offset))
    /\ NoFault

ResetList(l) ==
    [l EXCEPT !.view = <<>>, !.offset = 0, !.hasMore = TRUE, !.skewed = FALSE]
ReloadAnyway(l, msgs) == Load(ResetList(l), msgs)
Reload(l, msgs) ==
    IF l.loading
    THEN /\ list' = [ResetList(l) EXCEPT !.stale = TRUE, !.queued = TRUE]
         /\ inbox' = msgs /\ NoFault
    ELSE Load(ResetList(l), msgs)

Cleared(s) == [s EXCEPT !.ids = {}, !.stale = s.asking]
Left(s) == [Cleared(s) EXCEPT !.mode = FALSE]
LeftByReset(s) == IF s.mode \/ s.ids # {} THEN Left(s) ELSE s

\* getInsights, after the query's catch-up.
Reply ==
    [kind |-> "insights", counts |-> counts',
     indexing |-> Cardinality(processed') < Cardinality(store')]

\* loadInsights: the reply of an older request, which would change nothing
\* when it arrives, goes at once.
Unanswered(msgs) ==
    LET older == {i \in DOMAIN msgs : msgs[i].kind = "insights"}
    IN IF older = {} THEN msgs ELSE RemoveAt(msgs, CHOOSE i \in older : TRUE)
ReadInsights(msgs, then(_)) ==
    Query /\ refresh' = FALSE /\ then(Append(Unanswered(msgs), Reply))

-----------------------------------------------------------------------------
(* The main process.                                                       *)

Start ==
    /\ Initialize
    /\ UNCHANGED <<views, dictated, faults>>

\* The pages open: both load.  The window becoming visible loads them again.
Become ==
    /\ MayAsk
    /\ sel' = LeftByReset(sel)
    /\ UNCHANGED <<dictated, filter, searchTimer, pending, bulk, shown>>
    /\ LET load(msgs) == Reload(list, msgs) IN ReadInsights(inbox, load)

\* A final was processed: the entry is pushed whether or not it was saved.
Dictate(e) ==
    /\ e \notin dictated /\ \A f \in Entries \ dictated : e <= f
    /\ \E o \in {"saved", "underived", "lost"} :
          Save(e, o) /\ IF o = "saved" THEN NoFault ELSE Fault
    /\ dictated' = dictated \cup {e}
    /\ inbox' = Append(inbox, [kind |-> "new", entry |-> e])
    /\ UNCHANGED <<list, filter, searchTimer, pending, sel, bulk, shown, refresh>>

Background ==
    /\ \E f \in BOOLEAN : CatchUp(f) /\ IF f THEN Fault ELSE NoFault
    /\ UNCHANGED <<views, dictated>>

-----------------------------------------------------------------------------
(* The user.                                                               *)

Scroll ==
    /\ MayAsk /\ list.hasMore /\ ~list.loading
    /\ UNCHANGED <<ledger, dictated, filter, searchTimer, pending, sel, bulk, shown, refresh>>
    /\ Load(list, inbox)

\* A filter is applied at once; a search 300 ms after the last key.
ChangeFilter(f) ==
    /\ MayAsk /\ f # filter /\ filter' = f
    /\ sel' = LeftByReset(Cleared(sel))
    /\ UNCHANGED <<ledger, dictated, searchTimer, pending, bulk, shown, refresh>>
    /\ Reload(list, inbox)

Search(f) ==
    /\ MayAsk /\ f # filter /\ filter' = f /\ searchTimer' = TRUE
    /\ sel' = Cleared(sel)
    /\ UNCHANGED <<ledger, dictated, list, pending, bulk, shown, refresh, inbox, faults>>

SearchNow ==
    /\ searchTimer /\ searchTimer' = FALSE
    /\ sel' = LeftByReset(sel)
    /\ UNCHANGED <<ledger, dictated, filter, pending, bulk, shown, refresh>>
    /\ Reload(list, inbox)

Defer(e) ==
    /\ e \in Visible /\ ~sel.mode
    /\ pending' = [pending EXCEPT ![e] = "waiting"]
    /\ UNCHANGED <<ledger, dictated, list, filter, searchTimer, sel, bulk, shown, refresh, inbox, faults>>

Undo(e) ==
    /\ pending[e] = "waiting"
    /\ pending' = [pending EXCEPT ![e] = "no"]
    /\ UNCHANGED <<ledger, dictated, list, filter, searchTimer, sel, bulk, shown, refresh, inbox, faults>>

\* After five seconds, or at once where the window is hidden or quits.
Commit(e) ==
    /\ pending[e] = "waiting"
    /\ pending' = [pending EXCEPT ![e] = "committing"]
    /\ \E ok \in BOOLEAN :
          /\ inbox' = Append(inbox, [kind |-> "deleted", entry |-> e, ok |-> ok])
          /\ IF ok THEN DeleteMany({e}) /\ NoFault ELSE UNCHANGED ledger /\ Fault
    /\ UNCHANGED <<dictated, list, filter, searchTimer, sel, bulk, shown, refresh>>

Select(s) ==
    /\ sel' = s
    /\ UNCHANGED <<ledger, dictated, list, filter, searchTimer, pending, bulk, shown, refresh>>

ToggleMode ==
    /\ open /\ Select([Cleared(sel) EXCEPT !.mode = ~@]) /\ UNCHANGED <<inbox, faults>>

SelectAll ==
    /\ MayAsk /\ sel.mode /\ ~sel.asking /\ bulk = None
    /\ Select([sel EXCEPT !.asking = TRUE, !.stale = FALSE])
    /\ inbox' = Append(inbox, [kind |-> "ids", ids |-> Matching(filter)]) /\ NoFault

ConfirmBulk ==
    /\ MayAsk /\ sel.mode /\ sel.ids # {} /\ ~sel.asking /\ bulk = None
    /\ bulk' = sel.ids \ Hidden
    /\ \E ok \in BOOLEAN :
          /\ inbox' = Append(inbox, [kind |-> "bulk", ids |-> bulk' \cap store, ok |-> ok])
          /\ IF ok THEN DeleteMany(bulk') /\ NoFault ELSE UNCHANGED ledger /\ Fault
    /\ UNCHANGED <<dictated, list, filter, searchTimer, pending, sel, shown, refresh>>

-----------------------------------------------------------------------------
(* What the renderer does with a message.                                  *)

Gets(kind) == inbox # <<>> /\ Head(inbox).kind = kind
Rest == Tail(inbox)

Applied(l, m) ==
    IF l.stale
    THEN [l EXCEPT !.loading = FALSE]
    ELSE [l EXCEPT !.loading = FALSE, !.view = @ \o m.entries,
                   !.hasMore = m.more, !.offset = m.from + Len(m.entries)]

GetPage ==
    /\ Gets("page")
    /\ UNCHANGED <<ledger, dictated, filter, searchTimer, pending, bulk, shown, refresh>>
    /\ LET l == Applied(list, Head(inbox)) IN
       IF list.queued
       THEN sel' = LeftByReset(sel) /\ Reload(l, Rest)
       ELSE list' = l /\ inbox' = Rest /\ UNCHANGED <<sel, faults>>

Fits(e) == (filter = "all" \/ e \in Quick) /\ pending[e] = "no" /\ e \notin Shown
PrependedUncounted(l, e) == [l EXCEPT !.view = <<e>> \o @]
Prepended(l, e) ==
    [l EXCEPT !.view = <<e>> \o @, !.offset = @ + 1, !.skewed = @ \/ e \notin store]

GetNewEntry ==
    /\ Gets("new")
    /\ UNCHANGED <<dictated, filter, searchTimer, pending, bulk, shown>>
    /\ LET e == Head(inbox).entry
           add(msgs) ==
             \/ Fits(e) /\ list.loading /\ sel' = LeftByReset(sel) /\ Reload(list, msgs)
             \/ /\ ~Fits(e) \/ ~list.loading
                /\ list' = IF Fits(e) THEN Prepended(list, e) ELSE list
                /\ inbox' = msgs /\ UNCHANGED <<sel, faults>>
       IN ReadInsights(Rest, add)

Without(l, ids) ==
    LET kept == {i \in DOMAIN l.view : l.view[i] \notin ids}
        size == Cardinality(kept)
    IN [l EXCEPT !.view = [k \in 1..size |-> l.view[Nth(kept, k)]],
                 !.offset = Less(@, Len(l.view) - size)]

GetDeleted ==
    /\ Gets("deleted")
    /\ LET m == Head(inbox)
           drop(msgs) == /\ list' = Without(list, {m.entry})
                         /\ sel' = [sel EXCEPT !.ids = @ \ {m.entry}]
                         /\ inbox' = msgs
       IN /\ pending' = [pending EXCEPT ![m.entry] = "no"]
          /\ IF m.ok
             THEN ReadInsights(Rest, drop)
             ELSE inbox' = Rest /\ UNCHANGED <<ledger, list, sel, refresh>>
    /\ UNCHANGED <<dictated, filter, searchTimer, bulk, shown, faults>>

GetBulk ==
    /\ Gets("bulk") /\ bulk' = None
    /\ UNCHANGED <<dictated, filter, searchTimer, pending, shown>>
    /\ LET m == Head(inbox)
           leave(msgs) == sel' = Left(sel) /\ Reload(Without(list, m.ids), msgs)
       IN \/ ~m.ok /\ inbox' = Rest /\ UNCHANGED <<ledger, list, sel, refresh, faults>>
          \/ m.ok /\ m.ids = {} /\ UNCHANGED <<ledger, refresh>> /\ leave(Rest)
          \/ m.ok /\ m.ids # {} /\ ReadInsights(Rest, leave)

AcceptsLateIds == TRUE
AcceptsIds == ~sel.stale
GetIds ==
    /\ Gets("ids")
    /\ Select([sel EXCEPT !.asking = FALSE, !.stale = FALSE,
                          !.ids = IF AcceptsIds THEN Head(inbox).ids \ Hidden ELSE @])
    /\ inbox' = Rest /\ NoFault

GetInsights ==
    /\ Gets("insights") /\ inbox' = Rest
    /\ shown' = [counts |-> Head(inbox).counts, indexing |-> Head(inbox).indexing]
    /\ refresh' = Head(inbox).indexing
    /\ UNCHANGED <<ledger, dictated, list, filter, searchTimer, pending, sel, bulk, faults>>

\* While entries are being indexed, Insights reads again every second.
RefreshInsights ==
    /\ MayAsk /\ refresh
    /\ LET read(msgs) == inbox' = msgs IN ReadInsights(inbox, read)
    /\ UNCHANGED <<dictated, list, filter, searchTimer, pending, sel, bulk, shown, faults>>

Next ==
    \/ Start \/ Become \/ Background
    \/ Scroll \/ SearchNow \/ ToggleMode \/ SelectAll \/ ConfirmBulk
    \/ \E e \in Entries : Dictate(e) \/ Defer(e) \/ Undo(e) \/ Commit(e)
    \/ \E f \in {"all", "quick"} : ChangeFilter(f) \/ Search(f)
    \/ GetPage \/ GetNewEntry \/ GetDeleted \/ GetBulk \/ GetIds \/ GetInsights
    \/ RefreshInsights

Spec == Init /\ [][Next]_vars

-----------------------------------------------------------------------------
Coming(kind) == Cardinality({i \in DOMAIN inbox : inbox[i].kind = kind})

(* Types, and that each request in flight has exactly one reply coming.    *)
TypeOK ==
    /\ LedgerTypeOK
    /\ list.view \in Seq(Entries) /\ list.offset \in Nat
    /\ pending \in [Entries -> {"no", "waiting", "committing"}]
    /\ sel.ids \subseteq Entries /\ faults \in 0..MaxFaults
    /\ Coming("insights") <= 1
    /\ Coming("page") = (IF list.loading THEN 1 ELSE 0)
    /\ Coming("ids") = (IF sel.asking THEN 1 ELSE 0)
    /\ Coming("bulk") = (IF bulk = None THEN 0 ELSE 1)
    /\ Coming("deleted") = Cardinality({e \in Entries : pending[e] = "committing"})

(* An entry the list shows as kept is in the database: the undo of a       *)
(* delete, or its failure, brings back only what is still there.           *)
Deleting == IF bulk = None THEN {} ELSE bulk
KeptIsStored == \A e \in Visible \ Deleting : e \in store \/ list.skewed

(* Once the messages are in, the list is the newest part of what matches   *)
(* the filter, without gap or repetition, and all of it where it says so.  *)
ListSettled ==
    inbox = <<>> /\ ~searchTimer /\ ~list.skewed =>
        /\ IsPrefix(list.view, Listed(filter)) /\ list.offset = Len(list.view)
        /\ list.hasMore \/ list.view = Listed(filter)

(* Once they are in, Insights, unless it says it is indexing, counts what History holds. *)
InsightsSettled ==
    inbox = <<>> /\ shown # None => shown.indexing \/ shown.counts = Tally(store)

(* So the two pages agree with the database: on what was kept at any time, *)
(* on all of it once the messages are in.                                  *)
ViewsAgree == KeptIsStored /\ ListSettled /\ InsightsSettled

(* A bulk delete names only entries the list shows or the current filter   *)
(* matches, none of them hidden by a delete that can still be undone.      *)
BulkDeletesTheChosen ==
    [][bulk = None /\ bulk' # None =>
         \A e \in bulk' : pending[e] = "no" /\ (e \in Shown \/ e \in Matching(filter))]_vars
===============================================================================
