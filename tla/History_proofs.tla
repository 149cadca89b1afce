----------------------------- MODULE History_proofs -----------------------------
(***************************************************************************)
(* Whatever is saved, deleted, caught up with, rebuilt or left unindexed,  *)
(* in any order, the aggregate tables are a recount of the ledger.  The    *)
(* pages, whatever they ask and in which order, use the database only as   *)
(* its operations allow, so the same holds under them.  A bulk delete      *)
(* names only what the filter matches, whichever replies are under way.    *)
(* What Insights shows counts what is stored, once the messages are in,    *)
(* and the list is then the newest part of what the filter matches: every  *)
(* message under way is dated by the entries it names, and a page either   *)
(* continues the list or is read again.  And each request has one reply.   *)
(***************************************************************************)
EXTENDS HistoryViews, FiniteSetTheorems, SequenceTheorems, TLAPS

(* Before the database is initialized the tables may be those of a version *)
(* without the ledger: then the ledger is empty, which is what             *)
(* Initialize recognizes them by.                                          *)
Recounted ==
    /\ processed \subseteq store
    /\ counts = Tally(processed) \/ (~open /\ processed = {})

Inv == LedgerTypeOK /\ Recounted

-----------------------------------------------------------------------------
(* Cardinalities add up over disjoint sets.                                 *)
LEMMA DisjointUnion ==
    ASSUME NEW A, NEW B, IsFiniteSet(A), IsFiniteSet(B), A \cap B = {}
    PROVE  Cardinality(A) + Cardinality(B) = Cardinality(A \cup B)
<1>1. Cardinality(A) \in Nat /\ Cardinality(B) \in Nat
  BY FS_CardinalityType
<1>2. Cardinality(A \cup B) = Cardinality(A) + Cardinality(B) - Cardinality(A \cap B)
  BY FS_Union
<1>3. Cardinality(A \cap B) = 0
  BY FS_EmptySet
<1> QED
  BY <1>1, <1>2, <1>3

(* And the clamped difference is exact when a subset is taken out.          *)
LEMMA SubsetDifference ==
    ASSUME NEW A, IsFiniteSet(A), NEW B \in SUBSET A
    PROVE  Less(Cardinality(A), Cardinality(B)) = Cardinality(A \ B)
<1>1. A \cap B = B
  OBVIOUS
<1>2. Cardinality(A) \in Nat /\ Cardinality(B) \in Nat /\ Cardinality(B) <= Cardinality(A)
  BY FS_Subset, FS_CardinalityType
<1>3. Cardinality(A \ B) = Cardinality(A) - Cardinality(A \cap B)
  BY FS_Difference
<1>4. Cardinality(A \ B) = Cardinality(A) - Cardinality(B)
  BY <1>1, <1>3
<1> QED
  BY <1>2, <1>4 DEF Less

(* The entries that count in a cell, of a set of entries.                  *)
LEMMA CountedFinite ==
    ASSUME NEW c, NEW S \in SUBSET Entries
    PROVE  IsFiniteSet(CountedIn(c, S)) /\ Cardinality(CountedIn(c, S)) \in Nat
<1>1. IsFiniteSet(S)
  BY FS_Subset, EntriesAssumption
<1>2. CountedIn(c, S) \in SUBSET S
  BY DEF CountedIn
<1>3. IsFiniteSet(CountedIn(c, S))
  BY <1>1, <1>2, FS_Subset
<1> QED
  BY <1>3, FS_CardinalityType

(* A recount has a number in each cell.                                     *)
LEMMA TallyCell ==
    ASSUME NEW S \in SUBSET Entries
    PROVE  /\ Tally(S) = [c \in Cells |-> Cardinality(CountedIn(c, S))]
           /\ Tally(S) \in [Cells -> Nat]
<1>1. \A c \in Cells : Cardinality(CountedIn(c, S)) \in Nat
  BY CountedFinite
<1>2. Tally(S) = [c \in Cells |-> 0 + Cardinality(CountedIn(c, S))]
  BY DEF Tally, Added, Empty
<1>3. \A c \in Cells : 0 + Cardinality(CountedIn(c, S)) = Cardinality(CountedIn(c, S))
  BY <1>1
<1>4. Tally(S) = [c \in Cells |-> Cardinality(CountedIn(c, S))]
  BY <1>2, <1>3, Zenon
<1> QED
  BY <1>1, <1>4

(* No entries, no counts.                                                   *)
LEMMA EmptyTally == Tally({}) = Empty
<1>1. \A c \in Cells : CountedIn(c, {}) = {}
  BY DEF CountedIn
<1>2. \A c \in Cells : Cardinality(CountedIn(c, {})) = 0
  BY <1>1, FS_EmptySet, Zenon
<1>3. Tally({}) = [c \in Cells |-> Cardinality(CountedIn(c, {}))]
  BY TallyCell
<1> QED
  BY <1>2, <1>3 DEF Empty

(* Indexing entries the tables do not count yet recounts them all.         *)
LEMMA AddedTally ==
    ASSUME NEW S \in SUBSET Entries, NEW T \in SUBSET Entries, S \cap T = {}
    PROVE  Added(Tally(S), T) = Tally(S \cup T)
<1>1. ASSUME NEW c \in Cells
      PROVE  Cardinality(CountedIn(c, S)) + Cardinality(CountedIn(c, T))
               = Cardinality(CountedIn(c, S \cup T))
  <2>1. /\ IsFiniteSet(CountedIn(c, S)) /\ Cardinality(CountedIn(c, S)) \in Nat
        /\ IsFiniteSet(CountedIn(c, T)) /\ Cardinality(CountedIn(c, T)) \in Nat
    BY CountedFinite
  <2>2. /\ CountedIn(c, S) \cup CountedIn(c, T) = CountedIn(c, S \cup T)
        /\ CountedIn(c, S) \cap CountedIn(c, T) = {}
    BY DEF CountedIn
  <2> QED
    BY <2>1, <2>2, DisjointUnion
<1>2. \A c \in Cells : Tally(S)[c] = Cardinality(CountedIn(c, S))
  BY TallyCell
<1>3. Added(Tally(S), T) = [c \in Cells |-> Cardinality(CountedIn(c, S \cup T))]
  BY <1>1, <1>2 DEF Added
<1> QED
  BY <1>3, TallyCell

(* Taking out entries the tables count leaves a recount of the others: no  *)
(* count reaches the MAX(..., 0).                                          *)
LEMMA RemovedTally ==
    ASSUME NEW S \in SUBSET Entries, NEW T \in SUBSET S
    PROVE  Removed(Tally(S), T) = Tally(S \ T)
<1>1. ASSUME NEW c \in Cells
      PROVE  Less(Cardinality(CountedIn(c, S)), Cardinality(CountedIn(c, T)))
               = Cardinality(CountedIn(c, S \ T))
  <2>1. IsFiniteSet(CountedIn(c, S)) /\ CountedIn(c, T) \in SUBSET CountedIn(c, S)
    BY CountedFinite DEF CountedIn
  <2>2. CountedIn(c, S) \ CountedIn(c, T) = CountedIn(c, S \ T)
    BY DEF CountedIn
  <2> QED
    BY <2>1, <2>2, SubsetDifference
<1>2. \A c \in Cells : Tally(S)[c] = Cardinality(CountedIn(c, S))
  BY TallyCell
<1>3. Removed(Tally(S), T) = [c \in Cells |-> Cardinality(CountedIn(c, S \ T))]
  BY <1>1, <1>2 DEF Removed
<1> QED
  BY <1>3, TallyCell

(* What a transaction that indexes unprocessed entries leaves.             *)
LEMMA Indexed ==
    ASSUME LedgerTypeOK, NEW S \in SUBSET Entries, S \cap processed = {},
           IndexInto(Tally(processed), S)
    PROVE  /\ processed' = processed \cup S /\ processed' \in SUBSET Entries
           /\ counts' = Tally(processed') /\ counts' \in [Cells -> Nat]
<1>1. counts' = Added(Tally(processed), S) /\ processed' = processed \cup S
  BY DEF IndexInto
<1>2. processed \in SUBSET Entries /\ processed' \in SUBSET Entries
  BY <1>1 DEF LedgerTypeOK
<1>3. counts' = Tally(processed')
  BY <1>1, <1>2, AddedTally
<1> QED
  BY <1>1, <1>2, <1>3, TallyCell

(* A catch-up takes entries of the database that are not in the ledger.    *)
LEMMA OldestUnprocessed ==
    ASSUME LedgerTypeOK, NEW n
    PROVE  Oldest(n) \in SUBSET store /\ Oldest(n) \in SUBSET Entries
           /\ Oldest(n) \cap processed = {}
  BY DEF Oldest, Unprocessed, LedgerTypeOK

-----------------------------------------------------------------------------
(* The database a run finds.                                               *)
LEMMA InvInit == LedgerInit => Inv
<1> SUFFICES ASSUME LedgerInit PROVE Inv
  OBVIOUS
<1>1. store \in SUBSET Entries /\ processed \in SUBSET store /\ open = FALSE /\ catchup = FALSE
  BY DEF LedgerInit
<1>2. counts = Tally(processed)
      \/ (processed = {} /\ counts \in {Tally(store), Wiped(Tally(store))})
  BY DEF LedgerInit
<1>3. Tally(processed) \in [Cells -> Nat] /\ Tally(store) \in [Cells -> Nat]
  BY <1>1, TallyCell
<1>4. Wiped(Tally(store)) \in [Cells -> Nat]
  BY <1>3 DEF Wiped
<1>5. counts \in [Cells -> Nat]
  BY <1>2, <1>3, <1>4
<1> QED
  BY <1>1, <1>2, <1>5 DEF Inv, LedgerTypeOK, Recounted

(* Every operation preserves it.                                           *)
LEMMA InvNext == Inv /\ [LedgerNext]_ledger => Inv'
<1> SUFFICES ASSUME Inv, [LedgerNext]_ledger PROVE Inv'
  OBVIOUS
<1> USE DEF Inv
<1>0. /\ LedgerTypeOK /\ processed \subseteq store
      /\ counts = Tally(processed) \/ (~open /\ processed = {})
  BY DEF Recounted
<1>1. CASE Initialize
  <2>1. Migrated = Tally(processed)
    BY <1>0, EmptyTally DEF Migrated
  <2> QED
  BY <1>0, <1>1, <2>1, Indexed, OldestUnprocessed
     DEF Initialize, Fills, Recounted, LedgerTypeOK
<1>2. CASE Query
  <2>1. open /\ counts = Tally(processed)
    BY <1>0, <1>2 DEF Query
  <2> QED
  BY <1>0, <1>2, <2>1, Indexed, OldestUnprocessed
     DEF Query, Fills, Recounted, LedgerTypeOK
<1>3. CASE Rebuild
  <2>1. counts' = Tally(store) /\ processed' = store
    BY <1>3 DEF Rebuild, Tally
  <2> QED
    BY <1>0, <1>3, <2>1, TallyCell DEF Rebuild, Recounted, LedgerTypeOK
<1>4. ASSUME NEW e \in Entries, NEW o, Save(e, o) PROVE Inv'
  <2>1. open /\ counts = Tally(processed)
    BY <1>0, <1>4 DEF Save
  <2>2. CASE store' = store \cup {e} /\ IndexInto(counts, {e})
    <3>1. {e} \in SUBSET Entries /\ {e} \cap processed = {}
      BY <1>0, <1>4 DEF Save
    <3> QED
      BY <1>0, <1>4, <2>1, <2>2, <3>1, Indexed DEF Save, Recounted, LedgerTypeOK
  <2>3. CASE store' \in {store, store \cup {e}} /\ UNCHANGED <<processed, counts>>
    <3>1. counts' = Tally(processed')
      BY <2>1, <2>3 DEF Tally, Added, CountedIn
    <3> QED
      BY <1>0, <1>4, <2>3, <3>1 DEF Save, Recounted, LedgerTypeOK
  <2> QED
    BY <1>4, <2>2, <2>3 DEF Save
<1>5. ASSUME NEW ids \in SUBSET store, DeleteMany(ids) PROVE Inv'
  <2> DEFINE T == Uncounted(ids)
  <2>1. open /\ counts = Tally(processed)
    BY <1>0, <1>5 DEF DeleteMany
  <2>2. T \in SUBSET processed /\ processed' = processed \ T /\ store' = store \ ids
    BY <1>5 DEF DeleteMany, Uncounted
  <2>3. counts' = Tally(processed')
    BY <1>0, <1>5, <2>1, <2>2, RemovedTally DEF DeleteMany, LedgerTypeOK
  <2>4. processed' \subseteq store'
    BY <1>0, <1>5, <2>2 DEF Uncounted
  <2> QED
    BY <1>0, <1>5, <2>2, <2>3, <2>4, TallyCell DEF DeleteMany, Recounted, LedgerTypeOK
<1>6. ASSUME NEW f \in BOOLEAN, CatchUp(f) PROVE Inv'
  <2>1. open /\ counts = Tally(processed)
    BY <1>0, <1>6 DEF CatchUp
  <2>2. CASE f
    <3>1. counts' = Tally(processed')
      BY <1>6, <2>1, <2>2 DEF CatchUp, Tally, Added, CountedIn
    <3> QED
    BY <1>0, <1>6, <2>2, <3>1 DEF CatchUp, Recounted, LedgerTypeOK
  <2>3. CASE ~f
    BY <1>0, <1>6, <2>1, <2>3, Indexed, OldestUnprocessed
       DEF CatchUp, Fills, Recounted, LedgerTypeOK
  <2> QED
    BY <2>2, <2>3
<1>7. CASE UNCHANGED ledger
  <2>1. counts' = Tally(processed') \/ (~open' /\ processed' = {})
    BY <1>0, <1>7 DEF ledger, Tally, Added, CountedIn
  <2> QED
    BY <1>0, <1>7, <2>1 DEF ledger, Recounted, LedgerTypeOK
<1> QED
  BY <1>1, <1>2, <1>3, <1>4, <1>5, <1>6, <1>7 DEF LedgerNext

(* The inductive invariant holds in every reachable state.                 *)
THEOREM Induction == LedgerSpec => []Inv
  BY InvInit, InvNext, PTL DEF LedgerSpec

(* Every value in the tables has its type, for every set of entries.       *)
THEOREM LedgerTypes == LedgerSpec => []LedgerTypeOK
<1>1. Inv => LedgerTypeOK
  BY DEF Inv
<1> QED
  BY <1>1, Induction, PTL

(* The aggregates of Insights are a recount of the processed entries, none *)
(* of which has been deleted (history.ts:219).                             *)
THEOREM ExactLedger == LedgerSpec => []LedgerExact
<1>1. Inv => LedgerExact
  BY DEF Inv, Recounted, LedgerExact
<1> QED
  BY <1>1, Induction, PTL

-------------------------------------------------------------------------------
(* The pages over the database.                                            *)

(* A bulk delete names entries that may be gone: only those still stored   *)
(* matter to the database.                                                 *)
LEMMA OnlyStoredMatter ==
    ASSUME NEW ids, DeleteMany(ids)
    PROVE  \E stored \in SUBSET store : DeleteMany(stored)
<1>1. ids \cap store \in SUBSET store
  OBVIOUS
<1>2. store \ ids = store \ (ids \cap store)
  OBVIOUS
<1>3. Uncounted(ids) = Uncounted(ids \cap store)
  BY DEF Uncounted
<1>4. DeleteMany(ids \cap store)
  BY <1>2, <1>3 DEF DeleteMany
<1> QED
  BY <1>1, <1>4

(* Every step of the app is one operation of the database, or none.        *)
LEMMA StepsOfLedger == [Next]_vars => [LedgerNext]_ledger
<1> SUFFICES ASSUME [Next]_vars PROVE LedgerNext \/ UNCHANGED ledger
  OBVIOUS
<1>1. CASE Start
  BY <1>1 DEF Start, LedgerNext
<1>2. CASE Become \/ GetNewEntry \/ RefreshInsights
  <2>1. Query
    BY <1>2 DEF Become, GetNewEntry, RefreshInsights, ReadInsights
  <2> QED
    BY <2>1 DEF LedgerNext
<1>3. CASE Background
  BY <1>3 DEF Background, LedgerNext
<1>4. CASE Scroll \/ SearchNow \/ ToggleMode \/ SelectAll \/ GetPage \/ GetIds \/ GetInsights
  BY <1>4 DEF Scroll, SearchNow, ToggleMode, SelectAll, GetPage, GetIds, GetInsights, Select
<1>5. CASE ConfirmBulk
  <2>1. DeleteMany(bulk') \/ UNCHANGED ledger
    BY <1>5 DEF ConfirmBulk
  <2> QED
    BY <2>1, OnlyStoredMatter DEF LedgerNext
<1>6. ASSUME NEW e \in Entries, Dictate(e) PROVE LedgerNext
  <2>1. \E o \in {"saved", "underived", "lost"} : Save(e, o)
    BY <1>6 DEF Dictate
  <2> QED
    BY <1>6, <2>1 DEF LedgerNext
<1>7. ASSUME NEW e \in Entries, Defer(e) \/ Undo(e) PROVE UNCHANGED ledger
  BY <1>7 DEF Defer, Undo
<1>8. ASSUME NEW e \in Entries, Commit(e) PROVE LedgerNext \/ UNCHANGED ledger
  <2>1. DeleteMany({e}) \/ UNCHANGED ledger
    BY <1>8 DEF Commit
  <2> QED
    BY <2>1, OnlyStoredMatter DEF LedgerNext
<1>9. ASSUME NEW f, ChangeFilter(f) \/ Search(f) PROVE UNCHANGED ledger
  BY <1>9 DEF ChangeFilter, Search
<1>10. CASE GetDeleted \/ GetBulk
  <2>1. Query \/ UNCHANGED ledger
    BY <1>10 DEF GetDeleted, GetBulk, ReadInsights
  <2> QED
    BY <2>1 DEF LedgerNext
<1>11. CASE UNCHANGED vars
  BY <1>11 DEF vars
<1> QED
  BY <1>1, <1>2, <1>3, <1>4, <1>5, <1>6, <1>7, <1>8, <1>9, <1>10, <1>11 DEF Next

(* The app with its pages implements the database's specification.         *)
THEOREM ViewsUseLedger == Spec => LedgerSpec
<1>1. Init => LedgerInit
  BY DEF Init
<1> QED
  BY <1>1, StepsOfLedger, PTL DEF Spec, LedgerSpec

(* So under the pages, too, the aggregates of Insights are a recount of    *)
(* the processed entries (history.ts:202).                                 *)
THEOREM ExactUnderViews == Spec => []LedgerExact
  BY ViewsUseLedger, ExactLedger
-----------------------------------------------------------------------------
(* Bulk deletes.  What matters of the messages under way: the entries a    *)
(* select-all matched, and the deletes that have been done since.          *)

Sequence(s) == \E S : s \in Seq(S)

Message(s, i, kind) == i \in DOMAIN s /\ s[i].kind = kind

DeletedAfter(s, i, e) == \E j \in DOMAIN s : j > i /\ s[j].kind = "deleted" /\ s[j].entry = e

(* Each deferred delete under way has one reply, of an entry in             *)
(* `committing`, a bulk delete under way (`busy`) and a select-all          *)
(* (`asked`) at most one; an entry the reply to a select-all names, if it   *)
(* is still `wanted`, is in `match` or the reply to its delete comes later. *)
Mail(s, committing, asked, wanted, match, busy) ==
    /\ Sequence(s)
    /\ \A i \in DOMAIN s :
          /\ s[i].kind = "deleted" => s[i].entry \in committing
          /\ s[i].kind = "bulk" => busy
          /\ s[i].kind = "ids" =>
                /\ asked /\ s[i].ids \subseteq Entries
                /\ wanted => \A e \in s[i].ids : e \in match \/ DeletedAfter(s, i, e)
    /\ \A i, j \in DOMAIN s : i # j =>
          /\ s[i].kind = "deleted" /\ s[j].kind = "deleted" => s[i].entry # s[j].entry
          /\ ~(s[i].kind = "bulk" /\ s[j].kind = "bulk")
          /\ ~(s[i].kind = "ids" /\ s[j].kind = "ids")

BulkDone(s) == \E i \in DOMAIN s : s[i].kind = "bulk" /\ s[i].ok

(* What Append, Tail and RemoveAt do to a sequence of whatever messages.    *)
LEMMA Appended ==
    ASSUME NEW s, Sequence(s), NEW x
    PROVE  /\ Sequence(Append(s, x)) /\ Len(s) \in Nat /\ DOMAIN s = 1..Len(s)
           /\ DOMAIN Append(s, x) = 1..Len(s) + 1 /\ Append(s, x)[Len(s) + 1] = x
           /\ \A i \in DOMAIN s : Append(s, x)[i] = s[i]
<1>0. PICK R : s \in Seq(R)
  BY DEF Sequence
<1> DEFINE S == R \cup {x}
           t == Append(s, x)
<1>1. s \in Seq(S) /\ x \in S
  BY <1>0, SeqMonotonic
<1> HIDE DEF S
<1>2. /\ Len(s) \in Nat /\ DOMAIN s = 1..Len(s)
      /\ t \in Seq(S) /\ Len(t) = Len(s) + 1 /\ DOMAIN t = 1..Len(s) + 1
      /\ t[Len(s) + 1] = x /\ \A i \in 1..Len(s) : t[i] = s[i]
  BY <1>1, LenProperties, AppendProperties
<1> HIDE DEF t
<1>3. Sequence(t)
  BY <1>2 DEF Sequence
<1> QED BY <1>2, <1>3 DEF t

(* The messages behind the first keep their order,                         *)
LEMMA Dropped ==
    ASSUME NEW s, Sequence(s), s # <<>>
    PROVE  /\ Sequence(Tail(s)) /\ Len(s) \in Nat \ {0} /\ DOMAIN s = 1..Len(s)
           /\ DOMAIN Tail(s) = 1..Len(s) - 1 /\ Head(s) = s[1]
           /\ \A i \in DOMAIN Tail(s) : i + 1 \in DOMAIN s /\ Tail(s)[i] = s[i + 1]
<1> DEFINE t == Tail(s)
<1>1. PICK S : s \in Seq(S)
  BY DEF Sequence
<1>2. /\ Len(s) \in Nat /\ DOMAIN s = 1..Len(s) /\ Len(s) # 0
      /\ t \in Seq(S) /\ Len(t) = Len(s) - 1 /\ \A i \in 1..Len(t) : t[i] = s[i + 1]
  BY <1>1, LenProperties, HeadTailProperties, EmptySeq
<1>3. DOMAIN t = 1..Len(t) /\ t \in [1..Len(t) -> S]
  BY <1>2, LenProperties
<1>4. Sequence(t)
  BY <1>2 DEF Sequence
<1>5. Head(s) = s[1]
  BY <1>1
<1> HIDE DEF t
<1>6. \A i \in DOMAIN t : i + 1 \in DOMAIN s
  BY <1>2, <1>3
<1> QED BY <1>2, <1>3, <1>4, <1>5, <1>6 DEF t

(* as do those around one that is taken out.                               *)
LEMMA Removed1 ==
    ASSUME NEW s, Sequence(s), NEW k \in DOMAIN s
    PROVE  /\ Sequence(RemoveAt(s, k)) /\ Len(s) \in Nat \ {0} /\ DOMAIN s = 1..Len(s)
           /\ DOMAIN RemoveAt(s, k) = 1..Len(s) - 1
           /\ \A i \in 1..Len(s) - 1 : RemoveAt(s, k)[i] = IF i < k THEN s[i] ELSE s[i + 1]
<1>0. PICK S : s \in Seq(S)
  BY DEF Sequence
<1> DEFINE a == SubSeq(s, 1, k - 1)
           b == SubSeq(s, k + 1, Len(s))
           t == a \o b
<1>1. /\ s \in Seq(S) /\ Len(s) \in Nat /\ DOMAIN s = 1..Len(s)
      /\ s \in [1..Len(s) -> S] /\ k \in 1..Len(s)
  BY <1>0, LenProperties
<1>2. /\ a \in Seq(S) /\ Len(a) = k - 1 /\ \A i \in 1..k - 1 : a[i] = s[i]
  <2>1. \A i \in 1..k - 1 : s[i] \in S
    BY <1>1
  <2>2. /\ a \in Seq(S) /\ Len(a) = (IF 1 <= k - 1 THEN k - 1 - 1 + 1 ELSE 0)
        /\ \A i \in 1..k - 1 - 1 + 1 : a[i] = s[1 + i - 1]
    BY <1>1, <2>1, SubSeqProperties
  <2> QED BY <1>1, <2>2
<1>3. /\ b \in Seq(S) /\ Len(b) = Len(s) - k /\ \A i \in 1..Len(s) - k : b[i] = s[k + i]
  <2>1. \A i \in k + 1..Len(s) : s[i] \in S
    BY <1>1
  <2>2. /\ b \in Seq(S) /\ Len(b) = (IF k + 1 <= Len(s) THEN Len(s) - (k + 1) + 1 ELSE 0)
        /\ \A i \in 1..Len(s) - (k + 1) + 1 : b[i] = s[k + 1 + i - 1]
    BY <1>1, <2>1, SubSeqProperties
  <2> QED BY <1>1, <2>2
<1> HIDE DEF a, b
<1>4. /\ t \in Seq(S) /\ Len(t) = Len(s) - 1
      /\ \A i \in 1..Len(s) - 1 : t[i] = IF i < k THEN s[i] ELSE s[i + 1]
  <2>1. /\ t \in Seq(S) /\ Len(t) = Len(a) + Len(b)
        /\ \A i \in 1..Len(a) + Len(b) : t[i] = IF i <= Len(a) THEN a[i] ELSE b[i - Len(a)]
    BY <1>2, <1>3, ConcatProperties
  <2>2. Len(a) + Len(b) = Len(s) - 1
    BY <1>1, <1>2, <1>3
  <2>3. ASSUME NEW i \in 1..Len(s) - 1 PROVE t[i] = IF i < k THEN s[i] ELSE s[i + 1]
    <3>1. CASE i < k
      BY <1>1, <1>2, <2>1, <2>2, <3>1
    <3>2. CASE i >= k
      <4>1. i - Len(a) \in 1..Len(s) - k /\ k + (i - Len(a)) = i + 1 /\ ~(i <= Len(a)) /\ ~(i < k)
        BY <1>1, <1>2, <3>2
      <4>2. t[i] = b[i - Len(a)]
        BY <2>1, <2>2, <4>1
      <4>3. b[i - Len(a)] = s[i + 1]
        BY <1>3, <4>1
      <4> HIDE DEF t
      <4> QED BY <4>1, <4>2, <4>3
    <3>3. i < k \/ i >= k
      BY <1>1
    <3> HIDE DEF t
    <3> QED BY <3>1, <3>2, <3>3
  <2> QED BY <2>1, <2>2, <2>3
<1>5. DOMAIN t = 1..Len(t) /\ t \in [1..Len(t) -> S]
  BY <1>4, LenProperties
<1>6. Sequence(t)
  BY <1>4 DEF Sequence
<1>7. RemoveAt(s, k) = t
  BY DEF RemoveAt, a, b
<1>8. Len(s) \in Nat \ {0}
  BY <1>1
<1> HIDE DEF t
<1> QED BY <1>1, <1>4, <1>5, <1>6, <1>7, <1>8

(* A step that adds or takes out only messages of other kinds.             *)
Kept(s, t) ==
    \A c, a, w, m, b : Mail(s, c, a, w, m, b) =>
        Mail(t, c, a, w, m, b) /\ (BulkDone(s) => BulkDone(t))

Selecting == {"deleted", "bulk", "ids"}

(* A page, a new entry or the insights come without consequence,           *)
LEMMA KeptByAppend ==
    ASSUME NEW s, NEW x, x.kind \notin Selecting
    PROVE  Kept(s, Append(s, x))
<1>0. SUFFICES ASSUME Sequence(s) PROVE Kept(s, Append(s, x))
  BY DEF Kept, Mail
<1> DEFINE t == Append(s, x)
<1>1. /\ Sequence(t) /\ Len(s) \in Nat /\ DOMAIN s = 1..Len(s)
      /\ DOMAIN t = 1..Len(s) + 1 /\ t[Len(s) + 1] = x
      /\ \A i \in DOMAIN s : t[i] = s[i]
  BY <1>0, Appended
<1> HIDE DEF t
<1>2. \A i \in DOMAIN t : t[i].kind \in Selecting => i \in DOMAIN s /\ t[i] = s[i]
  BY <1>1
<1>3. \A i \in DOMAIN s : i \in DOMAIN t /\ t[i] = s[i]
  BY <1>1
<1>4. ASSUME NEW i \in DOMAIN s, NEW e, DeletedAfter(s, i, e) PROVE DeletedAfter(t, i, e)
  BY <1>3, <1>4 DEF DeletedAfter
<1>5. ASSUME NEW c, NEW a, NEW w, NEW m, NEW b, Mail(s, c, a, w, m, b)
      PROVE  Mail(t, c, a, w, m, b)
  <2>1. ASSUME NEW i \in DOMAIN t
        PROVE  /\ t[i].kind = "deleted" => t[i].entry \in c
               /\ t[i].kind = "bulk" => b
               /\ t[i].kind = "ids" =>
                     /\ a /\ t[i].ids \subseteq Entries
                     /\ w => \A e \in t[i].ids : e \in m \/ DeletedAfter(t, i, e)
    BY <1>2, <1>4, <1>5, <2>1 DEF Mail, Selecting
  <2>2. ASSUME NEW i \in DOMAIN t, NEW j \in DOMAIN t, i # j
        PROVE  /\ t[i].kind = "deleted" /\ t[j].kind = "deleted" => t[i].entry # t[j].entry
               /\ ~(t[i].kind = "bulk" /\ t[j].kind = "bulk")
               /\ ~(t[i].kind = "ids" /\ t[j].kind = "ids")
    BY <1>2, <1>5, <2>2 DEF Mail, Selecting
  <2> QED
    BY <1>1, <2>1, <2>2 DEF Mail
<1>6. BulkDone(s) => BulkDone(t)
  BY <1>3 DEF BulkDone
<1> QED
  BY <1>5, <1>6 DEF Kept, t

(* The first message leaves: what it stood for is no longer under way.     *)
LEMMA MailTail ==
    ASSUME NEW s, s # <<>>, NEW c, NEW a, NEW w, NEW m, NEW b, Mail(s, c, a, w, m, b)
    PROVE  LET h == Head(s) IN
           /\ Mail(Tail(s), IF h.kind = "deleted" THEN c \ {h.entry} ELSE c,
                   a /\ h.kind # "ids", w, m, b /\ h.kind # "bulk")
           /\ BulkDone(s) => BulkDone(Tail(s)) \/ (h.kind = "bulk" /\ h.ok)
<1> DEFINE t == Tail(s)
           h == Head(s)
<1>0. Sequence(s)
  BY DEF Mail
<1>1. /\ Sequence(t) /\ Len(s) \in Nat \ {0} /\ DOMAIN s = 1..Len(s)
      /\ DOMAIN t = 1..Len(s) - 1 /\ h = s[1]
      /\ \A i \in DOMAIN t : i + 1 \in DOMAIN s /\ t[i] = s[i + 1]
  BY <1>0, Dropped
<1> HIDE DEF t, h
<1>2. \A i \in DOMAIN t : i \in Nat /\ i + 1 \in DOMAIN s /\ t[i] = s[i + 1] /\ i + 1 # 1
  BY <1>1
<1>3. \A j \in DOMAIN s : j # 1 => j - 1 \in DOMAIN t /\ t[j - 1] = s[j] /\ j \in Int
  BY <1>1
<1>4. 1 \in DOMAIN s
  BY <1>1
<1>5. ASSUME NEW i \in DOMAIN t, NEW e, DeletedAfter(s, i + 1, e) PROVE DeletedAfter(t, i, e)
  <2>1. PICK j \in DOMAIN s : j > i + 1 /\ s[j].kind = "deleted" /\ s[j].entry = e
    BY <1>5 DEF DeletedAfter
  <2>2. j # 1 /\ j - 1 > i
    BY <1>2, <1>3, <2>1
  <2> QED
    BY <1>3, <2>1, <2>2 DEF DeletedAfter
<1>6. ASSUME NEW i \in DOMAIN t
      PROVE  /\ t[i].kind = "deleted" => t[i].entry \in c /\ (h.kind = "deleted" => t[i].entry # h.entry)
             /\ t[i].kind = "bulk" => b /\ h.kind # "bulk"
             /\ t[i].kind = "ids" =>
                   /\ a /\ h.kind # "ids" /\ t[i].ids \subseteq Entries
                   /\ w => \A e \in t[i].ids : e \in m \/ DeletedAfter(t, i, e)
  <2>1. i + 1 \in DOMAIN s /\ t[i] = s[i + 1] /\ i + 1 # 1
    BY <1>2, <1>6
  <2> DEFINE k == i + 1
  <2> HIDE DEF k
  <2>2. k \in DOMAIN s /\ t[i] = s[k] /\ k # 1
    BY <2>1 DEF k
  <2>3. \A e : DeletedAfter(s, k, e) => DeletedAfter(t, i, e)
    BY <1>5, <1>6 DEF k
  <2> QED
    BY <1>1, <1>4, <2>2, <2>3 DEF Mail
<1>7. ASSUME NEW i \in DOMAIN t, NEW j \in DOMAIN t, i # j
      PROVE  /\ t[i].kind = "deleted" /\ t[j].kind = "deleted" => t[i].entry # t[j].entry
             /\ ~(t[i].kind = "bulk" /\ t[j].kind = "bulk")
             /\ ~(t[i].kind = "ids" /\ t[j].kind = "ids")
  <2>1. i + 1 # j + 1
    BY <1>2, <1>7
  <2> QED
    BY <1>2, <1>7, <2>1 DEF Mail
<1>8. Mail(t, IF h.kind = "deleted" THEN c \ {h.entry} ELSE c,
           a /\ h.kind # "ids", w, m, b /\ h.kind # "bulk")
  BY <1>1, <1>6, <1>7 DEF Mail
<1>9. BulkDone(s) => BulkDone(t) \/ (h.kind = "bulk" /\ h.ok)
  BY <1>1, <1>3 DEF BulkDone
<1> QED
  BY <1>8, <1>9 DEF t, h

(* leave without consequence,                                              *)
LEMMA KeptByTail ==
    ASSUME NEW s, s # <<>>, Head(s).kind \notin Selecting
    PROVE  Kept(s, Tail(s))
<1> DEFINE t == Tail(s)
           h == Head(s)
<1>1. h.kind # "deleted" /\ h.kind # "ids" /\ h.kind # "bulk"
  BY DEF Selecting
<1>2. ASSUME NEW c, NEW a, NEW w, NEW m, NEW b, Mail(s, c, a, w, m, b)
      PROVE  Mail(t, c, a, w, m, b) /\ (BulkDone(s) => BulkDone(t))
  <2>1. /\ Mail(t, IF h.kind = "deleted" THEN c \ {h.entry} ELSE c,
                a /\ h.kind # "ids", w, m, b /\ h.kind # "bulk")
        /\ BulkDone(s) => BulkDone(t) \/ (h.kind = "bulk" /\ h.ok)
    BY <1>2, MailTail
  <2> HIDE DEF t, h
  <2> QED
    BY <1>1, <2>1 DEF Mail
<1> QED
  BY <1>2 DEF Kept

(* and are passed over without consequence,                                *)
LEMMA KeptByRemoval ==
    ASSUME NEW s, NEW k \in DOMAIN s, s[k].kind \notin Selecting
    PROVE  Kept(s, RemoveAt(s, k))
<1>0. SUFFICES ASSUME Sequence(s) PROVE Kept(s, RemoveAt(s, k))
  BY DEF Kept, Mail
<1> DEFINE t == RemoveAt(s, k)
           at(i) == IF i < k THEN i ELSE i + 1
           from(j) == IF j < k THEN j ELSE j - 1
<1>1. /\ Sequence(t) /\ Len(s) \in Nat \ {0} /\ DOMAIN s = 1..Len(s)
      /\ DOMAIN t = 1..Len(s) - 1
      /\ \A i \in 1..Len(s) - 1 : t[i] = IF i < k THEN s[i] ELSE s[i + 1]
  BY <1>0, Removed1
<1> HIDE DEF t
<1>2. \A i \in DOMAIN t : i \in Nat /\ at(i) \in DOMAIN s /\ t[i] = s[at(i)]
  BY <1>1
<1>3. \A j \in DOMAIN s : j # k => from(j) \in DOMAIN t /\ t[from(j)] = s[j]
  BY <1>1
<1>4. \A i, j \in DOMAIN t : i # j => at(i) # at(j)
  BY <1>1
<1>5. \A i \in DOMAIN t, j \in DOMAIN s : j # k /\ j > at(i) => from(j) > i
  BY <1>1
<1> HIDE DEF at, from
<1>6. ASSUME NEW i \in DOMAIN t, NEW e, DeletedAfter(s, at(i), e) PROVE DeletedAfter(t, i, e)
  BY <1>3, <1>5, <1>6 DEF DeletedAfter, Selecting
<1>7. ASSUME NEW c, NEW a, NEW w, NEW m, NEW b, Mail(s, c, a, w, m, b)
      PROVE  Mail(t, c, a, w, m, b)
  <2>1. ASSUME NEW i \in DOMAIN t
        PROVE  /\ t[i].kind = "deleted" => t[i].entry \in c
               /\ t[i].kind = "bulk" => b
               /\ t[i].kind = "ids" =>
                     /\ a /\ t[i].ids \subseteq Entries
                     /\ w => \A e \in t[i].ids : e \in m \/ DeletedAfter(t, i, e)
    BY <1>2, <1>6, <1>7, <2>1 DEF Mail
  <2>2. ASSUME NEW i \in DOMAIN t, NEW j \in DOMAIN t, i # j
        PROVE  /\ t[i].kind = "deleted" /\ t[j].kind = "deleted" => t[i].entry # t[j].entry
               /\ ~(t[i].kind = "bulk" /\ t[j].kind = "bulk")
               /\ ~(t[i].kind = "ids" /\ t[j].kind = "ids")
    BY <1>2, <1>4, <1>7, <2>2 DEF Mail
  <2> QED
    BY <1>1, <2>1, <2>2 DEF Mail
<1>8. BulkDone(s) => BulkDone(t)
  BY <1>3 DEF BulkDone, Selecting
<1> QED
  BY <1>7, <1>8 DEF Kept, t

(* as the older reply of the insights is.                                  *)
LEMMA KeptByUnanswered == ASSUME NEW s PROVE Kept(s, Unanswered(s))
<1> DEFINE older == {i \in DOMAIN s : s[i].kind = "insights"}
<1>1. CASE older = {}
  BY <1>1 DEF Unanswered, Kept
<1>2. CASE older # {}
  <2> DEFINE k == CHOOSE i \in older : TRUE
  <2>1. k \in older
    BY <1>2
  <2>2. k \in DOMAIN s /\ s[k].kind \notin Selecting
    BY <2>1 DEF Selecting
  <2>3. Unanswered(s) = RemoveAt(s, k)
    BY <1>2 DEF Unanswered
  <2> HIDE DEF k
  <2> QED
    BY <2>2, <2>3, KeptByRemoval
<1> QED
  BY <1>1, <1>2

(* Nothing sent or taken is such a step.                                   *)
LEMMA KeptSelf == ASSUME NEW s PROVE Kept(s, s)
BY DEF Kept

(* One such step after the other is one again.                             *)
LEMMA KeptTwice ==
    ASSUME NEW s, NEW t, NEW u, Kept(s, t), Kept(t, u)
    PROVE  Kept(s, u)
BY DEF Kept

(* The same messages, when there is more that they may be about.           *)
LEMMA MailWeakened ==
    ASSUME NEW s, NEW c, NEW a, NEW w, NEW m, NEW b, Mail(s, c, a, w, m, b),
           NEW c2, NEW a2, NEW w2, NEW m2, NEW b2,
           c \subseteq c2, a => a2, w2 => w /\ m \subseteq m2, b => b2
    PROVE  Mail(s, c2, a2, w2, m2, b2)
BY DEF Mail

(* A delete is sent.                                                       *)
LEMMA MailDeletes ==
    ASSUME NEW s, NEW c, NEW a, NEW w, NEW m, NEW b, Mail(s, c, a, w, m, b),
           NEW x, x.kind = "deleted", x.entry \notin c
    PROVE  /\ Mail(Append(s, x), c \cup {x.entry}, a, w, m \ {x.entry}, b)
           /\ BulkDone(s) => BulkDone(Append(s, x))
<1> DEFINE t == Append(s, x)
           n == Len(s) + 1
<1>0. Sequence(s)
  BY DEF Mail
<1>1. /\ Sequence(t) /\ Len(s) \in Nat /\ DOMAIN s = 1..Len(s)
      /\ DOMAIN t = 1..n /\ t[n] = x /\ \A i \in DOMAIN s : t[i] = s[i]
  BY <1>0, Appended
<1> HIDE DEF t
<1>2. \A i \in DOMAIN t : (i \in DOMAIN s /\ t[i] = s[i] /\ n > i) \/ (i = n /\ t[i] = x)
  BY <1>1
<1>3. n \in DOMAIN t /\ t[n] = x /\ \A i \in DOMAIN s : i \in DOMAIN t /\ t[i] = s[i]
  BY <1>1
<1> HIDE DEF n
<1>4. ASSUME NEW i \in DOMAIN s, NEW e, DeletedAfter(s, i, e) PROVE DeletedAfter(t, i, e)
  BY <1>3, <1>4 DEF DeletedAfter
<1>5. ASSUME NEW i \in DOMAIN s PROVE DeletedAfter(t, i, x.entry)
  BY <1>2, <1>3, <1>5, <1>1 DEF DeletedAfter, n
<1>6. ASSUME NEW i \in DOMAIN t
      PROVE  /\ t[i].kind = "deleted" => t[i].entry \in c \cup {x.entry}
             /\ t[i].kind = "bulk" => b
             /\ t[i].kind = "ids" =>
                   /\ a /\ t[i].ids \subseteq Entries
                   /\ w => \A e \in t[i].ids : e \in m \ {x.entry} \/ DeletedAfter(t, i, e)
  <2>1. CASE i \in DOMAIN s /\ t[i] = s[i]
    BY <1>4, <1>5, <2>1 DEF Mail
  <2>2. CASE t[i] = x
    BY <2>2
  <2> QED
    BY <1>2, <1>6, <2>1, <2>2
<1>7. ASSUME NEW i \in DOMAIN t, NEW j \in DOMAIN t, i # j
      PROVE  /\ t[i].kind = "deleted" /\ t[j].kind = "deleted" => t[i].entry # t[j].entry
             /\ ~(t[i].kind = "bulk" /\ t[j].kind = "bulk")
             /\ ~(t[i].kind = "ids" /\ t[j].kind = "ids")
  BY <1>2, <1>7 DEF Mail
<1>8. BulkDone(s) => BulkDone(t)
  BY <1>3 DEF BulkDone
<1> QED
  BY <1>1, <1>6, <1>7, <1>8 DEF Mail, t

(* A bulk delete is sent, when there is none and no select-all.            *)
LEMMA MailBulk ==
    ASSUME NEW s, NEW c, NEW w, NEW m, Mail(s, c, FALSE, w, m, FALSE),
           NEW x, x.kind = "bulk", NEW a2, NEW w2, NEW m2, NEW b2, b2
    PROVE  /\ Mail(Append(s, x), c, a2, w2, m2, b2)
           /\ x.ok => BulkDone(Append(s, x))
<1> DEFINE t == Append(s, x)
           n == Len(s) + 1
<1>0. Sequence(s)
  BY DEF Mail
<1>1. /\ Sequence(t) /\ Len(s) \in Nat /\ DOMAIN s = 1..Len(s)
      /\ DOMAIN t = 1..n /\ t[n] = x /\ \A i \in DOMAIN s : t[i] = s[i]
  BY <1>0, Appended
<1> HIDE DEF t
<1>2. \A i \in DOMAIN t : (i \in DOMAIN s /\ t[i] = s[i]) \/ (i = n /\ t[i] = x)
  BY <1>1
<1>3. n \in DOMAIN t
  BY <1>1
<1> HIDE DEF n
<1>4. ASSUME NEW i \in DOMAIN t
      PROVE  (t[i].kind = "deleted" => t[i].entry \in c) /\ t[i].kind # "ids"
  BY <1>2, <1>4 DEF Mail
<1>5. ASSUME NEW i \in DOMAIN t, NEW j \in DOMAIN t, i # j
      PROVE  /\ t[i].kind = "deleted" /\ t[j].kind = "deleted" => t[i].entry # t[j].entry
             /\ ~(t[i].kind = "bulk" /\ t[j].kind = "bulk")
  BY <1>2, <1>5 DEF Mail
<1>6. x.ok => BulkDone(t)
  BY <1>1, <1>3 DEF BulkDone
<1> QED
  BY <1>1, <1>4, <1>5, <1>6 DEF Mail, t

(* A select-all is sent, when there is none.                               *)
LEMMA MailAsks ==
    ASSUME NEW s, NEW c, NEW w, NEW m, NEW b, Mail(s, c, FALSE, w, m, b),
           NEW x, x.kind = "ids", x.ids \subseteq Entries
    PROVE  /\ Mail(Append(s, x), c, TRUE, TRUE, x.ids, b)
           /\ BulkDone(s) => BulkDone(Append(s, x))
<1> DEFINE t == Append(s, x)
           n == Len(s) + 1
<1>0. Sequence(s)
  BY DEF Mail
<1>1. /\ Sequence(t) /\ Len(s) \in Nat /\ DOMAIN s = 1..Len(s)
      /\ DOMAIN t = 1..n /\ t[n] = x /\ \A i \in DOMAIN s : i \in DOMAIN t /\ t[i] = s[i]
  BY <1>0, Appended
<1> HIDE DEF t
<1>2. \A i \in DOMAIN t : (i \in DOMAIN s /\ t[i] = s[i]) \/ (i = n /\ t[i] = x)
  BY <1>1
<1> HIDE DEF n
<1>3. ASSUME NEW i \in DOMAIN t
      PROVE  /\ t[i].kind = "deleted" => t[i].entry \in c
             /\ t[i].kind = "bulk" => b
             /\ t[i].kind = "ids" => t[i].ids \subseteq Entries /\ t[i].ids \subseteq x.ids
  BY <1>2, <1>3 DEF Mail
<1>4. ASSUME NEW i \in DOMAIN t, NEW j \in DOMAIN t, i # j
      PROVE  /\ t[i].kind = "deleted" /\ t[j].kind = "deleted" => t[i].entry # t[j].entry
             /\ ~(t[i].kind = "bulk" /\ t[j].kind = "bulk")
             /\ ~(t[i].kind = "ids" /\ t[j].kind = "ids")
  BY <1>2, <1>4 DEF Mail
<1>5. BulkDone(s) => BulkDone(t)
  BY <1>1 DEF BulkDone
<1> QED
  BY <1>1, <1>3, <1>4, <1>5 DEF Mail, t

(* The reply to one is taken: what it names and is not under deletion      *)
(* matches the filter, and there is no other.                              *)
LEMMA IdsTaken ==
    ASSUME NEW s, s # <<>>, Head(s).kind = "ids",
           NEW c, NEW a, NEW w, NEW m, NEW b, Mail(s, c, a, w, m, b),
           NEW a2, NEW w2, NEW m2
    PROVE  /\ a /\ Head(s).ids \subseteq Entries
           /\ w => Head(s).ids \subseteq m \cup c
           /\ Mail(Tail(s), c, a2, w2, m2, b)
           /\ BulkDone(s) => BulkDone(Tail(s))
<1> DEFINE t == Tail(s)
           h == Head(s)
<1>1. /\ Len(s) \in Nat \ {0} /\ DOMAIN s = 1..Len(s) /\ h = s[1]
  BY Dropped DEF Mail
<1>2. 1 \in DOMAIN s
  BY <1>1
<1>3. /\ Mail(t, IF h.kind = "deleted" THEN c \ {h.entry} ELSE c,
              a /\ h.kind # "ids", w, m, b /\ h.kind # "bulk")
      /\ BulkDone(s) => BulkDone(t) \/ (h.kind = "bulk" /\ h.ok)
  BY MailTail
<1> HIDE DEF t, h
<1>4. h.kind = "ids"
  BY DEF h
<1>5. Mail(t, c, a2, w2, m2, b) /\ (BulkDone(s) => BulkDone(t))
  BY <1>3, <1>4 DEF Mail
<1>6. a /\ h.ids \subseteq Entries /\ (w => h.ids \subseteq m \cup c)
  BY <1>1, <1>2, <1>4 DEF Mail, DeletedAfter
<1> QED
  BY <1>5, <1>6 DEF t, h

(* The reply to a bulk delete is taken: there is no other.                 *)
LEMMA BulkTaken ==
    ASSUME NEW s, s # <<>>, Head(s).kind = "bulk",
           NEW c, NEW a, NEW w, NEW m, NEW b, Mail(s, c, a, w, m, b), NEW b2
    PROVE  /\ Mail(Tail(s), c, a, w, m, b2)
           /\ BulkDone(s) => Head(s).ok
<1> DEFINE t == Tail(s)
           h == Head(s)
<1>1. /\ Len(s) \in Nat \ {0} /\ DOMAIN s = 1..Len(s) /\ h = s[1]
  BY Dropped DEF Mail
<1>2. 1 \in DOMAIN s
  BY <1>1
<1>3. Mail(t, IF h.kind = "deleted" THEN c \ {h.entry} ELSE c,
           a /\ h.kind # "ids", w, m, b /\ h.kind # "bulk")
  BY MailTail
<1> HIDE DEF t, h
<1>4. h.kind = "bulk"
  BY DEF h
<1>5. Mail(t, c, a, w, m, b2)
  BY <1>3, <1>4 DEF Mail
<1>6. BulkDone(s) => h.ok
  BY <1>1, <1>2, <1>4 DEF Mail, BulkDone
<1> QED
  BY <1>5, <1>6 DEF t, h

(* The reply to a delete is taken: that delete is no longer under way.     *)
LEMMA DeleteTaken ==
    ASSUME NEW s, s # <<>>, Head(s).kind = "deleted",
           NEW c, NEW a, NEW w, NEW m, NEW b, Mail(s, c, a, w, m, b)
    PROVE  /\ Head(s).entry \in c
           /\ Mail(Tail(s), c \ {Head(s).entry}, a, w, m, b)
           /\ BulkDone(s) => BulkDone(Tail(s))
<1> DEFINE t == Tail(s)
           h == Head(s)
<1>1. /\ Len(s) \in Nat \ {0} /\ DOMAIN s = 1..Len(s) /\ h = s[1]
  BY Dropped DEF Mail
<1>2. 1 \in DOMAIN s
  BY <1>1
<1>3. /\ Mail(t, IF h.kind = "deleted" THEN c \ {h.entry} ELSE c,
              a /\ h.kind # "ids", w, m, b /\ h.kind # "bulk")
      /\ BulkDone(s) => BulkDone(t) \/ (h.kind = "bulk" /\ h.ok)
  BY MailTail
<1> HIDE DEF t, h
<1>4. h.kind = "deleted"
  BY DEF h
<1>5. Mail(t, c \ {h.entry}, a, w, m, b) /\ (BulkDone(s) => BulkDone(t))
  BY <1>3, <1>4 DEF Mail
<1>6. h.entry \in c
  BY <1>1, <1>2, <1>4 DEF Mail
<1> QED
  BY <1>5, <1>6 DEF t, h

-----------------------------------------------------------------------------
(* The inductive invariant of bulk deletes: the mail is as it should be,   *)
(* and of each selected entry no delete is pending, and it still matches   *)
(* the filter or a bulk delete that has just been done took it.            *)

Selections == [mode : BOOLEAN, ids : SUBSET Entries, asking : BOOLEAN, stale : BOOLEAN]
Delays == [Entries -> {"no", "waiting", "committing"}]
Committing == {e \in Entries : pending[e] = "committing"}
Wanted == sel.asking /\ ~sel.stale

Chosen ==
    /\ sel \in Selections /\ pending \in Delays
    /\ sel.asking => bulk = None
    /\ Wanted => sel.mode
    /\ Mail(inbox, Committing, sel.asking, Wanted, Matching(filter), bulk # None)
    /\ \A e \in sel.ids :
          /\ pending[e] = "no" /\ sel.mode
          /\ e \in Matching(filter) \/ BulkDone(inbox)

(* What a step does to the selection: it empties it, and a select-all that *)
(* is under way with it, or at most takes entries out.                     *)
Emptied ==
    /\ sel' \in Selections /\ sel'.asking = sel.asking
    /\ sel'.ids = {} /\ (sel'.asking => sel'.stale)
Narrowed ==
    /\ sel' \in Selections /\ sel'.asking = sel.asking
    /\ sel'.ids \subseteq sel.ids /\ sel'.mode = sel.mode /\ sel'.stale = sel.stale

(* It holds at the start: nothing is selected, and no message under way.   *)
LEMMA ChosenInit == Init => Chosen
<1> SUFFICES ASSUME Init PROVE Chosen
  OBVIOUS
<1>1. inbox = <<>> /\ sel = [mode |-> FALSE, ids |-> {}, asking |-> FALSE, stale |-> FALSE]
      /\ pending = [e \in Entries |-> "no"]
  BY DEF Init
<1>2. sel \in Selections /\ pending \in Delays /\ ~sel.asking /\ sel.ids = {}
  BY <1>1 DEF Selections, Delays
<1>3. Sequence(inbox) /\ DOMAIN inbox = {}
  <2>1. <<>> \in Seq({})
    BY EmptySeq
  <2> QED
    BY <1>1, <2>1 DEF Sequence
<1> QED
  BY <1>2, <1>3 DEF Chosen, Mail, Wanted

(* A step after which `s` is what matters of the mail.                     *)
LEMMA Settled ==
    ASSUME Chosen, NEW s, Kept(s, inbox'),
           Mail(s, Committing', sel.asking, Wanted, Matching(filter), bulk' # None),
           pending' \in Delays, sel.asking => bulk' = None,
           \/ Emptied
           \/ /\ Narrowed /\ Matching(filter) \subseteq Matching(filter)'
              /\ \A e \in sel'.ids :
                    pending'[e] = "no" /\ (e \in Matching(filter) \/ BulkDone(s))
    PROVE  Chosen'
<1>1. sel' \in Selections /\ sel'.asking = sel.asking
  BY DEF Emptied, Narrowed
<1>2. /\ Mail(inbox', Committing', sel.asking, Wanted, Matching(filter), bulk' # None)
      /\ BulkDone(s) => BulkDone(inbox')
  BY DEF Kept
<1>3. Wanted' => Wanted /\ sel'.mode /\ Matching(filter) \subseteq Matching(filter)'
  BY <1>1 DEF Wanted, Emptied, Narrowed, Chosen
<1>4. Mail(inbox', Committing', sel'.asking, Wanted', Matching(filter)', bulk' # None)
  BY <1>1, <1>2, <1>3, MailWeakened
<1>5. \A e \in sel'.ids :
         /\ pending'[e] = "no" /\ sel'.mode
         /\ e \in Matching(filter)' \/ BulkDone(inbox')
  BY <1>2 DEF Emptied, Narrowed, Chosen
<1> QED
  BY <1>1, <1>3, <1>4, <1>5 DEF Chosen

(* A step that sends and takes none of the messages that matter.           *)
LEMMA Calm ==
    ASSUME Chosen, Kept(inbox, inbox'), UNCHANGED <<pending, bulk>>,
           Emptied \/ (Narrowed /\ Matching(filter) \subseteq Matching(filter)')
    PROVE  Chosen'
<1>1. Committing' = Committing
  BY DEF Committing
<1>2. Mail(inbox, Committing', sel.asking, Wanted, Matching(filter), bulk' # None)
  BY <1>1 DEF Chosen
<1>3. pending' \in Delays /\ (sel.asking => bulk' = None)
  BY DEF Chosen
<1>4. Narrowed => \A e \in sel'.ids :
          pending'[e] = "no" /\ (e \in Matching(filter) \/ BulkDone(inbox))
  BY DEF Narrowed, Chosen
<1> QED
  BY <1>2, <1>3, <1>4, Settled

(* What the pages do to the selection when they reset the list.            *)
LEMMA Resets ==
    ASSUME sel \in Selections
    PROVE  /\ sel' = sel => Narrowed
           /\ sel' = Cleared(sel) => Emptied
           /\ sel' = Left(sel) => Emptied
           /\ sel' = LeftByReset(sel) => Narrowed \/ Emptied
           /\ sel' = LeftByReset(Cleared(sel)) => Emptied
<1>1. sel' = sel => Narrowed
  BY DEF Narrowed
<1>2. Cleared(sel) \in Selections /\ Cleared(sel).asking = sel.asking
      /\ Cleared(sel).ids = {} /\ (sel.asking => Cleared(sel).stale)
  BY DEF Cleared, Selections
<1>3. ASSUME NEW s \in Selections
      PROVE  /\ Left(s) \in Selections /\ Left(s).asking = s.asking
             /\ Left(s).ids = {} /\ (s.asking => Left(s).stale)
  BY DEF Cleared, Left, Selections
<1> QED
  BY <1>1, <1>2, <1>3 DEF LeftByReset, Emptied

(* A page is none of the messages that matter.                             *)
LEMMA PageKind == ASSUME NEW f, NEW n PROVE Page(f, n).kind \notin Selecting
BY DEF Page, Selecting

(* Reloading the list sends a page or waits for the one under way.         *)
LEMMA Reloads ==
    ASSUME NEW l, NEW msgs, Load(l, msgs) \/ Reload(l, msgs)
    PROVE  Kept(msgs, inbox')
<1>1. ASSUME NEW k, Load(k, msgs) PROVE Kept(msgs, inbox')
  BY <1>1, PageKind, KeptByAppend DEF Load
<1>2. CASE inbox' = msgs
  BY <1>2 DEF Kept
<1> QED
  BY <1>1, <1>2 DEF Reload

(* Reading the insights replaces the reply under way, if there is one.     *)
LEMMA Reads ==
    ASSUME NEW msgs
    PROVE  Kept(msgs, Append(Unanswered(msgs), Reply))
<1>1. Reply.kind \notin Selecting
  BY DEF Reply, Selecting
<1> QED
  BY <1>1, KeptByUnanswered, KeptByAppend, KeptTwice

(* What is saved or indexed leaves everything the filter matches there.    *)
LEMMA Grows ==
    ASSUME filter' = filter, store \subseteq store'
    PROVE  Matching(filter) \subseteq Matching(filter)'
BY DEF Matching

(* Every step of the pages, the database and the user keeps the invariant. *)
LEMMA ChosenNext == Chosen /\ Inv /\ [Next]_vars => Chosen'
<1> SUFFICES ASSUME Chosen, Inv, [Next]_vars PROVE Chosen'
  OBVIOUS
<1>0. sel \in Selections /\ pending \in Delays /\ Kept(inbox, inbox) /\ store \in SUBSET Entries
  BY DEF Chosen, Kept, Inv, LedgerTypeOK
<1>1. CASE UNCHANGED vars
  BY <1>0, <1>1, Calm, Resets, Grows DEF vars, views, ledger
<1>2. CASE Start \/ Background
  <2>1. UNCHANGED <<filter, sel, pending, bulk, inbox>> /\ store \subseteq store'
    BY <1>2 DEF Start, Background, views, Initialize, CatchUp
  <2> QED
    BY <1>0, <2>1, Calm, Resets, Grows
<1>3. CASE Become
  <2>1. /\ UNCHANGED <<filter, pending, bulk>> /\ store' = store /\ sel' = LeftByReset(sel)
        /\ Reload(list, Append(Unanswered(inbox), Reply))
    BY <1>3 DEF Become, ReadInsights, Query
  <2>2. Kept(inbox, inbox')
    BY <2>1, Reads, Reloads, KeptTwice
  <2> QED
    BY <1>0, <2>1, <2>2, Calm, Resets, Grows
<1>4. CASE RefreshInsights
  <2>1. /\ UNCHANGED <<filter, pending, bulk, sel>> /\ store' = store
        /\ inbox' = Append(Unanswered(inbox), Reply)
    BY <1>4 DEF RefreshInsights, ReadInsights, Query
  <2> QED
    BY <1>0, <2>1, Reads, Calm, Resets, Grows
<1>5. ASSUME NEW e \in Entries, Dictate(e) PROVE Chosen'
  <2>1. /\ UNCHANGED <<filter, pending, bulk, sel>> /\ store \subseteq store'
        /\ inbox' = Append(inbox, [kind |-> "new", entry |-> e])
    BY <1>5 DEF Dictate, Save
  <2>2. Kept(inbox, inbox')
    BY <2>1, KeptByAppend DEF Selecting
  <2> QED
    BY <1>0, <2>1, <2>2, Calm, Resets, Grows
<1>6. CASE Scroll
  <2>1. UNCHANGED <<filter, pending, bulk, sel, store>> /\ Load(list, inbox)
    BY <1>6 DEF Scroll, ledger
  <2> QED
    BY <1>0, <2>1, Reloads, Calm, Resets, Grows
<1>7. CASE SearchNow
  <2>1. /\ UNCHANGED <<filter, pending, bulk, store>> /\ Reload(list, inbox)
        /\ sel' = LeftByReset(sel)
    BY <1>7 DEF SearchNow, ledger
  <2> QED
    BY <1>0, <2>1, Reloads, Calm, Resets, Grows
<1>8. ASSUME NEW f, ChangeFilter(f) \/ Search(f) PROVE Chosen'
  <2>1. /\ UNCHANGED <<pending, bulk>> /\ (inbox' = inbox \/ Reload(list, inbox))
        /\ sel' = Cleared(sel) \/ sel' = LeftByReset(Cleared(sel))
    BY <1>8 DEF ChangeFilter, Search
  <2> QED
    BY <1>0, <2>1, Reloads, Calm, Resets
<1>9. CASE ToggleMode
  <2>1. /\ UNCHANGED <<pending, bulk, inbox>>
        /\ sel' = [Cleared(sel) EXCEPT !.mode = ~@]
    BY <1>9 DEF ToggleMode, Select
  <2>2. Emptied
    BY <1>0, <2>1 DEF Emptied, Selections, Cleared
  <2> QED
    BY <1>0, <2>1, <2>2, Calm
<1>10. ASSUME NEW e \in Entries, Defer(e) \/ Undo(e) PROVE Chosen'
  <2>1. /\ UNCHANGED <<filter, sel, bulk, inbox, store>>
        /\ \/ pending[e] = "no" /\ ~sel.mode /\ pending' = [pending EXCEPT ![e] = "waiting"]
           \/ pending[e] = "waiting" /\ pending' = [pending EXCEPT ![e] = "no"]
    BY <1>10 DEF Defer, Undo, Visible, ledger
  <2>2. pending' \in Delays /\ Committing' = Committing
    BY <1>0, <2>1 DEF Delays, Committing
  <2>3. \A d \in sel.ids : pending'[d] = "no"
    BY <1>0, <2>1 DEF Chosen, Delays, Selections
  <2>4. Narrowed /\ Matching(filter) \subseteq Matching(filter)'
    BY <1>0, <2>1, Resets, Grows
  <2> QED
    BY <1>0, <2>1, <2>2, <2>3, <2>4, Settled DEF Chosen
<1>11. ASSUME NEW e \in Entries, Commit(e) PROVE Chosen'
  <2> DEFINE m(ok) == [kind |-> "deleted", entry |-> e, ok |-> ok]
  <2>1. /\ UNCHANGED <<filter, sel, bulk>> /\ store \ {e} \subseteq store'
        /\ pending[e] = "waiting" /\ pending' = [pending EXCEPT ![e] = "committing"]
    BY <1>11 DEF Commit, DeleteMany, ledger
  <2>2. PICK ok \in BOOLEAN : inbox' = Append(inbox, m(ok))
    BY <1>11 DEF Commit
  <2>3. pending' \in Delays /\ Committing' = Committing \cup {e} /\ e \notin Committing
    BY <1>0, <2>1 DEF Delays, Committing
  <2>4. /\ Mail(inbox', Committing', sel.asking, Wanted, Matching(filter) \ {e}, bulk # None)
        /\ BulkDone(inbox) => BulkDone(inbox')
    <3>1. m(ok).kind = "deleted" /\ m(ok).entry = e
      OBVIOUS
    <3> HIDE DEF m
    <3> QED
      BY <2>2, <2>3, <3>1, MailDeletes DEF Chosen
  <2>5. Matching(filter) \ {e} \subseteq Matching(filter)'
    BY <2>1 DEF Matching
  <2>6. Mail(inbox', Committing', sel'.asking, Wanted', Matching(filter)', bulk' # None)
    BY <2>1, <2>4, <2>5, MailWeakened DEF Wanted
  <2>7. \A d \in sel.ids : d # e /\ pending'[d] = "no"
    BY <1>0, <2>1 DEF Chosen, Delays, Selections
  <2> QED
    BY <2>1, <2>3, <2>4, <2>5, <2>6, <2>7 DEF Chosen, Wanted
<1>12. CASE SelectAll
  <2> DEFINE m == [kind |-> "ids", ids |-> Matching(filter)]
  <2>1. /\ UNCHANGED <<filter, pending, bulk, store>> /\ ~sel.asking /\ bulk = None /\ sel.mode
        /\ sel' = [sel EXCEPT !.asking = TRUE, !.stale = FALSE] /\ inbox' = Append(inbox, m)
    BY <1>12 DEF SelectAll, Select, ledger
  <2>2. m.kind = "ids" /\ m.ids = Matching(filter) /\ m.ids \subseteq Entries
    BY <1>0 DEF Matching
  <2> HIDE DEF m
  <2>3. Mail(inbox, Committing, FALSE, Wanted, Matching(filter), bulk # None)
    BY <2>1 DEF Chosen, Mail
  <2>4. /\ Mail(inbox', Committing, TRUE, TRUE, Matching(filter), bulk # None)
        /\ BulkDone(inbox) => BulkDone(inbox')
    BY <2>1, <2>2, <2>3, MailAsks
  <2>5. /\ sel' \in Selections /\ sel'.asking = TRUE /\ sel'.stale = FALSE
        /\ sel'.ids = sel.ids /\ sel'.mode = sel.mode
    BY <1>0, <2>1 DEF Selections
  <2>6. Committing' = Committing /\ Matching(filter)' = Matching(filter)
    BY <2>1 DEF Committing, Matching
  <2> QED
    BY <2>1, <2>4, <2>5, <2>6 DEF Chosen, Wanted
<1>13. CASE ConfirmBulk
  <2> DEFINE m(ok) == [kind |-> "bulk", ids |-> bulk' \cap store, ok |-> ok]
  <2>1. UNCHANGED <<filter, pending, sel>> /\ ~sel.asking /\ bulk = None /\ bulk' = sel.ids \ Hidden
    BY <1>13 DEF ConfirmBulk
  <2>2. PICK ok \in BOOLEAN : inbox' = Append(inbox, m(ok)) /\ (ok \/ store' = store)
    BY <1>13 DEF ConfirmBulk, ledger
  <2>3. bulk' # None
    BY <1>0, <2>1, NoneAssumption DEF Selections
  <2>4. Mail(inbox, Committing, FALSE, Wanted, Matching(filter), FALSE)
    BY <2>1 DEF Chosen, Mail
  <2>5. ~BulkDone(inbox)
    BY <2>4 DEF BulkDone, Mail
  <2>6. Committing' = Committing /\ (store' = store => Matching(filter)' = Matching(filter))
    BY <2>1 DEF Committing, Matching
  <2>7. /\ Mail(inbox', Committing', sel'.asking, Wanted', Matching(filter)', bulk' # None)
        /\ ok => BulkDone(inbox')
    <3>1. m(ok).kind = "bulk" /\ m(ok).ok = ok
      OBVIOUS
    <3> HIDE DEF m
    <3> QED
      BY <2>2, <2>3, <2>4, <2>6, <3>1, MailBulk
  <2>8. \A e \in sel.ids : e \in Matching(filter)' \/ BulkDone(inbox')
    BY <2>2, <2>5, <2>6, <2>7 DEF Chosen
  <2> QED
    BY <2>1, <2>7, <2>8 DEF Chosen, Wanted
<1>14. CASE GetPage
  <2>1. /\ UNCHANGED <<filter, pending, bulk, store>> /\ Gets("page")
        /\ sel' = LeftByReset(sel) \/ sel' = sel
        /\ inbox' = Rest \/ \E l : Reload(l, Rest)
    BY <1>14 DEF GetPage, ledger
  <2>2. Kept(inbox, Rest)
    BY <2>1, KeptByTail DEF Gets, Rest, Selecting
  <2>3. Kept(inbox, inbox')
    BY <2>1, <2>2, Reloads, KeptTwice
  <2> QED
    BY <1>0, <2>1, <2>3, Calm, Resets, Grows
<1>15. CASE GetNewEntry
  <2> DEFINE msgs == Append(Unanswered(Rest), Reply)
  <2>1. /\ UNCHANGED <<filter, pending, bulk>> /\ Gets("new") /\ store' = store
        /\ sel' = LeftByReset(sel) \/ sel' = sel
        /\ inbox' = msgs \/ Reload(list, msgs)
    BY <1>15 DEF GetNewEntry, ReadInsights, Query
  <2>2. Kept(inbox, Rest)
    BY <2>1, KeptByTail DEF Gets, Rest, Selecting
  <2>3. Kept(inbox, msgs)
    BY <2>2, Reads, KeptTwice
  <2> HIDE DEF msgs
  <2>4. Kept(inbox, inbox')
    BY <2>1, <2>3, Reloads, KeptTwice
  <2> QED
    BY <1>0, <2>1, <2>4, Calm, Resets, Grows
<1>16. CASE GetInsights
  <2>1. UNCHANGED <<filter, pending, bulk, sel, store>> /\ Gets("insights") /\ inbox' = Rest
    BY <1>16 DEF GetInsights, ledger
  <2>2. Kept(inbox, inbox')
    BY <2>1, KeptByTail DEF Gets, Rest, Selecting
  <2> QED
    BY <1>0, <2>1, <2>2, Calm, Resets, Grows
<1>17. CASE GetIds
  <2> DEFINE h == Head(inbox)
  <2>1. /\ UNCHANGED <<filter, pending, bulk, store>> /\ inbox # <<>> /\ h.kind = "ids" /\ inbox' = Rest
        /\ sel' = [sel EXCEPT !.asking = FALSE, !.stale = FALSE,
                              !.ids = IF ~sel.stale THEN h.ids \ Hidden ELSE @]
    BY <1>17 DEF GetIds, Select, Gets, AcceptsIds, ledger
  <2>2. Mail(inbox, Committing, sel.asking, Wanted, Matching(filter), bulk # None)
    BY DEF Chosen
  <2>3. /\ sel.asking /\ h.ids \subseteq Entries
        /\ Wanted => h.ids \subseteq Matching(filter) \cup Committing
        /\ Mail(inbox', Committing, sel'.asking, Wanted', Matching(filter)', bulk # None)
        /\ BulkDone(inbox) => BulkDone(inbox')
    <3>1. /\ sel.asking /\ h.ids \subseteq Entries
          /\ Wanted => h.ids \subseteq Matching(filter) \cup Committing
          /\ Mail(Tail(inbox), Committing, sel'.asking, Wanted', Matching(filter)', bulk # None)
          /\ BulkDone(inbox) => BulkDone(Tail(inbox))
      <4>1. inbox # <<>> /\ h.kind = "ids"
        BY <2>1
      <4> QED
        BY <2>2, <4>1, IdsTaken
    <3> HIDE DEF h
    <3> QED
      BY <2>1, <3>1 DEF Rest
  <2> HIDE DEF h
  <2>4. Committing' = Committing /\ Matching(filter)' = Matching(filter)
    BY <2>1 DEF Committing, Matching
  <2>5. /\ sel' \in Selections /\ ~sel'.asking /\ sel'.mode = sel.mode
        /\ sel'.ids = IF ~sel.stale THEN h.ids \ Hidden ELSE sel.ids
    BY <1>0, <2>1, <2>3 DEF Selections
  <2>6. ~sel.stale => \A e \in h.ids \ Hidden :
           pending[e] = "no" /\ sel.mode /\ e \in Matching(filter)
    BY <2>3 DEF Chosen, Wanted, Hidden, Committing
  <2>7. \A e \in sel'.ids :
           /\ pending'[e] = "no" /\ sel'.mode
           /\ e \in Matching(filter)' \/ BulkDone(inbox')
    BY <2>1, <2>3, <2>4, <2>5, <2>6 DEF Chosen
  <2> QED
    BY <1>0, <2>1, <2>3, <2>4, <2>5, <2>7 DEF Chosen, Wanted
<1>18. CASE GetDeleted
  <2> DEFINE h == Head(inbox)
  <2>1. /\ UNCHANGED <<filter, bulk>> /\ inbox # <<>> /\ h.kind = "deleted" /\ store' = store
        /\ pending' = [pending EXCEPT ![h.entry] = "no"]
        /\ sel' = sel \/ sel' = [sel EXCEPT !.ids = @ \ {h.entry}]
        /\ inbox' = Rest \/ inbox' = Append(Unanswered(Rest), Reply)
    BY <1>18 DEF GetDeleted, ReadInsights, Query, Gets, ledger
  <2>2. Kept(Rest, inbox')
    BY <2>1, Reads, KeptSelf
  <2>3. Mail(inbox, Committing, sel.asking, Wanted, Matching(filter), bulk # None)
    BY DEF Chosen
  <2>4. /\ h.entry \in Committing
        /\ Mail(Rest, Committing \ {h.entry}, sel.asking, Wanted, Matching(filter), bulk # None)
        /\ BulkDone(inbox) => BulkDone(Rest)
    BY <2>1, <2>3, DeleteTaken DEF Rest
  <2> HIDE DEF h
  <2>5. pending' \in Delays /\ Committing' = Committing \ {h.entry}
    BY <1>0, <2>1, <2>4 DEF Delays, Committing
  <2>6. Narrowed /\ Matching(filter) \subseteq Matching(filter)'
    BY <1>0, <2>1, Grows DEF Narrowed, Selections
  <2>7. \A e \in sel'.ids :
           pending'[e] = "no" /\ (e \in Matching(filter) \/ BulkDone(Rest))
    BY <1>0, <2>1, <2>4, <2>6 DEF Narrowed, Chosen, Selections, Delays
  <2> QED
    BY <2>1, <2>2, <2>4, <2>5, <2>6, <2>7, Settled DEF Chosen
<1>19. CASE GetBulk
  <2> DEFINE h == Head(inbox)
  <2>1. /\ UNCHANGED <<filter, pending>> /\ inbox # <<>> /\ h.kind = "bulk" /\ store' = store
        /\ bulk' = None
        /\ \/ ~h.ok /\ sel' = sel /\ inbox' = Rest
           \/ /\ sel' = Left(sel)
              /\ \E l : Reload(l, Rest) \/ Reload(l, Append(Unanswered(Rest), Reply))
    BY <1>19 DEF GetBulk, ReadInsights, Query, Gets, ledger
  <2>2. Kept(Rest, inbox')
    BY <2>1, Reads, Reloads, KeptTwice, KeptSelf
  <2>3. Mail(inbox, Committing, sel.asking, Wanted, Matching(filter), bulk # None)
    BY DEF Chosen
  <2>4. /\ Mail(Rest, Committing, sel.asking, Wanted, Matching(filter), bulk' # None)
        /\ BulkDone(inbox) => h.ok
    BY <2>1, <2>3, BulkTaken DEF Rest
  <2> HIDE DEF h
  <2>5. Committing' = Committing /\ Matching(filter) \subseteq Matching(filter)'
    BY <2>1, Grows DEF Committing
  <2>6. Emptied \/ (Narrowed /\ sel' = sel /\ ~BulkDone(inbox))
    BY <1>0, <2>1, <2>4, Resets
  <2>7. sel' = sel /\ ~BulkDone(inbox) =>
           \A e \in sel'.ids : pending'[e] = "no" /\ (e \in Matching(filter) \/ BulkDone(Rest))
    BY <2>1 DEF Chosen
  <2> QED
    BY <1>0, <2>1, <2>2, <2>4, <2>5, <2>6, <2>7, Settled
<1> QED
  BY <1>1, <1>2, <1>3, <1>4, <1>5, <1>6, <1>7, <1>8, <1>9, <1>10, <1>11, <1>12,
     <1>13, <1>14, <1>15, <1>16, <1>17, <1>18, <1>19 DEF Next

(* So it holds in every reachable state: what is selected has no delete    *)
(* pending, whichever replies are under way (HistoryView.svelte).          *)
THEOREM Selected == Spec => []Chosen
<1>1. LedgerSpec => []Inv
  BY Induction
<1> QED
  BY <1>1, ViewsUseLedger, ChosenInit, ChosenNext, PTL DEF Spec

(* A bulk delete that sets out names only what the filter matches, none of *)
(* it under a delete that can still be undone (HistoryView.svelte).        *)
THEOREM BulkDeletes == Spec => BulkDeletesTheChosen
<1>1. ASSUME Chosen, [Next]_vars, bulk = None, bulk' # None
      PROVE  \A e \in bulk' : pending[e] = "no" /\ (e \in Shown \/ e \in Matching(filter))
  <2>1. ConfirmBulk
    BY <1>1 DEF Next, vars, views, Start, Become, Background, Scroll, SearchNow, ToggleMode,
       SelectAll, Dictate, Defer, Undo, Commit, ChangeFilter, Search, GetPage, GetNewEntry,
       GetDeleted, GetBulk, GetIds, GetInsights, RefreshInsights, Select
  <2>2. bulk' = sel.ids \ Hidden
    BY <2>1 DEF ConfirmBulk
  <2>3. ~BulkDone(inbox)
    BY <1>1 DEF Chosen, Mail, BulkDone
  <2> QED
    BY <1>1, <2>2, <2>3 DEF Chosen
<1> QED
  BY <1>1, Selected, PTL DEF Spec, BulkDeletesTheChosen

-----------------------------------------------------------------------------
(* What Insights shows.  A message after which the page reads it again, or *)
(* which is what it reads.                                                 *)

Calls(m) ==
    \/ m.kind \in {"new", "insights"}
    \/ m.kind = "deleted" /\ m.ok
    \/ m.kind = "bulk" /\ m.ok /\ m.ids # {}

CallsAfter(s, i) == \E j \in DOMAIN s : j > i /\ Calls(s[j])

(* An answer that counts what is stored, says that it does not, or is about *)
(* to be replaced.                                                         *)
Holds(answer, s, i, st) ==
    answer.indexing \/ answer.counts = Tally(st) \/ CallsAfter(s, i)

Informed(s, answer, st) ==
    /\ answer # None => Holds(answer, s, 0, st)
    /\ \A i \in DOMAIN s : s[i].kind = "insights" => Holds(s[i], s, i, st)

(* The query's answer: the ledger that is not behind the database holds    *)
(* all of its entries.                                                     *)
LEMMA ReplyCounts ==
    ASSUME Inv', open'
    PROVE  /\ Reply.kind = "insights"
           /\ Reply.indexing \/ Reply.counts = Tally(store')
<1>1. Reply.kind = "insights" /\ Reply.counts = counts'
      /\ Reply.indexing = (Cardinality(processed') < Cardinality(store'))
  BY DEF Reply
<1>2. /\ counts' = Tally(processed') /\ processed' \in SUBSET store' /\ store' \in SUBSET Entries
  BY DEF Inv, Recounted, LedgerTypeOK
<1>3. CASE ~(Cardinality(processed') < Cardinality(store'))
  <2>1. IsFiniteSet(store')
    BY <1>2, FS_Subset, EntriesAssumption
  <2>2. /\ Cardinality(store') \in Nat /\ Cardinality(processed') \in Nat
        /\ Cardinality(processed') <= Cardinality(store')
        /\ Cardinality(store') = Cardinality(processed') => store' = processed'
    BY <1>2, <2>1, FS_Subset, FS_CardinalityType
  <2>3. processed' = store'
    BY <1>3, <2>2
  <2> QED
    BY <1>1, <1>2, <2>3
<1>4. CASE Cardinality(processed') < Cardinality(store')
  BY <1>1, <1>4
<1> QED
  BY <1>1, <1>3, <1>4

(* A message that makes the page read Insights again, or is what it reads, *)
(* excuses everything before it.                                           *)
LEMMA InformedAnew ==
    ASSUME NEW s, Sequence(s), NEW x, Calls(x), NEW answer, NEW st,
           x.kind = "insights" => x.indexing \/ x.counts = Tally(st)
    PROVE  Informed(Append(s, x), answer, st)
<1> DEFINE t == Append(s, x)
           n == Len(s) + 1
<1>1. /\ Len(s) \in Nat /\ DOMAIN t = 1..n /\ t[n] = x
  BY Appended
<1> HIDE DEF t
<1>2. n \in DOMAIN t /\ n > 0 /\ \A i \in DOMAIN t : i = n \/ n > i
  BY <1>1
<1> HIDE DEF n
<1>3. CallsAfter(t, 0) /\ \A i \in DOMAIN t : i = n \/ CallsAfter(t, i)
  BY <1>1, <1>2 DEF CallsAfter
<1>4. Holds(answer, t, 0, st)
  BY <1>3 DEF Holds
<1>5. ASSUME NEW i \in DOMAIN t, t[i].kind = "insights" PROVE Holds(t[i], t, i, st)
  BY <1>1, <1>3, <1>5 DEF Holds
<1> QED
  BY <1>4, <1>5 DEF Informed, t

(* One that is not about Insights changes nothing.                         *)
LEMMA InformedStill ==
    ASSUME NEW s, Sequence(s), NEW x, x.kind # "insights", NEW answer, NEW st,
           Informed(s, answer, st)
    PROVE  Informed(Append(s, x), answer, st)
<1> DEFINE t == Append(s, x)
           n == Len(s) + 1
<1>1. /\ Len(s) \in Nat /\ DOMAIN t = 1..n /\ t[n] = x /\ DOMAIN s = 1..Len(s)
      /\ \A i \in DOMAIN s : t[i] = s[i]
  BY Appended
<1> HIDE DEF t
<1>2. /\ \A i \in DOMAIN s : i \in DOMAIN t /\ t[i] = s[i]
      /\ \A i \in DOMAIN t : i = n \/ i \in DOMAIN s
  BY <1>1
<1> HIDE DEF n
<1>3. \A i : CallsAfter(s, i) => CallsAfter(t, i)
  BY <1>2 DEF CallsAfter
<1>4. \A a, i : Holds(a, s, i, st) => Holds(a, t, i, st)
  BY <1>3 DEF Holds
<1>5. ASSUME NEW i \in DOMAIN t, t[i].kind = "insights" PROVE Holds(t[i], t, i, st)
  BY <1>1, <1>2, <1>4, <1>5 DEF Informed
<1> QED
  BY <1>4, <1>5 DEF Informed, t

(* Taken is one that is not about Insights, or the answer that is shown    *)
(* from now on.                                                            *)
LEMMA InformedTail ==
    ASSUME NEW s, Sequence(s), s # <<>>, NEW answer, NEW st, Informed(s, answer, st), NEW next,
           \/ ~Calls(Head(s)) /\ next = answer
           \/ /\ Head(s).kind = "insights"
              /\ next.counts = Head(s).counts /\ next.indexing = Head(s).indexing
    PROVE  Informed(Tail(s), next, st)
<1> DEFINE t == Tail(s)
           h == Head(s)
<1>1. /\ Len(s) \in Nat \ {0} /\ DOMAIN s = 1..Len(s)
      /\ DOMAIN t = 1..Len(s) - 1 /\ h = s[1]
      /\ \A i \in DOMAIN t : i + 1 \in DOMAIN s /\ t[i] = s[i + 1]
  BY Dropped
<1>h. \/ ~Calls(h) /\ next = answer
      \/ h.kind = "insights" /\ next.counts = h.counts /\ next.indexing = h.indexing
  OBVIOUS
<1> HIDE DEF t, h
<1>2. 1 \in DOMAIN s /\ \A j \in DOMAIN s : j # 1 => j - 1 \in DOMAIN t /\ t[j - 1] = s[j]
  BY <1>1
<1>3. ASSUME NEW i \in Nat, CallsAfter(s, i + 1) PROVE CallsAfter(t, i)
  <2>1. PICK j \in DOMAIN s : j > i + 1 /\ Calls(s[j])
    BY <1>3 DEF CallsAfter
  <2>2. j # 1 /\ j - 1 > i
    BY <1>1, <1>3, <2>1
  <2> QED
    BY <1>2, <2>1, <2>2 DEF CallsAfter
<1>4. ASSUME NEW i \in DOMAIN t, t[i].kind = "insights" PROVE Holds(t[i], t, i, st)
  <2>1. i \in Nat /\ i + 1 \in DOMAIN s /\ t[i] = s[i + 1]
    BY <1>1
  <2>2. Holds(s[i + 1], s, i + 1, st)
    BY <1>4, <2>1 DEF Informed
  <2> QED
    BY <1>3, <2>1, <2>2 DEF Holds
<1>5. next # None => Holds(next, t, 0, st)
  <2>1. CASE ~Calls(h) /\ next = answer /\ next # None
    <3>1. CallsAfter(s, 0) => CallsAfter(t, 0)
      <4>1. ASSUME NEW j \in DOMAIN s, j > 0, Calls(s[j]) PROVE j > 1
        BY <1>1, <2>1, <4>1
      <4>2. CallsAfter(s, 0) => CallsAfter(s, 0 + 1)
        BY <4>1 DEF CallsAfter
      <4> QED
        BY <1>3, <4>2
    <3> QED
      BY <2>1, <3>1 DEF Informed, Holds
  <2>2. CASE h.kind = "insights" /\ next.counts = h.counts /\ next.indexing = h.indexing
    <3>1. Holds(h, s, 0 + 1, st)
      BY <1>1, <1>2, <2>2 DEF Informed
    <3> QED
      BY <1>3, <2>2, <3>1 DEF Holds
  <2> QED
    BY <1>h, <2>1, <2>2
<1> QED
  BY <1>4, <1>5 DEF Informed, t

(* Taking out the older reply leaves a sequence.                           *)
LEMMA UnansweredSequence ==
    ASSUME NEW s, Sequence(s)
    PROVE  Sequence(Unanswered(s))
<1> DEFINE older == {i \in DOMAIN s : s[i].kind = "insights"}
<1>1. CASE older = {}
  BY <1>1 DEF Unanswered
<1>2. CASE older # {}
  <2> DEFINE k == CHOOSE i \in older : TRUE
  <2>1. k \in DOMAIN s /\ Unanswered(s) = RemoveAt(s, k)
    BY <1>2 DEF Unanswered
  <2> HIDE DEF k
  <2> QED
    BY <2>1, Removed1
<1> QED
  BY <1>1, <1>2

(* So after each step that reads it again.                                 *)
LEMMA InformedByReply ==
    ASSUME Inv', Query, NEW msgs, Sequence(msgs), NEW answer
    PROVE  /\ Sequence(Append(Unanswered(msgs), Reply))
           /\ Informed(Append(Unanswered(msgs), Reply), answer, store')
<1>1. open' /\ Sequence(Unanswered(msgs))
  BY UnansweredSequence DEF Query
<1>2. Calls(Reply) /\ (Reply.indexing \/ Reply.counts = Tally(store'))
  BY <1>1, ReplyCounts DEF Calls
<1> QED
  BY <1>1, <1>2, InformedAnew, Appended

(* Loading the list sends a page or nothing.                               *)
LEMMA InformedByLoad ==
    ASSUME NEW msgs, Sequence(msgs), NEW answer, NEW st, Informed(msgs, answer, st),
           NEW l, Load(l, msgs) \/ Reload(l, msgs)
    PROVE  Informed(inbox', answer, st)
<1>1. ASSUME NEW k, Load(k, msgs) PROVE Informed(inbox', answer, st)
  <2>1. \E f, n : inbox' = Append(msgs, Page(f, n))
    BY <1>1 DEF Load
  <2>2. \A f, n : Page(f, n).kind # "insights"
    BY DEF Page
  <2> QED
    BY <2>1, <2>2, InformedStill
<1> QED
  BY <1>1 DEF Reload

Reading == Informed(inbox, shown, store)

(* It holds at the start: nothing is shown.                                *)
LEMMA ReadingInit == Init => Reading
BY DEF Init, Reading, Informed

(* Whoever stores or deletes an entry sends a message that makes the page  *)
(* read again, and reading again replaces what is under way.               *)
LEMMA ReadingNext == Reading /\ Chosen /\ Inv' /\ [Next]_vars => Reading'
<1> SUFFICES ASSUME Reading, Chosen, Inv', [Next]_vars PROVE Reading'
  OBVIOUS
<1>0. Sequence(inbox) /\ Informed(inbox, shown, store)
  BY DEF Chosen, Mail, Reading
<1>a. ASSUME Gets("page") \/ Gets("new") \/ Gets("deleted") \/ Gets("bulk") \/ Gets("ids")
      PROVE  inbox # <<>> /\ Sequence(Rest) /\ Head(inbox).kind # "insights"
  <2>1. inbox # <<>> /\ Head(inbox).kind # "insights"
    BY <1>a DEF Gets
  <2> QED
    BY <1>0, <2>1, Dropped DEF Rest
<1>1. CASE UNCHANGED vars
  BY <1>0, <1>1 DEF vars, views, ledger, Reading
<1>2. CASE Start \/ Background
  BY <1>0, <1>2 DEF Start, Background, views, Initialize, CatchUp, Reading
<1>3. CASE Become
  <2>1. Query /\ shown' = shown /\ Reload(list, Append(Unanswered(inbox), Reply))
    BY <1>3 DEF Become, ReadInsights
  <2> QED
    BY <1>0, <2>1, InformedByReply, InformedByLoad DEF Reading
<1>4. CASE RefreshInsights
  <2>1. Query /\ inbox' = Append(Unanswered(inbox), Reply)
    BY <1>4 DEF RefreshInsights, ReadInsights
  <2> QED
    BY <1>0, <2>1, InformedByReply DEF Reading
<1>5. ASSUME NEW e \in Entries, Dictate(e) PROVE Reading'
  <2> DEFINE m == [kind |-> "new", entry |-> e]
  <2>1. inbox' = Append(inbox, m) /\ Calls(m) /\ m.kind # "insights"
    BY <1>5 DEF Dictate, Calls
  <2> HIDE DEF m
  <2> QED
    BY <1>0, <2>1, InformedAnew DEF Reading
<1>6. CASE Scroll \/ SearchNow
  <2>1. shown' = shown /\ store' = store /\ (Load(list, inbox) \/ Reload(list, inbox))
    BY <1>6 DEF Scroll, SearchNow, ledger
  <2> QED
    BY <1>0, <2>1, InformedByLoad DEF Reading
<1>7. ASSUME NEW f, ChangeFilter(f) \/ Search(f) PROVE Reading'
  <2>1. shown' = shown /\ store' = store /\ (inbox' = inbox \/ Reload(list, inbox))
    BY <1>7 DEF ChangeFilter, Search, ledger
  <2> QED
    BY <1>0, <2>1, InformedByLoad DEF Reading
<1>8. CASE ToggleMode \/ \E e \in Entries : Defer(e) \/ Undo(e)
  BY <1>0, <1>8 DEF ToggleMode, Select, Defer, Undo, ledger, Reading
<1>9. ASSUME NEW e \in Entries, Commit(e) PROVE Reading'
  <2> DEFINE m(ok) == [kind |-> "deleted", entry |-> e, ok |-> ok]
  <2>1. PICK ok \in BOOLEAN :
           inbox' = Append(inbox, m(ok)) /\ shown' = shown /\ (ok \/ store' = store)
    BY <1>9 DEF Commit, ledger
  <2>2. m(ok).kind # "insights" /\ (ok => Calls(m(ok)))
    BY DEF Calls
  <2> HIDE DEF m
  <2> QED
    BY <1>0, <2>1, <2>2, InformedAnew, InformedStill DEF Reading
<1>10. CASE SelectAll
  <2> DEFINE m == [kind |-> "ids", ids |-> Matching(filter)]
  <2>1. inbox' = Append(inbox, m) /\ shown' = shown /\ store' = store /\ m.kind # "insights"
    BY <1>10 DEF SelectAll, Select, ledger
  <2> HIDE DEF m
  <2> QED
    BY <1>0, <2>1, InformedStill DEF Reading
<1>11. CASE ConfirmBulk
  <2> DEFINE m(ok) == [kind |-> "bulk", ids |-> bulk' \cap store, ok |-> ok]
  <2>1. PICK ok \in BOOLEAN :
           /\ inbox' = Append(inbox, m(ok)) /\ shown' = shown
           /\ IF ok THEN store' = store \ bulk' ELSE store' = store
    BY <1>11 DEF ConfirmBulk, DeleteMany, ledger
  <2>2. m(ok).kind # "insights" /\ (ok /\ bulk' \cap store # {} => Calls(m(ok)))
    BY DEF Calls
  <2>3. store' = store \/ (ok /\ bulk' \cap store # {})
    BY <2>1
  <2> HIDE DEF m
  <2> QED
    BY <1>0, <2>1, <2>2, <2>3, InformedAnew, InformedStill DEF Reading
<1>12. CASE GetPage
  <2>1. /\ Gets("page") /\ shown' = shown /\ store' = store
        /\ inbox' = Rest \/ \E l : Reload(l, Rest)
    BY <1>12 DEF GetPage, ledger
  <2>2. ~Calls(Head(inbox))
    BY <2>1 DEF Gets, Calls
  <2>3. Sequence(Rest) /\ Informed(Rest, shown, store)
    BY <1>0, <1>a, <2>1, <2>2, InformedTail DEF Rest
  <2> QED
    BY <2>1, <2>3, InformedByLoad DEF Reading
<1>13. CASE GetNewEntry
  <2>1. /\ Gets("new") /\ Query /\ shown' = shown
        /\ \/ inbox' = Append(Unanswered(Rest), Reply)
           \/ Reload(list, Append(Unanswered(Rest), Reply))
    BY <1>13 DEF GetNewEntry, ReadInsights
  <2> QED
    BY <1>a, <2>1, InformedByReply, InformedByLoad DEF Reading
<1>14. CASE GetDeleted
  <2>1. /\ Gets("deleted") /\ shown' = shown
        /\ \/ Query /\ inbox' = Append(Unanswered(Rest), Reply)
           \/ ~Head(inbox).ok /\ inbox' = Rest /\ store' = store
    BY <1>14 DEF GetDeleted, ReadInsights, ledger
  <2>2. ~Head(inbox).ok => ~Calls(Head(inbox))
    BY <2>1 DEF Gets, Calls
  <2> QED
    BY <1>0, <1>a, <2>1, <2>2, InformedByReply, InformedTail DEF Reading, Rest
<1>15. CASE GetBulk
  <2>1. /\ Gets("bulk") /\ shown' = shown
        /\ \/ Query /\ \E l : Reload(l, Append(Unanswered(Rest), Reply))
           \/ /\ ~Head(inbox).ok \/ Head(inbox).ids = {}
              /\ store' = store /\ (inbox' = Rest \/ \E l : Reload(l, Rest))
    BY <1>15 DEF GetBulk, ReadInsights, ledger
  <2>2. ~Head(inbox).ok \/ Head(inbox).ids = {} => ~Calls(Head(inbox))
    BY <2>1 DEF Gets, Calls
  <2>3. Sequence(Rest) /\ (~Calls(Head(inbox)) => Informed(Rest, shown, store))
    BY <1>0, <1>a, <2>1, InformedTail DEF Rest
  <2> QED
    BY <2>1, <2>2, <2>3, InformedByReply, InformedByLoad DEF Reading
<1>16. CASE GetIds
  <2>1. Gets("ids") /\ shown' = shown /\ store' = store /\ inbox' = Rest
    BY <1>16 DEF GetIds, Select, ledger
  <2>2. ~Calls(Head(inbox))
    BY <2>1 DEF Gets, Calls
  <2> QED
    BY <1>0, <1>a, <2>1, <2>2, InformedTail DEF Reading, Rest
<1>17. CASE GetInsights
  <2>1. /\ inbox # <<>> /\ Head(inbox).kind = "insights" /\ store' = store /\ inbox' = Tail(inbox)
        /\ shown' = [counts |-> Head(inbox).counts, indexing |-> Head(inbox).indexing]
    BY <1>17 DEF GetInsights, Gets, Rest, ledger
  <2> QED
    BY <1>0, <2>1, InformedTail DEF Reading
<1> QED
  BY <1>1, <1>2, <1>3, <1>4, <1>5, <1>6, <1>7, <1>8, <1>9, <1>10, <1>11, <1>12,
     <1>13, <1>14, <1>15, <1>16, <1>17 DEF Next

(* Once the messages are in, Insights says that it is indexing or counts   *)
(* what is stored (history.ts:396).                                        *)
THEOREM InsightsCount == Spec => []InsightsSettled
<1>1. LedgerSpec => []Inv
  BY Induction
<1>2. Reading => InsightsSettled
  BY DEF Reading, Informed, Holds, CallsAfter, InsightsSettled
<1>3. Inv /\ Inv' /\ Chosen /\ Reading /\ [Next]_vars => Reading'
  BY ReadingNext
<1> QED
  BY <1>1, <1>2, <1>3, ViewsUseLedger, Selected, ReadingInit, PTL DEF Spec

-----------------------------------------------------------------------------
(* The list.  First the numbers in their order: each has a place, and the   *)
(* places are all taken.                                                   *)

Place(S, e) == Cardinality({d \in S : d <= e})

(* The place of an element among numbers, which no other has.              *)
LEMMA Places ==
    ASSUME NEW S \in SUBSET Nat, IsFiniteSet(S)
    PROVE  /\ Cardinality(S) \in Nat
           /\ \A e \in S : Place(S, e) \in 1..Cardinality(S)
           /\ \A d, e \in S : d < e => Place(S, d) < Place(S, e)
<1>1. Cardinality(S) \in Nat
  BY FS_CardinalityType
<1>2. ASSUME NEW e \in S PROVE Place(S, e) \in 1..Cardinality(S)
  <2> DEFINE B == {d \in S : d <= e}
  <2>1. B \in SUBSET S /\ e \in B
    OBVIOUS
  <2> HIDE DEF B
  <2>2. /\ IsFiniteSet(B) /\ Cardinality(B) <= Cardinality(S) /\ Cardinality(B) \in Nat
        /\ Cardinality(B) # 0
    BY <2>1, FS_Subset, FS_CardinalityType, FS_EmptySet
  <2>3. Place(S, e) = Cardinality(B)
    BY DEF Place, B
  <2> QED
    BY <1>1, <2>2, <2>3
<1>3. ASSUME NEW d \in S, NEW e \in S, d < e PROVE Place(S, d) < Place(S, e)
  <2> DEFINE A == {x \in S : x <= d}
             B == {x \in S : x <= e}
  <2>0. ASSUME NEW x \in A PROVE x \in B \ {e}
    <3>1. x \in Nat /\ d \in Nat /\ e \in Nat /\ x <= d /\ x \in S
      BY <2>0
    <3>2. x <= e /\ x # e
      BY <1>3, <3>1
    <3> QED
      BY <3>1, <3>2
  <2>1. /\ A \in SUBSET S /\ B \in SUBSET S /\ e \in B
        /\ A \in SUBSET (B \ {e})
    <3>1. e <= e
      OBVIOUS
    <3>2. A \in SUBSET (B \ {e})
      BY <2>0
    <3> QED
      BY <3>1, <3>2
  <2>2. Place(S, d) = Cardinality(A) /\ Place(S, e) = Cardinality(B)
    BY DEF Place
  <2> HIDE DEF A, B
  <2>3. IsFiniteSet(A) /\ IsFiniteSet(B) /\ Cardinality(A) \in Nat /\ Cardinality(B) \in Nat
    BY <2>1, FS_Subset, FS_CardinalityType
  <2>4. IsFiniteSet(B \ {e}) /\ Cardinality(B \ {e}) = Cardinality(B) - 1
    BY <2>1, <2>3, FS_RemoveElement
  <2>5. Cardinality(A) <= Cardinality(B \ {e})
    BY <2>1, <2>4, FS_Subset
  <2> QED
    BY <2>2, <2>3, <2>4, <2>5
<1> QED
  BY <1>1, <1>2, <1>3

(* So Nth numbers a set in ascending order, and Place is its inverse.      *)
LEMMA Numbered ==
    ASSUME NEW S \in SUBSET Nat, IsFiniteSet(S)
    PROVE  /\ Cardinality(S) \in Nat
           /\ \A k \in 1..Cardinality(S) : Nth(S, k) \in S /\ Place(S, Nth(S, k)) = k
           /\ \A j, k \in 1..Cardinality(S) : j < k => Nth(S, j) < Nth(S, k)
           /\ \A e \in S : Place(S, e) \in 1..Cardinality(S) /\ Nth(S, Place(S, e)) = e
           /\ \A d, e \in S : d < e => Place(S, d) < Place(S, e)
<1> DEFINE N == Cardinality(S)
           g == [e \in S |-> Place(S, e)]
<1>1. /\ N \in Nat /\ \A e \in S : Place(S, e) \in 1..N
      /\ \A d, e \in S : d < e => Place(S, d) < Place(S, e)
  BY Places
<1>2. \A d, e \in S : Place(S, d) = Place(S, e) => d = e
  <2>1. \A e \in S : Place(S, e) \in Nat
    BY <1>1
  <2>2. ASSUME NEW d \in S, NEW e \in S, d # e PROVE d < e \/ e < d
    BY <2>2
  <2> QED
    BY <1>1, <2>1, <2>2
<1>3. g \in Injection(S, 1..N)
  BY <1>1, <1>2 DEF Injection, IsInjective
<1>4. IsFiniteSet(1..N) /\ Cardinality(1..N) = N
  BY <1>1, FS_Interval
<1> HIDE DEF N
<1>5. g \in Surjection(S, 1..N)
  <2> HIDE DEF g
  <2> QED
  BY <1>3, <1>4, FS_Injection DEF N
<1>6. \A k \in 1..N : \E e \in S : Place(S, e) = k
  BY <1>5 DEF Surjection
<1>7. \A k \in 1..N : Nth(S, k) \in S /\ Place(S, Nth(S, k)) = k
  BY <1>6 DEF Nth, Place
<1>8. \A e \in S : Nth(S, Place(S, e)) = e
  BY <1>1, <1>2, <1>7
<1>9. ASSUME NEW j \in 1..N, NEW k \in 1..N, j < k PROVE Nth(S, j) < Nth(S, k)
  <2>1. Nth(S, j) \in Nat /\ Nth(S, k) \in Nat /\ Nth(S, j) # Nth(S, k)
    <3>1. Nth(S, j) \in S /\ Nth(S, k) \in S /\ Place(S, Nth(S, j)) = j /\ Place(S, Nth(S, k)) = k
      BY <1>7
    <3>2. j # k
      BY <1>1, <1>9
    <3> QED
      BY <3>1, <3>2
  <2>2. ~(Nth(S, k) < Nth(S, j))
    <3>1. Nth(S, k) < Nth(S, j) => k < j
      <4> DEFINE a == Nth(S, j)
                 b == Nth(S, k)
      <4>1. a \in S /\ b \in S /\ Place(S, a) = j /\ Place(S, b) = k
        BY <1>7
      <4> HIDE DEF a, b
      <4>2. b < a => k < j
        BY <1>1, <4>1
      <4> QED
        BY <4>2 DEF a, b
    <3> QED
      BY <1>9, <3>1
  <2> QED
    BY <2>1, <2>2
<1> QED
  BY <1>1, <1>7, <1>8, <1>9 DEF N

(* What is in a sequence.                                                  *)
LEMMA InSequence ==
    ASSUME NEW S, NEW s \in Seq(S)
    PROVE  /\ ToSet(s) = {s[i] : i \in DOMAIN s} /\ ToSet(s) \in SUBSET S
           /\ Len(s) \in Nat /\ DOMAIN s = 1..Len(s) /\ \A i \in DOMAIN s : s[i] \in S
<1>1. Len(s) \in Nat /\ DOMAIN s = 1..Len(s) /\ s \in [1..Len(s) -> S]
  BY LenProperties
<1> QED
  BY <1>1 DEF ToSet

(* A function on 1..n is a sequence of length n.                           *)
LEMMA Enumerated ==
    ASSUME NEW n \in Nat, NEW S, NEW f \in [1..n -> S]
    PROVE  f \in Seq(S) /\ Len(f) = n /\ DOMAIN f = 1..n
<1>1. f \in Seq(S)
  BY SeqDef
<1>2. Len(f) \in Nat /\ DOMAIN f = 1..Len(f) /\ DOMAIN f = 1..n
  BY <1>1, LenProperties
<1> QED
  BY <1>1, <1>2

Descends(v) == \A i, j \in DOMAIN v : i < j => v[j] < v[i]

(* The entries of a set, newest first, are those, in descending order.     *)
LEMMA Newest ==
    ASSUME NEW S \in SUBSET Entries
    PROVE  /\ Cardinality(S) \in Nat
           /\ NewestFirst(S) \in Seq(Entries) /\ Len(NewestFirst(S)) = Cardinality(S)
           /\ \A i \in 1..Cardinality(S) :
                 NewestFirst(S)[i] \in S /\ Place(S, NewestFirst(S)[i]) = Cardinality(S) + 1 - i
           /\ \A e \in S : /\ Place(S, e) \in 1..Cardinality(S)
                           /\ NewestFirst(S)[Cardinality(S) + 1 - Place(S, e)] = e
           /\ Descends(NewestFirst(S))
<1> DEFINE N == Cardinality(S)
           v == NewestFirst(S)
<1>1. S \in SUBSET Nat /\ IsFiniteSet(S)
  BY FS_Subset, EntriesAssumption
<1>2. /\ N \in Nat
      /\ \A k \in 1..N : Nth(S, k) \in S /\ Place(S, Nth(S, k)) = k
      /\ \A j, k \in 1..N : j < k => Nth(S, j) < Nth(S, k)
      /\ \A e \in S : Place(S, e) \in 1..N /\ Nth(S, Place(S, e)) = e
  BY <1>1, Numbered
<1>3. v = [i \in 1..N |-> Nth(S, N + 1 - i)]
  BY DEF NewestFirst
<1> HIDE DEF N, v
<1>4. \A i \in 1..N : N + 1 - i \in 1..N /\ v[i] = Nth(S, N + 1 - i)
  BY <1>2, <1>3
<1>5. v \in [1..N -> Entries]
  BY <1>2, <1>3, <1>4
<1>6. v \in Seq(Entries) /\ Len(v) = N /\ DOMAIN v = 1..N
  BY <1>2, <1>5, Enumerated
<1>7. Descends(v)
  <2>1. \A i, j \in 1..N : i < j => N + 1 - j < N + 1 - i
    BY <1>2
  <2> QED
    BY <1>2, <1>4, <1>6, <2>1 DEF Descends
<1>8. ASSUME NEW e \in S PROVE v[N + 1 - Place(S, e)] = e
  <2>1. N + 1 - Place(S, e) \in 1..N /\ N + 1 - (N + 1 - Place(S, e)) = Place(S, e)
    BY <1>2
  <2> QED
    BY <1>2, <1>4, <2>1
<1> QED
  BY <1>2, <1>4, <1>6, <1>7, <1>8 DEF N, v

-----------------------------------------------------------------------------
(* What the page does to its list.                                         *)

Lists == [view : Seq(Entries), offset : Nat, hasMore : BOOLEAN, loading : BOOLEAN,
          stale : BOOLEAN, queued : BOOLEAN, skewed : BOOLEAN]

(* Entries are taken out, and the others stay in their order;              *)
LEMMA Filtered ==
    ASSUME NEW l \in Lists, NEW ids
    PROVE  /\ Without(l, ids) \in Lists
           /\ \A field \in {"hasMore", "loading", "stale", "queued", "skewed"} :
                 Without(l, ids)[field] = l[field]
           /\ ToSet(Without(l, ids).view) = ToSet(l.view) \ ids
           /\ Descends(l.view) => Descends(Without(l, ids).view)
           /\ l.offset = Len(l.view) => Without(l, ids).offset = Len(Without(l, ids).view)
<1> DEFINE v == l.view
           K == {i \in DOMAIN v : v[i] \notin ids}
           n == Cardinality(K)
           w == [k \in 1..n |-> v[Nth(K, k)]]
           r == Without(l, ids)
<1>1. /\ v \in Seq(Entries) /\ Len(v) \in Nat /\ DOMAIN v = 1..Len(v) /\ l.offset \in Nat
      /\ ToSet(v) = {v[i] : i \in DOMAIN v} /\ \A i \in DOMAIN v : v[i] \in Entries
  BY InSequence DEF Lists
<1>2. r = [l EXCEPT !.view = w, !.offset = Less(@, Len(v) - n)]
  BY DEF Without
<1>3. K \in SUBSET Nat /\ IsFiniteSet(K) /\ n \in Nat /\ n <= Len(v)
  <2>1. IsFiniteSet(1..Len(v)) /\ Cardinality(1..Len(v)) = Len(v)
    BY <1>1, FS_Interval
  <2>2. K \in SUBSET (1..Len(v))
    BY <1>1
  <2>3. IsFiniteSet(K) /\ n <= Len(v)
    BY <2>1, <2>2, FS_Subset
  <2>4. n \in Nat
    BY <2>3, FS_CardinalityType
  <2> QED
    BY <2>2, <2>3, <2>4
<1>4. /\ \A k \in 1..n : Nth(K, k) \in K
      /\ \A j, k \in 1..n : j < k => Nth(K, j) < Nth(K, k)
      /\ \A i \in K : Place(K, i) \in 1..n /\ Nth(K, Place(K, i)) = i
  BY <1>3, Numbered
<1>5. \A k \in 1..n : w[k] = v[Nth(K, k)] /\ w[k] \in Entries /\ w[k] \notin ids
  BY <1>1, <1>4
<1>6. w \in Seq(Entries) /\ Len(w) = n /\ DOMAIN w = 1..n
  <2>1. w \in [1..n -> Entries]
    BY <1>5
  <2> HIDE DEF w, n
  <2> QED
    BY <1>3, <2>1, Enumerated
<1>8. \A i \in K : i \in DOMAIN v /\ v[i] \notin ids /\ w[Place(K, i)] = v[i]
  BY <1>4, <1>5
<1>9. \A i \in DOMAIN v : v[i] \notin ids => i \in K
  OBVIOUS
<1> HIDE DEF w, n, K
<1>7. ToSet(w) = {w[k] : k \in DOMAIN w}
  BY <1>6, InSequence
<1>10. ToSet(w) = ToSet(v) \ ids
  <2>1. ASSUME NEW e \in ToSet(w) PROVE e \in ToSet(v) \ ids
    BY <1>1, <1>4, <1>5, <1>6, <1>7, <1>8
  <2>2. ASSUME NEW e \in ToSet(v) \ ids PROVE e \in ToSet(w)
    BY <1>1, <1>4, <1>6, <1>7, <1>8, <1>9
  <2> QED
    BY <2>1, <2>2
<1>11. Descends(v) => Descends(w)
  BY <1>4, <1>5, <1>6, <1>8 DEF Descends
<1>12. Less(l.offset, Len(v) - n) \in Nat
  BY <1>1, <1>3 DEF Less
<1>13. /\ r \in Lists /\ r.view = w /\ r.offset = Less(l.offset, Len(v) - n)
       /\ r.hasMore = l.hasMore /\ r.loading = l.loading /\ r.stale = l.stale
       /\ r.queued = l.queued /\ r.skewed = l.skewed
  BY <1>2, <1>6, <1>12 DEF Lists
<1>14. l.offset = Len(v) => r.offset = n
  BY <1>1, <1>3, <1>13 DEF Less
<1> HIDE DEF r
<1> QED
  BY <1>6, <1>10, <1>11, <1>13, <1>14 DEF r, v

(* two lists are joined;                                                   *)
LEMMA Joined ==
    ASSUME NEW v \in Seq(Entries), NEW w \in Seq(Entries)
    PROVE  /\ v \o w \in Seq(Entries) /\ Len(v \o w) = Len(v) + Len(w)
           /\ ToSet(v \o w) = ToSet(v) \cup ToSet(w)
           /\ /\ Descends(v) /\ Descends(w)
              /\ \A d \in ToSet(v), e \in ToSet(w) : e < d
              => Descends(v \o w)
<1> DEFINE t == v \o w
           m == Len(v)
           n == Len(w)
<1>1. /\ m \in Nat /\ DOMAIN v = 1..m /\ ToSet(v) = {v[i] : i \in DOMAIN v}
      /\ n \in Nat /\ DOMAIN w = 1..n /\ ToSet(w) = {w[i] : i \in DOMAIN w}
  BY InSequence
<1>2. /\ t \in Seq(Entries) /\ Len(t) = m + n
      /\ \A i \in 1..m + n : t[i] = IF i <= m THEN v[i] ELSE w[i - m]
  BY ConcatProperties
<1> HIDE DEF t
<1>3. DOMAIN t = 1..m + n /\ ToSet(t) = {t[i] : i \in DOMAIN t}
  BY <1>2, InSequence
<1> HIDE DEF m, n
<1>4. /\ \A i \in DOMAIN v : i \in DOMAIN t /\ t[i] = v[i]
      /\ \A i \in DOMAIN w : i + m \in DOMAIN t /\ t[i + m] = w[i]
      /\ \A i \in DOMAIN t : \/ i \in DOMAIN v /\ t[i] = v[i]
                             \/ i > m /\ i - m \in DOMAIN w /\ t[i] = w[i - m]
  <2>1. ASSUME NEW i \in DOMAIN v PROVE i \in DOMAIN t /\ t[i] = v[i]
    BY <1>1, <1>2, <1>3
  <2>2. ASSUME NEW i \in DOMAIN w PROVE i + m \in DOMAIN t /\ t[i + m] = w[i]
    <3> DEFINE k == i + m
    <3>1. k \in 1..m + n /\ ~(k <= m) /\ k - m = i
      BY <1>1
    <3> HIDE DEF k
    <3>2. t[k] = w[k - m]
      BY <1>2, <3>1
    <3>3. k \in DOMAIN t /\ t[k] = w[i]
      BY <1>3, <3>1, <3>2
    <3> QED
      BY <3>3 DEF k
  <2>3. ASSUME NEW i \in DOMAIN t
        PROVE  \/ i \in DOMAIN v /\ t[i] = v[i]
               \/ i > m /\ i - m \in DOMAIN w /\ t[i] = w[i - m]
    BY <1>1, <1>2, <1>3
  <2> QED
    BY <2>1, <2>2, <2>3
<1>5. ToSet(t) = ToSet(v) \cup ToSet(w)
  <2>1. ASSUME NEW e \in ToSet(t) PROVE e \in ToSet(v) \cup ToSet(w)
    BY <1>1, <1>3, <1>4
  <2>2. ASSUME NEW e \in ToSet(v) \cup ToSet(w) PROVE e \in ToSet(t)
    BY <1>1, <1>3, <1>4
  <2> QED
    BY <2>1, <2>2
<1>6. ASSUME Descends(v), Descends(w), \A d \in ToSet(v), e \in ToSet(w) : e < d
      PROVE  Descends(t)
  <2> SUFFICES ASSUME NEW i \in DOMAIN t, NEW j \in DOMAIN t, i < j PROVE t[j] < t[i]
    BY DEF Descends
  <2>1. CASE i \in DOMAIN v /\ j \in DOMAIN v
    BY <1>4, <1>6, <2>1 DEF Descends
  <2>2. CASE i \in DOMAIN v /\ j \notin DOMAIN v
    BY <1>1, <1>4, <1>6, <2>2
  <2>3. CASE i \notin DOMAIN v
    <3>1. i > m /\ i - m \in DOMAIN w /\ t[i] = w[i - m]
      BY <1>4, <2>3
    <3>2. j > m /\ j - m \in DOMAIN w /\ t[j] = w[j - m] /\ i - m < j - m
      BY <1>1, <1>3, <1>4, <3>1
    <3> QED
      BY <1>6, <3>1, <3>2 DEF Descends
  <2> QED
    BY <2>1, <2>2, <2>3
<1> QED
  BY <1>2, <1>5, <1>6 DEF t, m, n

(* and an entry newer than the others goes first.                          *)
LEMMA Prepends ==
    ASSUME NEW v \in Seq(Entries), NEW e \in Entries
    PROVE  /\ <<e>> \o v \in Seq(Entries) /\ Len(<<e>> \o v) = Len(v) + 1
           /\ ToSet(<<e>> \o v) = ToSet(v) \cup {e}
           /\ Descends(v) /\ (\A d \in ToSet(v) : d < e) => Descends(<<e>> \o v)
<1> DEFINE u == <<e>>
<1>1. u \in Seq(Entries) /\ Len(u) = 1 /\ u[1] = e
  OBVIOUS
<1> HIDE DEF u
<1>2. DOMAIN u = 1..1 /\ ToSet(u) = {u[i] : i \in DOMAIN u} /\ Len(v) \in Nat
  BY <1>1, InSequence
<1>3. ToSet(u) = {e} /\ Descends(u)
  BY <1>1, <1>2 DEF Descends
<1>4. /\ u \o v \in Seq(Entries) /\ Len(u \o v) = Len(u) + Len(v)
      /\ ToSet(u \o v) = ToSet(u) \cup ToSet(v)
      /\ /\ Descends(u) /\ Descends(v)
         /\ \A d \in ToSet(u), x \in ToSet(v) : x < d
         => Descends(u \o v)
  BY <1>1, Joined
<1> QED
  BY <1>1, <1>2, <1>3, <1>4 DEF u

-----------------------------------------------------------------------------
(* Pages.  `Position` is where in the newest-first order an entry of a set *)
(* stands.                                                                 *)

Position(M, e) == Cardinality(M) + 1 - Place(M, e)

(* Where the entries of a set come in the list, the newest first.          *)
LEMMA Positions ==
    ASSUME NEW M \in SUBSET Entries
    PROVE  /\ Cardinality(M) \in Nat
           /\ \A e \in M : Position(M, e) \in 1..Cardinality(M) /\ NewestFirst(M)[Position(M, e)] = e
           /\ \A i \in 1..Cardinality(M) :
                 NewestFirst(M)[i] \in M /\ Position(M, NewestFirst(M)[i]) = i
           /\ \A d, e \in M : Position(M, d) < Position(M, e) <=> e < d
<1> DEFINE N == Cardinality(M)
           v == NewestFirst(M)
<1>1. M \in SUBSET Nat /\ IsFiniteSet(M)
  BY FS_Subset, EntriesAssumption
<1>2. /\ N \in Nat
      /\ \A i \in 1..N : v[i] \in M /\ Place(M, v[i]) = N + 1 - i
      /\ \A e \in M : Place(M, e) \in 1..N /\ v[N + 1 - Place(M, e)] = e
  BY Newest
<1>3. \A d, e \in M : d < e => Place(M, d) < Place(M, e)
  BY <1>1, Numbered
<1> HIDE DEF N, v
<1>4. \A e \in M : Position(M, e) = N + 1 - Place(M, e)
  BY DEF Position, N
<1>5. \A e \in M : Position(M, e) \in 1..N /\ v[Position(M, e)] = e
  BY <1>2, <1>4
<1>6. \A i \in 1..N : v[i] \in M /\ Position(M, v[i]) = i
  BY <1>2, <1>4
<1>7. ASSUME NEW d \in M, NEW e \in M PROVE Position(M, d) < Position(M, e) <=> e < d
  <2>1. /\ d \in Nat /\ e \in Nat /\ Place(M, d) \in Nat /\ Place(M, e) \in Nat
        /\ (d < e => Place(M, d) < Place(M, e)) /\ (e < d => Place(M, e) < Place(M, d))
        /\ (d = e => Place(M, e) = Place(M, d))
    BY <1>1, <1>2, <1>3
  <2>2. Position(M, d) = N + 1 - Place(M, d) /\ Position(M, e) = N + 1 - Place(M, e)
    BY <1>4
  <2> QED
    BY <1>2, <2>1, <2>2
<1> QED
  BY <1>2, <1>5, <1>6, <1>7 DEF N, v

(* A page holds the entries at its positions, in the order of the list.    *)
LEMMA PageRows ==
    ASSUME NEW f, NEW n \in Nat, store \in SUBSET Entries
    PROVE  LET p == Page(f, n)
               M == Matching(f)
           IN /\ p.kind = "page" /\ p.from = n /\ p.more \in BOOLEAN
              /\ p.more <=> Cardinality(M) > n + PageSize
              /\ p.entries \in Seq(Entries) /\ Descends(p.entries)
              /\ ToSet(p.entries) = {e \in M : Position(M, e) \in n + 1..n + PageSize}
<1> DEFINE M == Matching(f)
           N == Cardinality(M)
           v == NewestFirst(M)
           last == IF n + PageSize < N THEN n + PageSize ELSE N
           w == SubSeq(v, n + 1, last)
<1>1. M \in SUBSET Entries /\ PageSize \in Nat
  BY ViewsAssumption DEF Matching
<1>2. /\ N \in Nat
      /\ \A e \in M : Position(M, e) \in 1..N /\ v[Position(M, e)] = e
      /\ \A i \in 1..N : v[i] \in M /\ Position(M, v[i]) = i
      /\ \A d, e \in M : Position(M, d) < Position(M, e) <=> e < d
  BY <1>1, Positions
<1>3. Page(f, n) = [kind |-> "page", from |-> n, more |-> N > n + PageSize, entries |-> w]
  BY DEF Page, Listed
<1> HIDE DEF M, N, v
<1>4. last \in Nat /\ last <= N /\ last <= n + PageSize
  BY <1>1, <1>2
<1>5. \A i \in 1..N : i <= n + PageSize => i <= last
  BY <1>1, <1>2
<1> HIDE DEF last
<1>6. /\ w \in Seq(Entries) /\ Len(w) = IF n + 1 <= last THEN last - n ELSE 0
      /\ \A i \in 1..last - n : w[i] = v[n + i]
  <2>1. \A i \in n + 1..last : v[i] \in Entries
    BY <1>1, <1>2, <1>4
  <2>2. /\ w \in Seq(Entries) /\ Len(w) = (IF n + 1 <= last THEN last - (n + 1) + 1 ELSE 0)
        /\ \A i \in 1..last - (n + 1) + 1 : w[i] = v[n + 1 + i - 1]
    BY <1>4, <2>1, SubSeqProperties
  <2> HIDE DEF w
  <2> QED
    BY <1>4, <2>2
<1> HIDE DEF w
<1>7. Len(w) \in Nat /\ DOMAIN w = 1..Len(w) /\ ToSet(w) = {w[i] : i \in DOMAIN w}
  BY <1>6, InSequence
<1>8. \A i \in DOMAIN w : i \in Nat /\ n + i \in 1..N /\ n + i \in n + 1..n + PageSize /\ w[i] = v[n + i]
  <2> SUFFICES ASSUME NEW i \in DOMAIN w
               PROVE  i \in Nat /\ n + i \in 1..N /\ n + i \in n + 1..n + PageSize /\ w[i] = v[n + i]
    OBVIOUS
  <2>1. i \in 1..last - n /\ i \in Nat
    BY <1>4, <1>6, <1>7
  <2>2. w[i] = v[n + i]
    BY <1>6, <2>1
  <2>3. n + i \in 1..N /\ n + i \in n + 1..n + PageSize
    BY <1>1, <1>2, <1>4, <2>1
  <2> QED
    BY <2>1, <2>2, <2>3
<1>9. ASSUME NEW i \in DOMAIN w
      PROVE  w[i] \in M /\ Position(M, w[i]) = n + i /\ n + i \in n + 1..n + PageSize
  <2> DEFINE k == n + i
  <2>1. k \in 1..N /\ w[i] = v[k] /\ k \in n + 1..n + PageSize
    BY <1>8
  <2> HIDE DEF k
  <2>2. w[i] \in M /\ Position(M, w[i]) = k
    BY <1>2, <2>1
  <2> QED
    BY <2>1, <2>2 DEF k
<1>10. ASSUME NEW e \in M, Position(M, e) \in n + 1..n + PageSize PROVE e \in ToSet(w)
  <2> DEFINE k == Position(M, e)
             i == k - n
  <2>1. k \in 1..N /\ v[k] = e /\ k <= last /\ k > n
    BY <1>2, <1>5, <1>10
  <2> HIDE DEF k
  <2>2. i \in DOMAIN w /\ n + i = k
    BY <1>4, <1>6, <1>7, <2>1
  <2> HIDE DEF i
  <2> QED
    BY <1>7, <1>8, <2>1, <2>2
<1>11. ToSet(w) = {e \in M : Position(M, e) \in n + 1..n + PageSize}
  BY <1>7, <1>9, <1>10
<1>12. Descends(w)
  <2> SUFFICES ASSUME NEW i \in DOMAIN w, NEW j \in DOMAIN w, i < j PROVE w[j] < w[i]
    BY DEF Descends
  <2>1. n + i < n + j
    BY <1>8
  <2>2. /\ w[i] \in M /\ w[j] \in M /\ Position(M, w[i]) < Position(M, w[j])
    BY <1>9, <2>1
  <2> HIDE DEF Position
  <2> QED
    BY <1>2, <2>2
<1> DEFINE p == Page(f, n)
<1>13. p.kind = "page" /\ p.from = n /\ p.entries = w /\ p.more = (N > n + PageSize)
  BY <1>3
<1> HIDE DEF p
<1>14. p.more \in BOOLEAN /\ (p.more <=> N > n + PageSize)
  <2>1. (N > n + PageSize) \in BOOLEAN
    OBVIOUS
  <2> QED
    BY <1>13, <2>1, Zenon
<1>15. /\ p.entries \in Seq(Entries) /\ Descends(p.entries)
       /\ ToSet(p.entries) = {e \in M : Position(M, e) \in n + 1..n + PageSize}
  BY <1>6, <1>11, <1>12, <1>13, Zenon
<1> QED
  BY <1>13, <1>14, <1>15, Zenon DEF M, N, p

(* A list in order that leaves out nothing newer than what it shows is the *)
(* head of all that matches.                                               *)
LEMMA Topmost ==
    ASSUME NEW M \in SUBSET Entries, NEW v \in Seq(Entries), Descends(v),
           ToSet(v) \subseteq M,
           \A e \in M : e \in ToSet(v) \/ \A d \in ToSet(v) : e < d
    PROVE  /\ Len(v) \in Nat /\ Len(v) <= Cardinality(M)
           /\ \A i \in 1..Len(v) : v[i] = NewestFirst(M)[i]
           /\ \A e \in M : Position(M, e) <= Len(v) <=> e \in ToSet(v)
<1> DEFINE n == Len(v)
           N == Cardinality(M)
           T == ToSet(v)
           L == NewestFirst(M)
<1>1. n \in Nat /\ DOMAIN v = 1..n /\ T = {v[i] : i \in DOMAIN v}
  BY InSequence
<1>2. /\ N \in Nat
      /\ \A e \in M : Position(M, e) \in 1..N /\ L[Position(M, e)] = e
  BY Positions
<1>3. IsFiniteSet(M) /\ M \in SUBSET Nat
  BY FS_Subset, EntriesAssumption
<1>4. \A i, j \in DOMAIN v : i < j => v[j] < v[i]
  BY DEF Descends
<1> HIDE DEF n, N, T, L
<1>5. \A i \in DOMAIN v : v[i] \in M /\ v[i] \in Nat
  BY <1>1, <1>3 DEF T
<1>6. ASSUME NEW k \in 0..n
      PROVE  LET A == {v[j] : j \in 1..k} IN
             /\ A \in SUBSET M /\ IsFiniteSet(A) /\ Cardinality(A) = k /\ k <= N
  <2> DEFINE A == {v[j] : j \in 1..k}
             g == [j \in 1..k |-> v[j]]
  <2>1. \A j \in 1..k : j \in DOMAIN v
    BY <1>1
  <2>2. A \in SUBSET M
    BY <1>5, <2>1
  <2>3. \A i, j \in 1..k : v[i] = v[j] => i = j
    BY <1>4, <1>5, <2>1
  <2>4. g \in Bijection(1..k, A)
    BY <2>3 DEF Bijection, Injection, Surjection, IsInjective
  <2>5. IsFiniteSet(1..k) /\ Cardinality(1..k) = k
    BY <1>1, FS_Interval
  <2> HIDE DEF A, g
  <2>6. IsFiniteSet(A) /\ Cardinality(A) = k
    <3>1. ExistsBijection(1..k, A)
      BY <2>4 DEF ExistsBijection
    <3> QED
      BY <2>5, <3>1, FS_Bijection
  <2>7. k <= N
    BY <1>3, <2>2, <2>6, FS_Subset DEF N
  <2> QED
    BY <2>2, <2>6, <2>7 DEF A
<1>7. ASSUME NEW i \in 1..n PROVE Position(M, v[i]) = i
  <2> DEFINE A == {v[j] : j \in 1..i - 1}
             B == {d \in M : d <= v[i]}
  <2>1. i - 1 \in 0..n /\ i \in DOMAIN v
    BY <1>1
  <2>2. A \in SUBSET M /\ IsFiniteSet(A) /\ Cardinality(A) = i - 1
    BY <1>6, <2>1
  <2>3. ASSUME NEW d \in M, d <= v[i] PROVE d \notin A
    <3>1. \A j \in 1..i - 1 : j \in DOMAIN v /\ j < i
      BY <1>1
    <3>2. \A j \in 1..i - 1 : v[i] < v[j] /\ v[j] \in Nat /\ v[i] \in Nat
      BY <1>4, <1>5, <2>1, <3>1
    <3>3. d \in Nat
      BY <1>3
    <3>4. \A j \in 1..i - 1 : d # v[j]
      BY <2>3, <3>2, <3>3
    <3> QED
      BY <3>4
  <2>4. ASSUME NEW d \in M, d \notin A PROVE d <= v[i]
    <3>1. v[i] \in T /\ v[i] \in Nat /\ d \in Nat
      BY <1>1, <1>3, <1>5, <2>1
    <3>2. CASE d \in T
      <4>1. PICK j \in DOMAIN v : d = v[j]
        BY <1>1, <3>2
      <4>2. j \notin 1..i - 1
        BY <2>4, <4>1
      <4>3. j = i \/ i < j
        BY <1>1, <4>2
      <4> QED
        BY <1>4, <2>1, <3>1, <4>1, <4>3
    <3>3. CASE d \notin T
      <4>1. d < v[i]
        BY <3>1, <3>3 DEF T
      <4> QED
        BY <3>1, <4>1
    <3> QED
      BY <3>2, <3>3
  <2>5. B = M \ A
    BY <2>3, <2>4
  <2> HIDE DEF A
  <2>6. Cardinality(M \ A) = N - Cardinality(M \cap A) /\ M \cap A = A
    BY <1>3, <2>2, FS_Difference DEF N
  <2>7. Place(M, v[i]) = Cardinality(B)
    BY DEF Place
  <2>8. Place(M, v[i]) = N - (i - 1)
    BY <2>2, <2>5, <2>6, <2>7
  <2> QED
    BY <1>2, <2>8 DEF Position, N
<1>8. n <= N
  <2>1. n \in 0..n
    BY <1>1
  <2> QED
    BY <1>6, <2>1
<1>9. \A i \in 1..n : v[i] = L[i]
  BY <1>1, <1>2, <1>5, <1>7
<1>10. ASSUME NEW e \in M PROVE Position(M, e) <= n <=> e \in T
  <2>1. ASSUME Position(M, e) <= n PROVE e \in T
    <3>1. Position(M, e) \in 1..n /\ L[Position(M, e)] = e
      BY <1>1, <1>2, <2>1
    <3> HIDE DEF Position
    <3>2. v[Position(M, e)] = e /\ Position(M, e) \in DOMAIN v
      BY <1>1, <1>9, <3>1
    <3> QED
      BY <1>1, <3>2
  <2>2. ASSUME e \in T PROVE Position(M, e) <= n
    <3>1. PICK i \in 1..n : e = v[i]
      BY <1>1, <2>2
    <3>2. Position(M, e) = i
      BY <1>7, <3>1
    <3> QED
      BY <1>1, <3>1, <3>2
  <2> QED
    BY <2>1, <2>2
<1> QED
  BY <1>1, <1>8, <1>9, <1>10 DEF n, N, T, L

-----------------------------------------------------------------------------
(* The messages the list depends on.  `Carries`: the second sequence holds *)
(* those of the first, in their order.                                     *)

Mattering == {"page", "new", "deleted", "bulk", "ids"}
Placed(s) == {i \in DOMAIN s : s[i].kind \in Mattering}

Embeds(s, t, f) ==
    /\ f \in [Placed(t) -> Placed(s)]
    /\ \A i \in Placed(t) : t[i] = s[f[i]]
    /\ \A i, j \in Placed(t) : i < j <=> f[i] < f[j]
    /\ \A k \in Placed(s) : \E i \in Placed(t) : f[i] = k

Carries(s, t) == Sequence(t) /\ \E f : Embeds(s, t, f)

(* Positions can be told from one another.                                 *)
LEMMA PlacedNumbers ==
    ASSUME NEW s, Sequence(s)
    PROVE  DOMAIN s \in SUBSET Nat /\ \A i \in DOMAIN s : i > 0
<1>1. PICK S : s \in Seq(S)
  BY DEF Sequence
<1> QED
  BY <1>1, LenProperties

(* Nothing sent or taken is such a step;                                   *)
LEMMA CarriesSelf == ASSUME NEW s, Sequence(s) PROVE Carries(s, s)
<1> DEFINE f == [i \in Placed(s) |-> i]
<1>1. Embeds(s, s, f)
  BY DEF Embeds
<1> HIDE DEF f
<1> QED
  BY <1>1 DEF Carries

(* two such steps are one.                                                 *)
LEMMA CarriesTwice ==
    ASSUME NEW s, NEW t, NEW u, Carries(s, t), Carries(t, u)
    PROVE  Carries(s, u)
<1>1. PICK f : Embeds(s, t, f)
  BY DEF Carries
<1>2. PICK g : Embeds(t, u, g)
  BY DEF Carries
<1> DEFINE h == [i \in Placed(u) |-> f[g[i]]]
<1>3. \A i \in Placed(u) : g[i] \in Placed(t) /\ u[i] = t[g[i]]
  BY <1>2 DEF Embeds
<1>4. \A i \in Placed(u) : f[g[i]] \in Placed(s) /\ u[i] = s[f[g[i]]]
  BY <1>1, <1>3 DEF Embeds
<1>5. \A i, j \in Placed(u) : i < j <=> f[g[i]] < f[g[j]]
  BY <1>1, <1>2, <1>3 DEF Embeds
<1>6. \A k \in Placed(s) : \E i \in Placed(u) : f[g[i]] = k
  BY <1>1, <1>2 DEF Embeds
<1>7. Embeds(s, u, h)
  BY <1>4, <1>5, <1>6 DEF Embeds
<1> HIDE DEF h
<1> QED
  BY <1>7 DEF Carries

(* A message that does not matter is sent,                                 *)
LEMMA CarriesAppend ==
    ASSUME NEW s, Sequence(s), NEW x, x.kind \notin Mattering
    PROVE  Carries(s, Append(s, x))
<1> DEFINE t == Append(s, x)
           f == [i \in Placed(t) |-> i]
<1>1. /\ Sequence(t) /\ Len(s) \in Nat /\ DOMAIN s = 1..Len(s)
      /\ DOMAIN t = 1..Len(s) + 1 /\ t[Len(s) + 1] = x
      /\ \A i \in DOMAIN s : t[i] = s[i]
  BY Appended
<1> HIDE DEF t
<1>2. /\ \A i \in DOMAIN t : i = Len(s) + 1 \/ i \in DOMAIN s
      /\ \A i \in DOMAIN s : i \in DOMAIN t
  BY <1>1
<1>3. Placed(t) = Placed(s) /\ \A i \in Placed(t) : t[i] = s[i]
  BY <1>1, <1>2 DEF Placed
<1>4. Embeds(s, t, f)
  BY <1>3 DEF Embeds
<1> HIDE DEF f
<1> QED
  BY <1>1, <1>4 DEF Carries, t

(* taken,                                                                  *)
LEMMA CarriesTail ==
    ASSUME NEW s, Sequence(s), s # <<>>, Head(s).kind \notin Mattering
    PROVE  Carries(s, Tail(s))
<1> DEFINE t == Tail(s)
           f == [i \in Placed(t) |-> i + 1]
<1>1. /\ Sequence(t) /\ Len(s) \in Nat \ {0} /\ DOMAIN s = 1..Len(s)
      /\ DOMAIN t = 1..Len(s) - 1 /\ s[1].kind \notin Mattering
      /\ \A i \in DOMAIN t : i + 1 \in DOMAIN s /\ t[i] = s[i + 1]
  BY Dropped
<1> HIDE DEF t
<1>2. \A i \in Placed(t) : i \in Nat /\ i + 1 \in Placed(s) /\ t[i] = s[i + 1]
  BY <1>1 DEF Placed
<1>3. ASSUME NEW k \in Placed(s) PROVE \E i \in Placed(t) : i + 1 = k
  <2>1. k \in DOMAIN s /\ k # 1
    BY <1>1 DEF Placed
  <2>2. k - 1 \in DOMAIN t /\ k - 1 + 1 = k
    BY <1>1, <2>1
  <2>3. t[k - 1] = s[k]
    BY <1>1, <2>2
  <2>4. k - 1 \in Placed(t)
    BY <2>2, <2>3 DEF Placed
  <2> QED
    BY <2>2, <2>4
<1>4. \A i, j \in Placed(t) : i < j <=> i + 1 < j + 1
  BY <1>2
<1>5. Embeds(s, t, f)
  BY <1>2, <1>3, <1>4 DEF Embeds
<1> HIDE DEF f
<1> QED
  BY <1>1, <1>5 DEF Carries, t

(* or replaced.                                                            *)
LEMMA CarriesRemoval ==
    ASSUME NEW s, Sequence(s), NEW k \in DOMAIN s, s[k].kind \notin Mattering
    PROVE  Carries(s, RemoveAt(s, k))
<1> DEFINE t == RemoveAt(s, k)
           at(i) == IF i < k THEN i ELSE i + 1
           from(j) == IF j < k THEN j ELSE j - 1
           f == [i \in Placed(t) |-> at(i)]
<1>1. /\ Sequence(t) /\ Len(s) \in Nat \ {0} /\ DOMAIN s = 1..Len(s)
      /\ DOMAIN t = 1..Len(s) - 1
      /\ \A i \in 1..Len(s) - 1 : t[i] = IF i < k THEN s[i] ELSE s[i + 1]
  BY Removed1
<1> HIDE DEF t
<1>2. \A i \in DOMAIN t : i \in Nat /\ at(i) \in DOMAIN s /\ t[i] = s[at(i)]
  BY <1>1
<1>3. \A j \in DOMAIN s : j # k => from(j) \in DOMAIN t /\ at(from(j)) = j
  BY <1>1
<1>4. \A i, j \in DOMAIN t : i < j <=> at(i) < at(j)
  BY <1>1
<1> HIDE DEF at, from
<1>5. \A i \in Placed(t) : at(i) \in Placed(s) /\ t[i] = s[at(i)]
  BY <1>2 DEF Placed
<1>6. ASSUME NEW j \in Placed(s) PROVE \E i \in Placed(t) : at(i) = j
  <2>1. from(j) \in DOMAIN t /\ at(from(j)) = j /\ t[from(j)] = s[j]
    BY <1>2, <1>3 DEF Placed
  <2> QED
    BY <2>1 DEF Placed
<1>7. Embeds(s, t, f)
  BY <1>4, <1>5, <1>6 DEF Embeds, Placed
<1> HIDE DEF f
<1> QED
  BY <1>1, <1>7 DEF Carries, t

(* So reading Insights leaves what matters of the messages.                *)
LEMMA CarriesReads ==
    ASSUME NEW s, Sequence(s)
    PROVE  Carries(s, Append(Unanswered(s), Reply))
<1> DEFINE older == {i \in DOMAIN s : s[i].kind = "insights"}
<1>1. Carries(s, Unanswered(s))
  <2>1. CASE older = {}
    BY <2>1, CarriesSelf DEF Unanswered
  <2>2. CASE older # {}
    <3> DEFINE k == CHOOSE i \in older : TRUE
    <3>1. k \in older
      BY <2>2
    <3>2. k \in DOMAIN s /\ s[k].kind \notin Mattering
      BY <3>1 DEF Mattering
    <3>3. Unanswered(s) = RemoveAt(s, k)
      BY <2>2 DEF Unanswered
    <3> HIDE DEF k
    <3> QED
      BY <3>2, <3>3, CarriesRemoval
  <2> QED
    BY <2>1, <2>2
<1>2. Reply.kind \notin Mattering
  BY DEF Reply, Mattering
<1>3. Carries(Unanswered(s), Append(Unanswered(s), Reply))
  BY <1>1, <1>2, CarriesAppend DEF Carries
<1> QED
  BY <1>1, <1>3, CarriesTwice

-----------------------------------------------------------------------------
(* The invariant of the list.  A delete that was served takes its entries  *)
(* out of the database, and its message out of the list and the pages      *)
(* before it.                                                              *)

Suits(f, e) == f = "all" \/ e \in Quick

Shifts(m) == m.kind \in {"deleted", "bulk"} /\ m.ok
Takes(m, e) ==
    \/ m.kind = "deleted" /\ m.ok /\ m.entry = e
    \/ m.kind = "bulk" /\ m.ok /\ e \in m.ids
Taken(s, i, e) == \E j \in DOMAIN s : j > i /\ Takes(s[j], e)
Undisturbed(s, k) == \A j \in DOMAIN s : j < k => ~Shifts(s[j])

Arrives(s, e) == \E i \in DOMAIN s : s[i].kind = "new" /\ s[i].entry = e

\* A new entry the filter shows, which arrives before a page does, has the list read anew.
Doomed(s, k, f) == \E j \in DOMAIN s : j < k /\ s[j].kind = "new" /\ Suits(f, s[j].entry)

\* Entries are dictated one after the other, and what is stored was dictated.
Dated(st, dict) ==
    /\ st \in SUBSET dict /\ dict \in SUBSET Entries
    /\ \A e \in dict, f \in Entries \ dict : e < f

\* The messages: pages and deletes are about the entries there have been,
\* and new entries follow one another.
Pages(s, st, dict) ==
    \A i \in DOMAIN s : s[i].kind = "page" =>
        /\ s[i].entries \in Seq(Entries) /\ s[i].from \in Nat /\ s[i].more \in BOOLEAN
        /\ \A e \in ToSet(s[i].entries) : e \in dict /\ (e \in st \/ Taken(s, i, e))
News(s, dict, pend) ==
    \A i \in DOMAIN s : s[i].kind = "new" =>
        /\ s[i].entry \in dict /\ pend[s[i].entry] = "no"
        /\ \A e \in dict : s[i].entry < e => Arrives(s, e)
        /\ \A j \in DOMAIN s : j < i =>
              /\ s[j].kind = "page" => \A e \in ToSet(s[j].entries) : e < s[i].entry
              /\ s[j].kind = "new" => s[j].entry < s[i].entry
Deletes(s, st, dict, named) ==
    \A i \in DOMAIN s :
        /\ s[i].kind = "deleted" => s[i].entry \in dict /\ (s[i].ok => s[i].entry \notin st)
        /\ s[i].kind = "bulk" => /\ s[i].ids \in SUBSET dict /\ s[i].ids \subseteq named
                                 /\ s[i].ok => s[i].ids \cap st = {}
Posted(s, st, dict, pend, named) ==
    Sequence(s) /\ Pages(s, st, dict) /\ News(s, dict, pend) /\ Deletes(s, st, dict, named)

\* What the list shows is stored, or about to be taken out.
Seen(s, l, st, dict) ==
    \A e \in ToSet(l.view) :
        /\ e \in dict /\ (e \in st \/ l.skewed \/ Taken(s, 0, e))
        /\ \A i \in DOMAIN s : s[i].kind = "new" => e < s[i].entry

\* One page at a time; one that is not wanted any more is read again.
Loader(s, l) ==
    /\ l.stale = l.queued
    /\ l.stale => l.loading /\ l.view = <<>>
    /\ \A i \in DOMAIN s : s[i].kind = "page" => l.loading
    /\ \A i, j \in DOMAIN s : s[i].kind = "page" /\ s[j].kind = "page" => i = j

\* A list that shows, of what the filter matches, the newest, up to what arrives.
Good(v, more, s, st, f) ==
    /\ Descends(v)
    /\ \A e \in ToSet(v) : Suits(f, e)
    /\ \A e \in st : Suits(f, e) =>
          e \in ToSet(v) \/ Arrives(s, e) \/ (more /\ \A d \in ToSet(v) : e < d)

\* A page that continues the list when it arrives.
Continues(s, k, l, st, f) ==
    /\ s[k].from = l.offset /\ Good(l.view \o s[k].entries, s[k].more, s, st, f)
    /\ l.view = <<>> \/ Undisturbed(s, k)
Ordered(s, l, st, f) ==
    /\ l.offset = Len(l.view) /\ Good(l.view, l.hasMore, s, st, f)
    /\ \A k \in DOMAIN s : s[k].kind = "page" =>
          l.stale \/ Doomed(s, k, f) \/ Continues(s, k, l, st, f)

Listing(s, l, f, typing, st, dict, pend, named) ==
    /\ l \in Lists /\ Dated(st, dict) /\ Posted(s, st, dict, pend, named)
    /\ Seen(s, l, st, dict) /\ Loader(s, l)
    /\ typing \/ l.skewed \/ Ordered(s, l, st, f)

(* A message more.                                                         *)
Extended(s, x, t, n) ==
    /\ Sequence(t) /\ n \in Nat /\ n > 0 /\ n \in DOMAIN t /\ t[n] = x
    /\ \A i \in DOMAIN s : i \in Nat /\ i < n /\ i \in DOMAIN t /\ t[i] = s[i]
    /\ \A i \in DOMAIN t : i = n \/ i \in DOMAIN s
    /\ \A e : Arrives(s, e) => Arrives(t, e)
    /\ x.kind = "new" => Arrives(t, x.entry)
    /\ \A i, e : Taken(s, i, e) => Taken(t, i, e)
    /\ \A i, e : i < n /\ Takes(x, e) => Taken(t, i, e)
    /\ \A k, f : Doomed(s, k, f) => Doomed(t, k, f)
    /\ \A k \in DOMAIN s : Undisturbed(s, k) => Undisturbed(t, k)

(* What a sequence has, it has with one more behind it.                    *)
LEMMA More ==
    ASSUME NEW s, Sequence(s), NEW x
    PROVE  Extended(s, x, Append(s, x), Len(s) + 1)
<1> DEFINE t == Append(s, x)
           n == Len(s) + 1
<1>1. /\ Sequence(t) /\ Len(s) \in Nat /\ DOMAIN s = 1..Len(s)
      /\ DOMAIN t = 1..Len(s) + 1 /\ t[Len(s) + 1] = x
      /\ \A i \in DOMAIN s : t[i] = s[i]
  BY Appended
<1> HIDE DEF t
<1>2. /\ n \in Nat /\ n > 0 /\ n \in DOMAIN t /\ t[n] = x
      /\ \A i \in DOMAIN s : i \in Nat /\ i < n /\ i \in DOMAIN t /\ t[i] = s[i]
      /\ \A i \in DOMAIN t : i = n \/ i \in DOMAIN s
  BY <1>1
<1> HIDE DEF n
<1>3. \A e : Arrives(s, e) => Arrives(t, e)
  BY <1>2 DEF Arrives
<1>4. x.kind = "new" => Arrives(t, x.entry)
  BY <1>2 DEF Arrives
<1>5. \A i, e : Taken(s, i, e) => Taken(t, i, e)
  BY <1>2 DEF Taken
<1>6. \A i, e : i < n /\ Takes(x, e) => Taken(t, i, e)
  <2> SUFFICES ASSUME NEW i, NEW e, i < n, Takes(x, e) PROVE \E j \in DOMAIN t : j > i /\ Takes(t[j], e)
    BY DEF Taken
  <2>1. n \in DOMAIN t /\ n > i /\ Takes(t[n], e)
    BY <1>2
  <2> QED
    BY <2>1
<1>7. \A k, f : Doomed(s, k, f) => Doomed(t, k, f)
  BY <1>2 DEF Doomed
<1>8. \A k \in DOMAIN s : Undisturbed(s, k) => Undisturbed(t, k)
  <2> SUFFICES ASSUME NEW k \in DOMAIN s, Undisturbed(s, k), NEW j \in DOMAIN t, j < k PROVE ~Shifts(t[j])
    BY DEF Undisturbed
  <2>1. j \in DOMAIN s
    BY <1>2
  <2> QED
    BY <1>2, <2>1 DEF Undisturbed
<1> QED
  BY <1>1, <1>2, <1>3, <1>4, <1>5, <1>6, <1>7, <1>8 DEF Extended, t, n

(* A message less.                                                         *)
LEMMA Fewer ==
    ASSUME NEW s, Sequence(s), s # <<>>
    PROVE  LET t == Tail(s)
               h == Head(s)
           IN /\ Sequence(t) /\ 1 \in DOMAIN s /\ s[1] = h
              /\ \A i \in DOMAIN t : i \in Nat /\ i > 0 /\ i + 1 \in DOMAIN s /\ t[i] = s[i + 1]
              /\ \A j \in DOMAIN s : j \in Nat /\ j > 0 /\ (j = 1 \/ (j - 1 \in DOMAIN t /\ t[j - 1] = s[j]))
              /\ \A e : Arrives(s, e) => Arrives(t, e) \/ (h.kind = "new" /\ h.entry = e)
              /\ \A i \in Nat : \A e : Taken(s, i + 1, e) => Taken(t, i, e)
              /\ \A e : Taken(s, 0, e) => Taken(t, 0, e) \/ Takes(h, e)
              /\ \A k \in Nat : \A f : Doomed(s, k + 1, f) => Doomed(t, k, f) \/ (h.kind = "new" /\ Suits(f, h.entry))
              /\ \A k \in Nat : k > 0 /\ Undisturbed(s, k + 1) => Undisturbed(t, k) /\ ~Shifts(h)
<1> DEFINE t == Tail(s)
           h == Head(s)
<1>1. /\ Sequence(t) /\ Len(s) \in Nat \ {0} /\ DOMAIN s = 1..Len(s)
      /\ DOMAIN t = 1..Len(s) - 1 /\ h = s[1]
      /\ \A i \in DOMAIN t : i + 1 \in DOMAIN s /\ t[i] = s[i + 1]
  BY Dropped
<1> HIDE DEF t, h
<1>2. /\ 1 \in DOMAIN s
      /\ \A i \in DOMAIN t : i \in Nat /\ i > 0 /\ i + 1 \in DOMAIN s /\ t[i] = s[i + 1]
      /\ \A j \in DOMAIN s : j \in Nat /\ j > 0 /\ (j = 1 \/ (j - 1 \in DOMAIN t /\ t[j - 1] = s[j]))
  BY <1>1
<1>3. \A e : Arrives(s, e) => Arrives(t, e) \/ (h.kind = "new" /\ h.entry = e)
  BY <1>1, <1>2 DEF Arrives
<1>4. ASSUME NEW i \in Nat, NEW e, Taken(s, i + 1, e) PROVE Taken(t, i, e)
  <2>1. PICK j \in DOMAIN s : j > i + 1 /\ Takes(s[j], e)
    BY <1>4 DEF Taken
  <2>2. j # 1 /\ j - 1 > i /\ j \in Nat
    BY <1>2, <2>1
  <2> QED
    BY <1>2, <2>1, <2>2 DEF Taken
<1>5. ASSUME NEW e, Taken(s, 0, e) PROVE Taken(t, 0, e) \/ Takes(h, e)
  <2>1. PICK j \in DOMAIN s : Takes(s[j], e)
    BY <1>5 DEF Taken
  <2>2. CASE j = 1
    BY <1>1, <2>1, <2>2
  <2>3. CASE j # 1
    <3>1. j - 1 \in DOMAIN t /\ t[j - 1] = s[j] /\ j - 1 > 0
      BY <1>2, <2>3
    <3> QED
      BY <2>1, <3>1 DEF Taken
  <2> QED
    BY <2>2, <2>3
<1>6. ASSUME NEW k \in Nat, NEW f, Doomed(s, k + 1, f)
      PROVE  Doomed(t, k, f) \/ (h.kind = "new" /\ Suits(f, h.entry))
  <2>1. PICK j \in DOMAIN s : j < k + 1 /\ s[j].kind = "new" /\ Suits(f, s[j].entry)
    BY <1>6 DEF Doomed
  <2>2. CASE j = 1
    BY <1>1, <2>1, <2>2
  <2>3. CASE j # 1
    <3>1. j - 1 \in DOMAIN t /\ t[j - 1] = s[j] /\ j - 1 < k
      BY <1>2, <2>1, <2>3
    <3> QED
      BY <2>1, <3>1 DEF Doomed
  <2> QED
    BY <2>2, <2>3
<1>7. ASSUME NEW k \in Nat, k > 0, Undisturbed(s, k + 1) PROVE Undisturbed(t, k) /\ ~Shifts(h)
  <2>1. 1 < k + 1
    BY <1>7
  <2>2. \A j \in DOMAIN t : j < k => j + 1 < k + 1
    BY <1>2
  <2> QED
    BY <1>1, <1>2, <1>7, <2>1, <2>2 DEF Undisturbed
<1> QED
  BY <1>1, <1>2, <1>3, <1>4, <1>5, <1>6, <1>7 DEF t, h

-----------------------------------------------------------------------------
(* A list stays in order while what arrives keeps arriving.                *)
LEMMA GoodStill ==
    ASSUME NEW v, NEW more, NEW s, NEW t, NEW st, NEW st2, NEW f, Good(v, more, s, st, f),
           \A e \in st2 : Suits(f, e) =>
               Arrives(t, e) \/ (e \in st /\ ~Arrives(s, e))
    PROVE  Good(v, more, t, st2, f)
BY DEF Good

(* The entries there have been are numbers, and so is what is stored.      *)
LEMMA EntriesAreNumbers ==
    ASSUME NEW st, NEW dict, Dated(st, dict)
    PROVE  /\ st \in SUBSET Nat /\ dict \in SUBSET Nat /\ Entries \in SUBSET Nat
           /\ st \in SUBSET dict /\ dict \in SUBSET Entries
BY EntriesAssumption DEF Dated

(* An event or an answer about entries is sent: a new entry is named by    *)
(* it, and what it takes out is not stored any more.                       *)
Tells(x, s, st, dict, st2, dict2, pend2, named2) ==
    /\ x.kind \in {"new", "deleted", "bulk", "ids"}
    /\ Dated(st2, dict2) /\ dict \in SUBSET dict2
    /\ \A e \in dict : e \in st2 => e \in st
    /\ \A e \in st : e \in st2 \/ Takes(x, e)
    /\ \A e \in dict2 : e \in dict \/ (x.kind = "new" /\ x.entry = e)
    /\ \A i \in DOMAIN s : /\ s[i].kind = "new" => pend2[s[i].entry] = "no"
                           /\ s[i].kind = "bulk" => s[i].ids \subseteq named2
    /\ x.kind = "new" => x.entry \in dict2 \ dict /\ pend2[x.entry] = "no"
    /\ x.kind = "deleted" => x.entry \in dict2 /\ (x.ok => x.entry \notin st2)
    /\ x.kind = "bulk" => /\ x.ids \in SUBSET dict2 /\ x.ids \subseteq named2
                          /\ x.ok => x.ids \cap st2 = {}

(* An entry not dictated before is later than all that were.               *)
LEMMA Latest ==
    ASSUME NEW st, NEW dict, Dated(st, dict), NEW e \in Entries \ dict
    PROVE  e \in Nat /\ ~(e < e) /\ \A d \in dict : d < e /\ ~(e < d)
<1>1. e \in Nat /\ dict \in SUBSET Nat /\ \A d \in dict : d < e
  BY EntriesAssumption DEF Dated
<1> QED
  BY <1>1

(* The invariant when such a message is sent.                              *)
LEMMA ListingSent ==
    ASSUME NEW s, NEW l, NEW f, NEW typing, NEW st, NEW dict, NEW pend, NEW named,
           Listing(s, l, f, typing, st, dict, pend, named),
           NEW x, NEW st2, NEW dict2, NEW pend2, NEW named2,
           Tells(x, s, st, dict, st2, dict2, pend2, named2)
    PROVE  Listing(Append(s, x), l, f, typing, st2, dict2, pend2, named2)
<1> DEFINE t == Append(s, x)
           n == Len(s) + 1
<1>1. /\ l \in Lists /\ Dated(st, dict) /\ Sequence(s) /\ Pages(s, st, dict)
      /\ News(s, dict, pend) /\ Deletes(s, st, dict, named)
      /\ Seen(s, l, st, dict) /\ Loader(s, l) /\ (typing \/ l.skewed \/ Ordered(s, l, st, f))
  BY DEF Listing, Posted
<1>2. /\ Sequence(t) /\ n \in DOMAIN t /\ t[n] = x
      /\ \A i \in DOMAIN s : i \in Nat /\ i < n /\ i \in DOMAIN t /\ t[i] = s[i]
      /\ \A i \in DOMAIN t : i = n \/ i \in DOMAIN s
      /\ \A e : Arrives(s, e) => Arrives(t, e)
      /\ x.kind = "new" => Arrives(t, x.entry)
      /\ \A i, e : Taken(s, i, e) => Taken(t, i, e)
      /\ \A i, e : i < n /\ Takes(x, e) => Taken(t, i, e)
      /\ \A k, g : Doomed(s, k, g) => Doomed(t, k, g)
      /\ \A k \in DOMAIN s : Undisturbed(s, k) => Undisturbed(t, k)
      /\ 0 < n /\ n \in Nat
  <2>1. Extended(s, x, t, n)
    BY <1>1, More
  <2> HIDE DEF t, n
  <2> QED
    BY <2>1 DEF Extended
<1> HIDE DEF t, n
<1>3. /\ x.kind # "page" /\ Dated(st2, dict2) /\ dict \in SUBSET dict2
      /\ \A e \in dict : e \in st2 => e \in st
      /\ \A e \in st : e \in st2 \/ Takes(x, e)
      /\ \A e \in dict2 : e \in dict \/ (x.kind = "new" /\ x.entry = e)
  BY DEF Tells
<1>4. /\ st \in SUBSET dict /\ st2 \in SUBSET dict2
      /\ dict2 \in SUBSET Entries
  BY <1>1, <1>3 DEF Dated
<1>t. x.kind = "new" => x.entry \in dict2 \ dict /\ x.entry \in Entries /\ pend2[x.entry] = "no"
  BY <1>4 DEF Tells
<1>5. x.kind = "new" => (\A e \in dict : e < x.entry /\ ~(x.entry < e)) /\ ~(x.entry < x.entry)
  BY <1>1, <1>t, Latest
<1>6. Pages(t, st2, dict2)
  <2> SUFFICES ASSUME NEW i \in DOMAIN t, t[i].kind = "page"
               PROVE  /\ t[i].entries \in Seq(Entries) /\ t[i].from \in Nat /\ t[i].more \in BOOLEAN
                      /\ \A e \in ToSet(t[i].entries) : e \in dict2 /\ (e \in st2 \/ Taken(t, i, e))
    BY DEF Pages
  <2>1. i \in DOMAIN s /\ t[i] = s[i] /\ i < n
    BY <1>2, <1>3
  <2>2. /\ s[i].entries \in Seq(Entries) /\ s[i].from \in Nat /\ s[i].more \in BOOLEAN
        /\ \A e \in ToSet(s[i].entries) : e \in dict /\ (e \in st \/ Taken(s, i, e))
    BY <1>1, <2>1 DEF Pages
  <2>3. \A e \in ToSet(s[i].entries) : e \in dict2 /\ (e \in st2 \/ Taken(t, i, e))
    BY <1>2, <1>3, <2>1, <2>2
  <2> QED
    BY <2>1, <2>2, <2>3
<1>7. News(t, dict2, pend2)
  <2> SUFFICES ASSUME NEW i \in DOMAIN t, t[i].kind = "new"
               PROVE  /\ t[i].entry \in dict2 /\ pend2[t[i].entry] = "no"
                      /\ \A e \in dict2 : t[i].entry < e => Arrives(t, e)
                      /\ \A j \in DOMAIN t : j < i =>
                            /\ t[j].kind = "page" => \A e \in ToSet(t[j].entries) : e < t[i].entry
                            /\ t[j].kind = "new" => t[j].entry < t[i].entry
    BY DEF News
  <2>1. CASE i \in DOMAIN s
    <3>1. t[i] = s[i] /\ i \in Nat /\ i < n
      BY <1>2, <2>1
    <3>2. /\ s[i].entry \in dict
          /\ \A e \in dict : s[i].entry < e => Arrives(s, e)
          /\ \A j \in DOMAIN s : j < i =>
                /\ s[j].kind = "page" => \A e \in ToSet(s[j].entries) : e < s[i].entry
                /\ s[j].kind = "new" => s[j].entry < s[i].entry
      BY <1>1, <2>1, <3>1 DEF News
    <3>3. \A e \in dict2 : s[i].entry < e => Arrives(t, e)
      BY <1>2, <1>3, <3>2
    <3>5. s[i].entry \in dict2 /\ pend2[s[i].entry] = "no"
      BY <1>3, <2>1, <3>1, <3>2 DEF Tells
    <3>4. ASSUME NEW j \in DOMAIN t, j < i PROVE j \in DOMAIN s /\ t[j] = s[j]
      <4>1. j # n
        BY <1>2, <3>1, <3>4
      <4> QED
        BY <1>2, <4>1
    <3> QED
      BY <2>1, <3>1, <3>2, <3>3, <3>4, <3>5
  <2>2. CASE i = n
    <3>1. t[i] = x /\ x.kind = "new"
      BY <1>2, <2>2
    <3>2. \A e \in dict2 : ~(x.entry < e)
      BY <1>3, <1>5, <3>1
    <3>3. ASSUME NEW j \in DOMAIN t, j < i
          PROVE  /\ t[j].kind = "page" => \A e \in ToSet(t[j].entries) : e < x.entry
                 /\ t[j].kind = "new" => t[j].entry < x.entry
      <4>1. j \in DOMAIN s /\ t[j] = s[j]
        <5>1. j # n
          BY <1>2, <2>2, <3>3
        <5> QED
          BY <1>2, <5>1
      <4>2. /\ s[j].kind = "page" => \A e \in ToSet(s[j].entries) : e \in dict
            /\ s[j].kind = "new" => s[j].entry \in dict
        BY <1>1, <4>1 DEF Pages, News
      <4> QED
        BY <1>5, <3>1, <4>1, <4>2
    <3> QED
      BY <1>t, <3>1, <3>2, <3>3
  <2> QED
    BY <1>2, <2>1, <2>2
<1>8. Deletes(t, st2, dict2, named2)
  <2> SUFFICES ASSUME NEW i \in DOMAIN t
               PROVE  /\ t[i].kind = "deleted" => t[i].entry \in dict2 /\ (t[i].ok => t[i].entry \notin st2)
                      /\ t[i].kind = "bulk" => /\ t[i].ids \in SUBSET dict2 /\ t[i].ids \subseteq named2
                                               /\ t[i].ok => t[i].ids \cap st2 = {}
    BY DEF Deletes
  <2>1. CASE i \in DOMAIN s
    <3>1. t[i] = s[i]
      BY <1>2, <2>1
    <3>2. s[i].kind = "deleted" => s[i].entry \in dict /\ (s[i].ok => s[i].entry \notin st)
      BY <1>1, <2>1 DEF Deletes
    <3>3. s[i].kind = "bulk" => s[i].ids \in SUBSET dict /\ (s[i].ok => s[i].ids \cap st = {})
      BY <1>1, <2>1 DEF Deletes
    <3>4. s[i].kind = "bulk" => s[i].ids \in SUBSET dict2 /\ (s[i].ok => s[i].ids \cap st2 = {})
      BY <1>3, <3>3
    <3>5. s[i].kind = "deleted" => s[i].entry \in dict2 /\ (s[i].ok => s[i].entry \notin st2)
      BY <1>3, <3>2
    <3>6. s[i].kind = "bulk" => s[i].ids \subseteq named2
      BY <2>1 DEF Tells
    <3> QED
      BY <3>1, <3>4, <3>5, <3>6
  <2>2. CASE i = n
    <3>1. t[i] = x
      BY <1>2, <2>2
    <3>2. /\ x.kind = "deleted" => x.entry \in dict2 /\ (x.ok => x.entry \notin st2)
          /\ x.kind = "bulk" => x.ids \in SUBSET dict2 /\ x.ids \subseteq named2
          /\ x.kind = "bulk" => (x.ok => x.ids \cap st2 = {})
      BY DEF Tells
    <3> QED
      BY <3>1, <3>2
  <2> QED
    BY <1>2, <2>1, <2>2
<1>9. Seen(t, l, st2, dict2)
  <2> SUFFICES ASSUME NEW e \in ToSet(l.view)
               PROVE  /\ e \in dict2 /\ (e \in st2 \/ l.skewed \/ Taken(t, 0, e))
                      /\ \A i \in DOMAIN t : t[i].kind = "new" => e < t[i].entry
    BY DEF Seen
  <2>1. /\ e \in dict /\ (e \in st \/ l.skewed \/ Taken(s, 0, e))
        /\ \A i \in DOMAIN s : s[i].kind = "new" => e < s[i].entry
    BY <1>1 DEF Seen
  <2> QED
    BY <1>2, <1>3, <1>5, <2>1
<1>10. Loader(t, l)
  BY <1>1, <1>2, <1>3 DEF Loader
<1>11. ASSUME Ordered(s, l, st, f) PROVE Ordered(t, l, st2, f)
  <2>1. \A e \in st2 : Arrives(t, e) \/ (e \in st /\ ~Arrives(s, e))
    BY <1>2, <1>3, <1>4
  <2>2. \A v, more : Good(v, more, s, st, f) => Good(v, more, t, st2, f)
    BY <2>1, GoodStill
  <2>3. \A k \in DOMAIN s : Continues(s, k, l, st, f) => Continues(t, k, l, st2, f)
    BY <1>2, <2>2 DEF Continues
  <2>4. \A k \in DOMAIN t : t[k].kind = "page" => k \in DOMAIN s /\ s[k].kind = "page"
    BY <1>2, <1>3
  <2> QED
    BY <1>2, <1>11, <2>2, <2>3, <2>4 DEF Ordered
<1> QED
  BY <1>1, <1>2, <1>3, <1>6, <1>7, <1>8, <1>9, <1>10, <1>11 DEF Listing, Posted, t

(* The deferred deletes and the bulk delete change.                        *)
LEMMA ListingNamed ==
    ASSUME NEW s, NEW l, NEW f, NEW typing, NEW st, NEW dict, NEW pend, NEW named,
           Listing(s, l, f, typing, st, dict, pend, named), NEW pend2, NEW named2,
           \A i \in DOMAIN s : /\ s[i].kind = "new" => pend2[s[i].entry] = "no"
                               /\ s[i].kind = "bulk" => s[i].ids \subseteq named2
    PROVE  Listing(s, l, f, typing, st, dict, pend2, named2)
<1>1. Posted(s, st, dict, pend, named)
  BY DEF Listing
<1>2. News(s, dict, pend2) /\ Deletes(s, st, dict, named2)
  BY <1>1 DEF Posted, News, Deletes
<1> QED
  BY <1>1, <1>2 DEF Listing, Posted

(* While a search waits, nothing is said of the order.                     *)
LEMMA ListingTyped ==
    ASSUME NEW s, NEW l, NEW f, NEW typing, NEW st, NEW dict, NEW pend, NEW named,
           Listing(s, l, f, typing, st, dict, pend, named), NEW g
    PROVE  Listing(s, l, g, TRUE, st, dict, pend, named)
BY DEF Listing


-----------------------------------------------------------------------------
(* Messages that do not matter come and go: what matters is as it was.     *)
LEMMA Same ==
    ASSUME NEW s, Sequence(s), NEW t, Sequence(t), NEW f, Embeds(s, t, f)
    PROVE  /\ \A i \in Placed(t) : f[i] \in Placed(s) /\ t[i] = s[f[i]]
           /\ \A i, j \in Placed(t) : (i < j <=> f[i] < f[j]) /\ (f[i] = f[j] => i = j)
           /\ \A e : Arrives(s, e) => Arrives(t, e)
           /\ \A i \in Placed(t) : \A e : Taken(s, f[i], e) => Taken(t, i, e)
           /\ \A e : Taken(s, 0, e) => Taken(t, 0, e)
           /\ \A k \in Placed(t) : \A g : Doomed(s, f[k], g) => Doomed(t, k, g)
           /\ \A k \in Placed(t) : Undisturbed(s, f[k]) => Undisturbed(t, k)
<1>1. /\ \A i \in Placed(t) : f[i] \in Placed(s) /\ t[i] = s[f[i]]
      /\ \A i, j \in Placed(t) : i < j <=> f[i] < f[j]
      /\ \A k \in Placed(s) : \E i \in Placed(t) : f[i] = k
  BY DEF Embeds
<1>2. /\ \A i \in Placed(t) : i \in DOMAIN t /\ i \in Nat /\ i > 0
      /\ \A k \in Placed(s) : k \in DOMAIN s /\ k \in Nat /\ k > 0
  BY PlacedNumbers DEF Placed
<1>3. \A i, j \in Placed(t) : f[i] = f[j] => i = j
  <2>1. ASSUME NEW i \in Placed(t), NEW j \in Placed(t), f[i] = f[j] PROVE i = j
    <3>1. ~(f[i] < f[j]) /\ ~(f[j] < f[i])
      BY <1>1, <1>2, <2>1
    <3>2. ~(i < j) /\ ~(j < i)
      BY <1>1, <3>1
    <3> QED
      BY <1>2, <3>2
  <2> QED
    BY <2>1
<1>4. /\ \A m : m.kind = "new" => m.kind \in Mattering
      /\ \A m, e : Takes(m, e) => m.kind \in Mattering
      /\ \A m : Shifts(m) => m.kind \in Mattering
  BY DEF Mattering, Takes, Shifts
<1>5. \A k \in DOMAIN s : s[k].kind \in Mattering => \E i \in Placed(t) : f[i] = k /\ t[i] = s[k]
  BY <1>1 DEF Placed
<1>6. \A j \in DOMAIN t : t[j].kind \in Mattering => j \in Placed(t)
  BY DEF Placed
<1>7. \A e : Arrives(s, e) => Arrives(t, e)
  BY <1>2, <1>4, <1>5 DEF Arrives
<1>8. ASSUME NEW i \in Placed(t), NEW e, Taken(s, f[i], e) PROVE Taken(t, i, e)
  <2>1. PICK k \in DOMAIN s : k > f[i] /\ Takes(s[k], e)
    BY <1>8 DEF Taken
  <2>2. PICK j \in Placed(t) : f[j] = k /\ t[j] = s[k]
    BY <1>4, <1>5, <2>1
  <2>3. f[i] < f[j]
    BY <1>1, <1>2, <2>1, <2>2
  <2>4. j > i /\ Takes(t[j], e) /\ j \in DOMAIN t
    BY <1>1, <1>2, <2>1, <2>2, <2>3
  <2> QED
    BY <2>4 DEF Taken
<1>9. ASSUME NEW e, Taken(s, 0, e) PROVE Taken(t, 0, e)
  <2>1. PICK k \in DOMAIN s : Takes(s[k], e)
    BY <1>9 DEF Taken
  <2>2. PICK j \in Placed(t) : f[j] = k /\ t[j] = s[k]
    BY <1>4, <1>5, <2>1
  <2> QED
    BY <1>2, <2>1, <2>2 DEF Taken
<1>10. ASSUME NEW i \in Placed(t), NEW g, Doomed(s, f[i], g) PROVE Doomed(t, i, g)
  <2>1. PICK k \in DOMAIN s : k < f[i] /\ s[k].kind = "new" /\ Suits(g, s[k].entry)
    BY <1>10 DEF Doomed
  <2>2. PICK j \in Placed(t) : f[j] = k /\ t[j] = s[k]
    BY <1>4, <1>5, <2>1
  <2>3. j < i
    BY <1>1, <2>1, <2>2
  <2> QED
    BY <1>2, <2>1, <2>2, <2>3 DEF Doomed
<1>11. ASSUME NEW i \in Placed(t), Undisturbed(s, f[i]) PROVE Undisturbed(t, i)
  <2> SUFFICES ASSUME NEW j \in DOMAIN t, j < i, Shifts(t[j]) PROVE FALSE
    BY DEF Undisturbed
  <2>1. j \in Placed(t)
    BY <1>4, <1>6
  <2>2. f[j] \in DOMAIN s /\ f[j] < f[i] /\ s[f[j]] = t[j]
    BY <1>1, <1>2, <2>1
  <2> QED
    BY <1>11, <2>2 DEF Undisturbed
<1> QED
  BY <1>1, <1>3, <1>7, <1>8, <1>9, <1>10, <1>11

(* Messages that do not matter come and go without consequence.            *)
LEMMA ListingCarried ==
    ASSUME NEW s, NEW l, NEW f, NEW typing, NEW st, NEW dict, NEW pend, NEW named,
           Listing(s, l, f, typing, st, dict, pend, named), NEW t, Carries(s, t)
    PROVE  Listing(t, l, f, typing, st, dict, pend, named)
<1>1. /\ l \in Lists /\ Dated(st, dict) /\ Sequence(s) /\ Pages(s, st, dict)
      /\ News(s, dict, pend) /\ Deletes(s, st, dict, named)
      /\ Seen(s, l, st, dict) /\ Loader(s, l) /\ (typing \/ l.skewed \/ Ordered(s, l, st, f))
  BY DEF Listing, Posted
<1>2. PICK b : Sequence(t) /\ Embeds(s, t, b)
  BY DEF Carries
<1>3. /\ \A i \in Placed(t) : b[i] \in Placed(s) /\ t[i] = s[b[i]]
      /\ \A i, j \in Placed(t) : (i < j <=> b[i] < b[j]) /\ (b[i] = b[j] => i = j)
      /\ \A e : Arrives(s, e) => Arrives(t, e)
      /\ \A i \in Placed(t) : \A e : Taken(s, b[i], e) => Taken(t, i, e)
      /\ \A e : Taken(s, 0, e) => Taken(t, 0, e)
      /\ \A k \in Placed(t) : \A g : Doomed(s, b[k], g) => Doomed(t, k, g)
      /\ \A k \in Placed(t) : Undisturbed(s, b[k]) => Undisturbed(t, k)
  BY <1>1, <1>2, Same
<1>4. /\ \A i \in DOMAIN t : t[i].kind \in {"page", "new", "deleted", "bulk"} => i \in Placed(t)
      /\ \A k \in Placed(s) : k \in DOMAIN s
  BY DEF Placed, Mattering
<1>5. \A i \in DOMAIN t : t[i].kind \in {"page", "new", "deleted", "bulk"} =>
          b[i] \in DOMAIN s /\ t[i] = s[b[i]] /\ i \in Placed(t)
  BY <1>3, <1>4
<1>6. Pages(t, st, dict)
  <2> SUFFICES ASSUME NEW i \in DOMAIN t, t[i].kind = "page"
               PROVE  /\ t[i].entries \in Seq(Entries) /\ t[i].from \in Nat /\ t[i].more \in BOOLEAN
                      /\ \A e \in ToSet(t[i].entries) : e \in dict /\ (e \in st \/ Taken(t, i, e))
    BY DEF Pages
  <2>1. b[i] \in DOMAIN s /\ t[i] = s[b[i]] /\ i \in Placed(t)
    BY <1>5
  <2>2. /\ s[b[i]].entries \in Seq(Entries) /\ s[b[i]].from \in Nat /\ s[b[i]].more \in BOOLEAN
        /\ \A e \in ToSet(s[b[i]].entries) : e \in dict /\ (e \in st \/ Taken(s, b[i], e))
    BY <1>1, <2>1 DEF Pages
  <2> QED
    BY <1>3, <2>1, <2>2
<1>7. News(t, dict, pend)
  <2> SUFFICES ASSUME NEW i \in DOMAIN t, t[i].kind = "new"
               PROVE  /\ t[i].entry \in dict /\ pend[t[i].entry] = "no"
                      /\ \A e \in dict : t[i].entry < e => Arrives(t, e)
                      /\ \A j \in DOMAIN t : j < i =>
                            /\ t[j].kind = "page" => \A e \in ToSet(t[j].entries) : e < t[i].entry
                            /\ t[j].kind = "new" => t[j].entry < t[i].entry
    BY DEF News
  <2>1. b[i] \in DOMAIN s /\ t[i] = s[b[i]] /\ i \in Placed(t)
    BY <1>5
  <2>2. /\ t[i].entry \in dict /\ pend[t[i].entry] = "no"
        /\ \A e \in dict : t[i].entry < e => Arrives(s, e)
        /\ \A j \in DOMAIN s : j < b[i] =>
              /\ s[j].kind = "page" => \A e \in ToSet(s[j].entries) : e < t[i].entry
              /\ s[j].kind = "new" => s[j].entry < t[i].entry
    BY <1>1, <2>1 DEF News
  <2>3. ASSUME NEW j \in DOMAIN t, j < i, t[j].kind \in {"page", "new"}
        PROVE  b[j] \in DOMAIN s /\ b[j] < b[i] /\ t[j] = s[b[j]]
    BY <1>3, <1>5, <2>1, <2>3
  <2> QED
    BY <1>3, <2>2, <2>3
<1>8. Deletes(t, st, dict, named)
  BY <1>1, <1>5 DEF Deletes
<1>9. Seen(t, l, st, dict)
  BY <1>1, <1>3, <1>5 DEF Seen
<1>10. Loader(t, l)
  <2>1. \A i \in DOMAIN t : t[i].kind = "page" => b[i] \in DOMAIN s /\ s[b[i]].kind = "page" /\ i \in Placed(t)
    BY <1>5
  <2> QED
    BY <1>1, <1>3, <2>1 DEF Loader
<1>11. ASSUME Ordered(s, l, st, f) PROVE Ordered(t, l, st, f)
  <2>1. \A e \in st : Arrives(t, e) \/ (e \in st /\ ~Arrives(s, e))
    BY <1>3
  <2>2. \A v, more : Good(v, more, s, st, f) => Good(v, more, t, st, f)
    BY <2>1, GoodStill
  <2>3. \A k \in DOMAIN t : t[k].kind = "page" => b[k] \in DOMAIN s /\ t[k] = s[b[k]] /\ k \in Placed(t)
    BY <1>5
  <2>4. ASSUME NEW k \in DOMAIN t, t[k].kind = "page"
        PROVE  l.stale \/ Doomed(t, k, f) \/ Continues(t, k, l, st, f)
    <3>1. b[k] \in DOMAIN s /\ t[k] = s[b[k]] /\ k \in Placed(t)
      BY <2>3, <2>4
    <3>2. l.stale \/ Doomed(s, b[k], f) \/ Continues(s, b[k], l, st, f)
      BY <1>11, <2>4, <3>1 DEF Ordered
    <3>3. Continues(s, b[k], l, st, f) => Continues(t, k, l, st, f)
      BY <1>3, <2>2, <3>1 DEF Continues
    <3> QED
      BY <1>3, <3>1, <3>2, <3>3
  <2> QED
    BY <1>11, <2>2, <2>4 DEF Ordered
<1> QED
  BY <1>1, <1>2, <1>6, <1>7, <1>8, <1>9, <1>10, <1>11 DEF Listing, Posted

-----------------------------------------------------------------------------
(* A message is taken.  The others are about what they were about;         *)
LEMMA PostedTail ==
    ASSUME NEW s, s # <<>>, NEW st, NEW dict, NEW pend, NEW named,
           dict \in SUBSET Nat, Posted(s, st, dict, pend, named)
    PROVE  Posted(Tail(s), st, dict, pend, named)
<1> DEFINE t == Tail(s)
           h == Head(s)
<1>1. Sequence(s) /\ Pages(s, st, dict) /\ News(s, dict, pend) /\ Deletes(s, st, dict, named)
  BY DEF Posted
<1>2. /\ Sequence(t) /\ 1 \in DOMAIN s /\ s[1] = h
      /\ \A i \in DOMAIN t : i \in Nat /\ i > 0 /\ i + 1 \in DOMAIN s /\ t[i] = s[i + 1]
      /\ \A e : Arrives(s, e) => Arrives(t, e) \/ (h.kind = "new" /\ h.entry = e)
      /\ \A i \in Nat : \A e : Taken(s, i + 1, e) => Taken(t, i, e)
  BY <1>1, Fewer
<1> HIDE DEF t, h
<1>3. Pages(t, st, dict)
  <2> SUFFICES ASSUME NEW i \in DOMAIN t, t[i].kind = "page"
               PROVE  /\ t[i].entries \in Seq(Entries) /\ t[i].from \in Nat /\ t[i].more \in BOOLEAN
                      /\ \A e \in ToSet(t[i].entries) : e \in dict /\ (e \in st \/ Taken(t, i, e))
    BY DEF Pages
  <2> DEFINE k == i + 1
  <2>1. k \in DOMAIN s /\ t[i] = s[k] /\ i \in Nat
    BY <1>2
  <2>2. \A e : Taken(s, k, e) => Taken(t, i, e)
    BY <1>2, <2>1
  <2> HIDE DEF k
  <2>3. /\ s[k].entries \in Seq(Entries) /\ s[k].from \in Nat /\ s[k].more \in BOOLEAN
        /\ \A e \in ToSet(s[k].entries) : e \in dict /\ (e \in st \/ Taken(s, k, e))
    BY <1>1, <2>1 DEF Pages
  <2> QED
    BY <2>1, <2>2, <2>3
<1>4. News(t, dict, pend)
  <2> SUFFICES ASSUME NEW i \in DOMAIN t, t[i].kind = "new"
               PROVE  /\ t[i].entry \in dict /\ pend[t[i].entry] = "no"
                      /\ \A e \in dict : t[i].entry < e => Arrives(t, e)
                      /\ \A j \in DOMAIN t : j < i =>
                            /\ t[j].kind = "page" => \A e \in ToSet(t[j].entries) : e < t[i].entry
                            /\ t[j].kind = "new" => t[j].entry < t[i].entry
    BY DEF News
  <2> DEFINE k == i + 1
  <2>1. k \in DOMAIN s /\ t[i] = s[k] /\ 1 < k
    BY <1>2
  <2>2. \A j \in DOMAIN t : j < i => j + 1 < k
    BY <1>2
  <2> HIDE DEF k
  <2>3. /\ t[i].entry \in dict /\ pend[t[i].entry] = "no"
        /\ \A e \in dict : t[i].entry < e => Arrives(s, e)
        /\ \A j \in DOMAIN s : j < k =>
              /\ s[j].kind = "page" => \A e \in ToSet(s[j].entries) : e < t[i].entry
              /\ s[j].kind = "new" => s[j].entry < t[i].entry
    BY <1>1, <2>1 DEF News
  <2>4. h.kind = "new" => h.entry < t[i].entry /\ h.entry \in dict
    BY <1>1, <1>2, <2>1, <2>3 DEF News
  <2>5. ASSUME NEW e \in dict, t[i].entry < e PROVE h.kind # "new" \/ h.entry # e
    <3>1. t[i].entry \in Nat /\ e \in Nat
      BY <2>3
    <3>2. ~(e < t[i].entry)
      BY <2>5, <3>1
    <3> QED
      BY <2>4, <3>2
  <2> QED
    BY <1>2, <2>2, <2>3, <2>5
<1>5. Deletes(t, st, dict, named)
  BY <1>1, <1>2 DEF Deletes
<1> QED
  BY <1>2, <1>3, <1>4, <1>5 DEF Posted, t

(* what the list shows is stored or about to be taken out, unless it was   *)
(* taken out with this message;                                            *)
LEMMA SeenTail ==
    ASSUME NEW s, Sequence(s), s # <<>>, NEW l, NEW st, NEW dict, Seen(s, l, st, dict),
           NEW r, ToSet(r.view) \subseteq ToSet(l.view), l.skewed => r.skewed,
           \A e \in ToSet(r.view) : ~Takes(Head(s), e)
    PROVE  Seen(Tail(s), r, st, dict)
<1> DEFINE t == Tail(s)
           h == Head(s)
<1>1. /\ \A i \in DOMAIN t : i + 1 \in DOMAIN s /\ t[i] = s[i + 1]
      /\ \A e : Taken(s, 0, e) => Taken(t, 0, e) \/ Takes(h, e)
  BY Fewer
<1>2. \A e \in ToSet(r.view) : ~Takes(h, e)
  OBVIOUS
<1> HIDE DEF t, h
<1>3. Seen(t, r, st, dict)
  BY <1>1, <1>2 DEF Seen
<1> QED
  BY <1>3 DEF t

(* the pages under way stay so;                                            *)
LEMMA LoaderTail ==
    ASSUME NEW s, Sequence(s), s # <<>>, NEW l, Loader(s, l), NEW r, r.stale = l.stale,
           r.queued = l.queued, r.loading = l.loading, r.stale => r.view = <<>>
    PROVE  Loader(Tail(s), r)
<1> DEFINE t == Tail(s)
<1>1. \A i \in DOMAIN t : i \in Nat /\ i + 1 \in DOMAIN s /\ t[i] = s[i + 1]
  BY Fewer
<1> HIDE DEF t
<1>2. \A i \in DOMAIN t : t[i].kind = "page" => l.loading
  BY <1>1 DEF Loader
<1>3. \A i, j \in DOMAIN t : t[i].kind = "page" /\ t[j].kind = "page" => i + 1 = j + 1
  BY <1>1 DEF Loader
<1>4. \A i, j \in DOMAIN t : i + 1 = j + 1 => i = j
  BY <1>1
<1>5. Loader(t, r)
  BY <1>2, <1>3, <1>4 DEF Loader
<1> QED
  BY <1>5 DEF t

(* and what a filter's list waits for, still arrives.                      *)
LEMMA GoodTail ==
    ASSUME NEW s, Sequence(s), s # <<>>, NEW v, NEW more, NEW st, NEW f, Good(v, more, s, st, f),
           Head(s).kind # "new" \/ ~Suits(f, Head(s).entry)
    PROVE  Good(v, more, Tail(s), st, f)
<1>1. \A e : Arrives(s, e) => Arrives(Tail(s), e) \/ (Head(s).kind = "new" /\ Head(s).entry = e)
  BY Fewer
<1>2. \A e \in st : Suits(f, e) => Arrives(Tail(s), e) \/ (e \in st /\ ~Arrives(s, e))
  BY <1>1
<1> QED
  BY <1>2, GoodStill

(* A message that does not touch the list.                                 *)
LEMMA ListingIgnores ==
    ASSUME NEW s, s # <<>>, NEW l, NEW f, NEW typing, NEW st, NEW dict, NEW pend, NEW named,
           Listing(s, l, f, typing, st, dict, pend, named), Head(s).kind # "page",
           Head(s).kind # "new" \/ ~Suits(f, Head(s).entry), ~Shifts(Head(s))
    PROVE  Listing(Tail(s), l, f, typing, st, dict, pend, named)
<1> DEFINE t == Tail(s)
<1>1. /\ l \in Lists /\ Dated(st, dict) /\ Posted(s, st, dict, pend, named) /\ Sequence(s)
      /\ Seen(s, l, st, dict) /\ Loader(s, l) /\ (typing \/ l.skewed \/ Ordered(s, l, st, f))
  BY DEF Listing, Posted
<1>2. Posted(t, st, dict, pend, named)
  BY <1>1, PostedTail, EntriesAreNumbers
<1>3. \A e : ~Takes(Head(s), e)
  BY DEF Takes, Shifts
<1>4. Seen(t, l, st, dict)
  BY <1>1, <1>3, SeenTail
<1>5. Loader(t, l)
  <2>1. l.stale => l.view = <<>>
    BY <1>1 DEF Loader
  <2> QED
    BY <1>1, <2>1, LoaderTail
<1>6. \A v, more : Good(v, more, s, st, f) => Good(v, more, t, st, f)
  BY <1>1, GoodTail
<1>7. /\ \A i \in DOMAIN t : i \in Nat /\ i > 0 /\ i + 1 \in DOMAIN s /\ t[i] = s[i + 1]
      /\ \A k \in Nat : \A g : Doomed(s, k + 1, g) =>
             Doomed(t, k, g) \/ (Head(s).kind = "new" /\ Suits(g, Head(s).entry))
      /\ \A k \in Nat : k > 0 /\ Undisturbed(s, k + 1) => Undisturbed(t, k)
  BY <1>1, Fewer
<1> HIDE DEF t
<1>8. ASSUME Ordered(s, l, st, f) PROVE Ordered(t, l, st, f)
  <2>1. ASSUME NEW i \in DOMAIN t, t[i].kind = "page"
        PROVE  l.stale \/ Doomed(t, i, f) \/ Continues(t, i, l, st, f)
    <3> DEFINE k == i + 1
    <3>1. /\ k \in DOMAIN s /\ t[i] = s[k]
          /\ Doomed(s, k, f) => Doomed(t, i, f)
          /\ Undisturbed(s, k) => Undisturbed(t, i)
      BY <1>7
    <3> HIDE DEF k
    <3>2. l.stale \/ Doomed(s, k, f) \/ Continues(s, k, l, st, f)
      BY <1>8, <2>1, <3>1 DEF Ordered
    <3>3. Continues(s, k, l, st, f) => Continues(t, i, l, st, f)
      BY <1>6, <3>1 DEF Continues
    <3> QED
      BY <3>1, <3>2, <3>3
  <2> QED
    BY <1>6, <1>8, <2>1 DEF Ordered
<1> QED
  BY <1>1, <1>2, <1>4, <1>5, <1>8 DEF Listing, t

(* An emptied list is in order whatever is taken.                          *)
LEMMA EmptyListing ==
    ASSUME NEW s, NEW st, NEW dict, NEW pend, NEW named, Dated(st, dict),
           Posted(s, st, dict, pend, named), NEW r \in Lists, r.view = <<>>, r.offset = 0, r.hasMore,
           Loader(s, r), r.stale = r.loading, NEW f, NEW typing
    PROVE  Listing(s, r, f, typing, st, dict, pend, named)
<1>1. Len(<<>>) = 0
  OBVIOUS
<1>2. ToSet(<<>>) = {}
  BY DEF ToSet
<1>3. \A e : e \notin ToSet(r.view)
  BY <1>2
<1>4. Seen(s, r, st, dict)
  BY <1>3 DEF Seen
<1>5. Descends(r.view)
  BY DEF Descends
<1>6. Good(r.view, r.hasMore, s, st, f)
  BY <1>3, <1>5 DEF Good
<1>7. \A k \in DOMAIN s : s[k].kind = "page" => r.stale
  BY DEF Loader
<1>8. Ordered(s, r, st, f)
  BY <1>1, <1>6, <1>7 DEF Ordered
<1> QED
  BY <1>4, <1>8 DEF Listing

-----------------------------------------------------------------------------
(* A new entry goes first: what is newer arrives later.                    *)
LEMMA GoodFirst ==
    ASSUME NEW s, Sequence(s), s # <<>>, NEW v \in Seq(Entries), NEW more, NEW st, NEW dict,
           NEW pend, NEW f, Good(v, more, s, st, f), News(s, dict, pend), Dated(st, dict),
           Head(s).kind = "new", Suits(f, Head(s).entry), \A d \in ToSet(v) : d < Head(s).entry
    PROVE  Good(<<Head(s).entry>> \o v, more, Tail(s), st, f)
<1> DEFINE h == Head(s)
           x == h.entry
           w == <<x>> \o v
           t == Tail(s)
<1>1. /\ 1 \in DOMAIN s /\ s[1] = h
      /\ \A e : Arrives(s, e) => Arrives(t, e) \/ (h.kind = "new" /\ h.entry = e)
  BY Fewer
<1>2. dict \in SUBSET Nat /\ dict \in SUBSET Entries /\ st \in SUBSET dict
  BY EntriesAreNumbers
<1>h. h.kind = "new" /\ Suits(f, x) /\ \A d \in ToSet(v) : d < x
  OBVIOUS
<1> HIDE DEF h, t
<1>3. x \in dict /\ x \in Entries /\ x \in Nat /\ \A e \in dict : x < e => Arrives(s, e)
  BY <1>1, <1>2, <1>h DEF News
<1> HIDE DEF x
<1>4. ToSet(w) = ToSet(v) \cup {x} /\ Descends(w)
  BY <1>3, <1>h, Prepends DEF Good
<1> HIDE DEF w
<1>5. \A e \in ToSet(w) : Suits(f, e)
  BY <1>h, <1>4 DEF Good
<1>6. ASSUME NEW e \in st, Suits(f, e)
      PROVE  e \in ToSet(w) \/ Arrives(t, e) \/ (more /\ \A d \in ToSet(w) : e < d)
  <2>1. CASE e = x
    BY <1>4, <2>1
  <2>2. CASE e # x /\ Arrives(s, e)
    BY <1>1, <2>2 DEF x
  <2>3. CASE e # x /\ ~Arrives(s, e)
    <3>1. e < x
      BY <1>2, <1>3, <2>3
    <3>2. e \in ToSet(v) \/ (more /\ \A d \in ToSet(v) : e < d)
      BY <1>6, <2>3 DEF Good
    <3> QED
      BY <1>4, <3>1, <3>2
  <2> QED
    BY <2>1, <2>2, <2>3
<1>7. Good(w, more, t, st, f)
  BY <1>4, <1>5, <1>6 DEF Good
<1> QED
  BY <1>7 DEF w, x, h, t

(* A new entry the filter shows becomes the first of the list.             *)
LEMMA ListingFirst ==
    ASSUME NEW s, s # <<>>, NEW l, NEW f, NEW typing, NEW st, NEW dict, NEW pend, NEW named,
           Listing(s, l, f, typing, st, dict, pend, named), Head(s).kind = "new",
           Suits(f, Head(s).entry), ~l.loading, NEW r \in Lists,
           r.view = <<Head(s).entry>> \o l.view, r.offset = l.offset + 1, r.hasMore = l.hasMore,
           r.loading = l.loading, r.stale = l.stale, r.queued = l.queued,
           r.skewed = (l.skewed \/ Head(s).entry \notin st)
    PROVE  Listing(Tail(s), r, f, typing, st, dict, pend, named)
<1> DEFINE t == Tail(s)
           x == Head(s).entry
<1>1. /\ l \in Lists /\ Dated(st, dict) /\ Posted(s, st, dict, pend, named) /\ Sequence(s)
      /\ News(s, dict, pend)
      /\ Seen(s, l, st, dict) /\ Loader(s, l) /\ (typing \/ l.skewed \/ Ordered(s, l, st, f))
  BY DEF Listing, Posted
<1>2. /\ l.view \in Seq(Entries) /\ l.skewed \in BOOLEAN
      /\ st \in SUBSET dict /\ dict \in SUBSET Entries /\ dict \in SUBSET Nat
  BY <1>1, EntriesAreNumbers DEF Lists
<1>3. Posted(t, st, dict, pend, named)
  BY <1>1, <1>2, PostedTail
<1>4. /\ 1 \in DOMAIN s /\ s[1] = Head(s)
      /\ \A i \in DOMAIN t : i \in Nat /\ i > 0 /\ i + 1 \in DOMAIN s /\ t[i] = s[i + 1]
      /\ \A e : Taken(s, 0, e) => Taken(t, 0, e) \/ Takes(Head(s), e)
  BY <1>1, Fewer
<1>5. x \in dict /\ \A d \in ToSet(l.view) : d < x
  BY <1>1, <1>4 DEF News, Seen
<1>6. ToSet(r.view) = ToSet(l.view) \cup {x} /\ Len(r.view) = Len(l.view) + 1
  BY <1>2, <1>5, Prepends
<1>7. \A e : ~Takes(Head(s), e)
  BY DEF Takes
<1>8. r.skewed <=> l.skewed \/ x \notin st
  OBVIOUS
<1> HIDE DEF t, x
<1>9. Seen(t, r, st, dict)
  <2>1. \A e \in ToSet(l.view) :
           /\ e \in dict /\ (e \in st \/ r.skewed \/ Taken(t, 0, e))
           /\ \A i \in DOMAIN t : t[i].kind = "new" => e < t[i].entry
    BY <1>1, <1>4, <1>7, <1>8 DEF Seen
  <2>2. ASSUME NEW i \in DOMAIN t, t[i].kind = "new" PROVE x < t[i].entry
    <3> DEFINE k == i + 1
    <3>1. k \in DOMAIN s /\ t[i] = s[k] /\ 1 < k
      BY <1>4
    <3> HIDE DEF k
    <3> QED
      BY <1>1, <1>4, <2>2, <3>1 DEF News, x
  <2> QED
    BY <1>5, <1>6, <1>8, <2>1, <2>2 DEF Seen
<1>10. Loader(t, r)
  <2>1. r.stale => r.view = <<>>
    BY <1>1 DEF Loader
  <2> QED
    BY <1>1, <2>1, LoaderTail DEF t
<1>11. ASSUME Ordered(s, l, st, f), ~r.skewed PROVE Ordered(t, r, st, f)
  <2>1. \A d \in ToSet(l.view) : d < Head(s).entry
    BY <1>5 DEF x
  <2>2. Good(l.view, l.hasMore, s, st, f) /\ l.offset = Len(l.view)
    BY <1>11 DEF Ordered
  <2>3. Good(r.view, r.hasMore, t, st, f)
    BY <1>1, <1>2, <2>1, <2>2, GoodFirst DEF t
  <2>4. \A k \in DOMAIN t : t[k].kind # "page"
    BY <1>10 DEF Loader
  <2> QED
    BY <1>6, <2>2, <2>3, <2>4 DEF Ordered
<1> QED
  BY <1>1, <1>3, <1>8, <1>9, <1>10, <1>11 DEF Listing, t

(* A deleted entry is taken out.                                           *)
LEMMA EmptySequence ==
    ASSUME NEW v \in Seq(Entries)
    PROVE  ToSet(<<>>) = {} /\ (ToSet(v) = {} => v = <<>>)
<1>1. Len(v) \in Nat /\ DOMAIN v = 1..Len(v) /\ ToSet(v) = {v[i] : i \in DOMAIN v}
  BY InSequence
<1>2. ASSUME ToSet(v) = {} PROVE Len(v) = 0
  <2>1. \A i \in DOMAIN v : FALSE
    BY <1>1, <1>2
  <2>2. 1 \notin 1..Len(v)
    BY <1>1, <2>1
  <2> QED
    BY <1>1, <2>2
<1>3. ToSet(<<>>) = {}
  BY DEF ToSet
<1> QED
  BY <1>2, <1>3, EmptySeq

(* A delete that was served is taken out of the list.                      *)
LEMMA ListingLoses ==
    ASSUME NEW s, s # <<>>, NEW l, NEW f, NEW typing, NEW st, NEW dict, NEW pend, NEW named,
           Listing(s, l, f, typing, st, dict, pend, named), Head(s).kind = "deleted", Head(s).ok
    PROVE  Listing(Tail(s), Without(l, {Head(s).entry}), f, typing, st, dict, pend, named)
<1> DEFINE t == Tail(s)
           x == Head(s).entry
           r == Without(l, {x})
<1>1. /\ l \in Lists /\ Dated(st, dict) /\ Posted(s, st, dict, pend, named) /\ Sequence(s)
      /\ Deletes(s, st, dict, named)
      /\ Seen(s, l, st, dict) /\ Loader(s, l) /\ (typing \/ l.skewed \/ Ordered(s, l, st, f))
  BY DEF Listing, Posted
<1>2. l.view \in Seq(Entries) /\ dict \in SUBSET Nat
  BY <1>1, EntriesAreNumbers DEF Lists
<1>3. Posted(t, st, dict, pend, named)
  BY <1>1, <1>2, PostedTail
<1>4. /\ 1 \in DOMAIN s /\ s[1] = Head(s)
      /\ \A i \in DOMAIN t : i \in Nat /\ i > 0 /\ i + 1 \in DOMAIN s /\ t[i] = s[i + 1]
      /\ \A k \in Nat : \A g : Doomed(s, k + 1, g) =>
             Doomed(t, k, g) \/ (Head(s).kind = "new" /\ Suits(g, Head(s).entry))
      /\ \A k \in Nat : k > 0 /\ Undisturbed(s, k + 1) => Undisturbed(t, k) /\ ~Shifts(Head(s))
  BY <1>1, Fewer
<1>5. x \notin st
  BY <1>1, <1>4 DEF Deletes
<1>6. /\ r \in Lists /\ r.hasMore = l.hasMore /\ r.loading = l.loading /\ r.stale = l.stale
      /\ r.queued = l.queued /\ r.skewed = l.skewed
      /\ ToSet(r.view) = ToSet(l.view) \ {x}
      /\ Descends(l.view) => Descends(r.view)
      /\ l.offset = Len(l.view) => r.offset = Len(r.view)
  <2> HIDE DEF x
  <2> QED
    BY <1>1, Filtered
<1> HIDE DEF r
<1>7. \A e \in ToSet(r.view) : ~Takes(Head(s), e)
  BY <1>6 DEF Takes
<1>8. l.view = <<>> => r.view = <<>>
  <2>1. r.view \in Seq(Entries)
    BY <1>6 DEF Lists
  <2>2. ToSet(<<>>) = {} /\ (ToSet(r.view) = {} => r.view = <<>>)
    BY <2>1, EmptySequence
  <2> QED
    BY <1>6, <2>2
<1>9. Seen(t, r, st, dict)
  BY <1>1, <1>6, <1>7, SeenTail
<1>10. Loader(t, r)
  <2>1. r.stale => r.view = <<>>
    BY <1>1, <1>6, <1>8 DEF Loader
  <2> QED
    BY <1>1, <1>6, <2>1, LoaderTail
<1>11. \A v, more : Good(v, more, s, st, f) => Good(v, more, t, st, f)
  BY <1>1, GoodTail
<1>12. Shifts(Head(s))
  BY DEF Shifts
<1> HIDE DEF t, x
<1>13. ASSUME Ordered(s, l, st, f) PROVE Ordered(t, r, st, f)
  <2>1. l.offset = Len(l.view) /\ Good(l.view, l.hasMore, t, st, f)
    BY <1>11, <1>13 DEF Ordered
  <2>2. Good(r.view, r.hasMore, t, st, f)
    BY <1>5, <1>6, <2>1 DEF Good
  <2>3. ASSUME NEW i \in DOMAIN t, t[i].kind = "page"
        PROVE  r.stale \/ Doomed(t, i, f) \/ Continues(t, i, r, st, f)
    <3> DEFINE k == i + 1
    <3>1. /\ k \in DOMAIN s /\ t[i] = s[k]
          /\ Doomed(s, k, f) => Doomed(t, i, f)
          /\ ~Undisturbed(s, k)
      BY <1>4, <1>12
    <3> HIDE DEF k
    <3>2. l.stale \/ Doomed(s, k, f) \/ Continues(s, k, l, st, f)
      BY <1>13, <2>3, <3>1 DEF Ordered
    <3>3. ASSUME Continues(s, k, l, st, f) PROVE Continues(t, i, r, st, f)
      <4>1. l.view = <<>> /\ s[k].from = l.offset /\ Good(l.view \o s[k].entries, s[k].more, s, st, f)
        BY <3>1, <3>3 DEF Continues
      <4>2. r.view = l.view /\ r.offset = l.offset
        BY <1>6, <1>8, <2>1, <4>1
      <4> QED
        BY <1>11, <3>1, <4>1, <4>2 DEF Continues
    <3> QED
      BY <1>6, <3>1, <3>2, <3>3
  <2> QED
    BY <1>6, <2>1, <2>2, <2>3 DEF Ordered
<1> QED
  BY <1>1, <1>3, <1>6, <1>9, <1>10, <1>13 DEF Listing, t, x, r

-----------------------------------------------------------------------------
(* A page that is wanted is put behind the list.                           *)
LEMMA ListingGrows ==
    ASSUME NEW s, s # <<>>, NEW l, NEW f, NEW typing, NEW st, NEW dict, NEW pend, NEW named,
           Listing(s, l, f, typing, st, dict, pend, named), Head(s).kind = "page", ~l.stale,
           NEW r \in Lists, r.view = l.view \o Head(s).entries, r.hasMore = Head(s).more,
           r.offset = Head(s).from + Len(Head(s).entries), ~r.loading,
           r.stale = l.stale, r.queued = l.queued, r.skewed = l.skewed
    PROVE  Listing(Tail(s), r, f, typing, st, dict, pend, named)
<1> DEFINE t == Tail(s)
           h == Head(s)
<1>1. /\ l \in Lists /\ Dated(st, dict) /\ Posted(s, st, dict, pend, named) /\ Sequence(s)
      /\ Pages(s, st, dict) /\ News(s, dict, pend)
      /\ Seen(s, l, st, dict) /\ Loader(s, l) /\ (typing \/ l.skewed \/ Ordered(s, l, st, f))
  BY DEF Listing, Posted
<1>2. /\ l.view \in Seq(Entries) /\ dict \in SUBSET Nat
  BY <1>1, EntriesAreNumbers DEF Lists
<1>3. Posted(t, st, dict, pend, named)
  BY <1>1, <1>2, PostedTail
<1>4. /\ 1 \in DOMAIN s /\ s[1] = h
      /\ \A i \in DOMAIN t : i \in Nat /\ i > 0 /\ i + 1 \in DOMAIN s /\ t[i] = s[i + 1]
      /\ \A i \in Nat : \A e : Taken(s, i + 1, e) => Taken(t, i, e)
      /\ \A e : Taken(s, 0, e) => Taken(t, 0, e) \/ Takes(h, e)
  BY <1>1, Fewer
<1>5. /\ h.kind = "page" /\ ~l.stale /\ r.view = l.view \o h.entries /\ r.hasMore = h.more
      /\ r.offset = h.from + Len(h.entries)
  OBVIOUS
<1> HIDE DEF t, h
<1>6. /\ h.entries \in Seq(Entries)
      /\ \A e \in ToSet(h.entries) : e \in dict /\ (e \in st \/ Taken(s, 1, e))
  BY <1>1, <1>4, <1>5 DEF Pages
<1>7. /\ ToSet(r.view) = ToSet(l.view) \cup ToSet(h.entries)
      /\ Len(r.view) = Len(l.view) + Len(h.entries)
  BY <1>2, <1>5, <1>6, Joined
<1>8. \A e : ~Takes(h, e)
  BY <1>5 DEF Takes
<1>9. Seen(t, r, st, dict)
  <2>1. \A e \in ToSet(l.view) :
           /\ e \in dict /\ (e \in st \/ r.skewed \/ Taken(t, 0, e))
           /\ \A i \in DOMAIN t : t[i].kind = "new" => e < t[i].entry
    BY <1>1, <1>4, <1>8 DEF Seen
  <2>2. ASSUME NEW e \in ToSet(h.entries)
        PROVE  e \in dict /\ (e \in st \/ Taken(t, 0, e))
    <3>1. Taken(s, 0 + 1, e) => Taken(t, 0, e)
      BY <1>4
    <3> QED
      BY <1>6, <3>1
  <2>3. ASSUME NEW e \in ToSet(h.entries), NEW i \in DOMAIN t, t[i].kind = "new"
        PROVE  e < t[i].entry
    <3> DEFINE k == i + 1
    <3>1. k \in DOMAIN s /\ t[i] = s[k] /\ 1 < k
      BY <1>4
    <3> HIDE DEF k
    <3> QED
      BY <1>1, <1>4, <1>5, <2>3, <3>1 DEF News
  <2> QED
    BY <1>7, <2>1, <2>2, <2>3 DEF Seen
<1>10. \A i \in DOMAIN t : t[i].kind # "page"
  <2> SUFFICES ASSUME NEW i \in DOMAIN t, t[i].kind = "page" PROVE FALSE
    OBVIOUS
  <2>1. i + 1 \in DOMAIN s /\ s[i + 1].kind = "page" /\ i + 1 # 1
    BY <1>4
  <2> QED
    BY <1>1, <1>4, <1>5, <2>1 DEF Loader
<1>11. Loader(t, r)
  BY <1>1, <1>5, <1>10 DEF Loader
<1>12. ASSUME Ordered(s, l, st, f) PROVE Ordered(t, r, st, f)
  <2>1. ~Doomed(s, 1, f)
    <3>0. \A j \in DOMAIN s : j \in Nat /\ j > 0
      BY <1>1, PlacedNumbers
    <3>1. \A j \in DOMAIN s : ~(j < 1)
      BY <3>0
    <3> QED
      BY <3>1 DEF Doomed
  <2>2. Continues(s, 1, l, st, f) /\ l.offset = Len(l.view)
    BY <1>4, <1>5, <1>12, <2>1 DEF Ordered
  <2>3. h.from = Len(l.view) /\ Good(r.view, r.hasMore, s, st, f)
    BY <1>4, <1>5, <2>2 DEF Continues
  <2>4. Good(r.view, r.hasMore, t, st, f)
    <3>1. Head(s).kind # "new"
      OBVIOUS
    <3> QED
      BY <1>1, <2>3, <3>1, GoodTail DEF t
  <2> QED
    BY <1>5, <1>7, <1>10, <2>3, <2>4 DEF Ordered
<1> QED
  BY <1>1, <1>3, <1>9, <1>11, <1>12 DEF Listing, t

(* The page read now continues the list, unless something arrives first:   *)
(* what the list shows is the head of what the database holds.             *)
LEMMA PageContinues ==
    ASSUME NEW s, NEW l \in Lists, NEW f, NEW dict, Dated(store, dict), Seen(s, l, store, dict),
           ~l.skewed, l.offset = Len(l.view), Good(l.view, l.hasMore, s, store, f),
           \A e : Suits(f, e) => ~Arrives(s, e),
           l.view = <<>> \/ \A i \in DOMAIN s : ~Shifts(s[i]), NEW t
    PROVE  Good(l.view \o Page(f, l.offset).entries, Page(f, l.offset).more, t, store, f)
<1> DEFINE v == l.view
           n == Len(v)
           p == Page(f, n)
           M == Matching(f)
           w == p.entries
<1>1. v \in Seq(Entries) /\ n \in Nat /\ l.offset = n
  BY InSequence DEF Lists
<1>2. store \in SUBSET dict /\ store \in SUBSET Entries /\ M \in SUBSET Entries
  BY DEF Dated, Matching
<1>3. \A e : e \in M <=> e \in store /\ Suits(f, e)
  BY DEF Matching, Suits
<1>4. ToSet(v) \subseteq M
  <2>1. CASE v = <<>>
    BY <2>1 DEF ToSet
  <2>2. CASE \A i \in DOMAIN s : ~Shifts(s[i])
    <3>1. \A e : ~Taken(s, 0, e)
      BY <2>2 DEF Taken, Takes, Shifts
    <3>2. \A e \in ToSet(v) : e \in store /\ Suits(f, e)
      BY <3>1 DEF Seen, Good
    <3> QED
      BY <1>3, <3>2
  <2> QED
    BY <2>1, <2>2
<1>5. Descends(v) /\ \A e \in M : e \in ToSet(v) \/ (\A d \in ToSet(v) : e < d)
  BY <1>3 DEF Good
<1>6. /\ p.more <=> Cardinality(M) > n + PageSize
      /\ w \in Seq(Entries) /\ Descends(w)
      /\ ToSet(w) = {e \in M : Position(M, e) \in n + 1..n + PageSize}
  BY <1>1, <1>2, PageRows
<1> HIDE DEF v, n, p, M, w
<1>7. /\ n <= Cardinality(M)
      /\ \A e \in M : Position(M, e) <= n <=> e \in ToSet(v)
  BY <1>1, <1>2, <1>4, <1>5, Topmost DEF n
<1>8. /\ Cardinality(M) \in Nat
      /\ \A e \in M : Position(M, e) \in 1..Cardinality(M)
      /\ \A d, e \in M : Position(M, d) < Position(M, e) <=> e < d
  BY <1>2, Positions
<1>9. PageSize \in Nat
  BY ViewsAssumption
<1>10. \A e \in M : Position(M, e) \in Nat
  BY <1>8
<1> HIDE DEF Position
<1>11. \A e \in ToSet(w) : e \in M /\ Position(M, e) > n /\ Position(M, e) <= n + PageSize
  BY <1>1, <1>6, <1>9, <1>10
<1>12. \A d \in ToSet(v) : d \in M /\ Position(M, d) <= n
  BY <1>4, <1>7
<1>13. \A d \in ToSet(v), e \in ToSet(w) : e < d
  <2>1. \A d \in ToSet(v), e \in ToSet(w) : Position(M, d) < Position(M, e)
    BY <1>1, <1>10, <1>11, <1>12
  <2> QED
    BY <1>8, <1>11, <1>12, <2>1
<1>14. Descends(v \o w) /\ ToSet(v \o w) = ToSet(v) \cup ToSet(w)
  BY <1>1, <1>5, <1>6, <1>13, Joined
<1>15. \A e \in ToSet(v \o w) : Suits(f, e)
  BY <1>3, <1>11, <1>12, <1>14
<1>16. ASSUME NEW e \in store, Suits(f, e)
       PROVE  e \in ToSet(v \o w) \/ (p.more /\ \A d \in ToSet(v \o w) : e < d)
  <2>1. e \in M
    BY <1>3, <1>16
  <2>2. CASE Position(M, e) <= n
    BY <1>7, <1>14, <2>1, <2>2
  <2>3. CASE ~(Position(M, e) <= n) /\ Position(M, e) <= n + PageSize
    <3>1. Position(M, e) \in n + 1..n + PageSize
      BY <1>1, <1>9, <1>10, <2>1, <2>3
    <3> QED
      BY <1>6, <1>14, <2>1, <3>1
  <2>4. CASE ~(Position(M, e) <= n + PageSize)
    <3>1. p.more
      <4>1. Cardinality(M) > n + PageSize
        BY <1>1, <1>8, <1>9, <1>10, <2>1, <2>4
      <4> QED
        BY <1>6, <4>1
    <3>2. \A d \in ToSet(v \o w) : d \in M /\ Position(M, d) < Position(M, e)
      <4>1. \A d \in ToSet(v) \cup ToSet(w) : d \in M /\ Position(M, d) <= n + PageSize
        BY <1>1, <1>9, <1>10, <1>11, <1>12
      <4> QED
        BY <1>1, <1>9, <1>10, <1>14, <2>1, <2>4, <4>1
    <3>3. \A d \in ToSet(v \o w) : e < d
      BY <1>8, <2>1, <3>2
    <3> QED
      BY <3>1, <3>3
  <2> QED
    BY <2>2, <2>3, <2>4
<1>17. Good(v \o w, p.more, t, store, f)
  BY <1>14, <1>15, <1>16 DEF Good
<1> QED
  BY <1>1, <1>17 DEF v, w, p

(* The list asks for its next page.  What it has not heard of yet would    *)
(* leave a gap.                                                            *)
LEMMA ListingLoads ==
    ASSUME NEW s, NEW l, NEW f, NEW typing, NEW dict, NEW pend, NEW named,
           Listing(s, l, f, typing, store, dict, pend, named), ~l.loading,
           NEW r \in Lists, r.view = l.view, r.offset = l.offset, r.hasMore = l.hasMore,
           r.loading, ~r.stale, ~r.queued, l.skewed => r.skewed,
           typing \/ r.skewed \/ l.view = <<>> \/ \A i \in DOMAIN s : ~Shifts(s[i])
    PROVE  Listing(Append(s, Page(f, l.offset)), r, f, typing, store, dict, pend, named)
<1> DEFINE p == Page(f, l.offset)
           t == Append(s, p)
           n == Len(s) + 1
<1>1. /\ l \in Lists /\ Dated(store, dict) /\ Sequence(s) /\ Pages(s, store, dict)
      /\ News(s, dict, pend) /\ Deletes(s, store, dict, named)
      /\ Seen(s, l, store, dict) /\ Loader(s, l)
      /\ (typing \/ l.skewed \/ Ordered(s, l, store, f))
  BY DEF Listing, Posted
<1>2. /\ Sequence(t) /\ n \in Nat /\ n > 0 /\ n \in DOMAIN t /\ t[n] = p
      /\ \A i \in DOMAIN s : i \in Nat /\ i < n /\ i \in DOMAIN t /\ t[i] = s[i]
      /\ \A i \in DOMAIN t : i = n \/ i \in DOMAIN s
      /\ \A e : Arrives(s, e) => Arrives(t, e)
      /\ \A i, e : Taken(s, i, e) => Taken(t, i, e)
  <2>1. Extended(s, p, t, n)
    BY <1>1, More
  <2> HIDE DEF t, n, p
  <2> QED
    BY <2>1 DEF Extended
<1>3. store \in SUBSET dict /\ store \in SUBSET Entries /\ l.offset \in Nat /\ l.view \in Seq(Entries)
  BY <1>1, EntriesAreNumbers DEF Lists
<1>4. /\ p.kind = "page" /\ p.from = l.offset /\ p.more \in BOOLEAN /\ p.entries \in Seq(Entries)
      /\ \A e \in ToSet(p.entries) : e \in store
  <2>1. \A e \in Matching(f) : e \in store
    BY DEF Matching
  <2> QED
    BY <1>3, <2>1, PageRows
<1>5. /\ r \in Lists /\ r.view = l.view /\ r.offset = l.offset /\ r.hasMore = l.hasMore
      /\ r.loading /\ ~r.stale /\ ~r.queued /\ (l.skewed => r.skewed) /\ ~l.loading
      /\ typing \/ r.skewed \/ l.view = <<>> \/ \A i \in DOMAIN s : ~Shifts(s[i])
  OBVIOUS
<1>6. \A i \in DOMAIN s : s[i].kind # "page"
  BY <1>1, <1>5 DEF Loader
<1> HIDE DEF t, n, p
<1>7. Pages(t, store, dict)
  BY <1>2, <1>3, <1>4, <1>6 DEF Pages
<1>8. News(t, dict, pend)
  <2> SUFFICES ASSUME NEW i \in DOMAIN t, t[i].kind = "new"
               PROVE  /\ t[i].entry \in dict /\ pend[t[i].entry] = "no"
                      /\ \A e \in dict : t[i].entry < e => Arrives(t, e)
                      /\ \A j \in DOMAIN t : j < i =>
                            /\ t[j].kind = "page" => \A e \in ToSet(t[j].entries) : e < t[i].entry
                            /\ t[j].kind = "new" => t[j].entry < t[i].entry
    BY DEF News
  <2>1. i \in DOMAIN s /\ t[i] = s[i] /\ i \in Nat /\ i < n
    BY <1>2, <1>4
  <2>2. \A j \in DOMAIN t : j < i => j \in DOMAIN s /\ t[j] = s[j]
    BY <1>2, <2>1
  <2> QED
    BY <1>1, <1>2, <2>1, <2>2 DEF News
<1>9. Deletes(t, store, dict, named)
  <2>1. ASSUME NEW i \in DOMAIN t, t[i].kind \in {"deleted", "bulk"} PROVE i \in DOMAIN s /\ t[i] = s[i]
    BY <1>2, <1>4, <2>1
  <2> QED
    BY <1>1, <2>1 DEF Deletes
<1>10. Seen(t, r, store, dict)
  <2>1. ASSUME NEW i \in DOMAIN t, t[i].kind = "new" PROVE i \in DOMAIN s /\ t[i] = s[i]
    BY <1>2, <1>4, <2>1
  <2> QED
    BY <1>1, <1>2, <1>5, <2>1 DEF Seen
<1>11. Loader(t, r)
  <2>1. \A i \in DOMAIN t : t[i].kind = "page" => i = n
    BY <1>2, <1>6
  <2>2. r.stale = FALSE /\ r.queued = FALSE
    BY <1>5 DEF Lists
  <2> QED
    BY <1>5, <2>1, <2>2 DEF Loader
<1>12. ASSUME Ordered(s, l, store, f), ~r.skewed, ~typing PROVE Ordered(t, r, store, f)
  <2>1. l.offset = Len(l.view) /\ Good(l.view, l.hasMore, s, store, f)
    BY <1>12 DEF Ordered
  <2>2. Good(r.view, r.hasMore, t, store, f)
    <3>1. \A e \in store : Arrives(t, e) \/ (e \in store /\ ~Arrives(s, e))
      BY <1>2
    <3>2. Good(l.view, l.hasMore, t, store, f)
      BY <2>1, <3>1, GoodStill
    <3> QED
      BY <1>5, <3>2
  <2>3. ASSUME ~Doomed(t, n, f) PROVE Continues(t, n, r, store, f)
    <3>1. \A e : Suits(f, e) => ~Arrives(s, e)
      BY <1>2, <2>3 DEF Doomed, Arrives
    <3>2. ~l.skewed /\ (l.view = <<>> \/ \A i \in DOMAIN s : ~Shifts(s[i]))
      BY <1>5, <1>12
    <3>3. Good(l.view \o p.entries, p.more, t, store, f)
      BY <1>1, <2>1, <3>1, <3>2, PageContinues DEF p
    <3>4. l.view = <<>> \/ Undisturbed(t, n)
      <4>1. \A j \in DOMAIN t : j < n => j \in DOMAIN s /\ t[j] = s[j]
        BY <1>2
      <4> QED
        BY <3>2, <4>1 DEF Undisturbed
    <3> QED
      BY <1>2, <1>4, <1>5, <3>3, <3>4 DEF Continues
  <2>4. \A k \in DOMAIN t : t[k].kind = "page" => k = n
    BY <1>2, <1>6
  <2> QED
    BY <1>5, <2>1, <2>2, <2>3, <2>4 DEF Ordered
<1> QED
  BY <1>1, <1>2, <1>5, <1>7, <1>8, <1>9, <1>10, <1>11, <1>12 DEF Listing, Posted, t, p

-----------------------------------------------------------------------------
(* The list is read anew, with whatever filter, or waits to be when the    *)
(* page under way has arrived.                                             *)
LEMMA ListingRestarts ==
    ASSUME NEW s, NEW l \in Lists, NEW dict, NEW pend, NEW named,
           Dated(store, dict), Posted(s, store, dict, pend, named),
           \A i \in DOMAIN s : s[i].kind = "page" => l.loading,
           \A i, j \in DOMAIN s : s[i].kind = "page" /\ s[j].kind = "page" => i = j,
           NEW msgs, Carries(s, msgs), Reload(l, msgs), NEW typing
    PROVE  Listing(inbox', list', filter', typing, store, dict, pend, named)
<1> DEFINE r == [l EXCEPT !.view = <<>>, !.offset = 0, !.hasMore = TRUE, !.skewed = FALSE,
                          !.stale = l.loading, !.queued = l.loading]
           q == [ResetList(l) EXCEPT !.loading = TRUE, !.stale = FALSE, !.queued = FALSE,
                                     !.skewed = @ \/ (Shifted /\ ResetList(l).offset > 0)]
<1>1. <<>> \in Seq(Entries) /\ l.loading \in BOOLEAN
  BY EmptySeq DEF Lists
<1>2. /\ r \in Lists /\ r.view = <<>> /\ r.offset = 0 /\ r.hasMore /\ r.loading = l.loading
      /\ r.stale = l.loading /\ r.queued = l.loading /\ ~r.skewed
  BY <1>1 DEF Lists
<1>3. l.loading => r = [ResetList(l) EXCEPT !.stale = TRUE, !.queued = TRUE]
  BY <1>1 DEF ResetList, Lists
<1>4. /\ q \in Lists /\ q.view = <<>> /\ q.offset = 0 /\ q.hasMore /\ q.loading
      /\ ~q.stale /\ ~q.queued /\ ~q.skewed /\ ResetList(l).offset = 0
  <2>1. ResetList(l) \in Lists /\ ResetList(l).offset = 0
        /\ ResetList(l).view = <<>> /\ ResetList(l).hasMore /\ ResetList(l).skewed = FALSE
    BY <1>1 DEF ResetList, Lists
  <2>2. (ResetList(l).skewed \/ (Shifted /\ ResetList(l).offset > 0)) = FALSE
    BY <2>1
  <2>3. q = [ResetList(l) EXCEPT !.loading = TRUE, !.stale = FALSE, !.queued = FALSE,
                                 !.skewed = FALSE]
    BY <2>2
  <2> HIDE DEF q
  <2> QED
    BY <2>1, <2>3 DEF Lists
<1>5. \/ l.loading /\ list' = r /\ inbox' = msgs
      \/ ~l.loading /\ list' = q /\ inbox' = Append(msgs, Page(filter', 0))
  BY <1>3, <1>4 DEF Reload, Load
<1> HIDE DEF r, q
<1>6. Loader(s, r)
  BY <1>2 DEF Loader
<1>7. Listing(s, r, filter', typing, store, dict, pend, named)
  BY <1>2, <1>6, EmptyListing
<1>8. Listing(msgs, r, filter', typing, store, dict, pend, named)
  BY <1>7, ListingCarried
<1>9. ASSUME ~l.loading
      PROVE  Listing(Append(msgs, Page(filter', 0)), q, filter', typing, store, dict, pend, named)
  BY <1>2, <1>4, <1>8, <1>9, ListingLoads
<1> QED
  BY <1>5, <1>8, <1>9

-----------------------------------------------------------------------------
(* The pages keep the invariant.  Only what the list shows can be deleted, *)
(* so no delete is deferred of an entry that has not been dictated.        *)
InOrder ==
    /\ Listing(inbox, list, filter, searchTimer, store, dictated, pending, bulk)
    /\ \A e \in Entries \ dictated : pending[e] = "no"

(* At the start the list is empty and no message under way.                *)
LEMMA InOrderInit == Init => InOrder
<1> SUFFICES ASSUME Init PROVE InOrder
  OBVIOUS
<1>1. /\ list = [view |-> <<>>, offset |-> 0, hasMore |-> TRUE, loading |-> FALSE,
                 stale |-> FALSE, queued |-> FALSE, skewed |-> FALSE]
      /\ inbox = <<>> /\ store = Old /\ dictated = Old
      /\ pending = [e \in Entries |-> "no"]
  BY DEF Init
<1>2. DOMAIN inbox = {} /\ Sequence(inbox) /\ <<>> \in Seq(Entries)
  BY <1>1, EmptySeq DEF Sequence
<1>3. Dated(store, dictated)
  BY <1>1, ViewsAssumption DEF Dated
<1>4. Posted(inbox, store, dictated, pending, bulk)
  BY <1>2 DEF Posted, Pages, News, Deletes
<1>5. list \in Lists /\ Loader(inbox, list)
  BY <1>1, <1>2 DEF Lists, Loader
<1>6. Listing(inbox, list, filter, searchTimer, store, dictated, pending, bulk)
  BY <1>1, <1>3, <1>4, <1>5, EmptyListing
<1> QED
  BY <1>1, <1>6 DEF InOrder

(* What the invariant says of the parts the steps use.                     *)
LEMMA InOrderParts ==
    ASSUME InOrder
    PROVE  /\ list \in Lists /\ Dated(store, dictated)
           /\ Posted(inbox, store, dictated, pending, bulk)
           /\ Sequence(inbox) /\ Seen(inbox, list, store, dictated) /\ Loader(inbox, list)
           /\ \A i \in DOMAIN inbox : inbox[i].kind = "page" => list.loading
           /\ \A i, j \in DOMAIN inbox : inbox[i].kind = "page" /\ inbox[j].kind = "page" => i = j
           /\ \A i \in DOMAIN inbox :
                 /\ inbox[i].kind = "new" => pending[inbox[i].entry] = "no"
                 /\ inbox[i].kind = "bulk" => inbox[i].ids \subseteq bulk
BY DEF InOrder, Listing, Posted, Loader, News, Deletes

(* The list is read anew after messages that matter only as they did.      *)
LEMMA InOrderRestarts ==
    ASSUME InOrder, NEW msgs, Carries(inbox, msgs), Reload(list, msgs),
           UNCHANGED <<store, dictated, pending, bulk>>
    PROVE  InOrder'
<1>1. Listing(inbox', list', filter', searchTimer', store, dictated, pending, bulk)
  BY InOrderParts, ListingRestarts
<1> QED
  BY <1>1 DEF InOrder

(* The head of the messages is taken: what is left of the others.          *)
LEMMA InOrderTail ==
    ASSUME InOrder, inbox # <<>>
    PROVE  /\ Posted(Rest, store, dictated, pending, bulk) /\ Sequence(Rest)
           /\ \A i \in DOMAIN Rest : Rest[i].kind = "page" => list.loading /\ Head(inbox).kind # "page"
           /\ \A i, j \in DOMAIN Rest : Rest[i].kind = "page" /\ Rest[j].kind = "page" => i = j
           /\ \A i \in DOMAIN Rest : i \in Nat /\ i + 1 \in DOMAIN inbox /\ Rest[i] = inbox[i + 1]
           /\ 1 \in DOMAIN inbox /\ inbox[1] = Head(inbox)
<1>1. /\ Dated(store, dictated) /\ Posted(inbox, store, dictated, pending, bulk) /\ Sequence(inbox)
      /\ \A i \in DOMAIN inbox : inbox[i].kind = "page" => list.loading
      /\ \A i, j \in DOMAIN inbox : inbox[i].kind = "page" /\ inbox[j].kind = "page" => i = j
  BY InOrderParts
<1>2. dictated \in SUBSET Nat
  BY <1>1, EntriesAreNumbers
<1>3. Posted(Rest, store, dictated, pending, bulk) /\ Sequence(Rest)
  BY <1>1, <1>2, PostedTail DEF Rest, Posted
<1>4. /\ \A i \in DOMAIN Rest : i \in Nat /\ i > 0 /\ i + 1 \in DOMAIN inbox /\ Rest[i] = inbox[i + 1]
      /\ 1 \in DOMAIN inbox /\ inbox[1] = Head(inbox)
  BY <1>1, Fewer DEF Rest
<1>5. \A i, j \in DOMAIN Rest : i + 1 # 1 /\ (i + 1 = j + 1 => i = j)
  BY <1>4
<1> QED
  BY <1>1, <1>3, <1>4, <1>5

\* What the list is for, in the terms of the invariant.
LEMMA FitsSuits ==
    ASSUME InOrder, Gets("new"), ~Fits(Head(inbox).entry)
    PROVE  ~Suits(filter, Head(inbox).entry)
<1> DEFINE h == Head(inbox)
<1>1. inbox # <<>> /\ h.kind = "new" /\ ~Fits(h.entry)
  BY DEF Gets
<1>2. 1 \in DOMAIN inbox /\ inbox[1] = h
  BY <1>1, InOrderTail
<1> HIDE DEF h
<1>3. pending[h.entry] = "no" /\ h.entry \in dictated
  BY <1>1, <1>2, InOrderParts DEF Posted, News
<1>4. \A e \in ToSet(list.view) : e < h.entry
  BY <1>1, <1>2, InOrderParts DEF Seen
<1>5. dictated \in SUBSET Nat
  BY InOrderParts, EntriesAreNumbers
<1>6. h.entry \notin Shown
  <2>1. h.entry \in Nat
    BY <1>3, <1>5
  <2>2. ~(h.entry < h.entry)
    BY <2>1
  <2> QED
    BY <1>4, <2>2 DEF Shown
<1> QED
  BY <1>1, <1>3, <1>6 DEF Fits, Suits, h

-----------------------------------------------------------------------------
(* Messages that change what is stored.                                    *)
LEMMA InOrderSent ==
    ASSUME InOrder, NEW x, inbox' = Append(inbox, x),
           Tells(x, inbox, store, dictated, store', dictated', pending', bulk'),
           UNCHANGED <<list, filter, searchTimer>>,
           \A e \in Entries \ dictated' : pending'[e] = "no"
    PROVE  InOrder'
<1>1. Listing(inbox', list, filter, searchTimer, store', dictated', pending', bulk')
  BY ListingSent DEF InOrder
<1> QED
  BY <1>1 DEF InOrder

(* An entry is dictated: it is the latest, saved or not.                   *)
LEMMA InOrderDictate ==
    ASSUME InOrder, NEW e \in Entries, Dictate(e)
    PROVE  InOrder'
<1> DEFINE m == [kind |-> "new", entry |-> e]
<1>1. /\ UNCHANGED <<list, filter, searchTimer, pending, bulk>>
      /\ inbox' = Append(inbox, m) /\ dictated' = dictated \cup {e}
      /\ e \notin dictated /\ \A f \in Entries \ dictated : e <= f
      /\ store' = store \/ store' = store \cup {e}
  BY DEF Dictate, Save
<1>2. m.kind = "new" /\ m.entry = e
  OBVIOUS
<1> HIDE DEF m
<1>3. Dated(store, dictated) /\ \A d \in Entries \ dictated : pending[d] = "no"
  BY InOrderParts DEF InOrder
<1>4. /\ Entries \in SUBSET Nat /\ store \in SUBSET dictated /\ dictated \in SUBSET Entries
      /\ \A d \in dictated, f \in Entries \ dictated : d < f
  BY <1>3, EntriesAreNumbers DEF Dated
<1>5. Dated(store', dictated')
  <2>1. \A f \in Entries \ dictated' : f \in Entries \ dictated /\ f # e
    BY <1>1
  <2>2. \A f \in Entries \ dictated' : e < f
    <3>1. \A f \in Entries \ dictated' : e <= f /\ f # e /\ f \in Nat /\ e \in Nat
      BY <1>1, <1>4, <2>1
    <3> QED
      BY <3>1
  <2>3. \A d \in dictated', f \in Entries \ dictated' : d < f
    BY <1>1, <1>4, <2>1, <2>2
  <2>4. store' \in SUBSET dictated' /\ dictated' \in SUBSET Entries
    BY <1>1, <1>4
  <2> QED
    BY <2>3, <2>4 DEF Dated
<1>6. Tells(m, inbox, store, dictated, store', dictated', pending', bulk')
  <2>1. /\ m.kind \in {"new", "deleted", "bulk", "ids"} /\ dictated \in SUBSET dictated'
        /\ \A d \in dictated : d \in store' => d \in store
        /\ \A d \in store : d \in store'
        /\ \A d \in dictated' : d \in dictated \/ (m.kind = "new" /\ m.entry = d)
        /\ m.entry \in dictated' \ dictated /\ pending'[m.entry] = "no"
    BY <1>1, <1>2, <1>3, <1>4
  <2>2. \A i \in DOMAIN inbox : /\ inbox[i].kind = "new" => pending'[inbox[i].entry] = "no"
                                /\ inbox[i].kind = "bulk" => inbox[i].ids \subseteq bulk'
    BY <1>1, InOrderParts
  <2> QED
    BY <1>2, <1>5, <2>1, <2>2 DEF Tells
<1> QED
  BY <1>1, <1>3, <1>6, InOrderSent

(* A deferred delete is sent.                                              *)
LEMMA InOrderCommit ==
    ASSUME InOrder, Chosen, NEW e \in Entries, Commit(e)
    PROVE  InOrder'
<1> DEFINE m(ok) == [kind |-> "deleted", entry |-> e, ok |-> ok]
<1>1. /\ UNCHANGED <<list, filter, searchTimer, bulk, dictated>>
      /\ pending[e] = "waiting" /\ pending' = [pending EXCEPT ![e] = "committing"]
  BY DEF Commit
<1>2. PICK ok \in BOOLEAN :
         /\ inbox' = Append(inbox, m(ok))
         /\ IF ok THEN store' = store \ {e} ELSE store' = store
  BY DEF Commit, DeleteMany, ledger
<1>3. m(ok).kind = "deleted" /\ m(ok).entry = e /\ m(ok).ok = ok
  OBVIOUS
<1> HIDE DEF m
<1>4. Dated(store, dictated) /\ \A d \in Entries \ dictated : pending[d] = "no"
  BY InOrderParts DEF InOrder
<1>5. e \in dictated /\ store \in SUBSET dictated /\ pending \in Delays
  BY <1>1, <1>4 DEF Dated, Chosen
<1>6. \A d : pending[d] = "no" => d # e
  BY <1>1
<1>7. \A d \in Entries : pending[d] = "no" => pending'[d] = "no"
  BY <1>1, <1>5, <1>6 DEF Delays
<1>8. Tells(m(ok), inbox, store, dictated, store', dictated', pending', bulk')
  <2>1. /\ m(ok).kind = "deleted" /\ dictated \in SUBSET dictated'
        /\ \A d \in dictated : d \in store' => d \in store
        /\ \A d \in dictated' : d \in dictated
        /\ m(ok).entry \in dictated' /\ (m(ok).ok => m(ok).entry \notin store')
    BY <1>1, <1>2, <1>3, <1>5
  <2>2. \A d \in store : d \in store' \/ Takes(m(ok), d)
    BY <1>2, <1>3 DEF Takes
  <2>3. \A i \in DOMAIN inbox :
           /\ inbox[i].kind = "new" => inbox[i].entry \in Entries /\ pending[inbox[i].entry] = "no"
           /\ inbox[i].kind = "bulk" => inbox[i].ids \subseteq bulk'
    BY <1>1, <1>4, InOrderParts DEF Posted, News, Dated
  <2>4. Dated(store', dictated')
    BY <1>1, <1>2, <1>4 DEF Dated
  <2> QED
    BY <1>7, <2>1, <2>2, <2>3, <2>4 DEF Tells
<1> QED
  BY <1>1, <1>2, <1>4, <1>7, <1>8, InOrderSent

(* A bulk delete is sent.                                                  *)
LEMMA InOrderBulk ==
    ASSUME InOrder, Chosen, ConfirmBulk
    PROVE  InOrder'
<1> DEFINE m(ok) == [kind |-> "bulk", ids |-> bulk' \cap store, ok |-> ok]
<1>1. UNCHANGED <<list, filter, searchTimer, pending, dictated>> /\ bulk = None
  BY DEF ConfirmBulk
<1>2. PICK ok \in BOOLEAN :
         /\ inbox' = Append(inbox, m(ok))
         /\ IF ok THEN store' = store \ bulk' ELSE store' = store
  BY DEF ConfirmBulk, DeleteMany, ledger
<1>3. m(ok).kind = "bulk" /\ m(ok).ids = bulk' \cap store /\ m(ok).ok = ok
  OBVIOUS
<1> HIDE DEF m
<1>4. Dated(store, dictated) /\ \A d \in Entries \ dictated : pending[d] = "no"
  BY InOrderParts DEF InOrder
<1>5. Tells(m(ok), inbox, store, dictated, store', dictated', pending', bulk')
  <2>1. /\ m(ok).kind = "bulk" /\ dictated \in SUBSET dictated'
        /\ \A d \in dictated : d \in store' => d \in store
        /\ \A d \in dictated' : d \in dictated
    BY <1>1, <1>2, <1>3
  <2>2. m(ok).ids \in SUBSET dictated' /\ m(ok).ids \subseteq bulk'
        /\ (m(ok).ok => m(ok).ids \cap store' = {})
    BY <1>1, <1>2, <1>3, <1>4 DEF Dated
  <2>3. \A d \in store : d \in store' \/ Takes(m(ok), d)
    BY <1>2, <1>3 DEF Takes
  <2>4. \A i \in DOMAIN inbox :
           /\ inbox[i].kind = "new" => pending'[inbox[i].entry] = "no"
           /\ inbox[i].kind # "bulk"
    BY <1>1, InOrderParts DEF Chosen, Mail
  <2>5. Dated(store', dictated')
    BY <1>1, <1>2, <1>4 DEF Dated
  <2> QED
    BY <2>1, <2>2, <2>3, <2>4, <2>5 DEF Tells
<1> QED
  BY <1>1, <1>2, <1>4, <1>5, InOrderSent

(* What a select-all asks for concerns no page.                            *)
LEMMA InOrderAsks ==
    ASSUME InOrder, SelectAll
    PROVE  InOrder'
<1> DEFINE m == [kind |-> "ids", ids |-> Matching(filter)]
<1>1. /\ UNCHANGED <<list, filter, searchTimer, pending, dictated, bulk, store>>
      /\ inbox' = Append(inbox, m) /\ m.kind = "ids"
  BY DEF SelectAll, Select, ledger
<1> HIDE DEF m
<1>2. Dated(store, dictated) /\ \A d \in Entries \ dictated : pending[d] = "no"
  BY InOrderParts DEF InOrder
<1>3. \A i \in DOMAIN inbox : /\ inbox[i].kind = "new" => pending'[inbox[i].entry] = "no"
                              /\ inbox[i].kind = "bulk" => inbox[i].ids \subseteq bulk'
  BY <1>1, InOrderParts
<1>4. Tells(m, inbox, store, dictated, store', dictated', pending', bulk')
  BY <1>1, <1>2, <1>3 DEF Tells
<1> QED
  BY <1>1, <1>2, <1>4, InOrderSent

-----------------------------------------------------------------------------
(* What the pages do with the messages.                                    *)
LEMMA InOrderScroll ==
    ASSUME InOrder, Scroll
    PROVE  InOrder'
<1> DEFINE gap == Shifted /\ list.offset > 0
           r == [list EXCEPT !.loading = TRUE, !.stale = FALSE, !.queued = FALSE, !.skewed = @ \/ gap]
<1>1. /\ UNCHANGED <<store, dictated, filter, searchTimer, pending, bulk>> /\ ~list.loading
      /\ list' = r /\ inbox' = Append(inbox, Page(filter, list.offset))
  BY DEF Scroll, Load, ledger
<1>2. /\ list \in Lists
      /\ Listing(inbox, list, filter, searchTimer, store, dictated, pending, bulk)
  BY InOrderParts DEF InOrder
<1>3. (list.skewed \/ gap) \in BOOLEAN
  BY <1>2 DEF Lists
<1>4. /\ r \in Lists /\ r.view = list.view /\ r.offset = list.offset /\ r.hasMore = list.hasMore
      /\ r.loading /\ ~r.stale /\ ~r.queued /\ r.skewed = (list.skewed \/ gap)
  <2> HIDE DEF gap
  <2> QED
    BY <1>2, <1>3 DEF Lists
<1> HIDE DEF r
<1>5. searchTimer \/ r.skewed \/ list.view = <<>> \/ \A i \in DOMAIN inbox : ~Shifts(inbox[i])
  <2> SUFFICES ASSUME ~searchTimer, ~r.skewed, NEW i \in DOMAIN inbox, Shifts(inbox[i])
               PROVE  list.view = <<>>
    OBVIOUS
  <2>1. ~list.skewed /\ ~gap
    BY <1>3, <1>4
  <2>2. list.offset = Len(list.view) /\ list.view \in Seq(Entries)
    BY <1>2, <2>1 DEF Listing, Ordered, Lists
  <2>3. Shifted
    BY DEF Shifts, Shifted
  <2>4. ~(Len(list.view) > 0)
    BY <2>1, <2>2, <2>3
  <2> QED
    BY <2>2, <2>4, EmptySeq
<1>6. list.skewed => r.skewed
  BY <1>3, <1>4
<1>7. Listing(inbox', r, filter, searchTimer, store, dictated, pending, bulk)
  BY <1>1, <1>2, <1>4, <1>5, <1>6, ListingLoads
<1> QED
  BY <1>1, <1>7 DEF InOrder

(* A page arrives: it continues the list, or it is read again.             *)
LEMMA InOrderPage ==
    ASSUME InOrder, GetPage
    PROVE  InOrder'
<1> DEFINE h == Head(inbox)
           l == Applied(list, h)
<1>1. /\ UNCHANGED <<store, dictated, filter, searchTimer, pending, bulk>>
      /\ inbox # <<>> /\ h.kind = "page"
      /\ \/ list.queued /\ Reload(l, Rest)
         \/ ~list.queued /\ list' = l /\ inbox' = Rest
  BY DEF GetPage, Gets, ledger
<1>2. /\ list \in Lists /\ Dated(store, dictated) /\ Loader(inbox, list)
      /\ Listing(inbox, list, filter, searchTimer, store, dictated, pending, bulk)
      /\ \A e \in Entries \ dictated : pending[e] = "no"
  BY InOrderParts DEF InOrder
<1>3. /\ Posted(Rest, store, dictated, pending, bulk) /\ Sequence(Rest)
      /\ \A i \in DOMAIN Rest : Rest[i].kind # "page"
      /\ inbox[1] = h /\ 1 \in DOMAIN inbox
  BY <1>1, InOrderTail
<1> HIDE DEF h
<1>4. list.stale = list.queued /\ list.queued \in BOOLEAN
  BY <1>2 DEF Loader, Lists
<1>5. /\ h.entries \in Seq(Entries) /\ h.from \in Nat /\ h.more \in BOOLEAN
      /\ Len(h.entries) \in Nat
  <2>1. h.entries \in Seq(Entries) /\ h.from \in Nat /\ h.more \in BOOLEAN
    BY <1>1, <1>3, InOrderParts DEF Posted, Pages
  <2> QED
    BY <2>1, InSequence
<1>6. CASE list.queued
  <2>1. l = [list EXCEPT !.loading = FALSE]
    BY <1>4, <1>6 DEF Applied
  <2>2. l \in Lists
    BY <1>2, <2>1 DEF Lists
  <2> HIDE DEF l
  <2>3. Reload(l, Rest)
    BY <1>1, <1>6
  <2>4. Listing(inbox', list', filter', searchTimer', store, dictated, pending, bulk)
    BY <1>2, <1>3, <2>2, <2>3, CarriesSelf, ListingRestarts
  <2> QED
    BY <1>1, <1>2, <2>4 DEF InOrder
<1>7. CASE ~list.queued
  <2>1. l = [list EXCEPT !.loading = FALSE, !.view = @ \o h.entries, !.hasMore = h.more,
                         !.offset = h.from + Len(h.entries)]
    BY <1>4, <1>7 DEF Applied
  <2>2. list.view \in Seq(Entries) /\ list.view \o h.entries \in Seq(Entries)
        /\ h.from + Len(h.entries) \in Nat
    <3>1. list.view \in Seq(Entries)
      BY <1>2 DEF Lists
    <3> QED
      BY <1>5, <3>1, ConcatProperties
  <2>3. /\ l \in Lists /\ l.view = list.view \o h.entries /\ l.hasMore = h.more
        /\ l.offset = h.from + Len(h.entries) /\ ~l.loading /\ l.stale = list.stale
        /\ l.queued = list.queued /\ l.skewed = list.skewed
    <3> DEFINE v == list.view \o h.entries
               n == h.from + Len(h.entries)
    <3>1. v \in Seq(Entries) /\ n \in Nat
      BY <2>2
    <3>2. l = [list EXCEPT !.loading = FALSE, !.view = v, !.hasMore = h.more, !.offset = n]
      BY <2>1
    <3> HIDE DEF l, v, n
    <3>3. /\ l \in Lists /\ l.view = v /\ l.hasMore = h.more /\ l.offset = n /\ ~l.loading
          /\ l.stale = list.stale /\ l.queued = list.queued /\ l.skewed = list.skewed
      BY <1>2, <1>5, <3>1, <3>2 DEF Lists
    <3> QED
      BY <3>3 DEF v, n
  <2> HIDE DEF l
  <2>4. list' = l /\ inbox' = Tail(inbox) /\ ~list.stale
    BY <1>1, <1>4, <1>7 DEF Rest
  <2>5. Listing(Tail(inbox), l, filter, searchTimer, store, dictated, pending, bulk)
    BY <1>1, <1>2, <2>3, <2>4, ListingGrows DEF h
  <2> QED
    BY <1>1, <1>2, <2>4, <2>5 DEF InOrder
<1> QED
  BY <1>4, <1>6, <1>7

(* A new entry arrives, and is shown or not, or has the list read anew.    *)
LEMMA InOrderNew ==
    ASSUME InOrder, GetNewEntry
    PROVE  InOrder'
<1> DEFINE h == Head(inbox)
           e == h.entry
           msgs == Append(Unanswered(Rest), Reply)
           r == Prepended(list, e)
<1>1. /\ UNCHANGED <<store, dictated, filter, searchTimer, pending, bulk>> /\ Gets("new")
      /\ \/ Fits(e) /\ list.loading /\ Reload(list, msgs)
         \/ /\ ~Fits(e) \/ ~list.loading
            /\ list' = (IF Fits(e) THEN r ELSE list) /\ inbox' = msgs
  BY DEF GetNewEntry, ReadInsights, Query, Rest
<1>2. inbox # <<>> /\ h.kind = "new"
  BY <1>1 DEF Gets
<1>3. /\ list \in Lists /\ Dated(store, dictated) /\ Loader(inbox, list)
      /\ Listing(inbox, list, filter, searchTimer, store, dictated, pending, bulk)
      /\ \A d \in Entries \ dictated : pending[d] = "no"
  BY InOrderParts DEF InOrder
<1>4. /\ Posted(Rest, store, dictated, pending, bulk) /\ Sequence(Rest)
      /\ \A i \in DOMAIN Rest : Rest[i].kind = "page" => list.loading
      /\ \A i, j \in DOMAIN Rest : Rest[i].kind = "page" /\ Rest[j].kind = "page" => i = j
      /\ inbox[1] = h /\ 1 \in DOMAIN inbox
  BY <1>2, InOrderTail
<1>5. Carries(Rest, msgs)
  BY <1>4, CarriesReads
<1> HIDE DEF msgs
<1>6. CASE Fits(e) /\ list.loading
  <2>1. Reload(list, msgs)
    BY <1>1, <1>6
  <2>2. Listing(inbox', list', filter', searchTimer', store, dictated, pending, bulk)
    BY <1>3, <1>4, <1>5, <2>1, ListingRestarts
  <2> QED
    BY <1>1, <1>3, <2>2 DEF InOrder
<1>7. CASE ~Fits(e)
  <2>1. ~Suits(filter, h.entry)
    BY <1>1, <1>7, FitsSuits
  <2>2. ~Shifts(h) /\ h.kind # "page"
    BY <1>2 DEF Shifts
  <2>3. Listing(Rest, list, filter, searchTimer, store, dictated, pending, bulk)
    BY <1>2, <1>3, <2>1, <2>2, ListingIgnores DEF Rest
  <2>4. Listing(msgs, list, filter, searchTimer, store, dictated, pending, bulk)
    BY <1>5, <2>3, ListingCarried
  <2>5. list' = list /\ inbox' = msgs
    BY <1>1, <1>7
  <2> QED
    BY <1>1, <1>3, <2>4, <2>5 DEF InOrder
<1>8. CASE Fits(e) /\ ~list.loading
  <2>1. Suits(filter, e) /\ e \in Entries
    <3>1. e \in dictated
      BY <1>2, <1>4, InOrderParts DEF Posted, News
    <3> QED
      BY <1>3, <1>8, <3>1 DEF Fits, Suits, Dated
  <2>2. r = [list EXCEPT !.view = <<e>> \o @, !.offset = @ + 1, !.skewed = @ \/ e \notin store]
    BY DEF Prepended
  <2>3. /\ list.view \in Seq(Entries) /\ <<e>> \o list.view \in Seq(Entries)
        /\ list.offset + 1 \in Nat /\ (list.skewed \/ e \notin store) \in BOOLEAN
    <3>1. list.view \in Seq(Entries) /\ list.offset \in Nat
      BY <1>3 DEF Lists
    <3> HIDE DEF e
    <3>2. <<e>> \o list.view \in Seq(Entries)
      BY <2>1, <3>1, Prepends
    <3> QED
      BY <3>1, <3>2
  <2>4. /\ r \in Lists /\ r.view = <<e>> \o list.view /\ r.offset = list.offset + 1
        /\ r.hasMore = list.hasMore /\ r.loading = list.loading /\ r.stale = list.stale
        /\ r.queued = list.queued /\ r.skewed = (list.skewed \/ e \notin store)
    <3> HIDE DEF r, e
    <3> QED
      BY <1>3, <2>2, <2>3 DEF Lists
  <2> HIDE DEF r
  <2>5. list' = r /\ inbox' = msgs /\ ~list.loading
    BY <1>1, <1>8
  <2>6. Listing(Rest, r, filter, searchTimer, store, dictated, pending, bulk)
    BY <1>2, <1>3, <2>1, <2>4, <2>5, ListingFirst DEF Rest
  <2>7. Listing(msgs, r, filter, searchTimer, store, dictated, pending, bulk)
    BY <1>5, <2>6, ListingCarried
  <2> QED
    BY <1>1, <1>3, <2>5, <2>7 DEF InOrder
<1> QED
  BY <1>6, <1>7, <1>8

(* The answer to a delete arrives: it is done, or undone.                  *)
LEMMA InOrderDeleted ==
    ASSUME InOrder, Chosen, GetDeleted
    PROVE  InOrder'
<1> DEFINE h == Head(inbox)
           msgs == Append(Unanswered(Rest), Reply)
           r == Without(list, {h.entry})
<1>1. /\ UNCHANGED <<store, dictated, filter, searchTimer, bulk>> /\ inbox # <<>>
      /\ h.kind = "deleted" /\ pending' = [pending EXCEPT ![h.entry] = "no"]
      /\ \/ h.ok /\ list' = r /\ inbox' = msgs
         \/ ~h.ok /\ list' = list /\ inbox' = Rest
  BY DEF GetDeleted, Gets, ReadInsights, Query, ledger
<1>2. /\ Listing(inbox, list, filter, searchTimer, store, dictated, pending, bulk)
      /\ \A d \in Entries \ dictated : pending[d] = "no"
      /\ pending \in Delays
  BY DEF InOrder, Chosen
<1>3. /\ Posted(Rest, store, dictated, pending, bulk) /\ Sequence(Rest)
      /\ \A d \in dictated : d \in Entries
  BY <1>1, InOrderTail, InOrderParts DEF Dated
<1>4. /\ \A d \in Entries : pending[d] = "no" => pending'[d] = "no"
  BY <1>1, <1>2 DEF Delays
<1>5. \A i \in DOMAIN Rest : /\ Rest[i].kind = "new" => pending'[Rest[i].entry] = "no"
                             /\ Rest[i].kind = "bulk" => Rest[i].ids \subseteq bulk
  BY <1>3, <1>4 DEF Posted, News, Deletes
<1>6. Carries(Rest, msgs)
  BY <1>3, CarriesReads
<1>7. CASE h.ok /\ list' = r /\ inbox' = msgs
  <2>1. Listing(Rest, r, filter, searchTimer, store, dictated, pending, bulk)
    BY <1>1, <1>2, <1>7, ListingLoses DEF Rest
  <2> HIDE DEF r, msgs, h
  <2>2. Listing(Rest, r, filter, searchTimer, store, dictated, pending', bulk)
    BY <1>5, <2>1, ListingNamed
  <2>3. Listing(msgs, r, filter, searchTimer, store, dictated, pending', bulk)
    BY <1>6, <2>2, ListingCarried
  <2> QED
    BY <1>1, <1>2, <1>4, <1>7, <2>3 DEF InOrder
<1>8. CASE ~h.ok /\ list' = list /\ inbox' = Rest
  <2>1. h.kind # "page" /\ h.kind # "new" /\ ~Shifts(h)
    BY <1>1, <1>8 DEF Shifts
  <2>2. Listing(Rest, list, filter, searchTimer, store, dictated, pending, bulk)
    BY <1>1, <1>2, <2>1, ListingIgnores DEF Rest
  <2>3. Listing(Rest, list, filter, searchTimer, store, dictated, pending', bulk)
    BY <1>5, <2>2, ListingNamed
  <2> QED
    BY <1>1, <1>2, <1>4, <1>8, <2>3 DEF InOrder
<1> QED
  BY <1>1, <1>7, <1>8

\* The answer to a bulk delete arrives: if it was done, the list is read anew.
LEMMA InOrderBulkDone ==
    ASSUME InOrder, Chosen, GetBulk
    PROVE  InOrder'
<1> DEFINE h == Head(inbox)
           msgs == Append(Unanswered(Rest), Reply)
           r == Without(list, h.ids)
<1>1. /\ UNCHANGED <<store, dictated, filter, searchTimer, pending>> /\ inbox # <<>>
      /\ h.kind = "bulk"
      /\ \/ ~h.ok /\ list' = list /\ inbox' = Rest
         \/ h.ok /\ (Reload(r, Rest) \/ Reload(r, msgs))
  BY DEF GetBulk, Gets, ReadInsights, Query, ledger
<1>2. /\ Listing(inbox, list, filter, searchTimer, store, dictated, pending, bulk)
      /\ \A d \in Entries \ dictated : pending[d] = "no"
      /\ list \in Lists /\ Dated(store, dictated)
  BY InOrderParts DEF InOrder
<1>3. /\ Posted(Rest, store, dictated, pending, bulk) /\ Sequence(Rest)
      /\ \A i \in DOMAIN Rest : Rest[i].kind = "page" => list.loading
      /\ \A i, j \in DOMAIN Rest : Rest[i].kind = "page" /\ Rest[j].kind = "page" => i = j
      /\ \A i \in DOMAIN Rest : i \in Nat /\ i + 1 \in DOMAIN inbox /\ Rest[i] = inbox[i + 1]
      /\ 1 \in DOMAIN inbox /\ inbox[1] = h
  BY <1>1, InOrderTail
<1>4. \A i \in DOMAIN Rest : Rest[i].kind # "bulk"
  <2> SUFFICES ASSUME NEW i \in DOMAIN Rest, Rest[i].kind = "bulk" PROVE FALSE
    OBVIOUS
  <2>1. i + 1 # 1 /\ i + 1 \in DOMAIN inbox /\ inbox[i + 1].kind = "bulk"
    <3>1. i \in DOMAIN Rest
      OBVIOUS
    <3>2. i > 0
      BY <3>1, <1>3, PlacedNumbers
    <3> QED
      BY <1>3, <3>2
  <2>2. inbox[1].kind = "bulk" /\ 1 \in DOMAIN inbox
    BY <1>1, <1>3
  <2> QED
    BY <2>1, <2>2 DEF Chosen, Mail
<1>5. \A i \in DOMAIN Rest : /\ Rest[i].kind = "new" => pending[Rest[i].entry] = "no"
                             /\ Rest[i].kind = "bulk" => Rest[i].ids \subseteq bulk'
  BY <1>3, <1>4 DEF Posted, News
<1>6. Carries(Rest, msgs) /\ Carries(Rest, Rest)
  BY <1>3, CarriesReads, CarriesSelf
<1>7. r \in Lists /\ r.loading = list.loading
  BY <1>2, Filtered
<1>8. CASE ~h.ok /\ list' = list /\ inbox' = Rest
  <2>1. h.kind # "page" /\ h.kind # "new" /\ ~Shifts(h)
    BY <1>1, <1>8 DEF Shifts
  <2>2. Listing(Rest, list, filter, searchTimer, store, dictated, pending, bulk)
    BY <1>1, <1>2, <2>1, ListingIgnores DEF Rest
  <2>3. Listing(Rest, list, filter, searchTimer, store, dictated, pending, bulk')
    BY <1>5, <2>2, ListingNamed
  <2> QED
    BY <1>1, <1>2, <1>8, <2>3 DEF InOrder
<1>9. CASE h.ok /\ (Reload(r, Rest) \/ Reload(r, msgs))
  <2> HIDE DEF r, msgs, h
  <2>1. PICK m \in {Rest, msgs} : Reload(r, m) /\ Carries(Rest, m)
    BY <1>6, <1>9
  <2>2. Posted(Rest, store, dictated, pending, bulk')
    BY <1>3, <1>4 DEF Posted, Deletes
  <2>3. /\ \A i \in DOMAIN Rest : Rest[i].kind = "page" => r.loading
        /\ \A i, j \in DOMAIN Rest : Rest[i].kind = "page" /\ Rest[j].kind = "page" => i = j
    BY <1>3, <1>7
  <2>4. Listing(inbox', list', filter', searchTimer', store, dictated, pending, bulk')
    BY <1>2, <1>7, <2>1, <2>2, <2>3, ListingRestarts
  <2> QED
    BY <1>1, <1>2, <2>4 DEF InOrder
<1> QED
  BY <1>1, <1>8, <1>9

(* The answer to a select-all leaves the list alone,                       *)
LEMMA InOrderIds ==
    ASSUME InOrder, GetIds
    PROVE  InOrder'
<1>1. /\ UNCHANGED <<store, dictated, filter, searchTimer, pending, bulk, list>> /\ inbox # <<>>
      /\ Head(inbox).kind = "ids" /\ inbox' = Tail(inbox)
  BY DEF GetIds, Gets, Select, Rest, ledger
<1>2. Head(inbox).kind # "page" /\ Head(inbox).kind # "new" /\ ~Shifts(Head(inbox))
  BY <1>1 DEF Shifts
<1>3. Listing(inbox', list, filter, searchTimer, store, dictated, pending, bulk)
  BY <1>1, <1>2, ListingIgnores DEF InOrder
<1> QED
  BY <1>1, <1>3 DEF InOrder

(* as the insights do.                                                     *)
LEMMA InOrderInsights ==
    ASSUME InOrder, GetInsights \/ RefreshInsights
    PROVE  InOrder'
<1>1. /\ UNCHANGED <<store, dictated, filter, searchTimer, pending, bulk, list>>
      /\ \/ /\ inbox # <<>> /\ Head(inbox).kind = "insights" /\ inbox' = Tail(inbox)
         \/ inbox' = Append(Unanswered(inbox), Reply)
  BY DEF GetInsights, RefreshInsights, Gets, ReadInsights, Query, Rest, ledger
<1>2. Sequence(inbox)
  BY InOrderParts
<1>3. Carries(inbox, inbox')
  <2>1. Head(inbox).kind = "insights" => Head(inbox).kind \notin Mattering
    BY DEF Mattering
  <2> QED
    BY <1>1, <1>2, <2>1, CarriesTail, CarriesReads
<1>4. Listing(inbox', list, filter, searchTimer, store, dictated, pending, bulk)
  BY <1>3, ListingCarried DEF InOrder
<1> QED
  BY <1>1, <1>4 DEF InOrder

(* A delete can only be deferred of what the list shows.                   *)
LEMMA InOrderDefers ==
    ASSUME InOrder, Chosen, NEW e \in Entries, Defer(e) \/ Undo(e)
    PROVE  InOrder'
<1>1. /\ UNCHANGED <<store, dictated, list, filter, searchTimer, bulk, inbox>>
      /\ \/ e \in Shown /\ pending' = [pending EXCEPT ![e] = "waiting"]
         \/ pending' = [pending EXCEPT ![e] = "no"]
  BY DEF Defer, Undo, Visible, ledger
<1>2. /\ Listing(inbox, list, filter, searchTimer, store, dictated, pending, bulk)
      /\ \A d \in Entries \ dictated : pending[d] = "no"
      /\ pending \in Delays /\ Dated(store, dictated) /\ Seen(inbox, list, store, dictated)
      /\ Posted(inbox, store, dictated, pending, bulk)
  BY InOrderParts DEF InOrder, Chosen
<1>3. dictated \in SUBSET Nat /\ \A d \in dictated : d \in Entries
  BY <1>2, EntriesAreNumbers
<1>4. e \in Shown =>
         /\ e \in dictated
         /\ \A i \in DOMAIN inbox : inbox[i].kind = "new" => inbox[i].entry # e
  <2> SUFFICES ASSUME e \in Shown
               PROVE  /\ e \in dictated
                      /\ \A i \in DOMAIN inbox : inbox[i].kind = "new" => inbox[i].entry # e
    OBVIOUS
  <2>1. e \in dictated /\ \A i \in DOMAIN inbox : inbox[i].kind = "new" => e < inbox[i].entry
    BY <1>2 DEF Shown, Seen
  <2>2. ~(e < e)
    BY <1>3, <2>1
  <2> QED
    BY <2>1, <2>2
<1>5. /\ \A d \in Entries \ dictated : pending'[d] = "no"
      /\ \A i \in DOMAIN inbox : inbox[i].kind = "new" => pending'[inbox[i].entry] = "no"
  <2>1. \A i \in DOMAIN inbox : inbox[i].kind = "new" =>
            inbox[i].entry \in Entries /\ pending[inbox[i].entry] = "no"
    BY <1>2, <1>3 DEF Posted, News
  <2>2. \A d \in Entries : pending'[d] = IF d = e THEN pending'[e] ELSE pending[d]
    BY <1>1, <1>2 DEF Delays
  <2>3. pending'[e] = "no" \/ e \in Shown
    BY <1>1, <1>2 DEF Delays
  <2> QED
    BY <1>2, <1>4, <2>1, <2>2, <2>3
<1>6. \A i \in DOMAIN inbox : inbox[i].kind = "bulk" => inbox[i].ids \subseteq bulk
  BY InOrderParts
<1>7. Listing(inbox, list, filter, searchTimer, store, dictated, pending', bulk)
  BY <1>2, <1>5, <1>6, ListingNamed
<1> QED
  BY <1>1, <1>5, <1>7 DEF InOrder

(* Every step keeps the list in order.                                     *)
LEMMA InOrderNext == InOrder /\ Chosen /\ [Next]_vars => InOrder'
<1> SUFFICES ASSUME InOrder, Chosen, [Next]_vars PROVE InOrder'
  OBVIOUS
<1>0. /\ Listing(inbox, list, filter, searchTimer, store, dictated, pending, bulk)
      /\ \A d \in Entries \ dictated : pending[d] = "no"
      /\ Sequence(inbox)
  BY InOrderParts DEF InOrder
<1>1. CASE UNCHANGED vars \/ Start \/ Background \/ ToggleMode
  <2>1. UNCHANGED <<inbox, list, filter, searchTimer, store, dictated, pending, bulk>>
    BY <1>1 DEF Start, Background, ToggleMode, Select, Initialize, CatchUp, vars, views, ledger
  <2> QED
    BY <1>0, <2>1 DEF InOrder
<1>2. CASE Become
  <2>1. /\ UNCHANGED <<store, dictated, pending, bulk>>
        /\ Reload(list, Append(Unanswered(inbox), Reply))
    BY <1>2 DEF Become, ReadInsights, Query
  <2>2. Carries(inbox, Append(Unanswered(inbox), Reply))
    BY <1>0, CarriesReads
  <2> QED
    BY <2>1, <2>2, InOrderRestarts
<1>3. ASSUME NEW f, SearchNow \/ ChangeFilter(f) PROVE InOrder'
  <2>1. UNCHANGED <<store, dictated, pending, bulk>> /\ Reload(list, inbox)
    BY <1>3 DEF SearchNow, ChangeFilter, ledger
  <2>2. Carries(inbox, inbox)
    BY <1>0, CarriesSelf
  <2> QED
    BY <2>1, <2>2, InOrderRestarts
<1>4. ASSUME NEW f, Search(f) PROVE InOrder'
  <2>1. UNCHANGED <<inbox, list, store, dictated, pending, bulk>> /\ searchTimer' = TRUE
    BY <1>4 DEF Search, ledger
  <2>2. Listing(inbox, list, filter', TRUE, store, dictated, pending, bulk)
    BY <1>0, ListingTyped
  <2> QED
    BY <1>0, <2>1, <2>2 DEF InOrder
<1>5. ASSUME NEW e \in Entries, Dictate(e) \/ Defer(e) \/ Undo(e) \/ Commit(e) PROVE InOrder'
  BY <1>5, InOrderDictate, InOrderDefers, InOrderCommit
<1>6. CASE Scroll \/ SelectAll \/ ConfirmBulk
  BY <1>6, InOrderScroll, InOrderAsks, InOrderBulk
<1>7. CASE GetPage \/ GetNewEntry \/ GetDeleted \/ GetBulk \/ GetIds
  BY <1>7, InOrderPage, InOrderNew, InOrderDeleted, InOrderBulkDone, InOrderIds
<1>8. CASE GetInsights \/ RefreshInsights
  BY <1>8, InOrderInsights
<1> QED
  BY <1>1, <1>2, <1>3, <1>4, <1>5, <1>6, <1>7, <1>8 DEF Next

(* So the list is in order in every reachable state (HistoryView.svelte).  *)
THEOREM KeptInOrder == Spec => []InOrder
BY Selected, InOrderInit, InOrderNext, PTL DEF Spec

(* What a message takes out was hidden when its delete was sent, and is    *)
(* until the message has been read.                                        *)
LEMMA KeptStored == InOrder /\ Chosen => KeptIsStored
<1> SUFFICES ASSUME InOrder, Chosen, NEW e \in Visible \ Deleting PROVE e \in store \/ list.skewed
  BY DEF KeptIsStored
<1>1. e \in ToSet(list.view) /\ pending[e] = "no" /\ e \notin Deleting
  BY DEF Visible, Shown
<1>2. e \in store \/ list.skewed \/ Taken(inbox, 0, e)
  BY <1>1, InOrderParts DEF Seen
<1>3. ~Taken(inbox, 0, e)
  <2> SUFFICES ASSUME NEW i \in DOMAIN inbox, Takes(inbox[i], e) PROVE FALSE
    BY DEF Taken
  <2>1. /\ inbox[i].kind = "deleted" => inbox[i].entry \in Committing
        /\ inbox[i].kind = "bulk" => bulk # None /\ inbox[i].ids \subseteq bulk
    BY InOrderParts DEF Chosen, Mail
  <2>2. inbox[i].kind = "deleted" /\ inbox[i].entry = e => FALSE
    BY <1>1, <2>1 DEF Committing
  <2>3. inbox[i].kind = "bulk" /\ e \in inbox[i].ids => FALSE
    BY <1>1, <2>1 DEF Deleting
  <2> QED
    BY <2>2, <2>3 DEF Takes
<1> QED
  BY <1>2, <1>3

(* Sequences of one length whose elements agree are equal, and one whose   *)
(* elements another begins with is a prefix of it.                         *)
LEMMA PrefixesAgree ==
    ASSUME NEW S, NEW s \in Seq(S), NEW t \in Seq(S), Len(s) <= Len(t),
           \A i \in 1..Len(s) : s[i] = t[i]
    PROVE  IsPrefix(s, t) /\ (Len(t) <= Len(s) => s = t)
<1>1. Len(s) \in Nat /\ Len(t) \in Nat
  BY LenProperties
<1>2. Len(t) <= Len(s) => s = t
  <2> SUFFICES ASSUME Len(t) <= Len(s) PROVE s = t
    OBVIOUS
  <2>1. Len(s) = Len(t)
    BY <1>1
  <2> QED
    BY <2>1, SeqEqual
<1>3. SubSeq(t, 1, Len(s)) = s
  <2> DEFINE u == SubSeq(t, 1, Len(s))
  <2>1. /\ u \in Seq(S) /\ Len(u) = Len(s)
        /\ \A i \in 1..Len(s) : u[i] = t[i]
    BY <1>1, SubSeqProperties
  <2> HIDE DEF u
  <2>2. \A i \in 1..Len(u) : u[i] = s[i]
    BY <2>1
  <2>3. u = s
    BY <2>1, <2>2, SeqEqual
  <2> QED
    BY <2>3 DEF u
<1>4. SubSeq(s, 1, Len(s)) = s
  <2> DEFINE u == SubSeq(s, 1, Len(s))
  <2>1. /\ u \in Seq(S) /\ Len(u) = Len(s)
        /\ \A i \in 1..Len(s) : u[i] = s[i]
    BY <1>1, SubSeqProperties
  <2> HIDE DEF u
  <2>3. u = s
    BY <2>1, SeqEqual
  <2> QED
    BY <2>3 DEF u
<1> QED
  BY <1>2, <1>3, <1>4 DEF IsPrefix

(* A list in order, with no message left, is the head of all that matches. *)
LEMMA SettledInOrder == InOrder => ListSettled
<1> SUFFICES ASSUME InOrder, inbox = <<>>, ~searchTimer, ~list.skewed
             PROVE  /\ IsPrefix(list.view, Listed(filter)) /\ list.offset = Len(list.view)
                    /\ list.hasMore \/ list.view = Listed(filter)
  BY DEF ListSettled
<1> DEFINE M == Matching(filter)
           L == NewestFirst(M)
           v == list.view
<1>1. /\ list \in Lists /\ Dated(store, dictated) /\ Seen(inbox, list, store, dictated)
      /\ Ordered(inbox, list, store, filter)
  BY DEF InOrder, Listing
<1>2. list.offset = Len(v) /\ Good(v, list.hasMore, inbox, store, filter)
  BY <1>1 DEF Ordered
<1>3. v \in Seq(Entries) /\ list.hasMore \in BOOLEAN
  BY <1>1 DEF Lists
<1>4. DOMAIN inbox = {}
  BY EmptySeq, LenProperties
<1>5. \A e : ~Arrives(inbox, e) /\ ~Taken(inbox, 0, e)
  BY <1>4 DEF Arrives, Taken
<1>6. M \in SUBSET Entries /\ \A e : e \in M <=> e \in store /\ Suits(filter, e)
  BY <1>1, EntriesAreNumbers DEF Matching, Suits
<1>7. ToSet(v) \subseteq M /\ Descends(v)
  BY <1>1, <1>2, <1>5, <1>6 DEF Seen, Good
<1>8. \A e \in M : e \in ToSet(v) \/ (list.hasMore /\ \A d \in ToSet(v) : e < d)
  BY <1>2, <1>5, <1>6 DEF Good
<1> HIDE DEF M, L, v
<1>9. /\ Len(v) \in Nat /\ Len(v) <= Cardinality(M)
      /\ \A i \in 1..Len(v) : v[i] = NewestFirst(M)[i]
      /\ \A e \in M : Position(M, e) <= Len(v) <=> e \in ToSet(v)
  BY <1>3, <1>6, <1>7, <1>8, Topmost
<1>10. L \in Seq(Entries) /\ Len(L) = Cardinality(M) /\ Cardinality(M) \in Nat
  BY <1>6, Newest DEF L
<1>11. IsPrefix(v, L) /\ (Len(L) <= Len(v) => v = L)
  <2>1. Len(v) <= Len(L) /\ \A i \in 1..Len(v) : v[i] = L[i]
    BY <1>9, <1>10 DEF L
  <2> QED
    BY <1>3, <1>10, <2>1, PrefixesAgree
<1>12. ~list.hasMore => Len(L) <= Len(v)
  <2> SUFFICES ASSUME ~list.hasMore PROVE Len(L) <= Len(v)
    OBVIOUS
  <2>1. \A e \in M : Position(M, e) <= Len(v)
    BY <1>8, <1>9
  <2>2. Cardinality(M) > 0 => L[Cardinality(M)] \in M /\ Position(M, L[Cardinality(M)]) = Cardinality(M)
    <3>1. Cardinality(M) > 0 => Cardinality(M) \in 1..Cardinality(M)
      BY <1>10
    <3>2. \A i \in 1..Cardinality(M) :
             NewestFirst(M)[i] \in M /\ Place(M, NewestFirst(M)[i]) = Cardinality(M) + 1 - i
      BY <1>6, Newest
    <3> QED
      BY <1>10, <3>1, <3>2 DEF L, Position
  <2> QED
    BY <1>9, <1>10, <2>1, <2>2
<1>13. list.hasMore \/ v = L
  BY <1>3, <1>11, <1>12
<1> QED
  BY <1>2, <1>11, <1>13 DEF v, L, M, Listed

(* Both pages agree with the database, in every reachable state: on what   *)
(* was kept at any time, and on all of it once the messages are in.        *)
THEOREM Agreement == Spec => []ViewsAgree
<1>1. InOrder /\ Chosen /\ InsightsSettled => ViewsAgree
  BY KeptStored, SettledInOrder DEF ViewsAgree
<1> QED
  BY <1>1, Selected, KeptInOrder, InsightsCount, PTL

-----------------------------------------------------------------------------
(* What is waited for is on its way: of the list (`loading`), a select-all *)
(* (`asking`), a bulk delete (`busy`) and each delete being committed; the *)
(* insights are on their way once at most.                                 *)
Underway(s, kind) == \E i \in DOMAIN s : s[i].kind = kind
DeleteUnderway(s, e) == \E i \in DOMAIN s : s[i].kind = "deleted" /\ s[i].entry = e

Answers(s, loading, asking, busy, committing) ==
    /\ Sequence(s)
    /\ loading => Underway(s, "page")
    /\ asking => Underway(s, "ids")
    /\ busy => Underway(s, "bulk")
    /\ \A e \in committing : DeleteUnderway(s, e)
    /\ \A i, j \in DOMAIN s : s[i].kind = "insights" /\ s[j].kind = "insights" => i = j

Answered ==
    /\ Answers(inbox, list.loading, sel.asking, bulk # None, Committing)
    /\ faults \in 0..MaxFaults

(* One message more, which may be what is waited for from now on,          *)
LEMMA AnswersSent ==
    ASSUME NEW s, NEW l, NEW a, NEW b, NEW c, Answers(s, l, a, b, c),
           NEW x, x.kind # "insights", NEW l2, NEW a2, NEW b2, NEW c2,
           l2 => l \/ x.kind = "page", a2 => a \/ x.kind = "ids", b2 => b \/ x.kind = "bulk",
           \A e \in c2 : e \in c \/ (x.kind = "deleted" /\ x.entry = e)
    PROVE  Answers(Append(s, x), l2, a2, b2, c2)
<1> DEFINE t == Append(s, x)
           n == Len(s) + 1
<1>1. Sequence(s)
  BY DEF Answers
<1>2. /\ Sequence(t) /\ n \in DOMAIN t /\ t[n] = x
      /\ \A i \in DOMAIN s : i \in DOMAIN t /\ t[i] = s[i]
      /\ \A i \in DOMAIN t : i = n \/ i \in DOMAIN s
  <2>1. Extended(s, x, t, n)
    BY <1>1, More
  <2> HIDE DEF t, n
  <2> QED
    BY <2>1 DEF Extended
<1> HIDE DEF t, n
<1>3. \A k : Underway(s, k) \/ x.kind = k => Underway(t, k)
  BY <1>2 DEF Underway
<1>4. \A e : DeleteUnderway(s, e) \/ (x.kind = "deleted" /\ x.entry = e) => DeleteUnderway(t, e)
  BY <1>2 DEF DeleteUnderway
<1>5. \A i, j \in DOMAIN t : t[i].kind = "insights" /\ t[j].kind = "insights" => i = j
  BY <1>2 DEF Answers
<1>6. l2 => Underway(t, "page")
  BY <1>3 DEF Answers
<1>7. a2 => Underway(t, "ids")
  BY <1>3 DEF Answers
<1>8. b2 => Underway(t, "bulk")
  BY <1>3 DEF Answers
<1>9. \A e \in c2 : DeleteUnderway(t, e)
  BY <1>4 DEF Answers
<1> QED
  BY <1>2, <1>5, <1>6, <1>7, <1>8, <1>9 DEF Answers, t

(* one taken, which is what is waited for no longer,                       *)
LEMMA AnswersTaken ==
    ASSUME NEW s, NEW l, NEW a, NEW b, NEW c, Answers(s, l, a, b, c), s # <<>>,
           NEW l2, NEW a2, NEW b2, NEW c2,
           l2 => l /\ Head(s).kind # "page", a2 => a /\ Head(s).kind # "ids",
           b2 => b /\ Head(s).kind # "bulk",
           \A e \in c2 : e \in c /\ ~(Head(s).kind = "deleted" /\ Head(s).entry = e)
    PROVE  Answers(Tail(s), l2, a2, b2, c2)
<1> DEFINE t == Tail(s)
           h == Head(s)
<1>1. Sequence(s)
  BY DEF Answers
<1>2. /\ Sequence(t) /\ 1 \in DOMAIN s /\ s[1] = h
      /\ \A i \in DOMAIN t : i \in Nat /\ i + 1 \in DOMAIN s /\ t[i] = s[i + 1]
      /\ \A j \in DOMAIN s : j = 1 \/ (j - 1 \in DOMAIN t /\ t[j - 1] = s[j])
  BY <1>1, Fewer
<1> HIDE DEF t, h
<1>3. \A k : Underway(s, k) /\ h.kind # k => Underway(t, k)
  BY <1>2 DEF Underway
<1>4. \A e : DeleteUnderway(s, e) /\ ~(h.kind = "deleted" /\ h.entry = e) => DeleteUnderway(t, e)
  BY <1>2 DEF DeleteUnderway
<1>5. \A i, j \in DOMAIN t : t[i].kind = "insights" /\ t[j].kind = "insights" => i = j
  <2>1. \A i, j \in DOMAIN t : t[i].kind = "insights" /\ t[j].kind = "insights" => i + 1 = j + 1
    BY <1>2 DEF Answers
  <2> QED
    BY <1>2, <2>1
<1>6. l2 => Underway(t, "page")
  BY <1>3 DEF Answers, h
<1>7. a2 => Underway(t, "ids")
  BY <1>3 DEF Answers, h
<1>8. b2 => Underway(t, "bulk")
  BY <1>3 DEF Answers, h
<1>9. \A e \in c2 : DeleteUnderway(t, e)
  BY <1>4 DEF Answers, h
<1> QED
  BY <1>2, <1>5, <1>6, <1>7, <1>8, <1>9 DEF Answers, t

(* or waited for no longer without it.                                     *)
LEMMA AnswersStill ==
    ASSUME NEW s, NEW l, NEW a, NEW b, NEW c, Answers(s, l, a, b, c),
           NEW l2, NEW a2, NEW b2, NEW c2, l2 => l, a2 => a, b2 => b, c2 \subseteq c
    PROVE  Answers(s, l2, a2, b2, c2)
<1>1. l2 => Underway(s, "page")
  BY DEF Answers
<1>2. a2 => Underway(s, "ids")
  BY DEF Answers
<1>3. b2 => Underway(s, "bulk")
  BY DEF Answers
<1> QED
  BY <1>1, <1>2, <1>3 DEF Answers

(* A reading of the insights replaces the one under way.                   *)
LEMMA AnswersRead ==
    ASSUME NEW s, NEW l, NEW a, NEW b, NEW c, Answers(s, l, a, b, c)
    PROVE  Answers(Append(Unanswered(s), Reply), l, a, b, c)
<1> DEFINE older == {i \in DOMAIN s : s[i].kind = "insights"}
           u == Unanswered(s)
           t == Append(u, Reply)
           n == Len(u) + 1
<1>1. Sequence(s)
  BY DEF Answers
<1>2. /\ Sequence(u) /\ \A i \in DOMAIN u : u[i].kind # "insights"
      /\ \A j \in DOMAIN s : s[j].kind # "insights" => \E i \in DOMAIN u : u[i] = s[j]
  <2>1. CASE older = {}
    BY <1>1, <2>1 DEF Unanswered
  <2>2. CASE older # {}
    <3> DEFINE k == CHOOSE i \in older : TRUE
    <3>1. k \in older /\ u = RemoveAt(s, k)
      BY <2>2 DEF Unanswered
    <3>2. k \in DOMAIN s /\ s[k].kind = "insights" /\ \A i \in DOMAIN s : s[i].kind = "insights" => i = k
      BY <3>1 DEF Answers
    <3> HIDE DEF k, u
    <3>3. /\ Sequence(u) /\ Len(s) \in Nat \ {0} /\ DOMAIN s = 1..Len(s) /\ DOMAIN u = 1..Len(s) - 1
          /\ \A i \in 1..Len(s) - 1 : u[i] = IF i < k THEN s[i] ELSE s[i + 1]
      BY <1>1, <3>1, <3>2, Removed1
    <3>4. \A i \in DOMAIN u : \E j \in DOMAIN s : j # k /\ u[i] = s[j]
      <4> SUFFICES ASSUME NEW i \in DOMAIN u PROVE \E j \in DOMAIN s : j # k /\ u[i] = s[j]
        OBVIOUS
      <4> DEFINE j == IF i < k THEN i ELSE i + 1
      <4>1. j \in DOMAIN s /\ j # k /\ u[i] = s[j]
        BY <3>2, <3>3
      <4> QED
        BY <4>1
    <3>5. \A j \in DOMAIN s : j # k => \E i \in DOMAIN u : u[i] = s[j]
      <4> SUFFICES ASSUME NEW j \in DOMAIN s, j # k PROVE \E i \in DOMAIN u : u[i] = s[j]
        OBVIOUS
      <4> DEFINE i == IF j < k THEN j ELSE j - 1
      <4>1. i \in DOMAIN u /\ u[i] = s[j]
        BY <3>2, <3>3
      <4> QED
        BY <4>1
    <3>6. \A i \in DOMAIN u : u[i].kind # "insights"
      BY <3>2, <3>4
    <3>7. \A j \in DOMAIN s : s[j].kind # "insights" => \E i \in DOMAIN u : u[i] = s[j]
      BY <3>2, <3>5
    <3> QED
      BY <3>3, <3>6, <3>7
  <2> QED
    BY <2>1, <2>2
<1> HIDE DEF u
<1>3. /\ Sequence(t) /\ n \in DOMAIN t /\ t[n] = Reply
      /\ \A i \in DOMAIN u : i \in DOMAIN t /\ t[i] = u[i]
      /\ \A i \in DOMAIN t : i = n \/ i \in DOMAIN u
  <2>1. Extended(u, Reply, t, n)
    BY <1>2, More
  <2> HIDE DEF t, n
  <2> QED
    BY <2>1 DEF Extended
<1> HIDE DEF t, n
<1>4. \A j \in DOMAIN s : s[j].kind # "insights" => \E i \in DOMAIN t : t[i] = s[j]
  BY <1>2, <1>3
<1>5. \A k : k # "insights" /\ Underway(s, k) => Underway(t, k)
  BY <1>4 DEF Underway
<1>6. \A e : DeleteUnderway(s, e) => DeleteUnderway(t, e)
  BY <1>4 DEF DeleteUnderway
<1>7. \A i, j \in DOMAIN t : t[i].kind = "insights" /\ t[j].kind = "insights" => i = j
  BY <1>2, <1>3
<1>8. l => Underway(t, "page")
  BY <1>5 DEF Answers
<1>9. a => Underway(t, "ids")
  BY <1>5 DEF Answers
<1>10. b => Underway(t, "bulk")
  BY <1>5 DEF Answers
<1> QED
  BY <1>3, <1>6, <1>7, <1>8, <1>9, <1>10 DEF Answers, t, u

(* A list that is read anew has its page on its way then.                  *)
LEMMA AnswersReload ==
    ASSUME NEW k, NEW msgs, NEW a, NEW b, NEW c,
           \/ Load(k, msgs) /\ Answers(msgs, FALSE, a, b, c)
           \/ Reload(k, msgs) /\ Answers(msgs, k.loading, a, b, c)
    PROVE  Answers(inbox', TRUE, a, b, c)
<1>1. ASSUME NEW r, Load(r, msgs), Answers(msgs, FALSE, a, b, c) PROVE Answers(inbox', TRUE, a, b, c)
  <2> DEFINE p == Page(filter', r.offset)
  <2>1. p.kind = "page"
    BY DEF Page
  <2>2. inbox' = Append(msgs, p)
    BY <1>1 DEF Load
  <2> HIDE DEF p
  <2> QED
    BY <1>1, <2>1, <2>2, AnswersSent
<1>2. CASE Reload(k, msgs) /\ Answers(msgs, k.loading, a, b, c) /\ k.loading
  <2>1. inbox' = msgs
    BY <1>2 DEF Reload
  <2>2. Answers(msgs, TRUE, a, b, c)
    BY <1>2, AnswersStill
  <2> QED
    BY <2>1, <2>2
<1>3. CASE Reload(k, msgs) /\ Answers(msgs, k.loading, a, b, c) /\ ~k.loading
  <2>1. Load(ResetList(k), msgs)
    BY <1>3 DEF Reload
  <2>2. Answers(msgs, FALSE, a, b, c)
    BY <1>3 DEF Answers
  <2> QED
    BY <1>1, <2>1, <2>2
<1> QED
  BY <1>1, <1>2, <1>3

(* No more writes fail than the bound allows.                              *)
LEMMA FaultsBounded == ASSUME [Next]_vars, faults \in 0..MaxFaults PROVE faults' \in 0..MaxFaults
<1> SUFFICES faults' = faults \/ Fault
  BY ViewsAssumption DEF Fault
<1>1. ASSUME NEW l, NEW msgs, Load(l, msgs) \/ Reload(l, msgs) PROVE faults' = faults
  BY <1>1 DEF Load, Reload, NoFault
<1>2. CASE UNCHANGED vars \/ Start \/ ToggleMode \/ SelectAll \/ GetIds \/ GetInsights \/ GetDeleted
  BY <1>2 DEF vars, Start, ToggleMode, SelectAll, GetIds, GetInsights, GetDeleted, NoFault
<1>3. CASE Become \/ RefreshInsights
  <2>1. faults' = faults \/ Reload(list, Append(Unanswered(inbox), Reply))
    BY <1>3 DEF Become, RefreshInsights, ReadInsights
  <2> QED
    BY <1>1, <2>1
<1>4. CASE Background \/ ConfirmBulk
  BY <1>4 DEF Background, ConfirmBulk, NoFault
<1>5. CASE Scroll \/ SearchNow
  BY <1>1, <1>5 DEF Scroll, SearchNow
<1>6. ASSUME NEW e, Dictate(e) \/ Defer(e) \/ Undo(e) \/ Commit(e) PROVE faults' = faults \/ Fault
  BY <1>6 DEF Dictate, Defer, Undo, Commit, NoFault
<1>7. ASSUME NEW f, ChangeFilter(f) \/ Search(f) PROVE faults' = faults
  BY <1>1, <1>7 DEF ChangeFilter, Search
<1>8. CASE GetPage \/ GetBulk
  <2>1. faults' = faults \/ \E l, msgs : Reload(l, msgs)
    BY <1>8 DEF GetPage, GetBulk, ReadInsights
  <2> QED
    BY <1>1, <2>1
<1>9. CASE GetNewEntry
  <2>1. faults' = faults \/ \E l, msgs : Reload(l, msgs)
    BY <1>9 DEF GetNewEntry, ReadInsights
  <2> QED
    BY <1>1, <2>1
<1> QED
  BY <1>2, <1>3, <1>4, <1>5, <1>6, <1>7, <1>8, <1>9 DEF Next

(* Nothing is waited for at the start.                                     *)
LEMMA AnsweredInit == Init => Answered
<1> SUFFICES ASSUME Init PROVE Answered
  OBVIOUS
<1>1. /\ inbox = <<>> /\ list.loading = FALSE /\ sel.asking = FALSE /\ bulk = None
      /\ pending = [e \in Entries |-> "no"] /\ faults = 0
  BY DEF Init
<1>2. Sequence(inbox) /\ DOMAIN inbox = {}
  <2>1. <<>> \in Seq({})
    BY EmptySeq
  <2> QED
    BY <1>1, <2>1 DEF Sequence
<1>3. Committing = {}
  BY <1>1 DEF Committing
<1>4. faults \in 0..MaxFaults
  BY <1>1, ViewsAssumption
<1>5. Answers(inbox, list.loading, sel.asking, bulk # None, Committing)
  BY <1>1, <1>2, <1>3 DEF Answers
<1> QED
  BY <1>4, <1>5 DEF Answered

(* What the pages do to the selection leaves a select-all under way.       *)
LEMMA StillAsking ==
    ASSUME sel \in Selections,
           \/ sel' = sel \/ sel' = Cleared(sel) \/ sel' = Left(sel) \/ sel' = LeftByReset(sel)
           \/ sel' = LeftByReset(Cleared(sel))
    PROVE  sel'.asking = sel.asking
BY Resets DEF Narrowed, Emptied

(* A step that answers nothing else than it reads the list anew.           *)
LEMMA AnsweredByReload ==
    ASSUME NEW l, NEW msgs, Reload(l, msgs),
           Answers(msgs, l.loading, sel.asking, bulk' # None, Committing'),
           sel'.asking = sel.asking
    PROVE  Answers(inbox', list'.loading, sel'.asking, bulk' # None, Committing')
<1>1. Answers(inbox', TRUE, sel.asking, bulk' # None, Committing')
  BY AnswersReload
<1> QED
  BY <1>1 DEF Answers

\* Every step sends the reply it waits for, and takes none that is waited for still.
LEMMA AnsweredNext == Answered /\ Chosen /\ InOrder /\ [Next]_vars => Answered'
<1> SUFFICES ASSUME Answered, Chosen, InOrder, [Next]_vars
             PROVE  Answers(inbox', list'.loading, sel'.asking, bulk' # None, Committing')
  BY FaultsBounded DEF Answered
<1> DEFINE A == Answers(inbox', list'.loading, sel'.asking, bulk' # None, Committing')
           h == Head(inbox)
<1>0. /\ sel \in Selections /\ pending \in Delays /\ list \in Lists
      /\ Answers(inbox, list.loading, sel.asking, bulk # None, Committing)
  BY InOrderParts DEF Chosen, Answered
<1>a. UNCHANGED pending => Committing' = Committing
  BY DEF Committing
<1>t. ASSUME inbox # <<>>, h.kind \in {"new", "insights"}
      PROVE  Answers(Rest, list.loading, sel.asking, bulk # None, Committing)
  BY <1>0, <1>t, AnswersTaken DEF Rest
<1>1. CASE UNCHANGED vars \/ Start \/ Background \/ ToggleMode
  <2>1. UNCHANGED <<inbox, list, bulk, pending>> /\ (sel' = sel \/ sel' = [Cleared(sel) EXCEPT !.mode = ~@])
    BY <1>1 DEF Start, Background, ToggleMode, Select, vars, views
  <2>2. sel'.asking = sel.asking
    BY <1>0, <2>1 DEF Cleared, Selections
  <2> QED
    BY <1>0, <1>a, <2>1, <2>2
<1>2. CASE Become
  <2>1. /\ UNCHANGED <<pending, bulk>> /\ Reload(list, Append(Unanswered(inbox), Reply))
        /\ sel' = LeftByReset(sel)
    BY <1>2 DEF Become, ReadInsights
  <2>2. Answers(Append(Unanswered(inbox), Reply), list.loading, sel.asking, bulk' # None, Committing')
    BY <1>0, <1>a, <2>1, AnswersRead
  <2>3. sel'.asking = sel.asking
    BY <1>0, <2>1, StillAsking
  <2> QED
    BY <2>1, <2>2, <2>3, AnsweredByReload
<1>3. ASSUME NEW f, SearchNow \/ ChangeFilter(f) PROVE A
  <2>1. /\ UNCHANGED <<pending, bulk>> /\ Reload(list, inbox)
        /\ sel' = LeftByReset(sel) \/ sel' = LeftByReset(Cleared(sel))
    BY <1>3 DEF SearchNow, ChangeFilter
  <2>2. sel'.asking = sel.asking
    BY <1>0, <2>1, StillAsking
  <2>3. Answers(inbox, list.loading, sel.asking, bulk' # None, Committing')
    BY <1>0, <1>a, <2>1
  <2> QED
    BY <2>1, <2>2, <2>3, AnsweredByReload
<1>4. ASSUME NEW f, Search(f) PROVE A
  <2>1. UNCHANGED <<inbox, list, bulk, pending>> /\ sel' = Cleared(sel)
    BY <1>4 DEF Search
  <2>2. sel'.asking = sel.asking
    BY <1>0, <2>1, StillAsking
  <2> QED
    BY <1>0, <1>a, <2>1, <2>2
<1>5. ASSUME NEW e \in Entries, Dictate(e) PROVE A
  <2> DEFINE x == [kind |-> "new", entry |-> e]
  <2>1. UNCHANGED <<list, sel, bulk, pending>> /\ inbox' = Append(inbox, x)
    BY <1>5 DEF Dictate
  <2>2. x.kind # "insights"
    OBVIOUS
  <2> HIDE DEF x
  <2>3. Answers(Append(inbox, x), list.loading, sel.asking, bulk # None, Committing)
    BY <1>0, <2>2, AnswersSent
  <2> QED
    BY <1>a, <2>1, <2>3
<1>6. ASSUME NEW e \in Entries, Defer(e) \/ Undo(e) PROVE A
  <2>1. /\ UNCHANGED <<inbox, list, sel, bulk>>
        /\ pending' = [pending EXCEPT ![e] = "waiting"] \/ pending' = [pending EXCEPT ![e] = "no"]
    BY <1>6 DEF Defer, Undo
  <2>2. Committing' \subseteq Committing
    BY <1>0, <2>1 DEF Committing, Delays
  <2>3. Answers(inbox, list.loading, sel.asking, bulk # None, Committing')
    BY <1>0, <2>2, AnswersStill
  <2> QED
    BY <2>1, <2>3
<1>7. ASSUME NEW e \in Entries, Commit(e) PROVE A
  <2> DEFINE x(ok) == [kind |-> "deleted", entry |-> e, ok |-> ok]
  <2>1. UNCHANGED <<list, sel, bulk>> /\ pending' = [pending EXCEPT ![e] = "committing"]
    BY <1>7 DEF Commit
  <2>2. PICK ok \in BOOLEAN : inbox' = Append(inbox, x(ok))
    BY <1>7 DEF Commit
  <2>3. x(ok).kind = "deleted" /\ x(ok).entry = e
    OBVIOUS
  <2> HIDE DEF x
  <2>4. \A d \in Committing' : d \in Committing \/ d = e
    BY <1>0, <2>1 DEF Committing, Delays
  <2>5. Answers(Append(inbox, x(ok)), list.loading, sel.asking, bulk # None, Committing')
    BY <1>0, <2>3, <2>4, AnswersSent
  <2> QED
    BY <2>1, <2>2, <2>5
<1>8. CASE Scroll
  <2>1. UNCHANGED <<pending, sel, bulk>> /\ Load(list, inbox)
    BY <1>8 DEF Scroll
  <2>2. Answers(inbox, FALSE, sel.asking, bulk # None, Committing)
    BY <1>0 DEF Answers
  <2>3. Answers(inbox', TRUE, sel.asking, bulk # None, Committing)
    BY <2>1, <2>2, AnswersReload
  <2>4. Answers(inbox', list'.loading, sel.asking, bulk # None, Committing)
    BY <2>3 DEF Answers
  <2> QED
    BY <1>a, <2>1, <2>4
<1>9. CASE SelectAll
  <2> DEFINE x == [kind |-> "ids", ids |-> Matching(filter)]
  <2>1. UNCHANGED <<list, bulk, pending>> /\ inbox' = Append(inbox, x)
    BY <1>9 DEF SelectAll, Select
  <2>2. x.kind = "ids"
    OBVIOUS
  <2> HIDE DEF x
  <2>3. Answers(Append(inbox, x), list.loading, sel'.asking, bulk # None, Committing)
    BY <1>0, <2>2, AnswersSent
  <2> QED
    BY <1>a, <2>1, <2>3
<1>10. CASE ConfirmBulk
  <2> DEFINE x(ok) == [kind |-> "bulk", ids |-> bulk' \cap store, ok |-> ok]
  <2>1. UNCHANGED <<list, sel, pending>>
    BY <1>10 DEF ConfirmBulk
  <2>2. PICK ok \in BOOLEAN : inbox' = Append(inbox, x(ok))
    BY <1>10 DEF ConfirmBulk
  <2>3. x(ok).kind = "bulk"
    OBVIOUS
  <2> HIDE DEF x
  <2>4. Answers(Append(inbox, x(ok)), list.loading, sel.asking, bulk' # None, Committing)
    BY <1>0, <2>3, AnswersSent
  <2> QED
    BY <1>a, <2>1, <2>2, <2>4
<1>11. CASE GetPage
  <2> DEFINE l == Applied(list, h)
  <2>1. /\ UNCHANGED <<pending, bulk>> /\ inbox # <<>> /\ h.kind = "page"
        /\ \/ sel' = LeftByReset(sel) /\ Reload(l, Rest)
           \/ sel' = sel /\ list' = l /\ inbox' = Rest
    BY <1>11 DEF GetPage, Gets
  <2>2. l.loading = FALSE
    BY <1>0 DEF Applied, Lists
  <2> HIDE DEF l
  <2>3. sel'.asking = sel.asking
    BY <1>0, <2>1, StillAsking
  <2>4. Answers(Rest, l.loading, sel.asking, bulk # None, Committing)
    BY <1>0, <2>1, <2>2, AnswersTaken DEF Rest
  <2>5. CASE Reload(l, Rest)
    BY <1>a, <2>1, <2>3, <2>4, <2>5, AnsweredByReload
  <2>6. CASE list' = l /\ inbox' = Rest
    BY <1>a, <2>1, <2>3, <2>4, <2>6
  <2> QED
    BY <2>1, <2>5, <2>6
<1>12. CASE GetNewEntry
  <2> DEFINE msgs == Append(Unanswered(Rest), Reply)
  <2>1. /\ UNCHANGED <<pending, bulk>> /\ inbox # <<>> /\ h.kind = "new"
        /\ \/ sel' = LeftByReset(sel) /\ Reload(list, msgs)
           \/ /\ sel' = sel /\ inbox' = msgs
              /\ list' = list \/ list' = Prepended(list, h.entry)
    BY <1>12 DEF GetNewEntry, ReadInsights, Gets
  <2>2. Answers(msgs, list.loading, sel.asking, bulk # None, Committing)
    BY <1>t, <2>1, AnswersRead
  <2> HIDE DEF msgs
  <2>3. sel'.asking = sel.asking
    BY <1>0, <2>1, StillAsking
  <2>4. CASE Reload(list, msgs)
    BY <1>a, <2>1, <2>2, <2>3, <2>4, AnsweredByReload
  <2>5. CASE inbox' = msgs /\ (list' = list \/ list' = Prepended(list, h.entry))
    <3>1. list'.loading = list.loading
      BY <1>0, <2>5 DEF Prepended, Lists
    <3> QED
      BY <1>a, <2>1, <2>2, <2>3, <2>5, <3>1
  <2> QED
    BY <2>1, <2>4, <2>5
<1>13. CASE GetDeleted
  <2> DEFINE msgs == Append(Unanswered(Rest), Reply)
  <2>1. /\ UNCHANGED bulk /\ inbox # <<>> /\ h.kind = "deleted"
        /\ pending' = [pending EXCEPT ![h.entry] = "no"]
        /\ \/ /\ list' = Without(list, {h.entry}) /\ inbox' = msgs
              /\ sel' = [sel EXCEPT !.ids = @ \ {h.entry}]
           \/ list' = list /\ inbox' = Rest /\ sel' = sel
    BY <1>13 DEF GetDeleted, ReadInsights, Gets
  <2>2. \A d \in Committing' : d \in Committing /\ d # h.entry
    BY <1>0, <2>1 DEF Committing, Delays
  <2>3. Answers(Rest, list.loading, sel.asking, bulk # None, Committing')
    BY <1>0, <2>1, <2>2, AnswersTaken DEF Rest
  <2>4. Answers(msgs, list.loading, sel.asking, bulk # None, Committing')
    BY <2>3, AnswersRead
  <2> HIDE DEF msgs
  <2>5. sel'.asking = sel.asking
    BY <1>0, <2>1 DEF Selections
  <2>6. list'.loading = list.loading
    BY <1>0, <2>1, Filtered
  <2> QED
    BY <2>1, <2>3, <2>4, <2>5, <2>6
<1>14. CASE GetBulk
  <2> DEFINE msgs == Append(Unanswered(Rest), Reply)
             r == Without(list, h.ids)
  <2>1. /\ UNCHANGED pending /\ bulk' = None /\ inbox # <<>> /\ h.kind = "bulk"
        /\ \/ sel' = sel /\ list' = list /\ inbox' = Rest
           \/ sel' = Left(sel) /\ (Reload(r, Rest) \/ Reload(r, msgs))
    BY <1>14 DEF GetBulk, ReadInsights, Gets
  <2>2. Answers(Rest, list.loading, sel.asking, bulk' # None, Committing)
    BY <1>0, <2>1, AnswersTaken DEF Rest
  <2>3. Answers(msgs, list.loading, sel.asking, bulk' # None, Committing)
    BY <2>2, AnswersRead
  <2>4. r.loading = list.loading
    BY <1>0, Filtered
  <2>5. sel'.asking = sel.asking
    BY <1>0, <2>1, StillAsking
  <2> HIDE DEF msgs, r
  <2>6. CASE Reload(r, Rest)
    BY <1>a, <2>1, <2>2, <2>4, <2>5, <2>6, AnsweredByReload
  <2>7. CASE Reload(r, msgs)
    BY <1>a, <2>1, <2>3, <2>4, <2>5, <2>7, AnsweredByReload
  <2>8. CASE list' = list /\ inbox' = Rest
    BY <1>a, <2>1, <2>2, <2>5, <2>8
  <2> QED
    BY <2>1, <2>6, <2>7, <2>8
<1>15. CASE GetIds
  <2>1. /\ UNCHANGED <<list, pending, bulk>> /\ inbox # <<>> /\ h.kind = "ids" /\ inbox' = Rest
        /\ sel' = [sel EXCEPT !.asking = FALSE, !.stale = FALSE,
                              !.ids = IF AcceptsIds THEN h.ids \ Hidden ELSE @]
    BY <1>15 DEF GetIds, Gets, Select
  <2>2. sel'.asking = FALSE
    BY <1>0, <2>1 DEF Selections
  <2>3. Answers(Rest, list.loading, sel'.asking, bulk # None, Committing)
    BY <1>0, <2>1, <2>2, AnswersTaken DEF Rest
  <2> QED
    BY <1>a, <2>1, <2>3
<1>16. CASE GetInsights
  <2>1. UNCHANGED <<list, pending, bulk, sel>> /\ inbox # <<>> /\ h.kind = "insights" /\ inbox' = Rest
    BY <1>16 DEF GetInsights, Gets
  <2> QED
    BY <1>a, <1>t, <2>1
<1>17. CASE RefreshInsights
  <2>1. UNCHANGED <<list, pending, bulk, sel>> /\ inbox' = Append(Unanswered(inbox), Reply)
    BY <1>17 DEF RefreshInsights, ReadInsights
  <2> QED
    BY <1>0, <1>a, <2>1, AnswersRead
<1> QED
  BY <1>1, <1>2, <1>3, <1>4, <1>5, <1>6, <1>7, <1>8, <1>9, <1>10, <1>11, <1>12,
     <1>13, <1>14, <1>15, <1>16, <1>17 DEF Next

(* So what is waited for is on its way in every reachable state.           *)
THEOREM RepliesComing == Spec => []Answered
BY Selected, KeptInOrder, AnsweredInit, AnsweredNext, PTL DEF Spec

(* A kind of message that is under way once at most is counted so.          *)
LEMMA OneComing ==
    ASSUME Sequence(inbox), NEW kind,
           \A i, j \in DOMAIN inbox : inbox[i].kind = kind /\ inbox[j].kind = kind => i = j
    PROVE  Coming(kind) = IF Underway(inbox, kind) THEN 1 ELSE 0
<1> DEFINE D == {i \in DOMAIN inbox : inbox[i].kind = kind}
<1>1. CASE Underway(inbox, kind)
  <2>1. PICK i \in DOMAIN inbox : inbox[i].kind = kind
    BY <1>1 DEF Underway
  <2>2. D = {i}
    BY <2>1
  <2> QED
    BY <1>1, <2>2, FS_Singleton DEF Coming
<1>2. CASE ~Underway(inbox, kind)
  <2>1. D = {}
    BY <1>2 DEF Underway
  <2> QED
    BY <1>2, <2>1, FS_EmptySet DEF Coming
<1> QED
  BY <1>1, <1>2

(* The deletes being committed and the answers to them are as many.        *)
LEMMA DeletesComing ==
    ASSUME Answered, Chosen
    PROVE  Coming("deleted") = Cardinality(Committing)
<1> DEFINE D == {i \in DOMAIN inbox : inbox[i].kind = "deleted"}
           f == [i \in D |-> inbox[i].entry]
<1>1. /\ Sequence(inbox)
      /\ \A i \in DOMAIN inbox : inbox[i].kind = "deleted" => inbox[i].entry \in Committing
      /\ \A i, j \in DOMAIN inbox : i # j =>
            (inbox[i].kind = "deleted" /\ inbox[j].kind = "deleted" => inbox[i].entry # inbox[j].entry)
  BY DEF Chosen, Mail
<1>2. \A e \in Committing : \E i \in D : inbox[i].entry = e
  BY DEF Answered, Answers, DeleteUnderway
<1>3. IsFiniteSet(D)
  <2>1. PICK S : inbox \in Seq(S)
    BY <1>1 DEF Sequence
  <2>2. Len(inbox) \in Nat /\ DOMAIN inbox = 1..Len(inbox)
    BY <2>1, LenProperties
  <2>3. IsFiniteSet(1..Len(inbox))
    BY <2>2, FS_Interval
  <2> QED
    BY <2>2, <2>3, FS_Subset
<1>4. f \in Bijection(D, Committing)
  <2>1. f \in [D -> Committing]
    BY <1>1
  <2>2. \A i, j \in D : f[i] = f[j] => i = j
    BY <1>1
  <2>3. \A e \in Committing : \E i \in D : f[i] = e
    BY <1>2
  <2> HIDE DEF f, D
  <2> QED
    BY <2>1, <2>2, <2>3 DEF Bijection, Injection, Surjection, IsInjective
<1>5. ExistsBijection(D, Committing)
  BY <1>4 DEF ExistsBijection
<1> HIDE DEF D
<1>6. Cardinality(Committing) = Cardinality(D)
  BY <1>3, <1>5, FS_Bijection
<1> QED
  BY <1>6 DEF D, Coming

(* Types, and the replies of the requests in flight (HistoryView.svelte,   *)
(* InsightsView.svelte and history-delete-queue.ts).                       *)
THEOREM TypeCorrect == Spec => []TypeOK
<1>1. ASSUME Inv, InOrder, Chosen, Answered PROVE TypeOK
  <2>1. /\ LedgerTypeOK /\ pending \in Delays /\ sel \in Selections /\ list \in Lists
        /\ faults \in 0..MaxFaults /\ Sequence(inbox) /\ Loader(inbox, list)
    BY <1>1, InOrderParts DEF Inv, Chosen, Answered
  <2>2. /\ list.view \in Seq(Entries) /\ list.offset \in Nat /\ list.loading \in BOOLEAN
        /\ sel.ids \subseteq Entries /\ sel.asking \in BOOLEAN
    BY <2>1 DEF Lists, Selections
  <2>3. Coming("insights") <= 1
    BY <1>1, <2>1, OneComing DEF Answered, Answers
  <2>4. Coming("page") = IF list.loading THEN 1 ELSE 0
    <3>1. Underway(inbox, "page") <=> list.loading
      BY <1>1, <2>1 DEF Answered, Answers, Loader, Underway
    <3>2. Coming("page") = IF Underway(inbox, "page") THEN 1 ELSE 0
      BY <2>1, OneComing DEF Loader
    <3> QED
      BY <3>1, <3>2
  <2>5. Coming("ids") = IF sel.asking THEN 1 ELSE 0
    <3>1. Underway(inbox, "ids") <=> sel.asking
      BY <1>1 DEF Answered, Answers, Chosen, Mail, Underway
    <3>2. Coming("ids") = IF Underway(inbox, "ids") THEN 1 ELSE 0
      BY <1>1, <2>1, OneComing DEF Chosen, Mail
    <3> QED
      BY <3>1, <3>2
  <2>6. Coming("bulk") = IF bulk = None THEN 0 ELSE 1
    <3>1. Underway(inbox, "bulk") <=> bulk # None
      BY <1>1 DEF Answered, Answers, Chosen, Mail, Underway
    <3>2. Coming("bulk") = IF Underway(inbox, "bulk") THEN 1 ELSE 0
      BY <1>1, <2>1, OneComing DEF Chosen, Mail
    <3> QED
      BY <3>1, <3>2
  <2>7. Coming("deleted") = Cardinality({e \in Entries : pending[e] = "committing"})
    BY <1>1, DeletesComing DEF Committing
  <2> QED
    BY <2>1, <2>2, <2>3, <2>4, <2>5, <2>6, <2>7 DEF TypeOK, Delays
<1>2. LedgerSpec => []Inv
  BY Induction
<1> QED
  BY <1>1, <1>2, ViewsUseLedger, Selected, KeptInOrder, RepliesComing, PTL
===============================================================================
