----------------------------- MODULE TableScan -----------------------------
(***************************************************************************)
(* A table and the executor trees that run over it: TableHeap and its      *)
(* iterator (src/MiniDB/src/storage/table_heap.cpp, include/storage/       *)
(* table_heap.h), the hot and cold page marks of LayerManager, and the     *)
(* executors SeqScan, Merge, Join, Insert, Sort and Aggregation            *)
(* (src/MiniDB/src/executor/).                                             *)
(*                                                                         *)
(* A row is its RID <<page_id, slot_num>>; its words are in TableHeap.     *)
(* The layer of a scan is what QueryOptimizer::InferTargetLayer chose.     *)
(* A query is one executor tree that is drained; it advances by one row of *)
(* one scan per step, so that inserts through other cursors and changes of *)
(* the page marks (which another thread may make, LayerManager has its own *)
(* latch) fall between any two rows.  What InsertExecutor does to the      *)
(* indexes after the heap is an Insert of BPlusTree, and no scan reads it. *)
(***************************************************************************)
EXTENDS TableHeap

CONSTANTS
    Days,                 \* what a query may ask for: the last n days
    hot_threshold_days    \* QueryOptimizer::hot_threshold_days_

ASSUME DaysAssumption == Days \subseteq Nat /\ hot_threshold_days \in Nat

VARIABLES
    hot_page_ids,    \* LayerManager::hot_page_ids_
    plan,            \* the query that runs: "none", "merge", "join", "copy", "drain"
    outer, inner,    \* its two scans: hot and cold, left and right
    current,         \* Merge: use_hot_; Join: left_current_ (-1: left_has_current_ is false)
    target,          \* SeqScan: target_layer_ of a scan that is not under a Merge
    seen,            \* ghost: how often the query returned each row or pair of rows
    start,           \* ghost: n_slots of the first page when the query began
    migrated,        \* ghost: a page mark changed while the query ran
    cut              \* ghost: the pool had no frame for a scan of the query

scanVars == <<outer, inner, current, target, seen>>
vars == <<heapVars, hot_page_ids, plan, scanVars, start, migrated, cut>>

\* TableHeap::Begin: the first slot of the first page, whether there is a row or
\* not; the end if there is no first page.
Begin == [slot |-> 0, is_end |-> first_page_id < 0]
NothingSeen == [x \in Slots \X Slots |-> 0]

Init ==
    /\ HeapInit
    /\ hot_page_ids = {}
    /\ plan = "none"
    /\ outer = Begin /\ inner = Begin /\ current = -1 /\ target = "BOTH"
    /\ seen = NothingSeen /\ start = 0
    /\ migrated = FALSE /\ cut = FALSE

-----------------------------------------------------------------------------
(* InsertExecutor, UpdateTuple and DeleteTuple *)

\* InsertExecutor::Next with a row; the flush after every BATCH_INSERT_SIZE rows
\* changes no page.
DirectInsert(size) ==
    /\ (\E p \in PageIds : InsertTuple(p, size)) \/ InsertInvalid(size)
    /\ UNCHANGED <<hot_page_ids, plan, scanVars, start, migrated, cut>>

\* The frame of page -1 is needed for another page.
LoseFrame ==
    /\ EvictInvalid
    /\ UNCHANGED <<hot_page_ids, plan, scanVars, start, migrated, cut>>

ChangeRow(p) ==
    /\ (\E size \in Sizes : UpdateTuple(p, size)) \/ DeleteTuple(p)
    /\ UNCHANGED <<hot_page_ids, plan, scanVars, start, migrated, cut>>

-----------------------------------------------------------------------------
(* LayerManager *)

MarkPageHot(p) ==
    /\ p \notin hot_page_ids
    /\ hot_page_ids' = hot_page_ids \cup {p}
    /\ migrated' = (plan # "none")
    /\ UNCHANGED <<heapVars, plan, scanVars, start, cut>>

MarkPageCold(p) ==
    /\ p \in hot_page_ids
    /\ hot_page_ids' = hot_page_ids \ {p}
    /\ migrated' = (plan # "none")
    /\ UNCHANGED <<heapVars, plan, scanVars, start, cut>>

IsPageHot == first_page_id \in hot_page_ids

\* QueryOptimizer::InferTargetLayer of a query for the last n days; -1 if its
\* text has no such condition.
InferTargetLayer(days) ==
    IF days < 0 THEN "BOTH" ELSE IF days <= hot_threshold_days THEN "HOT" ELSE "COLD"

\* SeqScanExecutor::Next returns the rows of this layer only.
InLayer(layer) == layer = "BOTH" \/ (layer = "HOT") = IsPageHot

-----------------------------------------------------------------------------
(* Scans *)

\* What GetSlotCount may return for the page of a scan, which is always the
\* first one: 0 when FetchPage returns nullptr because every frame is pinned.
SlotCount == IF first_page_id < 0 THEN 0 ELSE pages[first_page_id].n_slots
SlotCounts == {SlotCount, 0}

\* TableIterator::operator++.
Advanced(it, n) == [slot |-> it.slot + 1, is_end |-> it.slot + 1 >= n]
Cuts(n) == cut' = (cut \/ n # SlotCount)

OuterAdvances == \E n \in SlotCounts : outer' = Advanced(outer, n) /\ Cuts(n)
InnerAdvances == \E n \in SlotCounts : inner' = Advanced(inner, n) /\ Cuts(n)

Returned(x) == seen' = [seen EXCEPT ![x] = @ + 1]

StartQuery(kind, days) ==
    /\ plan = "none"
    /\ plan' = kind
    /\ target' = IF kind = "drain" THEN InferTargetLayer(days) ELSE "BOTH"
    /\ \E n \in SlotCounts :
          /\ outer' = IF kind = "join" /\ ~Begin.is_end THEN Advanced(Begin, n) ELSE Begin
          /\ cut' = (kind = "join" /\ n # SlotCount)
    /\ inner' = Begin
    /\ current' = IF kind = "join" /\ Begin.is_end THEN -1 ELSE 0
    /\ seen' = NothingSeen
    /\ start' = SlotCount
    /\ migrated' = FALSE
    /\ UNCHANGED <<heapVars, hot_page_ids>>

\* The executor tree is destroyed with its scans.
EndQuery ==
    /\ plan' = "none"
    /\ outer' = Begin /\ inner' = Begin /\ current' = -1 /\ target' = "BOTH"
    /\ seen' = NothingSeen /\ start' = 0
    /\ migrated' = FALSE /\ cut' = FALSE
    /\ UNCHANGED <<heapVars, hot_page_ids>>

\* MergeExecutor::Next pulls the hot scan to its end and then the cold one;
\* SeqScanExecutor::Next passes over the rows of the other layer.
MergeHotRow ==
    /\ plan = "merge" /\ current = 0 /\ ~outer.is_end
    /\ OuterAdvances
    /\ IF InLayer("HOT") THEN Returned(<<outer.slot, 0>>) ELSE UNCHANGED seen
    /\ UNCHANGED <<heapVars, hot_page_ids, plan, inner, current, target, start, migrated>>

\* Mutant: use_hot_ stays set, and the scan that is done is asked for ever.
MergeHotAgain ==
    /\ plan = "merge" /\ current = 0 /\ outer.is_end
    /\ UNCHANGED vars

MergeHotDone ==
    /\ plan = "merge" /\ current = 0 /\ outer.is_end
    /\ current' = 1
    /\ UNCHANGED <<heapVars, hot_page_ids, plan, outer, inner, target, seen, start, migrated, cut>>

\* Mutant: the cold scan does not look at the layer.
MergeAnyRow ==
    /\ plan = "merge" /\ current = 1 /\ ~inner.is_end
    /\ InnerAdvances
    /\ Returned(<<inner.slot, 0>>)
    /\ UNCHANGED <<heapVars, hot_page_ids, plan, outer, current, target, start, migrated>>

MergeColdRow ==
    /\ plan = "merge" /\ current = 1 /\ ~inner.is_end
    /\ InnerAdvances
    /\ IF InLayer("COLD") THEN Returned(<<inner.slot, 0>>) ELSE UNCHANGED seen
    /\ UNCHANGED <<heapVars, hot_page_ids, plan, outer, current, target, start, migrated>>

MergeEnd == plan = "merge" /\ current = 1 /\ inner.is_end /\ EndQuery

\* JoinExecutor::Next: the right scan is drained for every row of the left one.
JoinRow ==
    /\ plan = "join" /\ current # -1 /\ ~inner.is_end
    /\ InnerAdvances
    /\ Returned(<<current, inner.slot>>)
    /\ UNCHANGED <<heapVars, hot_page_ids, plan, outer, current, target, start, migrated>>

\* Mutant: the right scan is not started again.
JoinNextLeftOnly ==
    /\ plan = "join" /\ current # -1 /\ inner.is_end
    /\ IF outer.is_end
       THEN current' = -1 /\ UNCHANGED <<outer, cut>>
       ELSE current' = outer.slot /\ OuterAdvances
    /\ UNCHANGED <<heapVars, hot_page_ids, plan, inner, target, seen, start, migrated>>

JoinNextLeft ==
    /\ plan = "join" /\ current # -1 /\ inner.is_end
    /\ inner' = Begin
    /\ IF outer.is_end
       THEN current' = -1 /\ UNCHANGED <<outer, cut>>
       ELSE current' = outer.slot /\ OuterAdvances
    /\ UNCHANGED <<heapVars, hot_page_ids, plan, target, seen, start, migrated>>

JoinEnd == plan = "join" /\ current = -1 /\ EndQuery

\* Init of SortExecutor and AggregationExecutor drains a scan; its layer is the
\* one that the optimizer chose.
DrainRow ==
    /\ plan = "drain" /\ ~outer.is_end
    /\ OuterAdvances
    /\ IF InLayer(target) THEN Returned(<<outer.slot, 0>>) ELSE UNCHANGED seen
    /\ UNCHANGED <<heapVars, hot_page_ids, plan, inner, current, target, start, migrated>>

DrainEnd == plan = "drain" /\ outer.is_end /\ EndQuery

\* InsertExecutor over a scan of the same table.
CopyRow(p, size) ==
    /\ plan = "copy" /\ ~outer.is_end
    /\ InsertTuple(p, size)
    /\ OuterAdvances
    /\ Returned(<<outer.slot, 0>>)
    /\ UNCHANGED <<hot_page_ids, plan, inner, current, target, start, migrated>>

\* InsertTuple returns false, no page to be had: the row is gone from the scan
\* and Next returns false.
CopyFails == plan = "copy" /\ ~outer.is_end /\ EndQuery

CopyEnd == plan = "copy" /\ outer.is_end /\ EndQuery

QueryStep ==
    \/ MergeHotRow \/ MergeHotDone \/ MergeColdRow \/ MergeEnd
    \/ JoinRow \/ JoinNextLeft \/ JoinEnd
    \/ DrainRow \/ DrainEnd
    \/ \E p \in PageIds, size \in Sizes : CopyRow(p, size)
    \/ CopyFails \/ CopyEnd

Next ==
    \/ \E size \in Sizes : DirectInsert(size)
    \/ LoseFrame
    \/ \E p \in 0 .. (next_page_id - 1) : MarkPageHot(p) \/ MarkPageCold(p)
    \/ \E p \in PageIds : ChangeRow(p)
    \/ \E kind \in {"merge", "join", "drain", "copy"}, days \in Days \cup {-1} : StartQuery(kind, days)
    \/ QueryStep

\* Whoever drains a query calls Next until it returns false.
Spec == Init /\ [][Next]_vars /\ WF_vars(QueryStep)

-----------------------------------------------------------------------------
(* Properties *)

\* Every insert that returned true and the RID of a page has a slot of its own
\* below the n_slots of that page, and the slots of the pages hold nothing else:
\* also after the table moved on to a new page because the last was full or could
\* not be fetched, and when the constructor got no page and the first rows went to
\* page -1 (table_heap.cpp:27-39, 66-108).
RowsHaveOwnRid ==
    LET rids == UNION {{<<p, r.slot>> : r \in rows[p]} : p \in PageIds}
    IN  /\ Cardinality(rids) = inserted
        /\ rids = {rid \in RIDs : rid[2] < pages[rid[1]].n_slots}

\* No executor returns a row, or a pair of rows, twice: not while rows are being
\* inserted under the scan, and not from the hot and the cold scan, as long as
\* no page changes its layer (SeqScanExecutor.cpp:33-46, MergeExecutor.cpp:30-44,
\* JoinExecutor.cpp:22-43).
RowsOnce == plan # "none" /\ ~migrated => \A x \in Slots \X Slots : seen[x] <= 1

\* README.txt:558 "result sets are complete": when a query ends, it has returned
\* every row (for a join every pair of rows) that was on the first page when it
\* began, unless a page changed its layer or the pool had no frame meanwhile; a
\* table without a first page has no such row, whatever its other pages hold.  A
\* scan of the layer that the optimizer chose returns all rows of that layer and
\* none of the other (SeqScanExecutor.cpp:38-42, QueryOptimizer.cpp:33-42).
QueryComplete ==
    [][/\ (MergeEnd \/ CopyEnd) /\ ~migrated /\ ~cut =>
             \A s \in Slots : s < start => seen[<<s, 0>>] = 1
       /\ DrainEnd /\ ~migrated /\ ~cut =>
             \A s \in Slots : s < start => seen[<<s, 0>>] = IF InLayer(target) THEN 1 ELSE 0
       /\ JoinEnd /\ ~cut => \A s, t \in Slots : s < start /\ t < start => seen[<<s, t>>] = 1]_vars

\* Every query ends, the one that inserts into the table that it scans and comes
\* to rows that it inserted too: its scan stays on the first page, and once that
\* has MAX_SLOTS_PER_PAGE rows they go elsewhere (SeqScanExecutor.cpp:33-46,
\* InsertExecutor.cpp:61-79, table_heap.cpp:85).
QueryEnds == plan # "none" ~> plan = "none"
=============================================================================
