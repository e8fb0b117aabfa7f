----------------------------- MODULE BPlusTree -----------------------------
(***************************************************************************)
(* The index (src/MiniDB/src/index/BPlusTree.cpp), its iterator            *)
(* (include/index/index_iterator.h) and the index scan that drives it      *)
(* (src/executor/IndexScanExecutor.cpp).                                   *)
(*                                                                         *)
(* A page is the array of ints that the code writes: word 0 is 1 in a      *)
(* leaf, word 1 the number of keys, then the keys, then (page_id,          *)
(* slot_num) pairs, then the next leaf.  Where the pairs start depends on  *)
(* the number of keys, so the order of the assignments in the copying      *)
(* loops matters and is kept.  One operation holds the tree's latch from   *)
(* its call to its return and visits one page per step.                    *)
(***************************************************************************)
EXTENDS Integers, FiniteSets, Functions

CONSTANTS
    leaf_max_size,   \* keys of a full leaf
    Keys,            \* keys of the callers
    RidPages, RidSlots,   \* page_id and slot_num of the RIDs they insert
    PAGE_WORDS,      \* bound: words of a page that the tree reaches
    MAX_PAGES,       \* bound: pages of the database
    MAX_INSERTS,     \* bound: successful inserts
    MAX_SCANS        \* bound: iterators opened

ASSUME LeafSizeAssumption == leaf_max_size \in Nat \ {0, 1}
ASSUME KeysAssumption == Keys \cup RidPages \cup RidSlots \subseteq Int
ASSUME WordsAssumption == PAGE_WORDS \in Nat /\ PAGE_WORDS > 3 * leaf_max_size + 2
ASSUME MaxPagesAssumption == MAX_PAGES \in Nat

PageIds == 0 .. (MAX_PAGES - 1)
Words == 0 .. (PAGE_WORDS - 1)
RIDs == RidPages \X RidSlots

VARIABLES
    data,                 \* the contents of the pages, wherever the pool has them
    next_page_id,         \* the disk manager's next id
    pins,                 \* pin counts in the pool
    root_page_id, leaf_start_page_id,
    op,                   \* the operation that holds the tree's latch
    pc,                   \* "idle", "fetch": about to fetch op.page, "at": op.page is pinned
    iter,                 \* the iterator of the running index scan
    result,               \* what the last operation returned, with the RIDs of a GetValue; reset by a call
    entries,              \* ghost: inserts that returned true minus removes that did
    inserts, scans,       \* ghost: how many were made, for the bounds
    ascending, present,   \* ghost: no insert yet was below an earlier one; the keys in the tree then
    newest                \* ghost: the RID of the last insert then

treeVars == <<data, next_page_id, root_page_id, leaf_start_page_id>>
ghostVars == <<entries, inserts, ascending, present, newest>>
vars == <<treeVars, pins, op, pc, iter, result, ghostVars, scans>>

ZeroPage == [w \in Words |-> 0]
\* The header of an empty table: next_free is 12, there are no slots.
TablePage == [ZeroPage EXCEPT ![1] = 12]
NoOp == [name |-> "none", key |-> 0, rid |-> <<0, 0>>, page |-> 0]
NoIter == [page |-> -1, page_id |-> -1, key_index |-> -1, is_end |-> TRUE]

NoRIDs == [i \in {} |-> <<-1, -1>>]
Answer(ok, rids) == [ok |-> ok, rids |-> rids]

\* The tree has the database for itself, or page 0 belongs to a table that was
\* created before it.
Init ==
    /\ next_page_id \in {0, 1}
    /\ data = [p \in PageIds |-> IF p < next_page_id THEN TablePage ELSE ZeroPage]
    /\ pins = [p \in PageIds |-> 0]
    /\ root_page_id = -1 /\ leaf_start_page_id = -1
    /\ op = NoOp /\ pc = "idle"
    /\ iter = NoIter /\ scans = 0
    /\ result = Answer(FALSE, NoRIDs)
    /\ entries = 0 /\ inserts = 0 /\ ascending = TRUE /\ present = {} /\ newest = <<-1, -1>>

-----------------------------------------------------------------------------
(* Page layout *)

KeyAt(i) == 2 + i
RidPageAt(size, i) == 2 + size + 2 * i
RidSlotAt(size, i) == RidPageAt(size, i) + 1
RidAt(d, i) == <<d[RidPageAt(d[1], i)], d[RidSlotAt(d[1], i)]>>
NextLeafAt(size) == 2 + size + 2 * size
ChildAt(size, i) == 2 + size + 1 + i

IsLeaf(d) == d[0] = 1
SizeOf(d) == d[1]
WordOf(d, w) == IF w \in Words THEN d[w] ELSE 0

\* BinarySearch: the loop, from [left, right) to an empty range, also over keys
\* that are out of order.
BinarySearch(d, key) ==
    LET Search[range \in (0 .. SizeOf(d)) \X (0 .. SizeOf(d))] ==
          LET left == range[1]
              right == range[2]
              mid == (left + right) \div 2
          IN  IF left >= right THEN left
              ELSE IF key >= WordOf(d, KeyAt(mid)) THEN Search[<<mid + 1, right>>]
                                                   ELSE Search[<<left, mid>>]
    IN  Search[<<0, SizeOf(d)>>]

\* Copying one word, and one entry word by word in the code's order.
Copied(d, to, from) == [d EXCEPT ![to] = d[from]]
MovedEntry(d, size, to, from) ==
    Copied(Copied(Copied(d, KeyAt(to), KeyAt(from)),
                  RidPageAt(size, to), RidPageAt(size, from)),
           RidSlotAt(size, to), RidSlotAt(size, from))

\* The loop of InsertIntoLeaf runs down from the last entry to pos.
ShiftedUp(d, size, pos) ==
    LET Above[i \in pos .. size] == IF i = size THEN d ELSE MovedEntry(Above[i + 1], size, i + 1, i)
    IN  Above[pos]

InsertIntoLeaf(d, key, rid) ==
    LET size == SizeOf(d)
        pos  == BinarySearch(d, key)
    IN  [ShiftedUp(d, size, pos) EXCEPT
            ![KeyAt(pos)] = key,
            ![RidPageAt(size, pos)] = rid[1],
            ![RidSlotAt(size, pos)] = rid[2],
            ![1] = size + 1]

\* Mutant: the last entry is not moved down.
RemovedShort(d, pos) ==
    LET size == SizeOf(d)
        Below[i \in pos .. (size - 1)] == IF i = pos THEN d ELSE MovedEntry(Below[i - 1], size, i - 1, i)
    IN  [Below[IF size - 2 > pos THEN size - 2 ELSE pos] EXCEPT ![1] = size - 1]

\* The loop of Remove runs up from pos.
RemovedFrom(d, pos) ==
    LET size == SizeOf(d)
        Below[i \in pos .. (size - 1)] == IF i = pos THEN d ELSE MovedEntry(Below[i - 1], size, i - 1, i)
    IN  [Below[size - 1] EXCEPT ![1] = size - 1]

\* SplitLeafPage: the new page gets the entries from split_point on, and the
\* next pointers go to the places that fit the sizes at the time of writing.
SplitPoint(d) == (SizeOf(d) + 1) \div 2

\* Mutant: the new leaf is counted as if the middle key moved up, as
\* SplitInternalPage counts.
SplitSizeInternal(d) == SizeOf(d) - SplitPoint(d) - 1

SplitSize(d) == SizeOf(d) - SplitPoint(d)
SplitNew(d) ==
    LET from == SplitPoint(d)
        size == SplitSize(d)
    IN  [w \in Words |->
           CASE w = 0 -> 1
             [] w = 1 -> size
             [] w \in KeyAt(0) .. (KeyAt(size) - 1) -> d[w + from]
             [] w \in RidPageAt(size, 0) .. (RidPageAt(size, size) - 1) ->
                    d[w - RidPageAt(size, 0) + RidPageAt(SizeOf(d), from)]
             [] w = NextLeafAt(size) -> d[NextLeafAt(SizeOf(d))]
             [] OTHER -> 0]
SplitOld(d, new_page_id) ==
    [d EXCEPT ![1] = SplitPoint(d), ![NextLeafAt(SizeOf(d))] = new_page_id]

NewRoot(key, left, right) ==
    [ZeroPage EXCEPT ![1] = 1, ![2] = key, ![3] = left, ![4] = right]

-----------------------------------------------------------------------------
(* The pool, as the tree uses it *)

\* NewPage returns a zeroed page with pin count 1, or nullptr when every frame
\* of the pool is pinned.
CanAlloc(n) == next_page_id + n <= MAX_PAGES
Unpin(p) == pins' = [pins EXCEPT ![p] = @ - 1]

\* The operation releases the latch.
Return(ok, rids) ==
    /\ result' = Answer(ok, rids)
    /\ op' = NoOp
    /\ pc' = "idle"

-----------------------------------------------------------------------------
(* FindLeafPage *)

Begins(name, key, rid) ==
    /\ op' = [name |-> name, key |-> key, rid |-> rid, page |-> root_page_id]
    /\ pc' = "fetch"
    /\ result' = Answer(FALSE, NoRIDs)
    /\ UNCHANGED <<treeVars, pins, iter, ghostVars, scans>>

CallGetValue(key) ==
    /\ pc = "idle" /\ root_page_id # -1
    /\ Begins("GetValue", key, <<0, 0>>)

CallInsert(key, rid) ==
    /\ pc = "idle" /\ root_page_id # -1 /\ inserts < MAX_INSERTS
    /\ Begins("Insert", key, rid)

CallRemove(key) ==
    /\ pc = "idle" /\ root_page_id # -1
    /\ Begins("Remove", key, <<0, 0>>)

CallBegin ==
    /\ pc = "idle" /\ root_page_id # -1 /\ scans < MAX_SCANS
    /\ Begins("Begin", 0, <<0, 0>>)

\* GetValue and Remove on an empty tree, Insert without a page for the root,
\* and Begin, which gives the scan the end iterator.
CallOnEmpty ==
    /\ pc = "idle" /\ root_page_id = -1
    /\ result' = Answer(FALSE, NoRIDs)
    /\ iter' \in {iter, NoIter}
    /\ UNCHANGED <<treeVars, pins, op, pc, ghostVars, scans>>

Fetch ==
    /\ pc = "fetch"
    /\ pc' = "at"
    /\ pins' = [pins EXCEPT ![op.page] = @ + 1]
    /\ UNCHANGED <<treeVars, op, iter, result, ghostVars, scans>>

\* FetchPage returns nullptr: every frame of the pool is pinned by someone.
FetchFails ==
    /\ pc = "fetch"
    /\ Return(FALSE, NoRIDs)
    /\ iter' = IF op.name = "Begin" THEN NoIter ELSE iter
    /\ UNCHANGED <<treeVars, pins, ghostVars, scans>>

\* Mutant: the loop does not move on to the child.
DescendNowhere ==
    /\ pc = "at" /\ ~IsLeaf(data[op.page])
    /\ pc' = "fetch"
    /\ Unpin(op.page)
    /\ UNCHANGED <<treeVars, op, iter, result, ghostVars, scans>>

Descend ==
    LET d == data[op.page]
        child_index == IF op.name = "Begin" THEN 0 ELSE BinarySearch(d, op.key)
    IN  /\ pc = "at" /\ ~IsLeaf(d)
        /\ pc' = "fetch"
        /\ op' = [op EXCEPT !.page = WordOf(d, ChildAt(SizeOf(d), child_index))]
        /\ Unpin(op.page)
        /\ UNCHANGED <<treeVars, iter, result, ghostVars, scans>>

AtLeaf(name) == pc = "at" /\ op.name = name /\ IsLeaf(data[op.page])

-----------------------------------------------------------------------------
(* GetValue *)

\* The entries that the two loops find: down from pos - 1 and up from pos, each
\* until another key comes.
Matches(d, key) ==
    LET pos == BinarySearch(d, key)
    IN  {i \in 0 .. (SizeOf(d) - 1) :
           \A j \in IF i < pos THEN i .. (pos - 1) ELSE pos .. i : d[KeyAt(j)] = key}

\* The RIDs come in the order of the entries.
GetValue ==
    LET d == data[op.page]
        found == Matches(d, op.key)
    IN  /\ AtLeaf("GetValue")
        /\ Unpin(op.page)
        /\ Return(found # {}, [i \in found |-> RidAt(d, i)])
        /\ UNCHANGED <<treeVars, iter, ghostVars, scans>>

-----------------------------------------------------------------------------
(* Insert *)

Counted(key, rid) ==
    /\ entries' = entries + 1
    /\ inserts' = inserts + 1
    /\ ascending' = (ascending /\ \A k \in present : k < key)
    /\ present' = IF ascending' THEN present \cup {key} ELSE {}
    /\ newest' = IF ascending' THEN rid ELSE <<-1, -1>>

InsertFirst(key, rid) ==
    /\ pc = "idle" /\ root_page_id = -1 /\ inserts < MAX_INSERTS /\ CanAlloc(1)
    /\ data' = [data EXCEPT ![next_page_id] =
                  [ZeroPage EXCEPT ![0] = 1, ![1] = 1, ![2] = key,
                                   ![3] = rid[1], ![4] = rid[2], ![5] = -1]]
    /\ next_page_id' = next_page_id + 1
    /\ root_page_id' = next_page_id /\ leaf_start_page_id' = next_page_id
    /\ result' = Answer(TRUE, NoRIDs)
    /\ Counted(key, rid)
    /\ UNCHANGED <<pins, op, pc, iter, scans>>

InsertWithRoom ==
    /\ AtLeaf("Insert") /\ SizeOf(data[op.page]) < leaf_max_size
    /\ data' = [data EXCEPT ![op.page] = InsertIntoLeaf(@, op.key, op.rid)]
    /\ Unpin(op.page)
    /\ Return(TRUE, NoRIDs)
    /\ Counted(op.key, op.rid)
    /\ UNCHANGED <<next_page_id, root_page_id, leaf_start_page_id, iter, scans>>

\* NewPage for the new leaf returns nullptr.
InsertWithoutPage ==
    /\ AtLeaf("Insert") /\ SizeOf(data[op.page]) >= leaf_max_size
    /\ Unpin(op.page)
    /\ Return(FALSE, NoRIDs)
    /\ UNCHANGED <<treeVars, iter, ghostVars, scans>>

\* The two halves, with the new entry in the one that middle_key says.
WithHalves(new_page_id) ==
    LET old == SplitOld(data[op.page], new_page_id)
        new == SplitNew(data[op.page])
        into == IF op.key < new[2] THEN op.page ELSE new_page_id
    IN  [data EXCEPT
           ![op.page] = IF into = op.page THEN InsertIntoLeaf(old, op.key, op.rid) ELSE old,
           ![new_page_id] = IF into = op.page THEN new ELSE InsertIntoLeaf(new, op.key, op.rid)]

\* InsertIntoParent: only a root gets a parent; when its NewPage returns
\* nullptr, and for every other leaf, the new leaf stays out of the tree.
InsertSplit ==
    /\ AtLeaf("Insert") /\ SizeOf(data[op.page]) >= leaf_max_size /\ CanAlloc(1)
    /\ \/ /\ op.page = root_page_id /\ CanAlloc(2)
          /\ data' = [WithHalves(next_page_id) EXCEPT ![next_page_id + 1] =
                        NewRoot(SplitNew(data[op.page])[2], op.page, next_page_id)]
          /\ next_page_id' = next_page_id + 2
          /\ root_page_id' = next_page_id + 1
       \/ /\ data' = WithHalves(next_page_id)
          /\ next_page_id' = next_page_id + 1
          /\ UNCHANGED root_page_id
    /\ Unpin(op.page)
    /\ Return(TRUE, NoRIDs)
    /\ Counted(op.key, op.rid)
    /\ UNCHANGED <<leaf_start_page_id, iter, scans>>

-----------------------------------------------------------------------------
(* Remove *)

FoundAt(d, key) == BinarySearch(d, key) - 1
Removable(d, key) == FoundAt(d, key) >= 0 /\ d[KeyAt(FoundAt(d, key))] = key

\* Mutant: the early return forgets its UnpinPage.
RemoveNothingPinned ==
    /\ AtLeaf("Remove") /\ ~Removable(data[op.page], op.key)
    /\ Return(FALSE, NoRIDs)
    /\ UNCHANGED <<treeVars, pins, iter, ghostVars, scans>>

RemoveNothing ==
    /\ AtLeaf("Remove") /\ ~Removable(data[op.page], op.key)
    /\ Unpin(op.page)
    /\ Return(FALSE, NoRIDs)
    /\ UNCHANGED <<treeVars, iter, ghostVars, scans>>

\* AdjustRoot drops an empty root leaf; its DeletePage returns false, because
\* Remove has the page pinned.  CoalesceOrRedistribute does nothing else.
Remove ==
    LET d == RemovedFrom(data[op.page], FoundAt(data[op.page], op.key))
        tree_gone == op.page = root_page_id /\ SizeOf(d) = 0
    IN  /\ AtLeaf("Remove") /\ Removable(data[op.page], op.key)
        /\ data' = [data EXCEPT ![op.page] = d]
        /\ root_page_id' = IF tree_gone THEN -1 ELSE root_page_id
        /\ leaf_start_page_id' = IF tree_gone THEN -1 ELSE leaf_start_page_id
        /\ Unpin(op.page)
        /\ Return(TRUE, NoRIDs)
        /\ entries' = entries - 1
        /\ present' = present \ {op.key}
        /\ UNCHANGED <<next_page_id, iter, inserts, ascending, newest, scans>>

-----------------------------------------------------------------------------
(* Begin, the iterator and IndexScanExecutor *)

BeginEmptyLeaf ==
    /\ AtLeaf("Begin") /\ SizeOf(data[op.page]) = 0
    /\ Unpin(op.page)
    /\ Return(FALSE, NoRIDs)
    /\ iter' = NoIter
    /\ UNCHANGED <<treeVars, ghostVars, scans>>

\* The page stays pinned for the iterator, whose destructor does nothing.
Begin ==
    /\ AtLeaf("Begin") /\ SizeOf(data[op.page]) > 0
    /\ iter' = [page |-> op.page, page_id |-> op.page, key_index |-> 0, is_end |-> FALSE]
    /\ scans' = scans + 1
    /\ Return(TRUE, NoRIDs)
    /\ UNCHANGED <<treeVars, pins, ghostVars>>

\* GetRID: the entry under the iterator, RID() where there is none.
GetRID ==
    IF iter.is_end \/ iter.key_index >= SizeOf(data[iter.page]) THEN <<-1, -1>>
    ELSE RidAt(data[iter.page], iter.key_index)

\* operator++ past the last key: the page id moves on, the page does not.
Advanced ==
    LET d == data[iter.page]
        next == d[NextLeafAt(SizeOf(d))]
    IN  CASE iter.key_index + 1 < SizeOf(d) -> [iter EXCEPT !.key_index = @ + 1]
          [] iter.key_index + 1 >= SizeOf(d) /\ next >= 0 ->
                [iter EXCEPT !.page_id = next, !.key_index = 0]
          [] OTHER -> [iter EXCEPT !.key_index = @ + 1, !.is_end = TRUE]

\* IndexScanExecutor::Next with a row that the table has; without one it
\* returns false and stays where it is.
ScanNext ==
    /\ iter # NoIter /\ ~iter.is_end
    /\ GetRID[1] >= 0 /\ GetRID[2] >= 0
    /\ iter' = Advanced
    /\ UNCHANGED <<treeVars, pins, op, pc, result, ghostVars, scans>>

TreeStep ==
    \/ Fetch \/ FetchFails \/ Descend
    \/ GetValue
    \/ InsertWithRoom \/ InsertWithoutPage \/ InsertSplit
    \/ RemoveNothing \/ Remove
    \/ BeginEmptyLeaf \/ Begin

Next ==
    \/ \E k \in Keys : CallGetValue(k) \/ CallRemove(k)
    \/ \E k \in Keys, r \in RIDs : CallInsert(k, r) \/ InsertFirst(k, r)
    \/ CallBegin \/ CallOnEmpty
    \/ TreeStep
    \/ ScanNext

\* The thread that holds the latch keeps running; callers and scans need not.
Spec == Init /\ [][Next]_vars /\ WF_vars(TreeStep)

-----------------------------------------------------------------------------
(* Properties *)

\* Every operation takes its pins back on every path (BPlusTree.cpp:85, 142,
\* 162, 216, 224, 241-242, 316, 372, 391): between operations the only pins left
\* are those of the iterators that Begin returned.
PinsAreIterators ==
    pc = "idle" => /\ SumFunction(pins) = scans
                   /\ iter # NoIter => pins[iter.page] > 0

\* However garbled the entries of a leaf are, their number is right: the sizes
\* of all leaves add up to the inserts minus the removes, through splits
\* (BPlusTree.cpp:262, 274, 284, 384), and none is over leaf_max_size.
EntriesCounted ==
    /\ SumFunction([p \in PageIds |-> IF IsLeaf(data[p]) THEN SizeOf(data[p]) ELSE 0]) = entries
    /\ \A p \in PageIds : IsLeaf(data[p]) => SizeOf(data[p]) \in 0 .. leaf_max_size

\* As long as keys come in ascending order and one leaf has all entries, GetValue
\* finds one entry for a key that was inserted and not removed and none for any
\* other (BPlusTree.cpp:99-143, 246-263, 379-384).  README.txt:549 "B+ tree lookup
\* is correct" and test/integration_test.cpp:96-104, which looks up a row by the
\* RID, need more, and have it only in a tree that got one insert: an insert puts
\* the RID behind the keys as there were before it (:260-261), a lookup reads
\* behind the keys as there are then (:122-123), so that the entry inserted last
\* is found with its slot_num for a page_id and a zero for a slot_num.
AscendingLookup ==
    [][GetValue /\ ascending /\ op.page = root_page_id /\ SizeOf(data[op.page]) = entries =>
         /\ result'.ok = (op.key \in present)
         /\ op.key \in present => Cardinality(DOMAIN result'.rids) = 1
         /\ op.key \in present /\ inserts = entries /\ (\A k \in present : k <= op.key) =>
               Range(result'.rids) = {IF inserts = 1 THEN newest ELSE <<newest[2], 0>>}]_vars

\* The descent is on the page of the table.
Strayed == pc # "idle" /\ data[op.page] = TablePage

\* The descent of FindLeafPage ends and the latch is released, unless the descent
\* comes to page 0 and that is a table's: InsertIntoParent writes the children one
\* word too low, a key from the split key on has the word behind them, a zero, for
\* its child, and so has every key on the table's page, for ever, with the latch
\* held (BPlusTree.cpp:64-87, 311-312; README.txt:549 "B+ tree lookup is correct",
\* integration_test.cpp:151-152 create the table first).
OperationReturns == pc # "idle" ~> (pc = "idle" \/ Strayed)
=============================================================================
