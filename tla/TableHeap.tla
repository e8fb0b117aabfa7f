----------------------------- MODULE TableHeap -----------------------------
(***************************************************************************)
(* The pages of a table (src/MiniDB/src/storage/table_heap.cpp).           *)
(*                                                                         *)
(* The unit is a word of four bytes.  Word 1 of a page is next_free, word  *)
(* 2 n_slots; from word 3 on come the slot entries, two words each, and,   *)
(* from word 3 on as well, the rows: the two share the room, and whoever   *)
(* writes last is read.  A word of a row is opaque, so what GetTuple makes *)
(* of a slot entry that a row wrote over is left open, and such an entry   *)
(* never happens to hold the integers that it held before.                 *)
(*                                                                         *)
(* A table whose constructor gets no page has -1 for its page ids.         *)
(* FetchPage(-1) takes a frame all the same and returns a page of zeros,   *)
(* which InsertTuple fills; its words are never read, for every operation  *)
(* on a RID refuses that page id, and so only its header is kept.          *)
(***************************************************************************)
EXTENDS Integers, FiniteSets

CONSTANTS
    PAGE_SIZE,         \* words of a page
    MAX_SLOTS_PER_PAGE,
    Sizes,             \* words of a row
    MAX_PAGES,         \* bound: pages of the table
    MAX_ROWS           \* bound: rows inserted

SLOT_HEADER == 3
SLOT_ENTRY_SIZE == 2

\* The slot entries of a page lie in the page (MAX_SLOTS_PER_PAGE is computed
\* from PAGE_SIZE), and InsertTuple cuts a row to what an empty page takes.
ASSUME PageAssumption ==
    /\ PAGE_SIZE \in Nat /\ MAX_SLOTS_PER_PAGE \in Nat \ {0}
    /\ SLOT_HEADER + MAX_SLOTS_PER_PAGE * SLOT_ENTRY_SIZE <= PAGE_SIZE
ASSUME SizesAssumption ==
    /\ Sizes \subseteq Nat
    /\ \A n \in Sizes : SLOT_HEADER + n + SLOT_ENTRY_SIZE <= PAGE_SIZE
ASSUME BoundsAssumption == MAX_PAGES \in Nat \ {0} /\ MAX_ROWS \in Nat

PageIds == 0 .. (MAX_PAGES - 1)
Slots == 0 .. (MAX_SLOTS_PER_PAGE - 1)
RIDs == PageIds \X Slots
Room == SLOT_HEADER .. (PAGE_SIZE - 1)

\* The content of a word: an integer, word i of the row in a slot, or word i of
\* a row that UpdateTuple wrote.
Number(v) == <<-1, v>>
UPDATE == -2
Word == {-1, UPDATE} \X Nat \cup Slots \X Nat

VARIABLES
    pages,           \* next_free, n_slots and the other words of every page
    next_page_id,    \* pages handed out so far
    first_page_id,   \* TableHeap::first_page_id_
    last_page_id,    \* TableHeap::last_page_id_
    invalid_page,    \* next_free and n_slots of page -1
    rows,            \* ghost: slot, offset and size of the rows of every page
    inserted,        \* ghost: how often InsertTuple returned true and a RID of a page
    invalid,         \* ghost: how often it returned true and a RID of page -1
    overwritten      \* ghost: the words below this one may be UpdateTuple's

heapVars == <<pages, next_page_id, first_page_id, last_page_id, invalid_page, rows, inserted, invalid, overwritten>>

Empty == [next_free |-> SLOT_HEADER, n_slots |-> 0, words |-> [w \in Room |-> Number(0)]]

\* Page -1 as it comes from the pool.
Zeros == [next_free |-> 0, n_slots |-> 0]

\* The constructor, with the page that NewPage returned or without one.
HeapInit ==
    /\ pages = [p \in PageIds |-> Empty]
    /\ first_page_id \in {0, -1} /\ last_page_id = first_page_id
    /\ next_page_id = first_page_id + 1
    /\ invalid_page = Zeros
    /\ rows = [p \in PageIds |-> {}]
    /\ inserted = 0 /\ invalid = 0
    /\ overwritten = [p \in PageIds |-> SLOT_HEADER]

-----------------------------------------------------------------------------
(* The words of a page *)

Entry(k) == SLOT_HEADER + k * SLOT_ENTRY_SIZE

\* memcpy of a row of that size to an offset; tag says whose words they are.
Memcpy(words, offset, size, tag) ==
    [w \in Room |-> IF offset <= w /\ w < offset + size THEN <<tag, w - offset>> ELSE words[w]]

\* Mutant: the entries are one word apart.
set_slot_narrow(words, k, offset, size) ==
    [words EXCEPT ![SLOT_HEADER + k] = Number(offset), ![SLOT_HEADER + k + 1] = Number(size)]

set_slot(words, k, offset, size) ==
    [words EXCEPT ![Entry(k)] = Number(offset), ![Entry(k) + 1] = Number(size)]

NoTuple == [i \in {} |-> Number(0)]
\* What the integers in a row's own words lead GetTuple to.
AnyTuple == [i \in {0} |-> <<-3, 0>>]

get_slot(page, k) == <<page.words[Entry(k)], page.words[Entry(k) + 1]>>

GetTuple(page, k) ==
    LET offset == get_slot(page, k)[1]
        size == get_slot(page, k)[2]
    IN  IF k >= page.n_slots THEN NoTuple
        ELSE IF offset[1] # -1 \/ size[1] # -1 THEN AnyTuple
        ELSE IF size[2] = 0 \/ offset[2] + size[2] > PAGE_SIZE THEN NoTuple
        ELSE [i \in 0 .. (size[2] - 1) |-> page.words[offset[2] + i]]

-----------------------------------------------------------------------------
(* The operations *)

\* Mutant: the last slot is taken once too often.
FullLate(page, size) ==
    \/ page.n_slots > MAX_SLOTS_PER_PAGE
    \/ page.next_free + size + SLOT_ENTRY_SIZE > PAGE_SIZE

Full(page, size) ==
    \/ page.n_slots >= MAX_SLOTS_PER_PAGE
    \/ page.next_free + size + SLOT_ENTRY_SIZE > PAGE_SIZE

WithRow(page, size) ==
    LET entry == set_slot(page.words, page.n_slots, page.next_free, size)
    IN  [next_free |-> page.next_free + size,
         n_slots |-> page.n_slots + 1,
         words |-> Memcpy(entry, page.next_free, size, page.n_slots)]

LastPage == IF last_page_id < 0 THEN invalid_page ELSE pages[last_page_id]

\* InsertTuple returns true with the row on page p: the last page; a new one that
\* the last page is too full for; or a new one since FetchPage returned nullptr
\* for the last, and only this one becomes the first page of a table without.
\* The RID is last_page_id_ and the slot.
InsertTuple(p, size) ==
    /\ inserted + invalid < MAX_ROWS
    /\ \/ p = last_page_id /\ ~Full(LastPage, size) /\ UNCHANGED first_page_id
       \/ p = next_page_id /\ Full(LastPage, size) /\ UNCHANGED first_page_id
       \/ p = next_page_id /\ first_page_id' = IF first_page_id < 0 THEN p ELSE first_page_id
    /\ pages' = [pages EXCEPT ![p] = WithRow(@, size)]
    /\ next_page_id' = IF p = next_page_id THEN next_page_id + 1 ELSE next_page_id
    /\ last_page_id' = p
    /\ rows' = [rows EXCEPT ![last_page_id'] = @ \cup
                    {[slot |-> pages[p].n_slots, offset |-> pages[p].next_free, size |-> size]}]
    /\ inserted' = inserted + 1
    /\ UNCHANGED <<invalid_page, invalid, overwritten>>

\* The same with the row on page -1.
InsertInvalid(size) ==
    /\ inserted + invalid < MAX_ROWS
    /\ last_page_id < 0 /\ ~Full(LastPage, size)
    /\ invalid_page' = [next_free |-> invalid_page.next_free + size, n_slots |-> invalid_page.n_slots + 1]
    /\ invalid' = invalid + 1
    /\ UNCHANGED <<pages, next_page_id, first_page_id, last_page_id, rows, inserted, overwritten>>

\* The pool takes the frame of page -1 back; WritePage finds no place for it.
EvictInvalid ==
    /\ invalid_page' = Zeros
    /\ UNCHANGED <<pages, next_page_id, first_page_id, last_page_id, rows, inserted, invalid, overwritten>>

\* UpdateTuple copies the row to byte 16 of the page, whatever its slot is.
UPDATE_OFFSET == 4

UpdateTuple(p, size) ==
    /\ p < next_page_id
    /\ pages' = [pages EXCEPT ![p].words = Memcpy(@, UPDATE_OFFSET, size, UPDATE)]
    /\ overwritten' = [overwritten EXCEPT ![p] = IF UPDATE_OFFSET + size > @ THEN UPDATE_OFFSET + size ELSE @]
    /\ UNCHANGED <<next_page_id, first_page_id, last_page_id, invalid_page, rows, inserted, invalid>>

\* DeleteTuple marks the page dirty and leaves the row where it is.
DeleteTuple(p) == p < next_page_id /\ UNCHANGED heapVars

HeapNext ==
    \/ \E p \in PageIds, size \in Sizes : InsertTuple(p, size) \/ UpdateTuple(p, size)
    \/ \E p \in PageIds : DeleteTuple(p)
    \/ \E size \in Sizes : InsertInvalid(size)
    \/ EvictInvalid

HeapSpec == HeapInit /\ [][HeapNext]_heapVars

-----------------------------------------------------------------------------
(* Properties *)

Row == [slot : Slots, offset : Room, size : Nat]

HeapTypeOK ==
    /\ pages \in [PageIds -> [next_free : Nat, n_slots : 0 .. MAX_SLOTS_PER_PAGE, words : [Room -> Word]]]
    /\ next_page_id \in 0 .. MAX_PAGES
    /\ first_page_id \in PageIds \cup {-1} /\ last_page_id \in PageIds \cup {-1}
    /\ invalid_page \in [next_free : Nat, n_slots : 0 .. MAX_SLOTS_PER_PAGE]
    /\ rows \in [PageIds -> SUBSET Row]
    /\ inserted \in Nat /\ invalid \in Nat
    /\ overwritten \in [PageIds -> Nat]

\* Whether two ranges of words meet, given by the first word and the one after the last.
Meet(a, b, c, d) == a < d /\ c < b /\ a < b /\ c < d

\* The row is clear of every slot entry that was written with it or later, and
\* its slot entry of every later row.
Clear(p, r) ==
    /\ ~Meet(r.offset, r.offset + r.size, Entry(r.slot), Entry(pages[p].n_slots))
    /\ \A q \in rows[p] : q.slot > r.slot =>
          ~Meet(q.offset, q.offset + q.size, Entry(r.slot), Entry(r.slot + 1))

\* A row with a RID reads back as it was inserted exactly if the slot entries from its own
\* on do not reach into it and no later row reaches into its slot entry, whatever
\* was inserted before and after it; UpdateTuple spoils no row that lies, with its
\* slot entry, above what it wrote (table_heap.cpp:56-59, 100-103, 125-132, 166).
RowReadsBack ==
    \A p \in PageIds : \A r \in rows[p] :
       r.size > 0 /\ overwritten[p] <= r.offset /\ overwritten[p] <= Entry(r.slot) =>
          (GetTuple(pages[p], r.slot) = [i \in 0 .. (r.size - 1) |-> <<r.slot, i>>] <=> Clear(p, r))
=============================================================================
