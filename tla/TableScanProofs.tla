-------------------------- MODULE TableScanProofs --------------------------
(***************************************************************************)
(* Proofs about TableHeap, for every page size, number of slots and set of *)
(* row sizes, and about TableScan, which implements it.                    *)
(*                                                                         *)
(* RowReadsBack speaks of the words of a page only through GetTuple; the   *)
(* inductive invariant PageInv says what every word of a row and of a slot *)
(* entry holds.  A word of a row is lost to a later slot entry and to      *)
(* nothing else, since the rows lie one after the other; a word of a slot  *)
(* entry is lost to the row of the slot or a later one and to nothing      *)
(* else.  The two halves of RowReadsBack follow.                           *)
(*                                                                         *)
(* The table under queries, inserts and changes of the page marks takes    *)
(* only the steps of TableHeap, so what is proved of the heap holds of it. *)
(* RidInv counts the slots in use against the inserts that succeeded.      *)
(* ScanInv says, for each kind of query, which rows or pairs of rows its   *)
(* scans have passed and that the query returned just those, once each; a  *)
(* scan that ended with a frame for every page stands behind the last row  *)
(* of the time when the query began.  A table without a first page has no  *)
(* such row; should it get one later, the page is new and has no mark.     *)
(***************************************************************************)
EXTENDS TableScan, FiniteSetTheorems, TLAPS

-----------------------------------------------------------------------------
(* The pages of a table *)


Covers(r, w) == r.offset <= w /\ w < r.offset + r.size

\* The rows have slots below n_slots, one each, and lie in the order of their
\* slots below next_free.
RowsInOrder(page, R) ==
    /\ \A r \in R : /\ r \in Row /\ r.slot < page.n_slots
                    /\ r.offset + r.size <= page.next_free
    /\ \A r, q \in R : r.slot = q.slot => r = q
    /\ \A r, q \in R : r.slot < q.slot => r.offset + r.size <= q.offset

\* Where a later slot entry lies, a row's word is a number; elsewhere it is the row's.
RowWords(page, R, low) ==
    \A r \in R : \A w \in Room : low <= w /\ Covers(r, w) =>
       IF Entry(r.slot + 1) <= w /\ w < Entry(page.n_slots)
       THEN page.words[w][1] = -1
       ELSE page.words[w] = <<r.slot, w - r.offset>>

\* A word of a slot entry is the offset or the size of its row, or a word of a row.
EntryWords(page, R, low) ==
    \A r \in R : low <= Entry(r.slot) =>
       /\ IF \E q \in R : r.slot <= q.slot /\ Covers(q, Entry(r.slot))
          THEN page.words[Entry(r.slot)][1] \in Slots
          ELSE page.words[Entry(r.slot)] = Number(r.offset)
       /\ IF \E q \in R : r.slot <= q.slot /\ Covers(q, Entry(r.slot) + 1)
          THEN page.words[Entry(r.slot) + 1][1] \in Slots
          ELSE page.words[Entry(r.slot) + 1] = Number(r.size)

PageOK(page) ==
    /\ page \in [next_free : Nat, n_slots : 0 .. MAX_SLOTS_PER_PAGE, words : [Room -> Word]]
    /\ SLOT_HEADER <= page.next_free /\ page.next_free <= PAGE_SIZE

PageInv(page, R, low) ==
    /\ PageOK(page)
    /\ RowsInOrder(page, R)
    /\ RowWords(page, R, low)
    /\ EntryWords(page, R, low)

HeapInv ==
    /\ HeapTypeOK
    /\ last_page_id < next_page_id
    /\ \A p \in PageIds :
          /\ SLOT_HEADER <= overwritten[p]
          /\ p >= next_page_id => pages[p] = Empty /\ rows[p] = {}
          /\ PageInv(pages[p], rows[p], overwritten[p])

-----------------------------------------------------------------------------
(* One page *)

\* The row that InsertTuple adds to a page.
NewRow(page, size) == [slot |-> page.n_slots, offset |-> page.next_free, size |-> size]

\* The row fits and the slot entry lies in the page: what Full tests.
Fits(page, size) ==
    /\ page.n_slots < MAX_SLOTS_PER_PAGE
    /\ page.next_free + size + SLOT_ENTRY_SIZE <= PAGE_SIZE

LEMMA EntryArith ==
  /\ \A k \in Nat : Entry(k) = 3 + 2 * k /\ Entry(k) \in Nat
  /\ \A k \in Slots : Entry(k) \in Room /\ Entry(k) + 1 \in Room
  BY PageAssumption DEF Entry, SLOT_HEADER, SLOT_ENTRY_SIZE, Slots, Room

\* What each word of the page is after an insert.
LEMMA InsertedWords ==
  ASSUME NEW page, PageOK(page), NEW size \in Nat, Fits(page, size)
  PROVE  \A w \in Room : WithRow(page, size).words[w] =
            IF page.next_free <= w /\ w < page.next_free + size
            THEN <<page.n_slots, w - page.next_free>>
            ELSE IF w = Entry(page.n_slots) THEN Number(page.next_free)
            ELSE IF w = Entry(page.n_slots) + 1 THEN Number(size)
            ELSE page.words[w]
<1> DEFINE e == set_slot(page.words, page.n_slots, page.next_free, size)
<1>1. page.n_slots \in Slots /\ page.words \in [Room -> Word] /\ page.next_free \in Nat
  BY PageAssumption DEF PageOK, Fits, Slots
<1>2. Entry(page.n_slots) \in Room /\ Entry(page.n_slots) + 1 \in Room /\ Entry(page.n_slots) \in Nat
  BY <1>1, EntryArith DEF Slots
<1>3. \A w \in Room : e[w] = IF w = Entry(page.n_slots) THEN Number(page.next_free)
                             ELSE IF w = Entry(page.n_slots) + 1 THEN Number(size)
                             ELSE page.words[w]
  BY <1>1, <1>2 DEF set_slot
<1>4. WithRow(page, size).words = Memcpy(e, page.next_free, size, page.n_slots)
  BY DEF WithRow
<1> HIDE DEF e
<1>5. \A w \in Room : Memcpy(e, page.next_free, size, page.n_slots)[w] =
         IF page.next_free <= w /\ w < page.next_free + size
         THEN <<page.n_slots, w - page.next_free>> ELSE e[w]
  BY DEF Memcpy
<1> QED BY <1>3, <1>4, <1>5

LEMMA InsertedPageOK ==
  ASSUME NEW page, PageOK(page), NEW size \in Nat, Fits(page, size)
  PROVE  /\ PageOK(WithRow(page, size))
         /\ WithRow(page, size).next_free = page.next_free + size
         /\ WithRow(page, size).n_slots = page.n_slots + 1
         /\ NewRow(page, size) \in Row
<1>1. page.n_slots \in Slots /\ page.words \in [Room -> Word] /\ page.next_free \in Nat
  BY PageAssumption DEF PageOK, Fits, Slots
<1>2. \A w \in Room : WithRow(page, size).words[w] \in Word
  <2> SUFFICES ASSUME NEW w \in Room PROVE WithRow(page, size).words[w] \in Word
    OBVIOUS
  <2>1. page.words[w] \in Word /\ Number(page.next_free) \in Word /\ Number(size) \in Word
    BY <1>1 DEF Word, Number
  <2>2. CASE page.next_free <= w /\ w < page.next_free + size
    <3>1. w - page.next_free \in Nat
      BY <2>2, <1>1, PageAssumption DEF Room, SLOT_HEADER
    <3>2. <<page.n_slots, w - page.next_free>> \in Word
      BY <3>1, <1>1 DEF Word
    <3> QED BY <2>2, <3>2, InsertedWords
  <2>3. CASE ~(page.next_free <= w /\ w < page.next_free + size)
    BY <2>1, <2>3, InsertedWords
  <2> QED BY <2>2, <2>3
<1>3. WithRow(page, size) = [next_free |-> page.next_free + size, n_slots |-> page.n_slots + 1,
                             words |-> WithRow(page, size).words]
  BY DEF WithRow
<1>4. DOMAIN WithRow(page, size).words = Room
  BY DEF WithRow, Memcpy
<1>5. WithRow(page, size).words \in [Room -> Word]
  <2>1. WithRow(page, size).words = [w \in Room |-> WithRow(page, size).words[w]]
    BY DEF WithRow, Memcpy
  <2> QED BY <1>2, <2>1
<1>6. page.n_slots + 1 \in 0 .. MAX_SLOTS_PER_PAGE /\ page.next_free + size \in Nat
  BY <1>1, PageAssumption DEF Fits, Slots
<1>7. SLOT_HEADER <= page.next_free + size /\ page.next_free + size <= PAGE_SIZE
  BY <1>1, PageAssumption DEF PageOK, Fits, SLOT_HEADER, SLOT_ENTRY_SIZE
<1>8. PageOK(WithRow(page, size))
  BY <1>3, <1>5, <1>6, <1>7 DEF PageOK
<1>9. NewRow(page, size) \in Row
  BY <1>1, PageAssumption DEF NewRow, Row, Room, PageOK, Fits, SLOT_HEADER, SLOT_ENTRY_SIZE
<1> QED BY <1>3, <1>8, <1>9

LEMMA InsertedRowsInOrder ==
  ASSUME NEW page, PageOK(page), NEW size \in Nat, Fits(page, size), NEW R, RowsInOrder(page, R)
  PROVE  RowsInOrder(WithRow(page, size), R \cup {NewRow(page, size)})
<1> DEFINE new == NewRow(page, size)
<1>1. new \in Row /\ new.slot = page.n_slots /\ new.offset = page.next_free /\ new.size = size
  BY InsertedPageOK DEF NewRow
<1>2. /\ WithRow(page, size).next_free = page.next_free + size
      /\ WithRow(page, size).n_slots = page.n_slots + 1
  BY InsertedPageOK
<1>3. page.n_slots \in Nat /\ page.next_free \in Nat
  BY DEF PageOK
<1>4. \A r \in R : /\ r \in Row /\ r.slot < page.n_slots /\ r.offset + r.size <= page.next_free
                   /\ r.slot \in Nat /\ r.offset \in Nat /\ r.size \in Nat
  BY PageAssumption DEF RowsInOrder, Row, Slots, Room, SLOT_HEADER
<1> HIDE DEF new
<1>5. \A r \in R \cup {new} : r \in Row /\ r.slot < page.n_slots + 1 /\ r.offset + r.size <= page.next_free + size
  BY <1>1, <1>3, <1>4
<1>6. \A r, q \in R \cup {new} : r.slot = q.slot => r = q
  BY <1>1, <1>3, <1>4 DEF RowsInOrder
<1>7. \A r, q \in R \cup {new} : r.slot < q.slot => r.offset + r.size <= q.offset
  BY <1>1, <1>3, <1>4 DEF RowsInOrder
<1> QED BY <1>2, <1>5, <1>6, <1>7 DEF RowsInOrder, new

\* A word of an old row is lost to the new slot entry only: the new row lies above.
LEMMA InsertedRowWords ==
  ASSUME NEW page, NEW R, NEW low \in Nat, PageInv(page, R, low), NEW size \in Nat, Fits(page, size)
  PROVE  RowWords(WithRow(page, size), R \cup {NewRow(page, size)}, low)
<1> DEFINE new == NewRow(page, size)
           after == WithRow(page, size)
<1>1. new.slot = page.n_slots /\ new.offset = page.next_free /\ new.size = size
  BY DEF NewRow
<1>2. PageOK(page) /\ RowsInOrder(page, R) /\ RowWords(page, R, low)
  BY DEF PageInv
<1>3. page.n_slots \in Nat /\ page.next_free \in Nat /\ after.n_slots = page.n_slots + 1
  BY <1>2, InsertedPageOK DEF PageOK
<1>4. \A w \in Room : after.words[w] =
            IF page.next_free <= w /\ w < page.next_free + size
            THEN <<page.n_slots, w - page.next_free>>
            ELSE IF w = Entry(page.n_slots) THEN Number(page.next_free)
            ELSE IF w = Entry(page.n_slots) + 1 THEN Number(size)
            ELSE page.words[w]
  BY <1>2, InsertedWords
<1>5. Entry(page.n_slots) = 3 + 2 * page.n_slots /\ Entry(page.n_slots + 1) = 5 + 2 * page.n_slots
  BY <1>3, EntryArith
<1> HIDE DEF new, after
<1> SUFFICES ASSUME NEW r \in R \cup {new}, NEW w \in Room, low <= w, Covers(r, w)
             PROVE  IF Entry(r.slot + 1) <= w /\ w < Entry(after.n_slots)
                    THEN after.words[w][1] = -1
                    ELSE after.words[w] = <<r.slot, w - r.offset>>
  BY DEF RowWords, new, after
<1>6. w \in Nat
  BY PageAssumption DEF Room, SLOT_HEADER
<1>7. CASE r = new
  <2>1. after.words[w] = <<r.slot, w - r.offset>>
    BY <1>1, <1>4, <1>7 DEF Covers
  <2>2. ~(Entry(r.slot + 1) <= w /\ w < Entry(after.n_slots))
    BY <1>1, <1>3, <1>5, <1>6, <1>7
  <2> QED BY <2>1, <2>2
<1>8. CASE r \in R
  <2>1. r.slot \in Nat /\ r.offset \in Nat /\ r.size \in Nat /\ r.slot < page.n_slots /\ w < page.next_free
    BY <1>2, <1>3, <1>6, <1>8, PageAssumption DEF RowsInOrder, Row, Slots, Room, SLOT_HEADER, Covers
  <2>0. ~(page.next_free <= w /\ w < page.next_free + size)
    BY <1>3, <1>6, <2>1
  <2>2. Entry(r.slot + 1) = 5 + 2 * r.slot
    BY <2>1, EntryArith
  <2>3. IF Entry(r.slot + 1) <= w /\ w < Entry(page.n_slots)
        THEN page.words[w][1] = -1
        ELSE page.words[w] = <<r.slot, w - r.offset>>
    BY <1>2, <1>8 DEF RowWords
  <2>4. CASE w = Entry(page.n_slots) \/ w = Entry(page.n_slots) + 1
    <3>0. \E v : after.words[w] = Number(v)
      BY <1>4, <2>0, <2>4
    <3>1. after.words[w][1] = -1
      BY <3>0 DEF Number
    <3>2. Entry(r.slot + 1) <= w /\ w < Entry(after.n_slots)
      BY <1>3, <1>5, <2>1, <2>2, <2>4
    <3> QED BY <3>1, <3>2
  <2>5. CASE ~(w = Entry(page.n_slots) \/ w = Entry(page.n_slots) + 1)
    <3>1. after.words[w] = page.words[w]
      BY <1>4, <2>0, <2>5
    <3>2. w < Entry(after.n_slots) <=> w < Entry(page.n_slots)
      BY <1>3, <1>5, <1>6, <2>5
    <3> QED BY <2>3, <3>1, <3>2
  <2> QED BY <2>4, <2>5
<1> QED BY <1>7, <1>8

\* A word of an old slot entry is lost to the new row only; the new slot entry to its own row.
LEMMA InsertedEntryWords ==
  ASSUME NEW page, NEW R, NEW low \in Nat, PageInv(page, R, low), NEW size \in Nat, Fits(page, size)
  PROVE  EntryWords(WithRow(page, size), R \cup {NewRow(page, size)}, low)
<1> DEFINE new == NewRow(page, size)
           after == WithRow(page, size)
<1>1. new.slot = page.n_slots /\ new.offset = page.next_free /\ new.size = size
  BY DEF NewRow
<1>2. PageOK(page) /\ RowsInOrder(page, R) /\ EntryWords(page, R, low)
  BY DEF PageInv
<1>3. page.n_slots \in Slots /\ page.n_slots \in Nat /\ page.next_free \in Nat
  BY <1>2, PageAssumption DEF PageOK, Fits, Slots
<1>4. \A w \in Room : after.words[w] =
            IF page.next_free <= w /\ w < page.next_free + size
            THEN <<page.n_slots, w - page.next_free>>
            ELSE IF w = Entry(page.n_slots) THEN Number(page.next_free)
            ELSE IF w = Entry(page.n_slots) + 1 THEN Number(size)
            ELSE page.words[w]
  BY <1>2, InsertedWords
<1>5. \A r \in R : r.slot \in Slots /\ r.slot \in Nat /\ r.slot < page.n_slots
  BY <1>2 DEF RowsInOrder, Row, Slots
<1> HIDE DEF new, after
<1> DEFINE Lost(S, r, w) == \E q \in S : r.slot <= q.slot /\ Covers(q, w)
           Holds(pg, S, r, w, v) == IF Lost(S, r, w) THEN pg.words[w][1] \in Slots ELSE pg.words[w] = Number(v)
<1>6. ASSUME NEW r \in R, NEW w \in {Entry(r.slot), Entry(r.slot) + 1}, NEW v, Holds(page, R, r, w, v)
      PROVE  Holds(after, R \cup {new}, r, w, v)
  <2>1. /\ w \in Room /\ w # Entry(page.n_slots) /\ w # Entry(page.n_slots) + 1
    BY <1>3, <1>5, <1>6, EntryArith
  <2>2. CASE Covers(new, w)
    <3>1. Lost(R \cup {new}, r, w)
      BY <1>1, <1>3, <1>5, <2>2
    <3>2. after.words[w] = <<page.n_slots, w - page.next_free>>
      BY <1>1, <1>4, <2>1, <2>2 DEF Covers
    <3>3. after.words[w][1] \in Slots
      BY <1>3, <3>2
    <3> QED BY <3>1, <3>3
  <2>3. CASE ~Covers(new, w)
    <3>1. after.words[w] = page.words[w]
      BY <1>1, <1>4, <2>1, <2>3 DEF Covers
    <3>2. Lost(R \cup {new}, r, w) <=> Lost(R, r, w)
      BY <2>3
    <3> QED BY <1>6, <3>1, <3>2
  <2> QED BY <2>2, <2>3
<1>7. ASSUME NEW w \in {Entry(page.n_slots), Entry(page.n_slots) + 1}, NEW v,
             ~Covers(new, w) => after.words[w] = Number(v)
      PROVE  Holds(after, R \cup {new}, new, w, v)
  <2>1. w \in Room
    BY <1>3, EntryArith
  <2>2. Lost(R \cup {new}, new, w) <=> Covers(new, w)
    BY <1>1, <1>3, <1>5
  <2>3. ASSUME Covers(new, w) PROVE after.words[w][1] \in Slots
    <3>1. after.words[w] = <<page.n_slots, w - page.next_free>>
      BY <1>1, <1>4, <2>1, <2>3 DEF Covers
    <3> QED BY <1>3, <3>1
  <2> QED BY <1>7, <2>2, <2>3
<1>8. /\ ~Covers(new, Entry(page.n_slots)) => after.words[Entry(page.n_slots)] = Number(new.offset)
      /\ ~Covers(new, Entry(page.n_slots) + 1) => after.words[Entry(page.n_slots) + 1] = Number(new.size)
  <2>1. /\ Entry(page.n_slots) \in Room /\ Entry(page.n_slots) + 1 \in Room
        /\ Entry(page.n_slots) + 1 # Entry(page.n_slots)
    BY <1>3, EntryArith
  <2> QED BY <1>1, <1>4, <2>1 DEF Covers
<1>9. ASSUME NEW r \in R \cup {new}, low <= Entry(r.slot)
      PROVE  /\ Holds(after, R \cup {new}, r, Entry(r.slot), r.offset)
             /\ Holds(after, R \cup {new}, r, Entry(r.slot) + 1, r.size)
  <2>1. CASE r = new
    BY <1>1, <1>7, <1>8, <2>1
  <2>2. CASE r \in R
    <3>1. Holds(page, R, r, Entry(r.slot), r.offset) /\ Holds(page, R, r, Entry(r.slot) + 1, r.size)
      BY <1>2, <1>9, <2>2 DEF EntryWords
    <3> QED BY <1>6, <2>2, <3>1
  <2> QED BY <2>1, <2>2
<1> QED BY <1>9 DEF EntryWords, new, after

LEMMA InsertKeepsPage ==
  ASSUME NEW page, NEW R, NEW low \in Nat, PageInv(page, R, low), NEW size \in Nat, Fits(page, size)
  PROVE  PageInv(WithRow(page, size), R \cup {NewRow(page, size)}, low)
  BY InsertedPageOK, InsertedRowsInOrder, InsertedRowWords, InsertedEntryWords DEF PageInv

\* UpdateTuple changes no word from the end of its copy on.
LEMMA UpdateKeepsPage ==
  ASSUME NEW page, NEW R, NEW low \in Nat, PageInv(page, R, low), NEW size \in Nat,
         NEW high \in Nat, low <= high, UPDATE_OFFSET + size <= high
  PROVE  PageInv([page EXCEPT !.words = Memcpy(@, UPDATE_OFFSET, size, UPDATE)], R, high)
<1> DEFINE after == [page EXCEPT !.words = Memcpy(@, UPDATE_OFFSET, size, UPDATE)]
<1>1. PageOK(page) /\ RowsInOrder(page, R) /\ RowWords(page, R, low) /\ EntryWords(page, R, low)
  BY DEF PageInv
<1>2. /\ page \in [next_free : Nat, n_slots : 0 .. MAX_SLOTS_PER_PAGE, words : [Room -> Word]]
      /\ page.words \in [Room -> Word]
  BY <1>1 DEF PageOK
<1>3. after.n_slots = page.n_slots /\ after.next_free = page.next_free
  BY <1>2
<1>4. after.words = Memcpy(page.words, UPDATE_OFFSET, size, UPDATE)
  BY <1>2
<1>5. \A w \in Room : high <= w => after.words[w] = page.words[w]
  BY <1>4, PageAssumption DEF Memcpy, Room, UPDATE_OFFSET, SLOT_HEADER
<1>6. Memcpy(page.words, UPDATE_OFFSET, size, UPDATE) \in [Room -> Word]
  <2> SUFFICES ASSUME NEW w \in Room
               PROVE  (IF UPDATE_OFFSET <= w /\ w < UPDATE_OFFSET + size
                       THEN <<UPDATE, w - UPDATE_OFFSET>> ELSE page.words[w]) \in Word
    BY DEF Memcpy
  <2>1. page.words[w] \in Word
    BY <1>2
  <2>2. ASSUME UPDATE_OFFSET <= w PROVE <<UPDATE, w - UPDATE_OFFSET>> \in Word
    <3>1. w - UPDATE_OFFSET \in Nat
      BY <2>2, PageAssumption DEF Room, SLOT_HEADER, UPDATE_OFFSET
    <3> QED BY <3>1 DEF Word
  <2> QED BY <2>1, <2>2
<1>7. PageOK(after)
  <2>1. after \in [next_free : Nat, n_slots : 0 .. MAX_SLOTS_PER_PAGE, words : [Room -> Word]]
    BY <1>2, <1>6
  <2> QED BY <2>1, <1>1, <1>3 DEF PageOK
<1> HIDE DEF after
<1>8. RowsInOrder(after, R)
  BY <1>1, <1>3 DEF RowsInOrder
<1>9. RowWords(after, R, high)
  <2> SUFFICES ASSUME NEW r \in R, NEW w \in Room, high <= w, Covers(r, w)
               PROVE  IF Entry(r.slot + 1) <= w /\ w < Entry(after.n_slots)
                      THEN after.words[w][1] = -1
                      ELSE after.words[w] = <<r.slot, w - r.offset>>
    BY DEF RowWords
  <2>1. low <= w
    BY PageAssumption DEF Room, SLOT_HEADER
  <2> QED BY <1>1, <1>3, <1>5, <2>1 DEF RowWords
<1>10. EntryWords(after, R, high)
  <2> SUFFICES ASSUME NEW r \in R, high <= Entry(r.slot)
               PROVE  /\ IF \E q \in R : r.slot <= q.slot /\ Covers(q, Entry(r.slot))
                         THEN after.words[Entry(r.slot)][1] \in Slots
                         ELSE after.words[Entry(r.slot)] = Number(r.offset)
                      /\ IF \E q \in R : r.slot <= q.slot /\ Covers(q, Entry(r.slot) + 1)
                         THEN after.words[Entry(r.slot) + 1][1] \in Slots
                         ELSE after.words[Entry(r.slot) + 1] = Number(r.size)
    BY DEF EntryWords
  <2>1. r.slot \in Slots /\ Entry(r.slot) \in Nat /\ Entry(r.slot) \in Room /\ Entry(r.slot) + 1 \in Room
    BY <1>1, EntryArith DEF RowsInOrder, Row, Slots
  <2>2. low <= Entry(r.slot) /\ high <= Entry(r.slot) + 1
    BY <2>1
  <2>3. /\ after.words[Entry(r.slot)] = page.words[Entry(r.slot)]
        /\ after.words[Entry(r.slot) + 1] = page.words[Entry(r.slot) + 1]
    BY <1>5, <2>1, <2>2
  <2> QED BY <1>1, <2>2, <2>3 DEF EntryWords
<1> QED BY <1>7, <1>8, <1>9, <1>10 DEF PageInv, after

\* Clear of page p, of the page and its rows alone.
ClearOf(page, R, r) ==
    /\ ~Meet(r.offset, r.offset + r.size, Entry(r.slot), Entry(page.n_slots))
    /\ \A q \in R : q.slot > r.slot =>
          ~Meet(q.offset, q.offset + q.size, Entry(r.slot), Entry(r.slot + 1))

\* The words say which rows read back.
LEMMA PageReadsBack ==
  ASSUME NEW page, NEW R, NEW low \in Nat, PageInv(page, R, low),
         NEW r \in R, r.size > 0, low <= r.offset, low <= Entry(r.slot)
  PROVE  GetTuple(page, r.slot) = [i \in 0 .. (r.size - 1) |-> <<r.slot, i>>] <=> ClearOf(page, R, r)
<1> DEFINE e == Entry(r.slot)
           tuple == [i \in 0 .. (r.size - 1) |-> <<r.slot, i>>]
           Lost(w) == \E q \in R : r.slot <= q.slot /\ Covers(q, w)
<1>1. PageOK(page) /\ RowsInOrder(page, R) /\ RowWords(page, R, low) /\ EntryWords(page, R, low)
  BY DEF PageInv
<1>2. \A q \in R : /\ q.slot \in Slots /\ q.slot \in Nat /\ q.offset \in Nat /\ q.size \in Nat
                   /\ q.offset \in Room /\ q.slot < page.n_slots /\ q.offset + q.size <= page.next_free
  BY <1>1, PageAssumption DEF RowsInOrder, Row, Slots, Room, SLOT_HEADER
<1>3. page.n_slots \in Nat /\ page.next_free \in Nat /\ page.next_free <= PAGE_SIZE
  BY <1>1 DEF PageOK
<1>4. /\ e = 3 + 2 * r.slot /\ e \in Nat /\ e \in Room /\ e + 1 \in Room
      /\ Entry(r.slot + 1) = e + 2 /\ Entry(page.n_slots) = 3 + 2 * page.n_slots
      /\ e + 2 <= Entry(page.n_slots)
  BY <1>2, <1>3, EntryArith
<1>5. /\ IF Lost(e) THEN page.words[e][1] \in Slots ELSE page.words[e] = Number(r.offset)
      /\ IF Lost(e + 1) THEN page.words[e + 1][1] \in Slots ELSE page.words[e + 1] = Number(r.size)
  BY <1>1 DEF EntryWords
<1>6. \A i \in 0 .. (r.size - 1) : r.offset + i \in Room /\ low <= r.offset + i /\ Covers(r, r.offset + i)
  BY <1>2, <1>3, PageAssumption DEF Room, Covers, SLOT_HEADER
<1>7. GetTuple(page, r.slot) =
         IF page.words[e][1] # -1 \/ page.words[e + 1][1] # -1 THEN AnyTuple
         ELSE IF page.words[e + 1][2] = 0 \/ page.words[e][2] + page.words[e + 1][2] > PAGE_SIZE THEN NoTuple
         ELSE [i \in 0 .. (page.words[e + 1][2] - 1) |-> page.words[page.words[e][2] + i]]
  <2>1. get_slot(page, r.slot)[1] = page.words[e] /\ get_slot(page, r.slot)[2] = page.words[e + 1]
    BY DEF get_slot
  <2>2. ~(r.slot >= page.n_slots)
    BY <1>2, <1>3
  <2> HIDE DEF e
  <2> QED BY <2>1, <2>2 DEF GetTuple
<1>8. AnyTuple # tuple
  <2>1. 0 \in 0 .. (r.size - 1) /\ tuple[0] = <<r.slot, 0>> /\ AnyTuple[0] = <<-3, 0>>
    BY <1>2 DEF AnyTuple
  <2>2. <<r.slot, 0>>[1] # <<-3, 0>>[1]
    BY <1>2
  <2> QED BY <2>1, <2>2
<1> HIDE DEF e, tuple, Lost
<1>9. ASSUME Lost(e) \/ Lost(e + 1) PROVE GetTuple(page, r.slot) # tuple
  <2>1. page.words[e][1] \in Slots \/ page.words[e + 1][1] \in Slots
    BY <1>5, <1>9
  <2>2. page.words[e][1] # -1 \/ page.words[e + 1][1] # -1
    BY <2>1, PageAssumption DEF Slots
  <2> QED BY <1>7, <1>8, <2>2
<1>10. ASSUME ~Lost(e), ~Lost(e + 1)
       PROVE  GetTuple(page, r.slot) = [i \in 0 .. (r.size - 1) |-> page.words[r.offset + i]]
  <2>1. /\ page.words[e][1] = -1 /\ page.words[e][2] = r.offset
        /\ page.words[e + 1][1] = -1 /\ page.words[e + 1][2] = r.size
    BY <1>5, <1>10 DEF Number
  <2>2. ~(r.size = 0 \/ r.offset + r.size > PAGE_SIZE)
    BY <1>2, <1>3, PageAssumption
  <2> QED BY <1>7, <2>1, <2>2
<1>11. ASSUME ClearOf(page, R, r) PROVE GetTuple(page, r.slot) = tuple
  <2>1. ASSUME NEW q \in R, r.slot <= q.slot, NEW w \in {e, e + 1}, Covers(q, w) PROVE FALSE
    <3>1. CASE q.slot > r.slot
      <4>1. ~Meet(q.offset, q.offset + q.size, e, e + 2)
        BY <1>4, <1>11, <3>1 DEF ClearOf, e
      <4> QED BY <1>2, <1>4, <2>1, <4>1 DEF Meet, Covers
    <3>2. CASE q.slot = r.slot
      <4>1. q = r
        BY <1>1, <3>2 DEF RowsInOrder
      <4>2. ~Meet(r.offset, r.offset + r.size, e, Entry(page.n_slots))
        BY <1>11 DEF ClearOf, e
      <4>3. r.offset <= w /\ w < r.offset + r.size
        BY <2>1, <4>1 DEF Covers
      <4> QED BY <1>2, <1>3, <1>4, <4>2, <4>3 DEF Meet
    <3> QED BY <1>2, <2>1, <3>1, <3>2
  <2>2. ~Lost(e) /\ ~Lost(e + 1)
    BY <2>1 DEF Lost
  <2>3. ASSUME NEW i \in 0 .. (r.size - 1) PROVE page.words[r.offset + i] = <<r.slot, i>>
    <3>1. ~Meet(r.offset, r.offset + r.size, e, Entry(page.n_slots))
      BY <1>11 DEF ClearOf, e
    <3>2. ~(e + 2 <= r.offset + i /\ r.offset + i < Entry(page.n_slots))
      BY <1>2, <1>3, <1>4, <3>1 DEF Meet
    <3>3. page.words[r.offset + i] = <<r.slot, (r.offset + i) - r.offset>>
      BY <1>1, <1>4, <1>6, <3>2 DEF RowWords
    <3>4. (r.offset + i) - r.offset = i
      BY <1>2
    <3> QED BY <3>3, <3>4
  <2> QED BY <1>10, <2>2, <2>3 DEF tuple
<1>12. ASSUME ~ClearOf(page, R, r), ~Lost(e), ~Lost(e + 1) PROVE GetTuple(page, r.slot) # tuple
  <2>1. ASSUME NEW q \in R, q.slot > r.slot PROVE ~Meet(q.offset, q.offset + q.size, e, e + 2)
    <3>1. ~Covers(q, e) /\ ~Covers(q, e + 1)
      BY <1>2, <1>12, <2>1 DEF Lost
    <3> QED BY <1>2, <1>4, <3>1 DEF Meet, Covers
  <2>2. Meet(r.offset, r.offset + r.size, e, Entry(page.n_slots))
    BY <1>4, <1>12, <2>1 DEF ClearOf, e
  <2>3. ~Covers(r, e) /\ ~Covers(r, e + 1)
    BY <1>2, <1>12 DEF Lost
  <2>4. PICK i \in 0 .. (r.size - 1) : e + 2 <= r.offset + i /\ r.offset + i < Entry(page.n_slots)
    <3>1. r.offset >= e + 2 /\ r.offset < Entry(page.n_slots)
      BY <1>2, <1>3, <1>4, <2>2, <2>3 DEF Meet, Covers
    <3>2. 0 \in 0 .. (r.size - 1) /\ r.offset + 0 = r.offset
      BY <1>2
    <3> QED BY <3>1, <3>2
  <2>5. page.words[r.offset + i][1] = -1
    BY <1>1, <1>4, <1>6, <2>4 DEF RowWords
  <2>6. <<r.slot, i>>[1] # -1
    BY <1>2
  <2>7. page.words[r.offset + i] # <<r.slot, i>>
    BY <2>5, <2>6
  <2> QED BY <1>10, <1>12, <2>7 DEF tuple
<1> QED BY <1>9, <1>11, <1>12 DEF tuple

-----------------------------------------------------------------------------
(* The table *)

LEMMA EmptyPage ==
  \A low \in Nat : PageInv(Empty, {}, low)
<1>1. Number(0) \in Word
  BY DEF Number, Word
<1>2. Empty \in [next_free : Nat, n_slots : 0 .. MAX_SLOTS_PER_PAGE, words : [Room -> Word]]
  BY <1>1, PageAssumption DEF Empty, SLOT_HEADER
<1>3. PageOK(Empty)
  BY <1>2, PageAssumption DEF PageOK, Empty, SLOT_HEADER, SLOT_ENTRY_SIZE
<1> QED BY <1>3 DEF PageInv, RowsInOrder, RowWords, EntryWords

LEMMA HeapInitInv == HeapInit => HeapInv
<1> SUFFICES ASSUME HeapInit PROVE HeapInv
  OBVIOUS
<1>1. \A p \in PageIds : pages[p] = Empty /\ rows[p] = {} /\ overwritten[p] = SLOT_HEADER
  BY DEF HeapInit
<1>2. SLOT_HEADER \in Nat /\ SLOT_HEADER <= SLOT_HEADER
  BY DEF SLOT_HEADER
<1>3. Empty \in [next_free : Nat, n_slots : 0 .. MAX_SLOTS_PER_PAGE, words : [Room -> Word]]
  BY EmptyPage DEF PageInv, PageOK
<1>4. HeapTypeOK
  BY <1>2, <1>3, PageAssumption, BoundsAssumption DEF HeapTypeOK, HeapInit, Zeros, PageIds
<1>5. last_page_id < next_page_id
  BY DEF HeapInit
<1> QED BY <1>1, <1>2, <1>4, <1>5, EmptyPage DEF HeapInv

\* The page that InsertTuple takes has room: the last page by the test, a new one
\* because every row fits on an empty page.
LEMMA InsertFits ==
  ASSUME HeapInv, NEW p \in PageIds, NEW size \in Sizes, InsertTuple(p, size)
  PROVE  Fits(pages[p], size)
<1>1. /\ size \in Nat /\ p \in Nat /\ last_page_id \in Int /\ next_page_id \in Nat
      /\ PageOK(pages[p])
  BY SizesAssumption, BoundsAssumption DEF HeapInv, HeapTypeOK, PageIds, PageInv
<1>2. CASE p = next_page_id
  <2>1. pages[p] = Empty
    BY <1>1, <1>2 DEF HeapInv
  <2> QED BY <2>1, PageAssumption, SizesAssumption DEF Fits, Empty
<1>3. CASE p # next_page_id
  <2>1. p = last_page_id /\ ~Full(LastPage, size)
    BY <1>3 DEF InsertTuple
  <2>2. LastPage = pages[p]
    BY <1>1, <2>1 DEF LastPage
  <2> QED BY <1>1, <2>1, <2>2, PageAssumption DEF Full, Fits, PageOK, SLOT_ENTRY_SIZE
<1> QED BY <1>2, <1>3

LEMMA InsertTupleInv ==
  ASSUME HeapInv, NEW p \in PageIds, NEW size \in Sizes, InsertTuple(p, size)
  PROVE  HeapInv'
<1> DEFINE new == NewRow(pages[p], size)
<1>1. /\ HeapTypeOK /\ last_page_id < next_page_id /\ size \in Nat /\ p \in Nat
      /\ last_page_id \in Int /\ next_page_id \in Nat /\ overwritten[p] \in Nat
  BY SizesAssumption, BoundsAssumption DEF HeapInv, HeapTypeOK, PageIds
<1>2. PageInv(pages[p], rows[p], overwritten[p])
  BY DEF HeapInv
<1>3. Fits(pages[p], size)
  BY InsertFits
<1>4. /\ PageInv(WithRow(pages[p], size), rows[p] \cup {new}, overwritten[p])
      /\ new \in Row
  BY <1>1, <1>2, <1>3, InsertKeepsPage, InsertedPageOK DEF PageInv
<1>5. /\ pages' = [pages EXCEPT ![p] = WithRow(pages[p], size)]
      /\ rows' = [rows EXCEPT ![p] = rows[p] \cup {new}]
      /\ overwritten' = overwritten /\ last_page_id' = p /\ inserted' = inserted + 1
      /\ next_page_id' = IF p = next_page_id THEN next_page_id + 1 ELSE next_page_id
      /\ p = last_page_id \/ p = next_page_id
      /\ first_page_id' \in {first_page_id, p}
      /\ invalid_page' = invalid_page /\ invalid' = invalid
  BY DEF InsertTuple, NewRow
<1> HIDE DEF new
<1>6. HeapTypeOK'
  <2>1. pages' \in [PageIds -> [next_free : Nat, n_slots : 0 .. MAX_SLOTS_PER_PAGE, words : [Room -> Word]]]
    BY <1>1, <1>4, <1>5 DEF HeapTypeOK, PageInv, PageOK
  <2>2. rows' \in [PageIds -> SUBSET Row]
    BY <1>1, <1>4, <1>5 DEF HeapTypeOK
  <2>3. next_page_id' \in 0 .. MAX_PAGES /\ last_page_id' \in PageIds /\ inserted' \in Nat
    BY <1>1, <1>5, BoundsAssumption DEF HeapTypeOK, PageIds
  <2>4. first_page_id' \in PageIds \cup {-1}
    BY <1>1, <1>5 DEF HeapTypeOK
  <2> QED BY <1>1, <1>5, <2>1, <2>2, <2>3, <2>4 DEF HeapTypeOK
<1>7. last_page_id' < next_page_id'
  BY <1>1, <1>5
<1>8. ASSUME NEW g \in PageIds
      PROVE  /\ SLOT_HEADER <= overwritten'[g]
             /\ g >= next_page_id' => pages'[g] = Empty /\ rows'[g] = {}
             /\ PageInv(pages'[g], rows'[g], overwritten'[g])
  <2>1. CASE g = p
    <3>1. pages'[g] = WithRow(pages[p], size) /\ rows'[g] = rows[p] \cup {new}
      BY <1>1, <1>5, <2>1 DEF HeapTypeOK
    <3>2. ~(g >= next_page_id')
      BY <1>1, <1>5, <2>1
    <3> QED BY <1>4, <1>5, <2>1, <3>1, <3>2 DEF HeapInv
  <2>2. CASE g # p
    <3>1. pages'[g] = pages[g] /\ rows'[g] = rows[g]
      BY <1>1, <1>5, <2>2 DEF HeapTypeOK
    <3>2. g >= next_page_id' => g >= next_page_id
      BY <1>1, <1>5 DEF PageIds
    <3> QED BY <1>5, <3>1, <3>2 DEF HeapInv
  <2> QED BY <2>1, <2>2
<1> QED BY <1>6, <1>7, <1>8 DEF HeapInv

LEMMA UpdateTupleInv ==
  ASSUME HeapInv, NEW p \in PageIds, NEW size \in Sizes, UpdateTuple(p, size)
  PROVE  HeapInv'
<1> DEFINE high == IF UPDATE_OFFSET + size > overwritten[p] THEN UPDATE_OFFSET + size ELSE overwritten[p]
           after == [pages[p] EXCEPT !.words = Memcpy(@, UPDATE_OFFSET, size, UPDATE)]
<1>1. HeapTypeOK /\ size \in Nat /\ overwritten[p] \in Nat /\ p < next_page_id
  BY SizesAssumption DEF HeapInv, HeapTypeOK, UpdateTuple
<1>2. high \in Nat /\ overwritten[p] <= high /\ UPDATE_OFFSET + size <= high
  BY <1>1 DEF UPDATE_OFFSET
<1>3. /\ pages' = [pages EXCEPT ![p] = after]
      /\ overwritten' = [overwritten EXCEPT ![p] = high]
      /\ UNCHANGED <<next_page_id, first_page_id, last_page_id, invalid_page, rows, inserted, invalid>>
  BY <1>1 DEF UpdateTuple, HeapTypeOK
<1>4. PageInv(after, rows[p], high)
  <2> HIDE DEF high
  <2> QED BY <1>1, <1>2, UpdateKeepsPage DEF HeapInv
<1> HIDE DEF high, after
<1>5. HeapTypeOK'
  <2>1. after \in [next_free : Nat, n_slots : 0 .. MAX_SLOTS_PER_PAGE, words : [Room -> Word]]
    BY <1>4 DEF PageInv, PageOK
  <2> QED BY <1>1, <1>2, <1>3, <2>1 DEF HeapTypeOK
<1>6. SLOT_HEADER <= high
  BY <1>1, <1>2 DEF HeapInv, SLOT_HEADER
<1>7. ASSUME NEW g \in PageIds
      PROVE  /\ SLOT_HEADER <= overwritten'[g]
             /\ g >= next_page_id' => pages'[g] = Empty /\ rows'[g] = {}
             /\ PageInv(pages'[g], rows'[g], overwritten'[g])
  <2>1. CASE g = p
    <3>1. pages'[g] = after /\ overwritten'[g] = high /\ rows'[g] = rows[p]
      BY <1>1, <1>3, <2>1 DEF HeapTypeOK
    <3>2. ~(g >= next_page_id')
      BY <1>1, <1>3, <2>1 DEF HeapTypeOK, PageIds
    <3> QED BY <1>4, <1>6, <3>1, <3>2
  <2>2. CASE g # p
    <3>1. pages'[g] = pages[g] /\ overwritten'[g] = overwritten[g] /\ rows'[g] = rows[g]
      BY <1>1, <1>3, <2>2 DEF HeapTypeOK
    <3> QED BY <1>3, <3>1 DEF HeapInv
  <2> QED BY <2>1, <2>2
<1> QED BY <1>3, <1>5, <1>7 DEF HeapInv

\* Page -1 is none of the table's pages.
LEMMA InvalidPageInv ==
  ASSUME HeapInv, (\E size \in Sizes : InsertInvalid(size)) \/ EvictInvalid
  PROVE  HeapInv' /\ pages' = pages /\ rows' = rows /\ inserted' = inserted
<1>1. /\ UNCHANGED <<pages, next_page_id, first_page_id, last_page_id, rows, inserted, overwritten>>
      /\ HeapTypeOK
  BY DEF InsertInvalid, EvictInvalid, HeapInv
<1>2. invalid_page' \in [next_free : Nat, n_slots : 0 .. MAX_SLOTS_PER_PAGE] /\ invalid' \in Nat
  <2>1. CASE EvictInvalid
    BY <1>1, <2>1, PageAssumption DEF EvictInvalid, Zeros, HeapTypeOK
  <2>2. ASSUME NEW size \in Sizes, InsertInvalid(size)
        PROVE  invalid_page' \in [next_free : Nat, n_slots : 0 .. MAX_SLOTS_PER_PAGE] /\ invalid' \in Nat
    <3>1. /\ size \in Nat /\ invalid_page.next_free \in Nat /\ invalid_page.n_slots \in 0 .. MAX_SLOTS_PER_PAGE
          /\ invalid \in Nat
      BY <1>1, SizesAssumption DEF HeapTypeOK
    <3>2. ~(invalid_page.n_slots >= MAX_SLOTS_PER_PAGE)
      BY <2>2 DEF InsertInvalid, LastPage, Full
    <3>3. invalid_page.n_slots + 1 \in 0 .. MAX_SLOTS_PER_PAGE /\ invalid_page.next_free + size \in Nat
      BY <3>1, <3>2, PageAssumption
    <3> QED BY <2>2, <3>1, <3>3 DEF InsertInvalid
  <2> QED BY <2>1, <2>2
<1>3. HeapTypeOK'
  BY <1>1, <1>2 DEF HeapTypeOK
<1> QED BY <1>1, <1>3 DEF HeapInv

\* The pages, the rows and what every word of them holds, at every step of the
\* heap (table_heap.cpp:61-171).
THEOREM HeapInvariant == HeapSpec => []HeapInv
<1>1. HeapInv /\ [HeapNext]_heapVars => HeapInv'
  <2> SUFFICES ASSUME HeapInv, [HeapNext]_heapVars PROVE HeapInv'
    OBVIOUS
  <2>1. CASE UNCHANGED heapVars
    BY <2>1 DEF heapVars, HeapInv, HeapTypeOK
  <2>2. CASE HeapNext
    <3>1. CASE \E p \in PageIds, size \in Sizes : InsertTuple(p, size) \/ UpdateTuple(p, size)
      BY <3>1, InsertTupleInv, UpdateTupleInv
    <3>2. CASE \E p \in PageIds : DeleteTuple(p)
      BY <3>2, <2>1 DEF DeleteTuple
    <3>3. CASE (\E size \in Sizes : InsertInvalid(size)) \/ EvictInvalid
      BY <3>3, InvalidPageInv
    <3> QED BY <2>2, <3>1, <3>2, <3>3 DEF HeapNext
  <2> QED BY <2>1, <2>2
<1> QED BY HeapInitInv, <1>1, PTL DEF HeapSpec

\* A row reads back as it was inserted exactly if no slot entry from its own on
\* reaches into it and no later row into its slot entry (table_heap.cpp:100-103,
\* 125-132), for every page size and all rows.
THEOREM RowsReadBack == HeapSpec => []RowReadsBack
<1>1. HeapInv => RowReadsBack
  <2> SUFFICES ASSUME HeapInv, NEW p \in PageIds, NEW r \in rows[p],
                      r.size > 0, overwritten[p] <= r.offset, overwritten[p] <= Entry(r.slot)
               PROVE  GetTuple(pages[p], r.slot) = [i \in 0 .. (r.size - 1) |-> <<r.slot, i>>] <=> Clear(p, r)
    BY DEF RowReadsBack
  <2>1. PageInv(pages[p], rows[p], overwritten[p]) /\ overwritten[p] \in Nat
    BY DEF HeapInv, HeapTypeOK
  <2>2. Clear(p, r) <=> ClearOf(pages[p], rows[p], r)
    BY DEF Clear, ClearOf
  <2> QED BY <2>1, <2>2, PageReadsBack
<1> QED BY HeapInvariant, <1>1, PTL

-----------------------------------------------------------------------------
(* The table under queries implements the table *)


LEMMA QueryKeepsHeap ==
  ASSUME QueryStep
  PROVE  HeapNext \/ UNCHANGED heapVars
<1>1. CASE \E p \in PageIds, size \in Sizes : CopyRow(p, size)
  BY <1>1 DEF CopyRow, HeapNext
<1>2. CASE MergeHotRow \/ MergeHotDone \/ MergeColdRow \/ MergeEnd
  BY <1>2 DEF MergeHotRow, MergeHotDone, MergeColdRow, MergeEnd, EndQuery
<1>3. CASE JoinRow \/ JoinNextLeft \/ JoinEnd
  BY <1>3 DEF JoinRow, JoinNextLeft, JoinEnd, EndQuery
<1>4. CASE DrainRow \/ DrainEnd \/ CopyFails \/ CopyEnd
  BY <1>4 DEF DrainRow, DrainEnd, CopyFails, CopyEnd, EndQuery
<1> QED BY <1>1, <1>2, <1>3, <1>4 DEF QueryStep

\* Every step of the executors and of the layer marks is a step of the table
\* heap or leaves it alone (InsertExecutor.cpp:77, SeqScanExecutor.cpp:33-46).
THEOREM ScanImplementsHeap == Spec => HeapSpec
<1>1. Init => HeapInit
  BY DEF Init
<1>2. [Next]_vars => [HeapNext]_heapVars
  <2> SUFFICES ASSUME [Next]_vars PROVE HeapNext \/ UNCHANGED heapVars
    OBVIOUS
  <2>1. CASE UNCHANGED vars
    BY <2>1 DEF vars
  <2>2. CASE LoseFrame \/ \E size \in Sizes : DirectInsert(size)
    BY <2>2 DEF DirectInsert, LoseFrame, HeapNext
  <2>3. CASE \E p \in PageIds : ChangeRow(p)
    BY <2>3 DEF ChangeRow, HeapNext
  <2>4. CASE \E p \in 0 .. (next_page_id - 1) : MarkPageHot(p) \/ MarkPageCold(p)
    BY <2>4 DEF MarkPageHot, MarkPageCold
  <2>5. CASE \E kind \in {"merge", "join", "drain", "copy"}, days \in Days \cup {-1} : StartQuery(kind, days)
    BY <2>5 DEF StartQuery
  <2>6. CASE QueryStep
    BY <2>6, QueryKeepsHeap
  <2> QED BY <2>1, <2>2, <2>3, <2>4, <2>5, <2>6 DEF Next
<1> QED BY <1>1, <1>2, PTL DEF Spec, HeapSpec

\* Under queries too, exactly the rows that are clear of the slot entries read
\* back as they were inserted (table_heap.cpp:100-103, 125-132).
THEOREM ScannedRowsReadBack == Spec => []RowReadsBack
  BY ScanImplementsHeap, RowsReadBack, PTL

-----------------------------------------------------------------------------
(* The rows of the table *)

Rids == {rid \in RIDs : rid[2] < pages[rid[1]].n_slots}

RidInv ==
    /\ \A p \in PageIds : {r.slot : r \in rows[p]} = 0 .. (pages[p].n_slots - 1)
    /\ IsFiniteSet(Rids) /\ Cardinality(Rids) = inserted

LEMMA InsertTupleRids ==
  ASSUME HeapInv, RidInv, NEW p \in PageIds, NEW size \in Sizes, InsertTuple(p, size)
  PROVE  RidInv'
<1> DEFINE new == <<p, pages[p].n_slots>>
<1>1. HeapTypeOK /\ size \in Nat /\ inserted \in Nat
  BY SizesAssumption DEF HeapInv, HeapTypeOK
<1>2. Fits(pages[p], size)
  BY <1>1, InsertFits
<1>3. pages[p].n_slots \in Slots /\ pages[p].n_slots \in Nat
  BY <1>1, <1>2, PageAssumption DEF HeapTypeOK, Fits, Slots
<1>4. /\ pages' = [pages EXCEPT ![p] = WithRow(pages[p], size)]
      /\ rows' = [rows EXCEPT ![p] = rows[p] \cup {NewRow(pages[p], size)}]
      /\ inserted' = inserted + 1 /\ last_page_id' = p
  BY <1>1 DEF InsertTuple, NewRow
<1>5. /\ \A g \in PageIds : pages'[g].n_slots = IF g = p THEN pages[p].n_slots + 1 ELSE pages[g].n_slots
      /\ \A g \in PageIds : rows'[g] = IF g = p THEN rows[p] \cup {NewRow(pages[p], size)} ELSE rows[g]
  BY <1>1, <1>4 DEF HeapTypeOK, WithRow
<1>6. \A g \in PageIds : pages[g].n_slots \in Nat
  BY <1>1 DEF HeapTypeOK
<1>7. new \in RIDs /\ new \notin Rids /\ new[1] = p /\ new[2] = pages[p].n_slots
  BY <1>3 DEF RIDs, Rids
<1>8. Rids' = Rids \cup {new}
  <2>1. ASSUME NEW rid \in RIDs
        PROVE  rid[2] < pages'[rid[1]].n_slots <=> rid[2] < pages[rid[1]].n_slots \/ rid = new
    <3>1. rid[1] \in PageIds /\ rid[2] \in Nat /\ rid = <<rid[1], rid[2]>>
      BY DEF RIDs, Slots
    <3>2. CASE rid[1] = p
      BY <1>3, <1>5, <3>1, <3>2
    <3>3. CASE rid[1] # p
      BY <1>5, <3>1, <3>3
    <3> QED BY <3>2, <3>3
  <2> QED BY <1>7, <2>1 DEF Rids
<1> HIDE DEF new
<1>9. IsFiniteSet(Rids') /\ Cardinality(Rids') = inserted'
  BY <1>1, <1>4, <1>7, <1>8, FS_AddElement DEF RidInv
<1>10. ASSUME NEW g \in PageIds PROVE {r.slot : r \in rows'[g]} = 0 .. (pages'[g].n_slots - 1)
  <2>1. {r.slot : r \in rows[g]} = 0 .. (pages[g].n_slots - 1)
    BY DEF RidInv
  <2>2. CASE g = p
    <3>0. rows'[g] = rows[g] \cup {NewRow(pages[p], size)} /\ NewRow(pages[p], size).slot = pages[p].n_slots
      BY <1>5, <2>2 DEF NewRow
    <3>1. {r.slot : r \in rows'[g]} = {r.slot : r \in rows[g]} \cup {pages[p].n_slots}
      BY <3>0
    <3>2. 0 .. (pages'[g].n_slots - 1) = (0 .. (pages[g].n_slots - 1)) \cup {pages[p].n_slots}
      BY <1>3, <1>5, <2>2
    <3> QED BY <2>1, <3>1, <3>2
  <2>3. CASE g # p
    BY <1>5, <2>1, <2>3
  <2> QED BY <2>2, <2>3
<1> QED BY <1>9, <1>10 DEF RidInv

LEMMA ChangeRowRids ==
  ASSUME HeapInv, RidInv, NEW p \in PageIds, ChangeRow(p)
  PROVE  RidInv'
<1>1. /\ \A g \in PageIds : pages'[g].n_slots = pages[g].n_slots
      /\ rows' = rows /\ inserted' = inserted
  BY DEF ChangeRow, UpdateTuple, DeleteTuple, heapVars, HeapInv, HeapTypeOK
<1>2. Rids' = Rids
  BY <1>1 DEF Rids, RIDs
<1> QED BY <1>1, <1>2 DEF RidInv

LEMMA InvalidRids ==
  ASSUME HeapInv, RidInv, (\E size \in Sizes : InsertInvalid(size)) \/ EvictInvalid
  PROVE  RidInv'
<1>1. pages' = pages /\ rows' = rows /\ inserted' = inserted
  BY InvalidPageInv
<1> QED BY <1>1 DEF RidInv, Rids

LEMMA SameTableRids ==
  ASSUME RidInv, UNCHANGED heapVars
  PROVE  RidInv'
  BY DEF RidInv, Rids, heapVars

LEMMA InitRids == Init => RidInv
<1> SUFFICES ASSUME Init PROVE RidInv
  OBVIOUS
<1>1. /\ \A p \in PageIds : pages[p].n_slots = 0 /\ rows[p] = {}
      /\ inserted = 0
  BY DEF Init, HeapInit, Empty
<1>2. Rids = {}
  BY <1>1 DEF Rids, RIDs, Slots
<1>3. \A p \in PageIds : {r.slot : r \in rows[p]} = 0 .. (pages[p].n_slots - 1)
  BY <1>1
<1> QED BY <1>1, <1>2, <1>3, FS_EmptySet DEF RidInv

\* Which steps change the table, and how.
LEMMA TableSteps ==
  ASSUME [Next]_vars
  PROVE  \/ \E p \in PageIds, size \in Sizes : InsertTuple(p, size)
         \/ (\E size \in Sizes : InsertInvalid(size)) \/ EvictInvalid
         \/ \E p \in PageIds : ChangeRow(p)
         \/ UNCHANGED heapVars
<1>1. CASE UNCHANGED vars
  BY <1>1 DEF vars
<1>2. CASE LoseFrame \/ \E size \in Sizes : DirectInsert(size)
  BY <1>2 DEF DirectInsert, LoseFrame
<1>3. CASE \E p \in 0 .. (next_page_id - 1) : MarkPageHot(p) \/ MarkPageCold(p)
  BY <1>3 DEF MarkPageHot, MarkPageCold
<1>4. CASE \E kind \in {"merge", "join", "drain", "copy"}, days \in Days \cup {-1} : StartQuery(kind, days)
  BY <1>4 DEF StartQuery
<1>5. CASE QueryStep
  <2>1. CASE \E p \in PageIds, size \in Sizes : CopyRow(p, size)
    BY <2>1 DEF CopyRow
  <2>2. CASE MergeHotRow \/ MergeHotDone \/ MergeColdRow \/ MergeEnd
    BY <2>2 DEF MergeHotRow, MergeHotDone, MergeColdRow, MergeEnd, EndQuery
  <2>3. CASE JoinRow \/ JoinNextLeft \/ JoinEnd
    BY <2>3 DEF JoinRow, JoinNextLeft, JoinEnd, EndQuery
  <2>4. CASE DrainRow \/ DrainEnd \/ CopyFails \/ CopyEnd
    BY <2>4 DEF DrainRow, DrainEnd, CopyFails, CopyEnd, EndQuery
  <2> QED BY <1>5, <2>1, <2>2, <2>3, <2>4 DEF QueryStep
<1> QED BY <1>1, <1>2, <1>3, <1>4, <1>5 DEF Next

\* Every insert that returned true and the RID of a page has a slot of its own on
\* that page, whether or not the constructor got a page (table_heap.cpp:27-39,
\* 66-108), for every number of pages, slots and rows.
THEOREM EveryRowHasItsRid == Spec => []RowsHaveOwnRid
<1>1. RidInv /\ HeapInv /\ [Next]_vars => RidInv'
  BY TableSteps, InsertTupleRids, InvalidRids, ChangeRowRids, SameTableRids
<1>2. RidInv /\ HeapInv => RowsHaveOwnRid
  <2> SUFFICES ASSUME RidInv, HeapInv PROVE RowsHaveOwnRid
    OBVIOUS
  <2> DEFINE rids == UNION {{<<p, r.slot>> : r \in rows[p]} : p \in PageIds}
  <2>1. ASSUME NEW p \in PageIds
        PROVE  /\ pages[p].n_slots \in 0 .. MAX_SLOTS_PER_PAGE
               /\ {r.slot : r \in rows[p]} = {s \in Slots : s < pages[p].n_slots}
    <3>1. pages[p].n_slots \in 0 .. MAX_SLOTS_PER_PAGE
      BY DEF HeapInv, HeapTypeOK
    <3>2. 0 .. (pages[p].n_slots - 1) = {s \in Slots : s < pages[p].n_slots}
      BY <3>1, PageAssumption DEF Slots
    <3> QED BY <3>1, <3>2 DEF RidInv
  <2>2. rids \subseteq Rids
    <3> SUFFICES ASSUME NEW p \in PageIds, NEW r \in rows[p] PROVE <<p, r.slot>> \in Rids
      OBVIOUS
    <3>1. r.slot \in {q.slot : q \in rows[p]}
      OBVIOUS
    <3>2. r.slot \in Slots /\ r.slot < pages[p].n_slots
      BY <2>1, <3>1
    <3> QED BY <3>2 DEF Rids, RIDs
  <2>3. Rids \subseteq rids
    <3> SUFFICES ASSUME NEW rid \in Rids PROVE rid \in rids
      OBVIOUS
    <3>1. rid[1] \in PageIds /\ rid[2] \in Slots /\ rid[2] < pages[rid[1]].n_slots /\ rid = <<rid[1], rid[2]>>
      BY DEF Rids, RIDs
    <3>2. rid[2] \in {r.slot : r \in rows[rid[1]]}
      BY <2>1, <3>1
    <3> QED BY <3>1, <3>2
  <2>4. rids = Rids
    BY <2>2, <2>3
  <2> HIDE DEF rids
  <2>5. Cardinality(rids) = inserted
    BY <2>4 DEF RidInv
  <2> QED BY <2>4, <2>5 DEF RowsHaveOwnRid, rids, Rids
<1>3. Spec => []HeapInv
  BY ScanImplementsHeap, HeapInvariant, PTL
<1> QED BY InitRids, <1>1, <1>2, <1>3, PTL DEF Spec

-----------------------------------------------------------------------------
(* What a query returned *)

\* A scan stands on a slot, or behind the rows that there were at the start.
ScanPos(it, from, short) ==
    /\ it \in [slot : 0 .. MAX_SLOTS_PER_PAGE, is_end : BOOLEAN]
    /\ ~it.is_end => it.slot \in Slots
    /\ it.is_end /\ ~short => from <= it.slot

\* The rows below slot n, once each.
Passed(n) == [x \in Slots \X Slots |-> IF x[1] < n /\ x[2] = 0 THEN 1 ELSE 0]

\* The hot scan or the cold one returns the rows, by the mark of the page.
MergeInv ==
    /\ current \in {0, 1}
    /\ current = 0 => inner.slot = 0
    /\ current = 1 => outer.is_end
    /\ ~migrated => seen = Passed(IF IsPageHot THEN outer.slot ELSE inner.slot)

\* The left scan is one row ahead of the current one.
JoinInv ==
    /\ seen \in [Slots \X Slots -> {0, 1}]
    /\ current # -1 => current \in Slots /\ outer.slot = current + 1
    /\ current = -1 => outer.is_end
    /\ \A s, t \in Slots :
          /\ s >= outer.slot => seen[<<s, t>>] = 0
          /\ s = current => (seen[<<s, t>>] = 1 <=> t < inner.slot)
          /\ s < outer.slot /\ s # current /\ t < start /\ ~cut => seen[<<s, t>>] = 1

ScanInv ==
    /\ plan \in {"none", "merge", "join", "drain", "copy"}
    /\ hot_page_ids \subseteq 0 .. (next_page_id - 1)
    /\ start \in Nat /\ start <= SlotCount
    /\ migrated \in BOOLEAN /\ cut \in BOOLEAN
    /\ plan # "none" => ScanPos(outer, start, cut) /\ ScanPos(inner, start, cut)
    /\ plan = "copy" => seen = Passed(outer.slot)
    /\ plan = "drain" /\ ~migrated => seen = IF InLayer(target) THEN Passed(outer.slot) ELSE NothingSeen
    /\ plan = "merge" => MergeInv
    /\ plan = "join" => JoinInv

\* The first page never loses a slot, and its mark changes only by MarkPageHot
\* and MarkPageCold.
SlotsKept ==
    /\ SlotCount \in 0 .. MAX_SLOTS_PER_PAGE
    /\ SlotCount' \in 0 .. MAX_SLOTS_PER_PAGE
    /\ SlotCount <= SlotCount'
    /\ hot_page_ids' = hot_page_ids =>
          (IsPageHot' <=> IsPageHot) /\ hot_page_ids' \subseteq 0 .. (next_page_id' - 1)

\* What a step does to the first page.
LEMMA FirstPageStays ==
  ASSUME HeapInv, [Next]_vars
  PROVE  /\ next_page_id' >= next_page_id
         /\ \A p \in PageIds : pages'[p].n_slots >= pages[p].n_slots
         /\ first_page_id' = first_page_id \/ (first_page_id = -1 /\ first_page_id' = next_page_id)
<1>1. /\ next_page_id \in Nat /\ first_page_id \in PageIds \cup {-1}
      /\ \A p \in PageIds : pages[p].n_slots \in Nat
  BY DEF HeapInv, HeapTypeOK
<1>2. ASSUME NEW p \in PageIds, NEW size \in Sizes, InsertTuple(p, size)
      PROVE  /\ next_page_id' >= next_page_id
             /\ \A g \in PageIds : pages'[g].n_slots >= pages[g].n_slots
             /\ first_page_id' = first_page_id \/ (first_page_id = -1 /\ first_page_id' = next_page_id)
  <2>1. \A g \in PageIds : pages'[g].n_slots = IF g = p THEN pages[g].n_slots + 1 ELSE pages[g].n_slots
    BY <1>2 DEF HeapInv, HeapTypeOK, InsertTuple, WithRow
  <2>2. next_page_id' \in {next_page_id, next_page_id + 1}
    BY <1>2 DEF InsertTuple
  <2>3. first_page_id' = first_page_id \/ (first_page_id < 0 /\ first_page_id' = next_page_id)
    BY <1>2 DEF InsertTuple
  <2>4. first_page_id < 0 => first_page_id = -1
    BY <1>1 DEF PageIds
  <2> QED BY <1>1, <2>1, <2>2, <2>3, <2>4
<1>3. ASSUME (\E size \in Sizes : InsertInvalid(size)) \/ EvictInvalid \/ UNCHANGED heapVars
      PROVE  UNCHANGED <<pages, next_page_id, first_page_id>>
  BY <1>3 DEF InsertInvalid, EvictInvalid, heapVars
<1>4. ASSUME NEW p \in PageIds, ChangeRow(p)
      PROVE  /\ UNCHANGED <<next_page_id, first_page_id>>
             /\ \A g \in PageIds : pages'[g].n_slots = pages[g].n_slots
  <2>1. (\E size \in Sizes : UpdateTuple(p, size)) \/ DeleteTuple(p)
    BY <1>4 DEF ChangeRow
  <2>2. ASSUME NEW size \in Sizes, UpdateTuple(p, size)
        PROVE  /\ UNCHANGED <<next_page_id, first_page_id>>
               /\ \A g \in PageIds : pages'[g].n_slots = pages[g].n_slots
    BY <2>2 DEF UpdateTuple, HeapInv, HeapTypeOK
  <2> QED BY <2>1, <2>2 DEF DeleteTuple, heapVars
<1> QED BY <1>1, <1>2, <1>3, <1>4, TableSteps

LEMMA IntervalGrows == \A m, n \in Nat : n >= m => 0 .. (m - 1) \subseteq 0 .. (n - 1)
  OBVIOUS

LEMMA SlotsStay ==
  ASSUME HeapInv, HeapInv', hot_page_ids \subseteq 0 .. (next_page_id - 1), [Next]_vars
  PROVE  SlotsKept
<1>1. /\ first_page_id \in PageIds \cup {-1} /\ first_page_id' \in PageIds \cup {-1}
      /\ next_page_id \in Nat /\ next_page_id' \in Nat
      /\ \A p \in PageIds : /\ pages[p].n_slots \in 0 .. MAX_SLOTS_PER_PAGE
                             /\ pages'[p].n_slots \in 0 .. MAX_SLOTS_PER_PAGE
  BY DEF HeapInv, HeapTypeOK
<1>2. /\ next_page_id' >= next_page_id
      /\ \A p \in PageIds : pages'[p].n_slots >= pages[p].n_slots
      /\ first_page_id' = first_page_id \/ (first_page_id = -1 /\ first_page_id' = next_page_id)
  BY FirstPageStays
<1>3. /\ SlotCount = IF first_page_id < 0 THEN 0 ELSE pages[first_page_id].n_slots
      /\ SlotCount' = IF first_page_id' < 0 THEN 0 ELSE pages'[first_page_id'].n_slots
  BY DEF SlotCount
<1>4. first_page_id \notin PageIds => first_page_id < 0
  BY <1>1
<1>5. first_page_id' \notin PageIds => first_page_id' < 0
  BY <1>1
<1>6. SlotCount \in 0 .. MAX_SLOTS_PER_PAGE /\ SlotCount' \in 0 .. MAX_SLOTS_PER_PAGE
  BY <1>1, <1>3, <1>4, <1>5, PageAssumption
<1>7. SlotCount <= SlotCount'
  <2>1. CASE first_page_id < 0
    BY <1>3, <1>6, <2>1
  <2>2. CASE ~(first_page_id < 0)
    BY <1>1, <1>2, <1>3, <1>4, <2>2
  <2> QED BY <2>1, <2>2
<1>8. ASSUME hot_page_ids' = hot_page_ids
      PROVE  (IsPageHot' <=> IsPageHot) /\ hot_page_ids' \subseteq 0 .. (next_page_id' - 1)
  <2>1. 0 .. (next_page_id - 1) \subseteq 0 .. (next_page_id' - 1)
    <3>1. next_page_id \in Nat /\ next_page_id' \in Nat /\ next_page_id' >= next_page_id
      BY <1>1, <1>2
    <3> QED BY <3>1, IntervalGrows
  <2>2. -1 \notin hot_page_ids /\ next_page_id \notin hot_page_ids
    BY <1>1
  <2>3. IsPageHot' <=> IsPageHot
    BY <1>2, <1>8, <2>2 DEF IsPageHot
  <2> QED BY <1>8, <2>1, <2>3
<1> QED BY <1>6, <1>7, <1>8 DEF SlotsKept

\* A scan that advances returns the next row or has none left.
LEMMA ScanAdvances ==
  ASSUME SlotsKept, start \in Nat, start <= SlotCount, cut \in BOOLEAN,
         NEW it, ScanPos(it, start, cut), ~it.is_end, NEW n \in SlotCounts, Cuts(n)
  PROVE  /\ ScanPos(Advanced(it, n), start, cut')
         /\ Advanced(it, n).slot = it.slot + 1 /\ it.slot \in Slots
         /\ cut' \in BOOLEAN /\ (cut => cut')
<1>1. it.slot \in Slots /\ it.slot \in Nat /\ it.slot < MAX_SLOTS_PER_PAGE
  BY PageAssumption DEF ScanPos, Slots
<1>2. /\ n \in 0 .. MAX_SLOTS_PER_PAGE
      /\ cut' \in BOOLEAN /\ (cut => cut') /\ (~cut' => start <= n)
  <2>1. n \in 0 .. MAX_SLOTS_PER_PAGE
    BY PageAssumption DEF SlotCounts, SlotsKept
  <2>2. cut' = (cut \/ n # SlotCount)
    BY DEF Cuts
  <2>3. cut' \in BOOLEAN /\ (cut => cut') /\ (~cut' => n = SlotCount)
    BY <2>2, Zenon
  <2> QED BY <2>1, <2>3
<1>3. /\ Advanced(it, n) = [slot |-> it.slot + 1, is_end |-> it.slot + 1 >= n]
      /\ Advanced(it, n).slot = it.slot + 1
      /\ Advanced(it, n).is_end <=> it.slot + 1 >= n
  BY DEF Advanced
<1>4. Advanced(it, n) \in [slot : 0 .. MAX_SLOTS_PER_PAGE, is_end : BOOLEAN]
  BY <1>1, <1>2, <1>3, PageAssumption
<1>5. /\ ~Advanced(it, n).is_end => it.slot + 1 \in Slots
      /\ Advanced(it, n).is_end /\ ~cut' => start <= it.slot + 1
  <2>1. CASE it.slot + 1 >= n
    <3>1. Advanced(it, n).is_end
      BY <1>3, <2>1
    <3>2. ~cut' => start <= it.slot + 1
      BY <1>1, <1>2, <2>1
    <3> QED BY <3>1, <3>2
  <2>2. CASE ~(it.slot + 1 >= n)
    <3>1. ~Advanced(it, n).is_end
      BY <1>3, <2>2
    <3>2. it.slot + 1 \in Slots
      BY <1>1, <1>2, <2>2, PageAssumption DEF Slots
    <3> QED BY <3>1, <3>2
  <2> QED BY <2>1, <2>2
<1> QED BY <1>1, <1>2, <1>3, <1>4, <1>5 DEF ScanPos

LEMMA ScanKeeps ==
  ASSUME NEW it, ScanPos(it, start, cut), cut \in BOOLEAN, cut' \in BOOLEAN, cut => cut'
  PROVE  ScanPos(it, start, cut')
  BY DEF ScanPos

LEMMA OuterRow ==
  ASSUME SlotsKept, ScanInv, plan # "none", ~outer.is_end, OuterAdvances, start' = start
  PROVE  /\ ScanPos(outer', start', cut') /\ ScanPos(inner, start', cut')
         /\ outer'.slot = outer.slot + 1 /\ outer.slot \in Slots
         /\ cut' \in BOOLEAN /\ (cut => cut')
         /\ start' \in Nat /\ start' <= SlotCount'
<1>1. PICK n \in SlotCounts : outer' = Advanced(outer, n) /\ Cuts(n)
  BY DEF OuterAdvances
<1>2. /\ ScanPos(outer, start, cut) /\ ScanPos(inner, start, cut) /\ cut \in BOOLEAN
      /\ start \in Nat /\ start <= SlotCount
  BY DEF ScanInv
<1>3. /\ ScanPos(outer', start, cut') /\ outer'.slot = outer.slot + 1 /\ outer.slot \in Slots
      /\ cut' \in BOOLEAN /\ (cut => cut')
  BY <1>1, <1>2, ScanAdvances
<1>4. ScanPos(inner, start, cut')
  BY <1>2, <1>3, ScanKeeps
<1>5. start' <= SlotCount'
  BY <1>2 DEF SlotsKept
<1> QED BY <1>2, <1>3, <1>4, <1>5

LEMMA InnerRow ==
  ASSUME SlotsKept, ScanInv, plan # "none", ~inner.is_end, InnerAdvances, start' = start
  PROVE  /\ ScanPos(inner', start', cut') /\ ScanPos(outer, start', cut')
         /\ inner'.slot = inner.slot + 1 /\ inner.slot \in Slots
         /\ cut' \in BOOLEAN /\ (cut => cut')
         /\ start' \in Nat /\ start' <= SlotCount'
<1>1. PICK n \in SlotCounts : inner' = Advanced(inner, n) /\ Cuts(n)
  BY DEF InnerAdvances
<1>2. /\ ScanPos(outer, start, cut) /\ ScanPos(inner, start, cut) /\ cut \in BOOLEAN
      /\ start \in Nat /\ start <= SlotCount
  BY DEF ScanInv
<1>3. /\ ScanPos(inner', start, cut') /\ inner'.slot = inner.slot + 1 /\ inner.slot \in Slots
      /\ cut' \in BOOLEAN /\ (cut => cut')
  BY <1>1, <1>2, ScanAdvances
<1>4. ScanPos(outer, start, cut')
  BY <1>2, <1>3, ScanKeeps
<1>5. start' <= SlotCount'
  BY <1>2 DEF SlotsKept
<1> QED BY <1>2, <1>3, <1>4, <1>5

\* The row at the scan's slot is the one that is missing.
LEMMA PassedOneMore ==
  ASSUME NEW s \in Slots
  PROVE  [Passed(s) EXCEPT ![<<s, 0>>] = @ + 1] = Passed(s + 1)
<1>1. <<s, 0>> \in Slots \X Slots
  BY PageAssumption DEF Slots
<1>2. ASSUME NEW x \in Slots \X Slots
      PROVE  [Passed(s) EXCEPT ![<<s, 0>>] = @ + 1][x] = Passed(s + 1)[x]
  <2>1. x = <<x[1], x[2]>> /\ x[1] \in Nat /\ x[2] \in Nat /\ s \in Nat
    BY DEF Slots
  <2>2. CASE x = <<s, 0>>
    <3>1. x[1] = s /\ x[2] = 0
      BY <2>2
    <3>2. Passed(s)[x] = 0 /\ Passed(s + 1)[x] = 1
      BY <2>1, <3>1 DEF Passed
    <3> QED BY <1>1, <2>2, <3>2 DEF Passed
  <2>3. CASE x # <<s, 0>>
    <3>1. x[1] # s \/ x[2] # 0
      BY <2>1, <2>3
    <3>2. Passed(s)[x] = Passed(s + 1)[x]
      BY <2>1, <3>1 DEF Passed
    <3> QED BY <2>3, <3>2 DEF Passed
  <2> QED BY <2>2, <2>3
<1>3. /\ DOMAIN [Passed(s) EXCEPT ![<<s, 0>>] = @ + 1] = Slots \X Slots
      /\ DOMAIN Passed(s + 1) = Slots \X Slots
  BY DEF Passed
<1>4. [Passed(s) EXCEPT ![<<s, 0>>] = @ + 1] = [x \in Slots \X Slots |-> Passed(s + 1)[x]]
  BY <1>2 DEF Passed
<1>5. Passed(s + 1) = [x \in Slots \X Slots |-> Passed(s + 1)[x]]
  BY DEF Passed
<1> QED BY <1>4, <1>5

LEMMA NonePassed == Passed(0) = NothingSeen
<1>1. \A x \in Slots \X Slots : ~(x[1] < 0)
  BY DEF Slots
<1> QED BY <1>1 DEF Passed, NothingSeen

LEMMA CopyRowScans ==
  ASSUME SlotsKept, ScanInv, NEW p \in PageIds, NEW size \in Sizes, CopyRow(p, size)
  PROVE  ScanInv'
<1>1. /\ plan = "copy" /\ plan' = plan /\ ~outer.is_end /\ OuterAdvances /\ start' = start
      /\ migrated' = migrated /\ inner' = inner /\ Returned(<<outer.slot, 0>>)
      /\ hot_page_ids' \subseteq 0 .. (next_page_id' - 1)
  BY DEF CopyRow, SlotsKept
<1>2. /\ ScanPos(outer', start', cut') /\ ScanPos(inner', start', cut')
      /\ outer'.slot = outer.slot + 1 /\ outer.slot \in Slots
      /\ cut' \in BOOLEAN
      /\ start' \in Nat /\ start' <= SlotCount'
  BY <1>1, OuterRow
<1>3. seen = Passed(outer.slot)
  BY <1>1 DEF ScanInv
<1>4. seen' = Passed(outer.slot + 1)
  BY <1>1, <1>2, <1>3, PassedOneMore DEF Returned
<1> QED BY <1>1, <1>2, <1>4 DEF ScanInv

LEMMA DrainRowScans ==
  ASSUME SlotsKept, ScanInv, DrainRow
  PROVE  ScanInv'
<1>1. /\ plan = "drain" /\ plan' = plan /\ ~outer.is_end /\ OuterAdvances /\ start' = start
      /\ migrated' = migrated /\ inner' = inner /\ (InLayer(target) <=> InLayer(target)')
      /\ IF InLayer(target) THEN Returned(<<outer.slot, 0>>) ELSE UNCHANGED seen
      /\ hot_page_ids' \subseteq 0 .. (next_page_id' - 1)
  BY DEF DrainRow, InLayer, IsPageHot, heapVars, ScanInv
<1>2. /\ ScanPos(outer', start', cut') /\ ScanPos(inner', start', cut')
      /\ outer'.slot = outer.slot + 1 /\ outer.slot \in Slots
      /\ cut' \in BOOLEAN
      /\ start' \in Nat /\ start' <= SlotCount'
  BY <1>1, OuterRow
<1>3. ASSUME ~migrated
      PROVE  seen' = IF InLayer(target) THEN Passed(outer.slot + 1) ELSE NothingSeen
  <2>1. seen = IF InLayer(target) THEN Passed(outer.slot) ELSE NothingSeen
    BY <1>1, <1>3 DEF ScanInv
  <2>2. CASE InLayer(target)
    BY <1>1, <1>2, <2>1, <2>2, PassedOneMore DEF Returned
  <2>3. CASE ~InLayer(target)
    BY <1>1, <2>1, <2>3
  <2> QED BY <2>2, <2>3
<1>4. ~migrated' => seen' = IF InLayer(target)' THEN Passed(outer'.slot) ELSE NothingSeen
  BY <1>1, <1>2, <1>3
<1> HIDE DEF ScanPos
<1> QED BY <1>1, <1>2, <1>4 DEF ScanInv

LEMMA MergeRowScans ==
  ASSUME SlotsKept, ScanInv, MergeHotRow \/ MergeColdRow
  PROVE  ScanInv'
<1>0. /\ plan = "merge" /\ plan' = plan /\ start' = start /\ migrated' = migrated /\ current' = current
      /\ IsPageHot' = IsPageHot /\ MergeInv /\ hot_page_ids' \subseteq 0 .. (next_page_id' - 1)
  BY DEF MergeHotRow, MergeColdRow, IsPageHot, heapVars, ScanInv
<1>1. CASE MergeHotRow
  <2>1. /\ ~outer.is_end /\ OuterAdvances /\ inner' = inner /\ current = 0 /\ inner.slot = 0
        /\ IF IsPageHot THEN Returned(<<outer.slot, 0>>) ELSE UNCHANGED seen
    BY <1>0, <1>1 DEF MergeHotRow, InLayer, MergeInv, IsPageHot
  <2>2. /\ ScanPos(outer', start', cut') /\ ScanPos(inner', start', cut')
        /\ outer'.slot = outer.slot + 1 /\ outer.slot \in Slots
        /\ cut' \in BOOLEAN
        /\ start' \in Nat /\ start' <= SlotCount'
    BY <1>0, <2>1, OuterRow
  <2>3. ASSUME ~migrated
        PROVE  seen' = Passed(IF IsPageHot THEN outer'.slot ELSE inner'.slot)
    <3>1. seen = Passed(IF IsPageHot THEN outer.slot ELSE inner.slot)
      BY <1>0, <2>3 DEF MergeInv
    <3>2. CASE IsPageHot
      BY <2>1, <2>2, <3>1, <3>2, PassedOneMore DEF Returned
    <3>3. CASE ~IsPageHot
      BY <2>1, <3>1, <3>3
    <3> QED BY <3>2, <3>3
  <2>4. MergeInv'
    BY <1>0, <2>1, <2>3 DEF MergeInv
  <2> QED BY <1>0, <2>2, <2>4 DEF ScanInv
<1>2. CASE MergeColdRow
  <2>1. /\ ~inner.is_end /\ InnerAdvances /\ outer' = outer /\ current = 1 /\ outer.is_end
        /\ IF ~IsPageHot THEN Returned(<<inner.slot, 0>>) ELSE UNCHANGED seen
    BY <1>0, <1>2 DEF MergeColdRow, InLayer, MergeInv, IsPageHot
  <2>2. /\ ScanPos(outer', start', cut') /\ ScanPos(inner', start', cut')
        /\ inner'.slot = inner.slot + 1 /\ inner.slot \in Slots
        /\ cut' \in BOOLEAN
        /\ start' \in Nat /\ start' <= SlotCount'
    BY <1>0, <2>1, InnerRow
  <2>3. ASSUME ~migrated
        PROVE  seen' = Passed(IF IsPageHot THEN outer'.slot ELSE inner'.slot)
    <3>1. seen = Passed(IF IsPageHot THEN outer.slot ELSE inner.slot)
      BY <1>0, <2>3 DEF MergeInv
    <3>2. CASE ~IsPageHot
      BY <2>1, <2>2, <3>1, <3>2, PassedOneMore DEF Returned
    <3>3. CASE IsPageHot
      BY <2>1, <3>1, <3>3
    <3> QED BY <3>2, <3>3
  <2>4. MergeInv'
    BY <1>0, <2>1, <2>3 DEF MergeInv
  <2> QED BY <1>0, <2>2, <2>4 DEF ScanInv
<1> QED BY <1>1, <1>2

LEMMA MergeHotDoneScans ==
  ASSUME SlotsKept, ScanInv, MergeHotDone
  PROVE  ScanInv'
<1>1. /\ plan = "merge" /\ plan' = plan /\ start' = start /\ migrated' = migrated /\ cut' = cut
      /\ current' = 1 /\ outer.is_end /\ outer' = outer /\ inner' = inner /\ seen' = seen
      /\ IsPageHot' = IsPageHot /\ MergeInv /\ hot_page_ids' \subseteq 0 .. (next_page_id' - 1)
  BY DEF MergeHotDone, IsPageHot, heapVars, ScanInv
<1>2. MergeInv'
  BY <1>1 DEF MergeInv
<1>3. start' <= SlotCount'
  BY <1>1 DEF ScanInv, SlotsKept
<1> QED BY <1>1, <1>2, <1>3 DEF ScanInv

LEMMA JoinRowScans ==
  ASSUME SlotsKept, ScanInv, JoinRow
  PROVE  ScanInv'
<1>1. /\ plan = "join" /\ plan' = plan /\ start' = start /\ migrated' = migrated
      /\ current # -1 /\ current' = current /\ outer' = outer
      /\ ~inner.is_end /\ InnerAdvances /\ Returned(<<current, inner.slot>>) /\ JoinInv
      /\ hot_page_ids' \subseteq 0 .. (next_page_id' - 1)
  BY DEF JoinRow, heapVars, ScanInv
<1>2. /\ ScanPos(outer', start', cut') /\ ScanPos(inner', start', cut')
      /\ inner'.slot = inner.slot + 1 /\ inner.slot \in Slots
      /\ cut' \in BOOLEAN /\ (cut => cut')
      /\ start' \in Nat /\ start' <= SlotCount'
  BY <1>1, InnerRow
<1>3. current \in Slots /\ outer.slot = current + 1 /\ seen \in [Slots \X Slots -> {0, 1}]
  BY <1>1 DEF JoinInv
<1>4. ASSUME NEW s \in Slots, NEW t \in Slots
      PROVE  seen'[<<s, t>>] = IF s = current /\ t = inner.slot THEN 1 ELSE seen[<<s, t>>]
  <2>1. <<s, t>> = <<current, inner.slot>> <=> s = current /\ t = inner.slot
    OBVIOUS
  <2>2. seen'[<<s, t>>] = IF <<s, t>> = <<current, inner.slot>> THEN seen[<<s, t>>] + 1 ELSE seen[<<s, t>>]
    BY <1>1, <1>2, <1>3 DEF Returned
  <2>3. CASE s = current /\ t = inner.slot
    <3>1. seen[<<s, t>>] # 1 /\ seen[<<s, t>>] \in {0, 1}
      BY <1>1, <1>3, <2>3 DEF JoinInv, Slots
    <3> QED BY <2>1, <2>2, <2>3, <3>1
  <2>4. CASE ~(s = current /\ t = inner.slot)
    BY <2>1, <2>2, <2>4
  <2> QED BY <2>3, <2>4
<1>5. seen' \in [Slots \X Slots -> {0, 1}]
  <2>1. seen' = [seen EXCEPT ![<<current, inner.slot>>] = seen[<<current, inner.slot>>] + 1]
    BY <1>1 DEF Returned
  <2>2. seen[<<current, inner.slot>>] = 0
    BY <1>1, <1>2, <1>3 DEF JoinInv, Slots
  <2> QED BY <1>2, <1>3, <2>1, <2>2
<1>6. ASSUME NEW s \in Slots, NEW t \in Slots
      PROVE  /\ s >= outer'.slot => seen'[<<s, t>>] = 0
             /\ s = current' => (seen'[<<s, t>>] = 1 <=> t < inner'.slot)
             /\ s < outer'.slot /\ s # current' /\ t < start' /\ ~cut' => seen'[<<s, t>>] = 1
  <2>1. /\ s >= outer.slot => seen[<<s, t>>] = 0
        /\ s = current => (seen[<<s, t>>] = 1 <=> t < inner.slot)
        /\ s < outer.slot /\ s # current /\ t < start /\ ~cut => seen[<<s, t>>] = 1
    BY <1>1 DEF JoinInv
  <2>2. s \in Nat /\ t \in Nat /\ current \in Nat /\ inner.slot \in Nat
    BY <1>2, <1>3 DEF Slots
  <2>3. s >= outer'.slot => seen'[<<s, t>>] = 0
    BY <1>1, <1>3, <1>4, <2>1, <2>2
  <2>4. ASSUME s = current PROVE seen'[<<s, t>>] = 1 <=> t < inner'.slot
    <3>1. CASE t = inner.slot
      BY <1>2, <1>4, <2>2, <2>4, <3>1
    <3>2. CASE t # inner.slot
      <4>1. t < inner'.slot <=> t < inner.slot
        BY <1>2, <2>2, <3>2
      <4> QED BY <1>4, <2>1, <2>4, <3>2, <4>1
    <3> QED BY <3>1, <3>2
  <2>5. s < outer'.slot /\ s # current' /\ t < start' /\ ~cut' => seen'[<<s, t>>] = 1
    BY <1>1, <1>2, <1>4, <2>1
  <2> QED BY <1>1, <2>3, <2>4, <2>5
<1>7. JoinInv'
  BY <1>1, <1>3, <1>5, <1>6 DEF JoinInv
<1> QED BY <1>1, <1>2, <1>7 DEF ScanInv

LEMMA ScanBegins ==
  ASSUME SlotsKept, NEW from \in Nat, from <= SlotCount, NEW short
  PROVE  /\ ScanPos(Begin, from, short)
         /\ Begin.slot = 0 /\ (Begin.is_end <=> first_page_id < 0) /\ 0 \in Slots
<1>1. Begin = [slot |-> 0, is_end |-> first_page_id < 0] /\ Begin.slot = 0 /\ (Begin.is_end <=> first_page_id < 0)
  BY DEF Begin
<1>2. 0 \in Slots /\ 0 \in 0 .. MAX_SLOTS_PER_PAGE
  BY PageAssumption DEF Slots
<1>3. first_page_id < 0 => from <= 0
  BY DEF SlotCount
<1> QED BY <1>1, <1>2, <1>3 DEF ScanPos

\* The right scan ended, so the current left row is done.
LEMMA JoinNextLeftScans ==
  ASSUME SlotsKept, ScanInv, JoinNextLeft
  PROVE  ScanInv'
<1>1. /\ plan = "join" /\ plan' = plan /\ start' = start /\ migrated' = migrated
      /\ current # -1 /\ seen' = seen /\ inner' = Begin /\ inner.is_end /\ JoinInv
      /\ IF outer.is_end THEN current' = -1 /\ UNCHANGED <<outer, cut>>
                         ELSE current' = outer.slot /\ OuterAdvances
      /\ hot_page_ids' \subseteq 0 .. (next_page_id' - 1)
  BY DEF JoinNextLeft, heapVars, ScanInv
<1>2. /\ current \in Slots /\ current \in Nat /\ outer.slot = current + 1 /\ seen \in [Slots \X Slots -> {0, 1}]
      /\ ScanPos(outer, start, cut) /\ ScanPos(inner, start, cut) /\ cut \in BOOLEAN
      /\ start \in Nat /\ start <= SlotCount
  BY <1>1 DEF JoinInv, ScanInv, Slots
<1>3. ScanPos(inner', start', cut') /\ inner'.slot = 0
  BY <1>1, <1>2, ScanBegins
<1>4. start' \in Nat /\ start' <= SlotCount'
  BY <1>1, <1>2 DEF SlotsKept
<1>5. ASSUME NEW s \in Slots, NEW t \in Slots
      PROVE  /\ s >= outer.slot => seen[<<s, t>>] = 0
             /\ s < outer.slot /\ t < start /\ ~cut => seen[<<s, t>>] = 1
  <2>1. /\ s >= outer.slot => seen[<<s, t>>] = 0
        /\ s = current => (seen[<<s, t>>] = 1 <=> t < inner.slot)
        /\ s < outer.slot /\ s # current /\ t < start /\ ~cut => seen[<<s, t>>] = 1
    BY <1>1 DEF JoinInv
  <2>2. ~cut => start <= inner.slot /\ inner.slot \in Nat
    BY <1>1, <1>2 DEF ScanPos
  <2>3. t \in Nat
    BY DEF Slots
  <2> QED BY <1>2, <2>1, <2>2, <2>3
<1>6. CASE outer.is_end
  <2>1. current' = -1 /\ outer' = outer /\ cut' = cut
    BY <1>1, <1>6
  <2>2. \A s \in Slots : s # -1
    BY DEF Slots
  <2>3. JoinInv'
    BY <1>1, <1>2, <1>3, <1>5, <1>6, <2>1, <2>2 DEF JoinInv
  <2> QED BY <1>1, <1>2, <1>3, <1>4, <2>1, <2>3 DEF ScanInv
<1>7. CASE ~outer.is_end
  <2>1. /\ ScanPos(outer', start', cut') /\ outer'.slot = outer.slot + 1 /\ outer.slot \in Slots
        /\ cut' \in BOOLEAN /\ (cut => cut') /\ current' = outer.slot
    BY <1>1, <1>7, OuterRow
  <2>2. ASSUME NEW s \in Slots, NEW t \in Slots
        PROVE  /\ s >= outer'.slot => seen'[<<s, t>>] = 0
               /\ s = current' => (seen'[<<s, t>>] = 1 <=> t < inner'.slot)
               /\ s < outer'.slot /\ s # current' /\ t < start' /\ ~cut' => seen'[<<s, t>>] = 1
    <3>1. s \in Nat /\ t \in Nat /\ outer.slot \in Nat
      BY <2>1 DEF Slots
    <3>2. s >= outer'.slot => seen'[<<s, t>>] = 0
      BY <1>1, <1>5, <2>1, <3>1
    <3>3. s = current' => (seen'[<<s, t>>] = 1 <=> t < inner'.slot)
      BY <1>1, <1>3, <1>5, <2>1, <3>1
    <3>4. s < outer'.slot /\ s # current' /\ t < start' /\ ~cut' => seen'[<<s, t>>] = 1
      BY <1>1, <1>5, <2>1, <3>1
    <3> QED BY <3>2, <3>3, <3>4
  <2>3. JoinInv'
    <3>1. current' # -1
      BY <2>1 DEF Slots
    <3> QED BY <1>1, <1>2, <2>1, <2>2, <3>1 DEF JoinInv
  <2> QED BY <1>1, <1>3, <1>4, <2>1, <2>3 DEF ScanInv
<1> QED BY <1>6, <1>7

LEMMA StartQueryScans ==
  ASSUME SlotsKept, NEW kind \in {"merge", "join", "drain", "copy"}, NEW days, StartQuery(kind, days)
  PROVE  ScanInv'
<1>1. /\ plan' = kind /\ inner' = Begin /\ seen' = NothingSeen /\ migrated' = FALSE
      /\ current' = IF kind = "join" /\ Begin.is_end THEN -1 ELSE 0
      /\ start' = SlotCount
      /\ hot_page_ids' \subseteq 0 .. (next_page_id' - 1)
  BY DEF StartQuery, SlotsKept
<1>2. PICK n \in SlotCounts : /\ outer' = IF kind = "join" /\ ~Begin.is_end THEN Advanced(Begin, n) ELSE Begin
                              /\ cut' = (kind = "join" /\ n # SlotCount)
  BY DEF StartQuery
<1>3. /\ start' \in Nat /\ start' <= SlotCount' /\ start' \in 0 .. MAX_SLOTS_PER_PAGE
      /\ n \in 0 .. MAX_SLOTS_PER_PAGE
  BY <1>1, PageAssumption DEF SlotsKept, SlotCounts
<1>4. ScanPos(Begin, start', cut') /\ Begin.slot = 0 /\ 0 \in Slots
  BY <1>1, <1>3, ScanBegins
<1>5. cut' \in BOOLEAN
  BY <1>2, Zenon
<1>6. NothingSeen = Passed(0)
  BY NonePassed
<1>7. CASE kind # "join"
  <2>1. outer' = Begin /\ current' = 0
    BY <1>1, <1>2, <1>7
  <2>2. kind = "merge" => MergeInv'
    BY <1>1, <1>4, <1>6, <2>1 DEF MergeInv
  <2> QED BY <1>1, <1>3, <1>4, <1>5, <1>6, <1>7, <2>1, <2>2 DEF ScanInv
<1>8. CASE kind = "join"
  <2>1. seen' \in [Slots \X Slots -> {0, 1}] /\ \A s, t \in Slots : seen'[<<s, t>>] = 0
    BY <1>1 DEF NothingSeen
  <2>2. \A s \in Slots : s \in Nat
    BY DEF Slots
  <2>3. CASE Begin.is_end
    <3>1. outer' = Begin /\ current' = -1
      BY <1>1, <1>2, <1>8, <2>3
    <3>2. JoinInv'
      BY <1>1, <1>4, <2>1, <2>2, <2>3, <3>1 DEF JoinInv
    <3> QED BY <1>1, <1>3, <1>4, <1>5, <1>8, <3>1, <3>2 DEF ScanInv
  <2>4. CASE ~Begin.is_end
    <3>1. outer' = Advanced(Begin, n) /\ (~cut' => n = start') /\ current' = 0
      BY <1>1, <1>2, <1>8, <2>4
    <3>2. /\ Advanced(Begin, n) = [slot |-> 1, is_end |-> 1 >= n]
          /\ Advanced(Begin, n).slot = 1
          /\ Advanced(Begin, n).is_end <=> 1 >= n
      <4>1. Begin.slot + 1 = 1
        BY <1>4
      <4>2. Advanced(Begin, n) = [slot |-> 1, is_end |-> 1 >= n]
        BY <4>1 DEF Advanced
      <4>3. Advanced(Begin, n).slot = 1 /\ (Advanced(Begin, n).is_end <=> 1 >= n)
        BY <4>1 DEF Advanced
      <4> QED BY <4>2, <4>3
    <3>3. outer' \in [slot : 0 .. MAX_SLOTS_PER_PAGE, is_end : BOOLEAN]
      BY <3>1, <3>2, PageAssumption
    <3>4. ~outer'.is_end => outer'.slot \in Slots
      BY <1>3, <3>1, <3>2, PageAssumption DEF Slots
    <3>5. outer'.is_end /\ ~cut' => start' <= outer'.slot
      BY <1>3, <3>1, <3>2
    <3>6. ScanPos(outer', start', cut')
      BY <3>3, <3>4, <3>5 DEF ScanPos
    <3>7. JoinInv'
      BY <1>1, <1>4, <2>1, <2>2, <3>1, <3>2 DEF JoinInv
    <3> QED BY <1>1, <1>3, <1>4, <1>5, <1>8, <3>6, <3>7 DEF ScanInv
  <2> QED BY <2>3, <2>4
<1> QED BY <1>7, <1>8

LEMMA EndQueryScans ==
  ASSUME SlotsKept, EndQuery
  PROVE  ScanInv'
<1>1. /\ plan' = "none" /\ start' = 0 /\ migrated' = FALSE /\ cut' = FALSE
      /\ hot_page_ids' \subseteq 0 .. (next_page_id' - 1)
  BY DEF EndQuery, SlotsKept
<1>2. start' \in Nat /\ start' <= SlotCount'
  BY <1>1, PageAssumption DEF SlotsKept
<1> QED BY <1>1, <1>2 DEF ScanInv

LEMMA MarkScans ==
  ASSUME SlotsKept, ScanInv, NEW p \in 0 .. (next_page_id - 1), MarkPageHot(p) \/ MarkPageCold(p)
  PROVE  ScanInv'
<1>0. hot_page_ids' \subseteq 0 .. (next_page_id' - 1)
  BY DEF MarkPageHot, MarkPageCold, heapVars, ScanInv
<1>1. /\ plan' = plan /\ scanVars' = scanVars /\ start' = start /\ cut' = cut
      /\ migrated' = (plan # "none")
  BY DEF MarkPageHot, MarkPageCold
<1>2. migrated' \in BOOLEAN /\ (plan' # "none" => migrated')
  BY <1>1, Zenon
<1>3. start' <= SlotCount'
  BY <1>1 DEF ScanInv, SlotsKept
<1>4. MergeInv => (plan # "none" => MergeInv')
  BY <1>1, <1>2 DEF MergeInv, scanVars
<1>5. JoinInv => JoinInv'
  BY <1>1 DEF JoinInv, scanVars
<1> QED BY <1>0, <1>1, <1>2, <1>3, <1>4, <1>5 DEF ScanInv, scanVars

LEMMA OtherScans ==
  ASSUME SlotsKept, ScanInv, UNCHANGED <<hot_page_ids, plan, scanVars, start, migrated, cut>>
  PROVE  ScanInv'
<1>1. start' <= SlotCount'
  BY DEF ScanInv, SlotsKept
<1>0. (IsPageHot' <=> IsPageHot) /\ hot_page_ids' \subseteq 0 .. (next_page_id' - 1)
  BY DEF SlotsKept
<1>2. MergeInv => MergeInv'
  BY <1>0 DEF MergeInv, scanVars
<1>3. JoinInv => JoinInv'
  BY DEF JoinInv, scanVars
<1>4. InLayer(target)' <=> InLayer(target)
  <2>1. IsPageHot' = IsPageHot /\ target' = target
    BY <1>0 DEF IsPageHot, scanVars
  <2> QED BY <2>1 DEF InLayer
<1> QED BY <1>0, <1>1, <1>2, <1>3, <1>4 DEF ScanInv, scanVars

LEMMA ScanStep ==
  ASSUME HeapInv, HeapInv', ScanInv, [Next]_vars
  PROVE  ScanInv'
<1>0. SlotsKept
  BY SlotsStay DEF ScanInv
<1>1. CASE UNCHANGED vars
  BY <1>0, <1>1, OtherScans DEF vars
<1>2. CASE LoseFrame \/ \E size \in Sizes : DirectInsert(size)
  BY <1>0, <1>2, OtherScans DEF DirectInsert, LoseFrame
<1>3. CASE \E p \in PageIds : ChangeRow(p)
  BY <1>0, <1>3, OtherScans DEF ChangeRow
<1>4. CASE \E p \in 0 .. (next_page_id - 1) : MarkPageHot(p) \/ MarkPageCold(p)
  BY <1>0, <1>4, MarkScans
<1>5. CASE \E kind \in {"merge", "join", "drain", "copy"}, days \in Days \cup {-1} : StartQuery(kind, days)
  BY <1>0, <1>5, StartQueryScans
<1>6. CASE QueryStep
  <2>1. CASE MergeHotRow \/ MergeColdRow \/ MergeHotDone \/ JoinRow \/ JoinNextLeft \/ DrainRow
    BY <1>0, <2>1, MergeRowScans, MergeHotDoneScans, JoinRowScans, JoinNextLeftScans, DrainRowScans
  <2>2. CASE \E p \in PageIds, size \in Sizes : CopyRow(p, size)
    BY <1>0, <2>2, CopyRowScans
  <2>3. CASE MergeEnd \/ JoinEnd \/ DrainEnd \/ CopyFails \/ CopyEnd
    BY <1>0, <2>3, EndQueryScans DEF MergeEnd, JoinEnd, DrainEnd, CopyFails, CopyEnd
  <2> QED BY <1>6, <2>1, <2>2, <2>3 DEF QueryStep
<1> QED BY <1>1, <1>2, <1>3, <1>4, <1>5, <1>6 DEF Next

LEMMA InitScans == Init /\ HeapInv => ScanInv
<1> SUFFICES ASSUME Init, HeapInv PROVE ScanInv
  OBVIOUS
<1>1. first_page_id \in PageIds \cup {-1}
  BY DEF HeapInv, HeapTypeOK
<1>2. start = 0 /\ SlotCount \in Nat
  <2>1. first_page_id \in PageIds => pages[first_page_id].n_slots \in Nat
    BY DEF HeapInv, HeapTypeOK
  <2> QED BY <1>1, <2>1 DEF Init, SlotCount
<1>3. plan = "none" /\ migrated = FALSE /\ cut = FALSE /\ hot_page_ids \subseteq 0 .. (next_page_id - 1)
  BY DEF Init
<1>4. start \in Nat /\ start <= SlotCount
  BY <1>2
<1>5. migrated \in BOOLEAN /\ cut \in BOOLEAN
  BY <1>3
<1> QED BY <1>3, <1>4, <1>5 DEF ScanInv

\* What the scans of the running query have passed, and returned.
THEOREM ScanInvariant == Spec => [](HeapInv /\ ScanInv)
<1>1. Spec => []HeapInv
  BY ScanImplementsHeap, HeapInvariant, PTL
<1> QED BY InitScans, ScanStep, <1>1, PTL DEF Spec

\* No executor returns a row, or a pair of rows, twice, whatever is inserted under
\* its scans, as long as no page changes its layer (SeqScanExecutor.cpp:33-46,
\* MergeExecutor.cpp:30-44, JoinExecutor.cpp:22-43).
THEOREM NoRowTwice == Spec => []RowsOnce
<1>1. ScanInv => RowsOnce
  <2> SUFFICES ASSUME ScanInv, plan # "none", ~migrated, NEW x \in Slots \X Slots PROVE seen[x] <= 1
    BY DEF RowsOnce
  <2>1. \A n : Passed(n)[x] <= 1
    BY DEF Passed
  <2>2. NothingSeen[x] <= 1
    BY DEF NothingSeen
  <2>3. CASE plan = "join"
    <3>1. seen \in [Slots \X Slots -> {0, 1}]
      BY <2>3 DEF ScanInv, JoinInv
    <3>2. seen[x] \in {0, 1}
      BY <3>1
    <3> QED BY <3>2
  <2>4. CASE plan # "join"
    <3>1. seen = NothingSeen \/ \E n : seen = Passed(n)
      BY <2>4 DEF ScanInv, MergeInv
    <3> QED BY <2>1, <2>2, <3>1
  <2> QED BY <2>3, <2>4
<1> QED BY ScanInvariant, <1>1, PTL

\* README.txt:558 "result sets are complete": a query that ends returned every row
\* that was there when it began, once, and of the other layer none
\* (SeqScanExecutor.cpp:38-42, MergeExecutor.cpp:30-44, JoinExecutor.cpp:22-43).
THEOREM ResultsAreComplete == Spec => QueryComplete
<1> DEFINE Complete ==
       /\ (MergeEnd \/ CopyEnd) /\ ~migrated /\ ~cut =>
             \A s \in Slots : s < start => seen[<<s, 0>>] = 1
       /\ DrainEnd /\ ~migrated /\ ~cut =>
             \A s \in Slots : s < start => seen[<<s, 0>>] = IF InLayer(target) THEN 1 ELSE 0
       /\ JoinEnd /\ ~cut => \A s, t \in Slots : s < start /\ t < start => seen[<<s, t>>] = 1
<1>1. ScanInv => Complete
  <2> SUFFICES ASSUME ScanInv PROVE Complete
    OBVIOUS
  <2>1. ASSUME NEW it, ScanPos(it, start, cut), it.is_end, ~cut, NEW s \in Slots, s < start
        PROVE  Passed(it.slot)[<<s, 0>>] = 1
    <3>1. start <= it.slot /\ it.slot \in Nat /\ start \in Nat /\ s \in Nat
      BY <2>1 DEF ScanPos, ScanInv, Slots
    <3>2. <<s, 0>> \in Slots \X Slots /\ <<s, 0>>[1] = s /\ <<s, 0>>[2] = 0
      BY PageAssumption DEF Slots
    <3>3. s < it.slot
      BY <2>1, <3>1
    <3> QED BY <3>2, <3>3 DEF Passed
  <2>2. ASSUME MergeEnd, ~migrated, ~cut, NEW s \in Slots, s < start PROVE seen[<<s, 0>>] = 1
    <3>1. /\ MergeInv /\ outer.is_end /\ inner.is_end
          /\ ScanPos(outer, start, cut) /\ ScanPos(inner, start, cut)
      BY <2>2 DEF MergeEnd, ScanInv, MergeInv
    <3>2. seen = Passed(outer.slot) \/ seen = Passed(inner.slot)
      BY <2>2, <3>1 DEF MergeInv
    <3>3. Passed(outer.slot)[<<s, 0>>] = 1 /\ Passed(inner.slot)[<<s, 0>>] = 1
      BY <2>1, <2>2, <3>1
    <3> QED BY <3>2, <3>3
  <2>3. ASSUME CopyEnd, ~cut, NEW s \in Slots, s < start PROVE seen[<<s, 0>>] = 1
    <3>1. seen = Passed(outer.slot) /\ outer.is_end /\ ScanPos(outer, start, cut)
      BY <2>3 DEF CopyEnd, ScanInv
    <3> QED BY <2>1, <2>3, <3>1
  <2>4. ASSUME DrainEnd, ~migrated, ~cut, NEW s \in Slots, s < start
        PROVE  seen[<<s, 0>>] = IF InLayer(target) THEN 1 ELSE 0
    <3>1. /\ seen = IF InLayer(target) THEN Passed(outer.slot) ELSE NothingSeen
          /\ outer.is_end /\ ScanPos(outer, start, cut)
      BY <2>4 DEF DrainEnd, ScanInv
    <3>2. NothingSeen[<<s, 0>>] = 0
      BY PageAssumption DEF NothingSeen, Slots
    <3>3. Passed(outer.slot)[<<s, 0>>] = 1
      BY <2>1, <2>4, <3>1
    <3> QED BY <3>1, <3>2, <3>3
  <2>5. ASSUME JoinEnd, ~cut, NEW s \in Slots, NEW t \in Slots, s < start, t < start
        PROVE  seen[<<s, t>>] = 1
    <3>1. JoinInv /\ current = -1 /\ outer.is_end /\ ScanPos(outer, start, cut) /\ start \in Nat
      BY <2>5 DEF JoinEnd, ScanInv, JoinInv
    <3>2. s < outer.slot /\ s # current
      BY <2>5, <3>1 DEF ScanPos, Slots
    <3> QED BY <2>5, <3>1, <3>2 DEF JoinInv
  <2> QED BY <2>2, <2>3, <2>4, <2>5
<1>2. ScanInv => [Complete]_vars
  BY <1>1
<1> QED BY ScanInvariant, <1>2, PTL DEF QueryComplete
=============================================================================
