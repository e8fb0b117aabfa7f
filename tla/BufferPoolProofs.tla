-------------------------- MODULE BufferPoolProofs --------------------------
(* Proofs of the safety properties of BufferPool, restarts included, for any
   pool size, any number of clients and pages and any contents. *)
EXTENDS BufferPool, FiniteSetTheorems, TLAPS

-----------------------------------------------------------------------------
(* The disk *)

LEMMA DiskOperations ==
  ASSUME NEW d \in DiskState, NEW p \in Ids, NEW data \in Contents
  PROVE  /\ AfterWrite(d, p, data) \in DiskState
         /\ AfterWrite(d, p, data).next_page_id = d.next_page_id
         /\ AfterRead(d, p) \in DiskState
         /\ AfterRead(d, p).next_page_id = d.next_page_id
         /\ AfterAlloc(d) \in DiskState
         /\ AfterAlloc(d).next_page_id = d.next_page_id + 1
         /\ ReadData(d, p, data) \in Contents
<1>1. AfterWrite(d, p, data) \in DiskState /\ AfterWrite(d, p, data).next_page_id = d.next_page_id
  <2>1. CASE WriteLands(d, p)
    <3>1. p \in PageIds
      BY <2>1 DEF WriteLands, Ids, PageIds
    <3>2. (IF p < d.pages THEN d.pages ELSE p + 1) \in 0 .. MAX_PAGES
      BY <3>1, MaxPagesAssumption DEF DiskState, PageIds
    <3> QED BY <2>1, <3>1, <3>2 DEF AfterWrite, DiskState
  <2>2. CASE ~WriteLands(d, p)
    BY <2>2 DEF AfterWrite, DiskState
  <2> QED BY <2>1, <2>2
<1>2. AfterRead(d, p) \in DiskState /\ AfterRead(d, p).next_page_id = d.next_page_id
  BY DEF AfterRead, DiskState
<1>3. AfterAlloc(d) \in DiskState /\ AfterAlloc(d).next_page_id = d.next_page_id + 1
  BY DEF AfterAlloc, DiskState
<1>4. ReadData(d, p, data) \in Contents
  <2>1. CASE ReadDelivers(d, p)
    <3>1. IntOffset(p) \in PageIds
      BY <2>1, MaxPagesAssumption DEF ReadDelivers, DiskState, PageIds
    <3> QED BY <2>1, <3>1 DEF ReadData, DiskState
  <2>2. CASE ~ReadDelivers(d, p)
    BY <2>2 DEF ReadData
  <2> QED BY <2>1, <2>2
<1> QED BY <1>1, <1>2, <1>3, <1>4

\* A file shorter than 2 GB gives a new manager its length as the next id.
LEMMA OpenedNextId ==
  ASSUME NEW n \in 0 .. MAX_PAGES
  PROVE  IntOffset(n) = n
<1>1. n < INT_PAGES /\ n \in Nat /\ INT_PAGES \in Nat
  BY MaxPagesAssumption, IntPagesAssumption, OffsetsFit
<1>2. n % (2 * INT_PAGES) = n
  BY <1>1
<1> QED BY <1>1, <1>2 DEF IntOffset

(* The replacer *)

LEMMA VictimTakes ==
  ASSUME Replacer!TypeOK, NEW f \in Frames, Replacer!Victim(f)
  PROVE  /\ in_replacer[f]
         /\ in_replacer' = [in_replacer EXCEPT ![f] = FALSE]
         /\ Replacer!TypeOK'
<1>1. in_replacer[f]
  BY DEF Replacer!Victim, Replacer!VictimFirstRound, Replacer!VictimSecondRound,
         Replacer!IsFirst, Replacer!FirstRoundStops, Replacer!SecondRoundStops,
         Replacer!Unused
<1>2. Replacer!Take(f)
  BY DEF Replacer!Victim, Replacer!VictimFirstRound, Replacer!VictimSecondRound
<1>3. (f + 1) % pool_size \in Frames
  BY PoolSizeAssumption DEF Frames
<1>4. use_bits' \in [Frames -> BOOLEAN]
  BY DEF Replacer!Victim, Replacer!VictimFirstRound, Replacer!VictimSecondRound,
         Replacer!Frames, Frames
<1> QED BY <1>1, <1>2, <1>3, <1>4 DEF Replacer!Take, Replacer!TypeOK, Replacer!Frames, Frames

LEMMA PinTakes ==
  ASSUME Replacer!TypeOK, NEW f \in Frames, Replacer!Pin(f)
  PROVE  in_replacer' = [in_replacer EXCEPT ![f] = FALSE] /\ Replacer!TypeOK'
BY DEF Replacer!Pin, Replacer!TypeOK, Replacer!Frames, Frames

LEMMA UnpinAdds ==
  ASSUME Replacer!TypeOK, NEW f \in Frames, Replacer!Unpin(f, FALSE)
  PROVE  in_replacer' = [in_replacer EXCEPT ![f] = TRUE] /\ Replacer!TypeOK'
BY DEF Replacer!Unpin, Replacer!TypeOK, Replacer!Frames, Frames, Replacer!clockVars

-----------------------------------------------------------------------------
(* What always holds *)

\* A pointer into a frame is a pointer to a page.
HeldOccupied == \A c \in Clients : held[c].frame \in Frames => Occupied(held[c].frame)

\* Inductive by itself, restarts that forget pages included.
PoolSound == TypeOK /\ TableSound /\ ReplacerExact /\ HeldOccupied

HeldType == [id : Ids, frame : Frames \cup {NoFrame, Leaked}, wrote : BOOLEAN]

EmptyPool ==
    /\ pages = [f \in Frames |-> nullptr] /\ page_table = [p \in Ids |-> NoFrame]
    /\ Replacer!Init
    /\ held = [c \in Clients |-> NoPage]
    /\ disk \in DiskState
    /\ known \subseteq PageIds /\ content \in [PageIds -> Contents]
    /\ unreliable \subseteq PageIds /\ ids_in_file \in BOOLEAN
PoolExact == PoolSound /\ TableComplete /\ HeldInPlace /\ PinsCount

LEMMA EmptyPoolExact == EmptyPool => PoolExact
<1> SUFFICES ASSUME EmptyPool PROVE PoolExact
  OBVIOUS
<1> USE DEF EmptyPool
<1>1. Replacer!TypeOK
  <2>1. 0 \in Replacer!Frames
    BY PoolSizeAssumption DEF Replacer!Frames
  <2> QED BY <2>1, Zenon DEF Replacer!Init, Replacer!TypeOK
<1>2. NoPage \in HeldType
  BY DEF NoPage, Ids, HeldType
<1>3. TypeOK
  BY <1>1, <1>2 DEF TypeOK, HeldType
<1>4. TableSound /\ TableComplete /\ HeldInPlace /\ PinsCount
  BY DEF TableSound, TableComplete, Occupied, HeldInPlace, Idle, PinsCount
<1>5. ReplacerExact
  BY DEF Replacer!Init, Replacer!Frames, Frames, ReplacerExact, Occupied
<1>6. HeldOccupied
  BY DEF HeldOccupied, NoPage, NoFrame, Frames
<1> QED BY <1>3, <1>4, <1>5, <1>6 DEF PoolSound, PoolExact

LEMMA ClaimSound ==
  ASSUME PoolSound, NEW f \in Frames, ClaimFrame(f)
  PROVE  /\ Replacer!TypeOK'
         /\ in_replacer' = [in_replacer EXCEPT ![f] = FALSE]
         /\ DiskWithout(f) \in DiskState
         /\ DiskWithout(f).next_page_id = disk.next_page_id
         /\ UnreliableWithout(f) \subseteq PageIds
<1>1. Replacer!TypeOK /\ disk \in DiskState /\ (Occupied(f) => pages[f] \in PageObject)
  BY DEF PoolSound, TypeOK, Occupied
<1>2. Replacer!TypeOK' /\ in_replacer' = [in_replacer EXCEPT ![f] = FALSE]
  BY <1>1, VictimTakes, PinTakes DEF ClaimFrame, ClaimFree, ClaimVictim
<1>3. DiskWithout(f) \in DiskState /\ DiskWithout(f).next_page_id = disk.next_page_id
  BY <1>1, DiskOperations DEF DiskWithout, NeedsWriteBack, PageObject
<1>4. UnreliableWithout(f) \subseteq PageIds
  BY DEF PoolSound, TypeOK, UnreliableWithout, NeedsWriteBack, Occupied, PageObject, Ids
<1> QED BY <1>2, <1>3, <1>4

\* Page p comes into a claimed frame for client c, whether or not another frame
\* has a page of that id.
LEMMA PlaceSound ==
  ASSUME PoolSound, NEW c \in Clients, NEW p \in Ids, NEW f \in Frames, ClaimFrame(f),
         NEW data \in Contents, pages' = [pages EXCEPT ![f] = LoadedPage(p, data)],
         page_table' = [TableWithout(f) EXCEPT ![p] = f], Hold(c, p, f)
  PROVE  /\ pages' \in [Frames -> PageObject \cup {nullptr}]
         /\ page_table' \in [Ids -> Frames \cup {NoFrame}]
         /\ held' \in [Clients -> HeldType]
         /\ TableSound' /\ ReplacerExact' /\ HeldOccupied'
         /\ \A g \in Frames : pages'[g] = IF g = f THEN LoadedPage(p, data) ELSE pages[g]
         /\ \A q \in Ids : page_table'[q] =
               IF q = p THEN f ELSE IF Occupied(f) /\ q = pages[f].id THEN NoFrame ELSE page_table[q]
         /\ \A g \in Frames : g # f => Occupied(g)' = Occupied(g)
<1>1. LoadedPage(p, data) \in PageObject /\ LoadedPage(p, data) # nullptr
  <2>1. LoadedPage(p, data) \in PageObject
    BY DEF LoadedPage, PageObject
  <2> QED BY <2>1, NullAssumption
<1>2. pages' \in [Frames -> PageObject \cup {nullptr}]
  BY <1>1 DEF PoolSound, TypeOK
<1>3. \A g \in Frames : pages'[g] = IF g = f THEN LoadedPage(p, data) ELSE pages[g]
  BY DEF PoolSound, TypeOK
<1>4. page_table' \in [Ids -> Frames \cup {NoFrame}]
  BY DEF PoolSound, TypeOK, TableWithout
<1>5. \A q \in Ids : page_table'[q] =
          IF q = p THEN f ELSE IF Occupied(f) /\ q = pages[f].id THEN NoFrame ELSE page_table[q]
  BY DEF PoolSound, TypeOK, TableWithout
<1>6. held' \in [Clients -> HeldType]
  BY DEF PoolSound, TypeOK, Hold, HeldType
<1>7. \A g \in Frames : g # f => Occupied(g)' = Occupied(g)
  BY <1>3 DEF Occupied
<1>8. Occupied(f)'
  BY <1>1, <1>3 DEF Occupied
<1>9. TableSound'
  <2> SUFFICES ASSUME NEW q \in Ids, page_table'[q] # NoFrame
               PROVE  pages'[page_table'[q]] # nullptr /\ pages'[page_table'[q]].id = q
    BY DEF TableSound, Occupied
  <2>1. CASE q = p
    BY <2>1, <1>3, <1>5, <1>8 DEF LoadedPage, Occupied
  <2>2. CASE q # p
    <3>1. page_table'[q] = page_table[q] /\ page_table[q] \in Frames
      BY <2>2, <1>5 DEF PoolSound, TypeOK
    <3>2. Occupied(page_table[q]) /\ pages[page_table[q]].id = q
      BY <3>1 DEF PoolSound, TableSound
    <3>3. page_table[q] # f
      BY <2>2, <3>1, <3>2, <1>5 DEF Frames, NoFrame
    <3> QED BY <3>1, <3>2, <3>3, <1>3 DEF Occupied
  <2> QED BY <2>1, <2>2
<1>10. ReplacerExact'
  <2>1. in_replacer' = [in_replacer EXCEPT ![f] = FALSE]
    BY ClaimSound
  <2>2. in_replacer \in [Frames -> BOOLEAN]
    BY DEF PoolSound, TypeOK, Replacer!TypeOK, Replacer!Frames, Frames
  <2> SUFFICES ASSUME NEW g \in Frames
               PROVE  in_replacer'[g] <=> Occupied(g)' /\ pages'[g].pin_count = 0
    BY DEF ReplacerExact, Occupied
  <2>3. CASE g = f
    BY <2>1, <2>2, <2>3, <1>3 DEF LoadedPage
  <2>4. CASE g # f
    BY <2>1, <2>2, <2>4, <1>3, <1>7 DEF PoolSound, ReplacerExact
  <2> QED BY <2>3, <2>4
<1>11. HeldOccupied'
  <2> SUFFICES ASSUME NEW d \in Clients, held'[d].frame \in Frames
               PROVE  pages'[held'[d].frame] # nullptr
    BY DEF HeldOccupied, Occupied
  <2>1. CASE d = c
    BY <2>1, <1>8 DEF Hold, PoolSound, TypeOK, Occupied
  <2>2. CASE d # c
    BY <2>2, <1>1, <1>3 DEF Hold, PoolSound, TypeOK, HeldOccupied, Occupied
  <2> QED BY <2>1, <2>2
<1> QED BY <1>2, <1>3, <1>4, <1>5, <1>6, <1>7, <1>9, <1>10, <1>11

\* A step that leaves ids, pins, the table, the replacer's frames and the
\* clients' pointers alone.
LEMMA SameShapeSound ==
  ASSUME PoolSound, page_table' = page_table, in_replacer' = in_replacer,
         \A g \in Frames :
            /\ pages'[g] # nullptr <=> pages[g] # nullptr
            /\ pages[g] # nullptr => /\ pages'[g].id = pages[g].id
                                    /\ pages'[g].pin_count = pages[g].pin_count,
         \A d \in Clients : held'[d].frame = held[d].frame
  PROVE  TableSound' /\ ReplacerExact' /\ HeldOccupied'
<1>1. TableSound'
  BY DEF PoolSound, TypeOK, TableSound, Occupied
<1>2. ReplacerExact'
  BY DEF PoolSound, ReplacerExact, Occupied
<1>3. HeldOccupied'
  BY DEF PoolSound, HeldOccupied, Occupied
<1> QED BY <1>1, <1>2, <1>3

LEMMA FetchSound ==
  ASSUME PoolSound, NEW c \in Clients, NEW p \in known \cup {-1}, FetchPage(c, p)
  PROVE  PoolSound'
<1>0. p \in Ids
  BY DEF PoolSound, TypeOK, Ids
<1>1. CASE FetchHit(c, p)
  <2> DEFINE f == page_table[p]
  <2>1. f \in Frames /\ f # NoFrame
    BY <1>0, <1>1 DEF FetchHit, PoolSound, TypeOK
  <2>2. Occupied(f) /\ pages[f].id = p /\ pages[f] \in PageObject
    BY <1>0, <2>1 DEF PoolSound, TypeOK, TableSound, Occupied
  <2>3. \A g \in Frames : pages'[g] = IF g = f THEN PinnedPage(pages[f]) ELSE pages[g]
    BY <1>1 DEF FetchHit, PoolSound, TypeOK
  <2>4. pages'[f] \in PageObject /\ pages'[f].id = p /\ pages'[f].pin_count = pages[f].pin_count + 1
    BY <2>1, <2>2, <2>3 DEF PageObject, PinnedPage
  <2>5. pages'[f] # nullptr
    BY <2>4, NullAssumption
  <2>6. in_replacer' = [in_replacer EXCEPT ![f] = FALSE] /\ Replacer!TypeOK'
    BY <1>1, <2>1, PinTakes DEF FetchHit, PoolSound, TypeOK
  <2>7. TypeOK'
    <3>1. pages' \in [Frames -> PageObject \cup {nullptr}]
      BY <1>1, <2>3, <2>4 DEF FetchHit, PoolSound, TypeOK
    <3>2. held' \in [Clients -> HeldType]
      BY <1>0, <1>1, <2>1 DEF FetchHit, Hold, PoolSound, TypeOK, HeldType
    <3> QED BY <3>1, <3>2, <1>1, <2>6 DEF FetchHit, historyVars, PoolSound, TypeOK, HeldType
  <2>8. TableSound'
    BY <1>1, <2>2, <2>3, <2>4, <2>5 DEF FetchHit, PoolSound, TypeOK, TableSound, Occupied
  <2>9. ReplacerExact'
    <3>1. in_replacer \in [Frames -> BOOLEAN]
      BY DEF PoolSound, TypeOK, Replacer!TypeOK, Replacer!Frames, Frames
    <3>2. pages[f].pin_count + 1 # 0
      BY <2>2 DEF PageObject
    <3> QED BY <3>1, <3>2, <2>1, <2>3, <2>4, <2>6 DEF PoolSound, ReplacerExact, Occupied
  <2>10. HeldOccupied'
    BY <1>1, <2>1, <2>3, <2>5 DEF FetchHit, Hold, PoolSound, TypeOK, HeldOccupied, Occupied
  <2> QED BY <2>7, <2>8, <2>9, <2>10 DEF PoolSound
<1>2. ASSUME NEW f \in Frames, FetchMiss(c, p, f) PROVE PoolSound'
  <2> DEFINE d == DiskWithout(f)
  <2>1. ClaimFrame(f)
    BY <1>2 DEF FetchMiss
  <2>2. d \in DiskState /\ Replacer!TypeOK' /\ UnreliableWithout(f) \subseteq PageIds
    BY <2>1, ClaimSound
  <2>3. ReadData(d, p, Zero) \in Contents
    BY <1>0, <2>2, ZeroAssumption, DiskOperations
  <2>4. disk' \in DiskState
    BY <1>0, <1>2, <2>2, ZeroAssumption, DiskOperations DEF FetchMiss
  <2>5. /\ pages' \in [Frames -> PageObject \cup {nullptr}]
        /\ page_table' \in [Ids -> Frames \cup {NoFrame}]
        /\ held' \in [Clients -> HeldType]
        /\ TableSound' /\ ReplacerExact' /\ HeldOccupied'
    <3> HIDE DEF d
    <3>1. pages' = [pages EXCEPT ![f] = LoadedPage(p, ReadData(d, p, Zero))]
      BY <1>2 DEF FetchMiss, d
    <3>2. Hold(c, p, f) /\ page_table' = [TableWithout(f) EXCEPT ![p] = f]
      BY <1>2 DEF FetchMiss
    <3> QED BY <1>0, <2>1, <2>3, <3>1, <3>2, PlaceSound
  <2>6. TypeOK'
    BY <1>0, <1>2, <2>2, <2>4, <2>5 DEF FetchMiss, PoolSound, TypeOK, Ids, HeldType
  <2> QED BY <2>5, <2>6 DEF PoolSound
<1> QED BY <1>1, <1>2 DEF FetchPage

LEMMA NewPageSound ==
  ASSUME PoolSound, NEW c \in Clients, NEW f \in Frames, NewPage(c, f)
  PROVE  PoolSound'
<1> DEFINE p == disk.next_page_id
<1>1. p \in PageIds /\ p \in Ids /\ ClaimFrame(f)
  BY DEF NewPage, Ids
<1>2. DiskWithout(f) \in DiskState /\ Replacer!TypeOK' /\ UnreliableWithout(f) \subseteq PageIds
  BY <1>1, ClaimSound
<1>3. disk' \in DiskState
  BY <1>1, <1>2, ZeroAssumption, DiskOperations DEF NewPage
<1>4. /\ pages' \in [Frames -> PageObject \cup {nullptr}]
      /\ page_table' \in [Ids -> Frames \cup {NoFrame}]
      /\ held' \in [Clients -> HeldType]
      /\ TableSound' /\ ReplacerExact' /\ HeldOccupied'
  BY <1>1, ZeroAssumption, PlaceSound DEF NewPage
<1>5. TypeOK'
  BY <1>1, <1>2, <1>3, <1>4, ZeroAssumption DEF NewPage, PoolSound, TypeOK, HeldType
<1> QED BY <1>4, <1>5 DEF PoolSound

LEMMA WriteDataSound ==
  ASSUME PoolSound, NEW c \in Clients, NEW data \in Contents, WriteData(c, data)
  PROVE  PoolSound'
<1> DEFINE h == held[c]
<1>1. h \in HeldType
  BY DEF PoolSound, TypeOK, HeldType
<1>2. \A g \in Frames : pages'[g] = IF g = h.frame THEN WrittenPage(pages[g], data) ELSE pages[g]
  BY DEF WriteData, PoolSound, TypeOK
<1>3. h.frame \in Frames => pages[h.frame] \in PageObject
  BY DEF PoolSound, TypeOK, HeldOccupied, Occupied
<1>4. h.frame \in Frames =>
        /\ WrittenPage(pages[h.frame], data) \in PageObject
        /\ WrittenPage(pages[h.frame], data).id = pages[h.frame].id
        /\ WrittenPage(pages[h.frame], data).pin_count = pages[h.frame].pin_count
  BY <1>3 DEF WrittenPage, PageObject
<1>5. \A d \in Clients : held'[d] = IF d = c THEN [h EXCEPT !.wrote = TRUE] ELSE held[d]
  BY DEF WriteData, PoolSound, TypeOK
<1>6. TableSound' /\ ReplacerExact' /\ HeldOccupied'
  <2>1. page_table' = page_table /\ in_replacer' = in_replacer
    BY DEF WriteData, clockVars
  <2>2. \A g \in Frames :
            /\ pages'[g] # nullptr <=> pages[g] # nullptr
            /\ pages[g] # nullptr => /\ pages'[g].id = pages[g].id
                                    /\ pages'[g].pin_count = pages[g].pin_count
    BY <1>2, <1>3, <1>4, NullAssumption
  <2>3. \A d \in Clients : held'[d].frame = held[d].frame
    BY <1>1, <1>5 DEF HeldType
  <2> QED BY <2>1, <2>2, <2>3, SameShapeSound
<1>7. TypeOK'
  <2>1. pages' \in [Frames -> PageObject \cup {nullptr}]
    BY <1>4 DEF WriteData, PoolSound, TypeOK
  <2>2. held' \in [Clients -> HeldType]
    BY <1>1 DEF WriteData, PoolSound, TypeOK, HeldType
  <2>3. content' \in [PageIds -> Contents]
    BY <1>1 DEF WriteData, PoolSound, TypeOK, Ids, HeldType
  <2>4. Replacer!TypeOK'
    BY DEF WriteData, clockVars, PoolSound, TypeOK, Replacer!TypeOK
  <2> QED BY <2>1, <2>2, <2>3, <2>4 DEF WriteData, PoolSound, TypeOK, HeldType
<1> QED BY <1>6, <1>7 DEF PoolSound

LEMMA UnpinPageSound ==
  ASSUME PoolSound, NEW c \in Clients, UnpinPage(c)
  PROVE  PoolSound'
<1> DEFINE h == held[c]
           f == page_table[h.id]
<1>1. h \in HeldType /\ NoPage \in HeldType
  BY DEF PoolSound, TypeOK, HeldType, NoPage, Ids
<1>2. held' \in [Clients -> HeldType] /\ \A d \in Clients : held'[d] = IF d = c THEN NoPage ELSE held[d]
  BY <1>1 DEF UnpinPage, PoolSound, TypeOK, HeldType
<1>3. f \in Frames \cup {NoFrame}
  BY <1>1 DEF PoolSound, TypeOK, HeldType
<1>4. CASE f = NoFrame \/ pages[f].pin_count = 0
  <2>1. UNCHANGED <<pages, clockVars, page_table, disk, historyVars>>
    BY <1>4 DEF UnpinPage
  <2>2. TypeOK'
    BY <1>2, <2>1 DEF PoolSound, TypeOK, Replacer!TypeOK, clockVars, historyVars, HeldType
  <2>3. TableSound' /\ ReplacerExact'
    BY <2>1 DEF PoolSound, TableSound, ReplacerExact, Occupied, clockVars
  <2>4. HeldOccupied'
    BY <1>2, <2>1 DEF PoolSound, HeldOccupied, Occupied, NoPage, NoFrame, Frames
  <2> QED BY <2>2, <2>3, <2>4 DEF PoolSound
<1>5. CASE f # NoFrame /\ pages[f].pin_count # 0
  <2> DEFINE page == UnpinnedPage(pages[f], h.wrote)
  <2>1. f \in Frames /\ Occupied(f) /\ pages[f] \in PageObject
    BY <1>1, <1>3, <1>5 DEF PoolSound, TypeOK, TableSound, Occupied, HeldType
  <2>2. /\ pages' = [pages EXCEPT ![f] = page]
        /\ IF pages[f].pin_count = 1 THEN Replacer!Unpin(f, FALSE) ELSE UNCHANGED clockVars
        /\ UNCHANGED <<page_table, disk, historyVars>>
    BY <1>5 DEF UnpinPage
  <2>3. /\ page \in PageObject /\ page.id = pages[f].id
        /\ page.pin_count = pages[f].pin_count - 1 /\ pages[f].pin_count \in Nat \ {0}
    BY <1>1, <1>5, <2>1 DEF UnpinnedPage, PageObject, HeldType
  <2>4. page # nullptr
    BY <2>3, NullAssumption
  <2> HIDE DEF page, f
  <2>5. \A g \in Frames : pages'[g] = IF g = f THEN page ELSE pages[g]
    BY <2>2 DEF PoolSound, TypeOK
  <2>6. Replacer!TypeOK' /\ in_replacer' = IF pages[f].pin_count = 1
                                          THEN [in_replacer EXCEPT ![f] = TRUE] ELSE in_replacer
    <3>1. CASE pages[f].pin_count = 1
      BY <2>1, <2>2, <3>1, UnpinAdds DEF PoolSound, TypeOK
    <3>2. CASE pages[f].pin_count # 1
      BY <2>2, <3>2 DEF clockVars, PoolSound, TypeOK, Replacer!TypeOK
    <3> QED BY <3>1, <3>2
  <2>7. TypeOK'
    <3>1. pages' \in [Frames -> PageObject \cup {nullptr}]
      BY <2>2, <2>3 DEF PoolSound, TypeOK
    <3> QED BY <3>1, <1>2, <2>2, <2>6 DEF historyVars, PoolSound, TypeOK, HeldType
  <2>8. TableSound'
    BY <2>1, <2>2, <2>3, <2>4, <2>5 DEF PoolSound, TypeOK, TableSound, Occupied
  <2>9. ReplacerExact'
    <3>1. in_replacer \in [Frames -> BOOLEAN]
      BY DEF PoolSound, TypeOK, Replacer!TypeOK, Replacer!Frames, Frames
    <3> SUFFICES ASSUME NEW g \in Frames
                 PROVE  in_replacer'[g] <=> pages'[g] # nullptr /\ pages'[g].pin_count = 0
      BY DEF ReplacerExact, Occupied
    <3>2. CASE g = f
      <4>1. in_replacer'[f] <=> pages[f].pin_count = 1
        BY <2>1, <2>3, <2>6, <3>1 DEF PoolSound, ReplacerExact
      <4>2. pages'[f].pin_count = 0 <=> pages[f].pin_count = 1
        BY <2>1, <2>3, <2>5
      <4> QED BY <3>2, <4>1, <4>2, <2>1, <2>4, <2>5
    <3>3. CASE g # f
      BY <3>1, <3>3, <2>5, <2>6 DEF PoolSound, ReplacerExact, Occupied
    <3> QED BY <3>2, <3>3
  <2>10. HeldOccupied'
    BY <1>2, <2>4, <2>5 DEF PoolSound, HeldOccupied, Occupied, NoPage, NoFrame, Frames
  <2> QED BY <2>7, <2>8, <2>9, <2>10 DEF PoolSound
<1> QED BY <1>4, <1>5

\* Cleaning pages (SetDirty(false)) disturbs nothing the invariants speak of.
LEMMA CleanPageKeeps ==
  ASSUME NEW page \in PageObject
  PROVE  /\ CleanPage(page) \in PageObject /\ CleanPage(page) # nullptr
         /\ CleanPage(page).id = page.id /\ CleanPage(page).pin_count = page.pin_count
<1>1. /\ CleanPage(page) \in PageObject
      /\ CleanPage(page).id = page.id /\ CleanPage(page).pin_count = page.pin_count
  BY DEF CleanPage, PageObject
<1> QED BY <1>1, NullAssumption

\* What FlushPage and FlushAllPages do to the pool.
Cleans ==
    /\ UNCHANGED <<page_table, clockVars, held, known, content, ids_in_file>>
    /\ pages' \in [Frames -> PageObject \cup {nullptr}]
    /\ \A g \in Frames : \/ pages'[g] = pages[g]
                         \/ Occupied(g) /\ pages'[g] = CleanPage(pages[g])
    /\ disk' \in DiskState /\ disk'.next_page_id = disk.next_page_id
    /\ unreliable' \subseteq PageIds

LEMMA CleansKeepsShape ==
  ASSUME PoolSound, Cleans
  PROVE  \A g \in Frames :
          /\ pages'[g] # nullptr <=> pages[g] # nullptr
          /\ pages[g] # nullptr => /\ pages'[g].id = pages[g].id
                                  /\ pages'[g].pin_count = pages[g].pin_count
BY CleanPageKeeps DEF PoolSound, TypeOK, Occupied, Cleans

LEMMA CleansSound ==
  ASSUME PoolSound, Cleans
  PROVE  PoolSound'
<1>1. page_table' = page_table /\ in_replacer' = in_replacer /\ held' = held
  BY DEF clockVars, Cleans
<1>2. TableSound' /\ ReplacerExact' /\ HeldOccupied'
  BY <1>1, CleansKeepsShape, SameShapeSound
<1>3. Replacer!TypeOK'
  BY DEF clockVars, PoolSound, TypeOK, Replacer!TypeOK, Cleans
<1>4. TypeOK'
  BY <1>3 DEF PoolSound, TypeOK, Cleans
<1> QED BY <1>2, <1>4 DEF PoolSound

LEMMA FlushPageCleans ==
  ASSUME PoolSound, NEW p \in Ids, FlushPage(p)
  PROVE  Cleans
<1> DEFINE f == page_table[p]
<1>1. f \in Frames /\ f # NoFrame
  BY DEF FlushPage, PoolSound, TypeOK
<1>2. Occupied(f) /\ pages[f] \in PageObject
  BY <1>1 DEF PoolSound, TypeOK, TableSound, Occupied
<1>3. CleanPage(pages[f]) \in PageObject
  BY <1>2, CleanPageKeeps
<1>4. pages' = [pages EXCEPT ![f] = CleanPage(pages[f])]
  BY DEF FlushPage
<1>5. /\ pages' \in [Frames -> PageObject \cup {nullptr}]
      /\ \A g \in Frames : \/ pages'[g] = pages[g]
                           \/ Occupied(g) /\ pages'[g] = CleanPage(pages[g])
  BY <1>2, <1>3, <1>4 DEF PoolSound, TypeOK
<1>6. disk' \in DiskState /\ disk'.next_page_id = disk.next_page_id
  <2>1. disk \in DiskState /\ pages[f].data \in Contents
    BY <1>2 DEF PoolSound, TypeOK, PageObject
  <2>2. disk' = AfterWrite(disk, p, pages[f].data)
    BY DEF FlushPage
  <2> QED BY <2>1, <2>2, DiskOperations
<1>7. unreliable' \subseteq PageIds
  BY DEF FlushPage, PoolSound, TypeOK, Ids
<1>8. UNCHANGED <<page_table, clockVars, held, known, content, ids_in_file>>
  BY DEF FlushPage
<1> QED BY <1>5, <1>6, <1>7, <1>8 DEF Cleans

LEMMA FlushAllPagesCleans ==
  ASSUME PoolSound, FlushAllPages
  PROVE  Cleans
<1> PICK first \in DirtyIds :
      LET d == AfterWrite(disk, first, pages[page_table[first]].data)
          rest == (DirtyIds \ {first}) \ {-1}
          data(p) == pages[page_table[p]].data
      IN
      /\ \E n \in d.pages .. MAX_PAGES :
            disk' = [d EXCEPT !.file = [p \in PageIds |-> IF p \in rest THEN data(p) ELSE d.file[p]],
                              !.pages = n]
      /\ pages' = [f \in Frames |->
                     IF Occupied(f) /\ page_table[pages[f].id] = f
                     THEN CleanPage(pages[f]) ELSE pages[f]]
      /\ unreliable' = (IF WriteLands(disk, first) THEN unreliable \ {first}
                        ELSE unreliable \cup ({first} \ {-1})) \ rest
      /\ UNCHANGED <<page_table, clockVars, held, known, content, ids_in_file>>
  BY DEF FlushAllPages
<1> DEFINE d == AfterWrite(disk, first, pages[page_table[first]].data)
           rest == (DirtyIds \ {first}) \ {-1}
<1>1. \A p \in DirtyIds : p \in Ids /\ pages[page_table[p]] \in PageObject
  BY DEF DirtyIds, PoolSound, TypeOK, TableSound, Occupied
<1>2. \A p \in DirtyIds : pages[page_table[p]].data \in Contents
  BY <1>1 DEF PageObject
<1>3. d \in DiskState /\ d.next_page_id = disk.next_page_id
  <2>1. disk \in DiskState
    BY DEF PoolSound, TypeOK
  <2> QED BY <2>1, <1>1, <1>2, DiskOperations
<1>4. disk' \in DiskState /\ disk'.next_page_id = disk.next_page_id
  <2> PICK n \in d.pages .. MAX_PAGES :
        disk' = [d EXCEPT !.file = [p \in PageIds |-> IF p \in rest THEN pages[page_table[p]].data
                                                                 ELSE d.file[p]],
                          !.pages = n]
    OBVIOUS
  <2> HIDE DEF d
  <2> DEFINE file == [p \in PageIds |-> IF p \in rest THEN pages[page_table[p]].data ELSE d.file[p]]
  <2>1. file \in [PageIds -> Contents]
    BY <1>2, <1>3 DEF DiskState
  <2>2. n \in 0 .. MAX_PAGES
    BY <1>3, MaxPagesAssumption DEF DiskState
  <2>3. disk' = [d EXCEPT !.file = file, !.pages = n]
    OBVIOUS
  <2> HIDE DEF file
  <2> QED BY <2>1, <2>2, <2>3, <1>3 DEF DiskState
<1>5. /\ pages' \in [Frames -> PageObject \cup {nullptr}]
      /\ \A g \in Frames : \/ pages'[g] = pages[g]
                           \/ Occupied(g) /\ pages'[g] = CleanPage(pages[g])
  BY CleanPageKeeps DEF PoolSound, TypeOK, Occupied
<1>6. unreliable' \subseteq PageIds
  BY <1>1 DEF PoolSound, TypeOK, Ids
<1> QED BY <1>4, <1>5, <1>6 DEF Cleans

LEMMA DeletePageSound ==
  ASSUME PoolSound, NEW p \in Ids, DeletePage(p)
  PROVE  PoolSound'
<1> DEFINE f == page_table[p]
<1>1. f \in Frames /\ f # NoFrame
  BY DEF DeletePage, PoolSound, TypeOK
<1>2. Occupied(f) /\ pages[f] \in PageObject /\ pages[f].id = p
  BY <1>1 DEF PoolSound, TypeOK, TableSound, Occupied
<1>3. held' \in [Clients -> HeldType] /\ \A c \in Clients : held'[c].frame =
        IF held[c].frame = f THEN Leaked ELSE held[c].frame
  BY DEF DeletePage, PoolSound, TypeOK, HeldType
<1>4. /\ in_replacer' = [in_replacer EXCEPT ![f] = FALSE] /\ Replacer!TypeOK'
  BY <1>1, PinTakes DEF DeletePage, PoolSound, TypeOK
<1>5. /\ pages' \in [Frames -> PageObject \cup {nullptr}]
      /\ \A g \in Frames : pages'[g] = IF g = f THEN nullptr ELSE pages[g]
  BY <1>1 DEF DeletePage, PoolSound, TypeOK
<1>6. /\ page_table' \in [Ids -> Frames \cup {NoFrame}]
      /\ \A q \in Ids : page_table'[q] = IF q = p THEN NoFrame ELSE page_table[q]
  BY <1>1 DEF DeletePage, PoolSound, TypeOK
<1>7. disk' \in DiskState
  BY <1>1, <1>2, DiskOperations DEF DeletePage, DiskWithout, NeedsWriteBack, PageObject, PoolSound, TypeOK
<1>8. unreliable' \subseteq PageIds
  BY <1>2 DEF DeletePage, UnreliableWithout, PoolSound, TypeOK, Ids
<1>9. TypeOK'
  BY <1>3, <1>4, <1>5, <1>6, <1>7, <1>8 DEF DeletePage, PoolSound, TypeOK, HeldType
<1>10. TableSound'
  <2>1. \A q \in Ids \ {p} : page_table[q] # f
    BY <1>1, <1>2 DEF PoolSound, TableSound
  <2> QED BY <1>5, <1>6, <2>1 DEF PoolSound, TypeOK, TableSound, Occupied
<1>11. ReplacerExact'
  <2>1. in_replacer \in [Frames -> BOOLEAN]
    BY DEF PoolSound, TypeOK, Replacer!TypeOK, Replacer!Frames, Frames
  <2> QED BY <2>1, <1>4, <1>5 DEF PoolSound, ReplacerExact, Occupied
<1>12. HeldOccupied'
  BY <1>3, <1>5 DEF PoolSound, HeldOccupied, Occupied, Leaked, Frames
<1> QED BY <1>9, <1>10, <1>11, <1>12 DEF PoolSound

\* Steps that leave all but the stuck flag alone: no frame, a hang, a stutter.
Idles ==
    /\ stuck' \in BOOLEAN
    /\ UNCHANGED <<pages, page_table, use_bits, in_replacer, is_hot, clock_hand,
                   disk, held, historyVars>>

LEMMA IdlesSound ==
  ASSUME PoolSound, Idles
  PROVE  PoolSound'
<1>1. Replacer!TypeOK'
  BY DEF PoolSound, TypeOK, Replacer!TypeOK, Idles
<1>2. TypeOK'
  BY <1>1 DEF PoolSound, TypeOK, historyVars, Idles
<1>3. TableSound' /\ ReplacerExact' /\ HeldOccupied'
  BY DEF PoolSound, TableSound, Occupied, ReplacerExact, HeldOccupied, Idles
<1> QED BY <1>2, <1>3 DEF PoolSound

\* A new process starts with an empty pool, whatever the old one left.
LEMMA RestartStarts ==
  ASSUME PoolSound, Restart
  PROVE  PoolExact' /\ (ids_in_file' => IdsBelowNext')
<1>1. disk' \in DiskState
  <2>1. disk.file \in [PageIds -> Contents] /\ disk.pages \in 0 .. MAX_PAGES
    BY DEF PoolSound, TypeOK, DiskState
  <2> QED BY <2>1, OpenedNextId, MaxPagesAssumption DEF Restart, OpenManager, DiskState
<1>2. content' \in [PageIds -> Contents] /\ known' \subseteq PageIds /\ unreliable' \subseteq PageIds
  BY DEF Restart, PoolSound, TypeOK, DiskState
<1>3. ids_in_file' \in BOOLEAN
  BY DEF Restart
<1>4. Replacer!Init'
  BY DEF Restart, Replacer!Init, Frames, Replacer!Frames
<1>5. pages' = [f \in Frames |-> nullptr] /\ page_table' = [p \in Ids |-> NoFrame]
      /\ held' = [c \in Clients |-> NoPage]
  BY DEF Restart
<1>6. PoolExact'
  <2>1. EmptyPool'
    BY <1>1, <1>2, <1>3, <1>4, <1>5 DEF EmptyPool
  <2>2. (EmptyPool => PoolExact)'
    BY EmptyPoolExact, PTL
  <2> QED BY <2>1, <2>2
<1>7. ids_in_file' => IdsBelowNext'
  BY <1>5 DEF Restart, IdsBelowNext, Ids, PageIds
<1> QED BY <1>6, <1>7

LEMMA PoolSoundInit == Init => PoolSound
<1> SUFFICES ASSUME Init PROVE PoolSound
  OBVIOUS
<1>1. PICK n \in 0 .. MAX_PAGES : \E file \in [PageIds -> Contents] :
          /\ disk = OpenManager(file, n)
          /\ known = {p \in PageIds : p < n}
          /\ content = file
  BY DEF Init
<1>2. disk \in DiskState
  BY <1>1, OpenedNextId, MaxPagesAssumption DEF OpenManager, DiskState
<1> QED BY <1>1, <1>2, EmptyPoolExact DEF Init, EmptyPool, PoolExact

LEMMA PoolSoundStep ==
  ASSUME PoolSound, [Next]_vars
  PROVE  PoolSound'
<1>0. stuck \in BOOLEAN
  BY DEF PoolSound, TypeOK, Replacer!TypeOK
<1>1. ASSUME NEW c \in Clients, NEW p \in known \cup {-1}, FetchPage(c, p) PROVE PoolSound'
  BY <1>1, FetchSound
<1>2. ASSUME NEW c \in Clients, NEW f \in Frames, NewPage(c, f) PROVE PoolSound'
  BY <1>2, NewPageSound
<1>3. CASE NoFrameToClaim
  BY <1>0, <1>3, IdlesSound DEF Idles, NoFrameToClaim, Replacer!VictimEmpty, Replacer!clockVars
<1>4. CASE ClaimHangs
  BY <1>4, IdlesSound DEF Idles, ClaimHangs, Replacer!VictimHangs
<1>5. ASSUME NEW c \in Clients, NEW data \in Contents, WriteData(c, data) PROVE PoolSound'
  BY <1>5, WriteDataSound
<1>6. ASSUME NEW c \in Clients, UnpinPage(c) PROVE PoolSound'
  BY <1>6, UnpinPageSound
<1>7. ASSUME NEW p \in Ids, FlushPage(p) \/ DeletePage(p) PROVE PoolSound'
  BY <1>7, FlushPageCleans, CleansSound, DeletePageSound
<1>8. CASE FlushAllPages
  BY <1>8, FlushAllPagesCleans, CleansSound
<1>9. CASE Restart
  BY <1>9, RestartStarts DEF PoolExact
<1>10. CASE UNCHANGED vars
  BY <1>0, <1>10, IdlesSound DEF Idles, vars, clockVars
<1> QED BY <1>1, <1>2, <1>3, <1>4, <1>5, <1>6, <1>7, <1>8, <1>9, <1>10 DEF Next

-----------------------------------------------------------------------------
(* The inductive invariant *)

\* Each part is needed for another: a victim is unpinned (ReplacerExact), so no
\* client holds it (PinsCount), so eviction moves nobody's page; a fetched or new
\* id is not in the table (IdsBelowNext), so the table stays complete.
PoolInv == PoolExact /\ IdsBelowNext

LEMMA PoolInvParts ==
  ASSUME PoolInv
  PROVE  /\ PoolSound /\ TypeOK /\ TableSound /\ ReplacerExact
         /\ TableComplete /\ HeldInPlace /\ PinsCount /\ IdsBelowNext
BY DEF PoolInv, PoolExact, PoolSound

(* What holders are *)

LEMMA HoldersFinite ==
  ASSUME NEW f PROVE IsFiniteSet(Holders(f)) /\ Cardinality(Holders(f)) \in Nat
BY ClientsAssumption, FS_Subset, FS_CardinalityType DEF Holders

LEMMA UnpinnedNotHeld ==
  ASSUME PoolInv, NEW f \in Frames, Occupied(f), pages[f].pin_count = 0
  PROVE  Holders(f) = {}
BY PoolInvParts, HoldersFinite, FS_EmptySet DEF PinsCount

LEMMA FreeNotHeld ==
  ASSUME PoolInv, NEW f \in Frames, ~Occupied(f)
  PROVE  Holders(f) = {}
BY PoolInvParts DEF PoolSound, HeldOccupied, Holders

LEMMA HoldAdds ==
  ASSUME PoolInv, NEW c \in Clients, Idle(c), NEW p \in Ids, NEW f \in Frames, Hold(c, p, f)
  PROVE  /\ Holders(f)' = Holders(f) \cup {c}
         /\ Cardinality(Holders(f)') = Cardinality(Holders(f)) + 1
         /\ \A g \in Frames \ {f} : Holders(g)' = Holders(g)
<1>1. \A g \in Frames : c \notin Holders(g)
  BY DEF Idle, NoPage, NoFrame, Holders, Frames
<1>2. \A d \in Clients : held'[d] = IF d = c THEN [id |-> p, frame |-> f, wrote |-> FALSE] ELSE held[d]
  BY PoolInvParts DEF TypeOK, Hold
<1>3. Holders(f)' = Holders(f) \cup {c}
  BY <1>2 DEF Holders
<1>4. \A g \in Frames \ {f} : Holders(g)' = Holders(g)
  BY <1>1, <1>2 DEF Holders
<1>5. Cardinality(Holders(f) \cup {c}) = Cardinality(Holders(f)) + 1
  BY <1>1, HoldersFinite, FS_AddElement
<1> QED BY <1>3, <1>4, <1>5

LEMMA ReleaseRemoves ==
  ASSUME PoolInv, NEW c \in Clients, ~Idle(c), held' = [held EXCEPT ![c] = NoPage],
         NEW f \in Frames, f = held[c].frame
  PROVE  /\ Cardinality(Holders(f)') = Cardinality(Holders(f)) - 1
         /\ Cardinality(Holders(f)) > 0
         /\ \A g \in Frames \ {f} : Holders(g)' = Holders(g)
<1>1. \A d \in Clients : held'[d] = IF d = c THEN NoPage ELSE held[d]
  BY PoolInvParts DEF TypeOK
<1>2. c \in Holders(f)
  BY DEF Holders
<1>3. \A g \in Frames : Holders(g)' = Holders(g) \ {c}
  BY <1>1 DEF Holders, NoPage, NoFrame, Frames
<1>4. Cardinality(Holders(f) \ {c}) = Cardinality(Holders(f)) - 1
  BY <1>2, HoldersFinite, FS_RemoveElement
<1>5. Cardinality(Holders(f)) # 0
  BY <1>2, HoldersFinite, FS_EmptySet
<1>6. \A g \in Frames \ {f} : Holders(g)' = Holders(g)
  BY <1>3 DEF Holders
<1>7. Cardinality(Holders(f)) > 0
  <2>1. Cardinality(Holders(f)) \in Nat
    BY HoldersFinite
  <2> QED BY <1>5, <2>1
<1>8. Cardinality(Holders(f)') = Cardinality(Holders(f)) - 1
  <2>1. Holders(f)' = Holders(f) \ {c}
    BY <1>3
  <2> QED BY <1>4, <2>1
<1> QED BY <1>6, <1>7, <1>8

-----------------------------------------------------------------------------
(* The steps *)

\* Nobody holds the frame that FetchPage and NewPage claim.
LEMMA ClaimedNotHeld ==
  ASSUME PoolInv, NEW f \in Frames, ClaimFrame(f)
  PROVE  Holders(f) = {}
<1>1. CASE ClaimFree(f)
  BY <1>1, FreeNotHeld DEF ClaimFree, FreeFrames, Occupied
<1>2. CASE ClaimVictim(f)
  BY <1>2, UnpinnedNotHeld DEF ClaimVictim, FreeFrames, Occupied
<1> QED BY <1>1, <1>2 DEF ClaimFrame

\* Putting page p, which has no entry, into a claimed frame for client c.
LEMMA PlacePage ==
  ASSUME PoolInv, NEW c \in Clients, Idle(c), NEW p \in Ids, page_table[p] = NoFrame,
         NEW f \in Frames, ClaimFrame(f), NEW data \in Contents,
         pages' = [pages EXCEPT ![f] = LoadedPage(p, data)],
         page_table' = [TableWithout(f) EXCEPT ![p] = f],
         Hold(c, p, f)
  PROVE  /\ TableComplete' /\ HeldInPlace' /\ PinsCount'
         /\ \A q \in Ids : page_table'[q] # NoFrame => q = p \/ page_table[q] # NoFrame
<1>0. PoolSound /\ Holders(f) = {} /\ (Occupied(f) => page_table[pages[f].id] = f)
  BY PoolInvParts, ClaimedNotHeld DEF TableComplete
<1>3. \A g \in Frames : pages'[g] = IF g = f THEN LoadedPage(p, data) ELSE pages[g]
  BY <1>0, PlaceSound
<1>5. \A q \in Ids : page_table'[q] =
          IF q = p THEN f ELSE IF Occupied(f) /\ q = pages[f].id THEN NoFrame ELSE page_table[q]
  BY <1>0, PlaceSound
<1>7. \A g \in Frames : g # f => Occupied(g)' = Occupied(g)
  BY <1>3 DEF Occupied
<1>9. TableComplete'
  <2> SUFFICES ASSUME NEW g \in Frames, Occupied(g)' PROVE page_table'[pages'[g].id] = g
    BY DEF TableComplete, Occupied
  <2>1. CASE g = f
    BY <2>1, <1>3, <1>5 DEF LoadedPage
  <2>2. CASE g # f
    <3>1. Occupied(g) /\ pages'[g] = pages[g] /\ pages[g].id \in Ids
      BY <2>2, <1>3, <1>7, PoolInvParts DEF TypeOK, Occupied, PageObject
    <3>2. page_table[pages[g].id] = g
      BY <3>1, PoolInvParts DEF TableComplete
    <3>3. pages[g].id # p /\ ~(Occupied(f) /\ pages[g].id = pages[f].id)
      BY <2>2, <3>2, <1>0 DEF Frames, NoFrame
    <3> QED BY <3>1, <3>2, <3>3, <1>5
  <2> QED BY <2>1, <2>2
<1>11. HeldInPlace'
  <2> SUFFICES ASSUME NEW d \in Clients, ~Idle(d)'
               PROVE  held'[d].frame \in Frames /\ page_table'[held'[d].id] = held'[d].frame
    BY DEF HeldInPlace, Idle
  <2>1. CASE d = c
    BY <2>1, <1>5, PoolInvParts DEF TypeOK, Hold
  <2>2. CASE d # c
    <3>1. held'[d] = held[d] /\ ~Idle(d) /\ held[d].id \in Ids
      BY <2>2, PoolInvParts DEF TypeOK, Hold, Idle
    <3>2. held[d].frame \in Frames /\ page_table[held[d].id] = held[d].frame
      BY <3>1, PoolInvParts DEF HeldInPlace
    <3>3. held[d].frame # f
      BY <1>0 DEF Holders
    <3>4. held[d].id # p /\ ~(Occupied(f) /\ held[d].id = pages[f].id)
      BY <3>2, <3>3, <1>0 DEF Frames, NoFrame
    <3> QED BY <3>1, <3>2, <3>4, <1>5
  <2> QED BY <2>1, <2>2
<1>12. PinsCount'
  <2> SUFFICES ASSUME NEW g \in Frames, Occupied(g)'
               PROVE  pages'[g].pin_count = Cardinality(Holders(g)')
    BY DEF PinsCount, Occupied
  <2>1. CASE g = f
    <3>0. Cardinality(Holders(f)) = 0
      BY <1>0, FS_EmptySet
    <3>1. Cardinality(Holders(f)') = 1
      BY <3>0, HoldAdds
    <3>2. pages'[f].pin_count = 1
      BY <1>3 DEF LoadedPage
    <3> QED BY <2>1, <3>1, <3>2
  <2>2. CASE g # f
    BY <2>2, <1>3, <1>7, HoldAdds, PoolInvParts DEF PinsCount
  <2> QED BY <2>1, <2>2
<1>13. \A q \in Ids : page_table'[q] # NoFrame => q = p \/ page_table[q] # NoFrame
  BY <1>5
<1> QED BY <1>9, <1>11, <1>12, <1>13

\* A step that leaves ids, pins, the table, the replacer's frames and the
\* clients' pointers alone keeps the relations between them.
LEMMA SameShape ==
  ASSUME PoolInv, page_table' = page_table,
         \A g \in Frames :
            /\ pages'[g] # nullptr <=> pages[g] # nullptr
            /\ pages[g] # nullptr => /\ pages'[g].id = pages[g].id
                                    /\ pages'[g].pin_count = pages[g].pin_count,
         \A d \in Clients : /\ held'[d].frame = held[d].frame
                            /\ held'[d].id = held[d].id
                            /\ held[d] = NoPage => held'[d] = NoPage
  PROVE  TableComplete' /\ HeldInPlace' /\ PinsCount'
<1>1. TableComplete'
  BY PoolInvParts DEF TableComplete, Occupied
<1>2. HeldInPlace'
  BY PoolInvParts DEF HeldInPlace, Idle
<1>3. PinsCount'
  <2>1. \A g \in Frames : Holders(g)' = Holders(g)
    BY DEF Holders
  <2> QED BY <2>1, PoolInvParts DEF PinsCount, Occupied
<1> QED BY <1>1, <1>2, <1>3

LEMMA FetchHitInv ==
  ASSUME PoolInv, NEW c \in Clients, NEW p \in Ids, FetchHit(c, p)
  PROVE  TableComplete' /\ HeldInPlace' /\ PinsCount' /\ IdsBelowNext'
<1> DEFINE f == page_table[p]
<1>1. f \in Frames /\ f # NoFrame
  BY PoolInvParts DEF FetchHit, TypeOK
<1>2. Occupied(f) /\ pages[f].id = p /\ pages[f] \in PageObject
  BY <1>1, PoolInvParts DEF TypeOK, TableSound, Occupied
<1>3. \A g \in Frames : pages'[g] = IF g = f THEN PinnedPage(pages[f]) ELSE pages[g]
  BY PoolInvParts DEF FetchHit, TypeOK
<1>4. pages'[f] \in PageObject /\ pages'[f].id = p /\ pages'[f].pin_count = pages[f].pin_count + 1
  BY <1>1, <1>2, <1>3 DEF PageObject, PinnedPage
<1>8. TableComplete'
  BY <1>1, <1>2, <1>3, <1>4, PoolInvParts DEF FetchHit, TypeOK, TableComplete, Occupied
<1>10. HeldInPlace'
  BY <1>1, PoolInvParts DEF FetchHit, Hold, Idle, TypeOK, HeldInPlace
<1>11. PinsCount'
  <2> SUFFICES ASSUME NEW g \in Frames, pages'[g] # nullptr
               PROVE  pages'[g].pin_count = Cardinality(Holders(g)')
    BY DEF PinsCount, Occupied
  <2>0. Idle(c) /\ Hold(c, p, f)
    BY DEF FetchHit
  <2>1. CASE g = f
    BY <2>0, <2>1, <1>1, <1>2, <1>4, HoldAdds, PoolInvParts DEF PinsCount
  <2>2. CASE g # f
    BY <2>0, <2>2, <1>1, <1>3, HoldAdds, PoolInvParts DEF PinsCount, Occupied
  <2> QED BY <2>1, <2>2
<1>12. IdsBelowNext'
  BY PoolInvParts DEF FetchHit, historyVars, IdsBelowNext
<1> QED BY <1>8, <1>10, <1>11, <1>12

LEMMA FetchMissInv ==
  ASSUME PoolInv, NEW c \in Clients, NEW p \in known \cup {-1}, NEW f \in Frames,
         FetchMiss(c, p, f)
  PROVE  TableComplete' /\ HeldInPlace' /\ PinsCount' /\ IdsBelowNext'
<1>1. p \in Ids /\ ClaimFrame(f) /\ PoolSound
  BY PoolInvParts DEF TypeOK, Ids, FetchMiss
<1> DEFINE d == DiskWithout(f)
<1>2. d \in DiskState /\ d.next_page_id = disk.next_page_id
  BY <1>1, ClaimSound
<1>3. ReadData(d, p, Zero) \in Contents
  BY <1>1, <1>2, ZeroAssumption, DiskOperations
<1>4. disk'.next_page_id = disk.next_page_id
  BY <1>1, <1>2, ZeroAssumption, DiskOperations DEF FetchMiss
<1>5. /\ TableComplete' /\ HeldInPlace' /\ PinsCount'
      /\ \A q \in Ids : page_table'[q] # NoFrame => q = p \/ page_table[q] # NoFrame
  <2> HIDE DEF d
  <2>1. pages' = [pages EXCEPT ![f] = LoadedPage(p, ReadData(d, p, Zero))]
    BY DEF FetchMiss, d
  <2>2. /\ Idle(c) /\ page_table[p] = NoFrame /\ Hold(c, p, f)
        /\ page_table' = [TableWithout(f) EXCEPT ![p] = f]
    BY DEF FetchMiss
  <2> QED BY <1>1, <1>3, <2>1, <2>2, PlacePage
<1>8. IdsBelowNext'
  BY <1>4, <1>5, PoolInvParts DEF FetchMiss, TypeOK, IdsBelowNext, Ids, PageIds
<1> QED BY <1>5, <1>8

LEMMA NewPageInv ==
  ASSUME PoolInv, NEW c \in Clients, NEW f \in Frames, NewPage(c, f)
  PROVE  TableComplete' /\ HeldInPlace' /\ PinsCount' /\ IdsBelowNext'
<1> DEFINE p == disk.next_page_id
<1>1. p \in PageIds /\ p \in Ids /\ p \in Int /\ ClaimFrame(f) /\ PoolSound
  BY PoolInvParts DEF NewPage, Ids, PageIds
<1>2. page_table[p] = NoFrame
  BY <1>1, PoolInvParts DEF IdsBelowNext
<1>3. DiskWithout(f) \in DiskState /\ DiskWithout(f).next_page_id = p
  BY <1>1, ClaimSound
<1>4. disk'.next_page_id = p + 1
  BY <1>1, <1>3, ZeroAssumption, DiskOperations DEF NewPage
<1>5. /\ TableComplete' /\ HeldInPlace' /\ PinsCount'
      /\ \A q \in Ids : page_table'[q] # NoFrame => q = p \/ page_table[q] # NoFrame
  BY <1>1, <1>2, ZeroAssumption, PlacePage DEF NewPage
<1>8. IdsBelowNext'
  BY <1>1, <1>4, <1>5, PoolInvParts DEF NewPage, TypeOK, IdsBelowNext, Ids, PageIds
<1> QED BY <1>5, <1>8

LEMMA WriteDataInv ==
  ASSUME PoolInv, NEW c \in Clients, NEW data \in Contents, WriteData(c, data)
  PROVE  TableComplete' /\ HeldInPlace' /\ PinsCount' /\ IdsBelowNext'
<1> DEFINE h == held[c]
<1> DEFINE f == h.frame
<1>1. h \in HeldType /\ ~Idle(c)
  BY PoolInvParts DEF WriteData, TypeOK, Idle, HeldType
<1>2. f \in Frames /\ page_table[h.id] = f /\ f # NoFrame
  BY <1>1, PoolInvParts DEF HeldInPlace, Frames, NoFrame
<1>3. Occupied(f) /\ pages[f] \in PageObject
  BY <1>2, PoolInvParts DEF TypeOK, PoolSound, HeldOccupied, Occupied
<1>4. \A g \in Frames : pages'[g] = IF g = f THEN WrittenPage(pages[f], data) ELSE pages[g]
  BY <1>2, PoolInvParts DEF WriteData, TypeOK
<1>5. /\ WrittenPage(pages[f], data) \in PageObject
      /\ WrittenPage(pages[f], data).id = pages[f].id
      /\ WrittenPage(pages[f], data).pin_count = pages[f].pin_count
  BY <1>3 DEF WrittenPage, PageObject
<1>6. WrittenPage(pages[f], data) # nullptr
  BY <1>5, NullAssumption
<1>7. \A d \in Clients : held'[d] = IF d = c THEN [h EXCEPT !.wrote = TRUE] ELSE held[d]
  BY PoolInvParts DEF WriteData, TypeOK
<1>8. TableComplete' /\ HeldInPlace' /\ PinsCount'
  <2>1. page_table' = page_table
    BY DEF WriteData
  <2>2. \A g \in Frames :
            /\ pages'[g] # nullptr <=> pages[g] # nullptr
            /\ pages[g] # nullptr => /\ pages'[g].id = pages[g].id
                                    /\ pages'[g].pin_count = pages[g].pin_count
    BY <1>3, <1>4, <1>5, <1>6 DEF Occupied
  <2>3. \A d \in Clients : /\ held'[d].frame = held[d].frame
                           /\ held'[d].id = held[d].id
                           /\ held[d] = NoPage => held'[d] = NoPage
    BY <1>1, <1>7 DEF Idle, HeldType
  <2> QED BY <2>1, <2>2, <2>3, SameShape
<1>10. IdsBelowNext'
  BY PoolInvParts DEF WriteData, IdsBelowNext
<1> QED BY <1>8, <1>10

LEMMA UnpinPageInv ==
  ASSUME PoolInv, NEW c \in Clients, UnpinPage(c)
  PROVE  TableComplete' /\ HeldInPlace' /\ PinsCount' /\ IdsBelowNext'
<1> DEFINE h == held[c]
<1>1. h \in HeldType /\ ~Idle(c)
  BY PoolInvParts DEF UnpinPage, TypeOK, Idle, HeldType
<1>2. PICK f \in Frames : f = h.frame /\ page_table[h.id] = f /\ f # NoFrame
  BY <1>1, PoolInvParts DEF HeldInPlace, Frames, NoFrame
<1>3. Occupied(f) /\ pages[f] \in PageObject /\ pages[f].id = h.id
  BY <1>1, <1>2, PoolInvParts DEF TypeOK, TableSound, Occupied, HeldType
<1>4. held' = [held EXCEPT ![c] = NoPage]
  BY DEF UnpinPage
<1>5. /\ Cardinality(Holders(f)') = Cardinality(Holders(f)) - 1
      /\ Cardinality(Holders(f)) > 0
      /\ \A g \in Frames \ {f} : Holders(g)' = Holders(g)
  BY <1>1, <1>2, <1>4, ReleaseRemoves
<1>6. pages[f].pin_count = Cardinality(Holders(f)) /\ pages[f].pin_count \in Nat \ {0}
  BY <1>3, <1>5, PoolInvParts DEF PinsCount, PageObject
<1> DEFINE page == UnpinnedPage(pages[f], h.wrote)
<1>7. pages' = [pages EXCEPT ![f] = page] /\ UNCHANGED <<page_table, disk, historyVars>>
  BY <1>2, <1>6 DEF UnpinPage
<1>8. page.id = pages[f].id /\ page.pin_count = pages[f].pin_count - 1
  BY <1>1, <1>3, <1>6 DEF UnpinnedPage, PageObject
<1> HIDE DEF page
<1>10. \A g \in Frames : pages'[g] = IF g = f THEN page ELSE pages[g]
  BY <1>7, PoolInvParts DEF TypeOK
<1>13. TableComplete'
  BY <1>3, <1>7, <1>8, <1>10, PoolInvParts DEF TypeOK, TableComplete, Occupied
<1>15. HeldInPlace'
  BY <1>4, <1>7, PoolInvParts DEF TypeOK, HeldInPlace, Idle
<1>16. PinsCount'
  <2> SUFFICES ASSUME NEW g \in Frames, pages'[g] # nullptr
               PROVE  pages'[g].pin_count = Cardinality(Holders(g)')
    BY DEF PinsCount, Occupied
  <2>1. CASE g = f
    BY <2>1, <1>5, <1>6, <1>8, <1>10
  <2>2. CASE g # f
    BY <2>2, <1>5, <1>10, PoolInvParts DEF PinsCount, Occupied
  <2> QED BY <2>1, <2>2
<1>17. IdsBelowNext'
  BY <1>7, PoolInvParts DEF historyVars, IdsBelowNext
<1> QED BY <1>13, <1>15, <1>16, <1>17

LEMMA CleansInv ==
  ASSUME PoolInv, Cleans
  PROVE  TableComplete' /\ HeldInPlace' /\ PinsCount' /\ IdsBelowNext'
<1>1. TableComplete' /\ HeldInPlace' /\ PinsCount'
  BY PoolInvParts, CleansKeepsShape, SameShape DEF Cleans
<1>2. IdsBelowNext'
  BY PoolInvParts DEF IdsBelowNext, Cleans
<1> QED BY <1>1, <1>2

\* A page that can be deleted is not pinned, so no client loses its pointer.
LEMMA DeletePageInv ==
  ASSUME PoolInv, NEW p \in Ids, DeletePage(p)
  PROVE  TableComplete' /\ HeldInPlace' /\ PinsCount' /\ IdsBelowNext'
<1> DEFINE f == page_table[p]
<1>1. f \in Frames /\ f # NoFrame /\ pages[f].pin_count = 0
  BY PoolInvParts DEF DeletePage, Deletable, TypeOK
<1>2. Occupied(f) /\ pages[f] \in PageObject /\ pages[f].id = p
  BY <1>1, PoolInvParts DEF TypeOK, TableSound, Occupied
<1>3. Holders(f) = {}
  BY <1>1, <1>2, UnpinnedNotHeld
<1>4. held' = held
  <2>1. \A c \in Clients : held'[c] = held[c]
    BY <1>3 DEF DeletePage, Holders
  <2> QED BY <2>1, PoolInvParts DEF DeletePage, TypeOK
<1>6. \A g \in Frames : pages'[g] = IF g = f THEN nullptr ELSE pages[g]
  BY <1>1, PoolInvParts DEF DeletePage, TypeOK
<1>7. \A q \in Ids : page_table'[q] = IF q = p THEN NoFrame ELSE page_table[q]
  BY <1>1, PoolInvParts DEF DeletePage, TypeOK
<1>8. disk'.next_page_id = disk.next_page_id
  BY <1>1, <1>2, DiskOperations, PoolInvParts DEF DeletePage, DiskWithout, NeedsWriteBack, PageObject, TypeOK
<1>11. TableComplete'
  <2> SUFFICES ASSUME NEW g \in Frames, pages'[g] # nullptr
               PROVE  page_table'[pages'[g].id] = g
    BY DEF TableComplete, Occupied
  <2>1. g # f /\ pages'[g] = pages[g] /\ pages[g] \in PageObject
    BY <1>6, PoolInvParts DEF TypeOK
  <2>2. page_table[pages[g].id] = g /\ pages[g].id \in Ids
    BY <2>1, <1>6, PoolInvParts DEF TableComplete, Occupied, PageObject
  <2> QED BY <2>1, <2>2, <1>7
<1>13. HeldInPlace'
  <2> SUFFICES ASSUME NEW c \in Clients, held[c] # NoPage
               PROVE  held[c].frame \in Frames /\ page_table'[held[c].id] = held[c].frame
    BY <1>4 DEF HeldInPlace, Idle
  <2>1. held[c].frame \in Frames /\ page_table[held[c].id] = held[c].frame /\ held[c].id \in Ids
    BY PoolInvParts DEF TypeOK, HeldInPlace, Idle
  <2>2. held[c].id # p
    BY <2>1, <1>3 DEF Holders
  <2> QED BY <2>1, <2>2, <1>7
<1>14. PinsCount'
  <2>1. \A g \in Frames : Holders(g)' = Holders(g)
    BY <1>4 DEF Holders
  <2> QED BY <2>1, <1>6, PoolInvParts DEF PinsCount, Occupied
<1>15. IdsBelowNext'
  BY <1>7, <1>8, PoolInvParts DEF DeletePage, IdsBelowNext, Ids
<1> QED BY <1>11, <1>13, <1>14, <1>15

LEMMA IdlesInv ==
  ASSUME PoolInv, Idles
  PROVE  TableComplete' /\ HeldInPlace' /\ PinsCount' /\ IdsBelowNext'
BY PoolInvParts DEF TableComplete, Occupied, HeldInPlace, Idle, PinsCount, Holders, IdsBelowNext,
   historyVars, Idles

LEMMA PoolInitInv == Init => PoolInv
<1> SUFFICES ASSUME Init PROVE PoolInv
  OBVIOUS
<1>1. PICK n \in 0 .. MAX_PAGES : \E file \in [PageIds -> Contents] :
          /\ disk = OpenManager(file, n)
          /\ known = {p \in PageIds : p < n}
          /\ content = file
  BY DEF Init
<1>2. disk \in DiskState /\ disk.next_page_id = n
  BY <1>1, OpenedNextId, MaxPagesAssumption DEF OpenManager, DiskState
<1>3. PoolExact
  BY <1>1, <1>2, EmptyPoolExact DEF Init, EmptyPool
<1>4. IdsBelowNext
  BY <1>1, <1>2 DEF Init, IdsBelowNext, PageIds, Ids
<1> QED BY <1>3, <1>4 DEF PoolInv

LEMMA PoolStepInv ==
  ASSUME PoolSound, ids_in_file => PoolInv, [Next]_vars
  PROVE  ids_in_file' => PoolInv'
<1> SUFFICES ASSUME ids_in_file' PROVE PoolInv'
  OBVIOUS
<1> DEFINE Rest == TableComplete' /\ HeldInPlace' /\ PinsCount' /\ IdsBelowNext'
<1> SUFFICES Rest
  BY PoolSoundStep DEF PoolInv, PoolExact
<1>0. stuck \in BOOLEAN /\ known \cup {-1} \subseteq Ids
  BY DEF PoolSound, TypeOK, Replacer!TypeOK, Ids
<1>1. ASSUME NEW c \in Clients, NEW p \in known \cup {-1}, FetchPage(c, p) PROVE Rest
  <2>1. PoolInv
    BY <1>1 DEF FetchPage, FetchHit, FetchMiss, historyVars
  <2> QED BY <1>0, <1>1, <2>1, FetchHitInv, FetchMissInv DEF FetchPage
<1>2. ASSUME NEW c \in Clients, NEW f \in Frames, NewPage(c, f) PROVE Rest
  <2>1. PoolInv
    BY <1>2 DEF NewPage
  <2> QED BY <1>2, <2>1, NewPageInv
<1>3. CASE NoFrameToClaim
  BY <1>0, <1>3, IdlesInv DEF Idles, historyVars, NoFrameToClaim, Replacer!VictimEmpty, Replacer!clockVars
<1>4. CASE ClaimHangs
  BY <1>4, IdlesInv DEF Idles, historyVars, ClaimHangs, Replacer!VictimHangs
<1>5. ASSUME NEW c \in Clients, NEW data \in Contents, WriteData(c, data) PROVE Rest
  <2>1. PoolInv
    BY <1>5 DEF WriteData
  <2> QED BY <1>5, <2>1, WriteDataInv
<1>6. ASSUME NEW c \in Clients, UnpinPage(c) PROVE Rest
  <2>1. PoolInv
    BY <1>6 DEF UnpinPage, historyVars
  <2> QED BY <1>6, <2>1, UnpinPageInv
<1>7. ASSUME NEW p \in Ids, FlushPage(p) PROVE Rest
  BY <1>7, FlushPageCleans, CleansInv DEF Cleans
<1>8. ASSUME NEW p \in Ids, DeletePage(p) PROVE Rest
  <2>1. PoolInv
    BY <1>8 DEF DeletePage
  <2> QED BY <1>8, <2>1, DeletePageInv
<1>9. CASE FlushAllPages
  BY <1>9, FlushAllPagesCleans, CleansInv DEF Cleans
<1>10. CASE Restart
  BY <1>10, RestartStarts DEF PoolExact
<1>11. CASE UNCHANGED vars
  BY <1>0, <1>11, IdlesInv DEF Idles, historyVars, vars, clockVars
<1> QED BY <1>1, <1>2, <1>3, <1>4, <1>5, <1>6, <1>7, <1>8, <1>9, <1>10, <1>11 DEF Next

-----------------------------------------------------------------------------
(* The theorems *)

\* The invariants of every state: the weak one always, the strong one unless a
\* restart has forgotten pages whose ids are still around.
THEOREM PoolInvariant == Spec => [](PoolSound /\ (ids_in_file => PoolInv))
<1>1. Init => PoolSound /\ (ids_in_file => PoolInv)
  BY PoolSoundInit, PoolInitInv
<1>2. PoolSound /\ (ids_in_file => PoolInv) /\ [Next]_vars
        => PoolSound' /\ (ids_in_file' => PoolInv')
  BY PoolSoundStep, PoolStepInv
<1> QED BY <1>1, <1>2, PTL DEF Spec

\* Every variable of the pool keeps its type, whatever restarts forget: frame
\* numbers index the arrays, pin counts never go below zero
\* (BufferPoolManager.cpp:37-206, Page.cpp:37-45).
THEOREM PoolTypeCorrect == Spec => []TypeOK
<1>1. PoolSound => TypeOK
  BY DEF PoolSound
<1> QED BY <1>1, PoolInvariant, PTL

\* page_table and the frames agree, however pages are fetched, created, evicted
\* and deleted (BufferPoolManager.cpp:73, 85, 161, 172, 193).
THEOREM PoolMappingExact == Spec => []MappingExact
<1>1. PoolSound /\ (ids_in_file => PoolInv) => MappingExact
  BY DEF PoolSound, PoolInv, PoolExact, MappingExact
<1> QED BY <1>1, PoolInvariant, PTL

\* The replacer's candidates are exactly the unpinned pages, whatever restarts
\* forget (BufferPoolManager.cpp:45, 87, 108-111, 198).
THEOREM ReplacerHoldsUnpinned == Spec => []ReplacerExact
<1>1. PoolSound => ReplacerExact
  BY DEF PoolSound
<1> QED BY <1>1, PoolInvariant, PTL

\* A held page is neither moved nor evicted (BufferPoolManager.cpp:37-113).
THEOREM HeldPagesStay == Spec => []HeldPageStays
<1>1. (ids_in_file => PoolInv) => HeldPageStays
  BY DEF PoolInv, PoolExact, HeldPageStays
<1> QED BY <1>1, PoolInvariant, PTL

\* AllocPage never gives an id that is in use
\* (BufferPoolManager.cpp:164, DiskManager.cpp:65-71).
THEOREM FreshIds == Spec => []IdsAllocated
<1>1. (ids_in_file => PoolInv) => IdsAllocated
  BY DEF PoolInv, IdsAllocated
<1> QED BY <1>1, PoolInvariant, PTL

\* A page's pin count is the number of clients that hold it
\* (BufferPoolManager.cpp:44, 104, 172).
THEOREM PinsCountHolders == Spec => []PinsAreHolders
<1>1. (ids_in_file => PoolInv) => PinsAreHolders
  BY DEF PoolInv, PoolExact, PinsAreHolders
<1> QED BY <1>1, PoolInvariant, PTL

-----------------------------------------------------------------------------
(* The contents of the pages *)

\* The page in frame f may differ from the file: it is dirty, or a client that
\* holds it has written to it and will say so when it unpins it.
Changed(f) == pages[f].dirty \/ \E c \in Clients : held[c].frame = f /\ held[c].wrote

\* The last contents of page p are where they will be found again.  A changed page
\* has them in its frame even if its id is unreliable: its next write that
\* lands makes the id reliable.
ContentKept(p) ==
    LET f == page_table[p] IN
    IF f = NoFrame THEN p \notin unreliable => disk.file[p] = content[p]
    ELSE /\ Changed(f) \/ p \notin unreliable => pages[f].data = content[p]
         /\ ~Changed(f) /\ p \notin unreliable => disk.file[p] = content[p]

\* Nothing has been written beyond the end of the file.
Holes(d) == \A p \in PageIds : d.pages <= p => d.file[p] = Zero

\* A new page reads as zeros because its id lies beyond the end of the file.
DataInv ==
    /\ Holes(disk) /\ disk.pages <= disk.next_page_id
    /\ \A p \in known : ContentKept(p)

LEMMA WriteEffect ==
  ASSUME NEW d \in DiskState, NEW p \in Ids, NEW data \in Contents
  PROVE  LET e == AfterWrite(d, p, data) IN
         /\ \A q \in PageIds : e.file[q] = IF WriteLands(d, p) /\ q = p THEN data ELSE d.file[q]
         /\ e.pages = d.pages \/ (p \in PageIds /\ e.pages = p + 1 /\ d.pages <= p)
         /\ Holes(d) => Holes(e)
         /\ e.stream = "closed"
<1> DEFINE e == AfterWrite(d, p, data)
<1>1. CASE WriteLands(d, p)
  <2>1. p \in PageIds /\ p \in Nat /\ d.pages \in Nat /\ d.stream = "closed"
    BY <1>1, MaxPagesAssumption DEF WriteLands, Ids, PageIds, DiskState
  <2>2. /\ e.file = [d.file EXCEPT ![p] = data]
        /\ e.pages = IF p < d.pages THEN d.pages ELSE p + 1
        /\ e.stream = "closed"
    BY <1>1, <2>1 DEF AfterWrite, DiskState
  <2>3. \A q \in PageIds : e.file[q] = IF q = p THEN data ELSE d.file[q]
    BY <2>1, <2>2 DEF DiskState
  <2>4. Holes(d) => Holes(e)
    BY <2>1, <2>2, <2>3 DEF Holes, PageIds
  <2> QED BY <1>1, <2>1, <2>2, <2>3, <2>4
<1>2. CASE ~WriteLands(d, p)
  <2>1. e.file = d.file /\ e.pages = d.pages /\ e.stream = "closed"
    BY <1>2 DEF AfterWrite, DiskState
  <2> QED BY <1>2, <2>1 DEF Holes
<1> QED BY <1>1, <1>2

LEMMA ReadEffect ==
  ASSUME NEW d \in DiskState, NEW p
  PROVE  /\ AfterRead(d, p).file = d.file /\ AfterRead(d, p).pages = d.pages
         /\ AfterRead(d, p).next_page_id = d.next_page_id
BY DEF AfterRead, DiskState

\* What the write of a page that leaves its frame does to the file.
LEMMA DiskWithoutEffect ==
  ASSUME PoolInv, Holes(disk), disk.pages <= disk.next_page_id, NEW f \in Frames
  PROVE  /\ Holes(DiskWithout(f))
         /\ DiskWithout(f).pages <= disk.next_page_id
         /\ \A q \in PageIds : ~(Occupied(f) /\ q = pages[f].id) =>
               /\ DiskWithout(f).file[q] = disk.file[q]
               /\ q \in UnreliableWithout(f) <=> q \in unreliable
<1>1. disk \in DiskState
  BY PoolInvParts DEF TypeOK
<1>2. CASE NeedsWriteBack(f)
  <2> DEFINE p == pages[f].id
  <2>1. Occupied(f) /\ pages[f] \in PageObject /\ p \in Ids /\ pages[f].data \in Contents
    BY <1>2, PoolInvParts DEF NeedsWriteBack, Occupied, TypeOK, PageObject
  <2>2. page_table[p] = f /\ f # NoFrame
    BY <2>1, PoolInvParts DEF TableComplete, Frames, NoFrame
  <2>3. p \in PageIds => p < disk.next_page_id
    BY <2>2, PoolInvParts DEF IdsBelowNext
  <2>4. DiskWithout(f) = AfterWrite(disk, p, pages[f].data)
    BY <1>2 DEF DiskWithout
  <2>5. /\ \A q \in PageIds : q # p => DiskWithout(f).file[q] = disk.file[q]
        /\ \/ DiskWithout(f).pages = disk.pages
           \/ p \in PageIds /\ DiskWithout(f).pages = p + 1
        /\ Holes(DiskWithout(f))
    BY <1>1, <2>1, <2>4, WriteEffect
  <2>6. DiskWithout(f).pages <= disk.next_page_id
    BY <1>1, <2>3, <2>5 DEF DiskState, PageIds
  <2>7. \A q \in PageIds : q # p => (q \in UnreliableWithout(f) <=> q \in unreliable)
    BY <1>2 DEF UnreliableWithout
  <2> QED BY <2>1, <2>5, <2>6, <2>7
<1>3. CASE ~NeedsWriteBack(f)
  BY <1>3 DEF DiskWithout, UnreliableWithout
<1> QED BY <1>2, <1>3

\* A page that leaves its frame has its last contents in the file, unless its
\* write was dropped.
LEMMA EvictedKept ==
  ASSUME PoolInv, NEW f \in Frames, Holders(f) = {},
         NEW p \in PageIds, page_table[p] = f, ContentKept(p), p \notin UnreliableWithout(f)
  PROVE  DiskWithout(f).file[p] = content[p]
<1>1. disk \in DiskState /\ p \in Ids /\ f # NoFrame
  BY PoolInvParts DEF TypeOK, Ids, Frames, NoFrame
<1>2. Occupied(f) /\ pages[f].id = p /\ pages[f] \in PageObject
  BY <1>1, PoolInvParts DEF TableSound, Occupied, TypeOK
<1>3. Changed(f) <=> pages[f].dirty
  BY DEF Changed, Holders
<1>4. CASE pages[f].dirty
  <2>1. DiskWithout(f) = AfterWrite(disk, p, pages[f].data)
    BY <1>2, <1>4 DEF DiskWithout, NeedsWriteBack
  <2>2. WriteLands(disk, p)
    BY <1>2, <1>4 DEF UnreliableWithout, NeedsWriteBack, PageIds
  <2>3. pages[f].data = content[p]
    BY <1>1, <1>3, <1>4 DEF ContentKept
  <2> QED BY <1>1, <1>2, <2>1, <2>2, <2>3, WriteEffect DEF PageObject
<1>5. CASE ~pages[f].dirty
  BY <1>1, <1>3, <1>5 DEF DiskWithout, UnreliableWithout, NeedsWriteBack, ContentKept
<1> QED BY <1>4, <1>5

\* A step that changes neither the contents nor what is known of them.
LEMMA SameContents ==
  ASSUME PoolInv, DataInv, UNCHANGED <<page_table, disk, known, content, unreliable>>,
         \A g \in Frames : Occupied(g) => pages'[g].data = pages[g].data /\ (Changed(g)' <=> Changed(g))
  PROVE  DataInv'
<1>1. ASSUME NEW p \in known PROVE ContentKept(p)'
  <2>1. ContentKept(p) /\ p \in Ids
    BY PoolInvParts DEF DataInv, TypeOK, Ids
  <2>2. page_table[p] # NoFrame => page_table[p] \in Frames /\ Occupied(page_table[p])
    BY <2>1, PoolInvParts DEF TableSound, TypeOK
  <2> QED BY <2>1, <2>2 DEF ContentKept
<1> QED BY <1>1 DEF DataInv, Holes

\* Page p comes into a claimed frame: the page that was there keeps its contents in
\* the file, the others are not touched.
LEMMA PlaceKept ==
  ASSUME PoolInv, DataInv, NEW c \in Clients, Idle(c), NEW p \in PageIds \cup {-1}, page_table[p] = NoFrame,
         NEW f \in Frames, ClaimFrame(f), NEW data \in Contents,
         pages' = [pages EXCEPT ![f] = LoadedPage(p, data)],
         page_table' = [TableWithout(f) EXCEPT ![p] = f], Hold(c, p, f),
         disk'.file = DiskWithout(f).file,
         \A q \in PageIds : q # p => /\ content'[q] = content[q]
                                     /\ q \in unreliable' <=> q \in UnreliableWithout(f),
         p \in PageIds /\ p \notin unreliable' => data = content'[p] /\ disk'.file[p] = content'[p]
  PROVE  \A q \in known \cup ({p} \ {-1}) : ContentKept(q)'
<1>1. PoolSound /\ p \in Ids /\ Holders(f) = {} /\ Holes(disk) /\ disk.pages <= disk.next_page_id
  BY PoolInvParts, ClaimedNotHeld DEF DataInv, Ids
<1>2. \A g \in Frames : pages'[g] = IF g = f THEN LoadedPage(p, data) ELSE pages[g]
  BY <1>1, PlaceSound
<1>3. \A q \in Ids : page_table'[q] =
          IF q = p THEN f ELSE IF Occupied(f) /\ q = pages[f].id THEN NoFrame ELSE page_table[q]
  BY <1>1, PlaceSound
<1>4. \A e \in Clients : held'[e] = IF e = c THEN [id |-> p, frame |-> f, wrote |-> FALSE] ELSE held[e]
  BY PoolInvParts DEF TypeOK, Hold
<1>5. ~Changed(f)'
  BY <1>1, <1>2, <1>4 DEF Changed, LoadedPage, Holders
<1>6. \A g \in Frames \ {f} : Changed(g)' <=> Changed(g)
  BY <1>2, <1>4 DEF Changed, Idle, NoPage, NoFrame, Frames
<1>7. f # NoFrame
  BY DEF Frames, NoFrame
<1>8. ASSUME p \in PageIds PROVE ContentKept(p)'
  <2>1. page_table'[p] = f /\ pages'[f].data = data
    BY <1>1, <1>2, <1>3 DEF LoadedPage
  <2> QED BY <1>5, <1>7, <1>8, <2>1 DEF ContentKept
<1>9. ASSUME NEW q \in known, q # p PROVE ContentKept(q)'
  <2>1. q \in PageIds /\ q \in Ids /\ ContentKept(q) /\ page_table[q] \in Frames \cup {NoFrame}
    BY PoolInvParts DEF DataInv, TypeOK, Ids
  <2>2. content'[q] = content[q] /\ (q \in unreliable' <=> q \in UnreliableWithout(f))
    BY <1>9, <2>1
  <2>3. Occupied(f) => page_table[pages[f].id] = f
    BY PoolInvParts DEF TableComplete
  <2>4. CASE page_table[q] = f
    <3>1. Occupied(f) /\ pages[f].id = q
      BY <1>7, <2>1, <2>4, PoolInvParts DEF TableSound
    <3>2. page_table'[q] = NoFrame
      BY <1>3, <1>9, <2>1, <3>1
    <3>3. q \notin UnreliableWithout(f) => DiskWithout(f).file[q] = content[q]
      BY <1>1, <2>1, <2>4, EvictedKept
    <3> QED BY <2>2, <3>2, <3>3 DEF ContentKept
  <2>5. CASE page_table[q] # f
    <3>1. ~(Occupied(f) /\ q = pages[f].id)
      BY <2>3, <2>5
    <3>2. page_table'[q] = page_table[q]
      BY <1>3, <1>9, <2>1, <3>1
    <3>3. disk'.file[q] = disk.file[q] /\ (q \in unreliable' <=> q \in unreliable)
      BY <1>1, <2>1, <2>2, <3>1, DiskWithoutEffect
    <3>4. CASE page_table[q] = NoFrame
      BY <2>1, <2>2, <3>2, <3>3, <3>4 DEF ContentKept
    <3>5. CASE page_table[q] # NoFrame
      <4>1. PICK g \in Frames \ {f} : g = page_table[q]
        BY <2>1, <2>5, <3>5
      <4>2. (Changed(g)' <=> Changed(g)) /\ pages'[g] = pages[g]
        BY <1>2, <1>6
      <4>3. page_table[q] = g /\ page_table'[q] = g /\ g # NoFrame
        BY <3>2, <3>5, <4>1
      <4> QED BY <2>1, <2>2, <3>3, <4>2, <4>3 DEF ContentKept
    <3> QED BY <3>4, <3>5
  <2> QED BY <2>4, <2>5
<1>10. known \subseteq PageIds
  BY PoolInvParts DEF TypeOK
<1> QED BY <1>8, <1>9, <1>10

LEMMA FetchMissKept ==
  ASSUME PoolInv, DataInv, NEW c \in Clients, NEW p \in known \cup {-1}, NEW f \in Frames,
         FetchMiss(c, p, f)
  PROVE  DataInv'
<1> DEFINE d == DiskWithout(f)
           data == ReadData(d, p, Zero)
<1>1. p \in PageIds \cup {-1} /\ p \in Ids /\ PoolSound /\ known \subseteq PageIds /\ Holes(disk)
      /\ disk.pages <= disk.next_page_id
  BY PoolInvParts DEF TypeOK, Ids, DataInv
<1>2. /\ Idle(c) /\ page_table[p] = NoFrame /\ ClaimFrame(f) /\ Hold(c, p, f)
      /\ pages' = [pages EXCEPT ![f] = LoadedPage(p, data)]
      /\ page_table' = [TableWithout(f) EXCEPT ![p] = f]
      /\ disk' = AfterRead(d, p)
      /\ unreliable' = IF p = -1 \/ ReadDelivers(d, p)
                       THEN UnreliableWithout(f) ELSE UnreliableWithout(f) \cup {p}
      /\ UNCHANGED <<known, content>>
  BY DEF FetchMiss
<1>3. d \in DiskState /\ d.next_page_id = disk.next_page_id
  BY <1>1, <1>2, ClaimSound
<1>4. data \in Contents
  BY <1>1, <1>3, ZeroAssumption, DiskOperations
<1>5. disk'.file = d.file /\ disk'.pages = d.pages /\ disk'.next_page_id = disk.next_page_id
  BY <1>2, <1>3, ReadEffect
<1>6. /\ Holes(d) /\ d.pages <= disk.next_page_id
      /\ \A q \in PageIds : ~(Occupied(f) /\ q = pages[f].id) =>
               /\ d.file[q] = disk.file[q]
               /\ q \in UnreliableWithout(f) <=> q \in unreliable
  BY <1>1, DiskWithoutEffect
<1>7. ASSUME p \in PageIds, p \notin unreliable'
      PROVE  data = content'[p] /\ disk'.file[p] = content'[p]
  <2>1. ~(Occupied(f) /\ p = pages[f].id)
    BY <1>2, PoolInvParts DEF TableComplete, Frames, NoFrame
  <2>2. p \in known /\ ReadDelivers(d, p) /\ p \notin unreliable
    BY <1>2, <1>6, <1>7, <2>1 DEF PageIds
  <2>3. disk.file[p] = content[p]
    BY <1>2, <2>2 DEF DataInv, ContentKept
  <2>4. IntOffset(p) = p
    BY <1>7, OpenedNextId, MaxPagesAssumption DEF PageIds
  <2> QED BY <1>2, <1>5, <1>6, <1>7, <2>1, <2>2, <2>3, <2>4 DEF ReadData
<1>8. \A q \in PageIds : q # p => content'[q] = content[q] /\ (q \in unreliable' <=> q \in UnreliableWithout(f))
  BY <1>2
<1> HIDE DEF d, data
<1>9. \A q \in known \cup ({p} \ {-1}) : ContentKept(q)'
  <2>1. disk'.file = DiskWithout(f).file
    BY <1>5 DEF d
  <2> QED BY <1>1, <1>2, <1>4, <1>7, <1>8, <2>1, PlaceKept
<1>10. Holes(disk')
  BY <1>5, <1>6 DEF Holes
<1> QED BY <1>2, <1>5, <1>6, <1>9, <1>10 DEF DataInv, Holes

LEMMA NewPageKept ==
  ASSUME PoolInv, DataInv, NEW c \in Clients, NEW f \in Frames, NewPage(c, f)
  PROVE  DataInv'
<1> DEFINE d == DiskWithout(f)
           p == disk.next_page_id
<1>1. /\ p \in PageIds /\ p \in Ids /\ p \in Int /\ PoolSound /\ known \subseteq PageIds /\ Holes(disk)
      /\ disk.pages <= disk.next_page_id /\ content \in [PageIds -> Contents]
  BY PoolInvParts DEF NewPage, TypeOK, Ids, PageIds, DataInv
<1>2. /\ Idle(c) /\ ClaimFrame(f) /\ Hold(c, p, f)
      /\ pages' = [pages EXCEPT ![f] = LoadedPage(p, Zero)]
      /\ page_table' = [TableWithout(f) EXCEPT ![p] = f]
      /\ disk' = AfterAlloc(d)
      /\ unreliable' = UnreliableWithout(f)
      /\ known' = known \cup {p} /\ content' = [content EXCEPT ![p] = Zero]
  BY DEF NewPage
<1>3. page_table[p] = NoFrame
  BY <1>1, PoolInvParts DEF IdsBelowNext
<1>4. d \in DiskState /\ d.next_page_id = p
  BY <1>1, <1>2, ClaimSound
<1>5. disk'.file = d.file /\ disk'.pages = d.pages /\ disk'.next_page_id = p + 1
  BY <1>2, <1>4 DEF AfterAlloc, DiskState
<1>6. Holes(d) /\ d.pages <= p
  BY <1>1, DiskWithoutEffect
<1>7. disk'.file[p] = Zero /\ content'[p] = Zero
  BY <1>1, <1>2, <1>5, <1>6 DEF Holes
<1>8. \A q \in PageIds : q # p => content'[q] = content[q] /\ (q \in unreliable' <=> q \in UnreliableWithout(f))
  BY <1>1, <1>2
<1> HIDE DEF d, p
<1>9. \A q \in known \cup ({p} \ {-1}) : ContentKept(q)'
  <2>1. disk'.file = DiskWithout(f).file /\ p \in PageIds \cup {-1}
    BY <1>1, <1>5 DEF d
  <2> QED BY <1>1, <1>2, <1>3, <1>7, <1>8, <2>1, ZeroAssumption, PlaceKept
<1>10. p # -1 /\ d.pages <= p + 1
  BY <1>1, <1>4, <1>6 DEF PageIds, DiskState
<1> QED BY <1>2, <1>5, <1>6, <1>9, <1>10 DEF DataInv, Holes

LEMMA FetchHitKept ==
  ASSUME PoolInv, DataInv, NEW c \in Clients, NEW p \in Ids, FetchHit(c, p)
  PROVE  DataInv'
<1>1. PICK f \in Frames : f = page_table[p] /\ f # NoFrame
  BY PoolInvParts DEF FetchHit, TypeOK
<1>2. pages[f] \in PageObject
  BY <1>1, PoolInvParts DEF TypeOK, TableSound, Occupied
<1>3. \A g \in Frames : pages'[g] = IF g = f THEN PinnedPage(pages[f]) ELSE pages[g]
  BY <1>1, PoolInvParts DEF FetchHit, TypeOK
<1>4. \A g \in Frames : Occupied(g) => pages'[g].data = pages[g].data /\ pages'[g].dirty = pages[g].dirty
  BY <1>2, <1>3 DEF PinnedPage, PageObject
<1>5. \A e \in Clients : held'[e] = IF e = c THEN [id |-> p, frame |-> f, wrote |-> FALSE] ELSE held[e]
  BY <1>1, PoolInvParts DEF FetchHit, TypeOK, Hold
<1>6. \A g \in Frames : Occupied(g) => (Changed(g)' <=> Changed(g))
  BY <1>4, <1>5 DEF Changed, FetchHit, Idle, NoPage, NoFrame, Frames
<1> QED BY <1>4, <1>6, SameContents DEF FetchHit, historyVars

LEMMA WriteDataKept ==
  ASSUME PoolInv, DataInv, NEW c \in Clients, NEW data \in Contents, WriteData(c, data)
  PROVE  DataInv'
<1> DEFINE h == held[c]
<1>1. h \in HeldType /\ ~Idle(c)
  BY PoolInvParts DEF WriteData, TypeOK, Idle, HeldType
<1>2. PICK f \in Frames : f = h.frame /\ page_table[h.id] = f /\ f # NoFrame
  BY <1>1, PoolInvParts DEF HeldInPlace, Frames, NoFrame
<1>3. pages[f] \in PageObject /\ pages[f].id = h.id
  BY <1>1, <1>2, PoolInvParts DEF TypeOK, TableSound, Occupied, HeldType
<1>4. \A g \in Frames : pages'[g] = IF g = f THEN WrittenPage(pages[f], data) ELSE pages[g]
  BY <1>2, PoolInvParts DEF WriteData, TypeOK
<1>5. \A e \in Clients : held'[e] = IF e = c THEN [h EXCEPT !.wrote = TRUE] ELSE held[e]
  BY PoolInvParts DEF WriteData, TypeOK
<1>6. Changed(f)' /\ pages'[f].data = data
  <2>1. held'[c].frame = f /\ held'[c].wrote
    BY <1>1, <1>2, <1>5 DEF HeldType
  <2> QED BY <1>3, <1>4, <2>1 DEF Changed, WrittenPage, PageObject
<1>7. \A g \in Frames \ {f} : Changed(g)' <=> Changed(g)
  <2>1. \A e \in Clients : held'[e].frame = held[e].frame /\ (e # c => held'[e].wrote = held[e].wrote)
    BY <1>1, <1>5 DEF HeldType
  <2> QED BY <1>2, <1>4, <2>1 DEF Changed
<1>8. UNCHANGED <<page_table, disk, known, unreliable>>
  BY DEF WriteData
<1>9. content \in [PageIds -> Contents] /\ content' = IF h.id = -1 THEN content ELSE [content EXCEPT ![h.id] = data]
  BY PoolInvParts DEF WriteData, TypeOK
<1>10. ASSUME NEW q \in known PROVE ContentKept(q)'
  <2>1. q \in PageIds /\ q \in Ids /\ q # -1 /\ ContentKept(q) /\ page_table[q] \in Frames \cup {NoFrame}
    BY PoolInvParts DEF DataInv, TypeOK, Ids, PageIds
  <2>2. CASE q = h.id
    BY <1>2, <1>6, <1>8, <1>9, <2>1, <2>2 DEF ContentKept
  <2>3. CASE q # h.id
    <3>1. content'[q] = content[q]
      BY <1>9, <2>1, <2>3
    <3>2. CASE page_table[q] = NoFrame
      BY <1>8, <2>1, <3>1, <3>2 DEF ContentKept
    <3>3. CASE page_table[q] # NoFrame
      <4>1. PICK g \in Frames : g = page_table[q]
        BY <2>1, <3>3
      <4>2. g # f
        BY <1>3, <2>1, <2>3, <3>3, <4>1, PoolInvParts DEF TableSound
      <4>3. pages'[g] = pages[g] /\ (Changed(g)' <=> Changed(g))
        BY <1>4, <1>7, <4>2
      <4>4. page_table[q] = g /\ page_table'[q] = g /\ g # NoFrame
        BY <1>8, <3>3, <4>1
      <4> QED BY <1>8, <2>1, <3>1, <4>3, <4>4 DEF ContentKept
    <3> QED BY <3>2, <3>3
  <2> QED BY <2>2, <2>3
<1> QED BY <1>8, <1>10 DEF DataInv, Holes

\* What the client wrote is in the dirty bit once it has let go of the page.
LEMMA UnpinPageKept ==
  ASSUME PoolInv, DataInv, NEW c \in Clients, UnpinPage(c)
  PROVE  DataInv'
<1> DEFINE h == held[c]
<1>1. h \in HeldType /\ ~Idle(c)
  BY PoolInvParts DEF UnpinPage, TypeOK, Idle, HeldType
<1>2. PICK f \in Frames : f = h.frame /\ page_table[h.id] = f /\ f # NoFrame
  BY <1>1, PoolInvParts DEF HeldInPlace, Frames, NoFrame
<1>3. Occupied(f) /\ pages[f] \in PageObject
  BY <1>1, <1>2, PoolInvParts DEF TypeOK, TableSound, Occupied, HeldType
<1>4. held' = [held EXCEPT ![c] = NoPage]
  BY DEF UnpinPage
<1>5. pages[f].pin_count # 0
  <2>1. Cardinality(Holders(f)) > 0 /\ pages[f].pin_count = Cardinality(Holders(f))
    BY <1>1, <1>2, <1>3, <1>4, ReleaseRemoves, PoolInvParts DEF PinsCount
  <2> QED BY <2>1
<1> DEFINE page == UnpinnedPage(pages[f], h.wrote)
<1>6. pages' = [pages EXCEPT ![f] = page] /\ UNCHANGED <<page_table, disk, historyVars>>
  BY <1>2, <1>5 DEF UnpinPage
<1>7. page.data = pages[f].data /\ page.dirty = (pages[f].dirty \/ h.wrote)
  BY DEF UnpinnedPage
<1> HIDE DEF page
<1>8. \A g \in Frames : pages'[g] = IF g = f THEN page ELSE pages[g]
  BY <1>6, PoolInvParts DEF TypeOK
<1>9. \A e \in Clients : held'[e] = IF e = c THEN NoPage ELSE held[e]
  BY <1>4, PoolInvParts DEF TypeOK
<1>10. \A g \in Frames : Changed(g)' <=> Changed(g)
  <2> SUFFICES ASSUME NEW g \in Frames PROVE Changed(g)' <=> Changed(g)
    OBVIOUS
  <2>1. NoPage.frame # g
    BY DEF NoPage, NoFrame, Frames
  <2>2. CASE g = f
    <3>1. Changed(f) <=> pages[f].dirty \/ h.wrote
                         \/ \E e \in Clients \ {c} : held[e].frame = f /\ held[e].wrote
      BY <1>2, Zenon DEF Changed
    <3>2. Changed(f)' <=> page.dirty \/ \E e \in Clients \ {c} : held[e].frame = f /\ held[e].wrote
      BY <1>8, <1>9, <2>1, <2>2 DEF Changed
    <3> QED BY <1>7, <2>2, <3>1, <3>2
  <2>3. CASE g # f
    BY <1>2, <1>8, <1>9, <2>1, <2>3 DEF Changed
  <2> QED BY <2>2, <2>3
<1> QED BY <1>6, <1>7, <1>8, <1>10, SameContents DEF historyVars

LEMMA DeletePageKept ==
  ASSUME PoolInv, DataInv, NEW p \in Ids, DeletePage(p)
  PROVE  DataInv'
<1>1. PICK f \in Frames : f = page_table[p] /\ f # NoFrame /\ pages[f].pin_count = 0
  BY PoolInvParts DEF DeletePage, Deletable, TypeOK
<1>2. Occupied(f) /\ pages[f] \in PageObject /\ pages[f].id = p
  BY <1>1, PoolInvParts DEF TypeOK, TableSound, Occupied
<1>3. Holders(f) = {} /\ Holes(disk) /\ disk.pages <= disk.next_page_id
  BY <1>1, <1>2, UnpinnedNotHeld DEF DataInv
<1>4. \A c \in Clients : held'[c] = held[c]
  BY <1>1, <1>3 DEF DeletePage, Holders
<1>5. \A g \in Frames : pages'[g] = IF g = f THEN nullptr ELSE pages[g]
  BY <1>1, PoolInvParts DEF DeletePage, TypeOK
<1>6. \A q \in Ids : page_table'[q] = IF q = p THEN NoFrame ELSE page_table[q]
  BY <1>1, PoolInvParts DEF DeletePage, TypeOK
<1>7. disk' = DiskWithout(f) /\ unreliable' = UnreliableWithout(f) /\ UNCHANGED <<known, content>>
  BY <1>1 DEF DeletePage
<1>8. \A g \in Frames \ {f} : Changed(g)' <=> Changed(g)
  BY <1>4, <1>5 DEF Changed
<1>9. disk'.next_page_id = disk.next_page_id
  BY <1>2, <1>7, DiskOperations, PoolInvParts DEF DiskWithout, NeedsWriteBack, PageObject, TypeOK
<1>10. ASSUME NEW q \in known PROVE ContentKept(q)'
  <2>1. q \in PageIds /\ q \in Ids /\ ContentKept(q) /\ page_table[q] \in Frames \cup {NoFrame}
    BY PoolInvParts DEF DataInv, TypeOK, Ids
  <2>2. CASE q = p
    <3>1. q \notin UnreliableWithout(f) => DiskWithout(f).file[q] = content[q]
      BY <1>1, <1>3, <2>1, <2>2, EvictedKept
    <3> QED BY <1>6, <1>7, <2>1, <2>2, <3>1 DEF ContentKept
  <2>3. CASE q # p
    <3>1. disk'.file[q] = disk.file[q] /\ (q \in unreliable' <=> q \in unreliable)
      BY <1>2, <1>3, <1>7, <2>1, <2>3, DiskWithoutEffect
    <3>2. page_table'[q] = page_table[q]
      BY <1>6, <2>1, <2>3
    <3>3. CASE page_table[q] = NoFrame
      BY <1>7, <2>1, <3>1, <3>2, <3>3 DEF ContentKept
    <3>4. CASE page_table[q] # NoFrame
      <4>1. PICK g \in Frames : g = page_table[q]
        BY <2>1, <3>4
      <4>2. g # f
        BY <1>2, <2>1, <2>3, <3>4, <4>1, PoolInvParts DEF TableSound
      <4>3. pages'[g] = pages[g] /\ (Changed(g)' <=> Changed(g))
        BY <1>5, <1>8, <4>2
      <4>4. page_table[q] = g /\ page_table'[q] = g /\ g # NoFrame
        BY <3>2, <3>4, <4>1
      <4> QED BY <1>7, <2>1, <3>1, <4>3, <4>4 DEF ContentKept
    <3> QED BY <3>3, <3>4
  <2> QED BY <2>2, <2>3
<1> QED BY <1>3, <1>7, <1>9, <1>10, DiskWithoutEffect DEF DataInv, Holes

\* A page with an entry has its id below the next one, and a page object in its frame.
LEMMA EntryFacts ==
  ASSUME PoolInv, NEW p \in Ids, page_table[p] # NoFrame
  PROVE  /\ page_table[p] \in Frames /\ Occupied(page_table[p])
         /\ pages[page_table[p]] \in PageObject /\ pages[page_table[p]].id = p
         /\ p \in PageIds => p < disk.next_page_id
BY PoolInvParts DEF TypeOK, TableSound, Occupied, IdsBelowNext

\* A page that is cleaned has its last contents in the file, or its id becomes
\* unreliable; the contents in its frame stay.
LEMMA CleanedKept ==
  ASSUME PoolInv, DataInv, Cleans, NEW q \in known,
         \/ /\ page_table[q] # NoFrame => pages'[page_table[q]] = pages[page_table[q]]
            /\ disk'.file[q] = disk.file[q] /\ (q \in unreliable' <=> q \in unreliable)
         \/ /\ page_table[q] # NoFrame /\ pages[page_table[q]].dirty
            /\ disk'.file[q] = pages[page_table[q]].data \/ q \in unreliable'
  PROVE  ContentKept(q)'
<1>1. q \in PageIds /\ q \in Ids /\ ContentKept(q) /\ UNCHANGED <<page_table, held, content>>
  BY PoolInvParts DEF DataInv, TypeOK, Ids, Cleans
<1>2. CASE page_table[q] = NoFrame
  BY <1>1, <1>2 DEF ContentKept
<1>3. CASE page_table[q] # NoFrame
  <2>1. PICK f \in Frames : f = page_table[q]
    BY <1>1, <1>3, EntryFacts
  <2>2. pages[f] \in PageObject /\ Occupied(f) /\ f # NoFrame
    BY <1>1, <1>3, <2>1, EntryFacts
  <2>3. pages'[f].data = pages[f].data /\ (pages'[f].dirty => pages[f].dirty)
    <3>1. CASE pages'[f] = pages[f]
      BY <3>1
    <3>2. CASE pages'[f] = CleanPage(pages[f])
      BY <2>2, <3>2 DEF CleanPage, PageObject
    <3> QED BY <3>1, <3>2 DEF Cleans
  <2>4. Changed(f)' => Changed(f)
    BY <1>1, <2>3 DEF Changed
  <2>5. page_table[q] = f /\ page_table'[q] = f
    BY <1>1, <2>1
  <2>6. CASE pages[f].dirty /\ (disk'.file[q] = pages[f].data \/ q \in unreliable')
    <3>1. Changed(f)
      BY <2>6 DEF Changed
    <3>2. pages[f].data = content[q]
      BY <1>1, <2>2, <2>5, <3>1 DEF ContentKept
    <3> QED BY <1>1, <2>2, <2>3, <2>5, <2>6, <3>2 DEF ContentKept
  <2>7. CASE pages'[f] = pages[f] /\ disk'.file[q] = disk.file[q] /\ (q \in unreliable' <=> q \in unreliable)
    <3>1. Changed(f)' <=> Changed(f)
      BY <1>1, <2>7 DEF Changed
    <3> QED BY <1>1, <2>2, <2>5, <2>7, <3>1 DEF ContentKept
  <2> QED BY <1>3, <2>1, <2>6, <2>7
<1> QED BY <1>2, <1>3

LEMMA FlushPageKept ==
  ASSUME PoolInv, DataInv, NEW p \in Ids, FlushPage(p)
  PROVE  DataInv'
<1>1. PoolSound /\ Cleans /\ disk \in DiskState
  BY PoolInvParts, FlushPageCleans DEF TypeOK
<1>2. PICK f \in Frames : f = page_table[p] /\ f # NoFrame /\ pages[f].dirty
  BY PoolInvParts DEF FlushPage, TypeOK
<1>3. pages[f] \in PageObject /\ pages[f].data \in Contents /\ (p \in PageIds => p < disk.next_page_id)
  BY <1>2, EntryFacts DEF PageObject
<1>4. disk' = AfterWrite(disk, p, pages[f].data)
      /\ unreliable' = IF WriteLands(disk, p) THEN unreliable \ {p} ELSE unreliable \cup ({p} \ {-1})
  BY <1>2 DEF FlushPage
<1>5. /\ \A q \in PageIds : disk'.file[q] = IF WriteLands(disk, p) /\ q = p THEN pages[f].data ELSE disk.file[q]
      /\ disk'.pages = disk.pages \/ (p \in PageIds /\ disk'.pages = p + 1 /\ disk.pages <= p)
      /\ Holes(disk')
  BY <1>1, <1>3, <1>4, WriteEffect DEF DataInv
<1>6. disk'.pages <= disk'.next_page_id
  BY <1>1, <1>3, <1>5 DEF DataInv, Cleans, DiskState, PageIds
<1>7. ASSUME NEW q \in known PROVE ContentKept(q)'
  <2>1. q \in PageIds /\ q \in Ids /\ q # -1
    BY PoolInvParts DEF TypeOK, Ids, PageIds
  <2>2. CASE q = p
    <3>1. disk'.file[q] = pages[f].data \/ q \in unreliable'
      BY <1>4, <1>5, <2>1, <2>2
    <3> QED BY <1>1, <1>2, <2>2, <3>1, CleanedKept
  <2>3. CASE q # p
    <3>1. disk'.file[q] = disk.file[q] /\ (q \in unreliable' <=> q \in unreliable)
      BY <1>4, <1>5, <2>1, <2>3
    <3>2. page_table[q] # NoFrame => pages'[page_table[q]] = pages[page_table[q]]
      BY <1>2, <2>1, <2>3, EntryFacts, PoolInvParts DEF FlushPage, TypeOK
    <3> QED BY <1>1, <3>1, <3>2, CleanedKept
  <2> QED BY <2>2, <2>3
<1> QED BY <1>1, <1>5, <1>6, <1>7 DEF DataInv, Holes, Cleans

\* Only the page the loop meets first can miss the file.
LEMMA FlushAllPagesKept ==
  ASSUME PoolInv, DataInv, FlushAllPages
  PROVE  DataInv'
<1>1. PoolSound /\ Cleans /\ disk \in DiskState
  BY PoolInvParts, FlushAllPagesCleans DEF TypeOK
<1>2. PICK first \in DirtyIds :
      LET d == AfterWrite(disk, first, pages[page_table[first]].data)
          rest == (DirtyIds \ {first}) \ {-1}
          data(p) == pages[page_table[p]].data
      IN
      /\ \E n \in d.pages .. MAX_PAGES :
            /\ \A p \in rest : p < n
            /\ n = d.pages \/ n - 1 \in rest
            /\ disk' = [d EXCEPT !.file = [p \in PageIds |-> IF p \in rest THEN data(p) ELSE d.file[p]],
                                 !.pages = n]
      /\ pages' = [f \in Frames |->
                     IF Occupied(f) /\ page_table[pages[f].id] = f
                     THEN CleanPage(pages[f]) ELSE pages[f]]
      /\ unreliable' = (IF WriteLands(disk, first) THEN unreliable \ {first}
                        ELSE unreliable \cup ({first} \ {-1})) \ rest
  BY DEF FlushAllPages
<1> DEFINE d == AfterWrite(disk, first, pages[page_table[first]].data)
           rest == (DirtyIds \ {first}) \ {-1}
<1>3. /\ first \in Ids /\ page_table[first] # NoFrame /\ pages[page_table[first]].data \in Contents
      /\ first \in PageIds => first < disk.next_page_id
  BY EntryFacts DEF DirtyIds, PageObject
<1>4. /\ d \in DiskState /\ d.next_page_id = disk.next_page_id /\ Holes(d)
      /\ \A q \in PageIds : d.file[q] = IF WriteLands(disk, first) /\ q = first
                                        THEN pages[page_table[first]].data ELSE disk.file[q]
      /\ d.pages = disk.pages \/ (first \in PageIds /\ d.pages = first + 1)
  BY <1>1, <1>3, WriteEffect, DiskOperations DEF DataInv
<1>5. PICK n \in d.pages .. MAX_PAGES :
            /\ \A p \in rest : p < n
            /\ n = d.pages \/ n - 1 \in rest
            /\ disk' = [d EXCEPT !.file = [p \in PageIds |-> IF p \in rest THEN pages[page_table[p]].data
                                                                     ELSE d.file[p]],
                                 !.pages = n]
  BY <1>2
<1> HIDE DEF d, rest
<1>6. /\ disk'.pages = n /\ disk'.next_page_id = disk.next_page_id
      /\ \A q \in PageIds : disk'.file[q] = IF q \in rest THEN pages[page_table[q]].data ELSE d.file[q]
  BY <1>4, <1>5 DEF DiskState
<1>7. rest \subseteq PageIds /\ \A q \in rest : q < disk.next_page_id
  BY EntryFacts DEF rest, DirtyIds, Ids
<1>8. disk'.pages <= disk'.next_page_id
  BY <1>1, <1>3, <1>4, <1>5, <1>6, <1>7 DEF DataInv, DiskState, PageIds
<1>9. Holes(disk')
  BY <1>4, <1>5, <1>6, <1>7, MaxPagesAssumption DEF Holes, PageIds, DiskState
<1>10. ASSUME NEW q \in known PROVE ContentKept(q)'
  <2>1. q \in PageIds /\ q \in Ids /\ q # -1
    BY PoolInvParts DEF TypeOK, Ids, PageIds
  <2>2. CASE q \in DirtyIds
    <3>1. page_table[q] # NoFrame /\ pages[page_table[q]].dirty
      BY <2>2 DEF DirtyIds
    <3>2. disk'.file[q] = pages[page_table[q]].data \/ q \in unreliable'
      BY <1>2, <1>4, <1>6, <2>1, <2>2 DEF rest
    <3> QED BY <1>1, <3>1, <3>2, CleanedKept
  <2>3. CASE q \notin DirtyIds
    <3>1. disk'.file[q] = disk.file[q] /\ (q \in unreliable' <=> q \in unreliable)
      BY <1>2, <1>4, <1>6, <2>1, <2>3 DEF rest
    <3>2. ASSUME page_table[q] # NoFrame PROVE pages'[page_table[q]] = pages[page_table[q]]
      <4>1. /\ page_table[q] \in Frames /\ pages[page_table[q]] \in PageObject
            /\ ~pages[page_table[q]].dirty
        BY <2>1, <2>3, <3>2, EntryFacts DEF DirtyIds
      <4>2. CleanPage(pages[page_table[q]]) = pages[page_table[q]]
        BY <4>1 DEF CleanPage, PageObject
      <4> QED BY <1>2, <4>1, <4>2
    <3> QED BY <1>1, <3>1, <3>2, CleanedKept
  <2> QED BY <2>2, <2>3
<1> QED BY <1>1, <1>8, <1>9, <1>10 DEF DataInv, Holes, Cleans

\* Always, what lies beyond the end of the file is zeros.
LEMMA HolesStep ==
  ASSUME PoolSound, Holes(disk), [Next]_vars
  PROVE  Holes(disk')
<1>1. disk \in DiskState /\ known \cup {-1} \subseteq Ids
  BY DEF PoolSound, TypeOK, Ids
<1>2. ASSUME NEW f \in Frames PROVE Holes(DiskWithout(f))
  BY <1>1, WriteEffect DEF DiskWithout, NeedsWriteBack, Occupied, PoolSound, TypeOK, PageObject
<1>3. ASSUME NEW c \in Clients, NEW p \in known \cup {-1}, FetchPage(c, p) PROVE Holes(disk')
  <2>1. CASE FetchHit(c, p)
    BY <2>1 DEF FetchHit
  <2>2. ASSUME NEW f \in Frames, FetchMiss(c, p, f) PROVE Holes(disk')
    <3>1. DiskWithout(f) \in DiskState /\ disk' = AfterRead(DiskWithout(f), p)
      BY <2>2, ClaimSound DEF FetchMiss
    <3> QED BY <1>2, <3>1, ReadEffect DEF Holes
  <2> QED BY <1>3, <2>1, <2>2 DEF FetchPage
<1>4. ASSUME NEW c \in Clients, NEW f \in Frames, NewPage(c, f) PROVE Holes(disk')
  <2>1. DiskWithout(f) \in DiskState /\ disk' = AfterAlloc(DiskWithout(f))
    BY <1>4, ClaimSound DEF NewPage
  <2> QED BY <1>2, <2>1 DEF Holes, AfterAlloc, DiskState
<1>5. CASE NoFrameToClaim \/ ClaimHangs
  BY <1>5 DEF NoFrameToClaim, ClaimHangs
<1>6. ASSUME NEW c \in Clients, NEW data \in Contents, WriteData(c, data) \/ UnpinPage(c) PROVE Holes(disk')
  BY <1>6 DEF WriteData, UnpinPage
<1>7. ASSUME NEW p \in Ids, FlushPage(p) PROVE Holes(disk')
  <2>1. page_table[p] \in Frames /\ pages[page_table[p]].data \in Contents
    BY <1>7 DEF FlushPage, PoolSound, TypeOK, TableSound, Occupied, PageObject
  <2> QED BY <1>1, <1>7, <2>1, WriteEffect DEF FlushPage
<1>8. ASSUME NEW p \in Ids, DeletePage(p) PROVE Holes(disk')
  BY <1>2, <1>8 DEF DeletePage, PoolSound, TypeOK
<1>9. CASE FlushAllPages
  <2>1. PICK first \in DirtyIds :
        \E n \in AfterWrite(disk, first, pages[page_table[first]].data).pages .. MAX_PAGES :
            /\ \A p \in (DirtyIds \ {first}) \ {-1} : p < n
            /\ disk' = [AfterWrite(disk, first, pages[page_table[first]].data) EXCEPT
                          !.file = [p \in PageIds |-> IF p \in (DirtyIds \ {first}) \ {-1}
                                      THEN pages[page_table[p]].data
                                      ELSE AfterWrite(disk, first, pages[page_table[first]].data).file[p]],
                          !.pages = n]
    BY <1>9 DEF FlushAllPages
  <2> DEFINE d == AfterWrite(disk, first, pages[page_table[first]].data)
             rest == (DirtyIds \ {first}) \ {-1}
  <2>2. first \in Ids /\ pages[page_table[first]].data \in Contents
    BY DEF DirtyIds, PoolSound, TypeOK, TableSound, Occupied, PageObject
  <2>3. d \in DiskState /\ Holes(d)
    BY <1>1, <2>2, WriteEffect, DiskOperations
  <2>4. PICK n \in d.pages .. MAX_PAGES :
            /\ \A p \in rest : p < n
            /\ disk' = [d EXCEPT !.file = [p \in PageIds |-> IF p \in rest THEN pages[page_table[p]].data
                                                                     ELSE d.file[p]],
                                 !.pages = n]
    BY <2>1
  <2> HIDE DEF d
  <2>5. disk'.pages = n /\ \A q \in PageIds : q \notin rest => disk'.file[q] = d.file[q]
    BY <2>3, <2>4 DEF DiskState
  <2> QED BY <2>3, <2>4, <2>5, MaxPagesAssumption DEF Holes, PageIds, DiskState
<1>10. CASE Restart
  BY <1>10 DEF Restart, OpenManager, Holes
<1>11. CASE UNCHANGED vars
  BY <1>11 DEF vars
<1> QED BY <1>3, <1>4, <1>5, <1>6, <1>7, <1>8, <1>9, <1>10, <1>11, ZeroAssumption DEF Next

LEMMA DataStep ==
  ASSUME PoolSound, Holes(disk), ids_in_file => PoolInv /\ DataInv, [Next]_vars
  PROVE  ids_in_file' => DataInv'
<1> SUFFICES ASSUME ids_in_file' PROVE DataInv'
  OBVIOUS
<1>1. CASE Restart
  <2>1. disk' = OpenManager(disk.file, disk.pages) /\ disk.pages \in 0 .. MAX_PAGES
    BY <1>1 DEF Restart, PoolSound, TypeOK, DiskState
  <2>2. disk'.file = disk.file /\ disk'.pages = disk.pages /\ disk'.next_page_id = disk.pages
    BY <2>1, OpenedNextId DEF OpenManager
  <2>3. disk'.pages <= disk'.next_page_id
    BY <2>1, <2>2, MaxPagesAssumption
  <2>4. ASSUME NEW p \in known' PROVE ContentKept(p)'
    <3>1. p \in Ids
      BY <1>1 DEF Restart, PoolSound, TypeOK, Ids
    <3> QED BY <1>1, <2>2, <3>1 DEF Restart, ContentKept
  <2> QED BY <2>2, <2>3, <2>4 DEF DataInv, Holes
<1> SUFFICES ASSUME ~Restart PROVE DataInv'
  BY <1>1
<1>2. UNCHANGED ids_in_file
  BY DEF Next, vars, historyVars, FetchPage, FetchHit, FetchMiss, NewPage, NoFrameToClaim, ClaimHangs, WriteData,
     UnpinPage, FlushPage, DeletePage, FlushAllPages
<1>3. PoolInv /\ DataInv /\ known \cup {-1} \subseteq Ids
  BY <1>2 DEF PoolSound, TypeOK, Ids
<1>4. ASSUME Idles PROVE DataInv'
  BY <1>3, <1>4, SameContents DEF Idles, historyVars, Changed
<1>5. stuck \in BOOLEAN
  BY DEF PoolSound, TypeOK, Replacer!TypeOK
<1>6. ASSUME NEW c \in Clients, NEW p \in known \cup {-1}, FetchPage(c, p) PROVE DataInv'
  BY <1>3, <1>6, FetchHitKept, FetchMissKept DEF FetchPage
<1>7. ASSUME NEW c \in Clients, NEW f \in Frames, NewPage(c, f) PROVE DataInv'
  BY <1>3, <1>7, NewPageKept
<1>8. CASE NoFrameToClaim
  BY <1>4, <1>5, <1>8 DEF Idles, NoFrameToClaim, Replacer!VictimEmpty, Replacer!clockVars
<1>9. CASE ClaimHangs
  BY <1>4, <1>9 DEF Idles, ClaimHangs, Replacer!VictimHangs
<1>10. ASSUME NEW c \in Clients, NEW data \in Contents, WriteData(c, data) PROVE DataInv'
  BY <1>3, <1>10, WriteDataKept
<1>11. ASSUME NEW c \in Clients, UnpinPage(c) PROVE DataInv'
  BY <1>3, <1>11, UnpinPageKept
<1>12. ASSUME NEW p \in Ids, FlushPage(p) \/ DeletePage(p) PROVE DataInv'
  BY <1>3, <1>12, FlushPageKept, DeletePageKept
<1>13. CASE FlushAllPages
  BY <1>3, <1>13, FlushAllPagesKept
<1>14. CASE UNCHANGED vars
  BY <1>4, <1>5, <1>14 DEF Idles, vars, clockVars
<1> QED BY <1>6, <1>7, <1>8, <1>9, <1>10, <1>11, <1>12, <1>13, <1>14 DEF Next

LEMMA DataInit == Init => Holes(disk) /\ DataInv
<1> SUFFICES ASSUME Init PROVE Holes(disk) /\ DataInv
  OBVIOUS
<1>1. PICK n \in 0 .. MAX_PAGES : \E file \in [PageIds -> Contents] :
          /\ \A p \in PageIds : p >= n => file[p] = Zero
          /\ disk = OpenManager(file, n)
          /\ known = {p \in PageIds : p < n}
          /\ content = file
  BY DEF Init
<1>2. /\ \A p \in PageIds : p >= n => disk.file[p] = Zero
      /\ disk.pages = n /\ disk.next_page_id = n /\ n \in Nat /\ disk.file = content
  BY <1>1, OpenedNextId, MaxPagesAssumption DEF OpenManager
<1>3. Holes(disk)
  BY <1>2 DEF Holes, PageIds
<1>4. \A p \in known : ContentKept(p)
  BY <1>1, <1>2 DEF Init, ContentKept, Ids
<1> QED BY <1>2, <1>3, <1>4 DEF DataInv

\* The last contents of a page are in its frame or, when it has none, in the file,
\* whatever is fetched, evicted, flushed and deleted in between, unless the
\* stream dropped a write of it or gave nothing on a read of it
\* (BufferPoolManager.cpp:68-72, 123-129, 154-160, 187-191).
THEOREM LastWritesKept == Spec => []LastWriteKept
<1>1. Spec => [](PoolSound /\ (ids_in_file => PoolInv))
  BY PoolInvariant
<1>2. Init => Holes(disk) /\ (ids_in_file => DataInv)
  BY DataInit
<1>3. PoolSound /\ (ids_in_file => PoolInv) /\ Holes(disk) /\ (ids_in_file => DataInv) /\ [Next]_vars
        => (Holes(disk) /\ (ids_in_file => DataInv))'
  BY HolesStep, DataStep
<1>4. PoolSound /\ (ids_in_file => DataInv) => LastWriteKept
  <2> SUFFICES ASSUME PoolSound, ids_in_file => DataInv PROVE LastWriteKept
    OBVIOUS
  <2> QED BY DEF LastWriteKept, DataInv, ContentKept
<1> QED BY <1>1, <1>2, <1>3, <1>4, PTL DEF Spec
=============================================================================
