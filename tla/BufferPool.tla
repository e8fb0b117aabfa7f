----------------------------- MODULE BufferPool -----------------------------
(***************************************************************************)
(* The buffer pool manager (src/MiniDB/src/buffer/BufferPoolManager.cpp)   *)
(* with its replacer (LayeredClock), its disk manager (DiskFile), its      *)
(* pages (Page.cpp) and clients that fetch, write and release pages.       *)
(* Every method holds the pool's latch from entry to return and is one     *)
(* step here; clients write to the pages they hold without it.             *)
(***************************************************************************)
EXTENDS DiskFile, FiniteSets

CONSTANTS
    pool_size, COLD_EVICTION_PRIORITY, RelockOutcomes,
    nullptr,   \* an empty frame
    Clients    \* threads that use pages (heap, index, executors); one page each

ASSUME PoolSizeAssumption == pool_size \in Nat \ {0}
ASSUME OffsetsFit == MAX_PAGES < INT_PAGES
ASSUME ClientsAssumption == IsFiniteSet(Clients)

Ids == PageIds \cup {-1}        \* -1: first_page_id of a heap whose NewPage failed
NoFrame == -1                   \* page_table has no entry; a client holds nothing
Leaked == -2                    \* a client's pointer to a Page no frame refers to
NoPage == [id |-> -1, frame |-> NoFrame, wrote |-> FALSE]

VARIABLES
    pages,        \* pages[f]: the Page object in frame f, or nullptr
    page_table,   \* page id -> frame
    use_bits, in_replacer, is_hot, clock_hand, stuck,   \* the replacer
    disk,         \* the disk manager
    held,         \* the page each client has pinned, its pointer, has it written
    known,        \* ids handed out so far, in this or in an earlier process
    content,      \* content[p]: what was last written to page p (history)
    unreliable,   \* ids hit by a dropped write or by a read that gave nothing
    ids_in_file   \* when the process started its file had a page for every known id

clockVars == <<use_bits, in_replacer, is_hot, clock_hand, stuck>>
historyVars == <<known, content, unreliable, ids_in_file>>
vars == <<pages, page_table, clockVars, disk, held, historyVars>>

Replacer == INSTANCE LayeredClock WITH frame_count <- pool_size
Frames == 0 .. (pool_size - 1)

PageObject == [id : Ids, data : Contents, dirty : BOOLEAN, pin_count : Nat]
ASSUME NullAssumption == nullptr \notin PageObject

\* Mutant: the pin count is not incremented.
NotPinnedPage(page) == page

(* Page::Pin, Page::Unpin with SetDirty, SetDirty(false), a write to the data *)
PinnedPage(page) == [page EXCEPT !.pin_count = @ + 1]
UnpinnedPage(page, is_dirty) ==
    [id |-> page.id, data |-> page.data,
     dirty |-> page.dirty \/ is_dirty, pin_count |-> page.pin_count - 1]
CleanPage(page) == [page EXCEPT !.dirty = FALSE]
WrittenPage(page, data) == [page EXCEPT !.data = data]

TypeOK ==
    /\ pages \in [Frames -> PageObject \cup {nullptr}]
    /\ page_table \in [Ids -> Frames \cup {NoFrame}]
    /\ Replacer!TypeOK
    /\ disk \in DiskState
    /\ held \in [Clients -> [id : Ids, frame : Frames \cup {NoFrame, Leaked}, wrote : BOOLEAN]]
    /\ known \subseteq PageIds
    /\ content \in [PageIds -> Contents]
    /\ unreliable \subseteq PageIds
    /\ ids_in_file \in BOOLEAN

\* A new process: an empty pool over a database file that may hold pages.
Init ==
    /\ pages = [f \in Frames |-> nullptr]
    /\ page_table = [p \in Ids |-> NoFrame]
    /\ Replacer!Init
    /\ \E n \in 0 .. MAX_PAGES : \E file \in [PageIds -> Contents] :
          /\ \A p \in PageIds : p >= n => file[p] = Zero
          /\ disk = OpenManager(file, n)
          /\ known = {p \in PageIds : p < n}
          /\ content = file
    /\ held = [c \in Clients |-> NoPage]
    /\ unreliable = {}
    /\ ids_in_file = TRUE

-----------------------------------------------------------------------------
(* Finding a frame, as FetchPage and NewPage do it *)

FreeFrames == {f \in Frames : pages[f] = nullptr}

\* The lowest free frame.  The call of replacer->Pin at the end of both
\* methods is made here.
ClaimFree(f) ==
    /\ f \in FreeFrames /\ \A g \in FreeFrames : f <= g
    /\ Replacer!Pin(f)

\* The victim of the replacer; replacer->Pin then finds it out of the
\* replacer already.  A pinned victim makes both methods return nullptr;
\* ReplacerExact says that there is none.
ClaimVictim(f) ==
    /\ FreeFrames = {}
    /\ Replacer!Victim(f)
    /\ pages[f].pin_count = 0

ClaimFrame(f) == ClaimFree(f) \/ ClaimVictim(f)

Occupied(f) == pages[f] # nullptr
NeedsWriteBack(f) == Occupied(f) /\ pages[f].dirty

\* Mutants: the old page is not written back; its entry is not erased.
NoWriteBack(f) == disk
NoErase(f) == page_table

\* The disk, the table and the history after the frame's old page is out.
DiskWithout(f) ==
    IF NeedsWriteBack(f) THEN AfterWrite(disk, pages[f].id, pages[f].data) ELSE disk
TableWithout(f) ==
    IF Occupied(f) THEN [page_table EXCEPT ![pages[f].id] = NoFrame] ELSE page_table
UnreliableWithout(f) ==
    IF ~NeedsWriteBack(f) THEN unreliable
    ELSE IF WriteLands(disk, pages[f].id) THEN unreliable \ {pages[f].id}
    ELSE unreliable \cup ({pages[f].id} \ {-1})

\* Page::Reset, SetPageId and Pin on the frame's page, with "data" in it.
LoadedPage(p, data) == [id |-> p, data |-> data, dirty |-> FALSE, pin_count |-> 1]

Hold(c, p, f) == held' = [held EXCEPT ![c] = [id |-> p, frame |-> f, wrote |-> FALSE]]
Idle(c) == held[c] = NoPage

-----------------------------------------------------------------------------
(* FetchPage *)

FetchHit(c, p) ==
    LET f == page_table[p] IN
    /\ Idle(c)
    /\ f # NoFrame
    /\ pages' = [pages EXCEPT ![f] = PinnedPage(pages[f])]
    /\ Replacer!Pin(f)
    /\ Hold(c, p, f)
    /\ UNCHANGED <<page_table, disk, historyVars>>

FetchMiss(c, p, f) ==
    LET d == DiskWithout(f) IN
    /\ Idle(c)
    /\ page_table[p] = NoFrame
    /\ ClaimFrame(f)
    /\ pages' = [pages EXCEPT ![f] = LoadedPage(p, ReadData(d, p, Zero))]
    /\ page_table' = [TableWithout(f) EXCEPT ![p] = f]
    /\ disk' = AfterRead(d, p)
    /\ Hold(c, p, f)
    /\ unreliable' = IF p = -1 \/ ReadDelivers(d, p)
                     THEN UnreliableWithout(f) ELSE UnreliableWithout(f) \cup {p}
    /\ UNCHANGED <<known, content, ids_in_file>>

FetchPage(c, p) == FetchHit(c, p) \/ \E f \in Frames : FetchMiss(c, p, f)

(* NewPage *)

NewPage(c, f) ==
    LET p == disk.next_page_id IN
    /\ Idle(c)
    /\ p \in PageIds
    /\ ClaimFrame(f)
    /\ pages' = [pages EXCEPT ![f] = LoadedPage(p, Zero)]
    /\ page_table' = [TableWithout(f) EXCEPT ![p] = f]
    /\ disk' = AfterAlloc(DiskWithout(f))
    /\ Hold(c, p, f)
    /\ known' = known \cup {p}
    /\ content' = [content EXCEPT ![p] = Zero]
    /\ unreliable' = UnreliableWithout(f)
    /\ UNCHANGED ids_in_file

\* FetchPage of a page that is not in the pool, or NewPage, finds every frame
\* pinned and returns nullptr; or the replacer's Victim never returns and the
\* pool's latch stays locked.
NoFrameToClaim ==
    /\ FreeFrames = {}
    /\ Replacer!VictimEmpty
    /\ UNCHANGED <<pages, page_table, disk, held, historyVars>>

ClaimHangs ==
    /\ FreeFrames = {}
    /\ Replacer!VictimHangs
    /\ UNCHANGED <<pages, page_table, disk, held, historyVars>>

-----------------------------------------------------------------------------
(* A client with a page *)

\* The client writes through the pointer it got.
WriteData(c, data) ==
    LET h == held[c] IN
    /\ h # NoPage
    /\ pages' = IF h.frame \in Frames
                THEN [pages EXCEPT ![h.frame] = WrittenPage(pages[h.frame], data)] ELSE pages
    /\ held' = [held EXCEPT ![c] = [h EXCEPT !.wrote = TRUE]]
    /\ content' = IF h.id = -1 THEN content ELSE [content EXCEPT ![h.id] = data]
    /\ UNCHANGED <<page_table, clockVars, disk, known, unreliable, ids_in_file>>

\* UnpinPage(page_id, is_dirty), is_dirty saying whether the client has written.
\* It returns false for a page without an entry or without a pin.
UnpinPage(c) ==
    LET h == held[c]
        f == page_table[h.id]
    IN
    /\ h # NoPage
    /\ held' = [held EXCEPT ![c] = NoPage]
    /\ IF f = NoFrame \/ pages[f].pin_count = 0
       THEN ~stuck /\ UNCHANGED <<pages, clockVars>>
       ELSE /\ pages' = [pages EXCEPT ![f] = UnpinnedPage(pages[f], h.wrote)]
            /\ IF pages[f].pin_count = 1
               THEN Replacer!Unpin(f, FALSE)   \* no page is ever given the temperature HOT
               ELSE ~stuck /\ UNCHANGED clockVars
    /\ UNCHANGED <<page_table, disk, historyVars>>

-----------------------------------------------------------------------------
(* FlushPage, FlushAllPages, DeletePage *)

FlushPage(p) ==
    LET f == page_table[p] IN
    /\ ~stuck
    /\ f # NoFrame /\ pages[f].dirty
    /\ disk' = AfterWrite(disk, p, pages[f].data)
    /\ pages' = [pages EXCEPT ![f] = CleanPage(pages[f])]
    /\ unreliable' = IF WriteLands(disk, p) THEN unreliable \ {p}
                     ELSE unreliable \cup ({p} \ {-1})
    /\ UNCHANGED <<page_table, clockVars, held, known, content, ids_in_file>>

DirtyIds == {p \in Ids : page_table[p] # NoFrame /\ pages[page_table[p]].dirty}

\* Every dirty page in the order of the hash table: "first" is the page the
\* loop meets first, whose WritePage closes a stream that was still open.
\* After it every write of a real page lands.
FlushAllPages ==
    \E first \in DirtyIds :
      LET d == AfterWrite(disk, first, pages[page_table[first]].data)
          rest == (DirtyIds \ {first}) \ {-1}
          data(p) == pages[page_table[p]].data
      IN
      /\ ~stuck
      /\ \E n \in d.pages .. MAX_PAGES :
            /\ \A p \in rest : p < n
            /\ n = d.pages \/ n - 1 \in rest
            /\ disk' = [d EXCEPT !.file = [p \in PageIds |-> IF p \in rest THEN data(p) ELSE d.file[p]],
                                 !.pages = n]
      /\ pages' = [f \in Frames |->
                     IF Occupied(f) /\ page_table[pages[f].id] = f
                     THEN CleanPage(pages[f]) ELSE pages[f]]
      /\ unreliable' = (IF WriteLands(disk, first) THEN unreliable \ {first}
                        ELSE unreliable \cup ({first} \ {-1})) \ rest
      /\ UNCHANGED <<page_table, clockVars, held, known, content, ids_in_file>>

\* Mutant: a pinned page may be deleted.
Always(f) == TRUE
Deletable(f) == pages[f].pin_count = 0

\* The page is written back if dirty and its object is forgotten, not deleted.
DeletePage(p) ==
    LET f == page_table[p] IN
    /\ f # NoFrame /\ Deletable(f)
    /\ disk' = DiskWithout(f)
    /\ page_table' = [page_table EXCEPT ![p] = NoFrame]
    /\ pages' = [pages EXCEPT ![f] = nullptr]
    /\ Replacer!Pin(f)
    /\ held' = [c \in Clients |-> IF held[c].frame = f
                                  THEN [held[c] EXCEPT !.frame = Leaked] ELSE held[c]]
    /\ unreliable' = UnreliableWithout(f)
    /\ UNCHANGED <<known, content, ids_in_file>>

-----------------------------------------------------------------------------
\* The process ends or is killed: the destructor flushes nothing.  A caller may
\* bring any page id handed out before to the next process, in a RID say.
Restart ==
    /\ pages' = [f \in Frames |-> nullptr]
    /\ page_table' = [p \in Ids |-> NoFrame]
    /\ use_bits' = [f \in Frames |-> FALSE]
    /\ in_replacer' = [f \in Frames |-> FALSE]
    /\ is_hot' = [f \in Frames |-> TRUE]
    /\ clock_hand' = 0
    /\ stuck' = FALSE
    /\ disk' = OpenManager(disk.file, disk.pages)
    /\ held' = [c \in Clients |-> NoPage]
    /\ content' = disk.file
    /\ unreliable' = {}
    /\ ids_in_file' = (\A p \in known : p < disk'.next_page_id)
    /\ UNCHANGED known

Next ==
    \/ \E c \in Clients, p \in known \cup {-1} : FetchPage(c, p)
    \/ \E c \in Clients, f \in Frames : NewPage(c, f)
    \/ NoFrameToClaim
    \/ ClaimHangs
    \/ \E c \in Clients, data \in Contents : WriteData(c, data)
    \/ \E c \in Clients : UnpinPage(c)
    \/ \E p \in Ids : FlushPage(p) \/ DeletePage(p)
    \/ FlushAllPages
    \/ Restart

Spec == Init /\ [][Next]_vars

-----------------------------------------------------------------------------
(* Properties *)

\* A page that was given an id but never reached the file is forgotten when the
\* process ends, and a new manager hands its id out again.  A caller that kept
\* the id can then bring the page into the pool before NewPage does, and the
\* pool has two pages of one id.  What follows is claimed while no such id was
\* around at the start of the process (ids_in_file); what is claimed always
\* says so.

\* README.txt:541 "the mapping from page_id to frame_id is maintained": an entry
\* of page_table always names a frame whose page has that id, and every page in a
\* frame has its entry (BufferPoolManager.cpp:73, 85, 161, 172, 193).
TableSound ==
    \A p \in Ids : page_table[p] # NoFrame =>
        Occupied(page_table[p]) /\ pages[page_table[p]].id = p
TableComplete ==
    \A f \in Frames : Occupied(f) => page_table[pages[f].id] = f
MappingExact == TableSound /\ (ids_in_file => TableComplete)

\* Always, the replacer holds exactly the frames with a page that nobody has
\* pinned (BufferPoolManager.cpp:45, 87, 108-111, 198): nothing pinned can be
\* evicted, and no unpinned page is out of reach of eviction for ever.
ReplacerExact ==
    \A f \in Frames : in_replacer[f] <=> Occupied(f) /\ pages[f].pin_count = 0

\* While a client holds a page the pool keeps it in the same frame under the
\* same id (BufferPoolManager.cpp:37-113).
HeldInPlace ==
    \A c \in Clients : ~Idle(c) =>
        /\ held[c].frame \in Frames
        /\ page_table[held[c].id] = held[c].frame
HeldPageStays == ids_in_file => HeldInPlace

Holders(f) == {c \in Clients : held[c].frame = f}
\* A page's pin count is the number of clients that hold it: no hold is lost or
\* counted twice by Pin, Unpin, Reset and reuse (BufferPoolManager.cpp:44, 104, 172).
PinsCount ==
    \A f \in Frames : Occupied(f) => pages[f].pin_count = Cardinality(Holders(f))
PinsAreHolders == ids_in_file => PinsCount

\* AllocPage is ahead of every page in the pool and of every id in use, so that
\* NewPage cannot collide with a page that is there already
\* (BufferPoolManager.cpp:164, DiskManager.cpp:65-71).
IdsBelowNext ==
    \A p \in PageIds : p \in known \/ page_table[p] # NoFrame => p < disk.next_page_id
IdsAllocated == ids_in_file => IdsBelowNext

\* Whatever is evicted, flushed, deleted or fetched again, a page's last contents
\* are in its frame or, when it has none, in the file, except for ids whose
\* write the stream dropped or whose read gave nothing (BufferPoolManager.cpp:
\* 68-72, 123-129, 154-160, 187-191).
LastWriteKept ==
    ids_in_file =>
    \A p \in known \ unreliable :
        IF page_table[p] # NoFrame THEN pages[page_table[p]].data = content[p]
                                   ELSE disk.file[p] = content[p]

\* README.txt:543 "dirty pages are flushed to disk correctly": when FlushPage has
\* written a dirty page, the file has its contents.
FlushReachesDisk ==
    [][\A p \in PageIds :
         FlushPage(p) => disk'.file[p] = pages[page_table[p]].data]_vars
=============================================================================
