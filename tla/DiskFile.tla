------------------------------ MODULE DiskFile ------------------------------
(***************************************************************************)
(* The database file behind one std::fstream                               *)
(* (src/MiniDB/src/storage/DiskManager.cpp).  The operators below take the *)
(* state of a manager and give the state after a call, so that the buffer  *)
(* pool, which makes several calls under its own latch, can chain them.    *)
(*                                                                         *)
(* What std::fstream does is external to the repository and modelled from  *)
(* how the manager uses it:                                                *)
(*  - open() on a stream that is open already fails and sets failbit, and  *)
(*    seekp and write then do nothing; on a closed stream it succeeds and  *)
(*    clears the error bits;                                               *)
(*  - reading from a closed stream, past the end of the file or at a       *)
(*    negative offset leaves the buffer alone and sets failbit, and every  *)
(*    later read on the open stream does nothing.                          *)
(***************************************************************************)
EXTENDS Integers

CONSTANTS
    Contents,    \* what a page can hold
    Zero,        \* a page of zero bytes
    MAX_PAGES,   \* bound: pages the file may grow to
    INT_PAGES    \* pages whose byte offset fits an int (2^19 at 4096 bytes)

ASSUME ZeroAssumption == Zero \in Contents
ASSUME MaxPagesAssumption == MAX_PAGES \in Nat
ASSUME IntPagesAssumption == INT_PAGES \in Nat \ {0}

PageIds == 0 .. (MAX_PAGES - 1)

DiskState ==
    [stream : {"open", "failed", "closed"},   \* db_file_fd: usable, open with failbit, closed
     file : [PageIds -> Contents],            \* the bytes; a hole reads as zeros
     pages : 0 .. MAX_PAGES,                  \* length of the file in pages
     next_page_id : Int]

\* A page number times PAGE_SIZE in a signed 32-bit int, back in pages.
IntOffset(p) ==
    LET w == p % (2 * INT_PAGES) IN IF w < INT_PAGES THEN w ELSE w - 2 * INT_PAGES

\* Mutant: next_page_id is not taken from the length of the file.
OpenAtZero(file, pages) ==
    [stream |-> "open", file |-> file, pages |-> pages, next_page_id |-> 0]

\* OpenManager on an existing file, or on the empty file it has just created.
OpenManager(file, pages) ==
    [stream |-> "open", file |-> file, pages |-> pages, next_page_id |-> IntOffset(pages)]

\* Mutant: the file is opened again for a read after WritePage has closed it.
ReadReopens(d, p) == d.stream # "failed" /\ IntOffset(p) \in 0 .. (d.pages - 1)

ReadDelivers(d, p) == d.stream = "open" /\ IntOffset(p) \in 0 .. (d.pages - 1)

\* page_data after ReadPage(p, page_data); it held "buffer" before the call.
ReadData(d, p, buffer) == IF ReadDelivers(d, p) THEN d.file[IntOffset(p)] ELSE buffer

AfterRead(d, p) ==
    IF d.stream = "open" /\ ~ReadDelivers(d, p) THEN [d EXCEPT !.stream = "failed"] ELSE d

WriteLands(d, p) == d.stream = "closed" /\ p >= 0

\* Mutants: the file is not closed at the end; the page is written one too far.
WriteLeavesOpen(d, p, data) == IF d.stream = "closed" THEN [d EXCEPT !.stream = "open"] ELSE d
WriteOnePageFurther(d, p, data) ==
    IF WriteLands(d, p)
    THEN [d EXCEPT !.file = [@ EXCEPT ![p] = data],
                   !.pages = IF p + 1 < d.pages THEN @ ELSE p + 2]
    ELSE [d EXCEPT !.stream = "closed"]

\* WritePage opens the file first and closes it last.
AfterWrite(d, p, data) ==
    IF WriteLands(d, p)
    THEN [d EXCEPT !.file = [@ EXCEPT ![p] = data],
                   !.pages = IF p < d.pages THEN @ ELSE p + 1]
    ELSE [d EXCEPT !.stream = "closed"]

\* Mutant: next_page_id is not incremented.
AllocAgain(d) == d

AfterAlloc(d) == [d EXCEPT !.next_page_id = @ + 1]
=============================================================================
