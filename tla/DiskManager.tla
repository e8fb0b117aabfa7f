---------------------------- MODULE DiskManager ----------------------------
(***************************************************************************)
(* A DiskManager on its own, called with the ids it has handed out (or     *)
(* whose pages are in its file) and with -1, the id of a page nobody has;  *)
(* what each call does is defined in DiskFile.                             *)
(***************************************************************************)
EXTENDS DiskFile

VARIABLES
    disk,
    delivered,     \* the last call was a ReadPage that filled its caller's buffer
    has_written,   \* WritePage was called on this manager
    dropped        \* WritePage calls for a real page that this manager lost

diskVars == <<disk, delivered, has_written, dropped>>

DiskInit ==
    /\ disk = OpenManager([p \in PageIds |-> Zero], 0)
    /\ delivered = FALSE
    /\ has_written = FALSE
    /\ dropped = 0

Known == {p \in PageIds : p < disk.next_page_id \/ p < disk.pages}

ReadPage(p) ==
    /\ delivered' = ReadDelivers(disk, p)
    /\ disk' = AfterRead(disk, p)
    /\ UNCHANGED <<has_written, dropped>>

WritePage(p, data) ==
    /\ disk' = AfterWrite(disk, p, data)
    /\ dropped' = IF p >= 0 /\ ~WriteLands(disk, p) THEN dropped + 1 ELSE dropped
    /\ has_written' = TRUE
    /\ delivered' = FALSE

AllocPage ==
    /\ disk.next_page_id < MAX_PAGES
    /\ disk' = AfterAlloc(disk)
    /\ delivered' = FALSE
    /\ UNCHANGED <<has_written, dropped>>

\* The process ends, however it ends, and a new manager opens the file.
Restart ==
    /\ disk' = OpenManager(disk.file, disk.pages)
    /\ delivered' = FALSE
    /\ has_written' = FALSE
    /\ dropped' = 0

DiskNext ==
    \/ \E p \in Known \cup {-1} : ReadPage(p)
    \/ \E p \in Known \cup {-1}, data \in Contents : WritePage(p, data)
    \/ AllocPage
    \/ Restart

DiskSpec == DiskInit /\ [][DiskNext]_diskVars

-----------------------------------------------------------------------------
(* Properties *)

\* The open() in WritePage fails only while the stream opened by OpenManager
\* is still open (DiskManager.cpp:57): a manager loses at most one write of a
\* real page in its lifetime, and every later one reaches the file.
OneWriteLost == dropped <= 1

\* AllocPage never hands out the id of a page that is in the file
\* (DiskManager.cpp:45 and 65-71), across restarts, as long as the length of
\* the file fits the int it is kept in.
AllocIsFresh == disk.pages < INT_PAGES => disk.pages <= disk.next_page_id

\* WritePage closes the stream and ReadPage never opens it (DiskManager.cpp:
\* 48-63): a manager reads pages only until its first WritePage, of whatever page,
\* and delivers nothing from then on.  README.txt:539 "pages are loaded correctly
\* from disk into memory" thus ends with the first write of a process.
ReadsEndAtFirstWrite == delivered => ~has_written
=============================================================================
