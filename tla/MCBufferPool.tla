---------------------------- MODULE MCBufferPool ----------------------------
(* BufferPool for TLC: the clients are interchangeable. *)
EXTENDS BufferPool, TLC

ClientSymmetry == Permutations(Clients)

\* content and unreliable are only read by LastWriteKept, which says nothing
\* without ids_in_file, and Restart sets them anew.
View == IF ids_in_file THEN vars ELSE <<pages, page_table, clockVars, disk, held, known>>
=============================================================================
