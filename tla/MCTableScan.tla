---------------------------- MODULE MCTableScan ----------------------------
(***************************************************************************)
(* TableScan for TLC.  No step of a query reads a row's words or a ghost  *)
(* of the heap, and no step of the heap looks at the query: the states of *)
(* the heap are all reached between two queries, where they are told apart,*)
(* and during a query only what the query can see is.  A scan never leaves *)
(* the first page, so only that page's mark matters.                       *)
(***************************************************************************)
EXTENDS TableScan

Headers == [p \in PageIds |-> <<pages[p].next_free, pages[p].n_slots>>]

View ==
    <<Headers, next_page_id, first_page_id, last_page_id, invalid_page, inserted, invalid, IsPageHot,
      plan, scanVars, start, migrated, cut,
      IF plan = "none" THEN <<pages, rows, overwritten>> ELSE <<>>>>
=============================================================================
