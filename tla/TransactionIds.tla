--------------------------- MODULE TransactionIds ---------------------------
(* The ids that TransactionManager gives out (src/MiniDB/src/concurrency/
   TransactionManager.cpp), as the lock manager and the deadlock detector use
   them. *)
EXTENDS Naturals

CONSTANT MAX_TXNS   \* bound: transactions begun
ASSUME MaxTxnsAssumption == MAX_TXNS \in Nat

Txns == 1 .. MAX_TXNS
=============================================================================
