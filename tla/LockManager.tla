----------------------------- MODULE LockManager -----------------------------
(***************************************************************************)
(* The lock manager and the transactions it grants locks to                *)
(* (src/MiniDB/src/concurrency/LockManager.cpp, Transaction.cpp,           *)
(* TransactionManager.cpp).  LockShared, LockExclusive and Unlock run      *)
(* under mtx_, BeginTransaction, CommitTransaction and AbortTransaction    *)
(* under the transaction manager's latch_: each is one step.  None of them *)
(* looks at the state of the transaction, so a caller may make any call    *)
(* for any transaction that has begun.                                     *)
(***************************************************************************)
EXTENDS TransactionIds, FiniteSets

CONSTANT RIDs   \* the records that can be locked

LockTypes == {"NONE", "SHARED", "EXCLUSIVE"}

VARIABLES
    lock_table,    \* per record: lock_type and the set of holders
    locks_held,    \* Transaction::locks_held_
    state,         \* Transaction::state_, "NEW" before BeginTransaction
    next_txn_id,
    told           \* what a transaction was told it holds (history); "UPGRADED":
                   \* LockExclusive returned true on a lock taken by LockShared

vars == <<lock_table, locks_held, state, next_txn_id, told>>

TypeOK ==
    /\ lock_table \in [RIDs -> [lock_type : LockTypes, holders : SUBSET Txns]]
    /\ locks_held \in [Txns -> SUBSET RIDs]
    /\ state \in [Txns -> {"NEW", "RUNNING", "COMMITTED", "ABORTED"}]
    /\ next_txn_id \in 1 .. (MAX_TXNS + 1)
    /\ told \in [Txns -> [RIDs -> LockTypes \cup {"UPGRADED"}]]

FirstTxnId == 1

Init ==
    /\ lock_table = [r \in RIDs |-> [lock_type |-> "NONE", holders |-> {}]]
    /\ locks_held = [t \in Txns |-> {}]
    /\ state = [t \in Txns |-> "NEW"]
    /\ next_txn_id = FirstTxnId
    /\ told = [t \in Txns |-> [r \in RIDs |-> "NONE"]]

-----------------------------------------------------------------------------
Begun(t) == t < next_txn_id
IsHolder(t, r) == t \in lock_table[r].holders
HeldByOthers(t, r) == lock_table[r].holders \ {t} # {}

Tell(t, r, lock) == told' = [told EXCEPT ![t] = [@ EXCEPT ![r] = lock]]

\* Both lock calls for a transaction that is not a holder and is not refused.
Grant(t, r, type) ==
    /\ lock_table' = [lock_table EXCEPT ![r] =
                        [lock_type |-> type, holders |-> @.holders \cup {t}]]
    /\ locks_held' = [locks_held EXCEPT ![t] = @ \cup {r}]
    /\ Tell(t, r, type)
    /\ UNCHANGED <<state, next_txn_id>>

\* Mutant: a lock of one mode is granted beside locks of the other.
NeverRefused(t, r) == FALSE

SharedRefused(t, r) == HeldByOthers(t, r) /\ lock_table[r].lock_type = "EXCLUSIVE"
ExclusiveRefused(t, r) == HeldByOthers(t, r) /\ lock_table[r].lock_type = "SHARED"

\* When they refuse, or when t asks for SHARED as a holder, nothing changes.
LockShared(t, r) ==
    /\ Begun(t)
    /\ ~IsHolder(t, r)
    /\ ~SharedRefused(t, r)
    /\ Grant(t, r, "SHARED")

LockExclusive(t, r) ==
    /\ Begun(t)
    /\ ~IsHolder(t, r)
    /\ ~ExclusiveRefused(t, r)
    /\ Grant(t, r, "EXCLUSIVE")

\* LockExclusive for a transaction that holds the record, in whatever mode,
\* returns true and leaves the lock as it is.
LockExclusiveHeld(t, r) ==
    /\ Begun(t)
    /\ IsHolder(t, r)
    /\ Tell(t, r, IF told[t][r] = "SHARED" THEN "UPGRADED" ELSE told[t][r])
    /\ UNCHANGED <<lock_table, locks_held, state, next_txn_id>>

\* Mutant: RemoveLock is not called.
KeptLock(t, r) == locks_held

LeftTo(r, rest) ==
    [lock_type |-> IF rest = {} THEN "NONE" ELSE lock_table[r].lock_type, holders |-> rest]
RemoveLock(t, r) == [locks_held EXCEPT ![t] = @ \ {r}]

Unlock(t, r) ==
    /\ Begun(t)
    /\ lock_table' = [lock_table EXCEPT ![r] = LeftTo(r, lock_table[r].holders \ {t})]
    /\ locks_held' = RemoveLock(t, r)
    /\ Tell(t, r, "NONE")
    /\ UNCHANGED <<state, next_txn_id>>

BeginTransaction ==
    /\ next_txn_id \in Txns
    /\ state' = [state EXCEPT ![next_txn_id] = "RUNNING"]
    /\ next_txn_id' = next_txn_id + 1
    /\ UNCHANGED <<lock_table, locks_held, told>>

\* CommitTransaction and AbortTransaction set the state and nothing else.
EndTransaction(t, end) ==
    /\ Begun(t)
    /\ state' = [state EXCEPT ![t] = end]
    /\ UNCHANGED <<lock_table, locks_held, next_txn_id, told>>

CommitTransaction(t) == EndTransaction(t, "COMMITTED")
AbortTransaction(t) == EndTransaction(t, "ABORTED")

Next ==
    \/ BeginTransaction
    \/ \E t \in Txns : CommitTransaction(t) \/ AbortTransaction(t)
    \/ \E t \in Txns, r \in RIDs :
          LockShared(t, r) \/ LockExclusive(t, r) \/ LockExclusiveHeld(t, r) \/ Unlock(t, r)

Spec == Init /\ [][Next]_vars

-----------------------------------------------------------------------------
(* Properties *)

\* The lock table and the transactions agree on who holds what
\* (LockManager.cpp:60-61, 91-92, 103-108).
HoldersAgree ==
    \A t \in Txns, r \in RIDs : IsHolder(t, r) <=> r \in locks_held[t]

\* A record has a lock type exactly while it has a holder (LockManager.cpp:59,
\* 90, 103-106): a record that all holders left can be locked in either mode.
TypeIffHeld ==
    \A r \in RIDs : lock_table[r].lock_type = "NONE" <=> lock_table[r].holders = {}

\* Readers and writers are never let in together: every holder of a record
\* entered in the mode the record is locked in now (LockManager.cpp:54-59 and
\* 85-90), so a lock granted afresh never coexists with one of the other mode.
\* For a reader that LockExclusive told it had the lock (lines 74-76) it says that
\* the lock is still SHARED: the upgrade of README.txt:372, which
\* test/lock_manager_test.cpp:26-27 asserts to succeed, changes nothing.
EnteredAs(t, r) == IF told[t][r] = "UPGRADED" THEN "SHARED" ELSE told[t][r]
HoldersShareMode ==
    \A t \in Txns, r \in RIDs : IsHolder(t, r) => EnteredAs(t, r) = lock_table[r].lock_type
=============================================================================
