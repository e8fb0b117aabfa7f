------------------------- MODULE ConcurrencyProofs -------------------------
(***************************************************************************)
(* The concurrency control for any number of transactions: the safety      *)
(* properties of LockManager for any set of records, and the search of     *)
(* DeadLockDetector for every graph and every order in which the hash      *)
(* tables yield the transactions.                                          *)
(*                                                                         *)
(* The search is sound and complete.  The argument is the one of the       *)
(* textbook: the nodes of the calls of DFSCycle form a path of the graph,  *)
(* and the transactions whose call has returned wait only for each other.  *)
(***************************************************************************)
EXTENDS LockManager, DeadLockDetector, SequenceTheorems, FiniteSetTheorems, TLAPS

-----------------------------------------------------------------------------
(* LockManager *)

\* The inductive invariant: the three relations between the lock table, the
\* transactions and the answers they were given hold together.
LockInv == TypeOK /\ HoldersAgree /\ TypeIffHeld /\ HoldersShareMode

LEMMA LockInitInv == Init => LockInv
<1> SUFFICES ASSUME Init PROVE LockInv
  OBVIOUS
<1>1. TypeOK
  BY MaxTxnsAssumption DEF Init, FirstTxnId, TypeOK, Txns, LockTypes
<1>2. HoldersAgree /\ TypeIffHeld /\ HoldersShareMode
  BY DEF Init, HoldersAgree, TypeIffHeld, HoldersShareMode, IsHolder
<1> QED BY <1>1, <1>2 DEF LockInv

\* A grant in a mode that fits the holders that are there keeps the invariant.
LEMMA GrantKeepsInv ==
  ASSUME LockInv, NEW t \in Txns, NEW r \in RIDs, NEW type \in {"SHARED", "EXCLUSIVE"},
         ~IsHolder(t, r),
         lock_table[r].holders # {} => lock_table[r].lock_type = type,
         Grant(t, r, type)
  PROVE  LockInv'
<1>1. TypeOK'
  BY DEF LockInv, TypeOK, Grant, Tell, LockTypes
<1>2. HoldersAgree'
  BY DEF LockInv, TypeOK, HoldersAgree, IsHolder, Grant
<1>3. TypeIffHeld'
  <2> SUFFICES ASSUME NEW q \in RIDs
               PROVE  lock_table'[q].lock_type = "NONE" <=> lock_table'[q].holders = {}
    BY DEF TypeIffHeld
  <2>1. CASE q = r
    BY <2>1 DEF LockInv, TypeOK, Grant
  <2>2. CASE q # r
    BY <2>2 DEF LockInv, TypeOK, TypeIffHeld, Grant
  <2> QED BY <2>1, <2>2
<1>4. HoldersShareMode'
  <2> SUFFICES ASSUME NEW u \in Txns, NEW q \in RIDs, IsHolder(u, q)'
               PROVE  EnteredAs(u, q)' = lock_table'[q].lock_type
    BY DEF HoldersShareMode
  <2>1. CASE q = r /\ u = t
    BY <2>1 DEF LockInv, TypeOK, Grant, Tell, EnteredAs
  <2>2. CASE q = r /\ u # t
    BY <2>2 DEF LockInv, TypeOK, HoldersShareMode, IsHolder, Grant, Tell, EnteredAs
  <2>3. CASE q # r
    BY <2>3 DEF LockInv, TypeOK, HoldersShareMode, IsHolder, Grant, Tell, EnteredAs
  <2> QED BY <2>1, <2>2, <2>3
<1> QED BY <1>1, <1>2, <1>3, <1>4 DEF LockInv

LEMMA LockStepInv == LockInv /\ [Next]_vars => LockInv'
<1> SUFFICES ASSUME LockInv, [Next]_vars PROVE LockInv'
  OBVIOUS
<1> USE DEF LockInv
<1>1. CASE BeginTransaction
  <2>1. TypeOK'
    BY <1>1, MaxTxnsAssumption DEF BeginTransaction, TypeOK, Txns
  <2> QED BY <1>1, <2>1
          DEF BeginTransaction, HoldersAgree, TypeIffHeld, HoldersShareMode, IsHolder, EnteredAs
<1>2. ASSUME NEW t \in Txns, CommitTransaction(t) \/ AbortTransaction(t)
      PROVE  LockInv'
  <2>1. TypeOK'
    BY <1>2 DEF CommitTransaction, AbortTransaction, EndTransaction, TypeOK
  <2> QED BY <1>2, <2>1 DEF CommitTransaction, AbortTransaction, EndTransaction,
              HoldersAgree, TypeIffHeld, HoldersShareMode, IsHolder, EnteredAs
<1>3. ASSUME NEW t \in Txns, NEW r \in RIDs, LockShared(t, r)
      PROVE  LockInv'
  <2>1. lock_table[r].holders # {} => lock_table[r].lock_type = "SHARED"
    BY <1>3 DEF LockShared, SharedRefused, IsHolder, HeldByOthers, TypeOK, TypeIffHeld, LockTypes
  <2> QED BY <1>3, <2>1, GrantKeepsInv DEF LockShared
<1>4. ASSUME NEW t \in Txns, NEW r \in RIDs, LockExclusive(t, r)
      PROVE  LockInv'
  <2>1. lock_table[r].holders # {} => lock_table[r].lock_type = "EXCLUSIVE"
    BY <1>4 DEF LockExclusive, ExclusiveRefused, IsHolder, HeldByOthers, TypeOK, TypeIffHeld, LockTypes
  <2> QED BY <1>4, <2>1, GrantKeepsInv DEF LockExclusive
<1>5. ASSUME NEW t \in Txns, NEW r \in RIDs, LockExclusiveHeld(t, r)
      PROVE  LockInv'
  <2>1. TypeOK'
    BY <1>5 DEF LockExclusiveHeld, Tell, TypeOK, LockTypes
  <2>2. HoldersAgree' /\ TypeIffHeld'
    BY <1>5 DEF LockExclusiveHeld, HoldersAgree, TypeIffHeld, IsHolder
  <2>3. HoldersShareMode'
    BY <1>5 DEF LockExclusiveHeld, Tell, TypeOK, HoldersShareMode, IsHolder, EnteredAs
  <2> QED BY <2>1, <2>2, <2>3
<1>6. ASSUME NEW t \in Txns, NEW r \in RIDs, Unlock(t, r)
      PROVE  LockInv'
  <2>1. TypeOK'
    BY <1>6 DEF Unlock, LeftTo, RemoveLock, Tell, TypeOK, LockTypes
  <2>2. HoldersAgree'
    BY <1>6 DEF Unlock, LeftTo, RemoveLock, TypeOK, HoldersAgree, IsHolder
  <2>3. TypeIffHeld'
    BY <1>6 DEF Unlock, LeftTo, RemoveLock, TypeOK, TypeIffHeld
  <2>4. HoldersShareMode'
    BY <1>6 DEF Unlock, LeftTo, RemoveLock, Tell, TypeOK, HoldersShareMode, IsHolder, EnteredAs
  <2> QED BY <2>1, <2>2, <2>3, <2>4
<1>7. CASE UNCHANGED vars
  BY <1>7 DEF vars, TypeOK, HoldersAgree, TypeIffHeld, HoldersShareMode, IsHolder, EnteredAs
<1> QED BY <1>1, <1>2, <1>3, <1>4, <1>5, <1>6, <1>7 DEF Next

\* Type correctness of the lock table, the transactions and the id counter
\* (LockManager.cpp, Transaction.cpp, TransactionManager.cpp).
THEOREM LockTypeCorrect == Spec => []TypeOK
<1>1. LockInv => TypeOK
  BY DEF LockInv
<1> QED BY LockInitInv, LockStepInv, <1>1, PTL DEF Spec

\* The lock table and locks_held_ agree and a record is typed exactly while it
\* is held, whatever the calls made (LockManager.cpp:60-61, 91-92, 103-108).
THEOREM LockTableConsistent == Spec => [](HoldersAgree /\ TypeIffHeld)
<1>1. LockInv => HoldersAgree /\ TypeIffHeld
  BY DEF LockInv
<1> QED BY LockInitInv, LockStepInv, <1>1, PTL DEF Spec

\* Readers and writers are never granted the same record together
\* (LockManager.cpp:54-59, 85-90).
THEOREM ReadersExcludeWriters == Spec => []HoldersShareMode
<1>1. LockInv => HoldersShareMode
  BY DEF LockInv
<1> QED BY LockInitInv, LockStepInv, <1>1, PTL DEF Spec

-----------------------------------------------------------------------------
(* The inductive invariant *)

Call == [node : Txns, todo : SUBSET Txns]

DetectorTypeOK ==
    /\ wait_graph \in [Txns -> SUBSET Txns]
    /\ phase \in {"idle", "running", "answered"}
    /\ roots \in SUBSET Txns /\ visited \in SUBSET Txns
    /\ stack \in Seq(Call) /\ cycle \in Seq(Txns)
    /\ victim \in Txns \cup {NoTxn}

\* The calls follow the edges of the graph and no transaction has two of them.
PathInv ==
    /\ \A i \in 1 .. Len(stack) :
          /\ stack[i].node \in visited
          /\ stack[i].todo \subseteq wait_graph[stack[i].node]
    /\ \A i, j \in 1 .. Len(stack) : stack[i].node = stack[j].node => i = j
    /\ \A i \in 1 .. Len(stack) :
          i + 1 \in 1 .. Len(stack) => stack[i + 1].node \in wait_graph[stack[i].node]

\* The call for t has returned false.
Returned(t) == t \in visited /\ ~OnStack(t)

\* Who has returned waits only for others that have, and is not deadlocked; what
\* a call has no longer to do has returned or is the call it has made; and the
\* outer loop forgets nobody who waits.
ReturnedInv ==
    /\ \A t \in Txns : Returned(t) => ~Deadlocked(t)
    /\ \A t \in Txns : Returned(t) => \A other \in wait_graph[t] : Returned(other)
    /\ \A i \in 1 .. Len(stack) : \A t \in wait_graph[stack[i].node] \ stack[i].todo :
          Returned(t) \/ (i + 1 \in 1 .. Len(stack) /\ t = stack[i + 1].node)
    /\ \A t \in Txns : wait_graph[t] # {} => t \in roots \/ t \in visited

\* Once a search has ended, its answer is right for the graph it has looked at.
AnswerInv ==
    /\ CycleIsReal
    /\ phase = "answered" /\ victim = NoTxn => \A t \in Txns : ~Deadlocked(t)

SearchInv ==
    /\ DetectorTypeOK
    /\ phase = "running" => PathInv /\ ReturnedInv /\ victim = NoTxn
    /\ AnswerInv

-----------------------------------------------------------------------------
(* Numbers and sequences *)

\* A set of numbers that is not empty has a least one.
LEMMA LeastExists ==
  ASSUME NEW X \in SUBSET Nat, X # {}
  PROVE  \E least \in X : \A x \in X : least <= x
<1> DEFINE Below == {0 .. x : x \in X}
<1>1. Below \subseteq FiniteSubsetsOf(Nat)
  <2> SUFFICES ASSUME NEW x \in X
               PROVE  0 .. x \in SUBSET Nat /\ IsFiniteSet(0 .. x)
    BY DEF FiniteSubsetsOf
  <2> QED BY FS_Interval
<1>2. PICK lowest \in Below : \A other \in Below : ~ (<<other, lowest>> \in StrictSubsetOrdering(Nat))
  <2>1. Below # {}
    OBVIOUS
  <2> HIDE DEF Below
  <2> QED BY <1>1, <2>1, WFMin, FS_StrictSubsetOrderingWellFounded, Zenon
<1>3. PICK least \in X : lowest = 0 .. least
  OBVIOUS
<1>4. ASSUME NEW x \in X, x < least
      PROVE  FALSE
  <2>1. 0 .. x \subseteq 0 .. least /\ 0 .. x # 0 .. least
    BY <1>4
  <2>2. <<0 .. x, lowest>> \in StrictSubsetOrdering(Nat)
    BY <1>3, <2>1 DEF StrictSubsetOrdering
  <2> QED BY <1>2, <2>2
<1> QED BY <1>4

\* A bounded one has a greatest.
LEMMA GreatestExists ==
  ASSUME NEW bound \in Nat, NEW X \in SUBSET (1 .. bound), X # {}
  PROVE  \E greatest \in X : \A x \in X : x <= greatest
<1> DEFINE Mirrored == {bound - x : x \in X}
<1>1. \A x \in X : bound - x \in Nat
  OBVIOUS
<1>2. Mirrored \in SUBSET Nat /\ Mirrored # {}
  BY <1>1, Zenon
<1>3. PICK least \in Mirrored : \A y \in Mirrored : least <= y
  <2> HIDE DEF Mirrored
  <2> QED BY <1>2, LeastExists
<1>4. PICK greatest \in X : least = bound - greatest
  OBVIOUS
<1>5. \A x \in X : bound - greatest <= bound - x
  BY <1>3, <1>4
<1>6. ASSUME NEW x \in X PROVE x <= greatest
  <2>1. x \in 1 .. bound /\ greatest \in 1 .. bound /\ bound - greatest <= bound - x
    BY <1>5
  <2> QED BY <2>1
<1> QED BY <1>6

\* A set that is never left along a path holds the path from where it enters.
LEMMA PathStaysInside ==
  ASSUME NEW path, NEW S, NEW last \in Nat, NEW k \in 1 .. last, path[k] \in S,
         \A i \in k .. last : i + 1 \in k .. last /\ path[i] \in S => path[i + 1] \in S
  PROVE  \A i \in k .. last : path[i] \in S
<1> DEFINE Outside == {i \in k .. last : path[i] \notin S}
<1> SUFFICES ASSUME Outside # {} PROVE FALSE
  OBVIOUS
<1>1. Outside \in SUBSET Nat
  OBVIOUS
<1>2. PICK least \in Outside : \A i \in Outside : least <= i
  <2> HIDE DEF Outside
  <2> QED BY <1>1, LeastExists
<1>3. least # k /\ least \in k .. last
  OBVIOUS
<1>4. least - 1 \in k .. last /\ least - 1 \notin Outside
  BY <1>2, <1>3
<1>5. (least - 1) + 1 = least
  BY <1>3
<1> QED BY <1>3, <1>4, <1>5

\* The transaction GetVictim picks is on the cycle, and none on it is younger
\* (DeadLockDector.cpp:125-135).
LEMMA LargestIsOnCycle ==
  ASSUME NEW path \in Seq(Txns), path # <<>>
  PROVE  /\ \E k \in 1 .. Len(path) : path[k] = Largest(path)
         /\ \A i \in 1 .. Len(path) : path[i] <= Largest(path)
<1> DEFINE Nodes == {path[i] : i \in 1 .. Len(path)}
<1>1. Len(path) \in Nat /\ 1 \in 1 .. Len(path)
  BY LenProperties, EmptySeq
<1>2. Nodes \in SUBSET (1 .. MAX_TXNS) /\ Nodes # {}
  <2>1. \A i \in 1 .. Len(path) : path[i] \in 1 .. MAX_TXNS
    BY ElementOfSeq DEF Txns
  <2> QED BY <1>1, <2>1
<1>3. PICK greatest \in Nodes : \A x \in Nodes : x <= greatest
  <2> HIDE DEF Nodes
  <2> QED BY <1>2, MaxTxnsAssumption, GreatestExists
<1>4. \A i \in 1 .. Len(path) : path[i] <= greatest
  BY <1>3
<1>5. /\ Largest(path) \in Nodes
      /\ \A i \in 1 .. Len(path) : path[i] <= Largest(path)
  BY <1>4 DEF Largest
<1> QED BY <1>5

\* Everybody on a closed path of the graph is deadlocked.
LEMMA CycleDeadlocks ==
  ASSUME NEW path \in Seq(Txns), Len(path) > 1, path[1] = path[Len(path)],
         \A i \in 1 .. (Len(path) - 1) : path[i + 1] \in wait_graph[path[i]],
         NEW k \in 1 .. Len(path)
  PROVE  Deadlocked(path[k])
<1> SUFFICES ASSUME NEW set \in SUBSET Txns, Closed(set), wait_graph[path[k]] \subseteq set
             PROVE  path[k] \in set
  BY DEF Deadlocked
<1> DEFINE last == Len(path)
<1>1. last \in Nat /\ 1 \in 1 .. last /\ last \in 1 .. last
  BY LenProperties
<1>2. PICK j \in 1 .. (last - 1) : path[j] = path[k]
  <2>1. CASE k = last
    BY <1>1, <2>1
  <2>2. CASE k # last
    BY <1>1, <2>2
  <2> QED BY <2>1, <2>2
<1>3. \A i \in 1 .. last : i + 1 \in 1 .. last /\ path[i] \in set => path[i + 1] \in set
  BY <1>1 DEF Closed
<1>4. j + 1 \in 1 .. last /\ path[j + 1] \in set
  BY <1>1, <1>2
<1> HIDE DEF last
<1>5. \A i \in (j + 1) .. last : path[i] \in set
  <2>1. \A i \in (j + 1) .. last : i + 1 \in (j + 1) .. last /\ path[i] \in set => path[i + 1] \in set
    BY <1>1, <1>2, <1>3
  <2> QED BY <1>1, <1>4, <2>1, PathStaysInside
<1>6. path[1] \in set
  BY <1>1, <1>4, <1>5 DEF last
<1>7. \A i \in 1 .. last : path[i] \in set
  BY <1>1, <1>3, <1>6, PathStaysInside
<1> QED BY <1>7 DEF last

-----------------------------------------------------------------------------
(* The stack of calls *)

\* The innermost call goes on to its next neighbour.
LEMMA TopMoves ==
  ASSUME DetectorTypeOK, stack # <<>>, NEW next
  PROVE  /\ TopWithout(next) \in Seq(Call)
         /\ Len(TopWithout(next)) = Len(stack)
         /\ Len(stack) \in Nat \ {0}
         /\ \A i \in 1 .. Len(stack) :
               /\ TopWithout(next)[i].node = stack[i].node
               /\ TopWithout(next)[i].todo = IF i = Len(stack) THEN stack[i].todo \ {next} ELSE stack[i].todo
<1>1. stack \in Seq(Call) /\ Len(stack) \in Nat \ {0}
  BY LenProperties, EmptySeq DEF DetectorTypeOK
<1>2. stack[Len(stack)] \in Call
  BY <1>1, ElementOfSeq
<1>3. [stack[Len(stack)] EXCEPT !.todo = @ \ {next}] \in Call
  BY <1>2 DEF Call
<1> DEFINE call == [stack[Len(stack)] EXCEPT !.todo = @ \ {next}]
<1>4. /\ call.node = stack[Len(stack)].node /\ call.todo = stack[Len(stack)].todo \ {next}
  BY <1>2 DEF Call
<1>5. TopWithout(next) = [stack EXCEPT ![Len(stack)] = call]
  BY DEF TopWithout
<1> HIDE DEF call
<1>6. /\ TopWithout(next) \in Seq(Call) /\ Len(TopWithout(next)) = Len(stack)
      /\ \A i \in 1 .. Len(stack) : TopWithout(next)[i] = IF i = Len(stack) THEN call ELSE stack[i]
  <2>1. call \in Call /\ Len(stack) \in 1 .. Len(stack)
    BY <1>1, <1>3 DEF call
  <2> QED BY <1>1, <1>5, <2>1, ExceptSeq
<1> QED BY <1>1, <1>4, <1>6

\* The search takes up the root t, or t has been looked at before.
LEMMA StartKeepsInv ==
  ASSUME DetectorTypeOK, PathInv, ReturnedInv, NEW t \in Txns, StartAtRoot(t)
  PROVE  (DetectorTypeOK /\ PathInv /\ ReturnedInv)'
<1>1. CASE t \in visited
  <2>1. roots' = roots \ {t} /\ UNCHANGED <<wait_graph, phase, visited, stack, cycle, victim>>
    BY <1>1 DEF StartAtRoot
  <2>2. \A x : (Returned(x)' <=> Returned(x)) /\ (Deadlocked(x)' <=> Deadlocked(x))
    BY <2>1 DEF Returned, OnStack, Deadlocked, Closed
  <2>3. DetectorTypeOK'
    BY <2>1 DEF DetectorTypeOK
  <2>4. PathInv'
    BY <2>1 DEF PathInv
  <2>5. ReturnedInv'
    BY <1>1, <2>1, <2>2 DEF ReturnedInv
  <2> QED BY <2>3, <2>4, <2>5
<1>2. CASE t \notin visited
  <2> DEFINE call == [node |-> t, todo |-> wait_graph[t]]
  <2>1. /\ stack = <<>> /\ roots' = roots \ {t} /\ visited' = visited \cup {t}
        /\ stack' = Append(stack, call)
        /\ UNCHANGED <<wait_graph, phase, cycle, victim>>
    BY <1>2 DEF StartAtRoot, Entered
  <2>2. call \in Call
    BY DEF Call, DetectorTypeOK
  <2>3. Len(stack) = 0 /\ stack \in Seq(Call)
    BY <2>1, EmptySeq DEF DetectorTypeOK
  <2> HIDE DEF call
  <2>4. stack' \in Seq(Call) /\ Len(stack') = 1 /\ stack'[1] = call
    BY <2>1, <2>2, <2>3, AppendProperties
  <2>5. stack'[1].node = t /\ stack'[1].todo = wait_graph[t]
    BY <2>4 DEF call
  <2>6. \A x \in Txns : Returned(x)' <=> Returned(x)
    BY <1>2, <2>1, <2>3, <2>4, <2>5 DEF Returned, OnStack
  <2>7. DetectorTypeOK'
    BY <2>1, <2>4 DEF DetectorTypeOK
  <2>8. PathInv'
    BY <2>1, <2>4, <2>5 DEF PathInv
  <2>9. ReturnedInv'
    <3>1. \A x \in Txns : Deadlocked(x)' <=> Deadlocked(x)
      BY <2>1 DEF Deadlocked, Closed
    <3>2. \A x \in Txns : Returned(x)' => \A other \in wait_graph'[x] : Returned(other)'
      BY <2>1, <2>6 DEF ReturnedInv, DetectorTypeOK
    <3>3. \A x \in Txns : wait_graph'[x] # {} => x \in roots' \/ x \in visited'
      BY <2>1 DEF ReturnedInv
    <3>4. \A i \in 1 .. Len(stack') : \A x \in wait_graph'[stack'[i].node] \ stack'[i].todo : FALSE
      BY <2>1, <2>4, <2>5
    <3> QED BY <2>6, <3>1, <3>2, <3>3, <3>4 DEF ReturnedInv
  <2> QED BY <2>7, <2>8, <2>9
<1> QED BY <1>1, <1>2

\* The innermost call calls itself for a transaction that is new.
LEMMA DescendKeepsInv ==
  ASSUME DetectorTypeOK, PathInv, ReturnedInv, NEW next \in Txns, Descend(next)
  PROVE  (DetectorTypeOK /\ PathInv /\ ReturnedInv)'
<1> DEFINE call == [node |-> next, todo |-> wait_graph[next]]
           moved == TopWithout(next)
           n == Len(stack)
<1>1. /\ stack # <<>> /\ next \in stack[n].todo /\ next \notin visited
      /\ visited' = visited \cup {next} /\ stack' = Append(moved, call)
      /\ UNCHANGED <<wait_graph, phase, roots, cycle, victim>>
  BY DEF Descend, Searching, Top
<1>2. call \in Call /\ call.node = next /\ call.todo = wait_graph[next]
  BY DEF Call, DetectorTypeOK
<1>3. /\ moved \in Seq(Call) /\ Len(moved) = n /\ n \in Nat \ {0}
      /\ \A i \in 1 .. n : /\ moved[i].node = stack[i].node
                           /\ moved[i].todo = IF i = n THEN stack[i].todo \ {next} ELSE stack[i].todo
  BY <1>1, TopMoves
<1> HIDE DEF call, moved
<1>4. /\ stack' \in Seq(Call) /\ Len(stack') = n + 1 /\ stack'[n + 1] = call
      /\ \A i \in 1 .. n : stack'[i] = moved[i]
  BY <1>1, <1>2, <1>3, AppendProperties
<1>5. /\ stack'[n + 1].node = next /\ stack'[n + 1].todo = wait_graph[next]
      /\ \A i \in 1 .. n : /\ stack'[i].node = stack[i].node
                           /\ stack'[i].todo = IF i = n THEN stack[i].todo \ {next} ELSE stack[i].todo
  BY <1>2, <1>3, <1>4
<1>6. \A i \in 1 .. n : /\ stack[i].node \in visited /\ stack[i].node \in Txns
                        /\ stack[i].todo \subseteq wait_graph[stack[i].node]
  BY DEF PathInv, DetectorTypeOK
<1> HIDE DEF n
<1>7. \A x \in Txns : Returned(x)' <=> Returned(x)
  <2>1. ASSUME NEW x \in Txns
        PROVE  OnStack(x)' <=> (OnStack(x) \/ x = next)
    <3>1. ASSUME NEW i \in 1 .. (n + 1), stack'[i].node = x
          PROVE  OnStack(x) \/ x = next
      <4>1. i = n + 1 \/ i \in 1 .. n
        BY <1>3
      <4> QED BY <1>5, <3>1, <4>1 DEF OnStack, n
    <3>2. ASSUME NEW i \in 1 .. n, stack[i].node = x
          PROVE  OnStack(x)'
      <4>1. i \in 1 .. (n + 1) /\ stack'[i].node = x
        <5>1. n + 1 \in Nat /\ \A k \in 1 .. n : k \in 1 .. (n + 1)
          BY <1>3
        <5> QED BY <1>5, <3>2, <5>1, Zenon
      <4> QED BY <1>4, <4>1 DEF OnStack
    <3>3. x = next => OnStack(x)'
      <4>1. n + 1 \in 1 .. (n + 1)
        BY <1>3
      <4> QED BY <1>4, <1>5, <4>1 DEF OnStack
    <3> QED BY <1>4, <3>1, <3>2, <3>3 DEF OnStack, n
  <2> QED BY <1>1, <2>1 DEF Returned
<1>8. DetectorTypeOK'
  BY <1>1, <1>4 DEF DetectorTypeOK
<1>9. PathInv'
  <2>1. \A i \in 1 .. Len(stack') : /\ stack'[i].node \in visited'
                                    /\ stack'[i].todo \subseteq wait_graph'[stack'[i].node]
    <3> SUFFICES ASSUME NEW i \in 1 .. (n + 1)
                 PROVE  stack'[i].node \in visited' /\ stack'[i].todo \subseteq wait_graph[stack'[i].node]
      BY <1>1, <1>4
    <3>1. CASE i = n + 1
      BY <1>1, <1>5, <3>1
    <3>2. CASE i \in 1 .. n
      BY <1>1, <1>5, <1>6, <3>2
    <3> QED BY <1>3, <3>1, <3>2
  <2>2. \A i, j \in 1 .. Len(stack') : stack'[i].node = stack'[j].node => i = j
    <3>1. \A i, j \in 1 .. n : stack[i].node = stack[j].node => i = j
      BY DEF PathInv, n
    <3>2. \A i \in 1 .. n : stack[i].node # next
      BY <1>1, <1>6
    <3>3. \A i \in 1 .. (n + 1) : i = n + 1 \/ i \in 1 .. n
      BY <1>3
    <3>4. ASSUME NEW i \in 1 .. (n + 1), NEW j \in 1 .. (n + 1), stack'[i].node = stack'[j].node
          PROVE  i = j
      <4>1. CASE i \in 1 .. n /\ j \in 1 .. n
        BY <1>5, <3>1, <3>4, <4>1
      <4>2. CASE i \in 1 .. n /\ j = n + 1
        BY <1>5, <3>2, <3>4, <4>2
      <4>3. CASE i = n + 1 /\ j \in 1 .. n
        BY <1>5, <3>2, <3>4, <4>3
      <4> QED BY <3>3, <4>1, <4>2, <4>3
    <3> QED BY <1>4, <3>4
  <2>3. \A i \in 1 .. Len(stack') : i + 1 \in 1 .. Len(stack') => stack'[i + 1].node \in wait_graph'[stack'[i].node]
    <3> SUFFICES ASSUME NEW i \in 1 .. n
                 PROVE  stack'[i + 1].node \in wait_graph[stack'[i].node]
      BY <1>1, <1>3, <1>4
    <3>1. CASE i = n
      BY <1>1, <1>3, <1>5, <1>6, <3>1 DEF n
    <3>2. CASE i # n
      <4>1. i + 1 \in 1 .. n
        BY <1>3, <3>2
      <4> QED BY <1>5, <4>1 DEF PathInv, n
    <3> QED BY <3>1, <3>2
  <2> QED BY <2>1, <2>2, <2>3 DEF PathInv
<1>10. ReturnedInv'
  <2>1. \A x \in Txns : Deadlocked(x)' <=> Deadlocked(x)
    BY <1>1 DEF Deadlocked, Closed
  <2>2. \A x \in Txns : Returned(x)' => \A other \in wait_graph'[x] : Returned(other)'
    BY <1>1, <1>7 DEF ReturnedInv, DetectorTypeOK
  <2>3. \A x \in Txns : wait_graph'[x] # {} => x \in roots' \/ x \in visited'
    BY <1>1 DEF ReturnedInv
  <2>4. ASSUME NEW i \in 1 .. (n + 1), NEW x \in wait_graph'[stack'[i].node] \ stack'[i].todo
        PROVE  Returned(x)' \/ (i + 1 \in 1 .. (n + 1) /\ x = stack'[i + 1].node)
    <3>1. CASE i = n + 1
      BY <1>1, <1>5, <2>4, <3>1
    <3>2. CASE i = n
      <4>0. i \in 1 .. n
        BY <1>3, <3>2
      <4>1. x \in wait_graph[stack[i].node] /\ (x \notin stack[i].todo \/ x = next) /\ x \in Txns
        BY <1>1, <1>5, <1>6, <2>4, <3>2, <4>0 DEF DetectorTypeOK
      <4>2. x = next \/ Returned(x)
        BY <1>3, <3>2, <4>1 DEF ReturnedInv, n
      <4> QED BY <1>3, <1>5, <1>7, <3>2, <4>1, <4>2
    <3>3. CASE i \in 1 .. n /\ i # n
      <4>0. i + 1 \in 1 .. n /\ i + 1 \in 1 .. (n + 1)
        BY <1>3, <3>3
      <4>1. x \in wait_graph[stack[i].node] \ stack[i].todo /\ x \in Txns
        BY <1>1, <1>5, <1>6, <2>4, <3>3 DEF DetectorTypeOK
      <4>2. x = stack[i + 1].node \/ Returned(x)
        BY <3>3, <4>1 DEF ReturnedInv, n
      <4> QED BY <1>5, <1>7, <4>0, <4>1, <4>2
    <3> QED BY <1>3, <3>1, <3>2, <3>3
  <2> QED BY <1>4, <1>7, <2>1, <2>2, <2>3, <2>4 DEF ReturnedInv
<1> QED BY <1>8, <1>9, <1>10

\* The innermost call goes past a neighbour whose call has returned false.
LEMMA PassOverKeepsInv ==
  ASSUME DetectorTypeOK, PathInv, ReturnedInv, NEW next \in Txns, PassOver(next)
  PROVE  (DetectorTypeOK /\ PathInv /\ ReturnedInv)'
<1> DEFINE n == Len(stack)
<1>1. /\ stack # <<>> /\ Returned(next) /\ stack' = TopWithout(next)
      /\ UNCHANGED <<wait_graph, phase, roots, visited, cycle, victim>>
  BY DEF PassOver, Searching, Returned
<1>2. /\ stack' \in Seq(Call) /\ Len(stack') = n /\ n \in Nat \ {0}
      /\ \A i \in 1 .. n : /\ stack'[i].node = stack[i].node
                           /\ stack'[i].todo = IF i = n THEN stack[i].todo \ {next} ELSE stack[i].todo
  BY <1>1, TopMoves
<1>3. \A x : OnStack(x)' <=> OnStack(x)
  BY <1>2 DEF OnStack
<1>4. \A x : Returned(x)' <=> Returned(x)
  BY <1>1, <1>3 DEF Returned
<1> HIDE DEF n
<1>5. DetectorTypeOK'
  BY <1>1, <1>2 DEF DetectorTypeOK
<1>6. PathInv'
  <2>1. \A i \in 1 .. n : /\ stack'[i].node \in visited'
                          /\ stack'[i].todo \subseteq wait_graph'[stack'[i].node]
    BY <1>1, <1>2 DEF PathInv, n
  <2>2. \A i, j \in 1 .. n : stack[i].node = stack[j].node => i = j
    BY DEF PathInv, n
  <2>3. \A i, j \in 1 .. n : stack'[i].node = stack'[j].node => i = j
    BY <1>2, <2>2
  <2>4. \A i \in 1 .. n : i + 1 \in 1 .. n => stack[i + 1].node \in wait_graph[stack[i].node]
    BY DEF PathInv, n
  <2>5. \A i \in 1 .. n : i + 1 \in 1 .. n => stack'[i + 1].node \in wait_graph'[stack'[i].node]
    BY <1>1, <1>2, <2>4
  <2> QED BY <1>2, <2>1, <2>3, <2>5 DEF PathInv
<1>7. ReturnedInv'
  <2>1. \A x \in Txns : Deadlocked(x)' <=> Deadlocked(x)
    BY <1>1 DEF Deadlocked, Closed
  <2>2. \A x \in Txns : Returned(x)' => \A other \in wait_graph'[x] : Returned(other)'
    BY <1>1, <1>4 DEF ReturnedInv
  <2>3. \A x \in Txns : wait_graph'[x] # {} => x \in roots' \/ x \in visited'
    BY <1>1 DEF ReturnedInv
  <2>4. ASSUME NEW i \in 1 .. n, NEW x \in wait_graph'[stack'[i].node] \ stack'[i].todo
        PROVE  Returned(x)' \/ (i + 1 \in 1 .. n /\ x = stack'[i + 1].node)
    <3>1. x \in wait_graph[stack[i].node] /\ (x \notin stack[i].todo \/ x = next)
      BY <1>1, <1>2, <2>4
    <3>2. x = next \/ Returned(x) \/ (i + 1 \in 1 .. n /\ x = stack[i + 1].node)
      BY <3>1 DEF ReturnedInv, n
    <3> QED BY <1>1, <1>2, <1>4, <3>2
  <2> QED BY <1>2, <1>4, <2>1, <2>2, <2>3, <2>4 DEF ReturnedInv
<1> QED BY <1>5, <1>6, <1>7

\* A call that has nothing left to do waits only for transactions whose call has
\* returned: these are a closed set without it, so it is not deadlocked.
LEMMA TopIsNotDeadlocked ==
  ASSUME DetectorTypeOK, PathInv, ReturnedInv, stack # <<>>, Top.todo = {}
  PROVE  /\ \A x \in wait_graph[Top.node] : Returned(x)
         /\ ~Deadlocked(Top.node)
<1> DEFINE n == Len(stack)
           set == {x \in Txns : Returned(x)}
<1>1. n \in Nat \ {0} /\ Top = stack[n] /\ n \in 1 .. n /\ ~(n + 1 \in 1 .. n)
  BY EmptySeq DEF DetectorTypeOK, Top
<1>2. Top \in Call
  BY <1>1, ElementOfSeq DEF DetectorTypeOK
<1>3. \A x \in wait_graph[Top.node] : Returned(x)
  BY <1>1 DEF ReturnedInv
<1>4. \A x \in set : wait_graph[x] \subseteq set
  BY DEF ReturnedInv, DetectorTypeOK
<1>5. wait_graph[Top.node] \subseteq set
  BY <1>2, <1>3 DEF DetectorTypeOK, Call
<1>6. Top.node \notin set
  BY <1>1 DEF Returned, OnStack
<1>7. set \in SUBSET Txns
  OBVIOUS
<1> HIDE DEF set
<1>8. ~Deadlocked(Top.node)
  BY <1>4, <1>5, <1>6, <1>7, Zenon DEF Deadlocked, Closed
<1> QED BY <1>3, <1>8

\* The innermost call returns false.
LEMMA ReturnKeepsInv ==
  ASSUME DetectorTypeOK, PathInv, ReturnedInv, ReturnFalse
  PROVE  (DetectorTypeOK /\ PathInv /\ ReturnedInv)'
<1> DEFINE n == Len(stack)
<1>1. /\ stack # <<>> /\ Top.todo = {} /\ stack' = SubSeq(stack, 1, n - 1)
      /\ UNCHANGED <<wait_graph, phase, roots, visited, cycle, victim>>
  BY DEF ReturnFalse
<1>2. n \in Nat \ {0} /\ \A i \in 1 .. n : stack[i] \in Call
  BY <1>1, EmptySeq, ElementOfSeq DEF DetectorTypeOK
<1>3. Top = stack[n]
  BY DEF Top
<1>4. /\ \A x \in wait_graph[Top.node] : Returned(x)
      /\ ~Deadlocked(Top.node)
  BY <1>1, TopIsNotDeadlocked
<1>5. \A i, j \in 1 .. n : stack[i].node = stack[j].node => i = j
  BY DEF PathInv
<1>6. \A i \in 1 .. n : stack[i].node \in visited
  BY DEF PathInv
<1>7. \A x : OnStack(x) <=> \E i \in 1 .. n : stack[i].node = x
  BY DEF OnStack
<1>8. \A i \in 1 .. n : \A x \in wait_graph[stack[i].node] \ stack[i].todo :
         Returned(x) \/ (i + 1 \in 1 .. n /\ x = stack[i + 1].node)
  BY DEF ReturnedInv
<1>9. \A i \in 1 .. n : /\ stack[i].todo \subseteq wait_graph[stack[i].node]
                        /\ i + 1 \in 1 .. n => stack[i + 1].node \in wait_graph[stack[i].node]
  BY DEF PathInv
<1> HIDE DEF n
<1>10. /\ stack' \in Seq(Call) /\ Len(stack') = n - 1
       /\ \A i \in 1 .. (n - 1) : stack'[i] = stack[i] /\ i \in 1 .. n
       /\ n - 1 \in Nat
  <2> DEFINE m == n - 1
  <2>1. m \in Nat /\ \A i \in 1 .. m : stack[i] \in Call /\ i \in 1 .. n
    BY <1>2
  <2>2. stack' = SubSeq(stack, 1, m)
    BY <1>1
  <2> HIDE DEF m
  <2>3. stack' \in Seq(Call) /\ Len(stack') = (IF 1 <= m THEN m - 1 + 1 ELSE 0)
        /\ \A i \in 1 .. (m - 1 + 1) : stack'[i] = stack[1 + i - 1]
    BY <2>1, <2>2, SubSeqProperties
  <2>4. \A i \in 1 .. m : i \in 1 .. (m - 1 + 1) /\ 1 + i - 1 = i
    BY <2>1
  <2>5. Len(stack') = m
    BY <2>1, <2>3
  <2>6. \A i \in 1 .. m : stack'[i] = stack[i]
    BY <2>3, <2>4
  <2> QED BY <2>1, <2>3, <2>5, <2>6 DEF m
<1>11. \A x : Returned(x)' <=> Returned(x) \/ x = Top.node
  <2>1. ASSUME NEW x
        PROVE  OnStack(x)' <=> OnStack(x) /\ x # stack[n].node
    <3>1. OnStack(x)' <=> \E i \in 1 .. (n - 1) : stack'[i].node = x
      BY <1>10 DEF OnStack
    <3>2. \A i \in 1 .. n : i = n \/ i \in 1 .. (n - 1)
      BY <1>2
    <3>3. \A i \in 1 .. (n - 1) : i # n /\ n \in 1 .. n
      BY <1>2
    <3>4. ASSUME NEW i \in 1 .. (n - 1), stack'[i].node = x
          PROVE  OnStack(x) /\ x # stack[n].node
      BY <1>5, <1>7, <1>10, <3>3, <3>4
    <3>5. ASSUME NEW i \in 1 .. n, stack[i].node = x, x # stack[n].node
          PROVE  \E k \in 1 .. (n - 1) : stack'[k].node = x
      BY <1>10, <3>2, <3>5
    <3> QED BY <1>7, <3>1, <3>4, <3>5
  <2>2. stack[n].node \in visited
    BY <1>2, <1>6
  <2> QED BY <1>1, <1>3, <2>1, <2>2 DEF Returned
<1>12. DetectorTypeOK'
  BY <1>1, <1>10 DEF DetectorTypeOK
<1>13. PathInv'
  <2>1. \A i \in 1 .. (n - 1) : i + 1 \in 1 .. (n - 1) => i + 1 \in 1 .. n
    BY <1>2
  <2> QED BY <1>1, <1>5, <1>6, <1>9, <1>10, <2>1 DEF PathInv
<1>14. ReturnedInv'
  <2>1. \A x \in Txns : Deadlocked(x)' <=> Deadlocked(x)
    BY <1>1 DEF Deadlocked, Closed
  <2>2. \A x \in Txns : Returned(x)' => \A other \in wait_graph'[x] : Returned(other)'
    BY <1>1, <1>4, <1>11 DEF ReturnedInv
  <2>3. \A x \in Txns : wait_graph'[x] # {} => x \in roots' \/ x \in visited'
    BY <1>1 DEF ReturnedInv
  <2>4. ASSUME NEW i \in 1 .. (n - 1), NEW x \in wait_graph'[stack'[i].node] \ stack'[i].todo
        PROVE  Returned(x)' \/ (i + 1 \in 1 .. (n - 1) /\ x = stack'[i + 1].node)
    <3>1. Returned(x) \/ (i + 1 \in 1 .. n /\ x = stack[i + 1].node)
      BY <1>1, <1>8, <1>10, <2>4
    <3>2. i + 1 = n \/ i + 1 \in 1 .. (n - 1)
      BY <1>2
    <3> QED BY <1>3, <1>10, <1>11, <3>1, <3>2
  <2>5. \A x \in Txns : Returned(x)' => ~Deadlocked(x)'
    BY <1>4, <1>11, <2>1 DEF ReturnedInv
  <2> QED BY <1>10, <2>2, <2>3, <2>4, <2>5 DEF ReturnedInv
<1> QED BY <1>12, <1>13, <1>14

\* The path from next to the innermost call and back is a closed path of the
\* graph (DeadLockDector.cpp:91-97).
LEMMA CloseCycleIsReal ==
  ASSUME DetectorTypeOK, PathInv, NEW next \in Txns, CloseCycle(next)
  PROVE  DetectorTypeOK' /\ CycleIsReal' /\ victim' # NoTxn
<1> DEFINE n == Len(stack)
<1>1. /\ stack # <<>> /\ next \in stack[n].todo
      /\ victim' = Largest(cycle') /\ phase' = "answered"
      /\ UNCHANGED <<wait_graph, roots, visited, stack>>
  BY DEF CloseCycle, Searching, Top
<1>2. PICK i \in 1 .. n : stack[i].node = next /\ cycle' = Append(SubSeq(Path, i, n), next)
  BY DEF CloseCycle
<1>3. n \in Nat \ {0} /\ \A k \in 1 .. n : stack[k] \in Call
  BY <1>1, EmptySeq, ElementOfSeq DEF DetectorTypeOK
<1>4. \A k \in 1 .. n : Path[k] = stack[k].node /\ Path[k] \in Txns
  BY <1>3 DEF Path, Call
<1>5. \A k, j \in 1 .. n : stack[k].node = stack[j].node => k = j
  BY DEF PathInv
<1>6. \A k \in 1 .. n : /\ stack[k].todo \subseteq wait_graph[stack[k].node]
                        /\ k + 1 \in 1 .. n => stack[k + 1].node \in wait_graph[stack[k].node]
  BY DEF PathInv
<1>7. PICK path : path = SubSeq(Path, i, n)
  OBVIOUS
<1> HIDE DEF n
<1>8. PICK m \in Nat : m = n - i + 1 /\ m > 0
  BY <1>3
<1>9. /\ path \in Seq(Txns) /\ Len(path) = m
      /\ \A k \in 1 .. m : path[k] = stack[i + k - 1].node /\ i + k - 1 \in 1 .. n
  <2>1. \A k \in i .. n : Path[k] \in Txns
    BY <1>3, <1>4
  <2>2. /\ path \in Seq(Txns) /\ Len(path) = (IF i <= n THEN n - i + 1 ELSE 0)
        /\ \A k \in 1 .. (n - i + 1) : path[k] = Path[i + k - 1]
    BY <1>3, <1>7, <2>1, SubSeqProperties
  <2>3. \A k \in 1 .. m : i + k - 1 \in 1 .. n
    BY <1>3, <1>8
  <2> QED BY <1>3, <1>4, <1>8, <2>2, <2>3
<1>10. PICK c \in Seq(Txns) : c = cycle' /\ Len(c) = m + 1 /\ c[m + 1] = next /\ \A k \in 1 .. m : c[k] = path[k]
  <2>1. PICK c : c = Append(path, next)
    OBVIOUS
  <2>2. c \in Seq(Txns) /\ Len(c) = Len(path) + 1 /\ c[Len(path) + 1] = next
        /\ \A k \in 1 .. Len(path) : c[k] = path[k]
    BY <1>9, <2>1, AppendProperties
  <2> QED BY <1>2, <1>7, <1>9, <2>1, <2>2
<1>11. Len(c) > 1 /\ c[1] = c[Len(c)]
  <2>1. 1 \in 1 .. m /\ i + 1 - 1 = i
    BY <1>3, <1>8
  <2> QED BY <1>2, <1>8, <1>9, <1>10, <2>1
<1>12. ASSUME NEW k \in 1 .. m
       PROVE  c[k + 1] \in wait_graph[c[k]]
  <2>1. c[k] = stack[i + k - 1].node /\ i + k - 1 \in 1 .. n
    BY <1>9, <1>10
  <2>2. CASE k = m
    <3>1. i + k - 1 = n
      BY <1>3, <1>8, <2>2
    <3> QED BY <1>1, <1>6, <1>10, <2>1, <2>2, <3>1 DEF n
  <2>3. CASE k # m
    <3>1. k + 1 \in 1 .. m /\ i + (k + 1) - 1 = (i + k - 1) + 1
      BY <1>3, <1>8, <2>3
    <3>2. c[k + 1] = stack[i + (k + 1) - 1].node /\ i + (k + 1) - 1 \in 1 .. n
      BY <1>9, <1>10, <3>1
    <3> QED BY <1>6, <2>1, <3>1, <3>2
  <2> QED BY <2>2, <2>3
<1>13. \A k, j \in 1 .. m : c[k] = c[j] => k = j
  <2> SUFFICES ASSUME NEW k \in 1 .. m, NEW j \in 1 .. m, c[k] = c[j]
               PROVE  k = j
    OBVIOUS
  <2>1. /\ i + k - 1 \in 1 .. n /\ stack[i + k - 1].node = c[k]
        /\ i + j - 1 \in 1 .. n /\ stack[i + j - 1].node = c[j]
    BY <1>9, <1>10
  <2>2. i + k - 1 = i + j - 1
    BY <1>5, <2>1, Zenon
  <2> QED BY <1>3, <1>8, <2>2
<1>14. Len(c) - 1 = m
  BY <1>10
<1>15. \A k \in 1 .. (Len(c) - 1) : c[k + 1] \in wait_graph[c[k]]
  BY <1>12, <1>14
<1>16. c # <<>>
  BY <1>11, EmptySeq
<1>17. PICK k \in 1 .. Len(c) : c[k] = Largest(c)
  BY <1>16, LargestIsOnCycle
<1>18. Deadlocked(Largest(c)) /\ \A j \in 1 .. Len(c) : c[j] <= Largest(c)
  BY <1>11, <1>15, <1>16, <1>17, CycleDeadlocks, LargestIsOnCycle
<1>19. PICK largest : largest = Largest(c) /\ largest = victim'
  BY <1>1, <1>10
<1>20. largest \in Txns
  BY <1>17, <1>19, ElementOfSeq
<1>21. Deadlocked(largest)'
  BY <1>1, <1>18, <1>19 DEF Deadlocked, Closed
<1>22. DetectorTypeOK'
  BY <1>1, <1>10, <1>19, <1>20 DEF DetectorTypeOK
<1>23. CycleIsReal'
  <2>1. \A j \in 1 .. Len(c) : c[j] <= largest
    BY <1>18, <1>19
  <2>2. Deadlocked(victim)'
    BY <1>19, <1>21 DEF Deadlocked
  <2> QED BY <1>1, <1>10, <1>11, <1>13, <1>14, <1>15, <1>19, <2>1, <2>2 DEF CycleIsReal
<1>24. victim' # NoTxn
  BY <1>19, <1>20, MaxTxnsAssumption DEF NoTxn, Txns
<1> QED BY <1>22, <1>23, <1>24

-----------------------------------------------------------------------------
(* The specification *)

LEMMA SearchInit == DetectorInit => SearchInv
<1> SUFFICES ASSUME DetectorInit PROVE SearchInv
  OBVIOUS
<1>1. DetectorTypeOK
  BY EmptySeq DEF DetectorInit, DetectorTypeOK
<1> QED BY <1>1 DEF DetectorInit, SearchInv, AnswerInv, CycleIsReal

\* The graph changes between two searches only.
LEMMA IdleStep ==
  ASSUME DetectorTypeOK, phase' = "idle", wait_graph' \in [Txns -> SUBSET Txns],
         \/ UNCHANGED <<roots, visited, stack, cycle, victim>>
         \/ /\ roots' = {} /\ visited' = {} /\ stack' = <<>> /\ cycle' = <<>>
            /\ victim' = NoTxn
  PROVE  SearchInv'
<1>1. DetectorTypeOK'
  BY EmptySeq DEF DetectorTypeOK
<1> QED BY <1>1 DEF SearchInv, AnswerInv, CycleIsReal

LEMMA SearchStepKeepsInv ==
  ASSUME SearchInv, SearchStep
  PROVE  SearchInv'
<1>1. phase = "running" /\ DetectorTypeOK /\ PathInv /\ ReturnedInv /\ victim = NoTxn
  BY DEF SearchInv, SearchStep, StartAtRoot, Descend, PassOver, CloseCycle, Searching, ReturnFalse, NoCycle
<1>2. ASSUME (DetectorTypeOK /\ PathInv /\ ReturnedInv)', phase' = phase, victim' = victim
      PROVE  SearchInv'
  BY <1>1, <1>2 DEF SearchInv, AnswerInv, CycleIsReal
<1>3. ASSUME NEW t \in Txns, StartAtRoot(t) PROVE SearchInv'
  BY <1>1, <1>2, <1>3, StartKeepsInv DEF StartAtRoot
<1>4. ASSUME NEW t \in Txns, Descend(t) PROVE SearchInv'
  BY <1>1, <1>2, <1>4, DescendKeepsInv DEF Descend
<1>5. ASSUME NEW t \in Txns, PassOver(t) PROVE SearchInv'
  BY <1>1, <1>2, <1>5, PassOverKeepsInv DEF PassOver
<1>6. ASSUME NEW t \in Txns, CloseCycle(t) PROVE SearchInv'
  <2>1. phase' = "answered"
    BY <1>6 DEF CloseCycle
  <2> QED BY <1>1, <1>6, <2>1, CloseCycleIsReal DEF SearchInv, AnswerInv
<1>7. CASE ReturnFalse
  BY <1>1, <1>2, <1>7, ReturnKeepsInv DEF ReturnFalse
<1>8. CASE NoCycle
  <2>1. /\ stack = <<>> /\ roots = {} /\ phase' = "answered"
        /\ UNCHANGED <<wait_graph, roots, visited, stack, cycle, victim>>
    BY <1>8 DEF NoCycle
  <2>2. DetectorTypeOK'
    BY <1>1, <2>1 DEF DetectorTypeOK
  <2>3. Len(stack) = 0
    BY <2>1, EmptySeq
  <2>4. ASSUME NEW t \in Txns PROVE ~Deadlocked(t)
    <3>1. CASE wait_graph[t] = {}
      <4>1. Closed({}) /\ {} \in SUBSET Txns /\ wait_graph[t] \subseteq {}
        BY <3>1 DEF Closed
      <4> QED BY <4>1, Zenon DEF Deadlocked
    <3>2. CASE wait_graph[t] # {}
      <4>1. Returned(t)
        BY <1>1, <2>1, <2>3, <3>2 DEF ReturnedInv, Returned, OnStack
      <4> QED BY <1>1, <4>1 DEF ReturnedInv
    <3> QED BY <3>1, <3>2
  <2>5. \A t \in Txns : ~Deadlocked(t)'
    BY <2>1, <2>4 DEF Deadlocked, Closed
  <2> QED BY <1>1, <2>1, <2>2, <2>5 DEF SearchInv, AnswerInv, CycleIsReal
<1> QED BY <1>3, <1>4, <1>5, <1>6, <1>7, <1>8 DEF SearchStep

LEMMA SearchNext == SearchInv /\ [DetectorNext]_detectorVars => SearchInv'
<1> SUFFICES ASSUME SearchInv, [DetectorNext]_detectorVars PROVE SearchInv'
  OBVIOUS
<1>1. DetectorTypeOK
  BY DEF SearchInv
<1>2. ASSUME NEW t \in Txns PROVE Without(t) \in [Txns -> SUBSET Txns]
  BY <1>1 DEF DetectorTypeOK, Without
<1>3. ASSUME NEW from \in Txns, NEW to \in Txns, AddEdge(from, to) \/ RemoveEdge(from, to)
      PROVE  SearchInv'
  <2>1. phase' = "idle" /\ UNCHANGED <<roots, visited, stack, cycle, victim>>
    BY <1>3 DEF AddEdge, RemoveEdge, ChangeGraph
  <2>2. wait_graph' \in [Txns -> SUBSET Txns]
    BY <1>1, <1>3 DEF AddEdge, RemoveEdge, ChangeGraph, DetectorTypeOK
  <2> QED BY <1>1, <2>1, <2>2, IdleStep
<1>4. ASSUME NEW t \in Txns, RemoveTxn(t) PROVE SearchInv'
  BY <1>1, <1>2, <1>4, IdleStep DEF RemoveTxn, ChangeGraph
<1>5. CASE DetectCycle
  <2>1. /\ phase' = "running" /\ roots' = {t \in Txns : wait_graph[t] # {}}
        /\ visited' = {} /\ stack' = <<>> /\ cycle' = <<>> /\ victim' = NoTxn
        /\ wait_graph' = wait_graph
    BY <1>5 DEF DetectCycle
  <2>2. DetectorTypeOK'
    BY <1>1, <2>1, EmptySeq DEF DetectorTypeOK
  <2>3. Len(stack') = 0
    BY <2>1, EmptySeq
  <2>4. PathInv'
    BY <2>3 DEF PathInv
  <2>5. ReturnedInv'
    <3>1. \A t : ~Returned(t)'
      BY <2>1 DEF Returned
    <3> QED BY <2>1, <2>3, <3>1 DEF ReturnedInv
  <2> QED BY <2>1, <2>2, <2>4, <2>5 DEF SearchInv, AnswerInv, CycleIsReal
<1>6. CASE SearchStep
  BY <1>6, SearchStepKeepsInv
<1>7. CASE ResolveDeadlock
  <2>1. victim \in Txns
    BY <1>1, <1>7 DEF ResolveDeadlock, DetectorTypeOK
  <2> QED BY <1>1, <1>2, <1>7, <2>1, IdleStep DEF ResolveDeadlock
<1>8. CASE IgnoreAnswer
  BY <1>1, <1>8, IdleStep DEF IgnoreAnswer, DetectorTypeOK
<1>9. CASE UNCHANGED detectorVars
  <2>1. DetectorTypeOK'
    BY <1>1, <1>9 DEF detectorVars, DetectorTypeOK
  <2>2. PathInv' <=> PathInv
    BY <1>9 DEF detectorVars, PathInv
  <2>3. \A t : (Returned(t)' <=> Returned(t)) /\ (Deadlocked(t)' <=> Deadlocked(t))
    BY <1>9 DEF detectorVars, Returned, OnStack, Deadlocked, Closed
  <2>4. ReturnedInv' <=> ReturnedInv
    BY <1>9, <2>3 DEF detectorVars, ReturnedInv
  <2>5. Deadlocked(victim)' <=> Deadlocked(victim)
    BY <1>9 DEF detectorVars, Deadlocked, Closed
  <2>6. AnswerInv' <=> AnswerInv
    BY <1>9, <2>3, <2>5 DEF detectorVars, AnswerInv, CycleIsReal
  <2> QED BY <1>9, <2>1, <2>2, <2>4, <2>6 DEF detectorVars, SearchInv
<1> QED BY <1>3, <1>4, <1>5, <1>6, <1>7, <1>8, <1>9 DEF DetectorNext

LEMMA SearchInvariant == DetectorSpec => []SearchInv
  BY SearchInit, SearchNext, PTL DEF DetectorSpec

\* For any number of transactions, the cycle that DetectCycle reports is a closed
\* path of the graph without repetition, the victim is the youngest on it, and
\* it does wait for itself (DeadLockDector.cpp:91-97, 125-135).
THEOREM ReportedCycleIsReal == DetectorSpec => []CycleIsReal
<1>1. SearchInv => CycleIsReal
  BY DEF SearchInv, AnswerInv
<1> QED BY <1>1, SearchInvariant, PTL

\* For any number of transactions, every graph and every order of the hash
\* tables, GetVictim names a victim exactly if some transaction waits for itself
\* (DeadLockDector.cpp:75-123).
THEOREM EveryDeadlockIsFound == DetectorSpec => []DetectsExactly
<1>1. SearchInv => DetectsExactly
  BY DEF SearchInv, AnswerInv, CycleIsReal, DetectsExactly, DetectorTypeOK
<1> QED BY <1>1, SearchInvariant, PTL
=============================================================================
