-------------------------- MODULE DeadLockDetector --------------------------
(***************************************************************************)
(* The wait-for graph and its depth-first search for a cycle               *)
(* (src/MiniDB/src/concurrency/DeadLockDector.cpp).  mtx_ is held over a   *)
(* whole search, so the graph does not change during one.  The order in    *)
(* which the hash tables yield transactions is arbitrary: every order is   *)
(* explored.  HasDeadlock and DetectCycle are the same search.             *)
(***************************************************************************)
EXTENDS TransactionIds, Sequences, FiniteSets

NoTxn == 0

VARIABLES
    wait_graph,   \* wait_graph_: whom each transaction waits for
    phase,        \* "idle", or a search is "running", or GetVictim has returned
    roots,        \* transactions the outer loop has still to look at
    visited,
    stack,        \* the calls of DFSCycle: a node and the neighbours left to it;
                  \* path and rec_stack hold the nodes of the stack
    cycle,        \* the cycle found
    victim        \* what GetVictim answered, NoTxn for false

detectorVars == <<wait_graph, phase, roots, visited, stack, cycle, victim>>

DetectorInit ==
    /\ wait_graph = [t \in Txns |-> {}]
    /\ phase = "idle"
    /\ roots = {} /\ visited = {}
    /\ stack = <<>> /\ cycle = <<>>
    /\ victim = NoTxn

-----------------------------------------------------------------------------
(* The graph; an entry whose set becomes empty is erased *)

ChangeGraph(graph) ==
    /\ wait_graph' = graph
    /\ UNCHANGED <<roots, visited, stack, cycle, victim>>

AddEdge(from, to) ==
    /\ phase = "idle"
    /\ ChangeGraph([wait_graph EXCEPT ![from] = @ \cup {to}])
    /\ UNCHANGED phase

RemoveEdge(from, to) ==
    /\ phase = "idle"
    /\ ChangeGraph([wait_graph EXCEPT ![from] = @ \ {to}])
    /\ UNCHANGED phase

Without(txn) == [t \in Txns |-> IF t = txn THEN {} ELSE wait_graph[t] \ {txn}]

RemoveTxn(txn) ==
    /\ phase = "idle"
    /\ ChangeGraph(Without(txn))
    /\ UNCHANGED phase

-----------------------------------------------------------------------------
(* GetVictim: DetectCycle, then the largest id on the cycle *)

DetectCycle ==
    /\ phase = "idle"
    /\ phase' = "running"
    /\ roots' = {t \in Txns : wait_graph[t] # {}}
    /\ visited' = {} /\ stack' = <<>> /\ cycle' = <<>>
    /\ victim' = NoTxn
    /\ UNCHANGED wait_graph

\* DFSCycle(node, ...) is entered.
Entered(node) == Append(stack, [node |-> node, todo |-> wait_graph[node]])

\* Mutant: the outer loop ends with the first transaction.
StartAtOneRoot(t) ==
    /\ phase = "running" /\ stack = <<>>
    /\ t \in roots
    /\ roots' = {}
    /\ visited' = visited \cup {t} /\ stack' = Entered(t)
    /\ UNCHANGED <<wait_graph, phase, cycle, victim>>

StartAtRoot(t) ==
    /\ phase = "running" /\ stack = <<>>
    /\ t \in roots
    /\ roots' = roots \ {t}
    /\ IF t \in visited
       THEN UNCHANGED <<visited, stack>>
       ELSE visited' = visited \cup {t} /\ stack' = Entered(t)
    /\ UNCHANGED <<wait_graph, phase, cycle, victim>>

Top == stack[Len(stack)]
OnStack(t) == \E i \in 1 .. Len(stack) : stack[i].node = t

\* The innermost call goes on to its neighbour "next".
Searching(next) == phase = "running" /\ stack # <<>> /\ next \in Top.todo
TopWithout(next) == [stack EXCEPT ![Len(stack)].todo = @ \ {next}]

Descend(next) ==
    /\ Searching(next)
    /\ next \notin visited
    /\ visited' = visited \cup {next}
    /\ stack' = Append(TopWithout(next), [node |-> next, todo |-> wait_graph[next]])
    /\ UNCHANGED <<wait_graph, phase, roots, cycle, victim>>

\* Mutant: the iterator does not move past a finished neighbour.
PassOverAgain(next) ==
    /\ Searching(next)
    /\ next \in visited /\ ~OnStack(next)
    /\ UNCHANGED detectorVars

PassOver(next) ==
    /\ Searching(next)
    /\ next \in visited /\ ~OnStack(next)
    /\ stack' = TopWithout(next)
    /\ UNCHANGED <<wait_graph, phase, roots, visited, cycle, victim>>

Path == [i \in 1 .. Len(stack) |-> stack[i].node]
Largest(s) == CHOOSE t \in {s[i] : i \in 1 .. Len(s)} : \A i \in 1 .. Len(s) : s[i] <= t

\* Mutant: the whole path is reported.
CloseWholePath(next) ==
    /\ Searching(next)
    /\ OnStack(next)
    /\ cycle' = Append(Path, next)
    /\ victim' = Largest(cycle')
    /\ phase' = "answered"
    /\ UNCHANGED <<wait_graph, roots, visited, stack>>

\* next is on the path: the cycle runs from it to the end of the path and back.
CloseCycle(next) ==
    /\ Searching(next)
    /\ OnStack(next)
    /\ \E i \in 1 .. Len(stack) :
          /\ stack[i].node = next
          /\ cycle' = Append(SubSeq(Path, i, Len(stack)), next)
    /\ victim' = Largest(cycle')
    /\ phase' = "answered"
    /\ UNCHANGED <<wait_graph, roots, visited, stack>>

ReturnFalse ==
    /\ phase = "running" /\ stack # <<>>
    /\ Top.todo = {}
    /\ stack' = SubSeq(stack, 1, Len(stack) - 1)
    /\ UNCHANGED <<wait_graph, phase, roots, visited, cycle, victim>>

NoCycle ==
    /\ phase = "running" /\ stack = <<>> /\ roots = {}
    /\ phase' = "answered"
    /\ UNCHANGED <<wait_graph, roots, visited, stack, cycle, victim>>

\* mtx_ is free again when GetVictim returns: its caller removes the victim, or
\* somebody changes the graph first.
ResolveDeadlock ==
    /\ phase = "answered" /\ victim # NoTxn
    /\ wait_graph' = Without(victim)
    /\ phase' = "idle"
    /\ roots' = {} /\ visited' = {} /\ stack' = <<>> /\ cycle' = <<>>
    /\ victim' = NoTxn

IgnoreAnswer ==
    /\ phase = "answered"
    /\ phase' = "idle"
    /\ roots' = {} /\ visited' = {} /\ stack' = <<>> /\ cycle' = <<>>
    /\ victim' = NoTxn
    /\ UNCHANGED wait_graph

SearchStep ==
    \/ \E t \in Txns : StartAtRoot(t) \/ Descend(t) \/ PassOver(t) \/ CloseCycle(t)
    \/ ReturnFalse
    \/ NoCycle

DetectorNext ==
    \/ \E from, to \in Txns : AddEdge(from, to) \/ RemoveEdge(from, to)
    \/ \E t \in Txns : RemoveTxn(t)
    \/ DetectCycle
    \/ SearchStep
    \/ ResolveDeadlock \/ IgnoreAnswer

\* A search that has begun goes on to its end.
DetectorSpec == DetectorInit /\ [][DetectorNext]_detectorVars /\ WF_detectorVars(SearchStep)

-----------------------------------------------------------------------------
(* Properties *)

\* Nobody in "set" waits for somebody outside it.
Closed(set) == \A t \in set : wait_graph[t] \subseteq set

\* t waits for itself, directly or through others: it is in the least closed set
\* with those it waits for.
Deadlocked(t) ==
    \A set \in SUBSET Txns : Closed(set) /\ wait_graph[t] \subseteq set => t \in set

\* README.txt:563 "deadlocks are detected": whatever order the hash tables give,
\* the search finds a cycle exactly if some transaction waits for itself through
\* the graph (DeadLockDector.cpp:75-123).
DetectsExactly ==
    phase = "answered" => (victim # NoTxn <=> \E t \in Txns : Deadlocked(t))

\* The cycle it reports is a closed path of the graph, without repetition, and
\* the victim lies on it (DeadLockDector.cpp:91-97, 125-135): removing the
\* victim breaks that cycle.
CycleIsReal ==
    phase = "answered" /\ victim # NoTxn =>
        /\ Len(cycle) > 1 /\ cycle[1] = cycle[Len(cycle)]
        /\ \A i \in 1 .. (Len(cycle) - 1) : cycle[i + 1] \in wait_graph[cycle[i]]
        /\ \A i, j \in 1 .. (Len(cycle) - 1) : cycle[i] = cycle[j] => i = j
        /\ \A i \in 1 .. Len(cycle) : cycle[i] <= victim
        /\ Deadlocked(victim)

\* The recursion ends on every graph, cycles and self-loops included.
SearchEnds == phase = "running" ~> phase = "answered"
=============================================================================
