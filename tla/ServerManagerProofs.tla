------------------------- MODULE ServerManagerProofs -------------------------
(***************************************************************************)
(* What holds of the request queue, the worker threads and the sockets for *)
(* every number of workers, requests and descriptors: no request has two   *)
(* owners, no wakeup is lost to a queued request, and no socket is leaked  *)
(* except by a second StartServer.                                         *)
(***************************************************************************)
EXTENDS ServerManager, FiniteSetTheorems, FunctionTheorems, SequenceTheorems,
        WellFoundedInduction, TLAPS

Places == {"client", "queue", "worker", "deleted"}
MainStates == {"down", "up", "notify", "join", "gone"}
WorkerStates ==
    {"none", "loop", "lock", "predicate", "block", "waiting", "critical", "handle", "done"}

\* The states of the program: what each variable holds.
TypeInv ==
    /\ main \in MainStates
    /\ should_stop \in BOOLEAN
    /\ queue \in Seq(Requests)
    /\ queue_mutex \in Workers \cup {NoOne}
    /\ pc \in [Workers -> WorkerStates]
    /\ req \in [Workers -> Requests \cup {NoOne}]
    /\ notifying \in SUBSET Requests
    /\ place \in [Requests -> Places]

\* queue_mutex_ is held by the worker between wait's lock and the end of the
\* critical section, and by no other.
MutexInv ==
    \A w \in Workers : queue_mutex = w <=> pc[w] \in {"predicate", "block", "critical"}

\* The flag and the threads follow the owner: no thread runs while the server is
\* down, the flag is FALSE while it is up, and some thread has been started then.
OwnerInv ==
    /\ main \in {"down", "gone"} => \A w \in Workers : pc[w] = "none"
    /\ main = "up" => ~should_stop /\ \A w \in Workers : pc[w] # "done"
    /\ main = "up" => \E w \in Workers : pc[w] # "none"
    /\ main \in {"notify", "join"} => should_stop

\* What a worker has learned of the queue under the mutex still holds.
PredicateInv ==
    \A w \in Workers :
        /\ pc[w] = "critical" /\ ~should_stop => queue # <<>>
        /\ pc[w] = "block" => queue = <<>>

\* A request is in the queue at one index, or with one worker, as its place says.
QueueInv ==
    /\ \A i, j \in 1 .. Len(queue) : queue[i] = queue[j] => i = j
    /\ \A r \in Requests : place[r] = "queue" <=> \E i \in 1 .. Len(queue) : queue[i] = r

WorkerInv ==
    /\ \A w \in Workers : pc[w] = "handle" <=> req[w] # NoOne
    /\ \A v, w \in Workers : req[v] = req[w] /\ req[v] # NoOne => v = w
    /\ \A r \in Requests : place[r] = "worker" <=> \E w \in Workers : req[w] = r

\* A socket that was overwritten is not the one in server_socket_.
SocketInv ==
    /\ SocketsOwned
    /\ server_socket \notin overwritten
    /\ -1 \notin overwritten

ServerInv ==
    /\ TypeInv /\ MutexInv /\ OwnerInv /\ PredicateInv /\ QueueInv /\ WorkerInv
    /\ WorkImpliesAwake

-----------------------------------------------------------------------------
(* The operators of the model *)

\* socket returns a descriptor that is free (ServerManager.cpp:46).
LEMMA LowestFdIsFree ==
  ASSUME FreeFds # {}
  PROVE  Min(FreeFds) \in FreeFds
<1> DEFINE Below == {0 .. fd : fd \in FreeFds}
<1>1. FreeFds \subseteq Nat
  BY PoolAssumption DEF FreeFds
<1>2. Below \subseteq FiniteSubsetsOf(Nat)
  <2> SUFFICES ASSUME NEW fd \in FreeFds
               PROVE  0 .. fd \in SUBSET Nat /\ IsFiniteSet(0 .. fd)
    BY DEF FiniteSubsetsOf
  <2> QED BY <1>1, FS_Interval
<1>3. PICK least \in Below : \A other \in Below : ~ (<<other, least>> \in StrictSubsetOrdering(Nat))
  <2>1. Below # {}
    OBVIOUS
  <2> HIDE DEF Below
  <2> QED BY <1>2, <2>1, WFMin, FS_StrictSubsetOrderingWellFounded, Zenon
<1>4. PICK fd \in FreeFds : least = 0 .. fd
  OBVIOUS
<1>5. \A other \in FreeFds : fd <= other
  <2> SUFFICES ASSUME NEW other \in FreeFds, other < fd
               PROVE  FALSE
    BY <1>1
  <2>1. 0 .. other \subseteq 0 .. fd /\ 0 .. other # 0 .. fd
    BY <1>1
  <2>2. <<0 .. other, least>> \in StrictSubsetOrdering(Nat)
    BY <1>1, <1>4, <2>1 DEF StrictSubsetOrdering
  <2> QED BY <1>3, <2>2
<1> QED BY <1>5 DEF Min

\* Of n things, k can be chosen.
LEMMA SubsetOfSize ==
  ASSUME NEW S, IsFiniteSet(S), NEW k \in Nat, k <= Cardinality(S)
  PROVE  \E T \in SUBSET S : Cardinality(T) = k
<1>1. PICK f \in Bijection(1 .. Cardinality(S), S) : TRUE
  BY FS_CardinalityType DEF ExistsBijection
<1>2. Cardinality(S) \in Nat
  BY FS_CardinalityType
<1> DEFINE T == {f[i] : i \in 1 .. k}
           g == [i \in 1 .. k |-> f[i]]
<1>3. f \in [1 .. Cardinality(S) -> S]
      /\ \A a, b \in 1 .. Cardinality(S) : f[a] = f[b] => a = b
  BY <1>1, Fun_BijectionProperties
<1>4. 1 .. k \subseteq 1 .. Cardinality(S)
  BY <1>2
<1>5. T \in SUBSET S
  BY <1>3, <1>4
<1>6. g \in Bijection(1 .. k, T)
  BY <1>3, <1>4, Fun_IsBij
<1>7. Cardinality(T) = k
  BY <1>6, FS_CountingElements DEF ExistsBijection
<1> QED BY <1>5, <1>7

\* A call of InitializeThreadPool starts threads that have not been started, at
\* least one (ServerManager.cpp:123-127).
LEMMA ThreadPoolStarts ==
  ASSUME Cardinality(Unstarted) >= thread_pool_size
  PROVE  InitializeThreadPool \in SUBSET Unstarted /\ InitializeThreadPool # {}
<1>1. IsFiniteSet(Unstarted)
  BY WorkersAssumption, FS_Subset DEF Unstarted
<1>2. Cardinality(Unstarted) \in Nat
  BY <1>1, FS_CardinalityType
<1>3. \E S \in SUBSET Unstarted : Cardinality(S) = thread_pool_size
  BY <1>1, <1>2, SubsetOfSize, PoolAssumption
<1>4. InitializeThreadPool \in SUBSET Unstarted
      /\ Cardinality(InitializeThreadPool) = thread_pool_size
  BY <1>3 DEF InitializeThreadPool
<1> QED BY <1>4, FS_EmptySet, PoolAssumption

-----------------------------------------------------------------------------
(* The sockets *)

\* The socket variables change in InitializeSocket and Join only.
LEMMA SocketsStep ==
  ASSUME [Next]_vars
  PROVE  \/ StartServer \/ StartFails \/ Join
         \/ UNCHANGED socketVars /\ (main' = "up" => main = "up")
<1>1. CASE StartServer \/ StartFails \/ Join
  BY <1>1
<1>2. CASE StopFlag \/ NotifyAll \/ Destroy
  BY <1>2 DEF StopFlag, NotifyAll, Destroy
<1>3. CASE \E r \in Requests : Push(r) \/ NotifyOne(r)
  BY <1>3 DEF Push, NotifyOne
<1>4. CASE \E w \in Workers : WorkerStep(w) \/ SpuriousWakeup(w)
  BY <1>4 DEF WorkerStep, CheckStop, Lock, EvaluatePredicate, Block, BreakOnStop, TakeRequest,
              HandleRequest, SpuriousWakeup
<1>5. CASE UNCHANGED vars
  BY <1>5 DEF vars, socketVars
<1> QED BY <1>1, <1>2, <1>3, <1>4, <1>5 DEF Next

\* InitializeSocket keeps account of every descriptor on each of its three ways
\* out (ServerManager.cpp:46-69).
LEMMA InitializeSocketOwns ==
  ASSUME SocketInv, NEW result \in BOOLEAN, InitializeSocket(result)
  PROVE  /\ open_fds' = ({server_socket'} \ {-1}) \cup overwritten'
         /\ server_socket' \notin overwritten' /\ -1 \notin overwritten'
         /\ result <=> server_socket' # -1
         /\ overwritten' = {} => server_socket = -1
<1>1. CASE ~result /\ server_socket' = -1 /\ UNCHANGED open_fds
  BY <1>1 DEF SocketInv, SocketsOwned, InitializeSocket
<1>2. CASE FreeFds # {} /\ ~(~result /\ server_socket' = -1 /\ UNCHANGED open_fds)
  <2> DEFINE fd == Min(FreeFds)
  <2>1. fd \in 0 .. (MAX_FDS - 1) /\ fd \notin open_fds
    BY <1>2, LowestFdIsFree DEF FreeFds
  <2>2. fd # -1
    BY <2>1, PoolAssumption
  <2>3. \/ ~result /\ server_socket' = -1 /\ open_fds' = Closed(open_fds \cup {fd}, fd)
        \/ result /\ server_socket' = fd /\ open_fds' = open_fds \cup {fd}
    BY <1>2 DEF InitializeSocket
  <2> HIDE DEF fd
  <2> QED BY <2>1, <2>2, <2>3 DEF SocketInv, SocketsOwned, InitializeSocket, Closed
<1> QED BY <1>1, <1>2 DEF InitializeSocket

LEMMA SocketInvariant == Spec => []SocketInv
<1>1. Init => SocketInv
  BY DEF Init, SocketInv, SocketsOwned
<1>2. SocketInv /\ [Next]_vars => SocketInv'
  <2> SUFFICES ASSUME SocketInv, [Next]_vars PROVE SocketInv'
    OBVIOUS
  <2>1. CASE StartServer
    BY <2>1, InitializeSocketOwns DEF StartServer, SocketInv, SocketsOwned
  <2>2. CASE StartFails
    <3>1. InitializeSocket(FALSE) /\ main' = main
      BY <2>2 DEF StartFails
    <3>2. /\ open_fds' = ({server_socket'} \ {-1}) \cup overwritten'
          /\ server_socket' \notin overwritten' /\ -1 \notin overwritten'
          /\ overwritten' = {} => server_socket = -1
      BY <3>1, InitializeSocketOwns
    <3>3. overwritten' = {} => overwritten = {}
      BY <3>1 DEF InitializeSocket
    <3> QED BY <3>1, <3>2, <3>3 DEF SocketInv, SocketsOwned
  <2>3. CASE Join
    BY <2>3 DEF Join, Closed, SocketInv, SocketsOwned
  <2>4. CASE UNCHANGED socketVars /\ (main' = "up" => main = "up")
    BY <2>4 DEF socketVars, SocketInv, SocketsOwned
  <2> QED BY <2>1, <2>2, <2>3, <2>4, SocketsStep
<1> QED BY <1>1, <1>2, PTL DEF Spec

\* However often the server is started, stopped and started again, and on every
\* failure of socket, bind or listen, the open descriptors are the one in
\* server_socket_ and those that a StartServer found there and replaced
\* (ServerManager.cpp:32-36, 46-69, 91).
THEOREM SocketsAreOwned == Spec => []SocketsOwned
<1>1. SocketInv => SocketsOwned
  BY DEF SocketInv
<1> QED BY <1>1, SocketInvariant, PTL

-----------------------------------------------------------------------------
(* The queue and the workers *)

LEMMA ServerInit == Init => ServerInv
<1> SUFFICES ASSUME Init PROVE ServerInv
  OBVIOUS
<1>1. TypeInv
  BY EmptySeq, NoOneAssumption DEF Init, TypeInv, MainStates, WorkerStates, Places
<1>2. MutexInv /\ OwnerInv /\ PredicateInv /\ WorkImpliesAwake
  BY NoOneAssumption DEF Init, MutexInv, OwnerInv, PredicateInv, WorkImpliesAwake
<1>3. QueueInv
  BY DEF Init, QueueInv
<1>4. WorkerInv
  BY NoOneAssumption DEF Init, WorkerInv
<1> QED BY <1>1, <1>2, <1>3, <1>4 DEF ServerInv

\* StartServer starts a thread that will look at the queue.
LEMMA StartServerInv ==
  ASSUME ServerInv, StartServer
  PROVE  ServerInv'
<1> USE DEF ServerInv
<1>1. PICK S \in SUBSET Unstarted : S # {} /\ pc' = [w \in Workers |-> IF w \in S THEN "loop" ELSE pc[w]]
  BY ThreadPoolStarts DEF StartServer
<1>2. /\ main' = "up" /\ should_stop' = FALSE /\ main \in {"down", "up"}
      /\ UNCHANGED <<queue, queue_mutex, req, notifying, place>>
  BY DEF StartServer
<1>3. \A w \in S : pc[w] = "none"
  BY DEF Unstarted
<1>4. S \in SUBSET Workers
  BY DEF Unstarted
<1>5. TypeInv'
  BY <1>1, <1>2 DEF TypeInv, MainStates, WorkerStates
<1>6. MutexInv'
  BY <1>1, <1>2, <1>3 DEF MutexInv, TypeInv
<1>7. OwnerInv'
  BY <1>1, <1>2, <1>3, <1>4 DEF OwnerInv, TypeInv
<1>8. PredicateInv'
  BY <1>1, <1>2, <1>3 DEF PredicateInv, OwnerInv, TypeInv
<1>9. QueueInv' /\ WorkerInv'
  BY <1>1, <1>2, <1>3 DEF QueueInv, WorkerInv, TypeInv
<1>10. WorkImpliesAwake'
  BY <1>1, <1>4 DEF WorkImpliesAwake
<1> QED BY <1>5, <1>6, <1>7, <1>8, <1>9, <1>10

\* The other steps of the owner.
LEMMA OwnerStepInv ==
  ASSUME ServerInv, StartFails \/ StopFlag \/ NotifyAll \/ Join \/ Destroy
  PROVE  ServerInv'
<1> USE DEF ServerInv
<1>1. CASE StartFails
  BY <1>1 DEF StartFails, TypeInv, MutexInv, OwnerInv, PredicateInv, QueueInv, WorkerInv, WorkImpliesAwake
<1>2. CASE StopFlag
  <2>1. TypeInv' /\ OwnerInv' /\ PredicateInv' /\ WorkImpliesAwake'
    BY <1>2 DEF StopFlag, TypeInv, MainStates, OwnerInv, PredicateInv, WorkImpliesAwake
  <2>2. MutexInv' /\ QueueInv' /\ WorkerInv'
    BY <1>2 DEF StopFlag, MutexInv, QueueInv, WorkerInv
  <2> QED BY <2>1, <2>2
<1>3. CASE NotifyAll
  <2>1. TypeInv' /\ OwnerInv' /\ PredicateInv' /\ WorkImpliesAwake'
    BY <1>3 DEF NotifyAll, Woken, Waiting, TypeInv, MainStates, WorkerStates, OwnerInv, PredicateInv, WorkImpliesAwake
  <2>2. MutexInv' /\ QueueInv' /\ WorkerInv'
    BY <1>3 DEF NotifyAll, Woken, Waiting, TypeInv, MutexInv, QueueInv, WorkerInv
  <2> QED BY <2>1, <2>2
<1>4. CASE Join
  <2>1. TypeInv' /\ OwnerInv' /\ PredicateInv' /\ WorkImpliesAwake'
    BY <1>4 DEF Join, TypeInv, MainStates, WorkerStates, OwnerInv, PredicateInv, WorkImpliesAwake
  <2>2. MutexInv' /\ QueueInv' /\ WorkerInv'
    BY <1>4 DEF Join, TypeInv, MutexInv, QueueInv, WorkerInv
  <2> QED BY <2>1, <2>2
<1>5. CASE Destroy
  <2>1. TypeInv' /\ OwnerInv' /\ PredicateInv' /\ WorkImpliesAwake'
    BY <1>5 DEF Destroy, TypeInv, MainStates, OwnerInv, PredicateInv, WorkImpliesAwake
  <2>2. MutexInv' /\ QueueInv' /\ WorkerInv'
    BY <1>5 DEF Destroy, MutexInv, QueueInv, WorkerInv
  <2> QED BY <2>1, <2>2
<1> QED BY <1>1, <1>2, <1>3, <1>4, <1>5

\* The push happens while no worker holds the mutex, so nobody who found the
\* queue empty is still on its way to sleep.
LEMMA PushInv ==
  ASSUME ServerInv, NEW r \in Requests, Push(r)
  PROVE  ServerInv'
<1> USE DEF ServerInv
<1>1. /\ queue \in Seq(Requests) /\ queue' = Append(queue, r)
      /\ place' = [place EXCEPT ![r] = "queue"] /\ place[r] = "client"
      /\ notifying' = notifying \cup {r}
      /\ queue_mutex = NoOne
      /\ UNCHANGED <<main, should_stop, queue_mutex, pc, req>>
  BY DEF Push, TypeInv
<1>2. /\ queue' \in Seq(Requests) /\ queue' # <<>> /\ Len(queue) \in Nat
      /\ Len(queue') = Len(queue) + 1
      /\ \A i \in 1 .. Len(queue) : queue'[i] = queue[i]
      /\ queue'[Len(queue) + 1] = r
  BY <1>1, AppendProperties, LenProperties
<1>3. TypeInv'
  BY <1>1, <1>2 DEF TypeInv, Places
<1>4. MutexInv' /\ OwnerInv' /\ WorkImpliesAwake'
  BY <1>1 DEF MutexInv, OwnerInv, WorkImpliesAwake
<1>5. PredicateInv'
  BY <1>1, <1>2, NoOneAssumption DEF PredicateInv, MutexInv, TypeInv
<1>6. QueueInv'
  <2>1. \A i \in 1 .. Len(queue) : queue[i] # r
    BY <1>1 DEF QueueInv
  <2>2. \A i, j \in 1 .. Len(queue') : queue'[i] = queue'[j] => i = j
    BY <1>2, <2>1 DEF QueueInv
  <2>3. ASSUME NEW q \in Requests
        PROVE  place'[q] = "queue" <=> \E i \in 1 .. Len(queue') : queue'[i] = q
    <3>1. place[q] = "queue" <=> \E i \in 1 .. Len(queue) : queue[i] = q
      BY DEF QueueInv
    <3>2. place'[q] = IF q = r THEN "queue" ELSE place[q]
      BY <1>1 DEF TypeInv
    <3> QED BY <1>2, <3>1, <3>2
  <2> QED BY <2>2, <2>3 DEF QueueInv
<1>7. WorkerInv'
  BY <1>1 DEF WorkerInv, TypeInv
<1> QED BY <1>3, <1>4, <1>5, <1>6, <1>7

\* notify_one wakes a thread unless none sleeps, and then one that is up is
\* awake: a thread that blocks has seen an empty queue.
LEMMA NotifyOneInv ==
  ASSUME ServerInv, NEW r \in Requests, NotifyOne(r)
  PROVE  ServerInv'
<1> USE DEF ServerInv
<1>1. PICK S \in SUBSET Waiting : Cardinality(S) = (IF Waiting = {} THEN 0 ELSE 1) /\ pc' = Woken(S)
  BY DEF NotifyOne
<1>2. /\ notifying' = notifying \ {r}
      /\ UNCHANGED <<main, should_stop, queue, queue_mutex, req, place>>
  BY DEF NotifyOne
<1>3. \A w \in S : w \in Workers /\ pc[w] = "waiting" /\ pc'[w] = "lock"
  BY <1>1 DEF Waiting, Woken
<1>4. \A w \in Workers \ S : pc'[w] = pc[w]
  BY <1>1 DEF Woken
<1>5. TypeInv'
  BY <1>1, <1>2 DEF TypeInv, Woken, WorkerStates
<1>6. MutexInv' /\ OwnerInv' /\ PredicateInv'
  BY <1>2, <1>3, <1>4 DEF MutexInv, OwnerInv, PredicateInv
<1>7. QueueInv' /\ WorkerInv'
  BY <1>2, <1>3, <1>4 DEF QueueInv, WorkerInv
<1>8. WorkImpliesAwake'
  <2> SUFFICES ASSUME main = "up", queue # <<>>
               PROVE  \E w \in Workers : pc'[w] \notin {"none", "done", "block", "waiting"}
    BY <1>2 DEF WorkImpliesAwake
  <2>1. CASE Waiting = {}
    <3>1. PICK w \in Workers : pc[w] # "none"
      BY DEF OwnerInv
    <3>2. pc[w] \notin {"none", "done", "block", "waiting"} /\ w \notin S
      BY <2>1, <3>1 DEF OwnerInv, PredicateInv, Waiting
    <3> QED BY <1>4, <3>2
  <2>2. CASE Waiting # {}
    <3>1. S # {}
      BY <1>1, <2>2, FS_EmptySet
    <3> QED BY <1>3, <3>1
  <2> QED BY <2>1, <2>2
<1> QED BY <1>5, <1>6, <1>7, <1>8

\* The steps of a worker that only move it along the loop.
LEMMA LoopInv ==
  ASSUME ServerInv, NEW w \in Workers,
         \/ CheckStop(w) \/ Lock(w) \/ EvaluatePredicate(w) \/ Block(w)
         \/ SpuriousWakeup(w) \/ BreakOnStop(w)
  PROVE  ServerInv'
<1> USE DEF ServerInv
<1> DEFINE target == pc'[w]
<1>1. /\ pc' = [pc EXCEPT ![w] = target] /\ target \in WorkerStates \ {"none", "handle"}
      /\ pc[w] \notin {"none", "handle"}
      /\ UNCHANGED <<main, should_stop, queue, req, notifying, place>>
  BY DEF CheckStop, Lock, EvaluatePredicate, Block, SpuriousWakeup, BreakOnStop, TypeInv, WorkerStates
<1>2. TypeInv' /\ MutexInv'
  BY NoOneAssumption DEF CheckStop, Lock, EvaluatePredicate, Block, SpuriousWakeup, BreakOnStop,
     TypeInv, WorkerStates, MutexInv
<1>3. OwnerInv'
  BY <1>1 DEF OwnerInv, TypeInv, CheckStop, Lock, EvaluatePredicate, Block, SpuriousWakeup, BreakOnStop
<1>4. PredicateInv'
  BY DEF PredicateInv, TypeInv, CheckStop, Lock, EvaluatePredicate, Block, SpuriousWakeup, BreakOnStop
<1>5. QueueInv' /\ WorkerInv'
  BY <1>1 DEF QueueInv, WorkerInv, TypeInv
<1>6. WorkImpliesAwake'
  <2> SUFFICES ASSUME main = "up", queue # <<>>, notifying = {}
               PROVE  \E v \in Workers : pc'[v] \notin {"none", "done", "block", "waiting"}
    BY <1>1 DEF WorkImpliesAwake
  <2>1. target \notin {"none", "done", "block", "waiting"}
    BY <1>1 DEF OwnerInv, PredicateInv, TypeInv, CheckStop, Lock, EvaluatePredicate, Block,
       SpuriousWakeup, BreakOnStop
  <2> QED BY <2>1
<1> QED BY <1>2, <1>3, <1>4, <1>5, <1>6

\* The worker that found the queue non-empty takes its head, and nobody else has it.
LEMMA TakeRequestInv ==
  ASSUME ServerInv, NEW w \in Workers, TakeRequest(w)
  PROVE  ServerInv'
<1> USE DEF ServerInv
<1> DEFINE r == Head(queue)
<1>1. /\ pc[w] = "critical" /\ ~should_stop /\ queue_mutex' = NoOne
      /\ req' = [req EXCEPT ![w] = r] /\ queue' = Tail(queue)
      /\ place' = [place EXCEPT ![r] = "worker"]
      /\ pc' = [pc EXCEPT ![w] = "handle"]
      /\ UNCHANGED <<main, should_stop, notifying>>
  BY DEF TakeRequest
<1>2. queue \in Seq(Requests) /\ queue # <<>>
  BY <1>1 DEF TypeInv, PredicateInv
<1>3. /\ r \in Requests /\ r = queue[1] /\ Len(queue) \in Nat \ {0}
      /\ queue' \in Seq(Requests) /\ Len(queue') = Len(queue) - 1
      /\ \A i \in 1 .. Len(queue') : queue'[i] = queue[i + 1]
  BY <1>1, <1>2, HeadTailProperties, EmptySeq
<1>4. place[r] = "queue"
  BY <1>3 DEF QueueInv
<1> HIDE DEF r
<1>5. TypeInv'
  BY <1>1, <1>3 DEF TypeInv, WorkerStates, Places
<1>6. MutexInv'
  BY <1>1, NoOneAssumption DEF TypeInv, MutexInv
<1>7. OwnerInv'
  BY <1>1 DEF TypeInv, OwnerInv
<1>8. PredicateInv'
  BY <1>1, <1>6, NoOneAssumption DEF PredicateInv, MutexInv, TypeInv
<1>9. QueueInv'
  <2>1. \A i, j \in 1 .. Len(queue') : queue'[i] = queue'[j] => i = j
    <3> TAKE i, j \in 1 .. Len(queue')
    <3> HAVE queue'[i] = queue'[j]
    <3>1. queue[i + 1] = queue[j + 1] /\ i + 1 \in 1 .. Len(queue) /\ j + 1 \in 1 .. Len(queue)
      BY <1>3
    <3> QED BY <3>1 DEF QueueInv
  <2>2. ASSUME NEW q \in Requests
        PROVE  place'[q] = "queue" <=> \E i \in 1 .. Len(queue') : queue'[i] = q
    <3>1. place[q] = "queue" <=> \E i \in 1 .. Len(queue) : queue[i] = q
      BY DEF QueueInv
    <3>2. place'[q] = IF q = r THEN "worker" ELSE place[q]
      BY <1>1 DEF TypeInv
    <3>3. ASSUME NEW i \in 1 .. Len(queue), queue[i] = q, q # r
          PROVE  \E j \in 1 .. Len(queue') : queue'[j] = q
      <4>1. i - 1 \in 1 .. Len(queue') /\ queue'[i - 1] = queue[i]
        BY <1>3, <3>3
      <4> QED BY <3>3, <4>1
    <3>4. ASSUME NEW j \in 1 .. Len(queue'), queue'[j] = q
          PROVE  q # r /\ \E i \in 1 .. Len(queue) : queue[i] = q
      <4>1. j + 1 \in 1 .. Len(queue) /\ queue[j + 1] = q /\ 1 \in 1 .. Len(queue) /\ j + 1 # 1
        BY <1>3, <3>4
      <4> QED BY <1>3, <4>1 DEF QueueInv
    <3> QED BY <3>1, <3>2, <3>3, <3>4
  <2> QED BY <2>1, <2>2 DEF QueueInv
<1>10. WorkerInv'
  BY <1>1, <1>3, <1>4, NoOneAssumption DEF WorkerInv, TypeInv
<1>11. WorkImpliesAwake'
  BY <1>1 DEF WorkImpliesAwake, TypeInv
<1> QED BY <1>5, <1>6, <1>7, <1>8, <1>9, <1>10, <1>11

LEMMA HandleRequestInv ==
  ASSUME ServerInv, NEW w \in Workers, HandleRequest(w)
  PROVE  ServerInv'
<1> USE DEF ServerInv
<1>1. /\ pc[w] = "handle" /\ pc' = [pc EXCEPT ![w] = "loop"]
      /\ req' = [req EXCEPT ![w] = NoOne]
      /\ place' = [place EXCEPT ![req[w]] = "deleted"]
      /\ UNCHANGED <<main, should_stop, queue, queue_mutex, notifying>>
  BY DEF HandleRequest
<1>2. req[w] \in Requests /\ place[req[w]] = "worker"
  BY <1>1 DEF TypeInv, WorkerInv
<1>3. TypeInv' /\ MutexInv' /\ OwnerInv' /\ PredicateInv'
  BY <1>1 DEF TypeInv, WorkerStates, Places, MutexInv, OwnerInv, PredicateInv
<1>4. QueueInv'
  BY <1>1, <1>2 DEF TypeInv, QueueInv
<1>5. WorkerInv'
  BY <1>1, <1>2, NoOneAssumption DEF TypeInv, WorkerInv
<1>6. WorkImpliesAwake'
  BY <1>1 DEF WorkImpliesAwake, TypeInv
<1> QED BY <1>3, <1>4, <1>5, <1>6

LEMMA ServerInvariant == Spec => []ServerInv
<1>1. ServerInv /\ [Next]_vars => ServerInv'
  <2> SUFFICES ASSUME ServerInv, [Next]_vars PROVE ServerInv'
    OBVIOUS
  <2>1. CASE UNCHANGED vars
    BY <2>1 DEF vars, socketVars, ServerInv, TypeInv, MutexInv, OwnerInv, PredicateInv, QueueInv,
       WorkerInv, WorkImpliesAwake
  <2>2. CASE StartServer
    BY <2>2, StartServerInv
  <2>3. CASE StartFails \/ StopFlag \/ NotifyAll \/ Join \/ Destroy
    BY <2>3, OwnerStepInv
  <2>4. CASE \E r \in Requests : Push(r) \/ NotifyOne(r)
    BY <2>4, PushInv, NotifyOneInv
  <2>5. CASE \E w \in Workers : WorkerStep(w) \/ SpuriousWakeup(w)
    BY <2>5, LoopInv, TakeRequestInv, HandleRequestInv DEF WorkerStep
  <2> QED BY <2>1, <2>2, <2>3, <2>4, <2>5 DEF Next
<1> QED BY <1>1, ServerInit, PTL DEF Spec

\* While the server is up, no request lies in the queue with every worker asleep
\* and no notification on its way (ServerManager.cpp:137 and 144-145).
THEOREM NoLostWakeup == Spec => []WorkImpliesAwake
<1>1. ServerInv => WorkImpliesAwake
  BY DEF ServerInv
<1> QED BY <1>1, ServerInvariant, PTL

\* Whatever the workers and the clients do, a request is in the queue once, with
\* one worker, or deleted once (ServerManager.cpp:131-157).
THEOREM RequestsHaveOneOwner == Spec => []OneOwner
<1>1. ASSUME ServerInv, NEW r \in Requests
      PROVE  Cardinality(Queued(r)) = (IF place[r] = "queue" THEN 1 ELSE 0)
  <2>1. place[r] = "queue" <=> \E i \in 1 .. Len(queue) : queue[i] = r
    BY <1>1 DEF ServerInv, QueueInv
  <2>2. \A i, j \in Queued(r) : i = j
    BY <1>1 DEF ServerInv, QueueInv, Queued
  <2>3. CASE place[r] = "queue"
    <3>1. PICK i \in 1 .. Len(queue) : queue[i] = r
      BY <2>1, <2>3
    <3>2. Queued(r) = {i}
      BY <2>2, <3>1 DEF Queued
    <3> QED BY <2>3, <3>2, FS_Singleton
  <2>4. CASE place[r] # "queue"
    <3>1. Queued(r) = {}
      BY <2>1, <2>4 DEF Queued
    <3> QED BY <2>4, <3>1, FS_EmptySet
  <2> QED BY <2>3, <2>4
<1>2. ASSUME ServerInv, NEW r \in Requests
      PROVE  Cardinality(Taken(r)) = (IF place[r] = "worker" THEN 1 ELSE 0)
  <2>1. place[r] = "worker" <=> \E w \in Workers : req[w] = r
    BY <1>2 DEF ServerInv, WorkerInv
  <2>2. \A v, w \in Taken(r) : v = w
    BY <1>2, NoOneAssumption DEF ServerInv, WorkerInv, Taken
  <2>3. CASE place[r] = "worker"
    <3>1. PICK w \in Workers : req[w] = r
      BY <2>1, <2>3
    <3>2. Taken(r) = {w}
      BY <2>2, <3>1 DEF Taken
    <3> QED BY <2>3, <3>2, FS_Singleton
  <2>4. CASE place[r] # "worker"
    <3>1. Taken(r) = {}
      BY <2>1, <2>4 DEF Taken
    <3> QED BY <2>4, <3>1, FS_EmptySet
  <2> QED BY <2>3, <2>4
<1>3. ServerInv => OneOwner
  BY <1>1, <1>2 DEF OneOwner
<1> QED BY <1>3, ServerInvariant, PTL
=============================================================================
