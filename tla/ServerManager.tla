---------------------------- MODULE ServerManager ----------------------------
(***************************************************************************)
(* The request queue and the worker threads of the server                  *)
(* (src/MiniDB/src/concurrency/ServerManager.cpp): EnqueueRequest,         *)
(* WorkerThreadLoop, StartServer, StopServer and the destructor, with the  *)
(* listening socket.  A step is what a thread does between two points      *)
(* where another can interfere: queue_mutex_ is held over several worker   *)
(* steps, and should_stop_ is written by StopServer without it.            *)
(***************************************************************************)
EXTENDS Integers, Sequences, FiniteSets, FiniteSetsExt

CONSTANTS
    Workers,            \* bound: the threads of all calls of InitializeThreadPool
    thread_pool_size,   \* the threads of one call
    Requests,           \* the requests clients hand to EnqueueRequest, each once
    MAX_FDS,            \* descriptors the process may have open
    NoOne               \* queue_mutex_ is free; a worker has no request

ASSUME NoOneAssumption == NoOne \notin Workers \cup Requests
ASSUME WorkersAssumption == IsFiniteSet(Workers)
ASSUME PoolAssumption == thread_pool_size \in Nat \ {0} /\ MAX_FDS \in Nat

VARIABLES
    main,          \* the thread that owns the server
    should_stop,
    queue,         \* request_queue_
    queue_mutex,   \* its holder, if a worker holds it
    pc,            \* where each worker is in WorkerThreadLoop
    req,           \* the request each worker has taken
    notifying,     \* requests pushed whose notify_one is still to come
    place,         \* where each request is: the history of who owns the object
    server_socket, \* server_socket_, -1: none
    open_fds,      \* the descriptors that are open
    overwritten    \* the sockets that a second StartServer found in server_socket_ (history)

socketVars == <<server_socket, open_fds, overwritten>>
vars == <<main, should_stop, queue, queue_mutex, pc, req, notifying, place, socketVars>>

Init ==
    /\ main = "down"
    /\ should_stop = FALSE
    /\ queue = <<>>
    /\ queue_mutex = NoOne
    /\ pc = [w \in Workers |-> "none"]
    /\ req = [w \in Workers |-> NoOne]
    /\ notifying = {}
    /\ place = [r \in Requests |-> "client"]
    /\ server_socket = -1 /\ open_fds = {} /\ overwritten = {}

-----------------------------------------------------------------------------
(* The owner of the server *)

\* socket returns the lowest descriptor that is free.
FreeFds == (0 .. (MAX_FDS - 1)) \ open_fds

\* Mutant: the socket stays open.
NotClosed(fds, fd) == fds
Closed(fds, fd) == fds \ {fd}

\* InitializeSocket, and what it returns: there is no socket to be had; there is
\* one, and bind or listen refuses it; there is one and it listens.
InitializeSocket(result) ==
    /\ overwritten' = overwritten \cup ({server_socket} \ {-1})
    /\ \/ ~result /\ server_socket' = -1 /\ UNCHANGED open_fds
       \/ /\ FreeFds # {}
          /\ LET fd == Min(FreeFds) IN
             \/ ~result /\ server_socket' = -1 /\ open_fds' = Closed(open_fds \cup {fd}, fd)
             \/ result /\ server_socket' = fd /\ open_fds' = open_fds \cup {fd}

\* Which threads a call starts makes no difference: they are all alike.
Unstarted == {w \in Workers : pc[w] = "none"}
InitializeThreadPool == CHOOSE S \in SUBSET Unstarted : Cardinality(S) = thread_pool_size

\* Nothing in StartServer asks whether the server is up already.
StartServer ==
    /\ main \in {"down", "up"}
    /\ InitializeSocket(TRUE)
    /\ main' = "up"
    /\ should_stop' = FALSE
    /\ Cardinality(Unstarted) >= thread_pool_size
    /\ pc' = [w \in Workers |-> IF w \in InitializeThreadPool THEN "loop" ELSE pc[w]]
    /\ UNCHANGED <<queue, queue_mutex, req, notifying, place>>

StartFails ==
    /\ main \in {"down", "up"}
    /\ InitializeSocket(FALSE)
    /\ UNCHANGED <<main, should_stop, queue, queue_mutex, pc, req, notifying, place>>

\* StopServer: the flag, the notification, the joins, each a step of its own.
StopFlag ==
    /\ main \in {"down", "up"}
    /\ main' = "notify"
    /\ should_stop' = TRUE
    /\ UNCHANGED <<queue, queue_mutex, pc, req, notifying, place, socketVars>>

\* A woken thread has to lock queue_mutex_ again.
Woken(S) == [w \in Workers |-> IF w \in S THEN "lock" ELSE pc[w]]
Waiting == {w \in Workers : pc[w] = "waiting"}

NotifyAll ==
    /\ main = "notify"
    /\ main' = "join"
    /\ pc' = Woken(Waiting)
    /\ UNCHANGED <<should_stop, queue, queue_mutex, req, notifying, place, socketVars>>

\* The last thread is joined, and CleanupResources closes the socket.  clients_
\* is empty: AcceptClient accepts nobody.
Join ==
    /\ main = "join"
    /\ \A w \in Workers : pc[w] \in {"none", "done"}
    /\ main' = "down"
    /\ pc' = [w \in Workers |-> "none"]
    /\ open_fds' = Closed(open_fds, server_socket)
    /\ server_socket' = -1
    /\ UNCHANGED <<should_stop, queue, queue_mutex, req, notifying, place, overwritten>>

\* The destructor, after its StopServer; the requests left in request_queue_ stay
\* where they are.
Destroy ==
    /\ main = "down" /\ should_stop
    /\ notifying = {}
    /\ main' = "gone"
    /\ UNCHANGED <<should_stop, queue, queue_mutex, pc, req, notifying, place, socketVars>>

(* EnqueueRequest: the push under queue_mutex_, then notify_one without it *)

Push(r) ==
    /\ place[r] = "client" /\ main # "gone"
    /\ queue_mutex = NoOne
    /\ queue' = Append(queue, r)
    /\ place' = [place EXCEPT ![r] = "queue"]
    /\ notifying' = notifying \cup {r}
    /\ UNCHANGED <<main, should_stop, queue_mutex, pc, req, socketVars>>

\* Mutant: notify_one is not called.
NotifyNobody(r) ==
    /\ r \in notifying
    /\ notifying' = notifying \ {r}
    /\ UNCHANGED <<main, should_stop, queue, queue_mutex, pc, req, place, socketVars>>

NotifyOne(r) ==
    /\ r \in notifying
    /\ notifying' = notifying \ {r}
    /\ \E S \in SUBSET Waiting :
          /\ Cardinality(S) = (IF Waiting = {} THEN 0 ELSE 1)
          /\ pc' = Woken(S)
    /\ UNCHANGED <<main, should_stop, queue, queue_mutex, req, place, socketVars>>

-----------------------------------------------------------------------------
(* WorkerThreadLoop *)

CheckStop(w) ==
    /\ pc[w] = "loop"
    /\ pc' = [pc EXCEPT ![w] = IF should_stop THEN "done" ELSE "lock"]
    /\ UNCHANGED <<main, should_stop, queue, queue_mutex, req, notifying, place, socketVars>>

Lock(w) ==
    /\ pc[w] = "lock"
    /\ queue_mutex = NoOne
    /\ queue_mutex' = w
    /\ pc' = [pc EXCEPT ![w] = "predicate"]
    /\ UNCHANGED <<main, should_stop, queue, req, notifying, place, socketVars>>

\* The predicate of wait is evaluated; going to sleep is a later step.
EvaluatePredicate(w) ==
    /\ pc[w] = "predicate"
    /\ pc' = [pc EXCEPT ![w] = IF should_stop \/ queue # <<>> THEN "critical" ELSE "block"]
    /\ UNCHANGED <<main, should_stop, queue, queue_mutex, req, notifying, place, socketVars>>

\* The condition variable unlocks the mutex and puts the thread to sleep.
Block(w) ==
    /\ pc[w] = "block"
    /\ queue_mutex' = NoOne
    /\ pc' = [pc EXCEPT ![w] = "waiting"]
    /\ UNCHANGED <<main, should_stop, queue, req, notifying, place, socketVars>>

SpuriousWakeup(w) ==
    /\ pc[w] = "waiting"
    /\ pc' = [pc EXCEPT ![w] = "lock"]
    /\ UNCHANGED <<main, should_stop, queue, queue_mutex, req, notifying, place, socketVars>>

\* A stopped worker leaves the loop.  The test for an empty queue that follows
\* in the code never succeeds, the predicate having been true under the lock.
BreakOnStop(w) ==
    /\ pc[w] = "critical" /\ should_stop
    /\ queue_mutex' = NoOne
    /\ pc' = [pc EXCEPT ![w] = "done"]
    /\ UNCHANGED <<main, should_stop, queue, req, notifying, place, socketVars>>

\* Mutant: the request is not popped.
TakeWithoutPop(w) ==
    /\ pc[w] = "critical" /\ ~should_stop
    /\ req' = [req EXCEPT ![w] = Head(queue)]
    /\ place' = [place EXCEPT ![Head(queue)] = "worker"]
    /\ queue_mutex' = NoOne
    /\ pc' = [pc EXCEPT ![w] = "handle"]
    /\ UNCHANGED <<main, should_stop, queue, notifying, socketVars>>

TakeRequest(w) ==
    /\ pc[w] = "critical" /\ ~should_stop
    /\ req' = [req EXCEPT ![w] = Head(queue)]
    /\ queue' = Tail(queue)
    /\ place' = [place EXCEPT ![Head(queue)] = "worker"]
    /\ queue_mutex' = NoOne
    /\ pc' = [pc EXCEPT ![w] = "handle"]
    /\ UNCHANGED <<main, should_stop, notifying, socketVars>>

\* Mutant: the worker puts the request back instead of finishing with it.
PutBack(w) ==
    /\ pc[w] = "handle"
    /\ place' = [place EXCEPT ![req[w]] = "queue"]
    /\ queue' = Append(queue, req[w])
    /\ req' = [req EXCEPT ![w] = NoOne]
    /\ pc' = [pc EXCEPT ![w] = "loop"]
    /\ UNCHANGED <<main, should_stop, queue_mutex, notifying, socketVars>>

HandleRequest(w) ==
    /\ pc[w] = "handle"
    /\ place' = [place EXCEPT ![req[w]] = "deleted"]
    /\ req' = [req EXCEPT ![w] = NoOne]
    /\ pc' = [pc EXCEPT ![w] = "loop"]
    /\ UNCHANGED <<main, should_stop, queue, queue_mutex, notifying, socketVars>>

WorkerStep(w) ==
    \/ CheckStop(w) \/ Lock(w) \/ EvaluatePredicate(w) \/ Block(w)
    \/ BreakOnStop(w) \/ TakeRequest(w) \/ HandleRequest(w)

Next ==
    \/ StartServer \/ StartFails \/ StopFlag \/ NotifyAll \/ Join \/ Destroy
    \/ \E r \in Requests : Push(r) \/ NotifyOne(r)
    \/ \E w \in Workers : WorkerStep(w) \/ SpuriousWakeup(w)

\* A thread inside a method keeps running, and a thread that asks for the mutex
\* again and again gets it; nobody has to start, stop or use the server, and
\* no thread wakes up by itself.
Fairness ==
    /\ \A w \in Workers : WF_vars(WorkerStep(w)) /\ SF_vars(Lock(w))
    /\ \A r \in Requests : WF_vars(NotifyOne(r))
    /\ WF_vars(NotifyAll) /\ WF_vars(Join)

Spec == Init /\ [][Next]_vars /\ Fairness

-----------------------------------------------------------------------------
(* Properties *)

\* A request is in one place only and with one owner: in the queue once, with
\* one worker, or deleted once (ServerManager.cpp:131-157).
Taken(r) == {w \in Workers : req[w] = r}
Queued(r) == {i \in 1 .. Len(queue) : queue[i] = r}
OneOwner ==
    \A r \in Requests :
        /\ Cardinality(Queued(r)) = (IF place[r] = "queue" THEN 1 ELSE 0)
        /\ Cardinality(Taken(r)) = (IF place[r] = "worker" THEN 1 ELSE 0)

\* No wakeup is lost to a request: while the server is up, a request in the
\* queue has its notify_one still to come or a worker that is awake and will
\* look at the queue again (ServerManager.cpp:137 and 144-145).
WorkImpliesAwake ==
    main = "up" /\ queue # <<>> =>
        notifying # {} \/ \E w \in Workers : pc[w] \notin {"none", "done", "block", "waiting"}

\* A request that is queued while the server is up is handled, unless the
\* server is stopped first.
RequestServed ==
    \A r \in Requests :
        main = "up" /\ place[r] = "queue" ~> place[r] = "deleted" \/ main # "up"

\* The open sockets are the one in server_socket_ and those that another StartServer
\* found there, on every way out of InitializeSocket and through every stop; a
\* server that is up listens, unless StartServer was called on it again
\* (ServerManager.cpp:32-36, 46-69, 91).
SocketsOwned ==
    /\ open_fds = ({server_socket} \ {-1}) \cup overwritten
    /\ main = "up" /\ overwritten = {} => server_socket # -1

\* README.txt:480 "all resources are managed by RAII", with threads joined by
\* StopServer, which the destructor calls (ServerManager.cpp:27-30, 85-89): once
\* StopServer has notified the workers it comes back.
StopReturns == main = "join" ~> main = "down"
=============================================================================
