SPECIFICATION Spec
CONSTANTS
    Workers = {w1, w2, w3, w4}
    thread_pool_size = 2
    MAX_FDS = 2
    Requests = {r1, r2}
    NoOne = NoOne
INVARIANTS OneOwner WorkImpliesAwake SocketsOwned
PROPERTIES RequestServed
CHECK_DEADLOCK FALSE
