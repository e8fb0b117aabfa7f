SPECIFICATION Spec
CONSTANTS
    Workers = {w1, w2, w3, w4}
    thread_pool_size = 2
    MAX_FDS = 2
    Requests = {r1, r2}
    NoOne = NoOne
PROPERTIES StopReturns
CHECK_DEADLOCK FALSE
