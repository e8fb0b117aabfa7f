SPECIFICATION Spec
CONSTANTS
    leaf_max_size = 2
    Keys = {1, 2, 3}
    RidPages = {1}
    RidSlots = {2}
    PAGE_WORDS = 9
    MAX_PAGES = 4
    MAX_INSERTS = 4
    MAX_SCANS = 1
INVARIANTS PinsAreIterators EntriesCounted
PROPERTIES AscendingLookup OperationReturns
CHECK_DEADLOCK FALSE
