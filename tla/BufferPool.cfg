SPECIFICATION Spec
CONSTANTS
    Contents = {Zero, a}
    Zero = Zero
    MAX_PAGES = 2
    INT_PAGES = 8
    pool_size = 2
    COLD_EVICTION_PRIORITY = 5
    RelockOutcomes = {"works", "hangs"}
    nullptr = nullptr
    Clients = {c1, c2}
VIEW View
SYMMETRY ClientSymmetry
CHECK_DEADLOCK FALSE
INVARIANTS TypeOK MappingExact ReplacerExact HeldPageStays PinsAreHolders IdsAllocated LastWriteKept
