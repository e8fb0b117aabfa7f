SPECIFICATION DiskSpec
CONSTANTS
    Contents = {Zero, a}
    Zero = Zero
    MAX_PAGES = 4
    INT_PAGES = 3
INVARIANTS OneWriteLost AllocIsFresh 
