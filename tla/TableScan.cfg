SPECIFICATION Spec
VIEW View
CONSTANTS
    PAGE_SIZE = 16
    MAX_SLOTS_PER_PAGE = 3
    Sizes = {1, 5}
    MAX_PAGES = 2
    MAX_ROWS = 5
    Days = {3, 4}
    hot_threshold_days = 3
INVARIANTS RowReadsBack RowsHaveOwnRid RowsOnce
PROPERTIES QueryComplete QueryEnds
CHECK_DEADLOCK FALSE
