SPECIFICATION Spec
CONSTANTS
    Migrators = {m1, m2}
    Loggers = {l1}
    MAX_LIMIT = 1
    BATCH = 2
    SECOND = 2
    MAX_LOGS = 1
    BUFFER_SIZE = 2
    MAX_MIGRATIONS = 1
    MAX_RECORDS = 2
    MAX_RESTARTS = 1
CHECK_DEADLOCK FALSE
INVARIANTS RateBound LogExact
PROPERTIES WindowLasts MigrationGoesOn
