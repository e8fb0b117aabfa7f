SPECIFICATION Spec
CONSTANTS
    MAX_TXNS = 3
    RIDs = {r1, r2}
INVARIANTS HoldersAgree HoldersShareMode
