SPECIFICATION Spec
CONSTANTS
    frame_count = 4
    COLD_EVICTION_PRIORITY = 2
    RelockOutcomes = {"works", "hangs"}
PROPERTIES ImplementsLayeredClock VictimReturns SecondChance
CHECK_DEADLOCK FALSE
