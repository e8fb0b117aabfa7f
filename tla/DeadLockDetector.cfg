SPECIFICATION DetectorSpec
CONSTANT MAX_TXNS = 3
INVARIANTS DetectsExactly CycleIsReal
PROPERTIES SearchEnds
