SPECIFICATION Spec
CONSTANTS
    Statements <- MCStatements
    Texts <- MCTexts
    MaxText = 4
    Names = {"a", "b"}
CHECK_DEADLOCK FALSE
INVARIANTS TokensExact RoundTrip CutIsNoticed
PROPERTIES ParseEnds
