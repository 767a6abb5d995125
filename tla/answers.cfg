SPECIFICATION Spec
CONSTANTS
    None = None
    Tests <- MCTests
    Digits = {0, 4, 5}
    Pastes <- MCPastes
    MaxSaves = 3
    MaxMoves = 1
INVARIANTS TypeOK GradedByValue ShownIsQueued
CHECK_DEADLOCK FALSE
