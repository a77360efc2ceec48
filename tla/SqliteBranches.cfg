SPECIFICATION Spec
CONSTANTS
    Lanes = {"main", "side"}
    MaxEntries = 3
    MaxMoves = 2
    MaxRepairs = 1
INVARIANTS QueriesAgree ForkIsWhole
CHECK_DEADLOCK FALSE
