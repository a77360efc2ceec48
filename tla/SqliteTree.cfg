SPECIFICATION Spec
CONSTANTS
    Procs = {p1, p2}
    NoProc = NoProc
    Lanes = {"main", "side"}
    TTL = 1
    MaxClaims = 2
    MaxWrites = 3
    MaxQueue = 1
SYMMETRY Symmetry
INVARIANTS TreeWellFormed OneOpenOperation
PROPERTY ImplementsLog
