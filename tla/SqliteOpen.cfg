SPECIFICATION Spec
CONSTANTS
    Procs = {p1, p2}
    NoProc = NoProc
    Lanes = {"main"}
    TTL = 1
    MaxClaims = 2
    MaxWrites = 1
    MaxQueue = 1
SYMMETRY Symmetry
INVARIANT OpenAcquiresClaim
