SPECIFICATION FairSpec
CONSTANTS
    Procs = {p1, p2}
    NoProc = NoProc
    Lanes = {"main"}
    TTL = 1
    MaxClaims = 3
    MaxWrites = 1
    MaxQueue = 1
INVARIANTS TypeOK LeaseInv
PROPERTIES OnlyLatestClaimantWrites UnexpiredLeaseIsKept AbandonedLeaseIsTakenOver
