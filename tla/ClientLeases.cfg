SPECIFICATION FairSpec
CONSTANTS
    MaxLeases = 3
    MaxFaults = 2
    MaxChanges = 1
INVARIANTS TypeOK  SnapshotIsCurrent 
PROPERTIES CallsSettle
CHECK_DEADLOCK FALSE
