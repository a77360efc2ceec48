SPECIFICATION Spec
CONSTANTS
    Lanes = {"main", "side"}
    MaxMutations = 3
    MaxForks = 1
INVARIANTS TypeOK CrashesAreHarmless MemoryMirrorsFile ForkReplays
PROPERTY ImplementsLog
