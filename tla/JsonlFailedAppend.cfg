SPECIFICATION Spec
CONSTANTS
    Lanes = {"main"}
    MaxMutations = 3
    MaxForks = 1
INVARIANT FailedAppendsAreHarmless
