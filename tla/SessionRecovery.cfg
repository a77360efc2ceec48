SPECIFICATION Spec
CONSTANTS
    Callers = {c1}
    MaxRetries = 1
    MaxPrompts = 1
    MaxAnswers = 2
    MaxCompactions = 1
    MaxRequests = 0
    Overlaps = FALSE
INVARIANT ContinueIsValid
CHECK_DEADLOCK FALSE
