SPECIFICATION Spec
CONSTANTS
    Callers = {c1, c2}
    MaxRetries = 1
    MaxPrompts = 2
    MaxAnswers = 3
    MaxCompactions = 1
    MaxRequests = 1
    Overlaps = FALSE
SYMMETRY Symmetry
INVARIANTS TypeOK  LiveIsSessionContext  SomeoneSettles
CHECK_DEADLOCK FALSE
