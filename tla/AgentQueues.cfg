SPECIFICATION Spec
CONSTANTS
    MaxMsgs = 3
    MaxRuns = 2
    MaxToolTurns = 1
    MaxCalls = 1
    MaxThrows = 0
    QueueModes = {"all", "one-at-a-time"}
    ToolModes = {"sequential"}
INVARIANTS TypeOK MessagesConserved DeliveryOrder NoneLeftBehind
