SPECIFICATION FairSpec
CONSTANTS
    MaxMsgs = 1
    MaxRuns = 2
    MaxToolTurns = 2
    MaxCalls = 2
    MaxThrows = 1
    QueueModes = {"one-at-a-time"}
    ToolModes = {"sequential", "parallel"}
INVARIANTS ToolResultsAnswerCalls ContextIsTranscript SettledBetweenTurns OnlyCompleteCallsExecute
PROPERTY RunSettles
