SPECIFICATION Spec
CONSTANTS
    Inputs = {"read", "search"}
    Unknown = "unknown"
    MaxSteps = 3
    MaxSame = 1
    MaxPerResponse = 1
    MaxCalls = 2
INVARIANTS
    CallsAreAnswered EventsTellTheCalls CallsAreLimited
CHECK_DEADLOCK FALSE
