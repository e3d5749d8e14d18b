SPECIFICATION LiveSpec
CONSTANTS
    r1 = r1  r2 = r2  c1 = c1
    Runs = {r1}
    Conversations = {c1}
    Home <- OwnHome
    MaxSteps = 3
    MaxCalls = 2
    MaxBoots = 2
PROPERTIES TaskEnds ShutdownEnds
CHECK_DEADLOCK FALSE
