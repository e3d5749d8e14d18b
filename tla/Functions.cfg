SPECIFICATION MCSpec
CONSTANTS
    Day = 6
    Zones <- MCZones
    Horizon = 90
    Window = 60
    MaxInput = 55
    Reserved = 10
    FixedCosts = {0, 20, 51}
    Sizes = {0, 9}
    CallLists <- MCCallLists
    MaxMessages = 6
    Documents <- MCDocuments
    MaxText = 3
    MaxPayload = 9
    BaseLength = 3
    PageLength = 2
    Batch = 2
    MaxPages = 3
    Entries = {0, 1, 5}
    PageSizes = {1, 2, 4}
    Target = 4
    Overlap = 1
    MaxLine = 7
    WordTokens = {1, 6}
    MaxFiles = 4
INVARIANTS
    NextRunIsRight RequestIsRight RetrievalIsRight ReadingIsRight
PROPERTIES
    ReadingAdvances
CHECK_DEADLOCK FALSE
