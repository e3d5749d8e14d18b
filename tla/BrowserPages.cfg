SPECIFICATION Spec
CONSTANTS
    Runs = {1, 2}
    Tabs = {1, 2}
    Urls = {u1, u2}
    Blank = blank
    Calls = {1, 2}
    MaxCalls = 3
    MaxMoves = 1
SYMMETRY Symmetry
INVARIANTS
    PagesAreCurrent
PROPERTIES
    ActsWhereItLooked
CHECK_DEADLOCK FALSE
