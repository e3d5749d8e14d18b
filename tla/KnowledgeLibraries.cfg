SPECIFICATION Spec
CONSTANTS
    Libs = {1, 2}
    Names = {"papers", "other"}
    Default = "papers"
    Paths = {p1, p2}
    Conversations = {c1}
    Requests = {1, 2}
    MaxRequests = 3
CHECK_DEADLOCK FALSE
INVARIANTS
    NothingDetachedCited OnlyRacesRaise
PROPERTIES
    DeletionsAreWhole StreamCatchesUp

