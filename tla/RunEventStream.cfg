SPECIFICATION FairSpec
CONSTANTS
    MaxEvents = 4
INVARIANTS
    ShownInOrder
PROPERTIES
    StreamEnds
CHECK_DEADLOCK FALSE
