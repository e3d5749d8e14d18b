CONSTANTS
    Servers = {s1, s2}
    Notifying = {s1}
    Legacy = {s2}
    Runs = {r1, r2}
    Called = {s1}
    Tools = {a, b}
    FirstPage = {a}
    Restricted = {s2}
    Allowed = {b}
    MaxEvents = 2
SPECIFICATION FairSpec
INVARIANTS
    ChangesAreKept FailedAreGone
PROPERTIES
    AllAreTried CatchesUp NobodyWaits
CHECK_DEADLOCK FALSE
