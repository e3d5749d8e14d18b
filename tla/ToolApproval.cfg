SPECIFICATION PolicyFairSpec
CONSTANTS
    q1 = q1  q2 = q2  q3 = q3  q4 = q4
    r1 = r1  r2 = r2  r3 = r3
    Requests = {q1, q2, q3, q4}
    RunOf <- MCRunOf
    GrantKey <- MCGrantKey
    Lasting = {q1, q2, q4}
INVARIANTS OnlyWithConsent ClosedIsEmpty
PROPERTIES DenialStands EveryoneReturns
CHECK_DEADLOCK FALSE
