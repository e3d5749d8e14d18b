SPECIFICATION Spec
CONSTANTS
    r1 = r1  r2 = r2  c1 = c1
    Runs = {r1, r2}
    Conversations = {c1}
    Home <- SharedHome
    MaxSteps = 2
    MaxCalls = 1
    MaxBoots = 2
INVARIANTS AnswerIffCompleted EventAgreesWithStatus OneStepAfterCancel
PROPERTIES KeepsPromise
CHECK_DEADLOCK FALSE
SYMMETRY Symmetry
