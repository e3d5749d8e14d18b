SPECIFICATION Spec
CONSTANTS
    Automations = {"a"}
    MaxTime = 3
    Period = 2
    Late = 1
    MaxBoots = 2
    Asked = {1}
    MaxEdits = 1
    Ends = {"completed", "cancelled", "created"}
    Manual = {"a"}
    Handlers = {"edit", "status", "plan"}
INVARIANTS
    ExecutionsAgree
PROPERTIES
    ClaimsAreSound
CHECK_DEADLOCK FALSE
