CONSTANTS
    Changes = {1, 2}
    Undos = {u1, u2}
    Texts = {a, b}
    MaxSnapshots = 2
    MaxEdits = 1
    MaxCrashes = 1
    MaxBegun = 3
SYMMETRY Symmetry
SPECIFICATION Spec
CONSTRAINT FewBegun
INVARIANTS
    NoSilentChange RowsAreTrue TextsAreKept
CHECK_DEADLOCK FALSE
