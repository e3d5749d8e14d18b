SPECIFICATION Spec
CONSTANTS
  Files = {f1}
  Versions = {a, b}
  Jobs = {1, 2, 3}
  MaxEdits = 2
  MaxMishaps = 1
SYMMETRY TextSymmetry
INVARIANTS
    OneJob ServesWhatIsThere NothingLeftBehind
PROPERTIES
    KeepsServing
CHECK_DEADLOCK FALSE
