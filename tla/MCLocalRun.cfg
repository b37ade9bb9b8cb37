\* Two runs for one output path, every call may fail, kills and losses of power.
SPECIFICATION Spec
CONSTANTS
  r1 = r1
  r2 = r2
  Runs <- TwoRuns
SYMMETRY Symmetry
INVARIANTS
  LocalRunInvariant
  SuccessLasts
PROPERTIES
  NothingLeftBehind
  OwnersFilesStay
CHECK_DEADLOCK FALSE
