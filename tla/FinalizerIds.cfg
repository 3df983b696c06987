SPECIFICATION Spec
CONSTANTS
  None = None
  Requests = {r1, r2}
  MaxSecond = 2
  MaxCrashes = 0
  Outcomes = {"raises"}
SYMMETRY RequestSymmetry
CHECK_DEADLOCK FALSE
INVARIANTS
  RecordOfOwnJob
