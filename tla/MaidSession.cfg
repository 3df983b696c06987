SPECIFICATION Spec
CONSTANTS
  Sources = {s1}
  Items = {i1, i2, m1}
  Movies = {m1}
  Refusals = {"Open", "Close", "Cap", "Start"}
  MaxEvents = 1
  None = None
SYMMETRY SessionSymmetry
CHECK_DEADLOCK FALSE
INVARIANTS
  TypeOK
  ParentsOpen
  
PROPERTIES
  RemovedItemIsGone
