SPECIFICATION Spec
CONSTANTS
  Peers = {p1}
  Null = Null
  MaxSockets = 1
  MaxCalls = 2
  MaxOps = 1
CHECK_DEADLOCK FALSE
INVARIANTS
  OffersAreAddressed
