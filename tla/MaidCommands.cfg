SPECIFICATION FairSpec
CONSTANTS
  Faults = {"Async", "Abort", "Cap", "Incomplete"}
  Refused = {"Process", "TerminateCapture", "Acquire", "Delete", "GetCapCount", "GetCapInfo", "EnumChildren", "Capability", "SetDataProc", "ResetDataProc"}
  Pends = {"Process", "TerminateCapture", "Acquire", "Delete", "GetCapCount", "GetCapInfo", "EnumChildren", "Capability", "SetDataProc", "ResetDataProc"}
  Nested = TRUE
  Chunks = 2
  MaxCommands = 3
  MaxDepth = 3
  None = None
CHECK_DEADLOCK FALSE
INVARIANTS
  TypeOK
  BlocksAreLive
  SavedIsWhole
PROPERTIES
  ImplementsCommandLife
  MenuReturns
