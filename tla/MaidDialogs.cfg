SPECIFICATION Spec
CONSTANTS
  None = None
INVARIANTS
  TypeOK
  ResourcesAreAccounted
  CancelIsAsked
