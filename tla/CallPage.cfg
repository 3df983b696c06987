SPECIFICATION FairSpec
CONSTANTS
  Peers = {p1}
  Null = Null
  MaxSockets = 2
  MaxCalls = 3
  MaxOps = 2
CHECK_DEADLOCK FALSE
INVARIANTS
  TypeOK
  OneOpenConnection
  OneDriver
  NoCallWithoutServer
PROPERTIES
  ImplementsCallProtocol
  CallsSettle
  DisconnectEndsCall
