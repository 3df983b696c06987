SPECIFICATION FairSpec
CONSTANTS
  Clients = {c1, c2}
  SendCap = 1
  MaxFrames = 3
CHECK_DEADLOCK FALSE
INVARIANTS
  TypeOK
  NoSendOnClosedChannel
PROPERTIES
  ImplementsLossyBroadcast
  BroadcastsEnd
  GoneClientsLeave
