\* Who is online: arrivals, departures and lost connections, no signals.
SPECIFICATION FairSpec
CONSTANTS
  Clients = {c1, c2, c3}
  Null = Null
  SignalTypes = {}
  OtherTypes = {}
  Talkers = {}
  MaxSent = 0
CHECK_DEADLOCK FALSE
INVARIANTS
  RosterTracksRegistry
  WelcomeFirst
PROPERTIES
  ImplementsPresence
  RostersConverge
