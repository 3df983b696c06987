\* One client sends three messages, under any sender id, to the other and to itself.
SPECIFICATION Spec
CONSTANTS
  Clients = {c1, c2}
  Null = Null
  SignalTypes = {"offer"}
  OtherTypes = {"ping"}
  Talkers = {c1}
  MaxSent = 3
CHECK_DEADLOCK FALSE
INVARIANTS
  TypeOK
  SignalsInOrder
  SignalFromListedUser
