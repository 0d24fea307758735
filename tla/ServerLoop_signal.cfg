\* A signal that arrives in the middle of a pass.
CONSTANTS
  MaxFD = 2
  MaxClients = 2
  MaxRequests = 1
  ReadSize = 1
  RcvRoom = 1
  SndRoom = 1
  MaxErrors = 1
  MaxFaulty = 0
  Signals = TRUE
SPECIFICATION Spec
INVARIANTS
  PointersLive
CHECK_DEADLOCK FALSE
