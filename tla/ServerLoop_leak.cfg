\* A client that leaves while another connects.
CONSTANTS
  MaxFD = 2
  MaxClients = 2
  MaxRequests = 1
  ReadSize = 1
  RcvRoom = 1
  SndRoom = 1
  MaxErrors = 1
  MaxFaulty = 1
  Signals = FALSE
SPECIFICATION Spec
PROPERTIES
  ClosedConnectionsGo
CHECK_DEADLOCK FALSE
