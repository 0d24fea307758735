\* Clients that come and go, send what is rejected, and whose reads bring in two
\* requests for one answered in a pass and one reply that fits; a signal at any step.
CONSTANTS
  MaxFD = 2
  MaxClients = 2
  MaxRequests = 1
  ReadSize = 2
  RcvRoom = 1
  SndRoom = 1
  MaxErrors = 1
  MaxFaulty = 1
  Signals = TRUE
SPECIFICATION Spec
PROPERTIES
  RequestsAreRead
  SilentConnectionsGo
  ShutdownCompletes
CHECK_DEADLOCK FALSE
