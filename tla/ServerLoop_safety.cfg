\* Three clients for two descriptors, and a read that brings in more requests than
\* a pass answers.
CONSTANTS
  MaxFD = 2
  MaxClients = 3
  MaxRequests = 1
  ReadSize = 2
  RcvRoom = 1
  SndRoom = 1
  MaxErrors = 2
  MaxFaulty = 3
  Signals = FALSE
SPECIFICATION Spec
INVARIANTS
  TypeOK
  PointersLive
  OneReadAtATime
  EveryoneServed
CHECK_DEADLOCK FALSE
