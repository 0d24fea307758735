\* Every pair of requests, sent one by one or together, with replies that are too
\* long for the client or for the server, and timers that may have lost their keys.
CONSTANTS
  None = None
  Named <- MCNamed
  Place <- MCPlace
  Lower <- MCLower
  Double <- MCInteger
  Integer <- MCInteger
  Long <- MCLong
  TimesLeft <- MCTimesLeft
  Rewrites = TRUE
  Length <- MCLength
  WordSize = 2
  LongSize = 2
  MaxArg = 20
  MaxMsg = 24
  MaxArgs = 6
  Requests <- MCRequests
  Stores <- MCStores
  MaxRequests = 1
  Window = 2
  MaxAsked = 2
  MaxQueued = 2
SPECIFICATION Spec
INVARIANTS
  TypeOK
  ReadingMeansDone
PROPERTIES
  ErrorsChangeNothing
  StringsStay
  ImplementsService
  RequestsAnswered
