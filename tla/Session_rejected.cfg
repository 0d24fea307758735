\* One request at a time, of which one has more strings than the parser takes.
CONSTANTS
  None = None
  Named <- MCNamed
  Place <- MCPlace
  Lower <- MCLower
  Double <- MCInteger
  Integer <- MCInteger
  Long <- MCLong
  TimesLeft <- MCTimesLeft
  Rewrites = FALSE
  Length <- MCLength
  WordSize = 2
  LongSize = 2
  MaxArg = 20
  MaxMsg = 24
  MaxArgs = 3
  Requests <- MCFewRequests
  Stores <- MCOneStore
  MaxRequests = 1
  Window = 1
  MaxAsked = 2
  MaxQueued = 3
SPECIFICATION Spec
INVARIANTS
  NoReplyUnasked
