\* The third key starts a migration that leaves an entry behind; no client
\* overwrites that one.  Two ticks are a second: one time to live has half a second
\* too many, the other is more than an int has room for.  A sweep removes one of
\* the keys that may come due together.
CONSTANTS
  Keys <- MCKeys
  Addrs = {a1, a2, a3}
  Null = Null
  Hash <- MCHash
  InitialSlots = 2
  MaxLoad = 1
  WorkSize = 2
  TicksPerSecond = 2
  IntMax = 4
  TTLs = {3, 6}
  MaxExpiresWork = 1
  RewritesOlder = FALSE
  MaxNow = 3
SPECIFICATION Spec
INVARIANTS
  TypeOK
  TimersPointToEntries
  TimersAsAsked
  PTTLWithinASecond
PROPERTIES
  UntimedKeysStay
  AlmostNoEarlyExpiry
  SweepsFinish
  DueKeysGo
