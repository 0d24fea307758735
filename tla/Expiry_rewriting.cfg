\* The same, and clients may overwrite a key whose entry has not been moved.
CONSTANTS
  Keys <- MCKeys
  Addrs = {a1, a2, a3, a4}
  Null = Null
  Hash <- MCHash
  InitialSlots = 2
  MaxLoad = 1
  WorkSize = 2
  TicksPerSecond = 2
  IntMax = 100
  TTLs = {2}
  MaxExpiresWork = 1
  RewritesOlder = TRUE
  MaxNow = 4
SYMMETRY AddrSymmetry
SPECIFICATION Spec
PROPERTIES
  UntimedKeysStay
