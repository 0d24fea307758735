\* Two slots grow to four and to eight: the third key starts the first
\* migration, the fifth the second, which takes three calls.
CONSTANTS
  Keys <- MCKeys
  Values = {v1, v2}
  Null = Null
  Hash <- MCHash
  InitialSlots = 2
  MaxLoad = 1
  WorkSize = 2
SYMMETRY ValueSymmetry
VIEW Tables
SPECIFICATION Spec
INVARIANTS
  TypeOK
  Reachable
  UniqueKeys
  SizesExact
  NothingStranded
  LoadBound
  MigrationBudget
PROPERTIES
  CallsDrainOlder
  ImplementsKVStore
