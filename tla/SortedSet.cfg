\* Six members are the least with which trees get out of balance.
CONSTANTS
  Names = {1, 2, 3, 4, 5, 6}
  Scores = {1, 2}
  Offsets <- MCOffsets
  Limits = {0, 2}
  None = None
VIEW Sets
SPECIFICATION Spec
INVARIANTS
  TypeOK
  InStep
  SearchOrder
  ParentsRight
PROPERTIES
  ImplementsScoreMap
