\* One score: only names decide where a member goes.
CONSTANTS
  Names = {1, 2, 3, 4, 5, 6}
  Scores = {1}
  Offsets = {0}
  Limits = {0}
  None = None
VIEW Sets
SPECIFICATION Spec
INVARIANTS
  SelfBalancing
