CONSTANTS
  Keys = {k1, k2, k3, k4, k5, k6}
  Times = {1, 2, 3, 4}
  Never = Never
SYMMETRY KeySymmetry
VIEW HeapOnly
SPECIFICATION Spec
INVARIANTS
  TypeOK
  HeapOrder
  IndexesPointBack
PROPERTIES
  ImplementsTimerQueue
