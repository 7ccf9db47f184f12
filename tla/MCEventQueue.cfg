SPECIFICATION Spec
CONSTANTS
  NULL = NULL
  e1 = e1
  e2 = e2
  e3 = e3
  e4 = e4
  Events <- MCEvents
  Priority <- MCPriority
  Heap <- MCHeap
  AutoDelete <- MCAutoDelete
  ExitEvents <- MCExitEvents
  MaxTick = 1
SYMMETRY Symmetry
INVARIANTS
    PointersSound
PROPERTIES
    Implements
