SPECIFICATION Spec
CONSTANTS
  NULL = NULL
  e1 = e1
  e2 = e2
  e3 = e3
  Events <- MCEvents
  Priority <- MCPriority
  Heap <- MCHeap
  AutoDelete <- MCAutoDelete
  ExitEvents <- MCExitEvents
  MaxTick = 2
INVARIANTS
    IInv
PROPERTIES
    TimeIsMonotonic
