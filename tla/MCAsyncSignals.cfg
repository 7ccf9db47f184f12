SPECIFICATION Spec
CONSTANTS
    N = 2
    Setups <- Mixed
INVARIANTS
    ServedOnce
PROPERTIES
    NoLostRequest
CHECK_DEADLOCK FALSE
