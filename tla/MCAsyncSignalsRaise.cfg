SPECIFICATION Spec
CONSTANTS
    N = 1
    Setups <- OnlyRaise
INVARIANT
    LoopReturnsAnEvent
