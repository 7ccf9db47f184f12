SPECIFICATION Spec
CONSTANTS
    N = 2
    Setups <- TwoThreads
INVARIANT
    OneThreadServes
