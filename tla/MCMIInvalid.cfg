SPECIFICATION Spec
CONSTANTS
    c1 = c1
    c2 = c2
    c3 = c3
    d1 = d1
    None = None
    Caches <- TwoCaches
    DMAs <- OneDMA
    BlockSize = 1
    Values <- TwoValues
SYMMETRY Symmetry
INVARIANTS
    NoInvalidTransition
CHECK_DEADLOCK FALSE
