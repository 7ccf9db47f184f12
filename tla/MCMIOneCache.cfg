SPECIFICATION Spec
CONSTANTS
    c1 = c1
    c2 = c2
    c3 = c3
    d1 = d1
    None = None
    Caches <- OneCache
    DMAs <- OneDMA
    BlockSize = 2
    Values <- TwoValues
SYMMETRY Symmetry
INVARIANTS
    NoInvalidTransition
    LatestData
CHECK_DEADLOCK FALSE
