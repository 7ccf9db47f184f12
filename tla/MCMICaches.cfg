SPECIFICATION FairSpec
CONSTANTS
    c1 = c1
    c2 = c2
    c3 = c3
    d1 = d1
    None = None
    Caches <- ThreeCaches
    DMAs <- NoDMA
    BlockSize = 1
    Values <- TwoValues
INVARIANTS
    Coherent
    NoInvalidTransition
PROPERTIES
    SomeoneProgresses
