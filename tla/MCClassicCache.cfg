SPECIFICATION Spec
CONSTANTS
    c1 = c1
    c2 = c2
    c3 = c3
    None = None
    Ports <- MCPorts
    Setups <- MCSetups
    NumTargets = 2
INVARIANTS
    NoAssertionFails
    SingleWriter
    AccessesAreAtomic
    NoLostWrite
    OneAnswerEach
PROPERTIES
    EveryRequestAnswered
