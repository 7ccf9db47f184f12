SPECIFICATION Spec

CONSTANTS
    c1 = c1
    CPUs <- NoCPU
    NumUnits = 1
    BlkInUnit = 1
    QueueSize = 2
    PortLimit = 1
    MaxVersion = 2
    StartModes <- Timing

INVARIANTS
    NoBlockTwice

CHECK_DEADLOCK FALSE
