SPECIFICATION FairSpec

CONSTANTS
    c1 = c1
    CPUs <- OneCPU
    NumUnits = 1
    BlkInUnit = 2
    QueueSize = 1
    PortLimit = 0
    MaxVersion = 2
    StartModes <- Both

INVARIANTS
    RecordedNotForgotten
    CopiesAccounted
PROPERTIES
    SnapshotEnds
CHECK_DEADLOCK FALSE
