SPECIFICATION Spec

CONSTANTS
    c1 = c1
    CPUs <- NoCPU
    NumUnits = 2
    BlkInUnit = 2
    QueueSize = 2
    PortLimit = 1
    MaxVersion = 1
    StartModes <- Timing

INVARIANTS
    TypeOK
    RecordedNotForgotten
    OutstandingBounded
    SnapshotsDoNotOverlap

CHECK_DEADLOCK FALSE
