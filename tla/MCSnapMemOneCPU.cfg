SPECIFICATION Spec

CONSTANTS
    c1 = c1
    CPUs <- OneCPU
    NumUnits = 1
    BlkInUnit = 1
    QueueSize = 1
    PortLimit = 0
    MaxVersion = 1
    StartModes <- Timing

INVARIANTS
    AllWrittenBlocksRead
    SnapshotHoldsData
    CPUCanSwitch

CHECK_DEADLOCK FALSE
