CONSTANTS
    N = 2
    Quantum = 2
    LastTick = 4
    Cycles = {2, 3}
    Locals = {"tick0", "msg"}
    From <- MCFrom
    To <- MCTo
    LocalDelays = {0, 1}
    AsyncDelays = {2, 3}
    Sync = "sync"
    Limit = "limit"
    Requests = {"break"}
    RequestDelays = {1}
    ExitEvents = {"limit"}
    AutoDelete = {"break"}
    Priority <- MCPriority
SPECIFICATION Spec
INVARIANTS
    FlagsAccurate
    NoDeletedBarrier
