CONSTANTS
    N = 2
    Quantum = 2
    LastTick = 4
    Cycles = {2, 3}
    Locals = {"tick0"}
    From <- MCFrom
    To <- MCTo
    LocalDelays = {0, 1}
    AsyncDelays = {2, 3}
    Sync = "sync"
    Limit = "limit"
    Requests = {"stat"}
    RequestDelays = {0}
    ExitEvents = {"limit"}
    AutoDelete = {}
    Priority <- MCPriority
SPECIFICATION Spec
INVARIANT GlobalTotalOrder
