CONSTANTS
    N = 2
    Quantum = 2
    LastTick = 5
    Cycles = {3, 5}
    Locals = {"tick0", "msg"}
    From <- MCFrom
    To <- MCTo
    LocalDelays = {1}
    AsyncDelays = {2, 3}
    Sync = "sync"
    Limit = "limit"
    Requests = {"exit"}
    RequestDelays = {0}
    ExitEvents = {"limit", "exit"}
    AutoDelete = {}
    Priority <- MCPriority
SPECIFICATION Spec
INVARIANT GlobalTotalOrder
