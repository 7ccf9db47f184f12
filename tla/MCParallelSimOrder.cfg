CONSTANTS
    N = 3
    Quantum = 2
    LastTick = 3
    Cycles = {3}
    Locals = {"tick0", "tick1"}
    From <- MCFrom
    To <- MCTo
    LocalDelays = {1}
    AsyncDelays = {2, 3}
    Sync = "sync"
    Limit = "limit"
    Requests = {"stat", "stat2"}
    RequestDelays = {0}
    ExitEvents = {"limit"}
    AutoDelete = {}
    Priority <- MCPriority
SPECIFICATION Spec
INVARIANTS GlobalTotalOrder ProcessRunsAlone ReturnsInSync
