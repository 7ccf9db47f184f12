CONSTANTS
    N = 2
    Quantum = 2
    LastTick = 4
    Cycles = {4}
    Locals = {"tick0", "msg"}
    From <- MCFrom
    To <- MCTo
    LocalDelays = {1}
    AsyncDelays = {2, 3}
    Sync = "sync"
    Limit = "limit"
    Requests = {"exit", "exit2"}
    RequestDelays = {0}
    ExitEvents = {"limit", "exit", "exit2"}
    AutoDelete = {}
    Priority <- MCPriority
SPECIFICATION FairSpec
INVARIANTS
    TimeIsCausal
    GlobalEventsAgree
    ReturnsInSync
PROPERTIES
    SimulateReturns
