SPECIFICATION Spec
CONSTANTS
    c1 = c1
    c2 = c2
    c3 = c3
    None = None
    Ports <- MCPorts
    Setups <- LineSetups
    NumTargets = 2
INVARIANT OneAnswerEach
