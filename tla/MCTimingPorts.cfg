\* Two devices, three DMA calls towards three slaves, a bridge with room for one
\* request and two responses.
SPECIFICATION FairSpec
CONSTANTS
    d1 = d1
    d2 = d2
    a1 = a1
    a2 = a2
    a3 = a3
    Devs = {d1, d2}
    Acts = {a1, a2, a3}
    ActDev <- MCActDev
    ActDests <- MCActDests
    Chunks <- MCChunks
    ReqLimit = 1
    RespLimit = 2
    QueueLimit = 2
    Null = Null
INVARIANTS
    RetryProtocol
    PacketsConserved
    DrainedIsQuiet
PROPERTIES
    EveryActionCompletes
    DrainEnds
