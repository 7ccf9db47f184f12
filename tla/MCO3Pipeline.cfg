CONSTANTS
    r1 = r1
    r2 = r2
    None = None
    ArchRegs = {r1, r2}
    PhysRegs = {1, 2, 3, 4, 5}
    Setups <- Programs
    Width = 2
    SquashWidth = 1
    NumROB = 4
    NumIQ = 2
    NumLQ = 1
SPECIFICATION Spec
INVARIANTS
    NoAssertionFails
    RegistersConserved
    CommitsSequentially
    SerializesAlone
PROPERTIES
    ProgramCommits
