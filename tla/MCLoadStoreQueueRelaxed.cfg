CONSTANTS
    Setups <- Relaxed
    Bytes = {0, 1, 2}
    BlockOf <- Blocks
    maxLQEntries = 2
    maxSQEntries = 2
    depCheckShift = 0
SPECIFICATION Spec
INVARIANTS NoAssertionFails Coherent CommittedStoresOnly TotalStoreOrder
    BarriersOrder
PROPERTY AllPerformed
CHECK_DEADLOCK FALSE
