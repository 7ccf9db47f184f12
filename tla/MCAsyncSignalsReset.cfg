SPECIFICATION Spec
CONSTANTS
    N = 1
    Setups <- DumpAndReset
PROPERTIES
    NoLostRequest
