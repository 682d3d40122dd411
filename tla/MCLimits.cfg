SPECIFICATION MCSpec
CONSTANTS
    NRegs       <- MCNRegs
    DerInputMax <- MCInputMax
    DerIntLens  <- MCIntLens
    DerHeads    <- MCHeads
    DerInputs   <- MCDerInputs
    TrInputs    <- MCTrInputs
    TrPuts      <- MCPuts
    ScaRegs     <- MCRegs
    InputBytes  <- MCBytes
    InputWords  <- MCWords
    FieldP      <- MCP
INVARIANTS
    CallsInContract
    DerInBounds
    NeverOverflows
    ScalarInContract
    BranchReached
