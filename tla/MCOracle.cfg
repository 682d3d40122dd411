SPECIFICATION FairSpec
CONSTANTS
    N = 2
    Inputs = {i0, i1}
    Empty = i0
    ReqLen <- MCReqLen
    PipeCap <- MCPipeCap
INVARIANTS
    LinesPaired
    VerdictSound
PROPERTIES
    Implements
    CheckEnds
    OraclesEnd
