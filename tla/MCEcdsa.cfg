SPECIFICATION MCSpec
CONSTANTS
    Order <- MCOrder
    XMod  <- MCXMod
    Above <- MCAbove
INVARIANTS
    RecTypeOK
    SignedVerifies
    ConstructedVerifies
    RetriesEnd
    RecoveredVerifies
