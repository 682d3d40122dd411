SPECIFICATION Spec
CONSTANTS
    MaxSigners <- MCMaxSigners
    Order <- MCOrder
INVARIANTS
    CallsLegal
    CancelRejected
    HonestVerifies
