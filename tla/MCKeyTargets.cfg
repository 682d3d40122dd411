SPECIFICATION MCSpec
CONSTANTS
    NRegs <- MCNRegs
    Order <- MCOrder
    Builds <- MCBuilds
    GrpNRegs <- MCNRegs
    Zs <- MCZs
    Lambda <- MCLambda
INVARIANTS
    CallsLegal
    TranscriptExact
    VerifiesAsMade
    TweakChecked
    SessionSecrets
    BuildsAgree
