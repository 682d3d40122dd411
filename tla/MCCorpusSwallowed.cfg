SPECIFICATION CorpusSpec
CONSTANTS
    CorpusInputs <- MCInputs
    Features     <- MCFeatures
    Versions     <- MCVersions
    Covers       <- MCCovers
    Diverging    <- MCDiverging
INVARIANT
    OnlyCoveredDropped
