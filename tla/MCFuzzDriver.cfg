SPECIFICATION MCSpec
CONSTANTS
    NVariants = 2
    NBuilds = 2
    NMutants = 2
    i0 = i0
    i1 = i1
    big = big
    Inputs = {i0, i1, big}
    Oversize = {big}
INVARIANTS
    FeedbackExact
    CorpusExposes
    ReportExact
    DivergenceNeverKept
PROPERTY
    FeedbackKept
