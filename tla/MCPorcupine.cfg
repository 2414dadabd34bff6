SPECIFICATION MCSpec
CONSTANTS
    k1 = k1
    k2 = k2
    Keys = {k1, k2}
    MaxOps = 3
    MaxTime = 2
    Histories <- AllHistories
INVARIANT TypeOK
INVARIANT VerdictCorrect
INVARIANT ListIntact
INVARIANT PartialsValid
PROPERTY InfoStable
PROPERTY CheckEnds
CHECK_DEADLOCK FALSE
