SPECIFICATION FairSpec
CONSTANTS
    w1 = w1
    w2 = w2
    w3 = w3
    Workers = {w1, w2, w3}
    NMap = 2
    nReduce = 2
    Slow = {}
    MayCrash = {w2, w3}
INVARIANT TypeOK
INVARIANT JobFinished
INVARIANT CountsExact
INVARIANT InputReady
PROPERTY JobFinishes
CHECK_DEADLOCK FALSE
