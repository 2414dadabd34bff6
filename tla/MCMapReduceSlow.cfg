SPECIFICATION Spec
CONSTANTS
    w1 = w1
    w2 = w2
    w3 = w3
    Workers = {w1, w2}
    NMap = 2
    nReduce = 2
    Slow = {w1}
    MayCrash = {}
INVARIANT JobFinished
CHECK_DEADLOCK FALSE
