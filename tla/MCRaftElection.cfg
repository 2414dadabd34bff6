SPECIFICATION MCSpec
CONSTANTS
    s1 = s1
    s2 = s2
    s3 = s3
    Servers = {s1, s2, s3}
    Nobody = Nobody
    Commands = {}
    SnapshotAt = {}
    MaxIndex = 0
    MaxAppends = 1
    MaxInstalls = 0
    MayStand <- TwoThenAny
    MayHear <- Everyone
    LateVotes = TRUE
    MayCrash = {s1, s2, s3}
    MayApply = {}
SYMMETRY Symmetry
INVARIANT ElectionInv
INVARIANT ElectionSafety
PROPERTY VoteOnce
PROPERTY TermMonotone
CHECK_DEADLOCK FALSE
