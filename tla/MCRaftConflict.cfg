SPECIFICATION MCSpec
CONSTANTS
    s1 = s1
    s2 = s2
    s3 = s3
    Servers = {s1, s2, s3}
    Nobody = Nobody
    Commands = {1, 2, 3}
    SnapshotAt = {}
    MaxIndex = 2
    MaxAppends = 2
    MaxInstalls = 0
    MayStand <- FourLeaders
    MayHear <- LateOnly
    LateVotes = FALSE
    MayCrash = {s1, s2, s3}
    MayApply = {}
SYMMETRY Symmetry
INVARIANT LogMatching
INVARIANT LeaderCompleteness
INVARIANT ProbesWalkBack
INVARIANT Durable
PROPERTY CommitMonotone
CHECK_DEADLOCK FALSE
