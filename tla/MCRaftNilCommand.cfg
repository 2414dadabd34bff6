SPECIFICATION MCSpec
CONSTANTS
    s1 = s1
    s2 = s2
    s3 = s3
    Servers = {s1, s2, s3}
    Nobody = Nobody
    Commands = {1}
    SnapshotAt = {1}
    MaxIndex = 1
    MaxAppends = 3
    MaxInstalls = 1
    MayStand <- OneLeader
    MayHear <- Everyone
    LateVotes = TRUE
    MayCrash = {}
    MayApply = {s1, s2, s3}
SYMMETRY Symmetry
INVARIANT StateMachineSafety
CHECK_DEADLOCK FALSE
