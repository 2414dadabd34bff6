SPECIFICATION MCSpec
CONSTANTS
    s1 = s1
    s2 = s2
    s3 = s3
    Servers = {s1, s2, s3}
    Nobody = Nobody
    Commands = {1, 2}
    SnapshotAt = {1}
    MaxIndex = 1
    MaxAppends = 2
    MaxInstalls = 1
    MayStand <- Rivals
    MayHear <- Everyone
    LateVotes = TRUE
    MayCrash = {s1}
    MayApply = {s1}
SYMMETRY Symmetry
INVARIANT ElectionSafety
CHECK_DEADLOCK FALSE
