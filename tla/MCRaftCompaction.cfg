SPECIFICATION MCSpec
CONSTANTS
    s1 = s1
    s2 = s2
    s3 = s3
    Servers = {s1, s2, s3}
    Nobody = Nobody
    Commands = {1, 2}
    SnapshotAt = {2}
    MaxIndex = 3
    MaxAppends = 2
    MaxInstalls = 1
    MayStand <- TwoLeaders
    MayHear <- Everyone
    LateVotes = FALSE
    MayCrash = {s1}
    MayApply = {s1, s2}
SYMMETRY Symmetry
INVARIANT TypeOK
INVARIANT ApplyInOrder
INVARIANT LeaderCompleteness
INVARIANT StateMachineSafety
PROPERTY CommittedStable
CHECK_DEADLOCK FALSE
