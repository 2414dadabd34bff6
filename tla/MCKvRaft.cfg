SPECIFICATION MCSpec
CONSTANTS
    c1 = c1
    c2 = c2
    k1 = k1
    Servers = {0, 1}
    Clients = {c1, c2}
    Keys = {k1}
    Letters = {c1}
    OpsOf <- AppendAndGet
    MaxLog = 3
    MaxTerm = 2
    MaxSeq = 2
    MaxAttempts = 3
    MaxRpcs = 3
    MaySnapshot = {0}
    MayCrash = {1}
INVARIANT TypeOK
INVARIANT NoChannelLeaks
INVARIANT ReplicasReplay
PROPERTY Linearizable
CHECK_DEADLOCK FALSE
