SPECIFICATION FairSpec
CONSTANTS
    c1 = c1
    c2 = c2
    k1 = k1
    k2 = k2
    Clients = {c1, c2}
    Keys = {k1, k2}
    OpsOf <- PutOrAppend
    MaxSeq = 3
INVARIANT TypeOK
INVARIANT CacheTracksCalls
PROPERTY Linearizable
PROPERTY CallsReturn
CHECK_DEADLOCK FALSE
