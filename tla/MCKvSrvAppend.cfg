SPECIFICATION FairSpec
CONSTANTS
    c1 = c1
    c2 = c2
    k1 = k1
    k2 = k2
    Clients = {c1, c2}
    Keys = {k1}
    OpsOf <- PutAndAppend
    MaxSeq = 2
PROPERTY Linearizable
CHECK_DEADLOCK FALSE
