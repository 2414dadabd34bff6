SPECIFICATION MCSpec
CONSTANTS
    s1 = s1
    s2 = s2
    c1 = c1
    c2 = c2
    Servers = {s1, s2}
    Calls = {c1, c2}
    MaxStarts = 2
    MayLeave = {s2}
INVARIANT TypeOK
INVARIANT ReplyIsDurable
INVARIANT OnlyConnected
PROPERTY CallsReturn
PROPERTY HandlersEnd
CHECK_DEADLOCK FALSE
