CONSTANTS
    ChannelMax = 5
    CloseTwice = TRUE
    MaxLive = 2
SPECIFICATION Spec
INVARIANTS
    TypeOK
    Exclusive
    LiveIsReachable
    RegisteredIsLive
