CONSTANTS
    ChannelMax = 12
    CloseTwice = FALSE
    MaxLive = 2
SPECIFICATION Spec
INVARIANTS
    OpensAreNew
