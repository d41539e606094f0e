CONSTANTS
    c1 = c1
    c2 = c2
    Channels = {c1, c2}
    ChannelMax = 1
    Closers = {c1, c2}
    CloseAgain = {c1}
    Destroyers = {c2}
    PeerCloses = {c1, c2}
    Closing = {"user", "peer", "failure"}
    MaxContent = 1
SPECIFICATION FairSpec
INVARIANTS
    OnlyUncleanEndsHurt
PROPERTIES
    EndsSettle
\* Everything may be opened and closed.
CHECK_DEADLOCK FALSE
