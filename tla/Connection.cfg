CONSTANTS
    c1 = c1
    c2 = c2
    c3 = c3
    Channels = {c1, c2, c3}
    ChannelMax = 2
    Closers = {c1, c2, c3}
    CloseAgain = {"connection"}
    Destroyers = {}
    PeerCloses = {}
    Closing = {"user", "peer", "failure"}
    MaxContent = 1
SYMMETRY Symmetry
SPECIFICATION Spec
INVARIANTS
    TypeOK
    OnlyUncleanEndsHurt
    Agreement
\* Everything may be opened and closed.
CHECK_DEADLOCK FALSE
