CONSTANTS
    m1 = m1
    m2 = m2
    m3 = m3
    m4 = m4
    m5 = m5
    Messages = {m1, m2, m3, m4, m5}
    Pieces <- MCPieces
    Bare = {m3}
    Broken = {m2, m5}
    Unspeakable = {m5}
    Unroutable = {m1}
    Nacked = {m4}
    MayFail = TRUE
SPECIFICATION FairSpec
INVARIANTS
    TypeOK
    OutcomesTrue
    ContentsWhole
PROPERTIES
    CallsSettle
\* Everything may be published and the publisher closed.
CHECK_DEADLOCK FALSE
