CONSTANTS
    Deliveries = 3
    Pieces <- MCPieces
    Prefetch = 2
    MayUnsubscribe = TRUE
    MayCancel = TRUE
    MayFail = TRUE
SPECIFICATION FairSpec
INVARIANTS
    TypeOK
    HandedWhole
    ChunksFit
PROPERTIES
    ConsumerSettles
\* The queue may be empty, or the connection destroyed.
CHECK_DEADLOCK FALSE
