SPECIFICATION Spec
CONSTANTS
    Texts <- MCTexts
    Numbers <- MCNumbers
    Dates <- MCDates
    Tables <- MCTables
    ServerTables <- MCServerTables
INVARIANTS
    TypeOK
    FrameWhole
    RoundTrip
    RefusedForCause
    GeneratedTables
CHECK_DEADLOCK FALSE
