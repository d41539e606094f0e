CONSTANTS
    Options <- MCOptions
    Tunes <- MCTunes
    SECOND = 4
    HB_MOF_DENOMINATOR = 100
    HB_MOF_MIN = 1
    HB_MOF_MAX = 4
SPECIFICATION FairSpec
INVARIANTS
    TypeOK
    LimitsAgree
    LivingStay
    EndIsQuiet
    SilenceFound
PROPERTIES
    OpenSettles
\* A connection that ended does nothing more.
CHECK_DEADLOCK FALSE
