CONSTANTS
    r1 = r1
    r2 = r2
    k1 = k1
    d1 = d1
    return = return
    ack = ack
    closeOk = closeOk
    Requests = {r1, r2}
    Closers = {k1}
    Destroyers = {d1}
    Methods = {return, ack, closeOk}
    Responses <- MCResponses
    Refusable = {r1, d1}
    MaxDestroys = 2
SPECIFICATION FairSpec
INVARIANTS
    TypeOK
    OwnReply
    CrashByDestroy
PROPERTIES
    CallsSettle
    ImplementsCalls
\* The process may have ended, or every call may have been made.
CHECK_DEADLOCK FALSE
