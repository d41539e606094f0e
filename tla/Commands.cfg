CONSTANTS
    c1 = c1
    c2 = c2
    q = q
    e = e
    f = f
    None = None
    Clients = {c1, c2}
    Queues = {q}
    Exchanges = {e, f}
    Operations <- MCOperations
    Worlds <- MCWorlds
    Limits = {1, 2}
SPECIFICATION Spec
SYMMETRY Symmetric
INVARIANTS
    TypeOK
    AnswersTrue
    NothingElseLeft
    KeysKnown
\* A call that has ended does nothing more.
CHECK_DEADLOCK FALSE
