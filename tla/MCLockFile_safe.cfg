CONSTANTS
    p1 = p1
    p2 = p2
    a1 = a1
    a2 = a2
    b1 = b1
    Process = {p1, p2}
    Thread = {a1, a2, b1}
    home <- TwoAndOne
    UsedOps <- OneReader
    None = None
SPECIFICATION FairSpec
INVARIANTS
    TypeOK
    Exclusion
    HolderOwnsFlock
    NothingLeaks
PROPERTIES
    ImplementsReadersWriterLock
    AttemptsEnd
