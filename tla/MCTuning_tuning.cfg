CONSTANTS
    h1 = h1
    h2 = h2
    k1 = k1
    direct = direct
    winograd = winograd
    d = d
    w = w
    d1 = d1
    d2 = d2
    d3 = d3
    w1 = w1
    p = p
    q = q
    Handle = {h1, h2}
    Key = {k1}
    Config = {d1, d2, d3, w1}
    NoConfig = NoConfig
    Program = {p, q}
    Algorithm = {direct, winograd}
    solvers <- BothSolvers
    algo <- AlgoOf
    Tunable = {d}
    Exhaustive = {direct}
    space <- SpaceOf
    spare <- SpareOf
    default <- DefaultOf
    Valid <- ValidFor
    oversized = {}
    programs <- ProgramsFor
    Installed <- NoInstalled
    NoOp = NoOp
    NoAnswer = NoAnswer
    Time = {20, 21}
    Inline = {h2}
    UsedEnforce <- EnforceOf
    UsedCalls <- CallsOf
    Faults <- FaultsOf
SPECIFICATION FairSpec
INVARIANTS
    TypeOK
    ValuesHaveProblems
    SolutionsAreUsable
    StoredWasMeasured
    BestIsBest
    Precompiled
CHECK_DEADLOCK FALSE
PROPERTIES
    NothingAccumulates
    ImplementsValueStore
    CallsEnd
    TunedOnce
