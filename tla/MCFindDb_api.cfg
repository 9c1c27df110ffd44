CONSTANTS
    h1 = h1
    h2 = h2
    gemm = gemm
    winograd = winograd
    g1 = g1
    g2 = g2
    w1 = w1
    Handle = {h1, h2}
    Algorithm = {gemm, winograd}
    Solver = {g1, g2, w1}
    algo <- AlgoOf
    workspace <- WorkspaceOf
    NoSolver = NoSolver
    NoHandle = NoHandle
    Installed <- OnlyGemm
    Applicable <- ApplicableTo
    Fallback = {w1}
    Modes = {"normal", "fast", "hybrid"}
    UsedCalls = {"Find", "Immediate"}
    Faults = {"build", "db_file", "crash"}
SPECIFICATION Spec
INVARIANTS
    TypeOK
    ReportedRuns
    OwnRecordIsHit
