CONSTANTS
    p1 = p1
    p2 = p2
    h1 = h1
    h2 = h2
    c1 = c1
    c2 = c2
    c3 = c3
    bias = bias
    norm = norm
    w = w
    wb = wb
    x = x
    xb = xb
    d = d
    db = db
    e = e
    eb = eb
    en = en
    winograd = winograd
    direct = direct
    batchnorm = batchnorm
    wino = wino
    fused = fused
    image = image
    wl = wl
    wbl = wbl
    none = none
    Plan = {p1, p2}
    Handle = {h1, h2}
    Op = {c1, c2, c3, bias, norm}
    Kind = {"conv", "bias", "norm"}
    kind <- KindOf
    Starters = {"conv"}
    Input = {image}
    input <- InputOf
    Vertex = {w, wb, x, xb, d, db, e, eb, en}
    Root = Root
    opOf <- OpOf
    weights <- Weights
    Algorithm = {winograd, direct, batchnorm}
    NoAlgorithm = NoAlgorithm
    algorithm <- AlgorithmOf
    ConvAlgo = {winograd, direct}
    NoConvAlgo = NoConvAlgo
    algo <- AlgoOf
    Solver = {wino, fused}
    NoSolver = NoSolver
    solver <- SolverOf
    Layout = {wl, wbl, none}
    layout <- LayoutOf
    supported <- SupportedOnTwo
    applicable <- ApplicableOn
    Choosing = {p2}
    NoKernel = NoKernel
    NoArgs = NoArgs
    MaxOps = 2
SPECIFICATION Spec
CHECK_DEADLOCK FALSE
INVARIANTS
    CompiledRuns
