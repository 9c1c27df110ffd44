-------------------------------- MODULE Fusion --------------------------------
(****************************************************************************)
(* Fusion plans.  A plan is a list of operators, and the vertices of the    *)
(* metadata graph that this list leads to; Compile picks one of them, the   *)
(* first that the device supports and whose solver applies, and puts its    *)
(* kernel into the kernel cache of the handle, where Execute finds it by    *)
(* algorithm and network config.  Plans share the cache of a handle and     *)
(* nothing else, a plan may be compiled for several handles.                *)
(*                                                                          *)
(* The graph is a constant: its vertices, the weights of the edges whose    *)
(* constraints the operators satisfy, and what the device can do.  Neither  *)
(* plans nor handles are used by two threads at once, so a call is a step;  *)
(* a call that throws and leaves everything as it was is not a step.  A     *)
(* plan nobody has used yet stands for one that is created later.           *)
(****************************************************************************)
EXTENDS Naturals, Sequences, SequencesExt

CONSTANTS Plan, Handle,
          Op, Kind, kind,     \* the operators, and the kind of each
          Starters,           \* the kinds that may come first (here, convolutions)
          Input, input,       \* input[p]: the input descriptor of plan p
          Vertex, Root,       \* the vertices; the null pointer the paths start from
          opOf,               \* opOf[v]: the kind of operator that leads to v
          weights,            \* weights[u][v]: the weights of the edges from u to v
          Algorithm, NoAlgorithm, algorithm,  \* algorithm[v]: its name in the cache
          ConvAlgo, NoConvAlgo, algo,         \* algo[v]: set by edges to convolutions
          Solver, NoSolver, solver,           \* solver[v]: of convolutions
          Layout, layout,     \* layout[v]: the arguments its kernel expects
          supported,          \* supported[h]: the vertices for the device of h
          applicable,         \* applicable[h][o]: the solvers for convolution o
          Choosing,           \* the plans for which SetConvAlgo is called
          NoKernel, NoArgs,
          MaxOps              \* bound on the operators of a plan

ASSUME FusionAssumption ==
    /\ kind \in [Op -> Kind] /\ Starters \subseteq Kind /\ "conv" \in Kind
    /\ input \in [Plan -> Input]
    /\ IsFiniteSet(Vertex) /\ Root \notin Vertex /\ opOf \in [Vertex -> Kind]
    /\ weights \in [Vertex \cup {Root} -> [Vertex -> Seq(Nat)]]
    /\ algorithm \in [Vertex -> Algorithm] /\ NoAlgorithm \notin Algorithm
    /\ algo \in [Vertex -> ConvAlgo \cup {NoConvAlgo}]
    /\ solver \in [Vertex -> Solver \cup {NoSolver}] /\ NoSolver \notin Solver
    /\ layout \in [Vertex -> Layout]
    /\ supported \in [Handle -> SUBSET Vertex]
    /\ applicable \in [Handle -> [Op -> SUBSET Solver]]
    /\ Choosing \subseteq Plan /\ MaxOps \in Nat
    /\ NoArgs \notin [layout : Layout, ops : Seq(Op)]

Total(s) == FoldSeq(LAMBDA x, y : x + y, 0, s)

\* Parallel edges share the weight of the path: each adds to the one before.
WeightAfter(u, v, n) == Total(SubSeq(weights[u][v], 1, n))

\* A way through the graph, by the vertices it comes to, and what a path that
\* went this way has collected: its solver, and the weights it may have.
Route == {q \in UNION {[1 .. n -> Vertex] : n \in 1 .. MaxOps} :
             /\ weights[Root][q[1]] # <<>>
             /\ \A n \in DOMAIN q \ {1} : weights[q[n - 1]][q[n]] # <<>>}

End(q)       == q[Len(q)]
OpsOn(q)     == [n \in DOMAIN q |-> opOf[q[n]]]
SolverOn(q)  == IF opOf[q[1]] = "conv" THEN solver[q[1]] ELSE NoSolver
WeightsOn(q) == {WeightAfter(Root, q[1], m) : m \in DOMAIN weights[Root][q[1]]}

\* What all graphs of the library have in common.  Convolutions come first, only
\* edges from the root have a weight, and what follows an operator is for the
\* same devices as it is.
ASSUME LibraryEdges ==
    \A u, v \in Vertex : weights[u][v] # <<>> =>
        /\ opOf[v] # "conv" /\ \A n \in DOMAIN weights[u][v] : weights[u][v][n] = 0
        /\ \A h \in Handle : u \in supported[h] <=> v \in supported[h]

\* Of the ways for the same operators on one device, those to one algorithm
\* have one solver and expect the same arguments, and those of one weight lead
\* to one algorithm.
ASSUME LibraryRoutes ==
    \A h \in Handle, q, r \in Route :
        OpsOn(q) = OpsOn(r) /\ {End(q), End(r)} \subseteq supported[h] =>
            /\ algorithm[End(q)] = algorithm[End(r)] =>
                  SolverOn(q) = SolverOn(r) /\ layout[End(q)] = layout[End(r)]
            /\ WeightsOn(q) \cap WeightsOn(r) # {} => algorithm[End(q)] = algorithm[End(r)]

VARIABLES op_map,          \* op_map[p]: the operators of plan p
          is_valid,        \* the last operator could be added
          cur_vertex,      \* the ends of the paths, the heaviest first
          conv_algo_set,   \* the algorithms of a convolution just added
          kernel_info_valid, \* the convolution has been solved
          algorithm_name, network_config,  \* the key of its kernel
          arg_list,        \* the arguments Execute passes
          kernel_map,      \* kernel_map[h]: the kernel cache of handle h
          requested,       \* auxiliary: SetConvAlgo was called, and
          compiled         \* the handles for which Compile succeeded

planVars == <<op_map, is_valid, cur_vertex, conv_algo_set, kernel_info_valid,
              algorithm_name, network_config, arg_list, requested, compiled>>
vars == <<planVars, kernel_map>>

Cache == INSTANCE KernelCache

\* A path: where it ends, its weight and the solver of its convolution.
Path == [vertex : Vertex \cup {Root}, weight : Nat, solver : Solver \cup {NoSolver}]
Empty == <<[vertex |-> Root, weight |-> 0, solver |-> NoSolver]>>

\* What identifies a kernel besides its algorithm.
Config == [input : Input, ops : Seq(Op)]

Key    == Algorithm \X Config
Kernel == [vertex : Vertex, config : Config, options : SUBSET Vertex]

TypeOK ==
    /\ op_map \in [Plan -> Seq(Op)]
    /\ is_valid \in [Plan -> BOOLEAN]
    /\ cur_vertex \in [Plan -> Seq(Path)]
    /\ conv_algo_set \in [Plan -> SUBSET (ConvAlgo \cup {NoConvAlgo})]
    /\ kernel_info_valid \in [Plan -> BOOLEAN]
    /\ algorithm_name \in [Plan -> Algorithm \cup {NoAlgorithm}]
    /\ network_config \in [Plan -> Config]
    /\ arg_list \in [Plan -> {NoArgs} \cup [layout : Layout, ops : Seq(Op)]]
    /\ requested \in [Plan -> BOOLEAN]
    /\ compiled \in [Plan -> SUBSET Handle]
    /\ DOMAIN kernel_map = Handle
    /\ \A h \in Handle :
          /\ DOMAIN kernel_map[h] \subseteq Key
          /\ \A key \in DOMAIN kernel_map[h] :
                kernel_map[h][key] \in Seq(Kernel) /\ Len(kernel_map[h][key]) = 1

Init ==
    /\ op_map            = [p \in Plan |-> <<>>]
    /\ is_valid          = [p \in Plan |-> FALSE]
    /\ cur_vertex        = [p \in Plan |-> Empty]
    /\ conv_algo_set     = [p \in Plan |-> {}]
    /\ kernel_info_valid = [p \in Plan |-> FALSE]
    /\ algorithm_name    = [p \in Plan |-> NoAlgorithm]
    /\ network_config    = [p \in Plan |-> [input |-> input[p], ops |-> <<>>]]
    /\ arg_list          = [p \in Plan |-> NoArgs]
    /\ requested         = [p \in Plan |-> FALSE]
    /\ compiled          = [p \in Plan |-> {}]
    /\ kernel_map        = [h \in Handle |-> Cache!EmptyKernelMap]

------------------------------------------------------------------------------
(* Operators.                                                               *)

\* Path e, extended by operator o along the m-th edge to v.
Extend(e, o, v, m) ==
    [vertex |-> v, weight |-> e.weight + WeightAfter(e.vertex, v, m),
     solver |-> IF kind[o] = "conv" THEN solver[v] ELSE e.solver]

\* Advance: the paths that operator o extends.
Advance(paths, o) ==
    UNION {UNION {{Extend(paths[n], o, v, m) : m \in DOMAIN weights[paths[n].vertex][v]} :
                  v \in {w \in Vertex : opOf[w] = kind[o]}} :
           n \in DOMAIN paths}

\* A variation that leaves the paths as they come.
Sorted_Not(S) == SetToSeqs(S)

\* std::sort, which leaves paths of one weight in any order.
Sorted(S) == {q \in SetToSeqs(S) : \A m, n \in DOMAIN q : m < n => q[m].weight >= q[n].weight}

\* The graph is loaded for the kind of the first operator, or the call throws.
\* An operator that does not fit stays in the plan, which is lost with it.
AddOp(p, o) ==
    LET paths == Advance(cur_vertex[p], o) IN
    /\ Len(op_map[p]) < MaxOps
    /\ op_map[p] = <<>> => kind[o] \in Starters
    /\ op_map' = [op_map EXCEPT ![p] = Append(@, o)]
    /\ is_valid' = [is_valid EXCEPT ![p] = paths # {}]
    /\ \E q \in Sorted(paths) : cur_vertex' = [cur_vertex EXCEPT ![p] = q]
    /\ conv_algo_set' = [conv_algo_set EXCEPT ![p] =
          IF kind[o] = "conv" THEN {algo[e.vertex] : e \in paths} ELSE {}]
    /\ compiled' = [compiled EXCEPT ![p] = {}]
    /\ UNCHANGED <<kernel_info_valid, algorithm_name, network_config, arg_list, requested,
                   kernel_map>>

\* Only directly after the convolution was added; else it throws.  The paths of
\* the algorithm are kept in their order, by their places in the list; that may
\* be none, if the plan was compiled before.
SetConvAlgo(p, a) ==
    LET kept == {n \in DOMAIN cur_vertex[p] : algo[cur_vertex[p][n].vertex] = a} IN
    /\ p \in Choosing /\ a \in conv_algo_set[p]
    /\ \E order \in SetToSeqs(kept) :
          /\ \A m, n \in DOMAIN order : m < n => order[m] < order[n]
          /\ cur_vertex' = [cur_vertex EXCEPT
                ![p] = [n \in DOMAIN order |-> cur_vertex[p][order[n]]]]
    /\ requested' = [requested EXCEPT ![p] = TRUE]
    /\ compiled' = [compiled EXCEPT ![p] = {}]
    /\ UNCHANGED <<op_map, is_valid, conv_algo_set, kernel_info_valid, algorithm_name,
                   network_config, arg_list, kernel_map>>

------------------------------------------------------------------------------
(* Compile.                                                                 *)

FirstOf(S) == CHOOSE n \in S : \A m \in S : n <= m
LastOf(S)  == CHOOSE n \in S : \A m \in S : m <= n

\* The paths, by their places in the list, that the device of h supports.
Supported(p, h) == {n \in DOMAIN cur_vertex[p] : cur_vertex[p][n].vertex \in supported[h]}

\* The heaviest of them is the first.
GetCurVertex(p, h) ==
    IF Supported(p, h) = {} THEN Root ELSE cur_vertex[p][FirstOf(Supported(p, h))].vertex

\* Otherwise Compile and Execute throw.
Usable(p, h) == is_valid[p] /\ GetCurVertex(p, h) # Root

\* GetCompileParms: the solver of the path finds a solution.
Applies(p, h, n) ==
    \/ cur_vertex[p][n].solver = NoSolver
    \/ cur_vertex[p][n].solver \in applicable[h][op_map[p][1]]

Candidates(p, h) == {n \in Supported(p, h) : Applies(p, h, n)}

\* A variation that appends to what the last Compile left.
GetNetworkConfig_Growing(p) ==
    [input |-> input[p], ops |-> network_config[p].ops \o op_map[p]]

GetNetworkConfig(p) == [input |-> input[p], ops |-> op_map[p]]

KernelsOf(p, h, v) == Cache!GetKernels(kernel_map[h], <<algorithm[v], GetNetworkConfig(p)>>)

\* A variation that appends before the solution is known.
AppendsOptions_Early(p, h, n) == TRUE

AppendsOptions(p, h, n) == Applies(p, h, n)

\* The options collected up to path n.  They are not cleared between paths.
CompileConfig(p, h, n) ==
    {cur_vertex[p][m].vertex : m \in {l \in Supported(p, h) : l <= n /\ AppendsOptions(p, h, l)}}

\* A variation that sets the algorithm only once.
Names_Once(p, v) ==
    /\ algorithm_name' = [algorithm_name EXCEPT ![p] = IF @ = NoAlgorithm THEN algorithm[v] ELSE @]
    /\ network_config' = [network_config EXCEPT ![p] = GetNetworkConfig(p)]

\* Compile looks for, or makes, the kernel of vertex v.
Names(p, v) ==
    /\ algorithm_name' = [algorithm_name EXCEPT ![p] = algorithm[v]]
    /\ network_config' = [network_config EXCEPT ![p] = GetNetworkConfig(p)]

\* A variation that keeps the arguments of an earlier Compile.
Succeeds_Keeping(p, h, v) ==
    /\ arg_list' = [arg_list EXCEPT
          ![p] = IF @ # NoArgs THEN @ ELSE [layout |-> layout[v], ops |-> op_map[p]]]
    /\ compiled' = [compiled EXCEPT ![p] = @ \cup {h}]

\* CalcArgOrder.
Succeeds(p, h, v) ==
    /\ arg_list' = [arg_list EXCEPT ![p] = [layout |-> layout[v], ops |-> op_map[p]]]
    /\ compiled' = [compiled EXCEPT ![p] = @ \cup {h}]

\* There is a kernel for the algorithm of the heaviest path.  It may have been
\* made from another vertex; the list is not reduced.
CompileCached(p, h) ==
    LET v == GetCurVertex(p, h) IN
    /\ Usable(p, h) /\ KernelsOf(p, h, v) # <<>>
    /\ Names(p, v)
    /\ Succeeds(p, h, v)
    /\ UNCHANGED <<op_map, is_valid, cur_vertex, conv_algo_set, kernel_info_valid, requested,
                   kernel_map>>

\* Otherwise the paths are tried in turn.
Tries(p, h) == Usable(p, h) /\ KernelsOf(p, h, GetCurVertex(p, h)) = <<>>

\* A variation that keeps the other paths.
Narrows_Not(p, n) == UNCHANGED cur_vertex

Narrows(p, n) == cur_vertex' = [cur_vertex EXCEPT ![p] = <<@[n]>>]

\* A path has a solution: it is the only one from now on, and its kernel is
\* taken from the cache or built.
CompileNew(p, h) ==
    LET n == FirstOf(Candidates(p, h))
        v == cur_vertex[p][n].vertex
        k == [vertex |-> v, config |-> GetNetworkConfig(p), options |-> CompileConfig(p, h, n)]
    IN  /\ Tries(p, h) /\ Candidates(p, h) # {}
        /\ Names(p, v) /\ Narrows(p, n)
        /\ kernel_info_valid' = [kernel_info_valid EXCEPT
              ![p] = @ \/ cur_vertex[p][n].solver # NoSolver]
        /\ kernel_map' = [kernel_map EXCEPT ![h] =
              IF KernelsOf(p, h, v) # <<>> THEN @
              ELSE Cache!AddKernel(@, <<algorithm[v], GetNetworkConfig(p)>>, k, 0)]
        /\ Succeeds(p, h, v)
        /\ UNCHANGED <<op_map, is_valid, conv_algo_set, requested>>

\* The same, but the kernel cannot be built: AddKernel throws.
CompileNotBuilt(p, h) ==
    LET n == FirstOf(Candidates(p, h))
        v == cur_vertex[p][n].vertex
    IN  /\ Tries(p, h) /\ Candidates(p, h) # {} /\ KernelsOf(p, h, v) = <<>>
        /\ Names(p, v) /\ Narrows(p, n)
        /\ kernel_info_valid' = [kernel_info_valid EXCEPT
              ![p] = @ \/ cur_vertex[p][n].solver # NoSolver]
        /\ UNCHANGED <<op_map, is_valid, conv_algo_set, arg_list, requested, compiled,
                       kernel_map>>

\* "success" says only that the last path was not supported: the code goes on
\* although no path has a solution.
TakenForSuccess(p, h) == Len(cur_vertex[p]) \notin Supported(p, h)

\* No path has a solution: an internal error.  Or, if the last one in the list
\* is not for the device, all paths are dropped and GetLocalWGSz throws,
\* because the convolution has never been solved.
CompileNotViable(p, h) ==
    /\ Tries(p, h) /\ Candidates(p, h) = {}
    /\ Names(p, cur_vertex[p][LastOf(Supported(p, h))].vertex)
    /\ cur_vertex' = [cur_vertex EXCEPT ![p] = IF TakenForSuccess(p, h) THEN <<>> ELSE @]
    /\ UNCHANGED <<op_map, is_valid, conv_algo_set, kernel_info_valid, arg_list,
                   requested, compiled, kernel_map>>

Compile(p, h) ==
    CompileCached(p, h) \/ CompileNew(p, h) \/ CompileNotBuilt(p, h) \/ CompileNotViable(p, h)

\* Execute changes nothing: it throws, or launches the first kernel of the key.
Found(p, h) == Cache!GetKernels(kernel_map[h], <<algorithm_name[p], network_config[p]>>)

Executes(p, h) == Usable(p, h) /\ Found(p, h) # <<>> /\ arg_list[p] # NoArgs

Launched(p, h) == Found(p, h)[1]

Next ==
    \E p \in Plan :
        \/ \E o \in Op : AddOp(p, o)
        \/ \E a \in ConvAlgo : SetConvAlgo(p, a)
        \/ \E h \in Handle : Compile(p, h)

Spec == Init /\ [][Next]_vars

------------------------------------------------------------------------------
(* Properties.                                                              *)

\* Every kernel in a cache is the one its key names: of a vertex the device
\* supports, with the options of that vertex and of no path tried before it.
KernelsAreSound ==
    \A h \in Handle : \A key \in DOMAIN kernel_map[h] :
        LET k == kernel_map[h][key][1] IN
        /\ key = <<algorithm[k.vertex], k.config>>
        /\ k.vertex \in supported[h] /\ k.options = {k.vertex}

\* "Compile the fusion plan ... and make it ready for execution": once Compile
\* has succeeded for a handle, Execute runs there until the plan is changed,
\* whatever else is compiled, and for whatever other handle of the same device.
\* "It would however need to be recompiled for each handle separately" asks for
\* the same with handles of different devices, where it does not hold: the first
\* compilation that builds a kernel drops the paths of the other devices.
CompiledRuns == \A p \in Plan : \A h \in compiled[p] : Executes(p, h)

\* What it runs then is a kernel of the plan's operators, made by this plan or
\* by another, and the arguments are those that the kernel expects.
ArgumentsFit ==
    \A p \in Plan : \A h \in compiled[p] : Executes(p, h) =>
        /\ Launched(p, h).config = GetNetworkConfig(p)
        /\ arg_list[p] = [layout |-> layout[Launched(p, h).vertex], ops |-> op_map[p]]

\* The kernel does not depend on when the plan was compiled, nor on the order
\* of paths of one weight: plans of the same operators run the same kernel, if
\* no algorithm is asked for.
SamePlanSameKernel ==
    \A p, q \in Plan : \A h \in compiled[p] \cap compiled[q] :
        ~ requested[p] /\ ~ requested[q] /\ GetNetworkConfig(p) = GetNetworkConfig(q)
            => Launched(p, h) = Launched(q, h)

\* Where no path has a solution and the last is taken for one, the call must
\* end in GetLocalWGSz: past it CalcArgOrder dereferences the missing vertex.
NoMissingVertex ==
    \A p \in Plan, h \in Handle :
        Tries(p, h) /\ Candidates(p, h) = {} /\ TakenForSuccess(p, h) =>
            /\ KernelsOf(p, h, cur_vertex[p][LastOf(Supported(p, h))].vertex) = <<>>
            /\ ~ kernel_info_valid[p]

\* "A fusion plan should only be compiled once": a plan that is compiled for a
\* handle builds nothing when it is compiled for it again.
RecompileBuildsNothing ==
    [][\A p \in Plan : \A h \in compiled[p] : Compile(p, h) => UNCHANGED kernel_map]_vars
===============================================================================
