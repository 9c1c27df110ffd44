----------------------------- MODULE InvokerCache -----------------------------
(* miopen::InvokerCache, the entry of one network config in the cache of a   *)
(* handle: the solvers whose invokers are built, and for each algorithm the  *)
(* solver that the "find 1.0" calls run, which name only the algorithm.      *)
(* An invoker, once registered, is neither replaced nor removed.             *)
CONSTANTS Algorithm, Solver, NoSolver

ASSUME InvokerCacheAssumption == NoSolver \notin Solver

Item == [invokers : SUBSET Solver, found_1_0 : [Algorithm -> Solver \cup {NoSolver}]]

EmptyItem == [invokers |-> {}, found_1_0 |-> [a \in Algorithm |-> NoSolver]]

HasInvoker(item, s) == s \in item.invokers

\* What ConvolutionForward runs for algorithm a.
GetFound1_0(item, a) == item.found_1_0[a]

\* The entry is usable: GetFound1_0 throws if the solver has no invoker.
Runs(item, a) == GetFound1_0(item, a) \in item.invokers

\* Handle::RegisterInvoker: Register, then SetAsFound1_0.
RegisterInvoker(item, s, a) ==
    [invokers  |-> item.invokers \cup {s},
     found_1_0 |-> [item.found_1_0 EXCEPT ![a] = s]]
===============================================================================
