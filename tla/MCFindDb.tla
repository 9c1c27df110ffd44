------------------------------- MODULE MCFindDb -------------------------------
(* Two algorithms, one of them with two solvers that differ in workspace.    *)
EXTENDS FindDb, TLC

CONSTANTS h1, h2, gemm, winograd, g1, g2, w1

AlgoOf      == (g1 :> gemm) @@ (g2 :> gemm) @@ (w1 :> winograd)
WorkspaceOf == (g1 :> 1) @@ (g2 :> 0) @@ (w1 :> 0)

\* The system find-db knows one algorithm.
OnlyGemm == [a \in Algorithm |-> IF a = gemm THEN g1 ELSE NoSolver]
Nothing  == [a \in Algorithm |-> NoSolver]

\* One handle has a solver that does not apply in the environment of the other.
ApplicableTo  == (h1 :> {g1, g2, w1}) @@ (h2 :> {g2, w1})
AllApplicable == [h \in Handle |-> Solver]
===============================================================================
