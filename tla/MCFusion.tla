------------------------------- MODULE MCFusion -------------------------------
(* Two handles, for one device or (SupportedOnTwo) for two, convolutions     *)
(* with a filter of 5 x 5: the direct kernels d and e are preferred to the   *)
(* Winograd ones w, and x, which is for another device.  A bias or a batch   *)
(* normalization may follow e, a bias the others.  c1 has a direct and a     *)
(* Winograd solution, c2 only the former, c3 only the latter.                *)
EXTENDS Fusion, TLC

CONSTANTS p1, p2, h1, h2, c1, c2, c3, bias, norm, w, wb, x, xb, d, db, e, eb, en,
          winograd, direct, batchnorm, wino, fused, image, wl, wbl, none

KindOf  == (c1 :> "conv") @@ (c2 :> "conv") @@ (c3 :> "conv")
           @@ (bias :> "bias") @@ (norm :> "norm")
InputOf == [p \in Plan |-> image]
OpOf    == [v \in Vertex |-> CASE v \in {w, x, d, e} -> "conv" [] v = en -> "norm"
                             [] OTHER -> "bias"]

Edges == (<<Root, w>> :> <<5>>) @@ (<<Root, x>> :> <<5>>)
         @@ (<<Root, d>> :> <<10>>) @@ (<<Root, e>> :> <<10>>)
         @@ (<<w, wb>> :> <<0>>) @@ (<<x, xb>> :> <<0>>) @@ (<<d, db>> :> <<0>>)
         @@ (<<e, eb>> :> <<0>>) @@ (<<eb, en>> :> <<0>>) @@ (<<e, en>> :> <<0, 0>>)
Weights == [u \in Vertex \cup {Root} |-> [v \in Vertex |->
              IF <<u, v>> \in DOMAIN Edges THEN Edges[<<u, v>>] ELSE <<>>]]

AlgorithmOf == [v \in Vertex |-> CASE v \in {w, wb, x, xb} -> winograd [] v = en -> batchnorm
                                 [] OTHER -> direct]
AlgoOf   == [v \in Vertex |-> CASE v \in {w, x} -> winograd [] v \in {d, e} -> direct
                              [] OTHER -> NoConvAlgo]
SolverOf == [v \in Vertex |-> CASE v \in {w, x} -> wino [] v \in {d, e} -> fused
                              [] OTHER -> NoSolver]
LayoutOf == [v \in Vertex |-> CASE v \in {w, x} -> wl [] v \in {wb, xb} -> wbl
                              [] OTHER -> none]

SupportedOn  == [h \in Handle |-> Vertex \ {x, xb}]
ApplicableOn == [h \in Handle |-> (c1 :> {wino, fused}) @@ (c2 :> {fused}) @@ (c3 :> {wino})
                                  @@ (bias :> {}) @@ (norm :> {})]

\* Handles for two devices: the Winograd kernels of h1 are w, those of h2 are x.
SupportedOnTwo == [h \in Handle |-> Vertex \ IF h = h1 THEN {x, xb} ELSE {w, wb}]

Handles == Permutations(Handle)
===============================================================================
