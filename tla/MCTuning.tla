------------------------------- MODULE MCTuning -------------------------------
(* Two processes of different versions, a direct solver with three configs   *)
(* and a Winograd solver with one.                                           *)
EXTENDS Tuning, TLC

CONSTANTS h1, h2, k1, direct, winograd, d, w, d1, d2, d3, w1, p, q

AlgoOf      == (d :> direct) @@ (w :> winograd)
SpaceOf     == (d :> {d1, d2}) @@ (w :> {w1})
SpareOf     == (d :> {d3}) @@ (w :> {})
DefaultOf   == (h1 :> ((d :> d1) @@ (w :> w1))) @@ (h2 :> ((d :> d3) @@ (w :> w1)))
ValidFor    == (h1 :> {d1, d2, w1}) @@ (h2 :> {d3, w1})
ProgramsFor == (d1 :> {p}) @@ (d2 :> {p, q}) @@ (d3 :> {q}) @@ (w1 :> {q})
BothSolvers == <<w, d>>
NoInstalled == [k \in Key |-> NothingChosen]

EnforceOf == (h1 :> {"NONE", "DB_CLEAN"}) @@ (h2 :> {"SEARCH_DB_UPDATE"})
CallsOf   == (h1 :> {"exhaustive"}) @@ (h2 :> {"find", "immediate"})
FaultsOf  == (h1 :> FaultKinds \ {"find_db"}) @@ (h2 :> {"find_db", "compile"})

===============================================================================
