----------------------------- MODULE MCPlainTextDb -----------------------------
(* PlainTextDb for TLC: two processes of one thread each.                    *)
EXTENDS PlainTextDb, TLC

CONSTANTS p1, p2, a1, b1

OneThreadEach == (a1 :> p1) @@ (b1 :> p2)

\* Keys, ids and values are only compared for equality.
Symmetry == Permutations(Key) \cup Permutations(Id) \cup Permutations(Value)
=============================================================================
