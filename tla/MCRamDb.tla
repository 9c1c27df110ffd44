-------------------------------- MODULE MCRamDb --------------------------------
(* RamDb for TLC: two processes.                                             *)
EXTENDS RamDb, TLC

\* Processes, keys, ids and values are only compared for equality.
Symmetry == Permutations(Process) \cup Permutations(Key)
            \cup Permutations(Id) \cup Permutations(Value)
=============================================================================
