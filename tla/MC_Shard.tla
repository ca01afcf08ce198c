------------------------------ MODULE MC_Shard ------------------------------
(* A fan-out node of two shards. *)
EXTENDS Execution, TLC
CONSTANTS s
MCNode == {s}
MCDeps == s :> {}
Symmetry == Permutations(Exec) \cup Permutations(Shard)
=============================================================================
