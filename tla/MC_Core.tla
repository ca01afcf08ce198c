------------------------------ MODULE MC_Core ------------------------------
(* A code node, the approval of its output, and an Agent node after it. *)
EXTENDS Execution, TLC
CONSTANTS a, g, b
MCNode == {a, g, b}
MCDeps == (a :> {}) @@ (g :> {a}) @@ (b :> {g})
MCAgent == {b}
MCGate == {g}
Symmetry == Permutations(Exec)
=============================================================================
