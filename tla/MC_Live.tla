------------------------------ MODULE MC_Live ------------------------------
(* A code node and an Agent node that do not wait for each other. *)
EXTENDS Execution, TLC
CONSTANTS a, b
MCNode == {a, b}
MCDeps == (a :> {}) @@ (b :> {})
MCAgent == {b}
=============================================================================
