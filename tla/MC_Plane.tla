------------------------------ MODULE MC_Plane ------------------------------
(* Two attempts, two results, and keys that only their names tell apart.   *)
EXTENDS ArtifactPlane, TLC

Symmetry == Permutations(Lease) \cup Permutations(Request) \cup Permutations(Pass)

=============================================================================
