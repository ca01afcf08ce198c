---------------------------- MODULE MC_Capacity ----------------------------
(* Instance of CapacityPools: every job's node has the one key.             *)
EXTENDS CapacityPools, TLC

CONSTANT a
KeysOfJobs == [j \in Job |-> a]
Symmetric == Permutations(Worker) \cup Permutations(Poll)
=============================================================================
