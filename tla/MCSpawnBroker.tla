---------------------------- MODULE MCSpawnBroker ----------------------------
(* Instances of SpawnBroker for TLC. *)
EXTENDS SpawnBroker, TLC

(* Tasks other than the root, and call slots, are interchangeable. *)
Symmetry == Permutations(Task \ {Root}) \cup Permutations(Call)
=============================================================================
