------------------------------- MODULE MCCheckouts -------------------------------
(* Instances of Checkouts for TLC.  Residents and tasks are interchangeable. *)
EXTENDS Checkouts, TLC

MCSymmetry == Permutations(Root) \cup Permutations(Task)
=============================================================================
