------------------------------ MODULE SpawnBudget ------------------------------
(***************************************************************************)
(* What global_child_budget promises, whoever asks and in whatever order:  *)
(* a spawn is first reserved, then either becomes a child run for good or  *)
(* is cancelled, and reservations and runs together never exceed Budget.   *)
(* Nothing gives a launched run back.                                      *)
(***************************************************************************)
EXTENDS Naturals

CONSTANT Budget

VARIABLES pending, launched

vars == <<pending, launched>>

Init == pending = 0 /\ launched = 0

Reserve == /\ pending + launched < Budget
           /\ pending' = pending + 1
           /\ UNCHANGED launched

Cancel == /\ pending > 0
          /\ pending' = pending - 1
          /\ UNCHANGED launched

Launch == /\ pending > 0
          /\ pending' = pending - 1
          /\ launched' = launched + 1

Next == Reserve \/ Cancel \/ Launch

Spec == Init /\ [][Next]_vars
=============================================================================
