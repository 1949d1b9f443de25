------------------------------- MODULE MCTaskRun -------------------------------
(* Instances of TaskRun for TLC. A budget of two seconds is shared by two  *)
(* sessions that can each fall silent before it is used up.                *)
EXTENDS TaskRun

MCCeiling == {NoCeiling, 2}
=============================================================================
