-------------------------------- MODULE TaskSet --------------------------------
(***************************************************************************)
(* What the store of tasks promises its users, whatever files it keeps     *)
(* them in: tasks are added, each under an id that no other task has, and  *)
(* are taken away one at a time. Nothing else ever happens to the set.     *)
(***************************************************************************)
EXTENDS Naturals

CONSTANTS Birth, MaxId

VARIABLE tasks

Task == [birth : Birth, id : 1 .. MaxId]

Init == tasks = {}

Add == \E t \in Task : /\ \A u \in tasks : u.id # t.id
                       /\ tasks' = tasks \union {t}

Remove == \E t \in tasks : tasks' = tasks \ {t}

Next == Add \/ Remove

Spec == Init /\ [][Next]_tasks
=============================================================================
