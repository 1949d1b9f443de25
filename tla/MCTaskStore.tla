------------------------------ MODULE MCTaskStore ------------------------------
(* Instances of TaskStore for TLC: one process makes, folds, isolates and  *)
(* materialises tasks in the mother's checkout, another finds and deletes  *)
(* them from outside of any checkout. A command that only resolves an id   *)
(* does what one that isolates does until it is killed.                    *)
EXTENDS TaskStore, TLC

CONSTANTS m, w, maker, user

MCDoes == (maker :> {"create", "fold", "isolate"}) @@ (user :> {"find", "delete"})
MCCwd == (maker :> m) @@ (user :> None)
=============================================================================
