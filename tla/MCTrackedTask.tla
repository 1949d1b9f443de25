----------------------------- MODULE MCTrackedTask -----------------------------
(* A tracker with four states: one that closes an item as done, one that   *)
(* closes it for another reason.                                           *)
EXTENDS TrackedTask

MCStatusMap ==
  [s \in Status |-> CASE s \in {"backlog", "ready"} -> "New"
                      [] s = "done" -> "Closed"
                      [] OTHER -> "Active"]

MCMaxEvents == [b \in Backend |-> IF b = "azdo" THEN 1 ELSE 0]
=============================================================================
