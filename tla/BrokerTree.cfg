SPECIFICATION Spec
CONSTANTS
  Task = {root, a}
  Root = root
  Call = {c1, c2}
  a = a
  c1 = c1
  c2 = c2
  root = root
  MaxDepth = 2
  MaxFanout = 2
  Budget = 2
  ApprovalDepth = 0
  Runnable = {root, a}
  InitStatus = {"review"}
  Outcome = {"review"}
  Habit = {"rerun", "eager_await", "open_calls"}
SYMMETRY Symmetry
INVARIANTS
  LedgerExact
  SlotsCovered
  
PROPERTIES
  BudgetKept
