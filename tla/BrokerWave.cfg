SPECIFICATION Spec
CONSTANTS
  Task = {root, a, b}
  Root = root
  Call = {c1, c2}
  a = a
  b = b
  c1 = c1
  c2 = c2
  root = root
  MaxDepth = 2
  MaxFanout = 1
  Budget = 2
  ApprovalDepth = 2
  Runnable = {a, b}
  InitStatus = {"ready", "review"}
  Outcome = {"review", "failed"}
  Habit = {"self_report", "settle_other", "root_fails", "root_stalls"}
SYMMETRY Symmetry
INVARIANTS
  FanoutReturned
  
  DepthCap

  
