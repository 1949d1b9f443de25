SPECIFICATION FairSpec
CONSTANTS
  Task = {root, a, b}
  Root = root
  Call = {c1}
  a = a
  b = b
  c1 = c1
  root = root
  MaxDepth = 2
  MaxFanout = 2
  Budget = 2
  ApprovalDepth = 0
  Runnable = {a, b}
  InitStatus = {"ready"}
  Outcome = {"review"}
  Habit = {"eager_await"}
PROPERTIES
  
  JoinTerminates
  
