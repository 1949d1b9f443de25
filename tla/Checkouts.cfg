SPECIFICATION Spec
CHECK_DEADLOCK FALSE
SYMMETRY MCSymmetry
CONSTANTS
  Root = {r1, r2}
  Task = {t1, t2}
  Branch = {main, topic}
  Start = main
  None = None
  MaxClones = 2
  MaxStarts = 2
  MaxMoves = 1
INVARIANTS
  TypeOK
  
  OnTarget
  ClaimsHold
  Recoverable
