SPECIFICATION FairSpec
CONSTANTS
  SecondTicks = 2
  IdleTicks = 2
  Ceiling <- MCCeiling
  Continuation = {0, 1}
  Entry = {"single", "batch", "resume", "child"}
  Verdict = {"skipped", "passed", "failed"}
  Mail = {m1}
INVARIANTS
  TypeOK
  WithinBounds
  SteeringDelivered
  ReviewMeansComplete
  
PROPERTIES
  QuestionStands
  
