CONSTANTS
    Launcher = {l1, l2}
    Before = before
    MaxPolls = 3
SPECIFICATION Spec
INVARIANTS
    TypeOK
    
PROPERTIES
    OutcomeStands
    LaunchEnds
CHECK_DEADLOCK FALSE
