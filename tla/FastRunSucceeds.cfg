CONSTANTS
    Launcher = {l1}
    Before = before
    MaxPolls = 2
SPECIFICATION Spec
INVARIANTS
    FastRunSucceeds
CHECK_DEADLOCK FALSE
