CONSTANTS
    base = base
    strict = strict
    dnspin = dnspin
    Process = {p1, p2}
    Cap = {base}
    Sandbox = {s1}
    Mode <- MCMode
    Absent = Absent
    None = None
    Pinned <- MCPinned
    MaxEdits = 2
    MaxRuns = 3
SPECIFICATION Spec

    
PROPERTIES
    QuietRepinNarrows
    UnattendedEnds
CHECK_DEADLOCK FALSE
