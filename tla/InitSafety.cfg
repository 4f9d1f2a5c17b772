SPECIFICATION Spec
CONSTANTS
    a = a
    b = b
    c = c
    Reps <- MCPair
    Boot = a
    Retries = 2
    SharedProcess = TRUE
    WipeAllowed = TRUE
    MaxRuns = 3
    MaxFaults = 3
INVARIANTS TypeOK
PROPERTIES RerunKeepsMembers RestartRejoins LeftOutStays ImplementsGroup
CHECK_DEADLOCK FALSE
