SPECIFICATION Spec
CONSTANTS
    a = a
    b = b
    c = c
    Reps <- MCPair
    Boot = a
    Retries = 2
    SharedProcess = FALSE
    WipeAllowed = TRUE
    MaxRuns = 3
    MaxFaults = 0
PROPERTIES JoinExtendsCluster
CHECK_DEADLOCK FALSE
