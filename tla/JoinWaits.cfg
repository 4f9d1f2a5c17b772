SPECIFICATION FairSpec
CONSTANTS
    a = a
    b = b
    c = c
    Reps <- MCPair
    Boot = a
    Retries = 2
    SharedProcess = FALSE
    WipeAllowed = FALSE
    MaxRuns = 2
    MaxFaults = 0
PROPERTIES WaitingReplicaJoins
CHECK_DEADLOCK FALSE
