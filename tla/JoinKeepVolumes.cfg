SPECIFICATION FairSpec
CONSTANTS
    a = a
    b = b
    c = c
    Reps <- MCReps
    Boot = a
    Retries = 2
    SharedProcess = FALSE
    WipeAllowed = FALSE
    MaxRuns = 3
    MaxFaults = 1
INVARIANTS NoSplitBrain OneLineage
PROPERTIES RunsEnd
CHECK_DEADLOCK FALSE
