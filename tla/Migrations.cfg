SPECIFICATION Spec
CONSTANTS
    d = d
    t = t
    c = c
    i = i
    m1 = m1
    m2 = m2
    Databases <- MCDatabases
    Tables <- MCTables
    Columns <- MCColumns
    Indexes <- MCIndexes
    Refused <- MCRefused
    In <- MCIn
    Runners <- MCRunners
    MaxSaves = 3
    MaxRuns = 2
    MaxFaults = 1
INVARIANTS TypeOK AppliedExists NothingLeftBehind
PROPERTIES FailureIsExplained DirtyStays
SYMMETRY MCSymmetry
CHECK_DEADLOCK FALSE
