SPECIFICATION FairSpec
CONSTANTS
    s0 = s0
    s1 = s1
    r1 = r1
    Shards <- MCShards
    Home = s0
    Requests <- MCOne
    MaxAttempts = 2
    MaxHandles = 4
    MaxRounds = 2
    Silent <- MCNone
INVARIANTS TypeOK NoLeak ReadyIsComplete RequestKeepsHandle
PROPERTIES ImplementsPool ConnectEnds RequestsEnd
CHECK_DEADLOCK FALSE
