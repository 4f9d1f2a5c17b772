SPECIFICATION FairSpec
CONSTANTS
    s0 = s0
    s1 = s1
    r1 = r1
    Shards <- MCShards
    Home = s0
    Requests <- MCOne
    MaxAttempts = 2
    MaxHandles = 4
    MaxRounds = 1
    Silent <- MCSilent
PROPERTIES ShardsConnectInParallel
CHECK_DEADLOCK FALSE
