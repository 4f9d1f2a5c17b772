SPECIFICATION Spec
CONSTANTS
    ShardSize = 1
    NumShards = 2
    Services = 2
    MaxAttempts = 3
    MaxRuns = 3
    MaxFaults = 2
INVARIANTS TypeOK EndsWhole ContainersAwaited
PROPERTIES ImplementsInit RefusedAtFirst StrandedStays InitEnds
CHECK_DEADLOCK FALSE
