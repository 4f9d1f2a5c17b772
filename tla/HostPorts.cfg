SPECIFICATION Spec
CONSTANTS
    Reps <- MCReps
    Shards <- MCShards
INVARIANTS TypeOK PortsSuffice EndpointsAgree
CHECK_DEADLOCK FALSE
