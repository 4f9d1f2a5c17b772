SPECIFICATION FairSpec
CONSTANTS
    r1 = r1
    r2 = r2
    Requests <- MCPair
    MaxAttempts = 3
    MaxExpiries = 2
INVARIANTS TypeOK SafeUntilExpiry
PROPERTIES ImplementsSlot RequestsEnd
CHECK_DEADLOCK FALSE
