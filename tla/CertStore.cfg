SPECIFICATION Spec
CONSTANTS
    root = root
    init = init
    sign = sign
    api = api
    making = making
    volume = volume
    one = one
    two = two
    signer = signer
    server = server
    node = node
    provisioner = provisioner
    authority = authority
    Processes <- MCProcesses
    Goroutines <- MCGoroutines
    Of <- MCOf
    Work <- MCWork
    Authority = authority
    Names <- MCNames
    NameOf <- MCNameOf
    MaxRuns = 3
    MaxCuts = 1
INVARIANTS TypeOK LeavesVerify PairsMatch TrustedPair DeliveredPair
PROPERTIES HalfSignedStays
SYMMETRY MCSymmetry
CHECK_DEADLOCK FALSE
