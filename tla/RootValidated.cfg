SPECIFICATION Spec
CONSTANTS
    root = root
    init = init
    sign = sign
    api = api
    making = making
    volume = volume
    one = one
    two = two
    signer = signer
    server = server
    node = node
    provisioner = provisioner
    authority = authority
    Processes <- MCProcesses
    Goroutines <- MCGoroutines
    Of <- MCOf
    Work <- MCWork
    Authority = authority
    Names <- MCNames
    NameOf <- MCNameOf
    MaxRuns = 2
    MaxCuts = 1
INVARIANTS RootValidated
SYMMETRY MCSymmetry
CHECK_DEADLOCK FALSE
