SPECIFICATION Spec
VIEW LiveViewNoRepeats
SYMMETRY SymmetricClients
CONSTANTS
    n1 = n1
    n2 = n2
    n3 = n3
    n4 = n4
    n5 = n5
    c1 = c1
    c2 = c2
    None = None
    Node = {n1, n2, n3}
    InitialVoters = {n1, n2, n3}
    Client = {c1, c2}
    SnapshotThreshold = 0
    Campaigns <- ThreeLeaders
    MaxLogLength = 2
    Requests <- TwoClients
    MaxReads = 0
    MaxStaleness = 1
    Reads = {}
    Proposals = {}
    Crashable = {}
    Links <- AllLinks
INVARIANTS TypeOK LogMatching NoDuplicateRequest StateMachineSafety
