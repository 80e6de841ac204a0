SPECIFICATION Spec
VIEW LiveView
CONSTANTS
    n1 = n1
    n2 = n2
    n3 = n3
    n4 = n4
    n5 = n5
    c1 = c1
    c2 = c2
    None = None
    Node = {n1, n2, n3}
    InitialVoters = {n1, n2, n3}
    Client = {c1}
    SnapshotThreshold = 2
    Campaigns <- TwoLeaders
    MaxLogLength = 3
    Requests <- ThreeRequests
    MaxReads = 0
    MaxStaleness = 1
    Reads = {}
    Proposals = {}
    Crashable = {}
    Links <- AllLinks
PROPERTIES CommittedIsKept
