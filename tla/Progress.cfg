SPECIFICATION CrashedSpec
CONSTANTS
    n1 = n1
    n2 = n2
    n3 = n3
    c1 = c1
    c2 = c2
    None = None
    Node = {n1, n2, n3}
    InitialVoters = {n1, n2, n3}
    Client = {c1, c2}
    SnapshotThreshold = 0
    Campaigns <- SecondTerm
    MaxLogLength = 4
    Requests <- OneEach
    MaxReads = 0
    MaxStaleness = 3
    Reads = {}
    Proposals = {}
    Crashable = {}
    Links <- AllLinks
PROPERTIES Progress
CHECK_DEADLOCK FALSE
