SPECIFICATION HistorySpec
VIEW HistoryViewNoRepeats
CONSTANTS
    n1 = n1
    n2 = n2
    n3 = n3
    n4 = n4
    n5 = n5
    c1 = c1
    c2 = c2
    None = None
    Node = {n1, n2, n3}
    InitialVoters = {n1, n2, n3}
    Client = {c1, c2}
    SnapshotThreshold = 0
    Campaigns <- TwoLeaders
    MaxLogLength = 2
    Requests <- TwoWritesOneRead
    MaxReads = 1
    MaxStaleness = 1
    Reads <- OneRead
    Proposals <- FarEndRemoved
    Crashable = {}
    Links <- Chain
INVARIANTS ConfigInv ReadsAreSound
PROPERTIES ReadsAreFresh
