SPECIFICATION Spec
SYMMETRY SymmetricServers
CONSTANTS
    s1 = s1
    s2 = s2
    c1 = c1
    c2 = c2
    None = None
    Server = {s1, s2}
    Client = {c1, c2}
    Key = {"x"}
    Operations <- AllKinds
    SnapshotThreshold = 2
    Requests <- ThreeRequests
    MaxLog = 3
INVARIANTS ReplicasAgree
PROPERTIES ImplementsAtomicStore
\* All requests may be answered and the log be full.
CHECK_DEADLOCK FALSE
