SPECIFICATION HistorySpec
VIEW HistoryView
CONSTANTS
    n1 = n1
    n2 = n2
    n3 = n3
    n4 = n4
    n5 = n5
    c1 = c1
    c2 = c2
    None = None
    Node = {n1, n2, n3}
    InitialVoters = {n1, n2, n3}
    Client = {c1}
    SnapshotThreshold = 0
    Campaigns <- Rivals
    MaxLogLength = 1
    Requests <- OneRequest
    MaxReads = 0
    MaxStaleness = 1
    Reads = {}
    Proposals = {}
    Crashable = {n1, n2, n3}
    Links <- AllLinks
INVARIANTS RolesAreEarned LogsAreLeaders AcksBindLeaders CommitsAreSettled LeaderCompleteness MatchIsHeld NoIndexError ElectionSafety TimerMatchesRole
PROPERTIES CommitQuorum VoteIsFinal
