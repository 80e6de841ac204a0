SPECIFICATION Spec
CONSTANTS
    Node = {1, 2, 3}
    Entry <- MCEntry
    Voters <- MCVoters
    snapshot_threshold = 2
    None = None
    MaxLog = 2
    MaxTerm <- MCMaxTerm
    MaxVersion <- MCMaxVersion
    MaxIncarnation <- MCMaxIncarnation
PROPERTIES NoFalseAlarm MissesNothingFirstSeen
CHECK_DEADLOCK FALSE
