SPECIFICATION FairSpec
CONSTANTS
    num_nodes = 3
    FAULT_INTERVAL = 100
    ResumeDelays = {100, 150}
    None = None
    Scenarios <- MCScenarios
    Masks <- MCMasks
INVARIANTS TypeOK EveryFaultEnds NoOrphanRecovery DeclaredOrder ResultReproduces OneMinimal EarliestStep
PROPERTIES ShrinkTerminates
CHECK_DEADLOCK FALSE
