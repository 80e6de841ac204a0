SPECIFICATION Spec
CONSTANTS
    x = x
    Clients = 3
    Key = {x}
    Workload <- AllKinds
    MaxHistory = 3
    Limits = {2, 3}
    Budgets = {4, 100}
INVARIANTS WitnessIsLinearization AccusationIsRight DeepestIsLongest
PROPERTIES CheckTerminates
\* Once check has answered, the program is done with the history.
CHECK_DEADLOCK FALSE
