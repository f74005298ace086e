SPECIFICATION Spec
CONSTANTS
    Regions = {r1}
    NoRegion = NoRegion
    Slots = {w1, w2}
    Clients = {c1}
    MaxJobs = 2
    MaxTasks = 4
    MaxRetry = 1
    MaxVersion = 1
    Faults <- NoFaults
    CrashKinds <- SwapCrash
    AckLost = TRUE
    OneAtATime = FALSE
INVARIANTS TypeOK  TasksBacked ActiveJobUnsettled 
SYMMETRY Symmetry
