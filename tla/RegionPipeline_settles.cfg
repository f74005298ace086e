SPECIFICATION FairSpec
CONSTANTS
    Regions = {r1, r2}
    NoRegion = NoRegion
    Slots = {w1}
    Clients = {c1}
    MaxJobs = 2
    MaxTasks = 3
    MaxRetry = 1
    MaxVersion = 2
    Faults <- ToolFaults
    CrashKinds <- NoCrash
    AckLost = FALSE
    OneAtATime = TRUE
PROPERTIES ProgressEnds JobsClose
