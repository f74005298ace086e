SPECIFICATION Spec
CONSTANTS
    Regions = {r1}
    NoRegion = NoRegion
    Slots = {w1}
    Clients = {c1}
    MaxJobs = 3
    MaxTasks = 5
    MaxRetry = 1
    MaxVersion = 2
    Faults <- SoftFaults
    CrashKinds <- AnyCrash
    AckLost = FALSE
    OneAtATime = TRUE
INVARIANTS ReadyIsServed ChainIsSequential LiveIsWhole
PROPERTIES SucceededIsFinal WithdrawnForReplacement ReadersSeeFiles ServesWholeReleases
