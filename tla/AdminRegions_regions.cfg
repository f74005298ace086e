SPECIFICATION FairSpec
CONSTANTS
    a = a
    b = b
    Regions = {a, b}
    Installed = {a}
    Broken = {b}
    NoRegion = NoRegion
    NoRows = NoRows
    Schedules = {"daily"}
    Faults <- AnswersLost
    MaxClicks = 2
    MaxEvents = 1
INVARIANTS PendingIsUnderWay
PROPERTIES OpensUnarmed AnswersCloseTheirDialog ListFollowsServer
