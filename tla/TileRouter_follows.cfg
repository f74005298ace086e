SPECIFICATION FairRouterSpec
CONSTANTS
    r1 = r1
    r2 = r2
    low = low
    high = high
    Regions = {r1, r2}
    MaxVersion = 2
    Tiles = {low, high}
    BasemapTiles = {low}
    Countries = {r1}
    Requests = {}
    MaxHandles = 4
    SlowBuilds = {r1}
    Covers <- BothCover
    ReadFaults <- NoFaults
PROPERTIES ReadyIsLoaded ArchivedIsReleased 
INVARIANTS ServesCurrent
