SPECIFICATION RouterSpec
CONSTANTS
    r1 = r1
    r2 = r2
    low = low
    high = high
    Regions = {r1, r2}
    MaxVersion = 1
    Tiles = {low, high}
    BasemapTiles = {low}
    Countries = {}
    Requests = {q1}
    MaxHandles = 5
    SlowBuilds = {}
    Covers <- BothCover
    ReadFaults <- AllFaults
INVARIANTS RouterTypeOK LoadedAreOpen NoHandleLeak
PROPERTIES KeepsTheRest
