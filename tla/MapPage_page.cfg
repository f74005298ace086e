SPECIFICATION FairSpec
CONSTANTS
    ra = ra
    Regions = {ra}
    RegionOrder <- OneRegion
    NoRegion = NoRegion
    NoClick = NoClick
    NoFeature = NoFeature
    NoChip = NoChip
    NoBbox = NoBbox
    MaxClears = 0
    Tabs = {"saved"}
    IsoParams = {p1}
    MaxClicks = 2
    MaxPoints = 2
    MaxVisits = 2
    RowStates = {"none", "ready"}
    Links <- TwoLinks
INVARIANTS ToolsExclusive NoOrphanDrawing
PROPERTIES ClosedPinsStayClosed ReadyRegionShown
CHECK_DEADLOCK FALSE
