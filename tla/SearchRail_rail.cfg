SPECIFICATION FairSpec
CONSTANTS
    Regions = {ra}
    NoRegion = NoRegion
    NoClick = NoClick
    NoFeature = NoFeature
    NoChip = NoChip
    NoBbox = NoBbox
    MaxClears = 1
    Chips = {cafe, fuel}
    Places = {pl, qu}
    Pin = Pin
    Marker = Marker
    NoText = NoText
    Boxes = {b1, b2}
    MaxEntries = 2
INVARIANTS ResultsOfTheChip PanelHasItsChip
  
CHECK_DEADLOCK FALSE
