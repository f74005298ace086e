SPECIFICATION Spec
CONSTANTS
    Views = {home, there}
    Home = home
    Regions = {}
    Places = {cafe}
    Tabs = {}
    None = None
    MaxShort = 1
INVARIANTS LinkMovesTheCamera
CHECK_DEADLOCK FALSE
