SPECIFICATION Spec
CONSTANTS
    Keys = {"zoom", "users"}
    JsonKeys = {"users"}
    ReadOnly = {"zoom"}
    Lossy = {"tree", "save"}
    Good = {"x", "y"}
    Bad = {"bad"}
    NoValue = "undefined"
    MaxWrites = 1
INVARIANTS SavesOnlyOwnEdits
CHECK_DEADLOCK FALSE
