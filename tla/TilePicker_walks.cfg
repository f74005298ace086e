SPECIFICATION PickerSpec
CONSTANTS
    Regions = {a, b, c}
    NoRegion = NoRegion
    Boxes <- MCBoxes
    Tile <- MCTile
    Eps = 1
INVARIANTS PickerTypeOK PickIsRight LargestOverlapWins
SYMMETRY Symmetry
