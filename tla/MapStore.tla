------------------------------ MODULE MapStore ------------------------------
(***************************************************************************)
(* The two zustand stores the home page's components share:               *)
(* useMapStore (src/ui/lib/state/map.ts) and usePlaceStore                 *)
(* (src/ui/lib/state/place.ts).  A store is a record and an operation of   *)
(* it an operator from the old record to the new one, so that a component  *)
(* that calls several of them in a row composes them.                      *)
(***************************************************************************)
EXTENDS Naturals, Sequences

CONSTANTS
    Regions,     \* region keys
    NoRegion,    \* activeRegion = null
    NoClick,     \* pendingClick = null
    NoFeature,   \* selectedFeature = null
    NoChip,      \* activeCategoryChip = null
    NoBbox,      \* categorySearchBbox = null
    MaxClears    \* bound on searchClearToken

ASSUME MapStoreAssumption == NoRegion \notin Regions /\ MaxClears \in Nat

\* What the left rail can show; "search" is the collapsed rail.
LeftRailTab == {"search", "directions", "saved", "recents", "categoryResults"}

\* The fields the models read.  installedRegions maps every region to the
\* state its row has in the last list, "none" without a row.
InitialStore ==
    [activeRegion       |-> NoRegion,
     installedRegions   |-> [r \in Regions |-> "none"],
     map                |-> FALSE,
     pendingClick       |-> NoClick,
     leftRailTab        |-> "search",
     searchDropdownOpen |-> FALSE,
     searchClearToken   |-> 0,
     activeCategoryChip |-> NoChip,
     results            |-> {},
     resultsBbox        |-> NoBbox,
     selectedFeature    |-> NoFeature]

SetMap(s, m) == [s EXCEPT !.map = m]
SetActiveRegion(s, r) == [s EXCEPT !.activeRegion = r]
SetInstalledRegions(s, rows) == [s EXCEPT !.installedRegions = rows]
SetPendingClick(s, c) == [s EXCEPT !.pendingClick = c]
ClearPendingClick(s) == [s EXCEPT !.pendingClick = NoClick]
OpenLeftRail(s, tab) == [s EXCEPT !.leftRailTab = tab]
SetSearchDropdownOpen(s, open) == [s EXCEPT !.searchDropdownOpen = open]
RequestClearSearchQuery(s) ==
    [s EXCEPT !.searchClearToken = (@ + 1) % (MaxClears + 1)]
SetSelectedFeature(s, f) == [s EXCEPT !.selectedFeature = f]
ClearSelectedFeature(s) == SetSelectedFeature(s, NoFeature)

\* Mutant: the rail keeps the results tab.
CloseCategoryResults_KeepsTab(s) ==
    [s EXCEPT !.activeCategoryChip = NoChip,
              !.results = {},
              !.resultsBbox = NoBbox]

\* Chip, pins and frozen box go together; the rail folds if it showed them.
CloseCategoryResults(s) ==
    [s EXCEPT !.activeCategoryChip = NoChip,
              !.results = {},
              !.resultsBbox = NoBbox,
              !.leftRailTab = IF @ = "categoryResults" THEN "search" ELSE @]

SetCategorySearchResults(s, pois) == [s EXCEPT !.results = pois]

\* Mutant: the box is not frozen.
RunCategorySearch_NoBox(s, chip, bbox) ==
    IF s.activeCategoryChip = chip
    THEN CloseCategoryResults(s)
    ELSE [s EXCEPT !.activeCategoryChip = chip,
                   !.results = {},
                   !.leftRailTab = "categoryResults"]

\* The active chip again closes it; another chip starts over in this box.
RunCategorySearch(s, chip, bbox) ==
    IF s.activeCategoryChip = chip
    THEN CloseCategoryResults(s)
    ELSE [s EXCEPT !.activeCategoryChip = chip,
                   !.results = {},
                   !.resultsBbox = bbox,
                   !.leftRailTab = "categoryResults"]

(***************************************************************************)
(* SelectedFeatureSync: what a map click does, given the store and the     *)
(* click the effect captured.  The topmost open surface is closed; with    *)
(* none open the click becomes the selected feature, and stays pending.    *)
(***************************************************************************)
Cascade(s, click, feature) ==
    CASE s.searchDropdownOpen ->
            ClearPendingClick(SetSearchDropdownOpen(s, FALSE))
      [] ~s.searchDropdownOpen /\ s.selectedFeature # NoFeature ->
            ClearPendingClick(ClearSelectedFeature(s))
      [] ~s.searchDropdownOpen /\ s.selectedFeature = NoFeature
            /\ s.leftRailTab # "search" ->
            ClearPendingClick(OpenLeftRail(s, "search"))
      [] OTHER -> SetSelectedFeature(s, feature)
=============================================================================
