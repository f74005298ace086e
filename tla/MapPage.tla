------------------------------- MODULE MapPage -------------------------------
(***************************************************************************)
(* The home page around its map (src/ui/app/page.tsx): who reacts to a     *)
(* click on the map, the measure and isochrone tools, the region on show,  *)
(* and what is drawn on the MapLibre canvas.  SearchRail models the search *)
(* box, which is idle here.                                                *)
(*                                                                         *)
(* A step is an event (the user, the map, the network) with everything    *)
(* React does about it: the handler writes to the stores, the page is      *)
(* rendered, and the effects whose dependencies changed run in the order   *)
(* the components stand in the page, each with the values its render saw.  *)
(***************************************************************************)
EXTENDS MapStore

CONSTANTS
    Tabs,        \* the rail tabs the user opens here, a subset of LeftRailTab
    IsoParams,   \* mode and minutes chosen in the isochrone panel
    RegionOrder, \* the region keys in alphabetical order
    MaxClicks,   \* bound on the number of map clicks
    MaxPoints,   \* bound on the points of one measurement
    MaxVisits,   \* bound on the visits to the page, returns included
    RowStates,   \* the states of a row that the list shows here
    Links        \* the links that open the page: <<region, has a viewport>>

ASSUME MapPageAssumption ==
    /\ Tabs \subseteq LeftRailTab \ {"search"}
    /\ MaxClicks \in Nat /\ MaxPoints \in Nat /\ MaxVisits \in Nat
    /\ IsoParams # {} /\ NoFeature \notin Nat
    /\ {"none", "ready"} \subseteq RowStates
    /\ Links \subseteq (Regions \cup {NoRegion}) \X BOOLEAN

VARIABLES
    store,       \* useMapStore and usePlaceStore
    tools,       \* useActiveToolStore, useMeasureStore, useIsochroneStore
    request,     \* the isochrone mutation in flight
    canvas,      \* the MapLibre instance and the refs of MainMap
    server,      \* the regions table: region -> state, "none" without a row
    clicks,      \* how many clicks the map has reported
    visits       \* how often the page was mounted
vars == <<store, tools, request, canvas, server, clicks, visits>>

NoTool    == "none"
NoOrigin  == 0
NoResult  == [origin |-> NoOrigin, params |-> "none"]
NoRequest == NoResult

\* Clicks are told apart by their number.  One number more stands for the
\* centre of the map, and for a place from the recent ones.
ToolNames == {NoTool, "measure", "isochrone"}
MapCentre == MaxClicks + 1
Recent    == MaxClicks + 1

(* ----------------------------- tool slices ----------------------------- *)

ClearedMeasure(t) ==
    [t EXCEPT !.points = <<>>, !.measuring = FALSE, !.finalised = FALSE]
ClearedIsochrone(t) ==
    [t EXCEPT !.origin = NoOrigin, !.result = NoResult,
              !.params = CHOOSE p \in IsoParams : TRUE]
StartedMeasure(t) ==
    [t EXCEPT !.points = <<>>, !.measuring = TRUE, !.finalised = FALSE]
StartedIsochrone(t) ==
    [t EXCEPT !.origin = NoOrigin, !.result = NoResult]
\* Mutant: the other tool's slice is not cleared.
Activated_KeepsOther(t, tool) ==
    [IF tool = "measure" THEN StartedMeasure(t) ELSE StartedIsochrone(t)
     EXCEPT !.active = tool]

Activated(t, tool) ==
    LET others == IF tool = "measure" THEN ClearedIsochrone(t)
                                      ELSE ClearedMeasure(t)
    IN  [IF tool = "measure" THEN StartedMeasure(others)
                             ELSE StartedIsochrone(others)
         EXCEPT !.active = tool]
AllClosed(t) ==
    [ClearedIsochrone(ClearedMeasure(t)) EXCEPT !.active = NoTool]

AddPoint(t, p) ==
    IF t.measuring /\ ~t.finalised
    THEN [t EXCEPT !.points = Append(@, p)] ELSE t
RemoveLastPoint(t) ==
    IF t.measuring /\ ~t.finalised /\ t.points # <<>>
    THEN [t EXCEPT !.points = SubSeq(@, 1, Len(@) - 1)] ELSE t
Finalise(t) ==
    [t EXCEPT !.finalised = t.points # <<>>, !.measuring = FALSE]

(* ------------------------------- effects ------------------------------- *)

Mounting == canvas.style = "none"

\* SelectedFeatureSync, with the click its render saw.
FeatureSync(s) ==
    IF /\ s.pendingClick # NoClick
       /\ Mounting \/ s.pendingClick # store.pendingClick \/ s.map # store.map
    THEN Cascade(s, s.pendingClick, s.pendingClick) ELSE s

\* MeasureTool: the click becomes a point.
MeasureTakes(s, t) ==
    /\ s.pendingClick # NoClick
    /\ t.active = "measure" /\ t.measuring /\ ~t.finalised

\* IsochroneTool: the click becomes the origin, if none is set.
IsochroneTakes(s, t) ==
    /\ s.pendingClick # NoClick
    /\ t.active = "isochrone" /\ t.origin = NoOrigin

ToolsAfter(s, t) ==
    IF MeasureTakes(s, t) THEN AddPoint(t, s.pendingClick)
    ELSE IF IsochroneTakes(s, t) THEN [t EXCEPT !.origin = s.pendingClick]
    ELSE t

\* All three effects see the click, whoever clears it.
ClickAfter(s, t) ==
    LET seen == FeatureSync(s)
    IN  IF MeasureTakes(s, t) \/ IsochroneTakes(s, t)
        THEN ClearPendingClick(seen) ELSE seen

\* MainMap: without an active region, the first ready one is selected.
ReadyRegions(s) == {r \in Regions : s.installedRegions[r] = "ready"}
FirstReady(s) ==
    RegionOrder[CHOOSE i \in 1..Len(RegionOrder) :
                  /\ RegionOrder[i] \in ReadyRegions(s)
                  /\ \A j \in 1..(i - 1) : RegionOrder[j] \notin ReadyRegions(s)]
\* Mutant: the region is chosen once, when the map is first there.
AutoSelect_AtLoad(s) ==
    IF /\ s.activeRegion = NoRegion /\ ReadyRegions(s) # {}
       /\ s.map # store.map
    THEN SetActiveRegion(s, FirstReady(s)) ELSE s

AutoSelect(s) ==
    IF s.activeRegion = NoRegion /\ ReadyRegions(s) # {}
    THEN SetActiveRegion(s, FirstReady(s)) ELSE s

\* MapCanvas: another style URL replaces the style, and what was drawn on it.
StyleSwap(c, s) ==
    IF c.style # "none" /\ s.activeRegion # store.activeRegion
    THEN [c EXCEPT !.style = "loading", !.points = <<>>, !.result = NoResult]
    ELSE c

\* MainMap: the camera frames a region once, unless the link had a viewport.
HasBbox(s, r) == r \in Regions /\ s.installedRegions[r] \in {"ready", "updating"}
Frame(c, s) ==
    IF ~s.map \/ s.activeRegion = NoRegion \/ c.fitted = s.activeRegion THEN c
    ELSE [c EXCEPT !.fitted = s.activeRegion,
                   !.framed = IF \/ c.fitted = NoRegion /\ c.hash
                                 \/ ~HasBbox(s, s.activeRegion)
                              THEN @ ELSE s.activeRegion]

\* registerLayer throws while the style is loading, and the page is lost.
Draw(c, field, what, nothing) ==
    IF what # nothing /\ c.style = "loading"
    THEN [c EXCEPT !.style = "broken"]
    ELSE [c EXCEPT ![field] = what]

\* The layer effects of MeasureTool and IsochroneTool.
DrawMeasure(c, s, t) ==
    IF /\ s.map
       /\ \/ s.map # store.map
          \/ <<t.active, t.points, t.finalised>>
                # <<tools.active, tools.points, tools.finalised>>
    THEN Draw(c, "points", IF t.active = "measure" THEN t.points ELSE <<>>, <<>>)
    ELSE c
\* Mutant: the layer effect does not look at the active tool.
DrawIsochrone_Always(c, s, t) ==
    IF /\ s.map
       /\ \/ s.map # store.map
          \/ <<t.active, t.result>> # <<tools.active, tools.result>>
    THEN Draw(c, "result", t.result, NoResult)
    ELSE c

DrawIsochrone(c, s, t) ==
    IF /\ s.map
       /\ \/ s.map # store.map
          \/ <<t.active, t.result>> # <<tools.active, tools.result>>
    THEN Draw(c, "result",
              IF t.active = "isochrone" THEN t.result ELSE NoResult, NoResult)
    ELSE c

\* The page after a handler left s and t in the stores and c on the canvas.
Render(s, t, c) ==
    LET s1 == AutoSelect(ClickAfter(s, t))
        t1 == ToolsAfter(s, t)
        c1 == Frame(StyleSwap(c, s1), s1)
    IN  /\ store' = s1
        /\ tools' = t1
        /\ canvas' = DrawIsochrone(DrawMeasure(c1, s1, t1), s1, t1)

Shown == canvas.style \in {"loading", "ready"}
RenderStore(s) == Shown /\ Render(s, tools, canvas)
RenderTools(t) == Shown /\ Render(store, t, canvas)

(* -------------------------------- the map ------------------------------- *)

\* A page opened by a link, which may name a region and a viewport.  The
\* instance is created at once; "load" comes when its style is there.
Init ==
    \E link \in Links :
        /\ store = [InitialStore EXCEPT !.activeRegion = link[1]]
        /\ tools = [active |-> NoTool, points |-> <<>>, measuring |-> FALSE,
                    finalised |-> FALSE, origin |-> NoOrigin,
                    params |-> CHOOSE p \in IsoParams : TRUE,
                    result |-> NoResult]
        /\ request = NoRequest
        /\ canvas = [style |-> "loading", points |-> <<>>, result |-> NoResult,
                     fitted |-> NoRegion, framed |-> NoRegion, hash |-> link[2]]
        /\ server \in [Regions -> {"none", "ready"}]
        /\ clicks = 0
        /\ visits = 1

ClickMap ==
    /\ clicks < MaxClicks
    /\ tools.active = "measure" => Len(tools.points) < MaxPoints
    /\ clicks' = clicks + 1
    /\ RenderStore(SetPendingClick(store, clicks + 1))
    /\ UNCHANGED <<request, server, visits>>

MapLoad ==
    /\ canvas.style = "loading" /\ ~store.map
    /\ Render(SetMap(store, TRUE), tools, [canvas EXCEPT !.style = "ready"])
    /\ UNCHANGED <<request, server, clicks, visits>>

StyleLoad ==
    /\ canvas.style = "loading" /\ store.map
    /\ canvas' = [canvas EXCEPT !.style = "ready"]
    /\ UNCHANGED <<store, tools, request, server, clicks, visits>>

\* Going to another page of the site removes the map; the stores stay, and
\* nobody is left to hear a pending answer.
Leave ==
    /\ Shown /\ visits < MaxVisits
    /\ store' = SetMap(store, FALSE)
    /\ canvas' = [canvas EXCEPT !.style = "none", !.points = <<>>,
                                !.result = NoResult, !.fitted = NoRegion,
                                !.framed = NoRegion, !.hash = FALSE]
    /\ request' = NoRequest
    /\ UNCHANGED <<tools, server, clicks, visits>>

\* Back at "/": every effect runs once, on the stores as they were left.
Return ==
    /\ Mounting
    /\ visits' = visits + 1
    /\ Render(store, tools, [canvas EXCEPT !.style = "loading"])
    /\ UNCHANGED <<request, server, clicks>>

(* ---------------------------- card and panels --------------------------- *)

\* Mutant: closing the card leaves its click pending.
CloseCard_KeepsClick ==
    /\ store.selectedFeature # NoFeature
    /\ RenderStore(ClearSelectedFeature(store))
    /\ UNCHANGED <<request, server, clicks, visits>>

CloseCard ==
    /\ store.selectedFeature # NoFeature
    /\ RenderStore(ClearPendingClick(ClearSelectedFeature(store)))
    /\ UNCHANGED <<request, server, clicks, visits>>

\* An avatar of the icon rail shows a recent place.
RecenterOnRecent ==
    /\ RenderStore(SetSelectedFeature(store, Recent))
    /\ UNCHANGED <<request, server, clicks, visits>>

OpenPanel(tab) ==
    /\ RenderStore(OpenLeftRail(store, tab))
    /\ UNCHANGED <<request, server, clicks, visits>>

ClosePanel ==
    /\ store.leftRailTab \notin {"search", "directions", "categoryResults"}
    /\ RenderStore(OpenLeftRail(RequestClearSearchQuery(
                                  CloseCategoryResults(store)), "search"))
    /\ UNCHANGED <<request, server, clicks, visits>>

(* --------------------------------- tools -------------------------------- *)

PickTool(tool) ==
    /\ RenderTools(Activated(tools, tool))
    /\ UNCHANGED <<request, server, clicks, visits>>

\* Close all, the panels' close buttons, Escape while measuring.
CloseTools ==
    /\ tools.active # NoTool
    /\ RenderTools(AllClosed(tools))
    /\ UNCHANGED <<request, server, clicks, visits>>

Backspace ==
    /\ tools.active = "measure"
    /\ RenderTools(RemoveLastPoint(tools))
    /\ UNCHANGED <<request, server, clicks, visits>>

\* Enter, anywhere on the page, or a double click on the map.
Finish ==
    /\ tools.active = "measure"
    /\ RenderTools(Finalise(tools))
    /\ UNCHANGED <<request, server, clicks, visits>>

ChooseParams(p) ==
    /\ tools.active = "isochrone"
    /\ RenderTools([tools EXCEPT !.params = p])
    /\ UNCHANGED <<request, server, clicks, visits>>

\* Render: the origin, or the centre of the map, which becomes the origin.
RequestIsochrone ==
    LET origin == IF tools.origin # NoOrigin THEN tools.origin ELSE MapCentre
    IN  /\ tools.active = "isochrone"
        /\ request = NoRequest
        /\ tools.origin # NoOrigin \/ store.map
        /\ request' = [origin |-> origin, params |-> tools.params]
        /\ RenderTools([tools EXCEPT !.origin = origin])
        /\ UNCHANGED <<server, clicks, visits>>

IsochroneAnswer ==
    /\ request # NoRequest
    /\ request' = NoRequest
    /\ RenderTools([tools EXCEPT !.result = request])
    /\ UNCHANGED <<server, clicks, visits>>

IsochroneError ==
    /\ request # NoRequest
    /\ request' = NoRequest
    /\ UNCHANGED <<store, tools, canvas, server, clicks, visits>>

ClearIsochrone ==
    /\ tools.active = "isochrone" /\ tools.result # NoResult
    /\ RenderTools([tools EXCEPT !.result = NoResult])
    /\ UNCHANGED <<request, server, clicks, visits>>

(* -------------------------------- regions ------------------------------- *)

\* The region menu offers the ready and updating rows, and "All regions".
ChooseRegion(r) ==
    /\ r = NoRegion \/ HasBbox(store, r)
    /\ RenderStore(SetActiveRegion(store, r))
    /\ UNCHANGED <<request, server, clicks, visits>>

\* The list is asked for again every 15 seconds.
PollRegions ==
    /\ RenderStore(SetInstalledRegions(store, server))
    /\ UNCHANGED <<request, server, clicks, visits>>

\* What the pipeline does to a row, as the list shows it.
ServerStep(r) ==
    \E state \in RowStates :
        /\ server[r] = "none" => state = "ready"
        /\ server' = [server EXCEPT ![r] = state]
        /\ UNCHANGED <<store, tools, request, canvas, clicks, visits>>

Next ==
    \/ ClickMap \/ MapLoad \/ StyleLoad \/ Leave \/ Return
    \/ CloseCard \/ RecenterOnRecent \/ ClosePanel
    \/ \E tab \in Tabs : OpenPanel(tab)
    \/ \E tool \in ToolNames \ {NoTool} : PickTool(tool)
    \/ CloseTools \/ Backspace \/ Finish
    \/ \E p \in IsoParams : ChooseParams(p)
    \/ RequestIsochrone \/ IsochroneAnswer \/ IsochroneError \/ ClearIsochrone
    \/ \E r \in Regions \cup {NoRegion} : ChooseRegion(r)
    \/ PollRegions
    \/ \E r \in Regions : ServerStep(r)

Spec == Init /\ [][Next]_vars

\* The browser loads styles, the poll goes on, a visitor of another page
\* need not come back.
FairSpec == Spec /\ WF_vars(MapLoad) /\ WF_vars(StyleLoad) /\ WF_vars(PollRegions)

(* ------------------------------ properties ------------------------------ *)

\* Switching and closing tools in any order leaves nothing of a tool behind:
\* the points belong to an open measure tool, the origin to an open isochrone
\* tool (setActive and closeAll in active-tool.ts clear the other slice).
ToolsExclusive ==
    /\ tools.active # "measure" =>
          tools.points = <<>> /\ ~tools.measuring /\ ~tools.finalised
    /\ tools.active # "isochrone" => tools.origin = NoOrigin

\* Whatever is drawn is what the open tool holds now: no late answer, closed
\* tool, undone point or reloaded page leaves its lines or polygons on the map
\* (the layer effects of MeasureTool and IsochroneTool).
NoOrphanDrawing ==
    /\ canvas.points # <<>> =>
          tools.active = "measure" /\ canvas.points = tools.points
    /\ canvas.result # NoResult =>
          tools.active = "isochrone" /\ canvas.result = tools.result

\* A pin that was closed stays closed: the click that dropped it is read again
\* when the map has loaded, when the page is mounted again and when a tool
\* opens, and never drops a second pin (SelectedFeatureSync, PointInfoCardHost).
ClosedPinsStayClosed ==
    [][\/ store'.selectedFeature \in {store.selectedFeature, NoFeature, Recent}
       \/ clicks' = clicks + 1 /\ store'.selectedFeature = clicks']_vars

\* With a ready region on the server the page, once shown, does not stay
\* without a region: the poll brings the row and MainMap selects it.
ReadyRegionShown ==
    (Shown /\ \E r \in Regions : server[r] = "ready")
        ~> \/ store.activeRegion # NoRegion
           \/ ~Shown
           \/ \A r \in Regions : server[r] # "ready"

=============================================================================
