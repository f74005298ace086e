---------------------------- MODULE MapPage_proofs ----------------------------
(* Proofs about MapPage: tools leave nothing behind, what is drawn is what   *)
(* the open tool holds, and a click that is read again drops no second pin.  *)
EXTENDS MapPage, TLAPS

(* ------------------------------- invariant ------------------------------- *)

StoreFields ==
    {"activeRegion", "installedRegions", "map", "pendingClick", "leftRailTab",
     "searchDropdownOpen", "searchClearToken", "activeCategoryChip", "results",
     "resultsBbox", "selectedFeature"}
ToolFields ==
    {"active", "points", "measuring", "finalised", "origin", "params", "result"}
CanvasFields == {"style", "points", "result", "fitted", "framed", "hash"}

HasFields(r, fields) == r = [f \in fields |-> r[f]]

\* The records have their fields; of their values only these matter here.
Shapes ==
    /\ HasFields(store, StoreFields) /\ store.map \in BOOLEAN
    /\ HasFields(tools, ToolFields)
    /\ HasFields(canvas, CanvasFields)

\* What ToolsExclusive says of the record of the tools.
Exclusive(t) ==
    /\ t.active # "measure" =>
          t.points = <<>> /\ t.measuring = FALSE /\ t.finalised = FALSE
    /\ t.active # "isochrone" => t.origin = NoOrigin

ToolsApart(t) == HasFields(t, ToolFields) /\ Exclusive(t)

\* Nothing is drawn on c.
Blank(c) == c.points = <<>> /\ c.result = NoResult

\* What is drawn on c is what the open tool of t holds.
Holds(c, t) ==
    /\ c.points # <<>> => t.active = "measure" /\ c.points = t.points
    /\ c.result # NoResult => t.active = "isochrone" /\ c.result = t.result

\* There is nothing to see while no style is there to draw on: the layers come
\* with the effects, after the style.
BlankWithoutStyle ==
    (canvas.style \in {"none", "loading"} \/ ~store.map) => Blank(canvas)

Inv == Shapes /\ Exclusive(tools) /\ Holds(canvas, tools) /\ BlankWithoutStyle

(* ------------------------------ the records ------------------------------- *)

LEMMA ExceptFields ==
    ASSUME NEW r, NEW fields, HasFields(r, fields), NEW f, NEW v
    PROVE  /\ HasFields([r EXCEPT ![f] = v], fields)
           /\ f \in fields => [r EXCEPT ![f] = v][f] = v
           /\ \A g \in fields \ {f} : [r EXCEPT ![f] = v][g] = r[g]
BY DEF HasFields

\* No operation of the store but SetMap touches the map.
KeepsMap(s, new) == HasFields(new, StoreFields) /\ new.map = s.map

LEMMA FieldOps ==
    ASSUME NEW s, HasFields(s, StoreFields), NEW v
    PROVE  /\ KeepsMap(s, SetActiveRegion(s, v))
           /\ KeepsMap(s, SetInstalledRegions(s, v))
           /\ KeepsMap(s, SetPendingClick(s, v))
           /\ KeepsMap(s, ClearPendingClick(s))
           /\ KeepsMap(s, OpenLeftRail(s, v))
           /\ KeepsMap(s, SetSearchDropdownOpen(s, v))
           /\ KeepsMap(s, RequestClearSearchQuery(s))
           /\ KeepsMap(s, SetSelectedFeature(s, v))
           /\ KeepsMap(s, ClearSelectedFeature(s))
           /\ HasFields(SetMap(s, v), StoreFields) /\ SetMap(s, v).map = v
<1>1. ASSUME NEW f \in StoreFields \ {"map"}, NEW w
      PROVE  KeepsMap(s, [s EXCEPT ![f] = w])
  BY ExceptFields DEF KeepsMap, StoreFields
<1>2. /\ KeepsMap(s, SetActiveRegion(s, v))
      /\ KeepsMap(s, SetInstalledRegions(s, v))
      /\ KeepsMap(s, SetPendingClick(s, v))
      /\ KeepsMap(s, ClearPendingClick(s))
      /\ KeepsMap(s, OpenLeftRail(s, v))
      /\ KeepsMap(s, SetSearchDropdownOpen(s, v))
      /\ KeepsMap(s, SetSelectedFeature(s, v))
      /\ KeepsMap(s, ClearSelectedFeature(s))
  BY <1>1 DEF SetActiveRegion, SetInstalledRegions, SetPendingClick,
     ClearPendingClick, OpenLeftRail, SetSearchDropdownOpen,
     SetSelectedFeature, ClearSelectedFeature, StoreFields
<1>3. KeepsMap(s, RequestClearSearchQuery(s))
  BY <1>1 DEF RequestClearSearchQuery, StoreFields
<1>4. HasFields(SetMap(s, v), StoreFields) /\ SetMap(s, v).map = v
  BY ExceptFields DEF SetMap, StoreFields
<1> QED BY <1>2, <1>3, <1>4

LEMMA CloseResults ==
    ASSUME NEW s, HasFields(s, StoreFields)
    PROVE  KeepsMap(s, CloseCategoryResults(s))
BY DEF CloseCategoryResults, KeepsMap, HasFields, StoreFields

LEMMA CascadeKeepsMap ==
    ASSUME NEW s, HasFields(s, StoreFields), NEW click, NEW feature
    PROVE  KeepsMap(s, Cascade(s, click, feature))
<1>1. /\ KeepsMap(s, SetSearchDropdownOpen(s, FALSE))
      /\ KeepsMap(s, ClearSelectedFeature(s))
      /\ KeepsMap(s, OpenLeftRail(s, "search"))
      /\ KeepsMap(s, SetSelectedFeature(s, feature))
  BY FieldOps
<1>2. ASSUME NEW r, KeepsMap(s, r) PROVE KeepsMap(s, ClearPendingClick(r))
  BY <1>2, FieldOps DEF KeepsMap
<1> QED BY <1>1, <1>2 DEF Cascade

(* ------------------------------- the effects ------------------------------ *)

LEMMA ClickAfterKeepsMap ==
    ASSUME NEW s, HasFields(s, StoreFields), NEW t
    PROVE  KeepsMap(s, AutoSelect(ClickAfter(s, t)))
<1>1. KeepsMap(s, FeatureSync(s))
  BY CascadeKeepsMap DEF FeatureSync, KeepsMap
<1>2. KeepsMap(s, ClickAfter(s, t))
  BY <1>1, FieldOps DEF ClickAfter, KeepsMap
<1> QED BY <1>2, FieldOps DEF AutoSelect, KeepsMap

\* A click that a tool takes is written to the slice of that tool.
LEMMA ToolsAfterApart ==
    ASSUME NEW s, NEW t, ToolsApart(t)
    PROVE  ToolsApart(ToolsAfter(s, t))
<1> DEFINE u == ToolsAfter(s, t)
<1>1. HasFields(u, ToolFields)
  BY ExceptFields DEF ToolsAfter, AddPoint, ToolsApart
<1>2. CASE MeasureTakes(s, t)
  <2>1. u.active = "measure" /\ u.origin = t.origin
    BY <1>2, ExceptFields
    DEF ToolsAfter, AddPoint, MeasureTakes, ToolsApart, ToolFields
  <2> QED BY <1>1, <1>2, <2>1 DEF ToolsApart, Exclusive, MeasureTakes
<1>3. CASE ~MeasureTakes(s, t) /\ IsochroneTakes(s, t)
  <2>1. u = [t EXCEPT !.origin = s.pendingClick] /\ t.active = "isochrone"
    BY <1>3 DEF ToolsAfter, IsochroneTakes
  <2>2. /\ u.active = t.active /\ u.points = t.points
        /\ u.measuring = t.measuring /\ u.finalised = t.finalised
    BY <2>1, ExceptFields DEF ToolsApart, ToolFields
  <2> QED BY <1>1, <2>1, <2>2 DEF ToolsApart, Exclusive
<1>4. CASE ~MeasureTakes(s, t) /\ ~IsochroneTakes(s, t)
  BY <1>4 DEF ToolsAfter
<1> QED BY <1>2, <1>3, <1>4

\* A style that is replaced takes the layers with it; framing draws nothing.
LEMMA StyleAndFrame ==
    ASSUME NEW s, NEW c, HasFields(c, CanvasFields),
           c.style = "loading" \/ ~s.map => Blank(c)
    PROVE  LET d == Frame(StyleSwap(c, s), s)
           IN  /\ HasFields(d, CanvasFields)
               /\ d.style = c.style \/ d.style = "loading"
               /\ (d.points = c.points /\ d.result = c.result) \/ Blank(d)
               /\ d.style = "loading" \/ ~s.map => Blank(d)
<1> DEFINE e == StyleSwap(c, s)
<1>1. /\ HasFields(e, CanvasFields)
      /\ e.style = c.style \/ e.style = "loading"
      /\ (e.points = c.points /\ e.result = c.result) \/ Blank(e)
      /\ e.style = "loading" \/ ~s.map => Blank(e)
  BY DEF StyleSwap, HasFields, CanvasFields, Blank
<1> HIDE DEF e
<1>2. LET d == Frame(e, s)
      IN  /\ HasFields(d, CanvasFields)
          /\ d.style = e.style /\ d.points = e.points /\ d.result = e.result
  BY <1>1 DEF Frame, HasFields, CanvasFields
<1> QED BY <1>1, <1>2 DEF Blank, e

\* The two layer effects bring the canvas in step with the tools.
LEMMA LayerEffects ==
    ASSUME NEW s, NEW t, NEW c, HasFields(c, CanvasFields),
           Holds(c, tools), store.map => s.map, s.map \in BOOLEAN,
           c.style \in {"loading", "ready"},
           c.style = "loading" \/ ~s.map => Blank(c)
    PROVE  LET d == DrawIsochrone(DrawMeasure(c, s, t), s, t)
           IN  /\ HasFields(d, CanvasFields)
               /\ Holds(d, t)
               /\ d.style \in {"none", "loading"} \/ ~s.map => Blank(d)
<1> DEFINE what  == IF t.active = "measure" THEN t.points ELSE <<>>
           zone  == IF t.active = "isochrone" THEN t.result ELSE NoResult
           e     == DrawMeasure(c, s, t)
           d     == DrawIsochrone(e, s, t)
<1>1. /\ HasFields(e, CanvasFields)
      /\ e.points \in {c.points, what} /\ e.result = c.result
      /\ e.points # <<>> => t.active = "measure" /\ e.points = t.points
      /\ e.style \in {c.style, "broken"}
      /\ e.style = "loading" \/ ~s.map => e.points = <<>>
      /\ e.style = "broken" => Blank(c)
  <2>1. CASE ~s.map
    BY <2>1 DEF DrawMeasure, Blank
  <2>2. CASE s.map /\ c.style = "loading" /\ e # c
    BY <2>2 DEF DrawMeasure, Draw, Blank, HasFields, CanvasFields
  <2>3. CASE s.map /\ c.style = "ready" /\ e # c
    BY <2>3 DEF DrawMeasure, Draw, HasFields, CanvasFields
  <2>4. CASE s.map /\ e = c
    <3>1. CASE <<t.active, t.points, t.finalised>>
                  = <<tools.active, tools.points, tools.finalised>>
      BY <2>4, <3>1 DEF Holds, Blank
    <3>2. CASE <<t.active, t.points, t.finalised>>
                  # <<tools.active, tools.points, tools.finalised>>
      BY <2>4, <3>2 DEF DrawMeasure, Draw, Blank, HasFields, CanvasFields
    <3> QED BY <3>1, <3>2
  <2> QED BY <2>1, <2>2, <2>3, <2>4
<1> HIDE DEF e
<1>2. /\ HasFields(d, CanvasFields)
      /\ d.points = e.points
      /\ d.result # NoResult => t.active = "isochrone" /\ d.result = t.result
      /\ d.style \in {e.style, "broken"}
      /\ d.style = "loading" \/ ~s.map => d.result = NoResult
  <2>1. CASE ~s.map
    BY <1>1, <2>1 DEF DrawIsochrone, Blank
  <2>2. CASE s.map /\ <<t.active, t.result>> = <<tools.active, tools.result>>
                   /\ s.map = store.map
    BY <1>1, <2>2 DEF DrawIsochrone, Holds, Blank
  <2>3. CASE s.map /\ (\/ <<t.active, t.result>> # <<tools.active, tools.result>>
                       \/ s.map # store.map)
    <3>1. d = Draw(e, "result", zone, NoResult)
      BY <2>3 DEF DrawIsochrone
    <3>2. CASE zone # NoResult /\ e.style = "loading"
      BY <1>1, <2>3, <3>1, <3>2 DEF Draw, HasFields, CanvasFields, Blank
    <3>3. CASE zone = NoResult \/ e.style # "loading"
      BY <1>1, <2>3, <3>1, <3>3 DEF Draw, HasFields, CanvasFields
    <3> QED BY <3>2, <3>3
  <2> QED BY <1>1, <2>1, <2>2, <2>3
<1> QED BY <1>1, <1>2 DEF Holds, Blank, e

\* The page is rendered after a handler that kept the tools apart.
LEMMA RenderInv ==
    ASSUME Inv, NEW s, NEW t, NEW c,
           HasFields(s, StoreFields), s.map \in BOOLEAN, store.map => s.map,
           ToolsApart(t),
           HasFields(c, CanvasFields), c.points = canvas.points,
           c.result = canvas.result, c.style \in {"loading", "ready"},
           c.style = "loading" \/ ~s.map => Blank(canvas),
           Render(s, t, c)
    PROVE  Inv'
<1> DEFINE s1 == AutoSelect(ClickAfter(s, t))
           t1 == ToolsAfter(s, t)
           c1 == Frame(StyleSwap(c, s1), s1)
           d  == DrawIsochrone(DrawMeasure(c1, s1, t1), s1, t1)
<1>1. store' = s1 /\ tools' = t1 /\ canvas' = d
  BY DEF Render
<1>2. HasFields(s1, StoreFields) /\ s1.map = s.map
  BY ClickAfterKeepsMap DEF KeepsMap
<1>3. HasFields(t1, ToolFields) /\ Exclusive(t1)
  BY ToolsAfterApart DEF ToolsApart
<1> HIDE DEF s1, t1
<1>4. c.style = "loading" \/ ~s1.map => Blank(c)
  BY <1>2 DEF Blank
<1>5. /\ HasFields(c1, CanvasFields)
      /\ c1.style \in {"loading", "ready"}
      /\ (c1.points = c.points /\ c1.result = c.result) \/ Blank(c1)
      /\ c1.style = "loading" \/ ~s1.map => Blank(c1)
  BY <1>4, StyleAndFrame
<1> HIDE DEF c1
<1>6. Holds(c1, tools)
  BY <1>5 DEF Inv, Holds, Blank
<1>7. /\ HasFields(d, CanvasFields)
      /\ Holds(d, t1)
      /\ d.style \in {"none", "loading"} \/ ~s1.map => Blank(d)
  BY <1>2, <1>5, <1>6, LayerEffects
<1> HIDE DEF d
<1>8. Shapes'
  BY <1>1, <1>2, <1>3, <1>7 DEF Shapes
<1>9. BlankWithoutStyle'
  BY <1>1, <1>7 DEF BlankWithoutStyle, Blank
<1> QED BY <1>1, <1>3, <1>7, <1>8, <1>9 DEF Inv

(* --------------------------------- steps ---------------------------------- *)

LEMMA RenderStoreInv ==
    ASSUME Inv, NEW s, KeepsMap(store, s), RenderStore(s)
    PROVE  Inv'
<1>1. ToolsApart(tools)
  BY DEF Inv, Shapes, ToolsApart
<1>2. canvas.style = "loading" \/ ~s.map => Blank(canvas)
  BY DEF Inv, BlankWithoutStyle, KeepsMap
<1> QED
  BY <1>1, <1>2, RenderInv DEF Inv, Shapes, KeepsMap, RenderStore, Shown

LEMMA RenderToolsInv ==
    ASSUME Inv, NEW t, ToolsApart(t), RenderTools(t)
    PROVE  Inv'
<1>1. canvas.style = "loading" \/ ~store.map => Blank(canvas)
  BY DEF Inv, BlankWithoutStyle
<1> QED BY <1>1, RenderInv DEF Inv, Shapes, RenderTools, Shown

LEMMA InitInv == Init => Inv
<1> SUFFICES ASSUME Init PROVE Inv
  OBVIOUS
<1> PICK link \in Links : Init!(link)
  BY DEF Init
<1>1. HasFields(store, StoreFields) /\ store.map = FALSE
  BY DEF InitialStore, HasFields, StoreFields
<1>2. HasFields(tools, ToolFields) /\ Exclusive(tools)
  BY DEF HasFields, ToolFields, Exclusive
<1>3. HasFields(canvas, CanvasFields) /\ Blank(canvas)
  BY DEF HasFields, CanvasFields, Blank
<1> QED
  BY <1>1, <1>2, <1>3
  DEF Inv, Shapes, BlankWithoutStyle, Holds, Blank

LEMMA ClickStep ==
    ASSUME Inv,
           \/ ClickMap \/ CloseCard \/ RecenterOnRecent \/ ClosePanel
           \/ PollRegions \/ \E tab \in Tabs : OpenPanel(tab)
           \/ \E r \in Regions \cup {NoRegion} : ChooseRegion(r)
    PROVE  Inv'
<1>1. HasFields(store, StoreFields)
  BY DEF Inv, Shapes
<1>2. \A v : /\ KeepsMap(store, SetPendingClick(store, v))
             /\ KeepsMap(store, SetSelectedFeature(store, v))
             /\ KeepsMap(store, OpenLeftRail(store, v))
             /\ KeepsMap(store, SetActiveRegion(store, v))
             /\ KeepsMap(store, SetInstalledRegions(store, v))
  BY <1>1, FieldOps
<1>3. KeepsMap(store, ClearPendingClick(ClearSelectedFeature(store)))
  BY <1>1, FieldOps DEF KeepsMap
<1>4. KeepsMap(store, OpenLeftRail(RequestClearSearchQuery(
                          CloseCategoryResults(store)), "search"))
  <2> DEFINE a == CloseCategoryResults(store)
             b == RequestClearSearchQuery(a)
  <2>1. KeepsMap(store, a)
    BY <1>1, CloseResults
  <2> HIDE DEF a
  <2>2. KeepsMap(store, b)
    BY <2>1, FieldOps DEF KeepsMap
  <2> HIDE DEF b
  <2>3. KeepsMap(store, OpenLeftRail(b, "search"))
    BY <2>2, FieldOps DEF KeepsMap
  <2> QED BY <2>3 DEF a, b
<1>5. PICK s : KeepsMap(store, s) /\ RenderStore(s)
  BY <1>2, <1>3, <1>4 DEF ClickMap, CloseCard, RecenterOnRecent, ClosePanel,
     PollRegions, OpenPanel, ChooseRegion
<1> QED BY <1>5, RenderStoreInv

LEMMA MapStep ==
    ASSUME Inv, MapLoad \/ StyleLoad \/ Leave \/ Return
    PROVE  Inv'
<1>1. CASE MapLoad
  <2> DEFINE c == [canvas EXCEPT !.style = "ready"]
  <2>1. HasFields(c, CanvasFields) /\ c.points = canvas.points
                                   /\ c.result = canvas.result /\ c.style = "ready"
    BY ExceptFields DEF Inv, Shapes, CanvasFields
  <2>2. HasFields(SetMap(store, TRUE), StoreFields) /\ SetMap(store, TRUE).map = TRUE
    BY FieldOps DEF Inv, Shapes
  <2>3. ToolsApart(tools)
    BY DEF Inv, Shapes, ToolsApart
  <2>4. Render(SetMap(store, TRUE), tools, c)
    BY <1>1 DEF MapLoad
  <2> HIDE DEF c
  <2> QED BY <2>1, <2>2, <2>3, <2>4, RenderInv
<1>2. CASE StyleLoad
  <2> DEFINE c == [canvas EXCEPT !.style = "ready"]
  <2>0. HasFields(c, CanvasFields) /\ c.points = canvas.points
                                   /\ c.result = canvas.result
    BY ExceptFields DEF Inv, Shapes, CanvasFields
  <2>1. HasFields(canvas', CanvasFields) /\ canvas'.points = canvas.points
                                         /\ canvas'.result = canvas.result
    BY <1>2, <2>0 DEF StyleLoad
  <2>2. Blank(canvas')
    BY <1>2, <2>1 DEF StyleLoad, Inv, BlankWithoutStyle, Blank
  <2>3. Shapes' /\ Exclusive(tools')
    BY <1>2, <2>1 DEF StyleLoad, Inv, Shapes
  <2> QED BY <2>2, <2>3 DEF Inv, BlankWithoutStyle, Blank, Holds
<1>3. CASE Leave
  <2>1. HasFields(canvas', CanvasFields) /\ Blank(canvas')
    BY <1>3 DEF Leave, Inv, Shapes, HasFields, CanvasFields, Blank
  <2>2. HasFields(store', StoreFields) /\ store'.map = FALSE
    BY <1>3, FieldOps DEF Leave, Inv, Shapes
  <2> QED
    BY <1>3, <2>1, <2>2
    DEF Leave, Inv, Shapes, BlankWithoutStyle, Blank, Holds
<1>4. CASE Return
  <2> DEFINE c == [canvas EXCEPT !.style = "loading"]
  <2>1. HasFields(c, CanvasFields) /\ c.points = canvas.points
                                   /\ c.result = canvas.result /\ c.style = "loading"
    BY ExceptFields DEF Inv, Shapes, CanvasFields
  <2>2. Blank(canvas)
    BY <1>4 DEF Return, Mounting, Inv, BlankWithoutStyle
  <2>3. ToolsApart(tools)
    BY DEF Inv, Shapes, ToolsApart
  <2>4. Render(store, tools, c)
    BY <1>4 DEF Return
  <2>5. HasFields(store, StoreFields) /\ store.map \in BOOLEAN
    BY DEF Inv, Shapes
  <2> HIDE DEF c
  <2> QED BY <2>1, <2>2, <2>3, <2>4, <2>5, RenderInv
<1> QED BY <1>1, <1>2, <1>3, <1>4

\* Opening a tool clears the slice of the other, closing clears both, and the
\* rest writes to the slice of the open tool or to the result.
LEMMA ToolOps ==
    ASSUME NEW t, ToolsApart(t)
    PROVE  /\ \A tool \in ToolNames \ {NoTool} : ToolsApart(Activated(t, tool))
           /\ ToolsApart(AllClosed(t))
           /\ t.active = "measure" =>
                ToolsApart(RemoveLastPoint(t)) /\ ToolsApart(Finalise(t))
<1>1. ASSUME NEW u, HasFields(u, ToolFields)
      PROVE  /\ HasFields(ClearedMeasure(u), ToolFields)
             /\ HasFields(ClearedIsochrone(u), ToolFields)
             /\ HasFields(StartedMeasure(u), ToolFields)
             /\ HasFields(StartedIsochrone(u), ToolFields)
  <2>1. HasFields(ClearedMeasure(u), ToolFields)
    BY <1>1, ExceptFields DEF ClearedMeasure
  <2>2. HasFields(ClearedIsochrone(u), ToolFields)
    BY <1>1, ExceptFields DEF ClearedIsochrone
  <2>3. HasFields(StartedMeasure(u), ToolFields)
    BY <1>1, ExceptFields DEF StartedMeasure
  <2>4. HasFields(StartedIsochrone(u), ToolFields)
    BY <1>1, ExceptFields DEF StartedIsochrone
  <2> QED BY <2>1, <2>2, <2>3, <2>4
<1>2. ToolsApart(AllClosed(t))
  <2>1. HasFields(AllClosed(t), ToolFields)
    BY <1>1, ExceptFields DEF AllClosed, ToolsApart
  <2>2. Exclusive(AllClosed(t))
    BY DEF AllClosed, ClearedIsochrone, ClearedMeasure, ToolsApart, Exclusive,
       HasFields, ToolFields, NoTool
  <2> QED BY <2>1, <2>2 DEF ToolsApart
<1>3. ToolsApart(Activated(t, "measure"))
  <2>1. HasFields(Activated(t, "measure"), ToolFields)
    BY <1>1, ExceptFields DEF Activated, ToolsApart
  <2>2. Exclusive(Activated(t, "measure"))
    BY DEF Activated, ClearedIsochrone, StartedMeasure, ToolsApart, Exclusive,
       HasFields, ToolFields
  <2> QED BY <2>1, <2>2 DEF ToolsApart
<1>4. ToolsApart(Activated(t, "isochrone"))
  <2>1. HasFields(Activated(t, "isochrone"), ToolFields)
    BY <1>1, ExceptFields DEF Activated, ToolsApart
  <2>2. Exclusive(Activated(t, "isochrone"))
    BY DEF Activated, ClearedMeasure, StartedIsochrone, ToolsApart, Exclusive,
       HasFields, ToolFields
  <2> QED BY <2>1, <2>2 DEF ToolsApart
<1>5. ASSUME t.active = "measure" PROVE ToolsApart(RemoveLastPoint(t))
  <2>1. HasFields(RemoveLastPoint(t), ToolFields)
    BY ExceptFields DEF ToolsApart, RemoveLastPoint
  <2>2. Exclusive(RemoveLastPoint(t))
    BY <1>5 DEF RemoveLastPoint, ToolsApart, Exclusive, HasFields, ToolFields
  <2> QED BY <2>1, <2>2 DEF ToolsApart
<1>6. ASSUME t.active = "measure" PROVE ToolsApart(Finalise(t))
  <2>1. HasFields(Finalise(t), ToolFields)
    BY ExceptFields DEF ToolsApart, Finalise
  <2>2. Exclusive(Finalise(t))
    BY <1>6 DEF Finalise, ToolsApart, Exclusive, HasFields, ToolFields
  <2> QED BY <2>1, <2>2 DEF ToolsApart
<1> QED BY <1>2, <1>3, <1>4, <1>5, <1>6 DEF ToolNames, NoTool

\* Parameters and results belong to no tool; the origin to an open isochrone.
LEMMA FieldsOfTools ==
    ASSUME NEW t, ToolsApart(t), NEW f \in {"params", "result", "origin"}, NEW v,
           f = "origin" => t.active = "isochrone"
    PROVE  ToolsApart([t EXCEPT ![f] = v])
<1>1. HasFields([t EXCEPT ![f] = v], ToolFields)
  BY ExceptFields DEF ToolsApart
<1>2. Exclusive([t EXCEPT ![f] = v])
  BY ExceptFields DEF ToolsApart, Exclusive, ToolFields
<1> QED BY <1>1, <1>2 DEF ToolsApart

LEMMA ToolStep ==
    ASSUME Inv,
           \/ \E tool \in ToolNames \ {NoTool} : PickTool(tool)
           \/ CloseTools \/ Backspace \/ Finish
           \/ \E p \in IsoParams : ChooseParams(p)
           \/ RequestIsochrone \/ IsochroneAnswer \/ ClearIsochrone
    PROVE  Inv'
<1>1. ToolsApart(tools)
  BY DEF Inv, Shapes, ToolsApart
<1>2. \A v : /\ ToolsApart([tools EXCEPT !.params = v])
             /\ ToolsApart([tools EXCEPT !.result = v])
  BY <1>1, FieldsOfTools
<1>3. tools.active = "isochrone" => \A v : ToolsApart([tools EXCEPT !.origin = v])
  BY <1>1, FieldsOfTools
<1>4. PICK t : ToolsApart(t) /\ RenderTools(t)
  <2>1. CASE \E tool \in ToolNames \ {NoTool} : PickTool(tool)
    BY <1>1, <2>1, ToolOps DEF PickTool
  <2>2. CASE CloseTools
    BY <1>1, <2>2, ToolOps DEF CloseTools
  <2>3. CASE Backspace \/ Finish
    BY <1>1, <2>3, ToolOps DEF Backspace, Finish
  <2>4. CASE \E p \in IsoParams : ChooseParams(p)
    BY <1>2, <2>4 DEF ChooseParams
  <2>5. CASE RequestIsochrone
    BY <1>3, <2>5 DEF RequestIsochrone
  <2>6. CASE IsochroneAnswer \/ ClearIsochrone
    BY <1>2, <2>6 DEF IsochroneAnswer, ClearIsochrone
  <2> QED BY <2>1, <2>2, <2>3, <2>4, <2>5, <2>6
<1> QED BY <1>4, RenderToolsInv

LEMMA NextInv == Inv /\ [Next]_vars => Inv'
<1> SUFFICES ASSUME Inv, [Next]_vars PROVE Inv'
  OBVIOUS
<1>1. CASE UNCHANGED <<store, tools, canvas>>
  BY <1>1 DEF Inv, Shapes, BlankWithoutStyle, Blank
<1>2. UNCHANGED vars \/ IsochroneError \/ (\E r \in Regions : ServerStep(r))
        => UNCHANGED <<store, tools, canvas>>
  BY DEF vars, IsochroneError, ServerStep
<1> QED BY <1>1, <1>2, ClickStep, MapStep, ToolStep DEF Next

(* -------------------------------- theorems -------------------------------- *)

\* Switching and closing tools, with clicks, answers and visits in any order,
\* leaves nothing in the slice of a tool that is not open.
THEOREM ToolsAreExclusive == Spec => []ToolsExclusive
<1>1. Inv => ToolsExclusive
  BY DEF Inv, Exclusive, ToolsExclusive
<1> QED BY InitInv, NextInv, <1>1, PTL DEF Spec

\* Whatever is drawn on the map is what the open tool holds now, however late
\* an answer comes and however often the style is replaced.
THEOREM NothingOrphaned == Spec => []NoOrphanDrawing
<1>1. Inv => NoOrphanDrawing
  BY DEF Inv, Holds, NoOrphanDrawing
<1> QED BY InitInv, NextInv, <1>1, PTL DEF Spec

(* ----------------------------------- pins --------------------------------- *)

\* A click that is still pending has its pin on show: what is read again
\* closes a pin and drops none.
PinKept(s) == s.pendingClick # NoClick => s.selectedFeature # NoFeature

\* Clicks are numbered as they come, so a new one is not the pending one.
PinInv ==
    /\ Inv
    /\ clicks \in Nat
    /\ PinKept(store)
    /\ store.pendingClick # NoClick => store.pendingClick \in 1..clicks

\* The pending click and the pin of s as new has them.
SamePin(s, new) ==
    /\ HasFields(new, StoreFields)
    /\ new.pendingClick = s.pendingClick
    /\ new.selectedFeature = s.selectedFeature

LEMMA PinOps ==
    ASSUME NEW s, HasFields(s, StoreFields), NEW v
    PROVE  /\ SamePin(s, SetMap(s, v))
           /\ SamePin(s, SetActiveRegion(s, v))
           /\ SamePin(s, SetInstalledRegions(s, v))
           /\ SamePin(s, OpenLeftRail(s, v))
           /\ SamePin(s, SetSearchDropdownOpen(s, v))
           /\ SamePin(s, RequestClearSearchQuery(s))
<1>1. \A f \in {"map", "activeRegion", "installedRegions", "leftRailTab",
                "searchDropdownOpen", "searchClearToken"} :
        \A w : SamePin(s, [s EXCEPT ![f] = w])
  BY ExceptFields DEF SamePin, StoreFields
<1> QED
  BY <1>1 DEF SetMap, SetActiveRegion, SetInstalledRegions, OpenLeftRail,
     SetSearchDropdownOpen, RequestClearSearchQuery

\* The operations that do change them.
LEMMA PinChanges ==
    ASSUME NEW s, HasFields(s, StoreFields), NEW v
    PROVE  /\ HasFields(SetPendingClick(s, v), StoreFields)
           /\ SetPendingClick(s, v).pendingClick = v
           /\ SetPendingClick(s, v).selectedFeature = s.selectedFeature
           /\ SetPendingClick(s, v).map = s.map
           /\ HasFields(ClearPendingClick(s), StoreFields)
           /\ ClearPendingClick(s).pendingClick = NoClick
           /\ ClearPendingClick(s).selectedFeature = s.selectedFeature
           /\ HasFields(SetSelectedFeature(s, v), StoreFields)
           /\ SetSelectedFeature(s, v).selectedFeature = v
           /\ SetSelectedFeature(s, v).pendingClick = s.pendingClick
<1>1. /\ HasFields(SetPendingClick(s, v), StoreFields)
      /\ SetPendingClick(s, v).pendingClick = v
      /\ SetPendingClick(s, v).selectedFeature = s.selectedFeature
      /\ SetPendingClick(s, v).map = s.map
  BY ExceptFields DEF SetPendingClick, StoreFields
<1>2. /\ HasFields(ClearPendingClick(s), StoreFields)
      /\ ClearPendingClick(s).pendingClick = NoClick
      /\ ClearPendingClick(s).selectedFeature = s.selectedFeature
  BY ExceptFields DEF ClearPendingClick, StoreFields
<1>3. /\ HasFields(SetSelectedFeature(s, v), StoreFields)
      /\ SetSelectedFeature(s, v).selectedFeature = v
      /\ SetSelectedFeature(s, v).pendingClick = s.pendingClick
  BY ExceptFields DEF SetSelectedFeature, StoreFields
<1> QED BY <1>1, <1>2, <1>3

\* Whether SelectedFeatureSync has a click to read.
ReadsClick(s) ==
    /\ s.pendingClick # NoClick
    /\ Mounting \/ s.pendingClick # store.pendingClick \/ s.map # store.map

\* What reading a click does: with a pin on show no pin is dropped and the
\* click is used up; without one, a panel is closed and the click used up, or
\* the click is the pin.
Reading(s, new) ==
    \/ /\ new.selectedFeature \in {s.selectedFeature, NoFeature}
       /\ new.pendingClick = NoClick
    \/ /\ s.selectedFeature = NoFeature
       /\ new.selectedFeature = s.pendingClick
       /\ new.pendingClick \in {s.pendingClick, NoClick}

NotReading(s, new) ==
    /\ new.selectedFeature = s.selectedFeature
    /\ new.pendingClick \in {s.pendingClick, NoClick}

LEMMA CascadePins ==
    ASSUME NEW s, HasFields(s, StoreFields)
    PROVE  LET new == Cascade(s, s.pendingClick, s.pendingClick)
           IN  HasFields(new, StoreFields) /\ Reading(s, new)
<1> DEFINE new == Cascade(s, s.pendingClick, s.pendingClick)
<1>1. CASE s.searchDropdownOpen
  <2> DEFINE folded == SetSearchDropdownOpen(s, FALSE)
  <2>1. SamePin(s, folded)
    BY PinOps
  <2>2. new = ClearPendingClick(folded)
    BY <1>1 DEF Cascade
  <2> HIDE DEF folded, new
  <2>3. HasFields(new, StoreFields) /\ Reading(s, new)
    BY <2>1, <2>2, PinChanges DEF SamePin, Reading
  <2> QED BY <2>3 DEF new
<1>2. CASE ~s.searchDropdownOpen /\ s.selectedFeature # NoFeature
  BY <1>2, PinChanges DEF Cascade, Reading, ClearSelectedFeature
<1>3. CASE /\ ~s.searchDropdownOpen /\ s.selectedFeature = NoFeature
           /\ s.leftRailTab # "search"
  BY <1>3, PinOps, PinChanges DEF Cascade, Reading, SamePin
<1>4. CASE /\ ~s.searchDropdownOpen /\ s.selectedFeature = NoFeature
           /\ s.leftRailTab = "search"
  BY <1>4, PinChanges DEF Cascade, Reading
<1> QED BY <1>1, <1>2, <1>3, <1>4

\* The three effects that see the click, and the choice of a region.
LEMMA ClickAfterPins ==
    ASSUME NEW s, HasFields(s, StoreFields), NEW t
    PROVE  LET new == AutoSelect(ClickAfter(s, t))
           IN  /\ ReadsClick(s) => Reading(s, new)
               /\ ~ReadsClick(s) => NotReading(s, new)
<1> DEFINE seen == FeatureSync(s)
           used == ClickAfter(s, t)
<1>1. /\ HasFields(seen, StoreFields)
      /\ ReadsClick(s) => Reading(s, seen)
      /\ ~ReadsClick(s) => seen = s
  BY CascadePins DEF FeatureSync, ReadsClick
<1>2. used \in {seen, ClearPendingClick(seen)}
  BY DEF ClickAfter
<1> HIDE DEF seen, used
<1>3. /\ HasFields(used, StoreFields)
      /\ used.selectedFeature = seen.selectedFeature
      /\ used.pendingClick \in {seen.pendingClick, NoClick}
  BY <1>1, <1>2, PinChanges
<1>4. SamePin(used, AutoSelect(used))
  BY <1>3, PinOps DEF AutoSelect, SamePin
<1>5. ReadsClick(s) => Reading(s, AutoSelect(used))
  BY <1>1, <1>3, <1>4 DEF Reading, SamePin
<1>6. ~ReadsClick(s) => NotReading(s, AutoSelect(used))
  BY <1>1, <1>3, <1>4 DEF NotReading, SamePin
<1> QED BY <1>5, <1>6 DEF used

\* What a step does to the pins, as the property asks.
PinStep ==
    \/ store'.selectedFeature \in {store.selectedFeature, NoFeature, Recent}
    \/ clicks' = clicks + 1 /\ store'.selectedFeature = clicks'

\* A handler other than that of a click leaves the pending click or clears it,
\* and leaves the pin, shows a recent place or closes the pin with its click.
Handles(s) ==
    /\ HasFields(s, StoreFields)
    /\ s.pendingClick \in {store.pendingClick, NoClick}
    /\ s.selectedFeature \in {store.selectedFeature, NoFeature, Recent}
    /\ PinKept(s)

LEMMA HandledPins ==
    ASSUME PinInv, NEW s, NEW t, NEW c, Handles(s), Render(s, t, c), Inv',
           clicks' = clicks
    PROVE  PinInv' /\ PinStep
<1> DEFINE new == AutoSelect(ClickAfter(s, t))
<1>1. store' = new
  BY DEF Render
<1>2. /\ ReadsClick(s) => Reading(s, new)
      /\ ~ReadsClick(s) => NotReading(s, new)
  BY ClickAfterPins DEF Handles
<1> HIDE DEF new
<1>3. ReadsClick(s) => s.selectedFeature # NoFeature
  BY DEF ReadsClick, Handles, PinKept
<1>4. /\ new.selectedFeature \in {s.selectedFeature, NoFeature}
      /\ new.pendingClick \in {s.pendingClick, NoClick}
      /\ PinKept(new)
  BY <1>2, <1>3 DEF Reading, NotReading, Handles, PinKept
<1>5. PinStep
  BY <1>1, <1>4 DEF PinStep, Handles
<1>6. PinKept(store')
  BY <1>1, <1>4
<1>7. store'.pendingClick # NoClick => store'.pendingClick \in 1..clicks'
  BY <1>1, <1>4 DEF Handles, PinInv
<1>8. PinKept(store)'
  BY <1>6 DEF PinKept
<1> QED BY <1>5, <1>7, <1>8 DEF PinInv

\* The click of a map: read if it is new, which it is.
LEMMA ClickPins ==
    ASSUME PinInv, ClickMap, Inv'
    PROVE  PinInv' /\ PinStep
<1> DEFINE s == SetPendingClick(store, clicks + 1)
           new == AutoSelect(ClickAfter(s, tools))
<1>1. store' = new /\ clicks' = clicks + 1 /\ clicks \in Nat
  BY DEF ClickMap, RenderStore, Render, PinInv
<1>2. HasFields(store, StoreFields)
  BY DEF PinInv, Inv, Shapes
<1>3. /\ HasFields(s, StoreFields)
      /\ s.pendingClick = clicks + 1
      /\ s.selectedFeature = store.selectedFeature
  BY <1>2, PinChanges
<1> HIDE DEF s
<1>4. /\ ReadsClick(s) => Reading(s, new)
      /\ ~ReadsClick(s) => NotReading(s, new)
  BY <1>3, ClickAfterPins
<1> HIDE DEF new
<1>5. clicks + 1 # NoClick => s.pendingClick # store.pendingClick
  BY <1>1, <1>3 DEF PinInv
<1>6. ~ReadsClick(s) => s.pendingClick = NoClick
  BY <1>3, <1>5 DEF ReadsClick
<1>7. clicks + 1 # NoFeature
  BY <1>1, MapPageAssumption
<1>8. PinKept(new)
  BY <1>3, <1>4, <1>6, <1>7 DEF Reading, NotReading, PinKept
<1>9. /\ new.selectedFeature \in {store.selectedFeature, NoFeature, clicks + 1}
      /\ new.pendingClick \in {clicks + 1, NoClick}
  BY <1>3, <1>4 DEF Reading, NotReading
<1>10. PinKept(store)'
  BY <1>1, <1>8 DEF PinKept
<1>11. PinStep
  BY <1>1, <1>9 DEF PinStep
<1>12. clicks' \in Nat /\ (store'.pendingClick # NoClick
                             => store'.pendingClick \in 1..clicks')
  BY <1>1, <1>9
<1> QED BY <1>10, <1>11, <1>12 DEF PinInv

LEMMA StorePins ==
    ASSUME PinInv, Inv',
           \/ CloseCard \/ RecenterOnRecent \/ ClosePanel
           \/ PollRegions \/ \E tab \in Tabs : OpenPanel(tab)
           \/ \E r \in Regions \cup {NoRegion} : ChooseRegion(r)
    PROVE  PinInv' /\ PinStep
<1>0. HasFields(store, StoreFields) /\ PinKept(store)
  BY DEF PinInv, Inv, Shapes
<1>1. clicks' = clicks
  BY DEF CloseCard, RecenterOnRecent, ClosePanel, PollRegions, OpenPanel, ChooseRegion
<1>2. ASSUME NEW s, SamePin(store, s)
      PROVE  Handles(s)
  BY <1>0, <1>2 DEF SamePin, Handles, PinKept
<1>3. Handles(ClearPendingClick(ClearSelectedFeature(store)))
  <2> DEFINE closed == SetSelectedFeature(store, NoFeature)
  <2>1. HasFields(closed, StoreFields) /\ closed.selectedFeature = NoFeature
    BY <1>0, PinChanges
  <2> HIDE DEF closed
  <2>2. Handles(ClearPendingClick(closed))
    BY <2>1, PinChanges DEF Handles, PinKept
  <2> QED BY <2>2 DEF closed, ClearSelectedFeature
<1>4. Handles(SetSelectedFeature(store, Recent))
  <2>1. Recent # NoFeature
    BY MapPageAssumption DEF Recent
  <2> QED BY <1>0, <2>1, PinChanges DEF Handles, PinKept
<1>5. SamePin(store, OpenLeftRail(RequestClearSearchQuery(
                         CloseCategoryResults(store)), "search"))
  <2> DEFINE a == CloseCategoryResults(store)
             b == RequestClearSearchQuery(a)
  <2>1. SamePin(store, a)
    BY <1>0 DEF CloseCategoryResults, SamePin, HasFields, StoreFields
  <2> HIDE DEF a
  <2>2. SamePin(store, b)
    BY <2>1, PinOps DEF SamePin
  <2> HIDE DEF b
  <2>3. SamePin(store, OpenLeftRail(b, "search"))
    BY <2>2, PinOps DEF SamePin
  <2> QED BY <2>3 DEF a, b
<1>6. PICK s : Handles(s) /\ RenderStore(s)
  <2>1. CASE CloseCard
    BY <1>3, <2>1 DEF CloseCard
  <2>2. CASE RecenterOnRecent
    BY <1>4, <2>2 DEF RecenterOnRecent
  <2>3. CASE ClosePanel
    BY <1>2, <1>5, <2>3 DEF ClosePanel
  <2>4. CASE PollRegions
    BY <1>0, <1>2, PinOps, <2>4 DEF PollRegions
  <2>5. CASE \E tab \in Tabs : OpenPanel(tab)
    BY <1>0, <1>2, PinOps, <2>5 DEF OpenPanel
  <2>6. CASE \E r \in Regions \cup {NoRegion} : ChooseRegion(r)
    BY <1>0, <1>2, PinOps, <2>6 DEF ChooseRegion
  <2> QED BY <2>1, <2>2, <2>3, <2>4, <2>5, <2>6
<1> QED BY <1>1, <1>6, HandledPins DEF RenderStore

\* Tools write nothing to the store before the page is rendered.
LEMMA ToolPins ==
    ASSUME PinInv, Inv',
           \/ \E tool \in ToolNames \ {NoTool} : PickTool(tool)
           \/ CloseTools \/ Backspace \/ Finish
           \/ \E p \in IsoParams : ChooseParams(p)
           \/ RequestIsochrone \/ IsochroneAnswer \/ ClearIsochrone
    PROVE  PinInv' /\ PinStep
<1>1. Handles(store)
  BY DEF PinInv, Inv, Shapes, Handles
<1>2. clicks' = clicks /\ \E t : RenderTools(t)
  BY DEF PickTool, CloseTools, Backspace, Finish, ChooseParams, RequestIsochrone,
     IsochroneAnswer, ClearIsochrone
<1> QED BY <1>1, <1>2, HandledPins DEF RenderTools

LEMMA MapPins ==
    ASSUME PinInv, Inv', MapLoad \/ StyleLoad \/ Leave \/ Return
    PROVE  PinInv' /\ PinStep
<1>0. HasFields(store, StoreFields) /\ PinKept(store)
  BY DEF PinInv, Inv, Shapes
<1>1. Handles(store) /\ \A v : Handles(SetMap(store, v))
  BY <1>0, PinOps DEF SamePin, Handles, PinKept
<1>2. clicks' = clicks
  BY DEF MapLoad, StyleLoad, Leave, Return
<1>3. CASE MapLoad \/ Return
  BY <1>1, <1>2, <1>3, HandledPins DEF MapLoad, Return
<1>4. CASE StyleLoad \/ Leave
  <2>1. store' \in {store, SetMap(store, FALSE)}
    BY <1>4 DEF StyleLoad, Leave
  <2>2. SamePin(store, store) /\ SamePin(store, SetMap(store, FALSE))
    BY <1>0, PinOps DEF SamePin
  <2>3. SamePin(store, store')
    BY <2>1, <2>2
  <2> QED BY <1>2, <2>3 DEF SamePin, PinInv, PinKept, PinStep
<1> QED BY <1>3, <1>4

LEMMA PinNext == PinInv /\ [Next]_vars => PinInv' /\ (PinStep \/ UNCHANGED vars)
<1> SUFFICES ASSUME PinInv, [Next]_vars PROVE PinInv' /\ (PinStep \/ UNCHANGED vars)
  OBVIOUS
<1>1. Inv'
  BY NextInv DEF PinInv
<1>2. CASE UNCHANGED <<store, clicks>>
  BY <1>1, <1>2 DEF PinInv, PinKept, PinStep
<1>3. UNCHANGED vars \/ IsochroneError \/ (\E r \in Regions : ServerStep(r))
        => UNCHANGED <<store, clicks>>
  BY DEF vars, IsochroneError, ServerStep
<1> QED BY <1>1, <1>2, <1>3, ClickPins, StorePins, ToolPins, MapPins DEF Next

LEMMA PinInit == Init => PinInv
<1> SUFFICES ASSUME Init PROVE PinInv
  OBVIOUS
<1>1. store.pendingClick = NoClick /\ clicks = 0
  <2> PICK link \in Links : Init!(link)
    BY DEF Init
  <2> QED BY DEF InitialStore
<1> QED BY <1>1, InitInv DEF PinInv, PinKept

\* The click that dropped a pin is read again when the map loads, when the page
\* is mounted again and when a tool opens, and never drops another: a pending
\* click has its pin on show, and with a pin on show reading only closes.
THEOREM ClosedPinsAreNotReopened == Spec => ClosedPinsStayClosed
<1>1. PinInv /\ [Next]_vars => PinInv'
  BY PinNext
<1>2. PinInv /\ [Next]_vars =>
        [\/ store'.selectedFeature \in {store.selectedFeature, NoFeature, Recent}
         \/ clicks' = clicks + 1 /\ store'.selectedFeature = clicks']_vars
  BY PinNext DEF PinStep
<1> QED BY PinInit, <1>1, <1>2, PTL DEF Spec, ClosedPinsStayClosed
=============================================================================
