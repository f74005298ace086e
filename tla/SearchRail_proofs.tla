--------------------------- MODULE SearchRail_proofs ---------------------------
(* Proofs about SearchRail: the pins belong to the chip that is lit and to    *)
(* the box frozen with it, and the results panel never outlives its chip.     *)
EXTENDS SearchRail, TLAPS

(* ------------------------------- invariant ------------------------------- *)

StoreFields ==
    {"activeRegion", "installedRegions", "map", "pendingClick", "leftRailTab",
     "searchDropdownOpen", "searchClearToken", "activeCategoryChip", "results",
     "resultsBbox", "selectedFeature"}

HasFields(r, fields) == r = [f \in fields |-> r[f]]

\* The answer to the query for the chip and the box of s.
Own(s) == [chip |-> s.activeCategoryChip, box |-> s.resultsBbox]

\* A store every handler may leave behind.
Sound(s) ==
    /\ HasFields(s, StoreFields)
    /\ s.results \subseteq {Own(s)}
    /\ s.leftRailTab = "categoryResults" => s.activeCategoryChip # NoChip

\* What the category query holds is an answer to the key it is on for.
Current(s, data) == data \subseteq {Own(s)} /\ (~Enabled(s) => data = {})

Inv == Sound(store) /\ Current(store, pois)

(* -------------------------------- the store ------------------------------- *)

LEMMA ExceptFields ==
    ASSUME NEW r, NEW fields, HasFields(r, fields), NEW f, NEW v
    PROVE  /\ HasFields([r EXCEPT ![f] = v], fields)
           /\ f \in fields => [r EXCEPT ![f] = v][f] = v
           /\ \A g \in fields \ {f} : [r EXCEPT ![f] = v][g] = r[g]
BY DEF HasFields

\* Fields that neither the pins nor the panel depend on.
Bystanders ==
    {"pendingClick", "searchDropdownOpen", "searchClearToken", "selectedFeature"}

LEMMA Bystander ==
    ASSUME NEW s, Sound(s), NEW f \in Bystanders, NEW v
    PROVE  LET e == [s EXCEPT ![f] = v]
           IN  /\ Sound(e)
               /\ e.activeCategoryChip = s.activeCategoryChip
               /\ e.resultsBbox = s.resultsBbox
<1> DEFINE e == [s EXCEPT ![f] = v]
<1>1. HasFields(e, StoreFields)
  BY ExceptFields DEF Sound
<1>2. \A g \in StoreFields \ Bystanders : e[g] = s[g]
  BY DEF Sound, HasFields
<1> HIDE DEF e
<1>3. /\ e.activeCategoryChip = s.activeCategoryChip
      /\ e.resultsBbox = s.resultsBbox
      /\ e.results = s.results /\ e.leftRailTab = s.leftRailTab
  BY <1>2 DEF StoreFields, Bystanders
<1>4. Sound(e)
  BY <1>1, <1>3 DEF Sound, Own
<1> QED BY <1>3, <1>4 DEF e

LEMMA BystanderOps ==
    ASSUME NEW s, Sound(s), NEW v
    PROVE  /\ Sound(ClearPendingClick(s))
           /\ Sound(SetSearchDropdownOpen(s, v))
           /\ Sound(RequestClearSearchQuery(s))
           /\ Sound(SetSelectedFeature(s, v))
           /\ Sound(ClearSelectedFeature(s))
BY Bystander DEF Bystanders, ClearPendingClick, SetSearchDropdownOpen,
   RequestClearSearchQuery, SetSelectedFeature, ClearSelectedFeature

\* No button but a chip opens the panel of results.
LEMMA OpenRail ==
    ASSUME NEW s, Sound(s), NEW tab, tab # "categoryResults"
    PROVE  Sound(OpenLeftRail(s, tab))
<1> DEFINE e == OpenLeftRail(s, tab)
<1>1. HasFields(e, StoreFields)
  BY ExceptFields DEF OpenLeftRail, Sound
<1>2. /\ e.leftRailTab = tab /\ e.activeCategoryChip = s.activeCategoryChip
      /\ e.resultsBbox = s.resultsBbox /\ e.results = s.results
  BY DEF OpenLeftRail, Sound, HasFields, StoreFields
<1> HIDE DEF e
<1> QED BY <1>1, <1>2 DEF Sound, Own, e

LEMMA CloseResults ==
    ASSUME NEW s, Sound(s)
    PROVE  Sound(CloseCategoryResults(s))
<1> DEFINE e == CloseCategoryResults(s)
<1>1. HasFields(e, StoreFields)
  BY DEF CloseCategoryResults, Sound, HasFields, StoreFields
<1>2. e.results = {} /\ e.leftRailTab # "categoryResults"
  BY DEF CloseCategoryResults, Sound, HasFields, StoreFields
<1> HIDE DEF e
<1> QED BY <1>1, <1>2 DEF Sound, e

LEMMA RunSearch ==
    ASSUME NEW s, Sound(s), NEW chip \in Chips, NEW box
    PROVE  Sound(RunCategorySearch(s, chip, box))
<1> DEFINE e == RunCategorySearch(s, chip, box)
<1>1. CASE s.activeCategoryChip = chip
  BY <1>1, CloseResults DEF RunCategorySearch
<1>2. CASE s.activeCategoryChip # chip
  <2>1. HasFields(e, StoreFields)
    BY <1>2 DEF RunCategorySearch, Sound, HasFields, StoreFields
  <2>2. e.results = {} /\ e.activeCategoryChip = chip
    BY <1>2 DEF RunCategorySearch, Sound, HasFields, StoreFields
  <2>3. chip # NoChip
    BY SearchRailAssumption DEF SearchRailAssumption
  <2> HIDE DEF e
  <2> QED BY <2>1, <2>2, <2>3 DEF Sound, e
<1> QED BY <1>1, <1>2

LEMMA CascadeSound ==
    ASSUME NEW s, Sound(s), NEW click, NEW feature
    PROVE  Sound(Cascade(s, click, feature))
<1>1. /\ Sound(ClearPendingClick(SetSearchDropdownOpen(s, FALSE)))
      /\ Sound(ClearPendingClick(ClearSelectedFeature(s)))
      /\ Sound(ClearPendingClick(OpenLeftRail(s, "search")))
      /\ Sound(SetSelectedFeature(s, feature))
  BY BystanderOps, OpenRail
<1> QED BY <1>1 DEF Cascade

\* Writing the answer to the query that is on, or nothing, is always right.
LEMMA MirrorSound ==
    ASSUME NEW s, Sound(s), NEW data, Current(s, data)
    PROVE  LET e == Mirror(s, data)
           IN  /\ Sound(e)
               /\ e.activeCategoryChip = s.activeCategoryChip
               /\ e.resultsBbox = s.resultsBbox
<1>1. ASSUME NEW rs, rs \subseteq {Own(s)}
      PROVE  LET e == SetCategorySearchResults(s, rs)
             IN  /\ Sound(e)
                 /\ e.activeCategoryChip = s.activeCategoryChip
                 /\ e.resultsBbox = s.resultsBbox
  <2> DEFINE e == SetCategorySearchResults(s, rs)
  <2>1. HasFields(e, StoreFields)
    BY ExceptFields DEF SetCategorySearchResults, Sound
  <2>2. /\ e.results = rs /\ e.activeCategoryChip = s.activeCategoryChip
        /\ e.resultsBbox = s.resultsBbox /\ e.leftRailTab = s.leftRailTab
    BY DEF SetCategorySearchResults, Sound, HasFields, StoreFields
  <2> HIDE DEF e
  <2>3. Sound(e)
    BY <1>1, <2>1, <2>2 DEF Sound, Own
  <2> QED BY <2>2, <2>3 DEF e
<1>2. CASE s.activeCategoryChip = NoChip
  BY <1>1, <1>2 DEF Mirror
<1>3. CASE s.activeCategoryChip # NoChip /\ data # {}
  BY <1>1, <1>3 DEF Mirror, Current
<1>4. CASE s.activeCategoryChip # NoChip /\ data = {}
  BY <1>4 DEF Mirror
<1> QED BY <1>2, <1>3, <1>4

(* -------------------------------- the page -------------------------------- *)

LEMMA RenderStep == Inv => \A s, b : Sound(s) /\ Render(s, b) => Inv'
<1> SUFFICES ASSUME Inv, NEW s, NEW b, Sound(s), Render(s, b) PROVE Inv'
  OBVIOUS
<1> PICK hit \in BOOLEAN :
      LET data == IF ~Enabled(s) THEN {}
                  ELSE IF CategoryKey(s) = CategoryKey(store) THEN pois
                  ELSE IF hit THEN Answers(CategoryKey(s)) ELSE {}
      IN  /\ pois' = data
          /\ store' = SetSearchDropdownOpen(Mirror(s, data), b.focused)
  BY DEF Render
<1>1. Current(s, pois')
  <2>1. CASE ~Enabled(s)
    BY <2>1 DEF Current
  <2>2. CASE Enabled(s) /\ CategoryKey(s) = CategoryKey(store)
    <3>1. Own(s) = Own(store)
      BY <2>2 DEF CategoryKey, Own
    <3> QED BY <2>2, <3>1 DEF Inv, Current
  <2>3. CASE Enabled(s) /\ CategoryKey(s) # CategoryKey(store)
    <3>1. Answers(CategoryKey(s)) = {Own(s)}
      BY DEF Answers, CategoryKey, Own
    <3> QED BY <2>3, <3>1 DEF Current
  <2> QED BY <2>1, <2>2, <2>3
<1> DEFINE m == Mirror(s, pois')
<1>2. /\ Sound(m) /\ m.activeCategoryChip = s.activeCategoryChip
      /\ m.resultsBbox = s.resultsBbox
  BY <1>1, MirrorSound
<1> DEFINE e == [m EXCEPT !.searchDropdownOpen = b.focused]
<1>3. store' = e
  BY DEF SetSearchDropdownOpen
<1> HIDE DEF m
<1>4. /\ Sound(e) /\ e.activeCategoryChip = m.activeCategoryChip
      /\ e.resultsBbox = m.resultsBbox
  BY <1>2, Bystander DEF Bystanders
<1> HIDE DEF e
<1>5. Current(store', pois')
  BY <1>1, <1>2, <1>3, <1>4 DEF Current, Own, Enabled
<1> QED BY <1>3, <1>4, <1>5 DEF Inv

LEMMA ActivatedSound ==
    ASSUME NEW s, Sound(s), NEW text
    PROVE  Sound(ActivatedStore(s, text))
<1>1. CASE text \in Chips
  BY <1>1, RunSearch DEF ActivatedStore, ChipFor
<1>2. CASE text \notin Chips
  BY <1>2 DEF ActivatedStore, ChipFor
<1> QED BY <1>1, <1>2

LEMMA BlurStep == Inv => \A s, b : Sound(s) /\ Blur(s, b) => Inv'
BY RenderStep, ActivatedSound DEF Blur

LEMMA InvInit == Init => Inv
<1> SUFFICES ASSUME Init PROVE Inv
  OBVIOUS
<1>1. store = [InitialStore EXCEPT !.map = TRUE] /\ pois = {}
  BY DEF Init
<1>2. HasFields(InitialStore, StoreFields)
  BY DEF InitialStore, HasFields, StoreFields
<1>3. HasFields(store, StoreFields)
  BY <1>1, <1>2, ExceptFields
<1>4. store.results = {} /\ store.leftRailTab = "search"
  BY <1>1 DEF InitialStore
<1> QED BY <1>1, <1>3, <1>4 DEF Inv, Sound, Current

LEMMA NextInv == Inv /\ [Next]_vars => Inv'
<1> SUFFICES ASSUME Inv, [Next]_vars PROVE Inv'
  OBVIOUS
<1> Sound(store)
  BY DEF Inv
<1>1. CASE Focus
  BY <1>1, RenderStep, OpenRail DEF Focus
<1>2. CASE Debounce \/ GeocodeAnswer \/ ClearHistory \/ UseMyLocation
             \/ (\E box : Pan(box)) \/ UNCHANGED vars
  BY <1>2 DEF Debounce, GeocodeAnswer, ClearHistory, UseMyLocation, Pan, vars, Inv
<1>3. CASE Submit
  BY <1>3, RenderStep, ActivatedSound DEF Submit
<1>4. CASE Escape \/ LeaveBox
  BY <1>4, BlurStep DEF Escape, LeaveBox
<1>5. CASE ClearBox
  <2>1. Sound(OpenLeftRail(IF store.activeCategoryChip = NoChip THEN store
                           ELSE CloseCategoryResults(store), "search"))
    BY OpenRail, CloseResults
  <2> QED BY <1>5, <2>1, RenderStep DEF ClearBox
<1>6. ASSUME NEW text, Type(text) PROVE Inv'
  <2>1. Sound(IF store.activeCategoryChip = NoChip THEN store
              ELSE CloseCategoryResults(store))
    BY CloseResults
  <2> QED BY <1>6, <2>1, RenderStep DEF Type
<1>7. ASSUME NEW tab, tab # "categoryResults", BoxButton(tab) \/ OpenPanel(tab)
      PROVE  Inv'
  BY <1>7, RenderStep, OpenRail DEF BoxButton, OpenPanel
<1>8. ASSUME NEW place, PickResult(place) \/ PickRecent(place) PROVE Inv'
  BY <1>8, BlurStep, RenderStep, BystanderOps DEF PickResult, PickRecent
<1>9. ASSUME NEW chip \in Chips, PickChip(chip) PROVE Inv'
  BY <1>9, RenderStep, RunSearch DEF PickChip
<1>10. CASE CategoryAnswer
  <2>1. Current(store, pois')
    BY <1>10 DEF CategoryAnswer, Current, Answers, CategoryKey, Own
  <2>2. store' = Mirror(store, pois')
    BY <1>10 DEF CategoryAnswer
  <2>3. /\ Sound(store') /\ store'.activeCategoryChip = store.activeCategoryChip
        /\ store'.resultsBbox = store.resultsBbox
    BY <2>1, <2>2, MirrorSound
  <2> QED BY <2>1, <2>3 DEF Inv, Current, Own, Enabled
<1>11. CASE PickPoi \/ CloseCard
  BY <1>11, RenderStep, BystanderOps DEF PickPoi, CloseCard
<1>12. CASE CloseCategoryPanel
  BY <1>12, RenderStep, CloseResults DEF CloseCategoryPanel
<1>13. CASE LocationAnswer
  BY <1>13, RenderStep, OpenRail DEF LocationAnswer
<1>14. CASE ClosePanel
  <2>1. Sound(OpenLeftRail(store, "search"))
    BY OpenRail
  <2>2. Sound(OpenLeftRail(RequestClearSearchQuery(
                             CloseCategoryResults(store)), "search"))
    BY OpenRail, CloseResults, BystanderOps
  <2> QED BY <1>14, <2>1, <2>2, RenderStep DEF ClosePanel
<1>15. CASE PressMap
  BY <1>15, BlurStep DEF PressMap, Inv
<1>16. CASE ClickMap
  BY <1>16, RenderStep, CascadeSound DEF ClickMap
<1> QED
  BY <1>1, <1>2, <1>3, <1>4, <1>5, <1>6, <1>7, <1>8, <1>9, <1>10, <1>11, <1>12,
     <1>13, <1>14, <1>15, <1>16
  DEF Next

(* -------------------------------- theorems -------------------------------- *)

LEMMA InvProperties == Inv => ResultsOfTheChip /\ PanelHasItsChip
BY DEF Inv, Sound, Own, ResultsOfTheChip, PanelHasItsChip

\* The pins are always those of the lit chip and of the box frozen with it,
\* whatever answers are late or come from the cache and whatever blurs, presses
\* and positions come in between (PoiSearchChips.tsx, useCategorySearch).
THEOREM PinsAreTheChips == Spec => []ResultsOfTheChip
<1>1. Init => Inv
  BY InvInit
<1>2. Inv /\ [Next]_vars => Inv'
  BY NextInv
<1>3. Inv => ResultsOfTheChip
  BY InvProperties
<1> QED BY <1>1, <1>2, <1>3, PTL DEF Spec

\* The results panel is never on show without its chip, for any number of
\* chips and places (closeCategoryResults and its callers).
THEOREM PanelNeedsItsChip == Spec => []PanelHasItsChip
<1>1. Init => Inv
  BY InvInit
<1>2. Inv /\ [Next]_vars => Inv'
  BY NextInv
<1>3. Inv => PanelHasItsChip
  BY InvProperties
<1> QED BY <1>1, <1>2, <1>3, PTL DEF Spec

=============================================================================
