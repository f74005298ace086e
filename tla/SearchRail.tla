----------------------------- MODULE SearchRail -----------------------------
(***************************************************************************)
(* The search box, its dropdown, the category chips and the left rail of   *)
(* the home page (src/ui/components/chrome and search), over the stores of *)
(* MapStore.  A press on the map is two events, pointerdown and click, and *)
(* leaving the input runs its blur handler with the text of the last       *)
(* render, whatever the handler that took the focus away has just set.     *)
(***************************************************************************)
EXTENDS MapStore

CONSTANTS
    Chips,       \* categories with a chip; a chip's label is the chip itself
    Places,      \* places the geocoder knows; a place's label is the place
    Pin, Marker, \* the feature of a click on the map, and of any result pin
    NoText,      \* the empty input
    Boxes,       \* what the map's viewport can show
    MaxEntries   \* entries kept in the search history

Texts == Chips \cup Places \cup {NoText}

ASSUME SearchRailAssumption ==
    /\ NoText \notin Chips \cup Places /\ Chips \cap Places = {}
    /\ NoChip \notin Chips /\ NoBbox \notin Boxes /\ MaxEntries \in Nat \ {0}

VARIABLES
    store,    \* useMapStore and usePlaceStore
    bar,      \* the state of SearchBar and of the SearchPanel it shows
    pois,     \* what the category query holds for its key, {} until it answers
    history,  \* localmaps.search.history.v1, latest first
    view,     \* the box the map shows
    press,    \* a pointerdown on the map whose click is still to come
    locating  \* the rail waits for the browser's position
vars == <<store, bar, pois, history, view, press, locating>>

\* What GET /api/geocode finds for a text: a label finds its place, and the
\* label of a chip every place.
Found(text) == IF text \in Places THEN {text}
               ELSE IF text \in Chips THEN Places ELSE {}

\* The key of the category query, and an answer to it.
CategoryKey(s) == <<s.activeCategoryChip, s.resultsBbox>>
Answers(key) == {[chip |-> key[1], box |-> key[2]]}
Enabled(s) == s.activeCategoryChip # NoChip /\ s.resultsBbox # NoBbox

(***************************************************************************)
(* The page after a handler left s and b: SearchBar mirrors its focus into *)
(* the store and follows the clear token; a new key of the category query  *)
(* starts from its cache, hit or miss, and PoiSearchEffects mirrors what   *)
(* it holds.                                                               *)
(***************************************************************************)
Mirror(s, data) ==
    IF s.activeCategoryChip = NoChip THEN SetCategorySearchResults(s, {})
    ELSE IF data # {} THEN SetCategorySearchResults(s, data) ELSE s

Cleared(b) == [b EXCEPT !.query = NoText, !.fullSearch = FALSE]

\* Mutant: the category query keeps its previous answer while it has none.
Render_KeepsPrevious(s, b) ==
    /\ bar' = IF s.searchClearToken # store.searchClearToken THEN Cleared(b) ELSE b
    /\ \E hit \in BOOLEAN :
         LET data == IF hit /\ Enabled(s) THEN Answers(CategoryKey(s)) ELSE pois
         IN  /\ pois' = data
             /\ store' = SetSearchDropdownOpen(Mirror(s, data), b.focused)

Render(s, b) ==
    /\ bar' = IF s.searchClearToken # store.searchClearToken THEN Cleared(b) ELSE b
    /\ \E hit \in BOOLEAN :
         LET data == IF ~Enabled(s) THEN {}
                     ELSE IF CategoryKey(s) = CategoryKey(store) THEN pois
                     ELSE IF hit THEN Answers(CategoryKey(s)) ELSE {}
         IN  /\ pois' = data
             /\ store' = SetSearchDropdownOpen(Mirror(s, data), b.focused)

(* ------------------------------ search box ------------------------------ *)

\* A text that is a chip's label starts the chip's search and empties the box.
ChipFor(text) == IF text \in Chips THEN text ELSE NoChip
ActivatedStore(s, text) ==
    IF ChipFor(text) = NoChip THEN s ELSE RunCategorySearch(s, text, view)
ActivatedBar(b, text) ==
    IF ChipFor(text) = NoChip THEN b ELSE [b EXCEPT !.query = NoText]

\* handleBlur, after a handler left s and b: it reads the rendered query.  The
\* panel goes, with its debounced text and its answer.
Blur(s, b) ==
    Render(ActivatedStore(s, bar.query),
           [ActivatedBar(b, bar.query) EXCEPT
                !.focused = FALSE, !.debounced = NoText, !.answered = FALSE])

\* Click, "/" or Ctrl-K.  The panel mounts with the query of that moment.
Focus ==
    /\ ~bar.focused
    /\ Render(OpenLeftRail(store, "search"),
              [bar EXCEPT !.focused = TRUE, !.fullSearch = FALSE,
                          !.debounced = bar.query, !.answered = FALSE])
    /\ UNCHANGED <<history, view, press, locating>>

\* onChange.  Under an active chip the input shows the label; typing drops it.
Type(text) ==
    /\ bar.focused
    /\ Render(IF store.activeCategoryChip = NoChip THEN store
              ELSE CloseCategoryResults(store),
              [bar EXCEPT !.query = text, !.fullSearch = FALSE,
                          !.answered = @ /\ ~bar.fullSearch])
    /\ UNCHANGED <<history, view, press, locating>>

\* useDebouncedValue: the text has been stable, the panel asks for it.
Debounce ==
    /\ bar.focused /\ bar.debounced # bar.query
    /\ bar' = [bar EXCEPT !.debounced = bar.query, !.answered = FALSE]
    /\ UNCHANGED <<store, pois, history, view, press, locating>>

GeocodeAnswer ==
    /\ bar.focused /\ bar.debounced # NoText /\ ~bar.answered
    /\ bar' = [bar EXCEPT !.answered = TRUE]
    /\ UNCHANGED <<store, pois, history, view, press, locating>>

\* Enter: a chip's label starts its search, other text the full search.
Submit ==
    /\ bar.focused /\ bar.query # NoText
    /\ IF ChipFor(bar.query) # NoChip
       THEN Render(ActivatedStore(store, bar.query), ActivatedBar(bar, bar.query))
       ELSE Render(store, [bar EXCEPT !.fullSearch = TRUE,
                                      !.answered = @ /\ bar.fullSearch])
    /\ UNCHANGED <<history, view, press, locating>>

Escape ==
    /\ bar.focused
    /\ Blur(store, Cleared(bar))
    /\ UNCHANGED <<history, view, press, locating>>

\* Tab, or a press outside the box that is not on the map.
LeaveBox ==
    /\ bar.focused
    /\ Blur(store, bar)
    /\ UNCHANGED <<history, view, press, locating>>

\* The X in the box, after the blur its press caused: the focus comes back.
ClearBox ==
    /\ ~bar.focused
    /\ store.activeCategoryChip # NoChip \/ bar.query # NoText
    /\ Render(OpenLeftRail(IF store.activeCategoryChip = NoChip THEN store
                           ELSE CloseCategoryResults(store), "search"),
              [Cleared(bar) EXCEPT !.focused = TRUE, !.debounced = bar.query,
                                   !.answered = FALSE])
    /\ UNCHANGED <<history, view, press, locating>>

\* The menu and the directions button of the box.
BoxButton(tab) ==
    /\ ~bar.focused
    /\ Render(OpenLeftRail(store, tab), bar)
    /\ UNCHANGED <<history, view, press, locating>>

(* ------------------------------- dropdown ------------------------------- *)

\* Mutant: a place picked again is listed twice.
Pushed_Twice(entries, place) ==
    LET next == <<place>> \o entries
    IN  IF Len(next) > MaxEntries THEN SubSeq(next, 1, MaxEntries) ELSE next

\* pushHistoryEntry: to the front, once, the oldest entry drops out.
Pushed(entries, place) ==
    LET others == SelectSeq(entries, LAMBDA e : e # place)
        next   == <<place>> \o others
    IN  IF Len(next) > MaxEntries THEN SubSeq(next, 1, MaxEntries) ELSE next

InHistory(place) == \E i \in 1..Len(history) : history[i] = place

\* The listed places: the answer, or the history under an empty text.
Listed ==
    IF bar.debounced = NoText THEN {p \in Places : InHistory(p)}
    ELSE IF bar.answered THEN Found(bar.debounced) ELSE {}

\* selectResult: history, then the box's own handler, which blurs the input,
\* then the pin.
PickResult(place) ==
    /\ bar.focused /\ place \in Listed
    /\ history' = Pushed(history, place)
    /\ Blur(SetSelectedFeature(store, place),
            [bar EXCEPT !.query = place, !.fullSearch = FALSE])
    /\ UNCHANGED <<view, press, locating>>

ClearHistory ==
    /\ history # <<>>
    /\ \/ bar.focused /\ bar.debounced = NoText
       \/ store.leftRailTab = "recents"
    /\ history' = <<>>
    /\ UNCHANGED <<store, bar, pois, view, press, locating>>

(* --------------------------------- chips -------------------------------- *)

\* The row shows while no chip is active and the rail is folded.
PickChip(chip) ==
    /\ ~bar.focused
    /\ store.activeCategoryChip = NoChip /\ store.leftRailTab = "search"
    /\ Render(RunCategorySearch(store, chip, view), bar)
    /\ UNCHANGED <<history, view, press, locating>>

CategoryAnswer ==
    /\ Enabled(store) /\ pois = {}
    /\ pois' = Answers(CategoryKey(store))
    /\ store' = Mirror(store, pois')
    /\ UNCHANGED <<bar, history, view, press, locating>>

\* A row of the panel, or a marker on the map.
PickPoi ==
    /\ ~bar.focused /\ store.results # {}
    /\ Render(SetSelectedFeature(store, Marker), bar)
    /\ UNCHANGED <<history, view, press, locating>>

CloseCategoryPanel ==
    /\ store.leftRailTab = "categoryResults"
    /\ Render(CloseCategoryResults(store), bar)
    /\ UNCHANGED <<history, view, press, locating>>

\* "Directions from your location": the rail opens when the browser answers,
\* granted or not.
UseMyLocation ==
    /\ store.leftRailTab = "categoryResults" /\ ~locating
    /\ locating' = TRUE
    /\ UNCHANGED <<store, bar, pois, history, view, press>>

LocationAnswer ==
    /\ locating
    /\ locating' = FALSE
    /\ Render(OpenLeftRail(store, "directions"), bar)
    /\ UNCHANGED <<history, view, press>>

(* ------------------------------- left rail ------------------------------ *)

OpenPanel(tab) ==
    /\ ~bar.focused
    /\ Render(OpenLeftRail(store, tab), bar)
    /\ UNCHANGED <<history, view, press, locating>>

\* The rail's X resets everything; the directions panel's own X only folds
\* the rail.
ClosePanel ==
    /\ store.leftRailTab \in {"saved", "recents", "directions"}
    /\ Render(IF store.leftRailTab = "directions" THEN OpenLeftRail(store, "search")
              ELSE OpenLeftRail(RequestClearSearchQuery(
                                  CloseCategoryResults(store)), "search"), bar)
    /\ UNCHANGED <<history, view, press, locating>>

PickRecent(place) ==
    /\ store.leftRailTab = "recents" /\ InHistory(place)
    /\ Render(SetSelectedFeature(store, place), bar)
    /\ UNCHANGED <<history, view, press, locating>>

CloseCard ==
    /\ store.selectedFeature # NoFeature
    /\ Render(ClearPendingClick(ClearSelectedFeature(store)), bar)
    /\ UNCHANGED <<history, view, press, locating>>

(* ----------------------------- press and pan ---------------------------- *)

\* pointerdown outside the box blurs it before the map reports the click.
PressMap ==
    /\ press = "none"
    /\ press' = IF bar.focused THEN "closed_dropdown" ELSE "plain"
    /\ IF bar.focused THEN Blur(store, bar) ELSE UNCHANGED <<store, bar, pois>>
    /\ UNCHANGED <<history, view, locating>>

\* The pending click itself is MapPage's; here only what becomes of it counts.
ClickMap ==
    /\ press # "none"
    /\ press' = "none"
    /\ Render(Cascade(store, "click", Pin), bar)
    /\ UNCHANGED <<history, view, locating>>

\* A press that became a drag moves the map; the chip's box stays.
Pan(box) ==
    /\ press' = "none"
    /\ view' = box
    /\ UNCHANGED <<store, bar, pois, history, locating>>

Init ==
    /\ store = [InitialStore EXCEPT !.map = TRUE]
    /\ bar = [query |-> NoText, debounced |-> NoText, fullSearch |-> FALSE,
              focused |-> FALSE, answered |-> FALSE]
    /\ pois = {}
    /\ history = <<>>
    /\ view \in Boxes
    /\ press = "none"
    /\ locating = FALSE

Next ==
    \/ Focus \/ Debounce \/ GeocodeAnswer \/ Submit \/ Escape \/ LeaveBox \/ ClearBox
    \/ \E text \in Texts : Type(text)
    \/ \E tab \in {"recents", "directions"} : BoxButton(tab)
    \/ \E place \in Places : PickResult(place) \/ PickRecent(place)
    \/ ClearHistory
    \/ \E chip \in Chips : PickChip(chip)
    \/ CategoryAnswer \/ CloseCategoryPanel \/ UseMyLocation \/ LocationAnswer
    \/ PickPoi \/ OpenPanel("saved") \/ OpenPanel("recents") \/ ClosePanel \/ CloseCard
    \/ PressMap \/ ClickMap
    \/ \E box \in Boxes : Pan(box)

Spec == Init /\ [][Next]_vars

\* The page is not left, the network answers.
FairSpec == Spec /\ WF_vars(CategoryAnswer)

(* ------------------------------ properties ------------------------------ *)

\* The pins are always those of the chip that is lit and of the box that was
\* on the map when it was picked, however long the answer took and whatever
\* chip was picked meanwhile (mirror effect of PoiSearchChips.tsx).
ResultsOfTheChip ==
    store.results \subseteq
        {[chip |-> store.activeCategoryChip, box |-> store.resultsBbox]}

\* The results panel is never on show without a chip to fill it: whatever
\* drops the chip folds the panel as well, and a late position never brings it
\* back (closeCategoryResults and its callers).
PanelHasItsChip ==
    store.leftRailTab = "categoryResults" => store.activeCategoryChip # NoChip

\* The history never names a place twice and never outgrows its bound, and a
\* pick is the only thing that changes the order (history.ts).
HistoryIsRecent ==
    [][/\ Len(history') <= MaxEntries
       /\ \A i, j \in 1..Len(history') : history'[i] = history'[j] => i = j
       /\ history' # history =>
            \/ history' = <<>>
            \/ /\ store'.selectedFeature = history'[1]
               /\ \A i, j \in 2..Len(history') : i < j =>
                     \E k, l \in 1..Len(history) :
                        k < l /\ history[k] = history'[i] /\ history[l] = history'[j]]_vars

\* A chip that stays lit gets its pins: no sequence of blurs, panels and pans
\* loses the answer (useCategorySearch and the mirror effect).
ChipGetsItsPins ==
    \A chip \in Chips :
        store.activeCategoryChip = chip
            ~> (store.activeCategoryChip # chip \/ store.results # {})

=============================================================================
