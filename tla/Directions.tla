----------------------------- MODULE Directions -----------------------------
(***************************************************************************)
(* The directions panel of the home page: the store of its inputs and      *)
(* route (src/ui/lib/state/directions.ts), the hook that asks /api/route   *)
(* whenever the inputs change (use-route-sync.ts), the one that draws the  *)
(* answer (use-route-render.ts), and everything that writes to the store:  *)
(* the panel, the context menu, the place card, the category results, the  *)
(* browser's position, and the link that opened the page.                  *)
(***************************************************************************)
EXTENDS Naturals, Sequences, FiniteSets

CONSTANTS
    Points,       \* places on the map
    Here,         \* where the browser says the user is
    NoPoint,      \* lngLat = null
    NoRoute,      \* route = null
    Modes,        \* travel modes of the panel
    Car,          \* the mode of a fresh store
    AvoidSets,    \* the avoid options the user tries, {} among them
    Links,        \* the routes in the links that open the page
    MaxRequests,  \* bound on the requests under way
    MaxRoutes,    \* bound on the routes in one answer
    MaxLocating   \* bound on the positions asked for at a time

ASSUME DirectionsAssumption ==
    /\ Here \in Points /\ NoPoint \notin Points
    /\ Car \in Modes /\ {} \in AvoidSets
    /\ \A link \in Links : link \in Seq(Points)
    /\ MaxRequests \in Nat \ {0} /\ MaxRoutes \in Nat \ {0}
    /\ MaxLocating \in Nat

VARIABLES
    dir,       \* useDirectionsStore
    panel,     \* whether the rail shows the panel, and its last focused input
    sync,      \* useRouteSync: key of the last effect, request listened to
    inflight,  \* POST /api/route under way
    canvas,    \* the map: whether it is there, what is drawn, activeRoute
    locating   \* who waits for the browser's position
vars == <<dir, panel, sync, inflight, canvas, locating>>

(* -------------------------------- store -------------------------------- *)

\* A waypoint: its id, its label and its point.  A label is "", the name of a
\* point (the point itself), or what the user is typing.
Blank(id) == [id |-> id, label |-> "", point |-> NoPoint]
DefaultWaypoints == <<Blank(1), Blank(2)>>

\* reset.  New waypoints get new ids; as nothing is resolved in them, the same
\* ones do.
Fresh == [waypoints |-> DefaultWaypoints, mode |-> Car, avoid |-> {},
          route |-> NoRoute, alternatives |-> <<>>]

SetMode(d, mode) == [d EXCEPT !.mode = mode]
SetOptions(d, avoid) == [d EXCEPT !.avoid = avoid]
SetLabel(d, i, label) == [d EXCEPT !.waypoints[i].label = label]
SetWaypoint(d, i, label, point) ==
    IF i \in 1..Len(d.waypoints)
    THEN [d EXCEPT !.waypoints[i].label = label, !.waypoints[i].point = point]
    ELSE d
SetStartFromPoint(d, p) == SetWaypoint(d, 1, p, p)
SetEndFromPoint(d, p) == SetWaypoint(d, Len(d.waypoints), p, p)
SwapEnds(d) ==
    LET w == d.waypoints
        n == Len(w)
    IN  [d EXCEPT !.waypoints = [w EXCEPT ![1] = w[n], ![n] = w[1]]]
SetRoute(d, route, alternatives) ==
    [d EXCEPT !.route = route, !.alternatives = alternatives]

\* applyDecoded: the points of the link over the labels of a fresh store.
Restored(d, link) ==
    IF link = <<>> THEN d
    ELSE LET Given(i) == [id |-> i, point |-> link[i],
                          label |-> IF i <= Len(d.waypoints)
                                    THEN d.waypoints[i].label ELSE link[i]]
             given == [i \in 1..Len(link) |-> Given(i)]
         IN  [d EXCEPT !.waypoints =
                IF Len(link) = 1 THEN Append(given, Blank(2)) ELSE given]

(* ------------------------------ the two hooks --------------------------- *)

\* What the inputs say, in their order; the ones without a point do not count.
Spots(d) == [i \in 1..Len(d.waypoints) |-> d.waypoints[i].point]
Resolved(d) == SelectSeq(Spots(d), LAMBDA p : p # NoPoint)
Inputs(d) == [locations |-> Resolved(d), mode |-> d.mode, avoid |-> d.avoid]

\* Mutant: the effect does not depend on the mode.
DepsKey_NoMode(d) ==
    [ids |-> [i \in 1..Len(d.waypoints) |->
                <<d.waypoints[i].id, d.waypoints[i].point>>],
     mode |-> Car, avoid |-> d.avoid]

DepsKey(d) ==
    [ids |-> [i \in 1..Len(d.waypoints) |->
                <<d.waypoints[i].id, d.waypoints[i].point>>],
     mode |-> d.mode, avoid |-> d.avoid]

NoSync == [key |-> <<>>, request |-> 0, status |-> "idle", heeded |-> FALSE]
FreeIds == (1..MaxRequests) \ {r.id : r \in inflight}

\* useRouteSync's effect under an open panel whose store is d: with fewer than
\* two points the route goes; otherwise the inputs are asked for, and the
\* answer to any earlier request is no longer heeded.
Sync(d) ==
    IF sync.key = DepsKey(d)
    THEN dir' = d /\ UNCHANGED <<sync, inflight>>
    ELSE IF Len(Resolved(d)) < 2
    THEN /\ dir' = SetRoute(d, NoRoute, <<>>)
         /\ sync' = [sync EXCEPT !.key = DepsKey(d), !.heeded = FALSE]
         /\ UNCHANGED inflight
    ELSE LET id == CHOOSE i \in FreeIds : TRUE
         IN  /\ FreeIds # {}
             /\ dir' = d
             /\ sync' = [key |-> DepsKey(d), request |-> id,
                         status |-> "pending", heeded |-> TRUE]
             /\ inflight' = inflight \cup {[id |-> id, inputs |-> Inputs(d)]}

\* useRouteRender's effect draws the route of the store and its waypoints.
Drawn(c, d) ==
    IF ~c.ready THEN c
    ELSE IF d.route = NoRoute
    THEN [c EXCEPT !.route = NoRoute, !.marks = <<>>, !.activeRoute = NoRoute]
    ELSE [c EXCEPT !.route = d.route, !.marks = Inputs(d).locations,
                   !.activeRoute = d.route]

\* The page after a handler left d: with the panel open both hooks run.
Render(d) ==
    IF panel'.open
    THEN /\ Sync(d)
         /\ canvas' = Drawn(canvas, dir')
    ELSE /\ dir' = d
         /\ UNCHANGED <<sync, inflight, canvas>>

RenderHere(d) == UNCHANGED panel /\ Render(d)

\* Mutant: unmounting the panel leaves the layers on the map.
Unmounted_Keeps(c) == [c EXCEPT !.activeRoute = NoRoute]

\* What unmounting the panel cleans up: nobody heeds its request any more, and
\* the layers go, if the map is still there.
Unmounted(c) ==
    IF c.ready THEN [c EXCEPT !.route = NoRoute, !.marks = <<>>,
                              !.activeRoute = NoRoute] ELSE c

Open(d) ==
    /\ panel' = [panel EXCEPT !.open = TRUE,
                              !.focus = IF panel.open THEN @ ELSE "to"]
    /\ Render(d)

(* ------------------------------- the panel ------------------------------ *)

End == IF panel.focus = "from" THEN 1 ELSE Len(dir.waypoints)

OpenPanel ==
    /\ ~panel.open
    /\ Open(dir)
    /\ UNCHANGED locating

\* Its X, another tab, or a click on the map.
ClosePanel ==
    /\ panel.open
    /\ panel' = [panel EXCEPT !.open = FALSE]
    /\ sync' = NoSync
    /\ canvas' = Unmounted(canvas)
    /\ UNCHANGED <<dir, inflight, locating>>

Focus(input) ==
    /\ panel.open
    /\ panel' = [panel EXCEPT !.focus = input]
    /\ UNCHANGED <<dir, sync, inflight, canvas, locating>>

\* onChangeLabel: typing changes the label and nothing else.
Type ==
    /\ panel.open
    /\ RenderHere(SetLabel(dir, End, "typed"))
    /\ UNCHANGED locating

\* A suggestion, offered only while the input has no point, or a recent place,
\* which goes to the input that was focused last.
PickSuggestion(p) ==
    /\ panel.open
    /\ dir.waypoints[End].point = NoPoint /\ dir.waypoints[End].label = "typed"
    /\ RenderHere(SetWaypoint(dir, End, p, p))
    /\ UNCHANGED locating

PickRecent(p) ==
    /\ panel.open
    /\ RenderHere(SetWaypoint(dir, End, p, p))
    /\ UNCHANGED locating

ChooseMode(mode) ==
    /\ panel.open
    /\ RenderHere(SetMode(dir, mode))
    /\ UNCHANGED locating

ChooseOptions(avoid) ==
    /\ panel.open
    /\ RenderHere(SetOptions(dir, avoid))
    /\ UNCHANGED locating

Swap ==
    /\ panel.open
    /\ RenderHere(SwapEnds(dir))
    /\ UNCHANGED locating

SelectAlternative(route) ==
    /\ panel.open /\ dir.route # NoRoute
    /\ RenderHere(SetRoute(dir, route, dir.alternatives))
    /\ UNCHANGED locating

ClearRoute ==
    /\ panel.open /\ dir.route # NoRoute
    /\ RenderHere(Fresh)
    /\ UNCHANGED locating

(* ---------------------- the rest of the page, the map ------------------- *)

\* "Directions from here" and "to here" of the context menu, the latter also
\* the button of the place card.
DirectionsFrom(p) ==
    /\ Open(SetStartFromPoint(dir, p))
    /\ UNCHANGED locating
DirectionsTo(p) ==
    /\ Open(SetEndFromPoint(dir, p))
    /\ UNCHANGED locating

\* "Your location" in the panel, and in the category results, whose handler
\* also clears the second waypoint.
Locate(who) ==
    /\ who \notin locating /\ Cardinality(locating) < MaxLocating
    /\ panel.open = (who = "panel")
    /\ locating' = locating \cup {who}
    /\ UNCHANGED <<dir, panel, sync, inflight, canvas>>

Located(who) ==
    /\ who \in locating
    /\ locating' = locating \ {who}
    /\ IF who = "panel"
       THEN RenderHere(SetWaypoint(dir, 1, Here, Here))
       ELSE Open(SetWaypoint(SetWaypoint(dir, 1, Here, Here), 2, "", NoPoint))

LocationRefused(who) ==
    /\ who \in locating
    /\ locating' = locating \ {who}
    /\ IF who = "panel" THEN RenderHere(dir) ELSE Open(dir)

MapLoad ==
    /\ ~canvas.ready
    /\ canvas' = IF panel.open THEN Drawn([canvas EXCEPT !.ready = TRUE], dir)
                 ELSE [canvas EXCEPT !.ready = TRUE]
    /\ UNCHANGED <<dir, panel, sync, inflight, locating>>

(* ------------------------------- the answers ---------------------------- *)

Answer(r, n) ==
    LET routes == [k \in 1..n |-> [inputs |-> r.inputs, number |-> k]]
        first  == IF n = 0 THEN NoRoute ELSE routes[1]
        mine   == r.id = sync.request
    IN  /\ inflight' = inflight \ {r}
        /\ sync' = IF mine THEN [sync EXCEPT !.status = "ok"] ELSE sync
        /\ dir' = IF mine /\ sync.heeded THEN SetRoute(dir, first, routes) ELSE dir
        /\ canvas' = IF panel.open THEN Drawn(canvas, dir') ELSE canvas
        /\ UNCHANGED <<panel, locating>>

AnswerError(r) ==
    /\ inflight' = inflight \ {r}
    /\ sync' = IF r.id = sync.request THEN [sync EXCEPT !.status = "error"] ELSE sync
    /\ UNCHANGED <<dir, panel, canvas, locating>>

Init ==
    \E link \in Links :
        /\ dir = Restored(Fresh, link)
        /\ panel = [open |-> FALSE, focus |-> "to"]
        /\ sync = NoSync
        /\ inflight = {}
        /\ canvas = [ready |-> FALSE, route |-> NoRoute, marks |-> <<>>,
                     activeRoute |-> NoRoute]
        /\ locating = {}

Next ==
    \/ OpenPanel \/ ClosePanel \/ Type \/ Swap \/ ClearRoute \/ MapLoad
    \/ \E input \in {"from", "to"} : Focus(input)
    \/ \E p \in Points : \/ PickSuggestion(p) \/ PickRecent(p)
                         \/ DirectionsFrom(p) \/ DirectionsTo(p)
    \/ \E mode \in Modes : ChooseMode(mode)
    \/ \E avoid \in AvoidSets : ChooseOptions(avoid)
    \/ \E i \in 1..Len(dir.alternatives) : SelectAlternative(dir.alternatives[i])
    \/ \E who \in {"panel", "results"} :
          Locate(who) \/ Located(who) \/ LocationRefused(who)
    \/ \E r \in inflight : AnswerError(r) \/ \E n \in 0..MaxRoutes : Answer(r, n)

Spec == Init /\ [][Next]_vars

(* ------------------------------ properties ------------------------------ *)

\* An open panel that waits for nothing and shows no error shows a route for
\* exactly what its inputs say, or none: whatever order the answers came in,
\* and whoever changed the inputs (use-route-sync.ts).
RouteAnswersInputs ==
    panel.open /\ sync.status = "ok" /\ dir.route # NoRoute
        => dir.route.inputs = Inputs(dir)

\* The line on the map is the one the panel lists, from the answer whose
\* alternatives it offers, and is gone with the panel: "the map never keeps a
\* dangling source/layer after the panel closes" (use-route-render.ts).
LineIsThePanels ==
    canvas.route # NoRoute =>
        /\ panel.open
        /\ canvas.route = dir.route
        /\ canvas.marks = Inputs(dir).locations
        /\ \E i \in 1..Len(dir.alternatives) : dir.alternatives[i] = dir.route

=============================================================================
