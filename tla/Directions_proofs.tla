--------------------------- MODULE Directions_proofs ---------------------------
(* Proofs about Directions: the line on the map is the one the open panel     *)
(* lists, and nothing is left of it when the panel goes.                      *)
EXTENDS Directions, TLAPS

(* ------------------------------- invariant ------------------------------- *)

HasFields(r, fields) == r = [f \in fields |-> r[f]]

DirFields == {"waypoints", "mode", "avoid", "route", "alternatives"}
CanvasFields == {"ready", "route", "marks", "activeRoute"}

Shapes ==
    /\ HasFields(dir, DirFields)
    /\ HasFields(panel, {"open", "focus"}) /\ panel.open \in BOOLEAN
    /\ HasFields(canvas, CanvasFields) /\ canvas.ready \in BOOLEAN

\* The route of d is one of those the panel lists.
Offered(d) ==
    d.route # NoRoute =>
        \E i \in 1..Len(d.alternatives) : d.alternatives[i] = d.route

Sound(d) == HasFields(d, DirFields) /\ Offered(d)

\* A handler turned d into e: the list is the same, or gone.
From(e, d) ==
    /\ Sound(e)
    /\ e.alternatives = d.alternatives \/ e.alternatives = <<>>

\* e and d ask for the same route.
SameAsk(e, d) ==
    e.waypoints = d.waypoints /\ e.mode = d.mode /\ e.avoid = d.avoid

\* c shows the route of d, over the points of d.
Shows(c, d) ==
    /\ c.route = d.route
    /\ c.route # NoRoute => c.marks = Inputs(d).locations

\* Without a panel, or before the map is there, nothing is drawn; an open panel
\* over a map has always been drawn.
DrawnInv ==
    /\ panel.open = FALSE \/ canvas.ready = FALSE => canvas.route = NoRoute
    /\ panel.open = TRUE /\ canvas.ready = TRUE => Shows(canvas, dir)

Inv == Shapes /\ Offered(dir) /\ DrawnInv

(* ------------------------------ the records ------------------------------- *)

LEMMA ExceptFields ==
    ASSUME NEW r, NEW fields, HasFields(r, fields), NEW f, NEW v
    PROVE  /\ HasFields([r EXCEPT ![f] = v], fields)
           /\ f \in fields => [r EXCEPT ![f] = v][f] = v
           /\ \A g \in fields \ {f} : [r EXCEPT ![f] = v][g] = r[g]
BY DEF HasFields

\* What writes to another field of the store keeps its route and its list.
LEMMA OtherField ==
    ASSUME NEW d, Sound(d), NEW f \in {"waypoints", "mode", "avoid"}, NEW v
    PROVE  From([d EXCEPT ![f] = v], d)
<1> DEFINE e == [d EXCEPT ![f] = v]
<1>1. HasFields(e, DirFields) /\ e.route = d.route
        /\ e.alternatives = d.alternatives
  BY ExceptFields DEF Sound, DirFields
<1> HIDE DEF e
<1>2. From(e, d)
  BY <1>1 DEF Sound, From, Offered
<1> QED BY <1>2 DEF e

LEMMA FromFrom ==
    ASSUME NEW c, NEW d, NEW e, From(e, d), From(d, c)
    PROVE  From(e, c)
BY DEF From

LEMMA InputOps ==
    ASSUME NEW d, Sound(d), NEW i, NEW v, NEW w
    PROVE  /\ From(SetMode(d, v), d) /\ From(SetOptions(d, v), d)
           /\ From(SetLabel(d, i, v), d) /\ From(SetWaypoint(d, i, v, w), d)
           /\ From(SwapEnds(d), d) /\ From(d, d)
           /\ From(SetStartFromPoint(d, v), d) /\ From(SetEndFromPoint(d, v), d)
<1>1. From(SetMode(d, v), d) /\ From(SetOptions(d, v), d)
  BY OtherField DEF SetMode, SetOptions
<1>2. From(SetLabel(d, i, v), d)
  BY OtherField DEF SetLabel
<1>3. ASSUME NEW j, NEW a, NEW b PROVE From(SetWaypoint(d, j, a, b), d)
  <2> DEFINE c == [d EXCEPT !.waypoints[j].label = a]
             e == [c EXCEPT !.waypoints[j].point = b]
  <2>1. From(c, d)
    BY OtherField
  <2>2. j \in 1..Len(d.waypoints) => SetWaypoint(d, j, a, b) = e
    BY DEF SetWaypoint
  <2> HIDE DEF c
  <2>3. From(e, c)
    BY <2>1, OtherField DEF From
  <2> HIDE DEF e
  <2>4. From(e, d) /\ From(d, d)
    BY <2>1, <2>3, FromFrom DEF From
  <2> QED BY <2>2, <2>4 DEF SetWaypoint
<1>4. From(SwapEnds(d), d)
  BY OtherField DEF SwapEnds
<1>5. From(d, d)
  BY DEF From
<1> QED BY <1>1, <1>2, <1>3, <1>4, <1>5 DEF SetStartFromPoint, SetEndFromPoint

\* A route is written with the list it comes from, or with none.
LEMMA RouteOp ==
    ASSUME NEW d, HasFields(d, DirFields), NEW route, NEW routes,
           route # NoRoute => \E i \in 1..Len(routes) : routes[i] = route
    PROVE  /\ Sound(SetRoute(d, route, routes))
           /\ SetRoute(d, route, routes).route = route
           /\ SetRoute(d, route, routes).alternatives = routes
           /\ SameAsk(SetRoute(d, route, routes), d)
<1> DEFINE c == [d EXCEPT !.route = route]
           e == [c EXCEPT !.alternatives = routes]
<1>1. HasFields(c, DirFields) /\ c.route = route /\ SameAsk(c, d)
  BY ExceptFields DEF DirFields, SameAsk
<1>2. e = SetRoute(d, route, routes)
  BY DEF SetRoute
<1> HIDE DEF c
<1>3. HasFields(e, DirFields) /\ e.alternatives = routes /\ e.route = c.route
        /\ SameAsk(e, c)
  <2>1. HasFields(e, DirFields) /\ e.alternatives = routes
    BY <1>1, ExceptFields DEF DirFields
  <2>2. \A g \in DirFields \ {"alternatives"} : e[g] = c[g]
    BY <1>1 DEF HasFields
  <2> QED BY <2>1, <2>2 DEF DirFields, SameAsk
<1> HIDE DEF e
<1>4. Sound(e) /\ SameAsk(e, d)
  BY <1>1, <1>3 DEF Sound, Offered, SameAsk
<1> QED BY <1>1, <1>2, <1>3, <1>4

LEMMA FreshSound ==
    Sound(Fresh) /\ Fresh.route = NoRoute /\ Fresh.alternatives = <<>>
BY DEF Fresh, Sound, Offered, HasFields, DirFields

(* -------------------------------- the page -------------------------------- *)

\* Drawing d on a canvas without a line, or with one.
LEMMA DrawnShows ==
    ASSUME NEW c, HasFields(c, CanvasFields), NEW d
    PROVE  /\ HasFields(Drawn(c, d), CanvasFields)
           /\ Drawn(c, d).ready = c.ready
           /\ ~c.ready => Drawn(c, d) = c
           /\ c.ready => Shows(Drawn(c, d), d)
<1>1. CASE ~c.ready
  BY <1>1 DEF Drawn
<1>2. CASE c.ready /\ d.route = NoRoute
  BY <1>2 DEF Drawn, Shows, HasFields, CanvasFields
<1>3. CASE c.ready /\ d.route # NoRoute
  BY <1>3 DEF Drawn, Shows, HasFields, CanvasFields
<1> QED BY <1>1, <1>2, <1>3

\* Whatever a handler left in d, the page after it is as it should be.
LEMMA RenderStep ==
    ASSUME Inv, NEW d, From(d, dir), Render(d), canvas' = canvas \/ panel'.open,
           HasFields(panel', {"open", "focus"}),
           panel'.open = TRUE \/ panel' = panel
    PROVE  Inv'
<1>1. CASE panel'.open
  <2>1. Sound(dir')
    <3>1. dir' = d \/ dir' = SetRoute(d, NoRoute, <<>>)
      BY <1>1 DEF Render, Sync
    <3> QED BY <3>1, RouteOp DEF From, Sound
  <2>2. canvas' = Drawn(canvas, dir')
    BY <1>1 DEF Render
  <2>3. /\ HasFields(canvas', CanvasFields) /\ canvas'.ready = canvas.ready
        /\ ~canvas.ready => canvas' = canvas
        /\ canvas.ready => Shows(canvas', dir')
    BY <2>2, DrawnShows DEF Inv, Shapes
  <2>4. panel'.open = TRUE
    BY <1>1 DEF Inv, Shapes
  <2>5. Shapes' /\ Offered(dir')
    BY <2>1, <2>3, <2>4 DEF Inv, Shapes, Sound
  <2>6. canvas'.ready = FALSE => canvas'.route = NoRoute
    BY <2>3 DEF Inv, DrawnInv
  <2>7. canvas'.ready = TRUE => Shows(canvas', dir')
    BY <2>3
  <2>8. DrawnInv'
    BY <2>4, <2>6, <2>7 DEF DrawnInv, Shows
  <2> QED BY <2>5, <2>8 DEF Inv, Offered
<1>2. CASE ~panel'.open
  <2>1. dir' = d /\ canvas' = canvas /\ panel' = panel /\ panel.open = FALSE
    BY <1>2 DEF Render, Inv, Shapes
  <2> QED BY <2>1 DEF Inv, Shapes, DrawnInv, From, Sound, Offered
<1> QED BY <1>1, <1>2

LEMMA HereStep == Inv => \A d : From(d, dir) /\ RenderHere(d) => Inv'
<1> SUFFICES ASSUME Inv, NEW d, From(d, dir), RenderHere(d) PROVE Inv'
  OBVIOUS
<1>1. Render(d) /\ panel' = panel /\ HasFields(panel', {"open", "focus"})
  BY DEF RenderHere, Inv, Shapes
<1>2. canvas' = canvas \/ panel'.open
  BY <1>1 DEF Render
<1> QED BY <1>1, <1>2, RenderStep

LEMMA OpenStep == Inv => \A d : From(d, dir) /\ Open(d) => Inv'
<1> SUFFICES ASSUME Inv, NEW d, From(d, dir), Open(d) PROVE Inv'
  OBVIOUS
<1> DEFINE f == IF panel.open THEN panel.focus ELSE "to"
           p == [panel EXCEPT !.open = TRUE]
<1>1. panel' = [p EXCEPT !.focus = f] /\ Render(d)
  BY DEF Open
<1>2. HasFields(p, {"open", "focus"}) /\ p.open = TRUE
  BY ExceptFields DEF Inv, Shapes
<1> HIDE DEF p, f
<1>3. HasFields(panel', {"open", "focus"}) /\ panel'.open = TRUE
  BY <1>1, <1>2, ExceptFields
<1> QED BY <1>1, <1>3, RenderStep

LEMMA InvInit == Init => Inv
<1> SUFFICES ASSUME Init PROVE Inv
  OBVIOUS
<1> PICK link \in Links : dir = Restored(Fresh, link)
  BY DEF Init
<1>1. Sound(dir)
  <2>1. dir = Fresh \/ \E v : dir = [Fresh EXCEPT !.waypoints = v]
    BY DEF Restored
  <2> QED BY <2>1, FreshSound, OtherField DEF From
<1>2. panel = [open |-> FALSE, focus |-> "to"]
        /\ canvas = [ready |-> FALSE, route |-> NoRoute, marks |-> <<>>,
                     activeRoute |-> NoRoute]
  BY DEF Init
<1>3. HasFields(panel, {"open", "focus"}) /\ panel.open = FALSE
  BY <1>2 DEF HasFields
<1>4. HasFields(canvas, CanvasFields) /\ canvas.ready = FALSE
        /\ canvas.route = NoRoute
  BY <1>2 DEF HasFields, CanvasFields
<1> QED BY <1>1, <1>3, <1>4 DEF Inv, Shapes, DrawnInv, Sound

LEMMA AnswerStep ==
    ASSUME Inv, NEW r \in inflight, NEW n \in 0..MaxRoutes, Answer(r, n)
    PROVE  Inv'
<1> DEFINE routes == [k \in 1..n |-> [inputs |-> r.inputs, number |-> k]]
           first == IF n = 0 THEN NoRoute ELSE routes[1]
<1>1. n \in Nat
  BY DirectionsAssumption DEF DirectionsAssumption
<1>2. first # NoRoute => \E i \in 1..Len(routes) : routes[i] = first
  <2>1. Len(routes) = n
    BY <1>1
  <2>2. n # 0 => 1 \in 1..n
    BY <1>1
  <2> QED BY <2>1, <2>2
<1>3. dir' = SetRoute(dir, first, routes) \/ dir' = dir
  BY DEF Answer
<1>4. panel' = panel
        /\ canvas' = IF panel.open THEN Drawn(canvas, dir') ELSE canvas
  BY DEF Answer
<1> HIDE DEF routes, first
<1>5. Sound(dir')
  BY <1>2, <1>3, RouteOp DEF Inv, Shapes, Sound
<1>6. CASE ~panel.open
  BY <1>4, <1>5, <1>6 DEF Inv, Shapes, DrawnInv, Sound, Offered
<1>7. CASE panel.open
  <2>1. /\ HasFields(canvas', CanvasFields) /\ canvas'.ready = canvas.ready
        /\ ~canvas.ready => canvas' = canvas
        /\ canvas.ready => Shows(canvas', dir')
    BY <1>4, <1>7, DrawnShows DEF Inv, Shapes
  <2>2. Shapes' /\ Offered(dir')
    BY <1>4, <1>5, <2>1 DEF Inv, Shapes, Sound
  <2>3. DrawnInv'
    BY <1>4, <1>7, <2>1 DEF Inv, Shapes, DrawnInv, Shows
  <2> QED BY <2>2, <2>3 DEF Inv, Offered
<1> QED BY <1>6, <1>7

LEMMA MapLoadStep == Inv /\ MapLoad => Inv'
<1> SUFFICES ASSUME Inv, MapLoad PROVE Inv'
  OBVIOUS
<1> DEFINE c == [canvas EXCEPT !.ready = TRUE]
<1>1. HasFields(c, CanvasFields) /\ c.ready = TRUE /\ c.route = canvas.route
  BY ExceptFields DEF Inv, Shapes, CanvasFields
<1>2. canvas.ready = FALSE /\ canvas.route = NoRoute
  BY DEF MapLoad, Inv, Shapes, DrawnInv
<1>3. canvas' = IF panel.open THEN Drawn(c, dir) ELSE c
  BY DEF MapLoad
<1>4. dir' = dir /\ panel' = panel
  BY DEF MapLoad
<1> HIDE DEF c
<1>5. HasFields(canvas', CanvasFields) /\ canvas'.ready = TRUE
        /\ (panel.open => Shows(canvas', dir))
        /\ (~panel.open => canvas'.route = NoRoute)
  BY <1>1, <1>2, <1>3, DrawnShows
<1>6. Shapes' /\ Offered(dir')
  BY <1>4, <1>5 DEF Inv, Shapes
<1>7. DrawnInv'
  BY <1>4, <1>5 DEF Inv, Shapes, DrawnInv, Shows
<1> QED BY <1>4, <1>6, <1>7 DEF Inv, Offered

LEMMA CloseStep == Inv /\ ClosePanel => Inv'
<1> SUFFICES ASSUME Inv, ClosePanel PROVE Inv'
  OBVIOUS
<1>1. panel' = [panel EXCEPT !.open = FALSE] /\ dir' = dir
        /\ canvas' = Unmounted(canvas)
  BY DEF ClosePanel
<1>2. HasFields(panel', {"open", "focus"}) /\ panel'.open = FALSE
  BY <1>1, ExceptFields DEF Inv, Shapes
<1>3. HasFields(canvas', CanvasFields) /\ canvas'.ready = canvas.ready
        /\ canvas'.route = NoRoute
  <2>1. CASE canvas.ready
    BY <1>1, <2>1 DEF Unmounted, Inv, Shapes, HasFields, CanvasFields
  <2>2. CASE ~canvas.ready
    BY <1>1, <2>2 DEF Unmounted, Inv, Shapes, DrawnInv
  <2> QED BY <2>1, <2>2
<1> QED BY <1>1, <1>2, <1>3 DEF Inv, Shapes, DrawnInv, Offered

LEMMA NextInv == Inv /\ [Next]_vars => Inv'
<1> SUFFICES ASSUME Inv, [Next]_vars PROVE Inv'
  OBVIOUS
<1> Sound(dir)
  BY DEF Inv, Shapes, Sound
<1>1. CASE OpenPanel
  BY <1>1, OpenStep, InputOps DEF OpenPanel
<1>2. CASE ClosePanel
  BY <1>2, CloseStep
<1>3. CASE Type \/ Swap \/ ClearRoute
  <2>1. From(Fresh, dir)
    BY FreshSound DEF From
  <2> QED BY <1>3, <2>1, HereStep, InputOps DEF Type, Swap, ClearRoute
<1>4. CASE MapLoad
  BY <1>4, MapLoadStep
<1>5. ASSUME NEW input, Focus(input) PROVE Inv'
  <2>1. panel' = [panel EXCEPT !.focus = input] /\ dir' = dir /\ canvas' = canvas
    BY <1>5 DEF Focus
  <2>2. HasFields(panel', {"open", "focus"}) /\ panel'.open = panel.open
    BY <2>1, ExceptFields DEF Inv, Shapes
  <2> QED BY <2>1, <2>2 DEF Inv, Shapes, DrawnInv, Offered
<1>6. ASSUME NEW p, PickSuggestion(p) \/ PickRecent(p) PROVE Inv'
  BY <1>6, HereStep, InputOps DEF PickSuggestion, PickRecent
<1>7. ASSUME NEW p, DirectionsFrom(p) \/ DirectionsTo(p) PROVE Inv'
  BY <1>7, OpenStep, InputOps DEF DirectionsFrom, DirectionsTo
<1>8. ASSUME NEW v, ChooseMode(v) \/ ChooseOptions(v) PROVE Inv'
  BY <1>8, HereStep, InputOps DEF ChooseMode, ChooseOptions
<1>9. ASSUME NEW i \in 1..Len(dir.alternatives),
             SelectAlternative(dir.alternatives[i])
      PROVE  Inv'
  <2>1. From(SetRoute(dir, dir.alternatives[i], dir.alternatives), dir)
    BY RouteOp DEF Sound, From
  <2> QED BY <1>9, <2>1, HereStep DEF SelectAlternative
<1>10. ASSUME NEW who, Locate(who) PROVE Inv'
  BY <1>10 DEF Locate, Inv, Shapes, DrawnInv, Offered
<1>11. ASSUME NEW who, Located(who) \/ LocationRefused(who) PROVE Inv'
  <2> DEFINE d == SetWaypoint(dir, 1, Here, Here)
  <2>1. From(d, dir) /\ From(dir, dir)
    BY InputOps
  <2> HIDE DEF d
  <2>2. From(SetWaypoint(d, 2, "", NoPoint), d)
    BY <2>1, InputOps DEF From
  <2>3. From(SetWaypoint(d, 2, "", NoPoint), dir)
    BY <2>1, <2>2, FromFrom
  <2>4. CASE Located(who)
    BY <2>1, <2>3, <2>4, HereStep, OpenStep DEF d, Located
  <2>5. CASE LocationRefused(who)
    BY <2>1, <2>5, HereStep, OpenStep DEF LocationRefused
  <2> QED BY <1>11, <2>4, <2>5
<1>12. ASSUME NEW r \in inflight, AnswerError(r) PROVE Inv'
  BY <1>12 DEF AnswerError, Inv, Shapes, DrawnInv, Offered
<1>13. ASSUME NEW r \in inflight, NEW n \in 0..MaxRoutes, Answer(r, n) PROVE Inv'
  BY <1>13, AnswerStep
<1>14. CASE UNCHANGED vars
  BY <1>14 DEF vars, Inv, Shapes, DrawnInv, Offered
<1> QED
  BY <1>1, <1>2, <1>3, <1>4, <1>5, <1>6, <1>7, <1>8, <1>9, <1>10, <1>11, <1>12,
     <1>13, <1>14
  DEF Next

(* -------------------------- what was asked for ---------------------------- *)

SyncFields == {"key", "request", "status", "heeded"}

\* A closed panel heeds nobody.
ClosedInv ==
    panel.open = FALSE =>
        sync.request = 0 /\ sync.heeded = FALSE /\ sync.status # "ok"

\* An open panel has run its effect on the inputs it shows; the request it
\* heeds is for them, and so is every route of the answer it has.  A request
\* it ignores was given up for want of points, with the route.
OpenInv ==
    panel.open = TRUE =>
        /\ sync.key = DepsKey(dir)
        /\ sync.heeded = FALSE => sync.request = 0 \/ dir.alternatives = <<>>
        /\ sync.heeded = TRUE =>
              \A r \in inflight : r.id = sync.request => r.inputs = Inputs(dir)
        /\ sync.status = "ok" =>
              \A i \in 1..Len(dir.alternatives) :
                 dir.alternatives[i].inputs = Inputs(dir)

AskInv ==
    /\ HasFields(sync, SyncFields) /\ sync.heeded \in BOOLEAN
    /\ \A r \in inflight : r.id \in 1..MaxRequests
    /\ ClosedInv /\ OpenInv

LEMMA SameInputs ==
    ASSUME NEW d, NEW e, SameAsk(e, d)
    PROVE  Inputs(e) = Inputs(d) /\ DepsKey(e) = DepsKey(d)
BY DEF SameAsk, Inputs, Resolved, Spots, DepsKey

\* The key of the effect leaves nothing out: with the same key, the same route
\* is asked for.
LEMMA KeyDecides ==
    ASSUME NEW d, NEW e, DepsKey(e) = DepsKey(d)
    PROVE  Inputs(e) = Inputs(d)
<1> DEFINE Ids(c) == [i \in 1..Len(c.waypoints) |->
                        <<c.waypoints[i].id, c.waypoints[i].point>>]
<1>1. Ids(e) = Ids(d) /\ e.mode = d.mode /\ e.avoid = d.avoid
  BY DEF DepsKey
<1>2. 1..Len(e.waypoints) = 1..Len(d.waypoints)
  <2>1. DOMAIN Ids(e) = 1..Len(e.waypoints) /\ DOMAIN Ids(d) = 1..Len(d.waypoints)
    OBVIOUS
  <2> HIDE DEF Ids
  <2> QED BY <1>1, <2>1
<1>3. ASSUME NEW i \in 1..Len(d.waypoints)
      PROVE  e.waypoints[i].point = d.waypoints[i].point
  <2>1. /\ Ids(e)[i] = <<e.waypoints[i].id, e.waypoints[i].point>>
        /\ Ids(d)[i] = <<d.waypoints[i].id, d.waypoints[i].point>>
    BY <1>2
  <2> HIDE DEF Ids
  <2> QED BY <1>1, <2>1
<1>4. Spots(e) = Spots(d)
  BY <1>2, <1>3 DEF Spots
<1> QED BY <1>1, <1>4 DEF Inputs, Resolved

LEMMA AskInit == Init => AskInv
<1> SUFFICES ASSUME Init PROVE AskInv
  OBVIOUS
<1>1. sync = NoSync /\ inflight = {} /\ panel.open = FALSE
  BY DEF Init
<1> QED BY <1>1
    DEF AskInv, ClosedInv, OpenInv, NoSync, HasFields, SyncFields

LEMMA AskRender ==
    ASSUME Inv, AskInv, NEW d, From(d, dir), Render(d),
           panel'.open = TRUE \/ panel' = panel
    PROVE  AskInv'
<1>1. CASE panel'.open = FALSE
  <2>1. panel' = panel /\ sync' = sync /\ inflight' = inflight
    BY <1>1 DEF Render
  <2> QED BY <1>1, <2>1 DEF AskInv, ClosedInv, OpenInv
<1>2. CASE panel'.open = TRUE
  <2>0. Sync(d) /\ HasFields(d, DirFields)
    BY <1>2 DEF Render, From, Sound
  <2> SUFFICES /\ HasFields(sync', SyncFields) /\ sync'.heeded \in BOOLEAN
               /\ \A r \in inflight' : r.id \in 1..MaxRequests
               /\ sync'.key = DepsKey(dir')
               /\ sync'.heeded = FALSE =>
                     sync'.request = 0 \/ dir'.alternatives = <<>>
               /\ sync'.heeded = TRUE =>
                     \A r \in inflight' :
                        r.id = sync'.request => r.inputs = Inputs(dir')
               /\ sync'.status = "ok" =>
                     \A i \in 1..Len(dir'.alternatives) :
                        dir'.alternatives[i].inputs = Inputs(dir')
    BY <1>2 DEF AskInv, ClosedInv, OpenInv
  <2>1. CASE sync.key = DepsKey(d)
    <3>1. dir' = d /\ sync' = sync /\ inflight' = inflight
      BY <2>0, <2>1 DEF Sync
    <3>2. CASE panel.open = FALSE
      BY <2>1, <3>1, <3>2 DEF AskInv, ClosedInv
    <3>3. CASE panel.open = TRUE
      <4>1. Inputs(d) = Inputs(dir)
        BY <2>1, <3>3, KeyDecides DEF AskInv, OpenInv
      <4>2. d.alternatives = dir.alternatives \/ d.alternatives = <<>>
        BY DEF From
      <4> QED BY <2>1, <3>1, <3>3, <4>1, <4>2 DEF AskInv, OpenInv
    <3> QED BY <3>2, <3>3 DEF Inv, Shapes
  <2>2. CASE sync.key # DepsKey(d) /\ Len(Resolved(d)) < 2
    <3> DEFINE s == [sync EXCEPT !.key = DepsKey(d)]
               t == [s EXCEPT !.heeded = FALSE]
               e == SetRoute(d, NoRoute, <<>>)
    <3>1. dir' = e /\ sync' = t /\ inflight' = inflight
      BY <2>0, <2>2 DEF Sync
    <3>2. HasFields(s, SyncFields) /\ s.key = DepsKey(d)
      BY ExceptFields DEF AskInv, SyncFields
    <3> HIDE DEF s
    <3>3. HasFields(t, SyncFields) /\ t.heeded = FALSE /\ t.key = s.key
      BY <3>2, ExceptFields DEF SyncFields
    <3> HIDE DEF t
    <3>4. e.alternatives = <<>> /\ SameAsk(e, d)
      BY <2>0, RouteOp
    <3>5. DepsKey(e) = DepsKey(d)
      BY <3>4, SameInputs
    <3> HIDE DEF e
    <3>6. \A i \in 1..Len(dir'.alternatives) : FALSE
      BY <3>1, <3>4
    <3>7. HasFields(sync', SyncFields) /\ sync'.heeded = FALSE
            /\ sync'.key = DepsKey(dir')
      BY <3>1, <3>2, <3>3, <3>5
    <3>8. dir'.alternatives = <<>> /\ \A r \in inflight' : r.id \in 1..MaxRequests
      BY <3>1, <3>4 DEF AskInv
    <3> QED BY <3>6, <3>7, <3>8
  <2>3. CASE sync.key # DepsKey(d) /\ ~(Len(Resolved(d)) < 2)
    <3> DEFINE id == CHOOSE i \in FreeIds : TRUE
    <3>1. /\ FreeIds # {} /\ dir' = d
          /\ sync' = [key |-> DepsKey(d), request |-> id,
                      status |-> "pending", heeded |-> TRUE]
          /\ inflight' = inflight \cup {[id |-> id, inputs |-> Inputs(d)]}
      BY <2>0, <2>3 DEF Sync
    <3>2. id \in FreeIds
      BY <3>1
    <3> HIDE DEF id
    <3>3. id \in 1..MaxRequests /\ \A r \in inflight : r.id # id
      BY <3>2 DEF FreeIds
    <3>4. HasFields(sync', SyncFields)
      BY <3>1 DEF HasFields, SyncFields
    <3>5. \A r \in inflight' :
             /\ r.id \in 1..MaxRequests
             /\ r.id = sync'.request => r.inputs = Inputs(dir')
      BY <3>1, <3>3 DEF AskInv
    <3> QED BY <3>1, <3>4, <3>5
  <2> QED BY <2>1, <2>2, <2>3
<1> QED BY <1>1, <1>2 DEF Inv, Shapes

LEMMA AskAnswer ==
    ASSUME Inv, AskInv, NEW r \in inflight, NEW n \in 0..MaxRoutes, Answer(r, n)
    PROVE  AskInv'
<1> DEFINE routes == [k \in 1..n |-> [inputs |-> r.inputs, number |-> k]]
           first == IF n = 0 THEN NoRoute ELSE routes[1]
           mine == r.id = sync.request
           e == SetRoute(dir, first, routes)
           s == [sync EXCEPT !.status = "ok"]
<1>1. /\ panel' = panel /\ inflight' = inflight \ {r}
      /\ sync' = IF mine THEN s ELSE sync
      /\ dir' = IF mine /\ sync.heeded THEN e ELSE dir
  BY DEF Answer
<1>2. CASE ~mine
  BY <1>1, <1>2 DEF AskInv, ClosedInv, OpenInv
<1>3. CASE mine
  <2>1. r.id # 0
    BY DirectionsAssumption DEF DirectionsAssumption, AskInv
  <2>2. panel.open = TRUE
    BY <1>3, <2>1 DEF Inv, Shapes, AskInv, ClosedInv
  <2>3. HasFields(s, SyncFields) /\ s.status = "ok" /\ s.key = sync.key
          /\ s.request = sync.request /\ s.heeded = sync.heeded
    <3>1. HasFields(s, SyncFields) /\ s.status = "ok"
      BY ExceptFields DEF AskInv, SyncFields
    <3>2. \A g \in SyncFields \ {"status"} : s[g] = sync[g]
      BY DEF AskInv, HasFields
    <3> QED BY <3>1, <3>2 DEF SyncFields
  <2> HIDE DEF s
  <2>4. CASE sync.heeded = TRUE
    <3>1. n \in Nat
      BY DirectionsAssumption DEF DirectionsAssumption
    <3>2. \A i \in 1..Len(routes) : routes[i].inputs = Inputs(dir)
      <4>1. r.inputs = Inputs(dir)
        BY <1>3, <2>2, <2>4 DEF AskInv, OpenInv
      <4>2. Len(routes) = n
        BY <3>1
      <4> QED BY <4>1, <4>2
    <3>3. first # NoRoute => \E i \in 1..Len(routes) : routes[i] = first
      <4>1. Len(routes) = n
        BY <3>1
      <4>2. n # 0 => 1 \in 1..n
        BY <3>1
      <4> QED BY <4>1, <4>2
    <3> HIDE DEF routes, first
    <3>4. e.alternatives = routes /\ SameAsk(e, dir)
      BY <3>3, RouteOp DEF Inv, Shapes
    <3>5. Inputs(e) = Inputs(dir) /\ DepsKey(e) = DepsKey(dir)
      BY <3>4, SameInputs
    <3> HIDE DEF e
    <3>6. dir' = e /\ sync' = s
      BY <1>1, <1>3, <2>4
    <3>7. Inputs(dir') = Inputs(dir) /\ DepsKey(dir') = DepsKey(dir)
            /\ dir'.alternatives = routes
      BY <3>4, <3>5, <3>6
    <3>8. ClosedInv'
      BY <1>1, <2>2 DEF ClosedInv
    <3>9. sync'.key = DepsKey(dir') /\ sync'.heeded = TRUE
      BY <2>2, <2>3, <2>4, <3>6, <3>7 DEF AskInv, OpenInv
    <3>10. \A q \in inflight' : q.id = sync'.request => q.inputs = Inputs(dir')
      BY <1>1, <2>2, <2>3, <2>4, <3>6, <3>7 DEF AskInv, OpenInv
    <3>11. \A i \in 1..Len(dir'.alternatives) :
              dir'.alternatives[i].inputs = Inputs(dir')
      BY <3>2, <3>7
    <3>12. OpenInv'
      BY <3>9, <3>10, <3>11 DEF OpenInv
    <3> QED BY <1>1, <2>3, <2>4, <3>6, <3>8, <3>12 DEF AskInv
  <2>5. CASE sync.heeded = FALSE
    <3>1. dir' = dir /\ sync' = s /\ dir.alternatives = <<>>
      BY <1>1, <1>3, <2>1, <2>2, <2>5 DEF AskInv, OpenInv
    <3>2. ClosedInv' /\ OpenInv'
      BY <1>1, <2>2, <2>3, <2>5, <3>1
      DEF AskInv, ClosedInv, OpenInv
    <3> QED BY <1>1, <2>3, <2>5, <3>1, <3>2 DEF AskInv
  <2> QED BY <2>4, <2>5 DEF AskInv
<1> QED BY <1>2, <1>3


LEMMA AskNext == Inv /\ AskInv /\ [Next]_vars => AskInv'
<1> SUFFICES ASSUME Inv, AskInv, [Next]_vars PROVE AskInv'
  OBVIOUS
<1> Sound(dir)
  BY DEF Inv, Shapes, Sound
<1>1. ASSUME NEW d, From(d, dir), RenderHere(d) PROVE AskInv'
  BY <1>1, AskRender DEF RenderHere
<1>2. ASSUME NEW d, From(d, dir), Open(d) PROVE AskInv'
  <2>1. panel'.open = TRUE
    <3> DEFINE f == IF panel.open THEN panel.focus ELSE "to"
               p == [panel EXCEPT !.open = TRUE]
    <3>1. panel' = [p EXCEPT !.focus = f]
      BY <1>2 DEF Open
    <3>2. HasFields(p, {"open", "focus"}) /\ p.open = TRUE
      BY ExceptFields DEF Inv, Shapes
    <3> HIDE DEF p, f
    <3> QED BY <3>1, <3>2, ExceptFields
  <2> QED BY <1>2, <2>1, AskRender DEF Open
<1>3. CASE OpenPanel
  BY <1>2, <1>3, InputOps DEF OpenPanel
<1>4. CASE ClosePanel
  <2>1. panel'.open = FALSE
    BY <1>4, ExceptFields DEF ClosePanel, Inv, Shapes
  <2>2. sync' = NoSync /\ inflight' = inflight
    BY <1>4 DEF ClosePanel
  <2> QED BY <2>1, <2>2
      DEF AskInv, ClosedInv, OpenInv, NoSync, HasFields, SyncFields
<1>5. CASE Type \/ Swap \/ ClearRoute
  <2>1. From(Fresh, dir)
    BY FreshSound DEF From
  <2> QED BY <1>1, <1>5, <2>1, InputOps DEF Type, Swap, ClearRoute
<1>6. ASSUME NEW input, Focus(input) PROVE AskInv'
  <2>1. panel'.open = panel.open
    <3>1. panel' = [panel EXCEPT !.focus = input]
      BY <1>6 DEF Focus
    <3> QED BY <3>1, ExceptFields DEF Inv, Shapes
  <2> QED BY <1>6, <2>1 DEF Focus, AskInv, ClosedInv, OpenInv
<1>7. ASSUME NEW p, PickSuggestion(p) \/ PickRecent(p) PROVE AskInv'
  BY <1>1, <1>7, InputOps DEF PickSuggestion, PickRecent
<1>8. ASSUME NEW p, DirectionsFrom(p) \/ DirectionsTo(p) PROVE AskInv'
  BY <1>2, <1>8, InputOps DEF DirectionsFrom, DirectionsTo
<1>9. ASSUME NEW v, ChooseMode(v) \/ ChooseOptions(v) PROVE AskInv'
  BY <1>1, <1>9, InputOps DEF ChooseMode, ChooseOptions
<1>10. ASSUME NEW i \in 1..Len(dir.alternatives),
              SelectAlternative(dir.alternatives[i])
       PROVE  AskInv'
  <2>1. From(SetRoute(dir, dir.alternatives[i], dir.alternatives), dir)
    BY RouteOp DEF Sound, From
  <2> QED BY <1>1, <1>10, <2>1 DEF SelectAlternative
<1>11. ASSUME NEW who, Located(who) \/ LocationRefused(who) PROVE AskInv'
  <2> DEFINE d == SetWaypoint(dir, 1, Here, Here)
  <2>1. From(d, dir) /\ From(dir, dir)
    BY InputOps
  <2> HIDE DEF d
  <2>2. From(SetWaypoint(d, 2, "", NoPoint), d)
    BY <2>1, InputOps DEF From
  <2>3. From(SetWaypoint(d, 2, "", NoPoint), dir)
    BY <2>1, <2>2, FromFrom
  <2>4. CASE Located(who)
    BY <1>1, <1>2, <2>1, <2>3, <2>4 DEF d, Located
  <2>5. CASE LocationRefused(who)
    BY <1>1, <1>2, <2>1, <2>5 DEF LocationRefused
  <2> QED BY <1>11, <2>4, <2>5
<1>12. ASSUME NEW r \in inflight, AnswerError(r) PROVE AskInv'
  <2> DEFINE s == [sync EXCEPT !.status = "error"]
  <2>1. /\ panel' = panel /\ dir' = dir /\ inflight' = inflight \ {r}
        /\ sync' = IF r.id = sync.request THEN s ELSE sync
    BY <1>12 DEF AnswerError
  <2>2. HasFields(s, SyncFields) /\ s.status = "error"
    <3>1. HasFields(s, SyncFields)
      BY ExceptFields DEF AskInv
    <3>2. s.status = "error"
      BY DEF AskInv, HasFields, SyncFields
    <3> QED BY <3>1, <3>2
  <2>3. \A g \in SyncFields \ {"status"} : s[g] = sync[g]
    BY DEF AskInv, HasFields
  <2>4. s.key = sync.key /\ s.request = sync.request /\ s.heeded = sync.heeded
    BY <2>3 DEF SyncFields
  <2> HIDE DEF s
  <2> QED BY <2>1, <2>2, <2>4 DEF AskInv, ClosedInv, OpenInv
<1>13. ASSUME NEW r \in inflight, NEW n \in 0..MaxRoutes, Answer(r, n)
       PROVE  AskInv'
  BY <1>13, AskAnswer
<1>14. CASE UNCHANGED <<dir, panel, sync, inflight>>
  BY <1>14 DEF AskInv, ClosedInv, OpenInv
<1>15. MapLoad \/ (\E who : Locate(who)) \/ UNCHANGED vars
          => UNCHANGED <<dir, panel, sync, inflight>>
  BY DEF MapLoad, Locate, vars
<1> QED
  BY <1>3, <1>4, <1>5, <1>6, <1>7, <1>8, <1>9, <1>10, <1>11, <1>12, <1>13, <1>14,
     <1>15
  DEF Next

(* -------------------------------- theorems -------------------------------- *)

LEMMA InvLine == Inv => LineIsThePanels
BY DEF Inv, Shapes, DrawnInv, Shows, Offered, LineIsThePanels

\* The line on the map is the one the open panel lists, over the points its
\* inputs hold, whatever the order of answers, positions and map events; with
\* the panel it goes (use-route-render.ts).
THEOREM LineBelongsToThePanel == Spec => []LineIsThePanels
<1>1. Init => Inv
  BY InvInit
<1>2. Inv /\ [Next]_vars => Inv'
  BY NextInv
<1>3. Inv => LineIsThePanels
  BY InvLine
<1> QED BY <1>1, <1>2, <1>3, PTL DEF Spec

LEMMA InvAnswers == Inv /\ AskInv => RouteAnswersInputs
BY DEF Inv, Shapes, Offered, AskInv, OpenInv, RouteAnswersInputs

\* An open panel that waits for nothing and shows no error lists routes for
\* exactly the points, mode and options it shows: an answer to an earlier
\* request is never taken for the current one, although ids are reused, and
\* nobody changes the inputs behind the effect (use-route-sync.ts).
THEOREM AnswersAreForTheInputs == Spec => []RouteAnswersInputs
<1>1. Init => Inv /\ AskInv
  BY InvInit, AskInit
<1>2. Inv /\ AskInv /\ [Next]_vars => Inv' /\ AskInv'
  BY NextInv, AskNext
<1>3. Inv /\ AskInv => RouteAnswersInputs
  BY InvAnswers
<1> QED BY <1>1, <1>2, <1>3, PTL DEF Spec

=============================================================================
