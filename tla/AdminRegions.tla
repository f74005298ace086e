---------------------------- MODULE AdminRegions ----------------------------
(***************************************************************************)
(* The Regions page of the admin panel (src/ui/app/admin/regions/page.tsx *)
(* and the components it renders): the table of installed regions and its  *)
(* buttons, the catalogue, the install and delete dialogs, the five         *)
(* mutations behind them, the query caches they refresh (lib/api/hooks.ts)  *)
(* and the event stream that also writes to one of them                    *)
(* (lib/admin/regions/use-region-stream.ts).                               *)
(***************************************************************************)
EXTENDS Naturals, Sequences, FiniteSets

CONSTANTS
    Regions,     \* region keys of the catalogue
    Installed,   \* the ones that are ready when the page opens
    Broken,      \* the ones whose builds fail
    NoRegion,    \* no target, no active region
    NoRows,      \* a list that is not loaded, a fetch without an answer
    Schedules,   \* the schedules the user picks
    Faults,      \* what can go wrong with a request
    MaxClicks,   \* bound on the mutations the user starts
    MaxEvents    \* bound on the events under way in the socket

FaultKinds == {"request_lost", "answer_lost"}

ASSUME AdminAssumption ==
    /\ NoRegion \notin Regions /\ Installed \subseteq Regions
    /\ Broken \subseteq Regions
    /\ Schedules # {} /\ Faults \subseteq FaultKinds
    /\ MaxClicks \in Nat /\ MaxEvents \in Nat

VARIABLES
    rows,       \* the server's regions table
    routed,     \* the server's routing.activeRegion
    list,       \* query ["regions","list"]: its data and its fetch
    settings,   \* query ["settings","tree"]: routing.activeRegion, its fetch
    mutation,   \* per hook: the mutation its observer follows
    requests,   \* mutations under way
    install,    \* InstallDialog: the region it is open for
    delete,     \* DeleteDialog: the region it is open for, the typed name
    socket,     \* useRegionStream: the events under way
    clicks      \* mutations started
vars == <<rows, routed, list, settings, mutation, requests, install, delete,
          socket, clicks>>
server == <<rows, routed>>
caches == <<list, settings>>
dialogs == <<install, delete>>

(* --------------------------------- rows -------------------------------- *)

\* formatRegionState groups the states: those of a first build are in progress
\* alike, an update is in progress over a region that is ready.
RowStates  == {"none", "downloading", "updating", "ready", "failed", "archived"}
InProgress(s) == s \in {"downloading", "updating"}
IsReady(s)    == s \in {"ready", "updating"}
IsFailed(s)   == s = "failed"

Default == CHOOSE s \in Schedules : TRUE
Kinds == {"install", "update", "delete", "schedule", "activate"}

Listed(r) == list.data # NoRows /\ list.data[r].state # "none"
Row(r)    == list.data[r]

(* ------------------------------- mutations ------------------------------ *)

Idle == [name |-> NoRegion, id |-> 0]
IsPending(kind) == mutation[kind] # Idle
Pending(kind, r) == mutation[kind].name = r

\* pendingByName: one action per region, the last of the four that is pending.
Assigned == <<"update", "delete", "schedule", "activate">>
PendingAction(r) ==
    LET on == {i \in DOMAIN Assigned : Pending(Assigned[i], r)}
    IN  IF on = {} THEN "none"
        ELSE Assigned[CHOOSE i \in on : \A j \in on : j <= i]

\* mutate: the hook's observer follows the new request and leaves the last one.
Mutate(kind, r, schedule) ==
    /\ clicks < MaxClicks
    /\ clicks' = clicks + 1
    /\ mutation' = [mutation EXCEPT
            ![kind] = [name |-> r, id |-> clicks + 1]]
    /\ requests' = requests \cup
            {[id |-> clicks + 1, kind |-> kind, name |-> r,
              schedule |-> schedule, answer |-> "none"]}

\* reset: the observer follows nothing.
Reset(kind) == mutation' = [mutation EXCEPT ![kind] = Idle]

\* A slip: an error leaves it pending.
Settled_OnSuccess(m, q) == IF m.id = q.id /\ q.answer = "success" THEN Idle ELSE m

\* An answer ends the mutation its observer follows, and no other.
Settled(m, q) == IF m.id = q.id THEN Idle ELSE m

\* invalidateQueries: a fetch under way is dropped and starts over.
Invalidated(query) == [query EXCEPT !.asked = TRUE, !.answer = NoRows]

(* ------------------------------- the page ------------------------------- *)

NoDialog == install = NoRegion /\ delete.target = NoRegion

\* CatalogRow offers Install unless the list has the region, archived apart.
Offered(r) == Listed(r) => Row(r).state = "archived"

OpenInstall(r) ==
    /\ NoDialog
    /\ Offered(r)
    /\ install' = r
    /\ Reset("install")
    /\ UNCHANGED <<server, caches, requests, delete, socket, clicks>>

ConfirmInstall ==
    /\ install # NoRegion /\ ~IsPending("install")
    /\ Mutate("install", install, Default)
    /\ UNCHANGED <<server, caches, dialogs, socket>>

\* Slips: what was typed stays; the mutation under way is still followed.
OpenDelete_KeepsTyped(r) ==
    /\ NoDialog
    /\ Listed(r) /\ PendingAction(r) # "delete"
    /\ delete' = [delete EXCEPT !.target = r]
    /\ Reset("delete")
    /\ UNCHANGED <<server, caches, requests, install, socket, clicks>>
OpenDelete_KeepsMutation(r) ==
    /\ NoDialog
    /\ Listed(r) /\ PendingAction(r) # "delete"
    /\ delete' = [target |-> r, typed |-> NoRegion]
    /\ UNCHANGED <<server, caches, mutation, requests, install, socket, clicks>>

\* Delete on a row of the table; the dialog opens with nothing typed.
OpenDelete(r) ==
    /\ NoDialog
    /\ Listed(r) /\ PendingAction(r) # "delete"
    /\ delete' = [target |-> r, typed |-> NoRegion]
    /\ Reset("delete")
    /\ UNCHANGED <<server, caches, requests, install, socket, clicks>>

\* The name is typed; with any other text the button stays gray.
TypeName ==
    /\ delete.target # NoRegion
    /\ delete' = [delete EXCEPT !.typed = delete.target]
    /\ UNCHANGED <<server, caches, mutation, requests, install, socket,
                   clicks>>

\* The destructive button takes a click.
Armed == delete.typed = delete.target /\ ~IsPending("delete")

ConfirmDelete ==
    /\ delete.target # NoRegion /\ Armed
    /\ Mutate("delete", delete.target, Default)
    /\ UNCHANGED <<server, caches, dialogs, socket>>

\* Escape, the overlay and the cross close a dialog whatever is pending;
\* Cancel only waits for the answer.
DismissInstall ==
    /\ install # NoRegion
    /\ install' = NoRegion
    /\ UNCHANGED <<server, caches, mutation, requests, delete, socket,
                   clicks>>

DismissDelete ==
    /\ delete.target # NoRegion
    /\ delete' = [delete EXCEPT !.target = NoRegion]
    /\ UNCHANGED <<server, caches, mutation, requests, install, socket,
                   clicks>>

\* Update or Retry.
ClickUpdate(r) ==
    /\ NoDialog
    /\ Listed(r)
    /\ IsReady(Row(r).state) \/ IsFailed(Row(r).state)
    /\ ~InProgress(Row(r).state) /\ PendingAction(r) # "update"
    /\ Mutate("update", r, Default)
    /\ UNCHANGED <<server, caches, dialogs, socket>>

\* The trigger of a row's schedule menu is gray.
ScheduleGray(r) == PendingAction(r) = "schedule"

ClickSchedule(r, s) ==
    /\ NoDialog
    /\ Listed(r) /\ ~ScheduleGray(r)
    /\ Mutate("schedule", r, s)
    /\ UNCHANGED <<server, caches, dialogs, socket>>

\* "Use for routing".
ClickActivate(r) ==
    /\ NoDialog
    /\ Listed(r) /\ IsReady(Row(r).state) /\ settings.data # r
    /\ PendingAction(r) # "activate"
    /\ Mutate("activate", r, Default)
    /\ UNCHANGED <<server, caches, dialogs, socket>>

(* ------------------------------ the gateway ----------------------------- *)

\* The row of r is now row.  An event says that a pipeline began or ended
\* (region.progress, region.ready, region.failed), and may reach the socket, if
\* that is still open and the hub does not drop it.
Write(r, row) ==
    /\ rows' = [rows EXCEPT ![r] = row]
    /\ \/ UNCHANGED socket
       \/ /\ Len(socket) < MaxEvents
          /\ row.state # rows[r].state /\ row.state # "archived"
          /\ socket' = Append(socket, [name |-> r, row |-> row])

\* What the gateway does with a request, if it accepts it.
Accepts(q) ==
    CASE q.kind = "install"  -> rows[q.name].state \in {"none", "archived", "failed"}
      [] q.kind = "update"   -> rows[q.name].state \in {"ready", "failed"}
      [] q.kind = "activate" -> rows[q.name].state = "ready"
      [] OTHER               -> rows[q.name].state # "none"
NextState(q) ==
    CASE q.kind = "install"  -> "downloading"
      [] q.kind = "update"   -> "updating"
      [] q.kind = "delete"   -> "archived"
      [] OTHER               -> rows[q.name].state
Effect(q) ==
    /\ routed' = IF q.kind = "activate" THEN q.name ELSE routed
    /\ Write(q.name, [state |-> NextState(q),
                      schedule |-> IF q.kind = "schedule" THEN q.schedule
                                   ELSE rows[q.name].schedule])

Serve(q) ==
    /\ q.answer = "none"
    /\ \/ /\ Accepts(q) /\ Effect(q)
          /\ \E answer \in {"success"}
                \cup (IF "answer_lost" \in Faults THEN {"error"} ELSE {}) :
                requests' = (requests \ {q}) \cup {[q EXCEPT !.answer = answer]}
       \/ /\ ~Accepts(q) \/ "request_lost" \in Faults
          /\ requests' = (requests \ {q}) \cup {[q EXCEPT !.answer = "error"]}
          /\ UNCHANGED <<server, socket>>
    /\ UNCHANGED <<caches, mutation, dialogs, clicks>>

\* The worker's chain ends: it fails for a region that cannot be built.
Work(r) ==
    /\ InProgress(rows[r].state)
    /\ Write(r, [rows[r] EXCEPT !.state = IF r \in Broken THEN "failed"
                                          ELSE "ready"])
    /\ UNCHANGED <<routed, caches, mutation, requests, dialogs, clicks>>

(* -------------------------------- answers ------------------------------- *)

\* The mutate's own onSuccess closes the dialog, only for the request the
\* observer follows.
Followed(q) == mutation[q.kind].id = q.id /\ q.answer = "success"
InstallAfter(q) ==
    IF q.kind = "install" /\ Followed(q) THEN NoRegion ELSE install
DeleteAfter(q) ==
    IF q.kind = "delete" /\ Followed(q)
    THEN [delete EXCEPT !.target = NoRegion] ELSE delete

Answer(q) ==
    /\ q.answer # "none"
    /\ requests' = requests \ {q}
    /\ mutation' = [mutation EXCEPT ![q.kind] = Settled(@, q)]
    /\ list' = IF q.answer = "success" THEN Invalidated(list) ELSE list
    /\ settings' = [settings EXCEPT
            !.asked = @ \/ (q.answer = "success" /\ q.kind = "activate")]
    /\ install' = InstallAfter(q)
    /\ delete' = DeleteAfter(q)
    /\ UNCHANGED <<server, socket, clicks>>

(* -------------------------------- queries ------------------------------- *)

\* A slip: no refetchInterval.
Poll_UntilLoaded ==
    /\ ~list.asked /\ list.data = NoRows
    /\ list' = [list EXCEPT !.asked = TRUE, !.answer = NoRows]
    /\ UNCHANGED <<server, settings, mutation, requests, dialogs, socket, clicks>>

\* refetchInterval of the list: a fetch starts unless one is under way.
Poll ==
    /\ ~list.asked
    /\ list' = [list EXCEPT !.asked = TRUE, !.answer = NoRows]
    /\ UNCHANGED <<server, settings, mutation, requests, dialogs, socket, clicks>>

\* The gateway reads its table for a fetch; the answer arrives later.  A fetch
\* that fails leaves the data alone until the next: it is one that takes longer.
ListRead ==
    /\ list.asked /\ list.answer = NoRows
    /\ list' = [list EXCEPT !.answer = rows]
    /\ UNCHANGED <<server, settings, mutation, requests, dialogs, socket, clicks>>
ListAnswered ==
    /\ list.asked /\ list.answer # NoRows
    /\ list' = [data |-> list.answer, asked |-> FALSE, answer |-> NoRows]
    /\ UNCHANGED <<server, settings, mutation, requests, dialogs, socket, clicks>>

\* The settings tree is fetched with the page and after an activation; every
\* activation that succeeds starts the fetch over, so when the gateway reads
\* its row is of no consequence here.
SettingsAnswered ==
    /\ settings.asked
    /\ settings' = [data |-> routed, asked |-> FALSE]
    /\ UNCHANGED <<server, list, mutation, requests, dialogs, socket, clicks>>

(* -------------------------------- stream -------------------------------- *)

\* applyEventToCache: the event's row replaces or joins the loaded list.
Applied(data, event) ==
    IF data = NoRows THEN data ELSE [data EXCEPT ![event.name] = event.row]

StreamEvent ==
    /\ socket # <<>>
    /\ list' = [list EXCEPT !.data = Applied(@, Head(socket))]
    /\ socket' = Tail(socket)
    /\ UNCHANGED <<server, settings, mutation, requests, dialogs, clicks>>

\* The socket closes over what it holds and is not opened again: no event
\* reaches the page any more, as Write allows at every step.
SocketCloses ==
    /\ socket # <<>>
    /\ socket' = <<>>
    /\ UNCHANGED <<server, caches, mutation, requests, dialogs, clicks>>

(* ----------------------------- specification ---------------------------- *)

Init ==
    /\ rows = [r \in Regions |->
                  [state |-> IF r \in Installed THEN "ready" ELSE "none",
                   schedule |-> Default]]
    /\ routed = NoRegion
    /\ list = [data |-> NoRows, asked |-> TRUE, answer |-> NoRows]
    /\ settings = [data |-> NoRegion, asked |-> TRUE]
    /\ mutation = [k \in Kinds |-> Idle]
    /\ requests = {}
    /\ install = NoRegion
    /\ delete = [target |-> NoRegion, typed |-> NoRegion]
    /\ socket = <<>>
    /\ clicks = 0

User ==
    \/ \E r \in Regions : \/ OpenInstall(r) \/ OpenDelete(r)
                          \/ ClickUpdate(r) \/ ClickActivate(r)
                          \/ \E s \in Schedules : ClickSchedule(r, s)
    \/ ConfirmInstall \/ TypeName \/ ConfirmDelete \/ DismissInstall \/ DismissDelete

Next ==
    \/ User
    \/ \E q \in requests : Serve(q) \/ Answer(q)
    \/ \E r \in Regions : Work(r)
    \/ Poll \/ ListRead \/ ListAnswered
    \/ SettingsAnswered
    \/ StreamEvent \/ SocketCloses

Spec == Init /\ [][Next]_vars

\* The list is polled for as long as the page is open, a fetch succeeds in the
\* end, and what reached the socket is delivered.
FairSpec ==
    /\ Spec
    /\ WF_vars(Poll) /\ WF_vars(ListRead) /\ WF_vars(ListAnswered)
    /\ WF_vars(StreamEvent)

(* ------------------------------ properties ------------------------------ *)

\* The delete dialog never opens with its button armed by what was typed into
\* it before, for this region or another, or after a deletion that failed or
\* was abandoned half way (the effect of DeleteDialog, openDelete's reset).
OpensUnarmed ==
    [][delete'.target \notin {delete.target, NoRegion} => ~Armed']_vars

\* An answer closes the dialog of the region it is about, or none: not the one
\* opened for another region while the answer was on its way (openInstall and
\* openDelete reset the mutation before its onSuccess can close the new dialog).
AnswersCloseTheirDialog ==
    [][\A q \in requests \ requests' :
        /\ install' # install => q.kind = "install" /\ q.name = install
        /\ delete' # delete => q.kind = "delete" /\ q.name = delete.target]_vars

\* What a row or a dialog shows as pending is under way: no button stays gray,
\* and no dialog keeps saying "Deleting", after the last answer.
PendingIsUnderWay ==
    \A k \in Kinds : IsPending(k) =>
        \E q \in requests : q.kind = k /\ q.name = mutation[k].name

\* Whatever order events, fetches and answers arrive in, and though a socket
\* that closes is not opened again, the table comes to show the server's rows
\* (useRegions polls; applyEventToCache only ever overwrites single rows).
ListFollowsServer == <>[](list.data = rows)

=============================================================================
