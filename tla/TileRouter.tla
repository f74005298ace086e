----------------------------- MODULE TileRouter -----------------------------
(***************************************************************************)
(* The tile router (tile-router/): a store that polls the regions table    *)
(* and keeps map.pmtiles of every ready region open, the HTTP handlers     *)
(* that take a snapshot of the store, pick a region and read a tile from   *)
(* it, the goroutine that tells the basemap which countries are installed, *)
(* and the shutdown.  The pipeline it reads from is RegionFiles.           *)
(*                                                                         *)
(* One step is what happens between two points at which another goroutine  *)
(* can be seen: a query, a section under the lock, one open or close.      *)
(***************************************************************************)
EXTENDS RegionFiles, FiniteSets

CONSTANTS
    Tiles,        \* tile coordinates
    BasemapTiles, \* those of a low zoom in which the basemap shows a country;
                  \* none when the country polygons could not be loaded
    Covers,       \* the tiles each region may be picked for
    Countries,    \* the regions with a country polygon, each with its own
    Requests,     \* HTTP requests served at the same time
    MaxHandles,   \* bound: files open, or held by a request, at the same time
    ReadFaults,   \* the faults the environment may inject
    SlowBuilds    \* the regions that are worked on for longer than a whole refresh

ReadFaultKinds == {"query_error",  \* SQLite refuses the query
                   "open_error",   \* map.pmtiles cannot be opened or parsed
                   "kill"}         \* the process dies and is started again

ASSUME RouterAssumption ==
    /\ Regions # {} /\ Tiles # {}
    /\ BasemapTiles \subseteq Tiles
    /\ Covers \in [Regions -> SUBSET Tiles]
    /\ Countries \subseteq Regions
    /\ MaxHandles \in Nat
    /\ ReadFaults \subseteq ReadFaultKinds
    /\ SlowBuilds \subseteq Regions

VARIABLES
    handle,    \* the open files: region, release, open or closed
    loaded,    \* Store.loaded: the handle of each loaded region, 0 for none
    refresh,   \* Store.Refresh and the loop that calls it
    phase,     \* the life of the process
    highlight, \* Renderer.installed
    sync,      \* the goroutine that sets it
    request,   \* the HTTP requests
    polled     \* how much of a refresh the pipeline's current work has seen

store  == <<handle, loaded, refresh>>
router == <<handle, loaded, refresh, phase, highlight, sync, request>>
rvars  == <<state, file, handle, loaded, refresh, phase, highlight, sync,
            request, polled>>

Handles   == 1..MaxHandles
HandleIds == 0..MaxHandles
None      == [r \in Regions |-> 0]

Handle == [region: Regions, release: 0..MaxVersion, open: BOOLEAN]
Closed == [region |-> CHOOSE r \in Regions : TRUE, release |-> 0, open |-> FALSE]

Refresh == [pc: {"idle", "diff", "open", "close"}, want: SUBSET Regions,
            todo: SUBSET Regions, opened: [Regions -> HandleIds], drop: SUBSET Handles]
NoRefresh == [pc |-> "idle", want |-> {}, todo |-> {}, opened |-> None, drop |-> {}]

Sync   == [pc: {"idle", "set"}, seen: SUBSET Regions]
NoSync == [pc |-> "idle", seen |-> {}]

NoRequest == [pc |-> "idle", tile |-> CHOOSE t \in Tiles : TRUE, handle |-> 0]
Request == [pc: {"idle", "pick", "read"}, tile: Tiles, handle: HandleIds]

RouterTypeOK ==
    /\ FilesTypeOK
    /\ handle \in [Handles -> Handle]
    /\ loaded \in [Regions -> HandleIds]
    /\ refresh \in Refresh
    /\ phase \in {"boot", "listen", "serving", "stopping"}
    /\ highlight \subseteq Regions
    /\ sync \in Sync
    /\ request \in [Requests -> Request]
    /\ polled \in [Regions -> {"not", "queried", "refreshed"}]

RouterInit ==
    /\ FilesInit
    /\ handle = [h \in Handles |-> Closed]
    /\ loaded = None
    /\ refresh = NoRefresh
    /\ phase = "boot"
    /\ highlight = {}
    /\ sync = NoSync
    /\ request = [q \in Requests |-> NoRequest]
    /\ polled = [r \in Regions |-> "not"]

-----------------------------------------------------------------------------
(* The pipeline.  A region in SlowBuilds does not get ready again before a  *)
(* refresh that began after the work did has ended.                        *)

Polled(p) == polled' = [r \in Regions |-> IF r \in SlowBuilds THEN p[r] ELSE polled[r]]

Pipeline(r) ==
    /\ FilesStep(r)
    /\ r \in SlowBuilds /\ state'[r] = "ready" => polled[r] = "refreshed"
    /\ Polled(IF state[r] = "ready" /\ state'[r] # "ready"
              THEN [polled EXCEPT ![r] = "not"] ELSE polled)
    /\ UNCHANGED router

-----------------------------------------------------------------------------
(* Store.Refresh.                                                          *)

\* Mutant: only the first refresh reads the table.
RefreshQuery_Once ==
    /\ refresh.pc = "idle" /\ phase = "boot"
    /\ refresh' = [NoRefresh EXCEPT !.pc = "diff",
                                    !.want = {r \in Regions : state[r] = "ready"}]
    /\ Polled([r \in Regions |-> IF polled[r] = "not" THEN "queried" ELSE polled[r]])
    /\ UNCHANGED <<files, handle, loaded, phase, highlight, sync, request>>

\* SELECT name FROM regions WHERE state = 'ready'.
RefreshQuery ==
    /\ refresh.pc = "idle" /\ phase \in {"boot", "serving"}
    /\ refresh' = [NoRefresh EXCEPT !.pc = "diff",
                                    !.want = {r \in Regions : state[r] = "ready"}]
    /\ Polled([r \in Regions |-> IF polled[r] = "not" THEN "queried" ELSE polled[r]])
    /\ UNCHANGED <<files, handle, loaded, phase, highlight, sync, request>>

\* An error is logged; the first refresh does not keep the router from serving.
RefreshError ==
    /\ refresh.pc = "idle" /\ phase = "boot" /\ "query_error" \in ReadFaults
    /\ phase' = "listen"
    /\ UNCHANGED <<files, store, highlight, sync, request, polled>>

IsLoaded(r) == loaded[r] # 0

\* Mutant: what is not wanted is closed, whether it is loaded or not.
RefreshDiff_Unloaded ==
    /\ refresh.pc = "diff"
    /\ refresh' = [refresh EXCEPT
           !.pc = "open",
           !.todo = {r \in refresh.want : ~IsLoaded(r)},
           !.drop = {loaded[r] : r \in Regions \ refresh.want}]
    /\ UNCHANGED <<files, handle, loaded, phase, highlight, sync, request, polled>>

\* Mutant: regions that are gone stay loaded.
RefreshDiff_KeepsLoaded ==
    /\ refresh.pc = "diff"
    /\ refresh' = [refresh EXCEPT
           !.pc = "open",
           !.todo = {r \in refresh.want : ~IsLoaded(r)}]
    /\ UNCHANGED <<files, handle, loaded, phase, highlight, sync, request, polled>>

\* Under the read lock.
RefreshDiff ==
    /\ refresh.pc = "diff"
    /\ refresh' = [refresh EXCEPT
           !.pc = "open",
           !.todo = {r \in refresh.want : ~IsLoaded(r)},
           !.drop = {loaded[r] : r \in {s \in Regions : IsLoaded(s) /\ s \notin refresh.want}}]
    /\ UNCHANGED <<files, handle, loaded, phase, highlight, sync, request, polled>>

\* A file that is not open and that nobody can reach any more.
Unused(h) ==
    /\ ~handle[h].open
    /\ h \notin refresh.drop
    /\ \A r \in Regions : loaded[r] # h /\ refresh.opened[r] # h
    /\ \A q \in Requests : request[q].handle # h
Fresh(h) == Unused(h) /\ \A g \in Handles : Unused(g) => h <= g

\* Outside the lock: whatever file is there now.
RefreshOpen(r) ==
    /\ refresh.pc = "open" /\ r \in refresh.todo
    /\ file[r] # 0
    /\ \E h \in Handles :
        /\ Fresh(h)
        /\ handle' = [handle EXCEPT ![h] = [region |-> r, release |-> file[r], open |-> TRUE]]
        /\ refresh' = [refresh EXCEPT !.todo = @ \ {r}, !.opened[r] = h]
    /\ UNCHANGED <<files, loaded, phase, highlight, sync, request, polled>>

\* The region is skipped, and found again by the next refresh.
RefreshSkip(r) ==
    /\ refresh.pc = "open" /\ r \in refresh.todo
    /\ file[r] = 0 \/ "open_error" \in ReadFaults
    /\ refresh' = [refresh EXCEPT !.todo = @ \ {r}]
    /\ UNCHANGED <<files, handle, loaded, phase, highlight, sync, request, polled>>

\* Mutant: what is no longer loaded is not closed either.
RefreshSwap_ForgetsClose ==
    /\ refresh.pc = "open" /\ refresh.todo = {}
    /\ loaded' = [r \in Regions |-> IF refresh.opened[r] # 0 THEN refresh.opened[r]
                                    ELSE IF loaded[r] \in refresh.drop THEN 0
                                    ELSE loaded[r]]
    /\ refresh' = [refresh EXCEPT !.pc = "close", !.opened = None, !.drop = {}]
    /\ UNCHANGED <<files, handle, phase, highlight, sync, request, polled>>

\* Mutant: the map is replaced by what has just been opened.
RefreshSwap_OnlyNew ==
    /\ refresh.pc = "open" /\ refresh.todo = {}
    /\ loaded' = refresh.opened
    /\ refresh' = [refresh EXCEPT !.pc = "close", !.opened = None]
    /\ UNCHANGED <<files, handle, phase, highlight, sync, request, polled>>

\* Under the write lock.
RefreshSwap ==
    /\ refresh.pc = "open" /\ refresh.todo = {}
    /\ loaded' = [r \in Regions |-> IF refresh.opened[r] # 0 THEN refresh.opened[r]
                                    ELSE IF loaded[r] \in refresh.drop THEN 0
                                    ELSE loaded[r]]
    /\ refresh' = [refresh EXCEPT !.pc = "close", !.opened = None]
    /\ UNCHANGED <<files, handle, phase, highlight, sync, request, polled>>

\* Mutant: files are closed before the map is swapped.
RefreshClose_BeforeSwap(h) ==
    /\ refresh.pc \in {"open", "close"} /\ h \in refresh.drop
    /\ handle' = [handle EXCEPT ![h] = Closed]
    /\ refresh' = [refresh EXCEPT !.drop = @ \ {h}]
    /\ UNCHANGED <<files, loaded, phase, highlight, sync, request, polled>>

\* After the lock, whoever still reads from the file.
RefreshClose(h) ==
    /\ refresh.pc = "close" /\ h \in refresh.drop
    /\ handle' = [handle EXCEPT ![h] = Closed]
    /\ refresh' = [refresh EXCEPT !.drop = @ \ {h}]
    /\ UNCHANGED <<files, loaded, phase, highlight, sync, request, polled>>

RefreshDone ==
    /\ refresh.pc = "close" /\ refresh.drop = {}
    /\ refresh' = NoRefresh
    /\ phase' = IF phase = "boot" THEN "listen" ELSE phase
    /\ Polled([r \in Regions |-> IF polled[r] = "queried" THEN "refreshed" ELSE polled[r]])
    /\ UNCHANGED <<files, handle, loaded, highlight, sync, request>>

-----------------------------------------------------------------------------
(* main: first refresh, first sync, then HTTP; a signal ends it.           *)

Installed == {r \in Countries : IsLoaded(r)}

Listen ==
    /\ phase = "listen"
    /\ highlight' = Installed
    /\ phase' = "serving"
    /\ UNCHANGED <<files, store, sync, request, polled>>

\* syncInstalled: a snapshot first, the renderer's lock afterwards.
SyncSnapshot ==
    /\ sync.pc = "idle" /\ phase \in {"serving", "stopping"}
    /\ sync' = [pc |-> "set", seen |-> Installed]
    /\ UNCHANGED <<files, store, phase, highlight, request, polled>>

\* Mutant: countries are added to the set, never taken out.
SyncSet_Adds ==
    /\ sync.pc = "set"
    /\ highlight' = highlight \cup sync.seen
    /\ sync' = NoSync
    /\ UNCHANGED <<files, store, phase, request, polled>>

SyncSet ==
    /\ sync.pc = "set"
    /\ highlight' = sync.seen
    /\ sync' = NoSync
    /\ UNCHANGED <<files, store, phase, request, polled>>

Stop ==
    /\ phase = "serving"
    /\ phase' = "stopping"
    /\ UNCHANGED <<files, store, highlight, sync, request, polled>>

\* closeAll, as soon as a refresh in progress has ended: it does not wait for
\* the requests that Shutdown lets finish.
CloseAll ==
    /\ phase = "stopping" /\ refresh.pc = "idle" /\ loaded # None
    /\ refresh' = [NoRefresh EXCEPT !.pc = "close",
                                    !.drop = {loaded[r] : r \in Regions} \ {0}]
    /\ loaded' = None
    /\ UNCHANGED <<files, handle, phase, highlight, sync, request, polled>>

\* The process ends, and a new one is started.
Restart ==
    /\ phase = "stopping" \/ "kill" \in ReadFaults
    /\ handle' = [h \in Handles |-> Closed]
    /\ loaded' = None
    /\ refresh' = NoRefresh
    /\ phase' = "boot"
    /\ highlight' = {}
    /\ sync' = NoSync
    /\ request' = [q \in Requests |-> NoRequest]
    /\ Polled([r \in Regions |-> IF polled[r] = "queried" THEN "not" ELSE polled[r]])
    /\ UNCHANGED files

-----------------------------------------------------------------------------
(* Handlers.serveTile.                                                     *)

Ends(q) == request' = [request EXCEPT ![q] = NoRequest]

Accept(q, t) ==
    /\ request[q].pc = "idle" /\ phase = "serving"
    /\ request' = [request EXCEPT ![q].pc = "pick", ![q].tile = t]
    /\ UNCHANGED <<files, store, phase, highlight, sync, polled>>

\* At a low zoom the basemap comes first, with the installed countries marked;
\* a browser may keep the answer for a day.
ServeBasemap(q) ==
    /\ request[q].pc = "pick" /\ request[q].tile \in BasemapTiles
    /\ Ends(q)
    /\ UNCHANGED <<files, store, phase, highlight, sync, polled>>

\* The snapshot is copied under the read lock; everything after it is not.
Candidates(t) == {r \in Regions : IsLoaded(r) /\ t \in Covers[r]}
UsesStore(q) == request[q].pc = "pick" /\ request[q].tile \notin BasemapTiles

Pick(q) ==
    /\ UsesStore(q)
    /\ \E r \in Candidates(request[q].tile) :
           request' = [request EXCEPT ![q].pc = "read", ![q].handle = loaded[r]]
    /\ UNCHANGED <<files, store, phase, highlight, sync, polled>>

NotFound(q) ==
    /\ UsesStore(q) /\ Candidates(request[q].tile) = {}
    /\ Ends(q)
    /\ UNCHANGED <<files, store, phase, highlight, sync, polled>>

\* A tile, no tile, or an error because the file has been closed meanwhile.
ReadTile(q) ==
    /\ request[q].pc = "read"
    /\ Ends(q)
    /\ UNCHANGED <<files, store, phase, highlight, sync, polled>>

-----------------------------------------------------------------------------
RefreshStep ==
    \/ RefreshQuery \/ RefreshError \/ RefreshDiff \/ RefreshSwap \/ RefreshDone
    \/ \E r \in Regions : RefreshOpen(r) \/ RefreshSkip(r)
    \/ \E h \in Handles : RefreshClose(h)
SyncStep == SyncSnapshot \/ SyncSet
RequestStep(q) == ServeBasemap(q) \/ Pick(q) \/ NotFound(q) \/ ReadTile(q)

RouterNext ==
    \/ \E r \in Regions : Pipeline(r)
    \/ RefreshStep \/ SyncStep \/ Listen \/ Stop \/ CloseAll \/ Restart
    \/ \E q \in Requests : RequestStep(q) \/ \E t \in Tiles : Accept(q, t)

RouterSpec == RouterInit /\ [][RouterNext]_rvars

\* The ticker fires for ever, a refresh or a sync that has begun goes on, the
\* process comes up.  The pipeline, the requests and the signal need not happen.
RouterFairness ==
    /\ WF_rvars(RefreshStep)
    /\ WF_rvars(SyncStep)
    /\ WF_rvars(Listen)

FairRouterSpec == RouterSpec /\ RouterFairness

-----------------------------------------------------------------------------
(* Properties.                                                             *)

\* What the store hands out is open and belongs to the region it is handed out
\* for: a handle is never closed while a new request can still get it.
LoadedAreOpen ==
    \A r \in Regions : IsLoaded(r) => handle[loaded[r]].open /\ handle[loaded[r]].region = r

\* No file descriptor is lost over any number of polls, failed opens and
\* region changes: each open file is loaded, about to be, or about to be closed.
NoHandleLeak ==
    \A h \in Handles : handle[h].open =>
        h \in refresh.drop \/ \E r \in Regions : loaded[r] = h \/ refresh.opened[r] = h

\* A region that can be read from one release is not read from an older one,
\* when nobody finishes a release while the router refreshes.
ServesCurrent ==
    \A r \in SlowBuilds : state[r] = "ready" /\ IsLoaded(r) =>
        handle[loaded[r]].release = file[r]

\* A refresh takes away only the regions that it found not to be ready: a file
\* that cannot be opened does not take another region down.
KeepsTheRest ==
    [][\A r \in Regions :
          IsLoaded(r) /\ loaded'[r] # loaded[r] /\ phase = "serving" /\ phase' = "serving"
              => refresh.pc = "open" /\ r \notin refresh.want]_rvars

Serves == <>[](phase = "serving")

\* A region that stays ready is loaded in the end.
ReadyIsLoaded ==
    \A r \in Regions : Serves /\ <>[](state[r] = "ready") => <>[](IsLoaded(r))

\* The files of a region that stays deleted are closed in the end, so that the
\* disk space is given back, also when it was deleted while being opened.
ArchivedIsReleased ==
    \A r \in Regions : Serves /\ <>[](state[r] = "archived") =>
        <>[](\A h \in Handles : handle[h].open => handle[h].region # r)

\* The basemap marks exactly the countries that are loaded, in the end.
HighlightFollows ==
    \A r \in Countries : Serves =>
        /\ <>[](IsLoaded(r)) => <>[](r \in highlight)
        /\ <>[](~IsLoaded(r)) => <>[](r \notin highlight)

=============================================================================
