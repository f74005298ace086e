-------------------------- MODULE TileRouter_proofs --------------------------
(***************************************************************************)
(* What the tile router's store hands out is open, is taken away only when *)
(* the region is not ready, is of the current release, and no file is      *)
(* lost: for any regions, files, requests and faults.                      *)
(***************************************************************************)
EXTENDS TileRouter, TLAPS

\* A region's file, loaded or about to be, is open and is its own.
Own(r, h) == h # 0 => handle[h].open /\ handle[h].region = r

\* What is opened is wanted and not loaded yet, and only known to Refresh.
OpenedInv ==
    \A r \in Regions : refresh.opened[r] # 0 =>
        refresh.pc = "open" /\ r \in refresh.want /\ loaded[r] = 0

\* So is what is still to be opened.
TodoInv ==
    /\ refresh.todo # {} => refresh.pc = "open"
    /\ \A r \in refresh.todo : r \in refresh.want /\ loaded[r] = 0 /\ refresh.opened[r] = 0

\* What is to be closed is open.  Before the swap it is what is loaded and not
\* wanted; after it, it is not loaded.
DropInv ==
    /\ refresh.drop # {} => refresh.pc \in {"open", "close"}
    /\ \A h \in refresh.drop : handle[h].open
    /\ refresh.pc = "open" =>
           \A h \in refresh.drop : \E r \in Regions : loaded[r] = h /\ r \notin refresh.want
    /\ refresh.pc = "close" => \A r \in Regions : loaded[r] \notin refresh.drop

StoreInv ==
    /\ \A r \in Regions : Own(r, loaded[r]) /\ Own(r, refresh.opened[r])
    /\ OpenedInv
    /\ TodoInv
    /\ DropInv
    /\ NoHandleLeak

RInv == RouterTypeOK /\ StoreInv

\* The values that stand for nothing have their types.
LEMMA Nothing ==
    /\ None \in [Regions -> HandleIds]
    /\ Closed \in Handle
    /\ NoRefresh \in Refresh
    /\ NoSync \in Sync
    /\ NoRequest \in Request
<1> USE RouterAssumption, VersionAssumption
<1>1. (CHOOSE r \in Regions : TRUE) \in Regions /\ (CHOOSE t \in Tiles : TRUE) \in Tiles
  OBVIOUS
<1>2. None \in [Regions -> HandleIds]
  BY DEF None, HandleIds
<1>3. NoRefresh \in Refresh
  BY <1>2 DEF NoRefresh, Refresh
<1> QED
  BY <1>1, <1>2, <1>3 DEF Closed, Handle, NoSync, Sync, NoRequest, Request, HandleIds

\* The router starts with nothing loaded.
LEMMA RouterInitInv == RouterInit => RInv
<1> SUFFICES ASSUME RouterInit
             PROVE  RInv
    OBVIOUS
<1>1. RouterTypeOK
  <2>1. FilesTypeOK
    BY VersionAssumption DEF RouterInit, FilesInit, FilesTypeOK, FileStates
  <2> QED BY <2>1, Nothing DEF RouterInit, RouterTypeOK
<1>2. StoreInv
  <2>1. loaded = None /\ refresh = NoRefresh /\ \A h \in Handles : ~handle[h].open
    BY DEF RouterInit, Closed
  <2>2. \A r \in Regions : loaded[r] = 0 /\ refresh.opened[r] = 0
    BY <2>1 DEF None, NoRefresh
  <2>3. refresh.todo = {} /\ refresh.drop = {} /\ refresh.pc = "idle"
    BY <2>1 DEF NoRefresh
  <2> QED BY <2>1, <2>2, <2>3 DEF StoreInv, Own, OpenedInv, TodoInv, DropInv, NoHandleLeak
<1> QED BY <1>1, <1>2 DEF RInv

\* What the pipeline and the poll counter do keeps their types.
LEMMA PipelineTypes ==
    ASSUME RouterTypeOK, NEW r \in Regions, Pipeline(r)
    PROVE  RouterTypeOK'
<1> USE VersionAssumption
<1>1. state' \in [Regions -> FileStates] /\ file' \in [Regions -> 0..MaxVersion]
  BY DEF Pipeline, FilesStep, Begin, Withdraw, Place, Finish, Fail, Archive, Remove,
         Becomes, Holds, RouterTypeOK, FilesTypeOK, FileStates
<1>2. polled' \in [Regions -> {"not", "queried", "refreshed"}]
  BY DEF Pipeline, Polled, RouterTypeOK
<1>3. UNCHANGED router
  BY DEF Pipeline
<1> QED BY <1>1, <1>2, <1>3 DEF RouterTypeOK, FilesTypeOK, router

\* Every step of the router keeps the types.
LEMMA RouterTypes == RouterTypeOK /\ [RouterNext]_rvars => RouterTypeOK'
<1> SUFFICES ASSUME RouterTypeOK, [RouterNext]_rvars
             PROVE  RouterTypeOK'
    OBVIOUS
<1> USE Nothing
<1>1. ASSUME NEW r \in Regions, Pipeline(r) PROVE RouterTypeOK'
  BY <1>1, PipelineTypes
<1>2. CASE RefreshQuery
  BY <1>2 DEF RefreshQuery, Polled, RouterTypeOK, FilesTypeOK, files, Refresh
<1>3. CASE RefreshError
  BY <1>3 DEF RefreshError, RouterTypeOK, FilesTypeOK, files, store
<1>4. CASE RefreshDiff
  <2>1. {loaded[r] : r \in {s \in Regions : IsLoaded(s) /\ s \notin refresh.want}} \subseteq Handles
    BY DEF IsLoaded, RouterTypeOK, Handles, HandleIds
  <2>2. refresh' \in Refresh
    BY <1>4, <2>1 DEF RefreshDiff, RouterTypeOK, Refresh
  <2> QED BY <1>4, <2>2 DEF RefreshDiff, RouterTypeOK, FilesTypeOK, files
<1>5. ASSUME NEW r \in Regions, RefreshOpen(r) PROVE RouterTypeOK'
  <2>1. PICK h \in Handles :
            /\ handle' = [handle EXCEPT ![h] = [region |-> r, release |-> file[r], open |-> TRUE]]
            /\ refresh' = [refresh EXCEPT !.todo = @ \ {r}, !.opened[r] = h]
    BY <1>5 DEF RefreshOpen
  <2>2. handle' \in [Handles -> Handle]
    BY <2>1 DEF RouterTypeOK, FilesTypeOK, Handle
  <2>3. refresh' \in Refresh
    <3>1. h \in HandleIds
      BY DEF Handles, HandleIds
    <3>2. [refresh.opened EXCEPT ![r] = h] \in [Regions -> HandleIds]
      BY <3>1 DEF RouterTypeOK, Refresh
    <3>3. refresh' = [refresh EXCEPT !.todo = refresh.todo \ {r},
                                     !.opened = [refresh.opened EXCEPT ![r] = h]]
      BY <2>1
    <3> QED BY <3>2, <3>3 DEF RouterTypeOK, Refresh
  <2> QED BY <1>5, <2>2, <2>3 DEF RefreshOpen, RouterTypeOK, FilesTypeOK, files
<1>6. ASSUME NEW r \in Regions, RefreshSkip(r) PROVE RouterTypeOK'
  BY <1>6 DEF RefreshSkip, RouterTypeOK, FilesTypeOK, files, Refresh
<1>7. CASE RefreshSwap
  <2>1. refresh.opened \in [Regions -> HandleIds] /\ 0 \in HandleIds
    BY RouterAssumption DEF RouterTypeOK, Refresh, HandleIds
  <2>2. loaded' \in [Regions -> HandleIds]
    BY <1>7, <2>1 DEF RefreshSwap, RouterTypeOK
  <2>3. refresh' \in Refresh
    BY <1>7 DEF RefreshSwap, RouterTypeOK, Refresh
  <2> QED BY <1>7, <2>2, <2>3 DEF RefreshSwap, RouterTypeOK, FilesTypeOK, files
<1>8. ASSUME NEW h \in Handles, RefreshClose(h) PROVE RouterTypeOK'
  BY <1>8 DEF RefreshClose, RouterTypeOK, FilesTypeOK, files, Refresh
<1>9. CASE RefreshDone
  BY <1>9 DEF RefreshDone, Polled, RouterTypeOK, FilesTypeOK, files
<1>10. CASE SyncSnapshot
  BY <1>10, RouterAssumption DEF SyncSnapshot, RouterTypeOK, FilesTypeOK, files, store, Installed, Sync
<1>11. CASE SyncSet
  BY <1>11 DEF SyncSet, RouterTypeOK, FilesTypeOK, files, store, Sync
<1>12. CASE Listen
  BY <1>12, RouterAssumption DEF Listen, RouterTypeOK, FilesTypeOK, files, store, Installed
<1>13. CASE Stop
  BY <1>13 DEF Stop, RouterTypeOK, FilesTypeOK, files, store
<1>14. CASE CloseAll
  <2>1. {loaded[r] : r \in Regions} \ {0} \subseteq Handles
    BY DEF RouterTypeOK, Handles, HandleIds
  <2> QED BY <1>14, <2>1 DEF CloseAll, RouterTypeOK, FilesTypeOK, files, Refresh
<1>15. CASE Restart
  BY <1>15 DEF Restart, Polled, RouterTypeOK, FilesTypeOK, files
<1>16. ASSUME NEW q \in Requests, RequestStep(q) PROVE RouterTypeOK'
  <2>1. ASSUME NEW h \in HandleIds
        PROVE  [request EXCEPT ![q].pc = "read", ![q].handle = h] \in [Requests -> Request]
    BY DEF RouterTypeOK, Request
  <2>2. [request EXCEPT ![q] = NoRequest] \in [Requests -> Request]
    BY DEF RouterTypeOK
  <2>3. request' \in [Requests -> Request]
    BY <1>16, <2>1, <2>2 DEF RequestStep, ServeBasemap, Pick, NotFound, ReadTile, Ends,
                             Candidates, RouterTypeOK
  <2>4. UNCHANGED <<files, store, phase, highlight, sync, polled>>
    BY <1>16 DEF RequestStep, ServeBasemap, Pick, NotFound, ReadTile
  <2> QED BY <2>3, <2>4 DEF RouterTypeOK, FilesTypeOK, files, store
<1>17. ASSUME NEW q \in Requests, NEW t \in Tiles, Accept(q, t) PROVE RouterTypeOK'
  BY <1>17 DEF Accept, RouterTypeOK, FilesTypeOK, files, store, Request
<1>18. CASE UNCHANGED rvars
  BY <1>18 DEF rvars, RouterTypeOK, FilesTypeOK
<1> QED
  BY <1>1, <1>2, <1>3, <1>4, <1>5, <1>6, <1>7, <1>8, <1>9, <1>10, <1>11, <1>12, <1>13, <1>14,
     <1>15, <1>16, <1>17, <1>18 DEF RouterNext, RefreshStep, SyncStep

\* A refresh that has nothing under way, with each loaded file open.
LEMMA AtRestInv ==
    ASSUME RInv, UNCHANGED <<handle, loaded>>, refresh.todo = {}, refresh.drop = {},
           \A r \in Regions : refresh.opened[r] = 0,
           \A r \in Regions : refresh'.opened[r] = 0,
           refresh'.todo = {}, refresh'.drop = {}
    PROVE  StoreInv'
BY DEF RInv, StoreInv, Own, OpenedInv, TodoInv, DropInv, NoHandleLeak

\* A step that leaves the store alone.
LEMMA StoreUnchanged ==
    ASSUME StoreInv, UNCHANGED store
    PROVE  StoreInv'
BY DEF store, StoreInv, Own, OpenedInv, TodoInv, DropInv, NoHandleLeak

\* Opening a file that nobody uses.
LEMMA OpenInv ==
    ASSUME RInv, NEW r \in Regions, RefreshOpen(r)
    PROVE  StoreInv'
<1>1. PICK h \in Handles :
          /\ Unused(h)
          /\ handle' = [handle EXCEPT ![h] = [region |-> r, release |-> file[r], open |-> TRUE]]
          /\ refresh' = [refresh EXCEPT !.todo = @ \ {r}, !.opened[r] = h]
  BY DEF RefreshOpen, Fresh
<1>2. refresh.pc = "open" /\ r \in refresh.todo /\ loaded' = loaded
  BY DEF RefreshOpen
<1> DEFINE opened == [refresh.opened EXCEPT ![r] = h]
<1>3. refresh' = [pc |-> "open", want |-> refresh.want, todo |-> refresh.todo \ {r},
                  opened |-> opened, drop |-> refresh.drop]
  <2>1. refresh' = [refresh EXCEPT !.todo = refresh.todo \ {r}, !.opened = opened]
    BY <1>1
  <2> HIDE DEF opened
  <2> QED BY <2>1, <1>2 DEF RInv, RouterTypeOK, Refresh
<1>4. /\ \A g \in Handles : g # h => handle'[g] = handle[g]
      /\ handle'[h].open /\ handle'[h].region = r
  BY <1>1 DEF RInv, RouterTypeOK
<1>5. /\ refresh.drop \subseteq Handles /\ h \notin refresh.drop /\ h # 0
      /\ \A s \in Regions : loaded[s] # h /\ refresh.opened[s] # h
      /\ \A s \in Regions : loaded[s] # 0 => loaded[s] \in Handles
      /\ \A s \in Regions : refresh.opened[s] # 0 => refresh.opened[s] \in Handles
  BY <1>1 DEF Unused, RInv, RouterTypeOK, Refresh, Handles, HandleIds
<1>6. r \in refresh.want /\ loaded[r] = 0 /\ refresh.opened[r] = 0
  BY <1>2 DEF RInv, StoreInv, TodoInv
<1>7. \A s \in Regions : s # r => opened[s] = refresh.opened[s]
  BY DEF RInv, RouterTypeOK, Refresh
<1>8. opened[r] = h
  BY DEF RInv, RouterTypeOK, Refresh
<1> HIDE DEF opened
<1>9. \A s \in Regions : Own(s, loaded[s])' /\ Own(s, refresh.opened[s])'
  BY <1>2, <1>3, <1>4, <1>5, <1>7, <1>8 DEF RInv, StoreInv, Own
<1>10. OpenedInv'
  BY <1>2, <1>3, <1>6, <1>7, <1>8 DEF RInv, StoreInv, OpenedInv
<1>11. TodoInv'
  BY <1>2, <1>3, <1>7 DEF RInv, RouterTypeOK, Refresh, StoreInv, TodoInv
<1>12. DropInv'
  BY <1>2, <1>3, <1>4, <1>5 DEF RInv, StoreInv, DropInv
<1>13. NoHandleLeak'
  BY <1>2, <1>3, <1>4, <1>6, <1>7, <1>8 DEF RInv, StoreInv, NoHandleLeak
<1> QED BY <1>9, <1>10, <1>11, <1>12, <1>13 DEF StoreInv

\* The swap: what was opened is loaded, what was not wanted is not.
LEMMA SwapInv ==
    ASSUME RInv, RefreshSwap
    PROVE  StoreInv'
<1>1. /\ refresh.pc = "open" /\ refresh.todo = {} /\ handle' = handle
      /\ refresh' = [pc |-> "close", want |-> refresh.want, todo |-> {},
                     opened |-> None, drop |-> refresh.drop]
  BY DEF RefreshSwap, RInv, RouterTypeOK, Refresh
<1>2. \A r \in Regions :
          loaded'[r] = IF refresh.opened[r] # 0 THEN refresh.opened[r]
                       ELSE IF loaded[r] \in refresh.drop THEN 0 ELSE loaded[r]
  BY DEF RefreshSwap
<1>3. 0 \notin refresh.drop
  BY DEF RInv, RouterTypeOK, Refresh, Handles
<1>4. \A r \in Regions : None[r] = 0
  BY DEF None
<1>5. \A r \in Regions : Own(r, loaded[r])' /\ Own(r, refresh.opened[r])'
  BY <1>1, <1>2, <1>4 DEF RInv, StoreInv, Own
<1>6. OpenedInv' /\ TodoInv'
  BY <1>1, <1>4 DEF OpenedInv, TodoInv
<1>7. ASSUME NEW r \in Regions
      PROVE  loaded'[r] \notin refresh.drop
  <2>1. CASE refresh.opened[r] # 0
    <3>1. loaded'[r] = refresh.opened[r] /\ r \in refresh.want
      BY <1>2, <2>1 DEF RInv, StoreInv, OpenedInv
    <3>2. SUFFICES ASSUME refresh.opened[r] \in refresh.drop
                   PROVE  FALSE
      BY <3>1
    <3>3. PICK s \in Regions : loaded[s] = refresh.opened[r] /\ s \notin refresh.want
      BY <1>1, <3>2 DEF RInv, StoreInv, DropInv
    <3>4. s = r
      BY <2>1, <3>3 DEF RInv, StoreInv, Own
    <3> QED BY <3>1, <3>3, <3>4
  <2>2. CASE refresh.opened[r] = 0
    BY <1>2, <1>3, <2>2
  <2> QED BY <2>1, <2>2
<1>8. DropInv'
  BY <1>1, <1>7 DEF RInv, StoreInv, DropInv
<1>9. ASSUME NEW h \in Handles, handle[h].open, h \notin refresh.drop
      PROVE  \E r \in Regions : loaded'[r] = h
  <2>1. PICK r \in Regions : loaded[r] = h \/ refresh.opened[r] = h
    BY <1>9 DEF RInv, StoreInv, NoHandleLeak
  <2>2. h # 0
    BY DEF Handles
  <2>3. loaded'[r] = h
    BY <1>2, <1>9, <2>1, <2>2 DEF RInv, StoreInv, OpenedInv
  <2> QED BY <2>3
<1>10. NoHandleLeak'
  BY <1>1, <1>9 DEF NoHandleLeak
<1> QED BY <1>5, <1>6, <1>8, <1>10 DEF StoreInv

\* Closing a file that is not loaded any more.
LEMMA CloseInv ==
    ASSUME RInv, NEW h \in Handles, RefreshClose(h)
    PROVE  StoreInv'
<1>1. /\ refresh.pc = "close" /\ h \in refresh.drop /\ loaded' = loaded
      /\ refresh' = [pc |-> "close", want |-> refresh.want, todo |-> refresh.todo,
                     opened |-> refresh.opened, drop |-> refresh.drop \ {h}]
  BY DEF RefreshClose, RInv, RouterTypeOK, Refresh
<1>2. /\ \A g \in Handles : g # h => handle'[g] = handle[g]
      /\ ~handle'[h].open
  BY DEF RefreshClose, RInv, RouterTypeOK, Closed
<1>3. /\ refresh.drop \subseteq Handles
      /\ \A s \in Regions : loaded[s] # 0 => loaded[s] \in Handles
  BY DEF RInv, RouterTypeOK, Refresh, Handles, HandleIds
<1>4. /\ refresh.todo = {}
      /\ \A s \in Regions : refresh.opened[s] = 0 /\ loaded[s] # h
  BY <1>1 DEF RInv, StoreInv, OpenedInv, TodoInv, DropInv
<1>5. \A s \in Regions : Own(s, loaded[s])' /\ Own(s, refresh.opened[s])'
  BY <1>1, <1>2, <1>3, <1>4 DEF RInv, StoreInv, Own
<1>6. OpenedInv' /\ TodoInv'
  BY <1>1, <1>4 DEF OpenedInv, TodoInv
<1>7. DropInv'
  BY <1>1, <1>2, <1>3 DEF RInv, StoreInv, DropInv
<1>8. NoHandleLeak'
  BY <1>1, <1>2 DEF RInv, StoreInv, NoHandleLeak
<1> QED BY <1>5, <1>6, <1>7, <1>8 DEF StoreInv

\* Every step of the router keeps the store consistent.
LEMMA StoreNextInv == RInv /\ [RouterNext]_rvars => StoreInv'
<1> SUFFICES ASSUME RInv, [RouterNext]_rvars
             PROVE  StoreInv'
    OBVIOUS
<1>1. ASSUME NEW r \in Regions, Pipeline(r) PROVE StoreInv'
  BY <1>1, StoreUnchanged DEF Pipeline, router, store, RInv
<1>2. CASE RefreshQuery
  <2>1. /\ refresh.todo = {} /\ refresh.drop = {}
        /\ \A r \in Regions : refresh.opened[r] = 0
    BY <1>2 DEF RefreshQuery, RInv, StoreInv, OpenedInv, TodoInv, DropInv
  <2>2. /\ refresh'.todo = {} /\ refresh'.drop = {}
        /\ \A r \in Regions : refresh'.opened[r] = 0
    BY <1>2 DEF RefreshQuery, NoRefresh, None
  <2> QED BY <1>2, <2>1, <2>2, AtRestInv DEF RefreshQuery
<1>3. CASE RefreshError
  BY <1>3, StoreUnchanged DEF RefreshError, RInv
<1>4. CASE RefreshDiff
  <2>1. /\ handle' = handle /\ loaded' = loaded /\ refresh.pc = "diff"
        /\ refresh'.pc = "open" /\ refresh'.want = refresh.want
        /\ refresh'.opened = refresh.opened
        /\ refresh'.todo = {r \in refresh.want : ~IsLoaded(r)}
        /\ refresh'.drop = {loaded[r] : r \in {s \in Regions : IsLoaded(s) /\ s \notin refresh.want}}
    BY <1>4 DEF RefreshDiff, RInv, RouterTypeOK, Refresh
  <2>2. /\ refresh.drop = {} /\ refresh.want \subseteq Regions
        /\ \A r \in Regions : refresh.opened[r] = 0
    BY <2>1 DEF RInv, RouterTypeOK, Refresh, StoreInv, OpenedInv, DropInv
  <2>3. \A r \in Regions : Own(r, loaded[r])' /\ Own(r, refresh.opened[r])'
    BY <2>1 DEF RInv, StoreInv, Own
  <2>4. OpenedInv' /\ TodoInv'
    BY <2>1, <2>2 DEF OpenedInv, TodoInv, IsLoaded
  <2>5. DropInv'
    BY <2>1 DEF RInv, StoreInv, Own, DropInv, IsLoaded
  <2>6. NoHandleLeak'
    BY <2>1, <2>2 DEF RInv, StoreInv, NoHandleLeak
  <2> QED BY <2>3, <2>4, <2>5, <2>6 DEF StoreInv
<1>5. ASSUME NEW r \in Regions, RefreshOpen(r) PROVE StoreInv'
  BY <1>5, OpenInv
<1>6. ASSUME NEW r \in Regions, RefreshSkip(r) PROVE StoreInv'
  <2>1. /\ handle' = handle /\ loaded' = loaded /\ refresh.pc = "open"
        /\ refresh' = [pc |-> "open", want |-> refresh.want, todo |-> refresh.todo \ {r},
                       opened |-> refresh.opened, drop |-> refresh.drop]
    BY <1>6 DEF RefreshSkip, RInv, RouterTypeOK, Refresh
  <2> QED BY <2>1 DEF RInv, StoreInv, Own, OpenedInv, TodoInv, DropInv, NoHandleLeak
<1>7. CASE RefreshSwap
  BY <1>7, SwapInv
<1>8. ASSUME NEW h \in Handles, RefreshClose(h) PROVE StoreInv'
  BY <1>8, CloseInv
<1>9. CASE RefreshDone
  <2>1. /\ refresh.todo = {} /\ refresh.drop = {}
        /\ \A r \in Regions : refresh.opened[r] = 0
    BY <1>9 DEF RefreshDone, RInv, StoreInv, OpenedInv, TodoInv
  <2>2. /\ refresh'.todo = {} /\ refresh'.drop = {}
        /\ \A r \in Regions : refresh'.opened[r] = 0
    BY <1>9 DEF RefreshDone, NoRefresh, None
  <2> QED BY <1>9, <2>1, <2>2, AtRestInv DEF RefreshDone
<1>10. CASE SyncSnapshot \/ SyncSet \/ Listen \/ Stop
  BY <1>10, StoreUnchanged DEF SyncSnapshot, SyncSet, Listen, Stop, RInv
<1>11. CASE CloseAll
  <2>1. /\ handle' = handle /\ loaded' = None /\ refresh.pc = "idle"
        /\ refresh' = [NoRefresh EXCEPT !.pc = "close",
                                        !.drop = {loaded[r] : r \in Regions} \ {0}]
    BY <1>11 DEF CloseAll
  <2>2. /\ refresh'.pc = "close" /\ refresh'.todo = {} /\ refresh'.opened = None
        /\ refresh'.drop = {loaded[r] : r \in Regions} \ {0}
    BY <2>1 DEF NoRefresh
  <2>3. /\ refresh.drop = {}
        /\ \A r \in Regions : refresh.opened[r] = 0 /\ None[r] = 0
    BY <2>1 DEF RInv, StoreInv, OpenedInv, DropInv, None
  <2>4. \A h \in Handles : handle[h].open => h \in refresh'.drop
    BY <2>2, <2>3 DEF RInv, StoreInv, NoHandleLeak, Handles
  <2>5. \A h \in refresh'.drop : handle[h].open
    BY <2>2 DEF RInv, StoreInv, Own
  <2> QED BY <2>1, <2>2, <2>3, <2>4, <2>5
             DEF StoreInv, Own, OpenedInv, TodoInv, DropInv, NoHandleLeak
<1>12. CASE Restart
  <2>1. \A h \in Handles : ~handle'[h].open
    BY <1>12 DEF Restart, Closed
  <2>2. \A r \in Regions : loaded'[r] = 0 /\ refresh'.opened[r] = 0
    BY <1>12 DEF Restart, NoRefresh, None
  <2>3. refresh'.todo = {} /\ refresh'.drop = {} /\ refresh'.pc = "idle"
    BY <1>12 DEF Restart, NoRefresh
  <2> QED BY <2>1, <2>2, <2>3 DEF StoreInv, Own, OpenedInv, TodoInv, DropInv, NoHandleLeak
<1>13. ASSUME NEW q \in Requests, RequestStep(q) PROVE StoreInv'
  BY <1>13, StoreUnchanged DEF RequestStep, ServeBasemap, Pick, NotFound, ReadTile, RInv
<1>14. ASSUME NEW q \in Requests, NEW t \in Tiles, Accept(q, t) PROVE StoreInv'
  BY <1>14, StoreUnchanged DEF Accept, RInv
<1>15. CASE UNCHANGED rvars
  BY <1>15, StoreUnchanged DEF rvars, store, RInv
<1> QED
  BY <1>1, <1>2, <1>3, <1>4, <1>5, <1>6, <1>7, <1>8, <1>9, <1>10, <1>11, <1>12, <1>13, <1>14,
     <1>15 DEF RouterNext, RefreshStep, SyncStep

\* The types and the store's consistency are inductive.
LEMMA RouterInductive == RouterSpec => []RInv
<1>1. RInv /\ [RouterNext]_rvars => RInv'
  BY RouterTypes, StoreNextInv DEF RInv
<1> QED BY <1>1, RouterInitInv, PTL DEF RouterSpec

\* Every variable of the router keeps its type.
THEOREM RouterTypeCorrect == RouterSpec => []RouterTypeOK
BY RouterInductive, PTL DEF RInv

\* A file that the store hands out is open and is that of the region it is
\* handed out for.
THEOREM LoadedStaysOpen == RouterSpec => []LoadedAreOpen
<1>1. RInv => LoadedAreOpen
  BY DEF RInv, StoreInv, Own, LoadedAreOpen, IsLoaded
<1> QED BY <1>1, RouterInductive, PTL

\* No file descriptor is lost, whatever fails and however often it polls.
THEOREM NothingLeaks == RouterSpec => []NoHandleLeak
<1>1. RInv => NoHandleLeak
  BY DEF RInv, StoreInv
<1> QED BY <1>1, RouterInductive, PTL

-----------------------------------------------------------------------------
(* A refresh takes away only what it found not to be ready.                *)

\* The swap takes a region away only if its file was to be closed.
LEMMA SwapTakesAway ==
    ASSUME RInv, RefreshSwap, NEW r \in Regions, IsLoaded(r), loaded'[r] # loaded[r]
    PROVE  refresh.pc = "open" /\ r \notin refresh.want
<1>1. refresh.pc = "open" /\ loaded[r] # 0
  BY DEF RefreshSwap, IsLoaded
<1>2. refresh.opened[r] = 0
  BY <1>1 DEF RInv, StoreInv, OpenedInv
<1>3. loaded[r] \in refresh.drop
  BY <1>2 DEF RefreshSwap
<1>4. PICK s \in Regions : loaded[s] = loaded[r] /\ s \notin refresh.want
  BY <1>1, <1>3 DEF RInv, StoreInv, DropInv
<1>5. s = r
  BY <1>1, <1>4 DEF RInv, StoreInv, Own
<1> QED
  BY <1>1, <1>4, <1>5

\* A region that is served stays loaded until a refresh finds that it is not
\* ready any more: no other region's file and no failed open takes it down.
THEOREM RefreshKeepsTheRest == RouterSpec => KeepsTheRest
<1>1. RInv /\ [RouterNext]_rvars =>
        [\A r \in Regions :
            IsLoaded(r) /\ loaded'[r] # loaded[r] /\ phase = "serving" /\ phase' = "serving"
                => refresh.pc = "open" /\ r \notin refresh.want]_rvars
  <2> SUFFICES ASSUME RInv, RouterNext, NEW r \in Regions, IsLoaded(r), loaded'[r] # loaded[r],
                      phase = "serving", phase' = "serving"
               PROVE  refresh.pc = "open" /\ r \notin refresh.want
    OBVIOUS
  <2>1. RefreshSwap
    BY DEF RouterNext, Pipeline, router, store, RefreshStep, RefreshQuery, RefreshError,
       RefreshDiff, RefreshDone, RefreshOpen, RefreshSkip, RefreshClose, SyncStep,
       SyncSnapshot, SyncSet, Listen, Stop, CloseAll, Restart, RequestStep, ServeBasemap,
       Pick, NotFound, ReadTile, Accept
  <2> QED
    BY <2>1, SwapTakesAway
<1> QED
  BY <1>1, RouterInductive, PTL DEF RouterSpec, KeepsTheRest

-----------------------------------------------------------------------------
(* What is served is current.                                              *)

\* A refresh that has queried since the region's work began did not find it
\* ready: it takes the region away, and the next ones do not load it.
WithdrawnInv(r) ==
    /\ polled[r] = "queried" => refresh.pc # "idle"
    /\ state[r] # "ready" /\ polled[r] = "queried" =>
          /\ r \notin refresh.want
          /\ refresh.pc = "open" /\ IsLoaded(r) => loaded[r] \in refresh.drop
          /\ refresh.pc = "close" => ~IsLoaded(r)
    /\ state[r] # "ready" /\ polled[r] = "refreshed" => ~IsLoaded(r) /\ r \notin refresh.want

\* What is loaded of a region that is ready, or about to be, is its release.
ReleaseInv(r) ==
    state[r] = "ready" =>
        \A h \in {loaded[r], refresh.opened[r]} : h # 0 => handle[h].release = file[r]

CurrentInv == \A r \in SlowBuilds : WithdrawnInv(r) /\ ReleaseInv(r)

\* A step that leaves the store and the files alone, and what was polled.
LEMMA CurrentUnchanged ==
    ASSUME NEW r \in Regions, WithdrawnInv(r), ReleaseInv(r),
           UNCHANGED <<state, file, handle, loaded, refresh, polled>>
    PROVE  WithdrawnInv(r)' /\ ReleaseInv(r)'
BY DEF WithdrawnInv, ReleaseInv, IsLoaded

\* The pipeline: a region gets ready only after a refresh has taken it away,
\* and while it is ready its tiles stay.
LEMMA CurrentPipeline ==
    ASSUME RInv, NEW r \in SlowBuilds, WithdrawnInv(r), ReleaseInv(r), NEW q \in Regions, Pipeline(q)
    PROVE  WithdrawnInv(r)' /\ ReleaseInv(r)'
<1> r \in Regions
  BY RouterAssumption
<1>1. UNCHANGED <<handle, loaded, refresh>> /\ FilesStep(q)
  BY DEF Pipeline, router
<1>2. state \in [Regions -> FileStates] /\ file \in [Regions -> 0..MaxVersion]
  BY DEF RInv, RouterTypeOK, FilesTypeOK
<1>3. polled'[r] = IF state[q] = "ready" /\ state'[q] # "ready"
                   THEN [polled EXCEPT ![q] = "not"][r] ELSE polled[r]
  BY DEF Pipeline, Polled
<1>4. polled \in [Regions -> {"not", "queried", "refreshed"}]
  BY DEF RInv, RouterTypeOK
<1>5. CASE q # r
  <2>1. state'[r] = state[r] /\ file'[r] = file[r]
    BY <1>1, <1>2, <1>5 DEF FilesStep, Begin, Withdraw, Place, Finish, Fail, Archive, Remove,
       Becomes, Holds
  <2>2. polled'[r] = polled[r]
    BY <1>3, <1>4, <1>5
  <2> QED
    BY <1>1, <2>1, <2>2 DEF WithdrawnInv, ReleaseInv, IsLoaded
<1>6. CASE q = r
  <2>1. CASE state[r] = "ready" /\ state'[r] # "ready"
    <3>1. polled'[r] = "not"
      BY <1>3, <1>4, <1>6, <2>1
    <3> QED
      BY <2>1, <3>1 DEF WithdrawnInv, ReleaseInv
  <2>2. CASE state[r] = "ready" /\ state'[r] = "ready"
    <3>1. file'[r] = file[r]
      BY <1>1, <1>2, <1>6, <2>2 DEF FilesStep, Begin, Withdraw, Place, Finish, Fail, Archive,
         Remove, Becomes, Holds
    <3>2. polled'[r] = polled[r]
      BY <1>3, <1>6, <2>2
    <3> QED
      BY <1>1, <2>2, <3>1, <3>2 DEF WithdrawnInv, ReleaseInv
  <2>3. CASE state[r] # "ready" /\ state'[r] = "ready"
    <3>1. polled[r] = "refreshed" /\ polled'[r] = polled[r]
      BY <1>3, <1>6, <2>3 DEF Pipeline
    <3>2. loaded[r] = 0 /\ refresh.opened[r] = 0
      BY <2>3, <3>1 DEF WithdrawnInv, IsLoaded, RInv, StoreInv, OpenedInv
    <3> QED
      BY <1>1, <2>3, <3>1, <3>2 DEF WithdrawnInv, ReleaseInv
  <2>4. CASE state[r] # "ready" /\ state'[r] # "ready"
    <3>1. polled'[r] = polled[r]
      BY <1>3, <1>6, <2>4
    <3> QED
      BY <1>1, <2>4, <3>1 DEF WithdrawnInv, ReleaseInv, IsLoaded
  <2> QED
    BY <2>1, <2>2, <2>3, <2>4
<1> QED
  BY <1>5, <1>6

\* One refresh after the other.
LEMMA CurrentRefresh ==
    ASSUME RInv, NEW r \in SlowBuilds, WithdrawnInv(r), ReleaseInv(r), RefreshStep
    PROVE  WithdrawnInv(r)' /\ ReleaseInv(r)'
<1> USE DEF files, store
<1> r \in Regions
  BY RouterAssumption
<1>0. /\ polled \in [Regions -> {"not", "queried", "refreshed"}] /\ refresh \in Refresh
      /\ loaded \in [Regions -> HandleIds] /\ handle \in [Handles -> Handle]
      /\ refresh.opened \in [Regions -> HandleIds]
  BY DEF RInv, RouterTypeOK, Refresh
<1>1. CASE RefreshQuery
  <2>1. /\ refresh.pc = "idle" /\ refresh'.pc = "diff" /\ refresh'.opened[r] = 0
        /\ r \in refresh'.want <=> state[r] = "ready"
        /\ UNCHANGED <<state, file, handle, loaded>>
    BY <1>1 DEF RefreshQuery, NoRefresh, None
  <2>2. polled'[r] = IF polled[r] = "not" THEN "queried" ELSE polled[r]
    BY <1>1 DEF RefreshQuery, Polled
  <2> QED
    BY <2>1, <2>2 DEF WithdrawnInv, ReleaseInv, IsLoaded
<1>2. CASE RefreshError
  BY <1>2, CurrentUnchanged DEF RefreshError
<1>3. CASE RefreshDiff
  <2>1. /\ refresh.pc = "diff" /\ refresh'.pc = "open" /\ refresh'.want = refresh.want
        /\ refresh'.opened = refresh.opened
        /\ refresh'.drop = {loaded[q] : q \in {s \in Regions : IsLoaded(s) /\ s \notin refresh.want}}
        /\ UNCHANGED <<state, file, handle, loaded, polled>>
    BY <1>0, <1>3 DEF RefreshDiff, Refresh
  <2> QED
    BY <2>1 DEF WithdrawnInv, ReleaseInv, IsLoaded
<1>4. ASSUME NEW s \in Regions, RefreshOpen(s)
      PROVE  WithdrawnInv(r)' /\ ReleaseInv(r)'
  <2>1. PICK h \in Handles :
           /\ Fresh(h)
           /\ handle' = [handle EXCEPT ![h] = [region |-> s, release |-> file[s], open |-> TRUE]]
           /\ refresh' = [refresh EXCEPT !.todo = @ \ {s}, !.opened[s] = h]
    BY <1>4 DEF RefreshOpen
  <2>2. refresh.pc = "open" /\ UNCHANGED <<state, file, loaded, polled>>
    BY <1>4 DEF RefreshOpen
  <2>3. /\ refresh'.pc = refresh.pc /\ refresh'.want = refresh.want
        /\ refresh'.drop = refresh.drop
        /\ refresh'.opened[r] = IF s = r THEN h ELSE refresh.opened[r]
    BY <1>0, <2>1 DEF Refresh
  <2>4. WithdrawnInv(r)'
    BY <2>2, <2>3 DEF WithdrawnInv, IsLoaded
  <2>5. /\ \A g \in Handles : g # h => handle'[g] = handle[g]
        /\ handle'[h].release = file[s]
    BY <1>0, <2>1
  <2>6. loaded[r] # h /\ refresh.opened[r] # h
    BY <2>1 DEF Fresh, Unused
  <2>7. loaded[r] # 0 => loaded[r] \in Handles
    BY <1>0 DEF Handles, HandleIds
  <2>8. refresh.opened[r] # 0 => refresh.opened[r] \in Handles
    BY <1>0 DEF Handles, HandleIds
  <2> QED
    BY <2>2, <2>3, <2>4, <2>5, <2>6, <2>7, <2>8 DEF ReleaseInv
<1>5. ASSUME NEW s \in Regions, RefreshSkip(s)
      PROVE  WithdrawnInv(r)' /\ ReleaseInv(r)'
  <2>1. /\ refresh'.pc = refresh.pc /\ refresh'.want = refresh.want
        /\ refresh'.drop = refresh.drop /\ refresh'.opened = refresh.opened
        /\ UNCHANGED <<state, file, handle, loaded, polled>>
    BY <1>0, <1>5 DEF RefreshSkip, Refresh
  <2> QED
    BY <2>1 DEF WithdrawnInv, ReleaseInv, IsLoaded
<1>6. CASE RefreshSwap
  <2>1. /\ refresh.pc = "open" /\ refresh'.pc = "close" /\ refresh'.want = refresh.want
        /\ refresh'.opened[r] = 0
        /\ loaded'[r] = IF refresh.opened[r] # 0 THEN refresh.opened[r]
                        ELSE IF loaded[r] \in refresh.drop THEN 0 ELSE loaded[r]
        /\ UNCHANGED <<state, file, handle, polled>>
    BY <1>0, <1>6 DEF RefreshSwap, Refresh, None
  <2>2. r \notin refresh.want => refresh.opened[r] = 0
    BY DEF RInv, StoreInv, OpenedInv
  <2>3. ReleaseInv(r)'
    BY <2>1 DEF ReleaseInv
  <2>4. WithdrawnInv(r)'
    BY <2>1, <2>2 DEF WithdrawnInv, IsLoaded
  <2> QED
    BY <2>3, <2>4
<1>7. ASSUME NEW h \in Handles, RefreshClose(h)
      PROVE  WithdrawnInv(r)' /\ ReleaseInv(r)'
  <2>1. /\ refresh.pc = "close" /\ h \in refresh.drop
        /\ refresh'.pc = refresh.pc /\ refresh'.want = refresh.want
        /\ refresh'.opened = refresh.opened
        /\ \A g \in Handles : g # h => handle'[g] = handle[g]
        /\ UNCHANGED <<state, file, loaded, polled>>
    BY <1>0, <1>7 DEF RefreshClose, Refresh
  <2>2. loaded[r] # h /\ refresh.opened[r] = 0
    BY <2>1 DEF RInv, StoreInv, DropInv, OpenedInv
  <2>3. loaded[r] # 0 => loaded[r] \in Handles
    BY <1>0 DEF Handles, HandleIds
  <2> QED
    BY <2>1, <2>2, <2>3 DEF WithdrawnInv, ReleaseInv, IsLoaded
<1>8. CASE RefreshDone
  <2>1. /\ refresh.pc = "close" /\ refresh'.pc = "idle" /\ refresh'.want = {}
        /\ refresh'.opened[r] = 0
        /\ UNCHANGED <<state, file, handle, loaded>>
    BY <1>8 DEF RefreshDone, NoRefresh, None
  <2>2. polled'[r] = IF polled[r] = "queried" THEN "refreshed" ELSE polled[r]
    BY <1>8 DEF RefreshDone, Polled
  <2> QED
    BY <2>1, <2>2 DEF WithdrawnInv, ReleaseInv, IsLoaded
<1> QED
  BY <1>1, <1>2, <1>3, <1>4, <1>5, <1>6, <1>7, <1>8 DEF RefreshStep

\* Nothing is loaded after the router has closed its files.
LEMMA CurrentStop ==
    ASSUME RInv, NEW r \in SlowBuilds, WithdrawnInv(r), ReleaseInv(r), CloseAll \/ Restart
    PROVE  WithdrawnInv(r)' /\ ReleaseInv(r)'
<1> r \in Regions
  BY RouterAssumption
<1>1. /\ loaded'[r] = 0 /\ refresh'.opened[r] = 0 /\ refresh'.want = {}
      /\ UNCHANGED <<state, file>>
  <2>1. None[r] = 0
    BY DEF None
  <2>2. CASE CloseAll
    BY <2>1, <2>2 DEF CloseAll, NoRefresh, files
  <2>3. CASE Restart
    BY <2>1, <2>3 DEF Restart, NoRefresh, files
  <2> QED
    BY <2>2, <2>3
<1>2. polled'[r] # "queried"
  <2>1. CASE CloseAll
    BY <2>1 DEF CloseAll, WithdrawnInv
  <2>2. CASE Restart
    BY <2>2 DEF Restart, Polled
  <2> QED
    BY <2>1, <2>2
<1> QED
  BY <1>1, <1>2 DEF WithdrawnInv, ReleaseInv, IsLoaded

LEMMA CurrentNext ==
    ASSUME RInv, CurrentInv, [RouterNext]_rvars
    PROVE  CurrentInv'
<1> SUFFICES ASSUME NEW r \in SlowBuilds PROVE WithdrawnInv(r)' /\ ReleaseInv(r)'
  BY DEF CurrentInv
<1> r \in Regions /\ WithdrawnInv(r) /\ ReleaseInv(r)
  BY RouterAssumption DEF CurrentInv
<1>1. CASE \E q \in Regions : Pipeline(q)
  BY <1>1, CurrentPipeline
<1>2. CASE RefreshStep
  BY <1>2, CurrentRefresh
<1>3. CASE CloseAll \/ Restart
  BY <1>3, CurrentStop
<1>4. CASE \/ SyncStep \/ Listen \/ Stop \/ UNCHANGED rvars
           \/ \E q \in Requests : RequestStep(q) \/ \E t \in Tiles : Accept(q, t)
  <2>1. UNCHANGED <<state, file, handle, loaded, refresh, polled>>
    BY <1>4 DEF SyncStep, SyncSnapshot, SyncSet, Listen, Stop, RequestStep, ServeBasemap, Pick,
       NotFound, ReadTile, Accept, files, store, rvars
  <2> QED
    BY <2>1, CurrentUnchanged
<1> QED
  BY <1>1, <1>2, <1>3, <1>4 DEF RouterNext

\* What is served of a region that is ready is the release that its directory
\* holds, if nobody finishes a release while a refresh runs: whatever fails,
\* and however the router is stopped and started.
THEOREM ServesTheCurrentRelease == RouterSpec => []ServesCurrent
<1>1. RouterInit => CurrentInv
  <2> SUFFICES ASSUME RouterInit, NEW r \in SlowBuilds PROVE WithdrawnInv(r) /\ ReleaseInv(r)
    BY DEF CurrentInv
  <2> QED
    BY RouterAssumption DEF RouterInit, FilesInit, WithdrawnInv, ReleaseInv
<1>2. RInv /\ CurrentInv /\ [RouterNext]_rvars => CurrentInv'
  BY CurrentNext
<1>3. CurrentInv => ServesCurrent
  BY DEF CurrentInv, ReleaseInv, ServesCurrent, IsLoaded
<1> QED
  BY <1>1, <1>2, <1>3, RouterInductive, PTL DEF RouterSpec
=============================================================================
