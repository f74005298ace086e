----------------------- MODULE RegionPipeline_proofs -----------------------
(***************************************************************************)
(* Two inductive invariants of the pipeline, and what follows from them.   *)
(*                                                                         *)
(* IInv, the bookkeeping -- which task runs on which goroutine, which rows *)
(* it finds, which job a region points at -- is right for every number of  *)
(* regions, handler goroutines, requests, jobs, tasks and retries,         *)
(* whatever faults and crashes happen and whoever overtakes whom.          *)
(*                                                                         *)
(* SerialInv, what each stage of a chain finds in the row and on the disk, *)
(* is right for all of these too, as long as nobody asks for a region that *)
(* is being worked on and the worker does not die between the end of a     *)
(* stage and its acknowledgement.  What a reader of a region sees rests on *)
(* it, and so do the two refinements.                                      *)
(***************************************************************************)
EXTENDS RegionPipeline, TLAPS, FiniteSetTheorems

IInv == TypeOK /\ BookkeepingInv

-----------------------------------------------------------------------------
(* What a handler finds when it runs.                                      *)

LEMMA HandlerTask ==
    ASSUME IInv, NEW w \in Slots, slot[w].pc # "idle"
    PROVE  /\ slot[w].task \in TaskIds
           /\ T(w) \in Task
           /\ T(w).status = "active"
<1>1. w \in Busy
  BY DEF Busy
<1>2. slot[w].task \in TaskIds /\ T(w).status = "active"
  BY <1>1 DEF IInv, BookkeepingInv, ActiveOnOneSlot, T
<1>3. T(w) \in Task
  BY <1>2 DEF IInv, TypeOK, T
<1> QED
  BY <1>2, <1>3

\* A handler of a region has a region, a job of that region and a row.
LEMMA HandlerRegion ==
    ASSUME IInv, NEW w \in Slots, slot[w].pc \notin {"idle", "combined"}
    PROVE  /\ T(w).kind # "combined"
           /\ R(w) \in Regions
           /\ T(w).job \in JobIds
           /\ job[T(w).job].state # "none"
           /\ job[T(w).job].region = R(w)
           /\ row[R(w)].state # "absent"
<1>1. slot[w].task \in TaskIds /\ T(w).status = "active"
  BY HandlerTask
<1>2. T(w).kind # "combined"
  BY DEF IInv, BookkeepingInv, HandlersMatch, Busy, At
<1>3. TaskBacked(slot[w].task)
  BY <1>1 DEF IInv, BookkeepingInv, TasksBacked
<1> QED
  BY <1>1, <1>2, <1>3 DEF TaskBacked, T, R

LEMMA InitHolds == Init => IInv
<1> SUFFICES ASSUME Init PROVE IInv
  OBVIOUS
<1> USE BoundAssumption
<1>1. NoDir \in Dir
  BY DEF NoDir, Dir, Versions
<1>2. Idle \in Slot
  BY <1>1 DEF Idle, Slot, Pcs, Versions
<1>3. NoTask \in Task
  BY DEF NoTask, Task, TaskKinds
<1>4. NoJob \in Job
  BY DEF NoJob, Job, JobStates, JobKinds
<1>5. NoRequest \in ClientState
  BY DEF NoRequest, ClientState, JobKinds
<1>6. NoTick \in SchedState
  BY DEF NoTick, SchedState
<1>7. row \in [Regions -> Row]
  BY DEF Init, Row, RowStates, Versions
<1>8. TypeOK
  BY <1>1, <1>2, <1>3, <1>4, <1>5, <1>6, <1>7 DEF Init, TypeOK, Versions
<1>9. Busy = {}
  BY DEF Init, Busy, Idle
<1>10. ActiveOnOneSlot /\ HandlersMatch
  BY <1>9 DEF ActiveOnOneSlot, HandlersMatch
<1>11. PendingMatches
  BY DEF Init, PendingMatches
<1>12. TasksShaped /\ TasksBacked
  BY DEF Init, TasksShaped, TasksBacked, TaskBacked, NoTask
<1>13. RequestsBacked /\ TickBacked /\ IdleHoldsNothing
  BY DEF Init, RequestsBacked, TickBacked, IdleHoldsNothing, NoRequest, NoTick
<1>14. ActiveJobUnsettled
  BY DEF Init, ActiveJobUnsettled
<1> QED
  BY <1>8, <1>10, <1>11, <1>12, <1>13, <1>14 DEF IInv, BookkeepingInv

-----------------------------------------------------------------------------
(* The four ways in which a handler's step touches the bookkeeping.        *)

\* What a handler may write about regions without a say in the bookkeeping.
RowsKept ==
    \A r \in Regions :
        /\ row'[r].job = row[r].job
        /\ row[r].state # "absent" => row'[r].state # "absent"

StaysOn(w) ==
    /\ slot' = [slot EXCEPT ![w] = slot'[w]]
    /\ slot'[w].pc \notin {"idle", "combined"}
    /\ slot'[w].task = slot[w].task

\* The handler goes on with its task and leaves the queue and the jobs alone.
LEMMA GoesOn ==
    ASSUME IInv, NEW w \in Slots, slot[w].pc \notin {"idle", "combined"},
           StaysOn(w), RowsKept,
           UNCHANGED <<job, task, pending, client, sched>>
    PROVE  BookkeepingInv'
<1> USE DEF IInv, BookkeepingInv
<1>1. slot[w].task \in TaskIds /\ T(w).status = "active" /\ T(w).kind # "combined"
  BY HandlerTask, HandlerRegion DEF IInv, BookkeepingInv
<1>2. Busy' = Busy
  BY DEF StaysOn, Busy, TypeOK
<1>3. \A v \in Slots : slot'[v].task = slot[v].task
  BY DEF StaysOn, TypeOK
<1>4. ActiveOnOneSlot'
  BY <1>2, <1>3 DEF ActiveOnOneSlot, Busy
<1>5. HandlersMatch'
  <2> SUFFICES ASSUME NEW v \in Busy', T(v)'.kind = "combined" PROVE At(v, "combined")'
    BY DEF HandlersMatch
  <2>1. T(v)' = T(v)
    BY <1>2, <1>3 DEF T, Busy
  <2>2. v # w
    BY <2>1, <1>1
  <2>3. slot'[v] = slot[v]
    BY <2>2, <1>2 DEF StaysOn, TypeOK, Busy
  <2> QED
    BY <1>2, <2>1, <2>3 DEF HandlersMatch, At
<1>6. PendingMatches' /\ TasksShaped'
  BY DEF PendingMatches, TasksShaped
<1>7. TasksBacked'
  BY DEF TasksBacked, TaskBacked, RowsKept
<1>8. RequestsBacked'
  BY DEF RequestsBacked, RowsKept
<1>9. TickBacked' /\ IdleHoldsNothing'
  BY DEF TickBacked, IdleHoldsNothing, RowsKept
<1>10. ActiveJobUnsettled'
  BY DEF ActiveJobUnsettled, RowsKept
<1> QED
  BY <1>4, <1>5, <1>6, <1>7, <1>8, <1>9, <1>10

\* The job of the handler's task is closed, and nothing else happens to jobs.
JobClosed(w, st) ==
    /\ job' \in [JobIds -> Job]
    /\ \A j \in JobIds : j # T(w).job => job'[j] = job[j]
    /\ T(w).job \in JobIds =>
         job'[T(w).job] = [job[T(w).job] EXCEPT !.state = st]

\* The handler returns: its task is settled or left for a retry.
Settled(w) ==
    /\ task' = [task EXCEPT ![slot[w].task] = task'[slot[w].task]]
    /\ \/ task'[slot[w].task] = NoTask
       \/ task'[slot[w].task] =
            [T(w) EXCEPT !.status = "retry", !.tries = T(w).tries + 1]
    /\ slot' = [slot EXCEPT ![w] = Idle]

LEMMA Returns ==
    ASSUME IInv, NEW w \in Slots, slot[w].pc # "idle",
           Settled(w), RowsKept,
           job' = job \/ (slot[w].pc # "combined" /\ JobClosed(w, "failed")),
           UNCHANGED <<pending, client, sched>>
    PROVE  BookkeepingInv'
<1> USE DEF IInv, BookkeepingInv
<1> DEFINE t == slot[w].task
<1>1. t \in TaskIds /\ task[t] \in Task /\ task[t].status = "active" /\ T(w) = task[t]
  BY HandlerTask DEF T
<1>2. \A u \in TaskIds : u # t => task'[u] = task[u]
  BY DEF Settled, TypeOK
<1>3. /\ task'[t].status \in {"free", "retry"}
      /\ task'[t] = NoTask \/ (/\ task'[t].status = "retry" /\ task'[t].kind = task[t].kind
                               /\ task'[t].region = task[t].region /\ task'[t].job = task[t].job)
  <2>1. CASE task'[t] = NoTask
    BY <2>1 DEF NoTask
  <2>2. CASE task'[t] = [task[t] EXCEPT !.status = "retry", !.tries = task[t].tries + 1]
    <3>1. task[t] = [status |-> task[t].status, kind |-> task[t].kind, region |-> task[t].region,
                     job |-> task[t].job, tries |-> task[t].tries]
      BY <1>1 DEF Task
    <3> QED
      BY <2>2, <3>1
  <2> QED
    BY <2>1, <2>2, <1>1 DEF Settled
<1>4. Busy' = Busy \ {w} /\ \A v \in Slots \ {w} : slot'[v] = slot[v]
  BY DEF Settled, Busy, TypeOK, Idle
<1>5. w \in Busy
  BY DEF Busy
<1>6. ActiveOnOneSlot'
  BY <1>1, <1>2, <1>4, <1>5 DEF ActiveOnOneSlot, Busy
<1>7. HandlersMatch'
  <2> SUFFICES ASSUME NEW v \in Busy', T(v)'.kind = "combined" PROVE At(v, "combined")'
    BY DEF HandlersMatch
  <2>1. v \in Busy /\ v # w /\ slot'[v] = slot[v]
    BY <1>4 DEF Busy
  <2>2. slot[v].task # t /\ slot[v].task \in TaskIds
    BY <2>1, <1>5 DEF ActiveOnOneSlot
  <2> QED
    BY <2>1, <2>2, <1>2 DEF HandlersMatch, At, T
<1>8. PendingMatches'
  BY <1>1, <1>2 DEF PendingMatches, TypeOK
<1>9. TasksShaped'
  BY <1>1, <1>2, <1>3 DEF TasksShaped, NoTask
<1>10. \A j \in JobIds :
          /\ job'[j].region = job[j].region
          /\ job'[j].state = job[j].state \/ (/\ job'[j].state = "failed" /\ j = task[t].job
                                             /\ task[t].kind # "combined")
  BY <1>1, HandlerRegion DEF JobClosed, TypeOK, Job
<1>11. TasksBacked'
  <2> SUFFICES ASSUME NEW u \in TaskIds PROVE TaskBacked(u)'
    BY DEF TasksBacked
  <2>1. TaskBacked(u)
    BY DEF TasksBacked
  <2>2. /\ task'[u].status # "free" => task[u].status # "free"
        /\ task'[u].status # "free" => /\ task'[u].kind = task[u].kind /\ task'[u].job = task[u].job
                                      /\ task'[u].region = task[u].region
    BY <1>1, <1>2, <1>3 DEF NoTask
  <2> QED
    BY <2>1, <2>2, <1>10 DEF TaskBacked, RowsKept
<1>12. \A u \in TaskIds : task'[u].job = 0 \/ task'[u].job = task[u].job
  BY <1>1, <1>2, <1>3 DEF NoTask
<1>13. RequestsBacked'
  <2>1. \A c \in Clients : client[c].pc # "idle" => job'[client[c].job] = job[client[c].job]
    BY <1>1 DEF RequestsBacked, JobClosed
  <2> QED
    BY <2>1, <1>12 DEF RequestsBacked, RowsKept, JobIds
<1>14. TickBacked'
  <2>1. sched.pc # "idle" => job'[sched.job] = job[sched.job]
    BY <1>1 DEF TickBacked, JobClosed
  <2> QED
    BY <2>1, <1>12 DEF TickBacked, RowsKept, JobIds
<1>15. IdleHoldsNothing'
  BY DEF IdleHoldsNothing
<1>16. ActiveJobUnsettled'
  <2> SUFFICES ASSUME NEW r \in Regions, row'[r].job # 0
               PROVE  job'[row'[r].job].state \in {"queued", "failed"} /\ job'[row'[r].job].region = r
    BY DEF ActiveJobUnsettled
  <2>1. row[r].job # 0 /\ row'[r].job = row[r].job
    BY DEF RowsKept
  <2>2. row[r].job \in JobIds
    BY <2>1, BoundAssumption DEF TypeOK, Row, JobIds
  <2> QED
    BY <2>1, <2>2, <1>10 DEF ActiveJobUnsettled
<1> QED
  BY <1>6, <1>7, <1>8, <1>9, <1>11, <1>13, <1>14, <1>15, <1>16

\* The handler hands over: one new task of its own job, or a combined build.
HandsOver(w) ==
    \E t \in TaskIds, new \in Task :
        /\ task[t].status = "free"
        /\ new.status = "pending"
        /\ IF new.kind = "combined" THEN new.job = 0
           ELSE new.job = T(w).job /\ new.region = R(w)
        /\ task' = [task EXCEPT ![t] = new]
        /\ pending' = Append(pending, t)

LEMMA AppendKeepsMatch ==
    ASSUME TypeOK, PendingMatches, NEW t \in TaskIds, task[t].status # "pending",
           task' = [task EXCEPT ![t] = task'[t]], task'[t].status = "pending",
           pending' = Append(pending, t)
    PROVE  PendingMatches'
<1>1. \A i \in DOMAIN pending : pending[i] \in TaskIds /\ pending[i] # t
  BY DEF TypeOK, PendingMatches
<1>2. \A i \in DOMAIN pending' : i \in DOMAIN pending \/ i = Len(pending) + 1
  BY DEF TypeOK
<1>3. pending'[Len(pending) + 1] = t /\ \A i \in DOMAIN pending : pending'[i] = pending[i]
  BY DEF TypeOK
<1>4. Len(pending) + 1 \notin DOMAIN pending
  BY DEF TypeOK
<1>5. task'[t].status = "pending" /\ \A u \in TaskIds : u # t => task'[u] = task[u]
  BY DEF TypeOK
<1> QED
  BY <1>1, <1>2, <1>3, <1>4, <1>5 DEF PendingMatches

LEMMA Hands ==
    ASSUME IInv, NEW w \in Slots, slot[w].pc \notin {"idle", "combined"},
           HandsOver(w), StaysOn(w),
           UNCHANGED <<row, job, client, sched>>
    PROVE  BookkeepingInv'
<1> USE DEF IInv, BookkeepingInv
<1>1. PICK t \in TaskIds, new \in Task :
        /\ task[t].status = "free"
        /\ new.status = "pending"
        /\ IF new.kind = "combined" THEN new.job = 0
           ELSE new.job = T(w).job /\ new.region = R(w)
        /\ task' = [task EXCEPT ![t] = new]
        /\ pending' = Append(pending, t)
  BY DEF HandsOver
<1>2. task'[t] = new /\ \A u \in TaskIds : u # t => task'[u] = task[u]
  BY <1>1 DEF TypeOK
<1>3. Busy' = Busy /\ \A v \in Slots : slot'[v].task = slot[v].task
  BY DEF StaysOn, Busy, TypeOK
<1>4. \A v \in Busy : slot[v].task \in TaskIds /\ slot[v].task # t
  BY <1>1 DEF ActiveOnOneSlot
<1>5. ActiveOnOneSlot'
  BY <1>2, <1>3, <1>4 DEF ActiveOnOneSlot, Busy
<1>6. HandlersMatch'
  <2> SUFFICES ASSUME NEW v \in Busy', T(v)'.kind = "combined" PROVE At(v, "combined")'
    BY DEF HandlersMatch
  <2>1. T(v)' = T(v)
    BY <1>2, <1>3, <1>4 DEF T, Busy
  <2>2. v # w
    BY <2>1, HandlerRegion
  <2>3. slot'[v] = slot[v]
    BY <2>2, <1>3 DEF StaysOn, TypeOK, Busy
  <2> QED
    BY <1>3, <2>1, <2>3 DEF HandlersMatch, At
<1>7. PendingMatches'
  BY <1>1, <1>2, AppendKeepsMatch
<1>8. TasksShaped'
  BY <1>1, <1>2 DEF TasksShaped
<1>9. TasksBacked'
  BY <1>1, <1>2, HandlerRegion DEF TasksBacked, TaskBacked
<1>10. T(w).job \in JobIds /\ \E u \in TaskIds : task[u].job = T(w).job
  BY HandlerRegion, HandlerTask DEF T
<1>11. RequestsBacked'
  BY <1>1, <1>2, <1>10 DEF RequestsBacked, JobIds
<1>12. TickBacked'
  BY <1>1, <1>2, <1>10 DEF TickBacked, JobIds
<1>13. IdleHoldsNothing' /\ ActiveJobUnsettled'
  BY DEF IdleHoldsNothing, ActiveJobUnsettled
<1> QED
  BY <1>5, <1>6, <1>7, <1>8, <1>9, <1>11, <1>12, <1>13

\* The handler closes its job as succeeded and takes it off the region.
LEMMA Closes ==
    ASSUME IInv, NEW w \in Slots, slot[w].pc \notin {"idle", "combined"},
           StaysOn(w), JobClosed(w, "succeeded"),
           \A r \in Regions : /\ row'[r].job = IF r = R(w) THEN 0 ELSE row[r].job
                              /\ row[r].state # "absent" => row'[r].state # "absent",
           UNCHANGED <<task, pending, client, sched>>
    PROVE  BookkeepingInv'
<1> USE DEF IInv, BookkeepingInv
<1>1. /\ slot[w].task \in TaskIds /\ T(w).kind # "combined"
      /\ T(w).job \in JobIds /\ job[T(w).job].region = R(w)
  BY HandlerTask, HandlerRegion
<1>2. Busy' = Busy /\ \A v \in Slots : slot'[v].task = slot[v].task
  BY DEF StaysOn, Busy, TypeOK
<1>3. ActiveOnOneSlot'
  BY <1>2 DEF ActiveOnOneSlot, Busy
<1>4. HandlersMatch'
  <2> SUFFICES ASSUME NEW v \in Busy', T(v)'.kind = "combined" PROVE At(v, "combined")'
    BY DEF HandlersMatch
  <2>1. T(v)' = T(v)
    BY <1>2 DEF T, Busy
  <2>2. v # w
    BY <2>1, <1>1
  <2>3. slot'[v] = slot[v]
    BY <2>2, <1>2 DEF StaysOn, TypeOK, Busy
  <2> QED
    BY <1>2, <2>1, <2>3 DEF HandlersMatch, At
<1>5. PendingMatches' /\ TasksShaped'
  BY DEF PendingMatches, TasksShaped
<1>6. \A j \in JobIds :
        /\ job'[j].region = job[j].region
        /\ j # T(w).job => job'[j] = job[j]
        /\ job[j].state # "none" => job'[j].state # "none"
  BY <1>1 DEF JobClosed, TypeOK, Job
<1>7. TasksBacked'
  BY <1>6 DEF TasksBacked, TaskBacked
<1>8. \E u \in TaskIds : task[u].job = T(w).job
  BY <1>1 DEF T
<1>9. RequestsBacked'
  BY <1>6, <1>8 DEF RequestsBacked
<1>10. TickBacked' /\ IdleHoldsNothing'
  BY <1>6, <1>8 DEF TickBacked, IdleHoldsNothing
<1>11. ActiveJobUnsettled'
  <2> SUFFICES ASSUME NEW r \in Regions, row'[r].job # 0
               PROVE  job'[row'[r].job].state \in {"queued", "failed"} /\ job'[row'[r].job].region = r
    BY DEF ActiveJobUnsettled
  <2>1. r # R(w) /\ row'[r].job = row[r].job /\ row[r].job # 0
    OBVIOUS
  <2>2. row[r].job \in JobIds
    BY <2>1, BoundAssumption DEF TypeOK, Row, JobIds
  <2>3. row[r].job # T(w).job
    BY <2>1, <1>1 DEF ActiveJobUnsettled
  <2> QED
    BY <2>1, <2>2, <2>3, <1>6 DEF ActiveJobUnsettled
<1> QED
  BY <1>3, <1>4, <1>5, <1>7, <1>9, <1>10, <1>11

-----------------------------------------------------------------------------
(* Types of the helpers.                                                   *)

LEMMA GotoStays ==
    ASSUME TypeOK, NEW w \in Slots, NEW pc \in Pcs \ {"idle", "combined"}, Goto(w, pc)
    PROVE  StaysOn(w) /\ slot' \in [Slots -> Slot]
BY DEF TypeOK, Goto, StaysOn, Slot

\* The same for a step that also keeps a directory or a checksum at hand.
LEMMA GotoWithStays ==
    ASSUME TypeOK, NEW w \in Slots, NEW pc \in Pcs \ {"idle", "combined"},
           \/ \E d \in Dir : slot' = [slot EXCEPT ![w].pc = pc, ![w].old = d]
           \/ \E v \in Versions : slot' = [slot EXCEPT ![w].pc = pc, ![w].sum = v]
    PROVE  StaysOn(w) /\ slot' \in [Slots -> Slot]
<1>1. slot \in [Slots -> Slot] /\ slot[w] \in Slot
  BY DEF TypeOK
<1>2. CASE \E d \in Dir : slot' = [slot EXCEPT ![w].pc = pc, ![w].old = d]
  <2>1. PICK d \in Dir : slot' = [slot EXCEPT ![w].pc = pc, ![w].old = d]
    BY <1>2
  <2>2. slot'[w] = [slot[w] EXCEPT !.pc = pc, !.old = d] /\ slot' = [slot EXCEPT ![w] = slot'[w]]
    BY <1>1, <2>1
  <2>3. slot'[w] \in Slot /\ slot'[w].pc = pc /\ slot'[w].task = slot[w].task
    BY <1>1, <2>2 DEF Slot
  <2> QED
    BY <1>1, <2>2, <2>3 DEF StaysOn
<1>3. CASE \E v \in Versions : slot' = [slot EXCEPT ![w].pc = pc, ![w].sum = v]
  <2>1. PICK v \in Versions : slot' = [slot EXCEPT ![w].pc = pc, ![w].sum = v]
    BY <1>3
  <2>2. slot'[w] = [slot[w] EXCEPT !.pc = pc, !.sum = v] /\ slot' = [slot EXCEPT ![w] = slot'[w]]
    BY <1>1, <2>1
  <2>3. slot'[w] \in Slot /\ slot'[w].pc = pc /\ slot'[w].task = slot[w].task
    BY <1>1, <2>2 DEF Slot
  <2> QED
    BY <1>1, <2>2, <2>3 DEF StaysOn
<1> QED
  BY <1>2, <1>3

LEMMA IdleStays ==
    ASSUME TypeOK, NEW w \in Slots, slot' = [slot EXCEPT ![w] = Idle]
    PROVE  slot' \in [Slots -> Slot]
<1>1. Idle \in Slot
  BY BoundAssumption DEF Idle, Slot, Pcs, Versions, NoDir, Dir
<1> QED
  BY <1>1 DEF TypeOK

LEMMA DirTypes ==
    ASSUME NEW d \in Dir
    PROVE  /\ NoDir \in Dir
           /\ Made(d) \in Dir
           /\ \A p \in Parts, v \in Versions : With(d, p, v) \in Dir
           /\ Remainder(d) \subseteq Dir
           /\ d.has["pbf"] \in Versions
<1>1. 0 \in Versions
  BY BoundAssumption DEF Versions
<1>2. NoDir \in Dir /\ Made(d) \in Dir
  BY <1>1 DEF NoDir, Made, Dir
<1>3. \A p \in Parts, v \in Versions : With(d, p, v) \in Dir
  BY DEF With, Dir
<1>4. Remainder(d) \subseteq Dir
  BY <1>1 DEF Remainder, Dir
<1>5. d.has["pbf"] \in Versions
  BY DEF Dir, Parts
<1> QED
  BY <1>2, <1>3, <1>4, <1>5

LEMMA RowTypes ==
    ASSUME TypeOK, NEW r, NEW st \in RowStates \ {"absent"},
           row' = [row EXCEPT ![r].state = st]
    PROVE  row' \in [Regions -> Row] /\ RowsKept
<1>1. \A q \in Regions : row'[q] = IF q = r THEN [row[q] EXCEPT !.state = st] ELSE row[q]
  BY DEF TypeOK
<1>2. \A q \in Regions : row[q] \in Row
  BY DEF TypeOK
<1>3. \A q \in Regions : [row[q] EXCEPT !.state = st] \in Row
  BY <1>2 DEF Row
<1>4. row' \in [Regions -> Row]
  BY <1>1, <1>2, <1>3 DEF TypeOK
<1> QED
  BY <1>1, <1>2, <1>4 DEF RowsKept, Row

LEMMA RowPoints ==
    ASSUME TypeOK, NEW r, NEW st \in RowStates, NEW j \in 0..MaxJobs,
           row' = [row EXCEPT ![r].state = st, ![r].job = j]
    PROVE  /\ row' \in [Regions -> Row]
           /\ \A q \in Regions : row'[q] = IF q = r THEN [row[q] EXCEPT !.state = st, !.job = j]
                                            ELSE row[q]
           /\ r \in Regions => row'[r].state = st /\ row'[r].job = j
<1>1. row \in [Regions -> Row]
  BY DEF TypeOK
<1>2. row' \in [Regions -> Row]
  BY <1>1 DEF Row
<1>3. \A q \in Regions : row'[q] = IF q = r THEN [row[q] EXCEPT !.state = st, !.job = j]
                                   ELSE row[q]
  BY <1>1 DEF Row
<1>4. \A q \in Regions : LET x == [row[q] EXCEPT !.state = st, !.job = j]
                         IN  x.state = st /\ x.job = j
  BY <1>1 DEF Row
<1> QED
  BY <1>2, <1>3, <1>4

LEMMA JobTypes ==
    ASSUME TypeOK, NEW w \in Slots, NEW st \in JobStates, SetJob(T(w).job, st)
    PROVE  JobClosed(w, st)
<1>1. CASE T(w).job \in JobIds
  BY <1>1 DEF TypeOK, SetJob, JobClosed, Job
<1>2. CASE T(w).job \notin JobIds
  BY <1>2 DEF TypeOK, SetJob, JobClosed
<1> QED
  BY <1>1, <1>2

LEMMA QueueTypes ==
    ASSUME TypeOK, NEW k \in TaskKinds, NEW r \in Regions \cup {NoRegion}, NEW j \in 0..MaxJobs,
           Enqueue(k, r, j)
    PROVE  /\ task' \in [TaskIds -> Task]
           /\ pending' \in Seq(TaskIds)
           /\ \E t \in TaskIds, new \in Task :
                 /\ task[t].status = "free"
                 /\ new.status = "pending" /\ new.kind = k /\ new.region = r /\ new.job = j
                 /\ task' = [task EXCEPT ![t] = new]
                 /\ pending' = Append(pending, t)
<1> DEFINE new == [status |-> "pending", kind |-> k, region |-> r, job |-> j, tries |-> 0]
<1>1. new \in Task
  BY BoundAssumption DEF Task
<1>2. PICK t \in TaskIds : /\ FreeTask(t)
                          /\ task' = [task EXCEPT ![t] = new]
                          /\ pending' = Append(pending, t)
  BY DEF Enqueue
<1>3. task' \in [TaskIds -> Task]
  BY <1>1, <1>2 DEF TypeOK
<1>4. pending' \in Seq(TaskIds)
  BY <1>2 DEF TypeOK
<1> QED
  BY <1>1, <1>2, <1>3, <1>4 DEF FreeTask

LEMMA SettleTypes ==
    ASSUME IInv, NEW w \in Slots, slot[w].pc # "idle", ReturnNil(w) \/ ReturnError(w)
    PROVE  Settled(w) /\ task' \in [TaskIds -> Task] /\ slot' \in [Slots -> Slot]
<1> DEFINE t == slot[w].task
<1>1. t \in TaskIds /\ task[t] \in Task /\ T(w) = task[t]
  BY HandlerTask DEF T
<1>2. TypeOK
  BY DEF IInv
<1>3. NoTask \in Task
  BY BoundAssumption DEF NoTask, Task, TaskKinds
<1>4. slot' = [slot EXCEPT ![w] = Idle]
  BY DEF ReturnNil, ReturnError
<1>5. CASE ReturnNil(w)
  BY <1>1, <1>2, <1>3, <1>4, <1>5, IdleStays DEF ReturnNil, Settled, TypeOK
<1>6. CASE ReturnError(w)
  <2>1. CASE task[t].tries < MaxRetry
    <3> DEFINE again == [task[t] EXCEPT !.status = "retry", !.tries = task[t].tries + 1]
    <3>1. Failed(t) = again
      BY <2>1 DEF Failed
    <3>2. again \in Task
      <4>1. task[t].tries \in 0..MaxRetry
        BY <1>1 DEF Task
      <4>2. task[t].tries + 1 \in 0..MaxRetry
        BY <4>1, <2>1, BoundAssumption
      <4> QED
        BY <1>1, <4>2 DEF Task
    <3> QED
      BY <1>1, <1>2, <1>4, <1>6, <3>1, <3>2, IdleStays DEF ReturnError, Settled, TypeOK
  <2>2. CASE ~(task[t].tries < MaxRetry)
    <3>1. Failed(t) = NoTask
      BY <2>2 DEF Failed
    <3> QED
      BY <1>1, <1>2, <1>3, <1>4, <1>6, <3>1, IdleStays DEF ReturnError, Settled, TypeOK
  <2> QED
    BY <2>1, <2>2
<1> QED
  BY <1>5, <1>6

-----------------------------------------------------------------------------
(* Handler steps.                                                          *)

\* Steps that go on: only the slot, a region's state or a directory changes.
LEMMA WorkSteps ==
    ASSUME IInv, NEW w \in Slots,
           \/ Mark(w) \/ Fetch(w) \/ FetchError(w) \/ Persist(w) \/ PersistError(w)
           \/ Build(w) \/ BuildError(w) \/ Geocode(w) \/ GeocodeError(w)
           \/ MarkStageFailed(w)
    PROVE  IInv'
<1> USE DEF IInv, At, db, queue, disk
<1>1. /\ slot[w].pc \notin {"idle", "combined"}
      /\ UNCHANGED <<job, task, pending, client, sched, upstream>>
  BY DEF Mark, Fetch, FetchError, Persist, PersistError, Build, BuildError, Geocode,
         GeocodeError, MarkStageFailed
<1>2. R(w) \in Regions /\ T(w).kind \in TaskKinds
  BY <1>1, HandlerRegion, HandlerTask DEF Task
<1>3. /\ upstream[R(w)] \in Versions
      /\ live[R(w)] \in Dir /\ staged[R(w)] \in Dir
      /\ staged[R(w)].has["pbf"] \in Versions /\ live[R(w)].has["pbf"] \in Versions
      /\ 0 \in Versions
  BY <1>2, DirTypes, BoundAssumption DEF TypeOK, Versions
<1>4. \A q \in Regions : live[q] \in Dir /\ staged[q] \in Dir
  BY DEF TypeOK
<1>5. StaysOn(w) /\ slot' \in [Slots -> Slot]
  <2>1. CASE Fetch(w)
    <3>1. "persist" \in Pcs \ {"idle", "combined"}
      BY DEF Pcs
    <3> QED
      BY <2>1, <3>1, <1>3, GotoWithStays DEF Fetch
  <2>2. CASE ~Fetch(w)
    <3>1. \E pc \in Pcs \ {"idle", "combined"} : Goto(w, pc)
      BY <2>2, GotoStays DEF Mark, FetchError, Persist, PersistError, Build, BuildError,
         Geocode, GeocodeError, MarkStageFailed, WorkPc, Pcs
    <3> QED
      BY <3>1, GotoStays
  <2> QED
    BY <2>1, <2>2
<1>6. row' \in [Regions -> Row] /\ RowsKept
  <2>1. CASE Mark(w)
    <3>1. EntryState(T(w).kind) \in RowStates \ {"absent"}
      BY DEF EntryState, RowStates
    <3> QED
      BY <2>1, <3>1, RowTypes DEF Mark
  <2>2. CASE Persist(w)
    <3>1. slot[w].sum \in Versions
      BY DEF TypeOK, Slot
    <3> QED
      BY <2>2, <3>1 DEF Persist, TypeOK, RowsKept, Row
  <2>3. CASE row' = row
    BY <2>3 DEF TypeOK, RowsKept
  <2>4. CASE MarkStageFailed(w) /\ row' # row
    <3>1. "failed" \in RowStates \ {"absent"}
      BY DEF RowStates
    <3> QED
      BY <2>4, <3>1, RowTypes DEF MarkStageFailed
  <2> QED
    BY <2>1, <2>2, <2>3, <2>4 DEF Fetch, FetchError, PersistError, Build, BuildError,
       Geocode, GeocodeError
<1>7. staged' \in [Regions -> Dir]
  <2>1. \A p \in Parts, v \in Versions : With(staged[R(w)], p, v) \in Dir
    BY <1>3, DirTypes
  <2>2. Made(staged[R(w)]) \in Dir
    BY <1>3, DirTypes
  <2>3. "pbf" \in Parts /\ "geo" \in Parts /\ Part(T(w).kind) \in Parts
    BY DEF Parts, Part
  <2>4. staged' = staged \/ \E d \in Dir : staged' = [staged EXCEPT ![R(w)] = d]
    BY <1>2, <1>3, <2>1, <2>2, <2>3 DEF TypeOK, Mark, Fetch, FetchError, Persist, PersistError,
       Build, BuildError, Geocode, GeocodeError, MarkStageFailed
  <2> QED
    BY <2>4 DEF TypeOK
<1>8. live' \in [Regions -> Dir]
  <2>1. With(live[R(w)], "geo", live[R(w)].has["pbf"]) \in Dir
    BY <1>3, DirTypes DEF Parts
  <2>2. live' = live \/ live' = [live EXCEPT ![R(w)] = With(live[R(w)], "geo", live[R(w)].has["pbf"])]
    BY DEF TypeOK, Mark, Fetch, FetchError, Persist, PersistError,
       Build, BuildError, Geocode, GeocodeError, MarkStageFailed
  <2> QED
    BY <2>1, <2>2 DEF TypeOK
<1>9. TypeOK'
  BY <1>1, <1>5, <1>6, <1>7, <1>8 DEF TypeOK
<1>10. BookkeepingInv'
  BY <1>1, <1>5, <1>6, GoesOn
<1> QED
  BY <1>9, <1>10

LEMMA DirectorySteps ==
    ASSUME IInv, NEW w \in Slots,
           \/ SwapStat(w) \/ SwapArchive(w) \/ SwapArchiveError(w)
           \/ SwapPromote(w) \/ SwapPromoteError(w) \/ SwapCleanup(w)
           \/ DeleteLive(w) \/ DeleteLiveError(w) \/ DeleteNew(w) \/ DeleteNewError(w)
           \/ DeletePurge(w) \/ DeleteFinishError(w)
    PROVE  IInv'
<1> USE DEF IInv, At, db, queue, disk
<1>1. /\ slot[w].pc \notin {"idle", "combined"}
      /\ UNCHANGED <<row, job, task, pending, client, sched, upstream>>
  BY DEF SwapStat, SwapArchive, SwapArchiveError, SwapPromote, SwapPromoteError, SwapCleanup,
         DeleteLive, DeleteLiveError, DeleteNew, DeleteNewError, DeletePurge, DeleteFinishError
<1>2. R(w) \in Regions
  BY <1>1, HandlerRegion
<1>3. live[R(w)] \in Dir /\ staged[R(w)] \in Dir /\ slot[w].old \in Dir
  BY <1>2 DEF TypeOK, Slot
<1>4. /\ NoDir \in Dir
      /\ Remainder(live[R(w)]) \subseteq Dir /\ Remainder(staged[R(w)]) \subseteq Dir
  BY <1>3, DirTypes
<1>5. StaysOn(w) /\ slot' \in [Slots -> Slot]
  <2> {"promote", "fail", "finish"} \subseteq Pcs \ {"idle", "combined"}
    BY DEF Pcs
  <2>1. CASE SwapArchive(w)
    BY <2>1, <1>3, GotoWithStays DEF SwapArchive
  <2>2. CASE SwapPromoteError(w)
    BY <2>2, <1>4, GotoWithStays DEF SwapPromoteError
  <2>3. CASE SwapCleanup(w)
    BY <2>3, <1>4, GotoWithStays DEF SwapCleanup
  <2>4. CASE ~(SwapArchive(w) \/ SwapPromoteError(w) \/ SwapCleanup(w))
    <3>1. \E pc \in Pcs \ {"idle", "combined"} : Goto(w, pc)
      BY <2>4 DEF SwapStat, SwapArchiveError, SwapPromote,
         DeleteLive, DeleteLiveError, DeleteNew, DeleteNewError, DeletePurge, DeleteFinishError, Pcs
    <3> QED
      BY <3>1, GotoStays
  <2> QED
    BY <2>1, <2>2, <2>3, <2>4
<1>6. RowsKept
  BY <1>1 DEF RowsKept
<1>7. live' = live \/ \E d \in Dir : live' = [live EXCEPT ![R(w)] = d]
  BY <1>3, <1>4 DEF SwapStat, SwapArchive, SwapArchiveError, SwapPromote, SwapPromoteError, SwapCleanup,
         DeleteLive, DeleteLiveError, DeleteNew, DeleteNewError, DeletePurge, DeleteFinishError
<1>8. staged' = staged \/ \E d \in Dir : staged' = [staged EXCEPT ![R(w)] = d]
  BY <1>3, <1>4 DEF SwapStat, SwapArchive, SwapArchiveError, SwapPromote, SwapPromoteError, SwapCleanup,
         DeleteLive, DeleteLiveError, DeleteNew, DeleteNewError, DeletePurge, DeleteFinishError
<1>9. live' \in [Regions -> Dir] /\ staged' \in [Regions -> Dir]
  BY <1>7, <1>8 DEF TypeOK
<1>10. TypeOK'
  BY <1>1, <1>5, <1>9 DEF TypeOK
<1>11. BookkeepingInv'
  BY <1>1, <1>5, <1>6, GoesOn
<1> QED
  BY <1>10, <1>11

LEMMA HandOverSteps ==
    ASSUME IInv, NEW w \in Slots, EnqueueNext(w) \/ EnqueueCombined(w)
    PROVE  IInv'
<1> USE DEF IInv, At, db, disk
<1>1. /\ slot[w].pc \notin {"idle", "combined"}
      /\ Goto(w, "ack") /\ UNCHANGED <<row, job, client, sched, live, staged, upstream>>
  BY DEF EnqueueNext, EnqueueCombined
<1>2. StaysOn(w) /\ slot' \in [Slots -> Slot]
  BY <1>1, GotoStays DEF Pcs
<1>3. CASE EnqueueNext(w)
  <2>1. /\ NextKind(T(w).kind) \in TaskKinds \ {"combined"}
        /\ R(w) \in Regions /\ T(w).job \in 0..MaxJobs
    BY <1>1, HandlerRegion DEF NextKind, TaskKinds, ChainKinds, BuildKinds, JobIds
  <2>2. Enqueue(NextKind(T(w).kind), R(w), T(w).job)
    BY <1>3 DEF EnqueueNext
  <2>3. /\ task' \in [TaskIds -> Task] /\ pending' \in Seq(TaskIds)
        /\ HandsOver(w)
    <3> DEFINE k == NextKind(T(w).kind)
    <3> HIDE DEF k
    <3>1. /\ task' \in [TaskIds -> Task] /\ pending' \in Seq(TaskIds)
          /\ \E t \in TaskIds, new \in Task :
                /\ task[t].status = "free"
                /\ new.status = "pending" /\ new.kind = k /\ new.region = R(w) /\ new.job = T(w).job
                /\ task' = [task EXCEPT ![t] = new]
                /\ pending' = Append(pending, t)
      BY <2>1, <2>2, QueueTypes DEF k
    <3>2. k # "combined"
      BY <2>1 DEF k
    <3>3. PICK t \in TaskIds, new \in Task :
                /\ task[t].status = "free"
                /\ new.status = "pending" /\ new.kind = k /\ new.region = R(w) /\ new.job = T(w).job
                /\ task' = [task EXCEPT ![t] = new]
                /\ pending' = Append(pending, t)
      BY <3>1
    <3>4. IF new.kind = "combined" THEN new.job = 0
          ELSE new.job = T(w).job /\ new.region = R(w)
      BY <3>2, <3>3
    <3> QED
      BY <3>1, <3>3, <3>4, Zenon DEF HandsOver
  <2>4. TypeOK'
    BY <1>1, <1>2, <2>3 DEF TypeOK
  <2> QED
    BY <1>1, <1>2, <2>3, <2>4, Hands
<1>4. CASE EnqueueCombined(w) /\ Enqueue("combined", NoRegion, 0)
  <2>1. "combined" \in TaskKinds /\ 0 \in 0..MaxJobs /\ NoRegion \in Regions \cup {NoRegion}
    BY BoundAssumption DEF TaskKinds
  <2>2. /\ task' \in [TaskIds -> Task] /\ pending' \in Seq(TaskIds)
        /\ HandsOver(w)
    <3>1. /\ task' \in [TaskIds -> Task] /\ pending' \in Seq(TaskIds)
          /\ \E t \in TaskIds, new \in Task :
                /\ task[t].status = "free"
                /\ new.status = "pending" /\ new.kind = "combined" /\ new.region = NoRegion /\ new.job = 0
                /\ task' = [task EXCEPT ![t] = new]
                /\ pending' = Append(pending, t)
      <4> TypeOK /\ Enqueue("combined", NoRegion, 0)
        BY <1>4
      <4> QED
        BY <2>1, QueueTypes
    <3>2. PICK t \in TaskIds, new \in Task :
                /\ task[t].status = "free"
                /\ new.status = "pending" /\ new.kind = "combined" /\ new.region = NoRegion /\ new.job = 0
                /\ task' = [task EXCEPT ![t] = new]
                /\ pending' = Append(pending, t)
      BY <3>1
    <3>3. IF new.kind = "combined" THEN new.job = 0
          ELSE new.job = T(w).job /\ new.region = R(w)
      BY <3>2
    <3> QED
      BY <3>1, <3>2, <3>3, Zenon DEF HandsOver
  <2>3. TypeOK'
    BY <1>1, <1>2, <2>2 DEF TypeOK
  <2> QED
    BY <1>1, <1>2, <2>2, <2>3, Hands
<1>5. CASE EnqueueCombined(w) /\ UNCHANGED <<task, pending>>
  <2>1. TypeOK'
    BY <1>1, <1>2, <1>5 DEF TypeOK
  <2> QED
    BY <1>1, <1>2, <1>5, <2>1, GoesOn DEF RowsKept
<1> QED
  BY <1>3, <1>4, <1>5 DEF EnqueueCombined, queue

LEMMA ReturnSteps ==
    ASSUME IInv, NEW w \in Slots,
           \/ Ack(w) \/ MarkFailed(w) \/ MarkJobFailed(w) \/ MarkFailedLost(w)
           \/ SwapFinishError(w) \/ CombinedRouting(w)
    PROVE  IInv'
<1> USE DEF IInv, At, db, disk
<1>1. /\ slot[w].pc # "idle"
      /\ ReturnNil(w) \/ ReturnError(w)
      /\ UNCHANGED <<pending, client, sched, live, staged, upstream>>
  BY DEF Ack, MarkFailed, MarkJobFailed, MarkFailedLost, SwapFinishError, CombinedRouting
<1>2. Settled(w) /\ task' \in [TaskIds -> Task] /\ slot' \in [Slots -> Slot]
  BY <1>1, SettleTypes
<1>3. row' \in [Regions -> Row] /\ RowsKept
  <2>1. CASE MarkFailed(w)
    <3>1. "failed" \in RowStates \ {"absent"}
      BY DEF RowStates
    <3> QED
      BY <2>1, <3>1, RowTypes DEF MarkFailed
  <2>2. CASE row' = row
    BY <2>2 DEF TypeOK, RowsKept
  <2> QED
    BY <2>1, <2>2 DEF Ack, MarkJobFailed, MarkFailedLost, SwapFinishError, CombinedRouting
<1>4. job' = job \/ (slot[w].pc # "combined" /\ JobClosed(w, "failed"))
  <2>1. CASE SetJob(T(w).job, "failed") /\ slot[w].pc # "combined"
    BY <2>1, JobTypes DEF JobStates
  <2> QED
    BY <2>1 DEF Ack, MarkFailed, MarkJobFailed, MarkFailedLost, SwapFinishError, CombinedRouting
<1>5. job' \in [JobIds -> Job]
  BY <1>4 DEF TypeOK, JobClosed
<1>6. TypeOK'
  BY <1>1, <1>2, <1>3, <1>5 DEF TypeOK
<1>7. BookkeepingInv'
  BY <1>1, <1>2, <1>3, <1>4, Returns
<1> QED
  BY <1>6, <1>7

\* MarkError and EnqueueError: mark the failure, or return at once.
LEMMA ErrorSteps ==
    ASSUME IInv, NEW w \in Slots, MarkError(w) \/ EnqueueError(w)
    PROVE  IInv'
<1> USE DEF IInv, At, db, disk
<1>1. /\ slot[w].pc \notin {"idle", "combined"} /\ RowsKept
      /\ UNCHANGED <<row, job, pending, client, sched, live, staged, upstream>>
  BY DEF MarkError, EnqueueError, RowsKept
<1>2. CASE Goto(w, "fail") /\ UNCHANGED task
  <2>1. StaysOn(w) /\ slot' \in [Slots -> Slot]
    BY <1>2, GotoStays DEF Pcs
  <2>2. TypeOK'
    BY <1>1, <1>2, <2>1 DEF TypeOK
  <2> QED
    BY <1>1, <1>2, <2>1, <2>2, GoesOn
<1>3. CASE ReturnError(w)
  <2>1. Settled(w) /\ task' \in [TaskIds -> Task] /\ slot' \in [Slots -> Slot]
    BY <1>1, <1>3, SettleTypes
  <2>2. TypeOK'
    BY <1>1, <2>1 DEF TypeOK
  <2> QED
    BY <1>1, <2>1, <2>2, Returns
<1> QED
  BY <1>2, <1>3 DEF MarkError, EnqueueError

LEMMA CloseSteps ==
    ASSUME IInv, NEW w \in Slots, SwapFinish(w) \/ DeleteFinish(w)
    PROVE  IInv'
<1> USE DEF IInv, At, disk, queue
<1>1. /\ slot[w].pc \notin {"idle", "combined"} /\ SetJob(T(w).job, "succeeded")
      /\ UNCHANGED <<task, pending, client, sched, live, staged, upstream>>
  BY DEF SwapFinish, DeleteFinish
<1>2. StaysOn(w) /\ slot' \in [Slots -> Slot]
  BY GotoStays DEF SwapFinish, DeleteFinish, Pcs
<1>3. JobClosed(w, "succeeded")
  BY <1>1, JobTypes DEF JobStates
<1>4. row' \in [Regions -> Row] /\
      \A r \in Regions : /\ row'[r].job = IF r = R(w) THEN 0 ELSE row[r].job
                         /\ row[r].state # "absent" => row'[r].state # "absent"
  <2>1. \A r \in Regions : row[r] \in Row
    BY DEF TypeOK
  <2>2. CASE SwapFinish(w)
    <3>1. row' = [row EXCEPT ![R(w)].state = "ready", ![R(w)].job = 0]
      BY <2>2 DEF SwapFinish
    <3>2. "ready" \in RowStates /\ 0 \in 0..MaxJobs
      BY BoundAssumption DEF RowStates
    <3>3. TypeOK /\ "ready" \in RowStates \ {"absent"}
      BY DEF IInv, RowStates
    <3>4. /\ row' \in [Regions -> Row]
          /\ \A q \in Regions : row'[q] = IF q = R(w) THEN [row[q] EXCEPT !.state = "ready", !.job = 0]
                                           ELSE row[q]
      BY <3>1, <3>2, <3>3, RowPoints
    <3> QED
      BY <2>1, <3>4 DEF Row
  <2>3. CASE DeleteFinish(w)
    <3>1. \A r \in Regions : row'[r] = IF r = R(w) THEN [row[r] EXCEPT !.job = 0] ELSE row[r]
      BY <2>3 DEF DeleteFinish, TypeOK
    <3>2. \A r \in Regions : [row[r] EXCEPT !.job = 0] \in Row
      BY <2>1, BoundAssumption DEF Row
    <3>3. row' = [r \in Regions |-> row'[r]]
      BY <2>3 DEF DeleteFinish, TypeOK
    <3> QED
      BY <2>1, <3>1, <3>2, <3>3 DEF Row
  <2> QED
    BY <2>2, <2>3
<1>5. TypeOK'
  BY <1>1, <1>2, <1>3, <1>4 DEF TypeOK, JobClosed
<1>6. BookkeepingInv'
  BY <1>1, <1>2, <1>3, <1>4, Closes
<1> QED
  BY <1>5, <1>6

LEMMA HandlerKeeps ==
    ASSUME IInv, NEW w \in Slots, HandlerStep(w)
    PROVE  IInv'
BY WorkSteps, DirectorySteps, HandOverSteps, ReturnSteps, ErrorSteps, CloseSteps DEF HandlerStep

-----------------------------------------------------------------------------
(* Requests, the scheduler, the queue and a crash.                         *)

\* A fresh job id is nobody's: no row, no task, no request and no tick has it.
LEMMA FreshIsUnused ==
    ASSUME IInv, NEW j \in JobIds, FreshJob(j)
    PROVE  /\ job[j].state = "none" /\ j # 0
           /\ \A t \in TaskIds : task[t].job # j
           /\ \A c \in Clients : client[c].job # j
           /\ sched.job # j
           /\ \A r \in Regions : row[r].job # j
<1> USE DEF IInv, BookkeepingInv
<1>1. job[j].state = "none" /\ j # 0 /\ j \notin Held
  BY DEF FreshJob, JobIds
<1>2. (\A c \in Clients : client[c].job # j) /\ sched.job # j
  BY <1>1 DEF Held
<1>3. ASSUME NEW t \in TaskIds PROVE task[t].job # j
  <2>1. CASE task[t].status = "free" \/ task[t].kind = "combined"
    BY <2>1, <1>1 DEF TasksShaped, NoTask
  <2>2. CASE task[t].status # "free" /\ task[t].kind # "combined"
    BY <2>2, <1>1 DEF TasksBacked, TaskBacked
  <2> QED
    BY <2>1, <2>2
<1>4. \A r \in Regions : row[r].job # j
  BY <1>1 DEF ActiveJobUnsettled
<1> QED
  BY <1>1, <1>2, <1>3, <1>4

\* Whatever is said about slots and pending tasks stays as it is.
LEMMA HandlersKept ==
    ASSUME BookkeepingInv, UNCHANGED <<task, pending, slot>>
    PROVE  ActiveOnOneSlot' /\ PendingMatches' /\ TasksShaped' /\ HandlersMatch'
BY DEF BookkeepingInv, ActiveOnOneSlot, PendingMatches, TasksShaped, HandlersMatch, Busy, T, At

\* Install, Delete: the job row appears and the region points at it.
LEMMA OpensJob ==
    ASSUME IInv, NEW c \in Clients, NEW r \in Regions, NEW j \in JobIds, FreshJob(j),
           client[c].pc = "idle",
           NEW k \in JobKinds, InsertJob(j, k, r), Request(c, "enqueue", k, r, j),
           NEW st \in RowStates \ {"absent"},
           row' = [row EXCEPT ![r].state = st, ![r].job = j],
           UNCHANGED <<task, pending, slot, sched, live, staged, upstream>>
    PROVE  IInv'
<1> USE DEF IInv, BookkeepingInv
<1>1. /\ job[j].state = "none" /\ j # 0
      /\ \A t \in TaskIds : task[t].job # j
      /\ \A d \in Clients : client[d].job # j
      /\ sched.job # j
      /\ \A q \in Regions : row[q].job # j
  BY FreshIsUnused
<1>2. /\ job' \in [JobIds -> Job]
      /\ job'[j].state = "queued" /\ job'[j].region = r
      /\ \A i \in JobIds : i # j => job'[i] = job[i]
  BY DEF InsertJob, TypeOK, Job, JobStates
<1>3. /\ client' \in [Clients -> ClientState]
      /\ client'[c] = [pc |-> "enqueue", kind |-> k, region |-> r, job |-> j]
      /\ \A d \in Clients : d # c => client'[d] = client[d]
  BY DEF Request, TypeOK, ClientState, JobIds
<1>4. /\ row' \in [Regions -> Row]
      /\ row'[r].job = j /\ row'[r].state = st
      /\ \A q \in Regions : q # r => row'[q] = row[q]
  <2>1. row \in [Regions -> Row] /\ j \in 0..MaxJobs /\ st \in RowStates
    BY BoundAssumption DEF TypeOK, JobIds
  <2>2. row' \in [Regions -> Row]
    BY <2>1 DEF Row
  <2>3. row'[r].job = j /\ row'[r].state = st
    BY <2>1 DEF Row
  <2>4. \A q \in Regions : q # r => row'[q] = row[q]
    BY <2>1
  <2> QED
    BY <2>2, <2>3, <2>4
<1>5. TypeOK'
  BY <1>2, <1>3, <1>4 DEF TypeOK
<1>6. ActiveOnOneSlot' /\ PendingMatches' /\ TasksShaped' /\ HandlersMatch'
  BY HandlersKept
<1>7. TasksBacked'
  BY <1>1, <1>2, <1>4 DEF TasksBacked, TaskBacked
<1>8. RequestsBacked'
  BY <1>1, <1>2, <1>3, <1>4 DEF RequestsBacked
<1>9. TickBacked'
  BY <1>1, <1>2, <1>4 DEF TickBacked
<1>10. IdleHoldsNothing'
  BY <1>3 DEF IdleHoldsNothing
<1>11. ActiveJobUnsettled'
  <2> SUFFICES ASSUME NEW q \in Regions, row'[q].job # 0
               PROVE  job'[row'[q].job].state \in {"queued", "failed"} /\ job'[row'[q].job].region = q
    BY DEF ActiveJobUnsettled
  <2>1. CASE q = r
    BY <2>1, <1>2, <1>4
  <2>2. CASE q # r
    <3>1. row[q].job \in JobIds /\ row'[q].job = row[q].job
      BY <2>2, <1>4, BoundAssumption DEF TypeOK, Row, JobIds
    <3> QED
      BY <2>2, <3>1, <1>1, <1>2 DEF ActiveJobUnsettled
  <2> QED
    BY <2>1, <2>2
<1> QED
  BY <1>5, <1>6, <1>7, <1>8, <1>9, <1>10, <1>11

LEMMA OpeningSteps ==
    ASSUME IInv, NEW c \in Clients, NEW r \in Regions, Install(c, r) \/ Delete(c, r)
    PROVE  IInv'
<1> "install" \in JobKinds /\ "delete" \in JobKinds
  BY DEF JobKinds
<1> {"downloading", "archived"} \subseteq RowStates \ {"absent"}
  BY DEF RowStates
<1>1. CASE Install(c, r)
  <2>1. PICK j \in JobIds :
          /\ FreshJob(j)
          /\ row' = [row EXCEPT ![r].state = "downloading", ![r].job = j]
          /\ InsertJob(j, "install", r)
          /\ Request(c, "enqueue", "install", r, j)
    BY <1>1 DEF Install
  <2>2. client[c].pc = "idle" /\ UNCHANGED <<task, pending, slot, sched, live, staged, upstream>>
    BY <1>1 DEF Install, queue, disk
  <2> QED
    BY <2>1, <2>2, OpensJob
<1>2. CASE Delete(c, r)
  <2>1. PICK j \in JobIds :
          /\ FreshJob(j)
          /\ row' = [row EXCEPT ![r].state = "archived", ![r].job = j]
          /\ InsertJob(j, "delete", r)
          /\ Request(c, "enqueue", "delete", r, j)
    BY <1>2 DEF Delete
  <2>2. client[c].pc = "idle" /\ UNCHANGED <<task, pending, slot, sched, live, staged, upstream>>
    BY <1>2 DEF Delete, queue, disk
  <2> QED
    BY <2>1, <2>2, OpensJob
<1> QED
  BY <1>1, <1>2

LEMMA CheckStep ==
    ASSUME IInv, NEW c \in Clients, NEW r \in Regions, UpdateCheck(c, r)
    PROVE  IInv'
<1> USE DEF IInv, BookkeepingInv, db, queue, disk
<1>1. PICK j \in JobIds : FreshJob(j) /\ Request(c, "commit_update", "update", r, j)
  BY DEF UpdateCheck
<1>2. /\ client[c].pc = "idle" /\ row[r].state # "absent"
      /\ UNCHANGED <<row, job, task, pending, slot, sched, live, staged, upstream>>
  BY DEF UpdateCheck
<1>3. /\ job[j].state = "none" /\ j # 0
      /\ \A t \in TaskIds : task[t].job # j
      /\ \A d \in Clients : client[d].job # j
      /\ sched.job # j
  BY <1>1, FreshIsUnused
<1>4. /\ client' \in [Clients -> ClientState]
      /\ client'[c] = [pc |-> "commit_update", kind |-> "update", region |-> r, job |-> j]
      /\ \A d \in Clients : d # c => client'[d] = client[d]
  BY <1>1 DEF Request, TypeOK, ClientState, JobIds, JobKinds
<1>5. TypeOK'
  BY <1>2, <1>4 DEF TypeOK
<1>6. ActiveOnOneSlot' /\ PendingMatches' /\ TasksShaped' /\ HandlersMatch'
  BY <1>2, HandlersKept
<1>7. TasksBacked' /\ TickBacked' /\ ActiveJobUnsettled'
  BY <1>2 DEF TasksBacked, TaskBacked, TickBacked, ActiveJobUnsettled
<1>8. RequestsBacked'
  BY <1>2, <1>3, <1>4 DEF RequestsBacked
<1>9. IdleHoldsNothing'
  BY <1>2, <1>4 DEF IdleHoldsNothing
<1> QED
  BY <1>5, <1>6, <1>7, <1>8, <1>9

LEMMA CommitStep ==
    ASSUME IInv, NEW c \in Clients, UpdateCommit(c)
    PROVE  IInv'
<1> USE DEF IInv, BookkeepingInv, queue, disk
<1> DEFINE r == client[c].region
           j == client[c].job
<1>1. /\ client[c].pc = "commit_update"
      /\ UNCHANGED <<task, pending, slot, sched, live, staged, upstream>>
  BY DEF UpdateCommit
<1>2. /\ r \in Regions /\ j \in JobIds /\ j # 0 /\ job[j].state = "none"
      /\ row[r].state # "absent" /\ j # sched.job
      /\ \A d \in Clients : client[d].job = j => d = c
      /\ \A t \in TaskIds : task[t].job # j
  BY <1>1 DEF RequestsBacked, JobIds
<1>3. \A q \in Regions : row[q].job # j
  BY <1>2 DEF ActiveJobUnsettled
<1>4. /\ job' \in [JobIds -> Job]
      /\ job'[j].state = "queued" /\ job'[j].region = r
      /\ \A i \in JobIds : i # j => job'[i] = job[i]
  <2>1. "update" \in JobKinds /\ InsertJob(j, "update", r)
    BY DEF UpdateCommit, JobKinds
  <2> QED
    BY <1>2, <2>1 DEF InsertJob, TypeOK, Job, JobStates
<1>5. /\ client' \in [Clients -> ClientState]
      /\ client'[c].pc = "enqueue" /\ client'[c].job = j /\ client'[c].region = r
      /\ \A d \in Clients : d # c => client'[d] = client[d]
  BY DEF UpdateCommit, TypeOK, ClientState
<1>6. /\ row' \in [Regions -> Row]
      /\ row'[r].job = j /\ row'[r].state = "updating"
      /\ \A q \in Regions : q # r => row'[q] = row[q]
  <2>1. row \in [Regions -> Row] /\ j \in 0..MaxJobs /\ "updating" \in RowStates
    BY <1>2, BoundAssumption DEF TypeOK, JobIds, RowStates
  <2>2. row' = [row EXCEPT ![r].state = "updating", ![r].job = j]
    BY DEF UpdateCommit
  <2> HIDE DEF r, j
  <2>3. row' \in [Regions -> Row]
    BY <2>1, <2>2 DEF Row
  <2>4. row'[r].job = j /\ row'[r].state = "updating"
    BY <1>2, <2>1, <2>2 DEF Row
  <2>5. \A q \in Regions : q # r => row'[q] = row[q]
    BY <2>1, <2>2
  <2> QED
    BY <2>3, <2>4, <2>5
<1>7. TypeOK'
  BY <1>1, <1>4, <1>5, <1>6 DEF TypeOK
<1>8. ActiveOnOneSlot' /\ PendingMatches' /\ TasksShaped' /\ HandlersMatch'
  BY <1>1, HandlersKept
<1>9. TasksBacked'
  BY <1>1, <1>2, <1>4, <1>6 DEF TasksBacked, TaskBacked
<1>10. RequestsBacked'
  BY <1>1, <1>2, <1>4, <1>5, <1>6 DEF RequestsBacked
<1>11. TickBacked'
  BY <1>1, <1>2, <1>4, <1>6 DEF TickBacked
<1>12. IdleHoldsNothing'
  BY <1>1, <1>5 DEF IdleHoldsNothing
<1>13. ActiveJobUnsettled'
  <2> SUFFICES ASSUME NEW q \in Regions, row'[q].job # 0
               PROVE  job'[row'[q].job].state \in {"queued", "failed"} /\ job'[row'[q].job].region = q
    BY DEF ActiveJobUnsettled
  <2>1. CASE q = r
    BY <2>1, <1>4, <1>6
  <2>2. CASE q # r
    <3>1. row[q].job \in JobIds /\ row'[q].job = row[q].job
      BY <2>2, <1>6, BoundAssumption DEF TypeOK, Row, JobIds
    <3> QED
      BY <2>2, <3>1, <1>3, <1>4 DEF ActiveJobUnsettled
  <2> QED
    BY <2>1, <2>2
<1> QED
  BY <1>7, <1>8, <1>9, <1>10, <1>11, <1>12, <1>13

LEMMA LostStep ==
    ASSUME IInv, NEW c \in Clients, RequestLost(c)
    PROVE  IInv'
<1> USE DEF IInv, BookkeepingInv, db, queue, disk
<1>1. /\ client' = [client EXCEPT ![c] = NoRequest]
      /\ UNCHANGED <<row, job, task, pending, slot, sched, live, staged, upstream>>
  BY DEF RequestLost
<1>2. /\ client' \in [Clients -> ClientState]
      /\ client'[c] = NoRequest /\ NoRequest.pc = "idle" /\ NoRequest.job = 0
      /\ \A d \in Clients : d # c => client'[d] = client[d]
  BY <1>1, BoundAssumption DEF TypeOK, NoRequest, ClientState, JobKinds
<1>3. TypeOK'
  BY <1>1, <1>2 DEF TypeOK
<1>4. ActiveOnOneSlot' /\ PendingMatches' /\ TasksShaped' /\ HandlersMatch'
  BY <1>1, HandlersKept
<1>5. TasksBacked' /\ TickBacked' /\ ActiveJobUnsettled'
  BY <1>1 DEF TasksBacked, TaskBacked, TickBacked, ActiveJobUnsettled
<1>6. RequestsBacked'
  BY <1>1, <1>2 DEF RequestsBacked, JobIds
<1>7. IdleHoldsNothing'
  BY <1>1, <1>2 DEF IdleHoldsNothing
<1> QED
  BY <1>3, <1>4, <1>5, <1>6, <1>7

\* A new task for a job that is queued and that no task and nobody else has.
LEMMA NewTask ==
    ASSUME IInv, NEW k \in JobKinds, NEW r \in Regions, NEW j \in JobIds, Enqueue(k, r, j),
           job[j].state # "none", job[j].region = r, row[r].state # "absent",
           UNCHANGED <<row, job, slot>>
    PROVE  /\ task' \in [TaskIds -> Task] /\ pending' \in Seq(TaskIds)
           /\ ActiveOnOneSlot' /\ PendingMatches' /\ TasksShaped' /\ HandlersMatch'
           /\ TasksBacked'
           /\ \A t \in TaskIds : task'[t].job \in {task[t].job, j}
<1> USE DEF IInv, BookkeepingInv
<1>1. k \in TaskKinds \ {"combined"} /\ r \in Regions \cup {NoRegion} /\ j \in 0..MaxJobs
  BY BoundAssumption DEF JobKinds, TaskKinds, ChainKinds, JobIds
<1>2. /\ task' \in [TaskIds -> Task] /\ pending' \in Seq(TaskIds)
      /\ \E t \in TaskIds, new \in Task :
            /\ task[t].status = "free"
            /\ new.status = "pending" /\ new.kind = k /\ new.region = r /\ new.job = j
            /\ task' = [task EXCEPT ![t] = new]
            /\ pending' = Append(pending, t)
  BY <1>1, QueueTypes
<1>3. PICK t \in TaskIds, new \in Task :
            /\ task[t].status = "free"
            /\ new.status = "pending" /\ new.kind = k /\ new.region = r /\ new.job = j
            /\ task' = [task EXCEPT ![t] = new]
            /\ pending' = Append(pending, t)
  BY <1>2
<1>4. task'[t] = new /\ \A u \in TaskIds : u # t => task'[u] = task[u]
  BY <1>3 DEF TypeOK
<1>5. Busy' = Busy /\ \A v \in Busy : slot[v].task \in TaskIds /\ slot[v].task # t
  BY <1>3 DEF ActiveOnOneSlot, Busy
<1>6. ActiveOnOneSlot'
  BY <1>4, <1>5 DEF ActiveOnOneSlot
<1>7. HandlersMatch'
  BY <1>4, <1>5 DEF HandlersMatch, T, At
<1>8. PendingMatches'
  BY <1>3, <1>4, AppendKeepsMatch
<1>9. TasksShaped'
  BY <1>1, <1>3, <1>4 DEF TasksShaped
<1>10. TasksBacked'
  BY <1>3, <1>4 DEF TasksBacked, TaskBacked
<1> QED
  BY <1>2, <1>3, <1>4, <1>6, <1>7, <1>8, <1>9, <1>10

LEMMA RequestEnqueues ==
    ASSUME IInv, NEW c \in Clients, EnqueueRequest(c)
    PROVE  IInv'
<1> USE DEF IInv, BookkeepingInv, db, disk
<1> DEFINE k == client[c].kind
           r == client[c].region
           j == client[c].job
<1>1. /\ client[c].pc = "enqueue" /\ Enqueue(k, r, j)
      /\ client' = [client EXCEPT ![c] = NoRequest]
      /\ UNCHANGED <<row, job, slot, sched, live, staged, upstream>>
  BY DEF EnqueueRequest
<1>2. /\ r \in Regions /\ j \in JobIds /\ k \in JobKinds
      /\ job[j].state # "none" /\ job[j].region = r
      /\ row[r].state # "absent" /\ j # sched.job
      /\ \A d \in Clients : client[d].job = j => d = c
  BY <1>1 DEF RequestsBacked, TypeOK, ClientState
<1>3. /\ client' \in [Clients -> ClientState]
      /\ client'[c] = NoRequest /\ NoRequest.pc = "idle" /\ NoRequest.job = 0
      /\ \A d \in Clients : d # c => client'[d] = client[d]
  BY <1>1, BoundAssumption DEF TypeOK, NoRequest, ClientState, JobKinds
<1> HIDE DEF k, r, j
<1>4. /\ task' \in [TaskIds -> Task] /\ pending' \in Seq(TaskIds)
      /\ ActiveOnOneSlot' /\ PendingMatches' /\ TasksShaped' /\ HandlersMatch'
      /\ TasksBacked'
      /\ \A t \in TaskIds : task'[t].job \in {task[t].job, j}
  BY <1>1, <1>2, NewTask
<1>5. TypeOK'
  BY <1>1, <1>3, <1>4 DEF TypeOK
<1>6. RequestsBacked'
  <2> SUFFICES ASSUME NEW d \in Clients, client'[d].pc # "idle"
               PROVE  /\ client'[d] = client[d] /\ client[d].pc # "idle" /\ client[d].job # j
                      /\ \A e \in Clients : client'[e].job = client[d].job => e = d
                      /\ \A t \in TaskIds : task'[t].job # client[d].job
    BY <1>1 DEF RequestsBacked
  <2>1. d # c /\ client'[d] = client[d] /\ client[d].pc # "idle" /\ client[d].job # j
    BY <1>2, <1>3
  <2>2. /\ client[d].job \in JobIds
        /\ \A e \in Clients : client[e].job = client[d].job => e = d
        /\ \A t \in TaskIds : task[t].job # client[d].job
    BY <2>1 DEF RequestsBacked
  <2>3. \A e \in Clients : client'[e].job = client[d].job => e = d
    BY <2>1, <2>2, <1>3, BoundAssumption DEF JobIds
  <2>4. \A t \in TaskIds : task'[t].job # client[d].job
    BY <2>1, <2>2, <1>4
  <2> QED
    BY <2>1, <2>3, <2>4
<1>7. TickBacked'
  BY <1>1, <1>2, <1>4 DEF TickBacked
<1>8. IdleHoldsNothing' /\ ActiveJobUnsettled'
  BY <1>1, <1>3 DEF IdleHoldsNothing, ActiveJobUnsettled
<1> QED
  BY <1>4, <1>5, <1>6, <1>7, <1>8

LEMMA TickEnqueues ==
    ASSUME IInv, TickEnqueue
    PROVE  IInv'
<1> USE DEF IInv, BookkeepingInv, db, disk
<1>1. /\ sched.pc = "enqueue" /\ Enqueue("update", sched.region, sched.job)
      /\ sched' = NoTick
      /\ UNCHANGED <<row, job, slot, client, live, staged, upstream>>
  BY DEF TickEnqueue
<1>2. /\ sched.region \in Regions /\ sched.job \in JobIds /\ "update" \in JobKinds
      /\ job[sched.job].state # "none" /\ job[sched.job].region = sched.region
      /\ row[sched.region].state # "absent"
  BY <1>1 DEF TickBacked, JobKinds
<1>3. sched' \in SchedState /\ sched'.pc = "idle" /\ sched'.job = 0
  BY <1>1, BoundAssumption DEF NoTick, SchedState
<1>4. /\ task' \in [TaskIds -> Task] /\ pending' \in Seq(TaskIds)
      /\ ActiveOnOneSlot' /\ PendingMatches' /\ TasksShaped' /\ HandlersMatch'
      /\ TasksBacked'
      /\ \A t \in TaskIds : task'[t].job \in {task[t].job, sched.job}
  BY <1>1, <1>2, NewTask
<1>5. TypeOK'
  BY <1>1, <1>3, <1>4 DEF TypeOK
<1>6. RequestsBacked'
  BY <1>1, <1>3, <1>4 DEF RequestsBacked, JobIds
<1>7. TickBacked' /\ IdleHoldsNothing' /\ ActiveJobUnsettled'
  BY <1>1, <1>3 DEF TickBacked, IdleHoldsNothing, ActiveJobUnsettled
<1> QED
  BY <1>4, <1>5, <1>6, <1>7

\* The scheduler's other steps leave the queue alone.
LEMMA TickKeeps ==
    ASSUME IInv, (\E r \in Regions : TickSelect(r)) \/ TickInsert \/ TickAttach \/ TickError
    PROVE  IInv'
<1> USE DEF IInv, BookkeepingInv, db, queue, disk
<1>1. UNCHANGED <<task, pending, slot, client, live, staged, upstream>>
  BY DEF TickSelect, TickInsert, TickAttach, TickError
<1>2. ActiveOnOneSlot' /\ PendingMatches' /\ TasksShaped' /\ HandlersMatch'
  BY <1>1, HandlersKept
<1>3. NoTick \in SchedState /\ NoTick.pc = "idle" /\ NoTick.job = 0
  BY BoundAssumption DEF NoTick, SchedState
<1>4. CASE \E r \in Regions : TickSelect(r)
  <2>1. PICK r \in Regions : TickSelect(r)
    BY <1>4
  <2>2. PICK j \in JobIds : FreshJob(j) /\ sched' = [pc |-> "insert", region |-> r, job |-> j]
    BY <2>1 DEF TickSelect
  <2>3. /\ job[j].state = "none" /\ j # 0
        /\ \A t \in TaskIds : task[t].job # j
        /\ \A d \in Clients : client[d].job # j
    BY <2>2, FreshIsUnused
  <2>4. UNCHANGED <<row, job>> /\ sched.pc = "idle" /\ row[r].state # "absent"
    BY <2>1 DEF TickSelect
  <2>5. TypeOK'
    BY <1>1, <2>2, <2>4 DEF TypeOK, SchedState, JobIds
  <2>6. TasksBacked' /\ ActiveJobUnsettled'
    BY <1>1, <2>4 DEF TasksBacked, TaskBacked, ActiveJobUnsettled
  <2>7. RequestsBacked'
    BY <1>1, <2>2, <2>3, <2>4 DEF RequestsBacked
  <2>8. TickBacked' /\ IdleHoldsNothing'
    BY <1>1, <2>2, <2>3, <2>4 DEF TickBacked, IdleHoldsNothing
  <2> QED
    BY <1>2, <2>5, <2>6, <2>7, <2>8
<1>5. CASE UNCHANGED <<row, job>> /\ sched' = NoTick
  <2>1. TypeOK'
    BY <1>1, <1>3, <1>5 DEF TypeOK
  <2>2. TasksBacked' /\ ActiveJobUnsettled'
    BY <1>1, <1>5 DEF TasksBacked, TaskBacked, ActiveJobUnsettled
  <2>3. RequestsBacked'
    BY <1>1, <1>3, <1>5 DEF RequestsBacked, JobIds
  <2>4. TickBacked' /\ IdleHoldsNothing'
    BY <1>1, <1>3, <1>5 DEF TickBacked, IdleHoldsNothing
  <2> QED
    BY <1>2, <2>1, <2>2, <2>3, <2>4
<1>6. CASE TickInsert /\ InsertJob(sched.job, "update", sched.region) /\ sched' = [sched EXCEPT !.pc = "attach"]
  <2>1. /\ sched.pc = "insert" /\ sched.job \in JobIds /\ sched.region \in Regions
        /\ job[sched.job].state = "none" /\ row[sched.region].state # "absent"
        /\ \A t \in TaskIds : task[t].job # sched.job
        /\ UNCHANGED row
    BY <1>6 DEF TickInsert, TickBacked
  <2>2. /\ sched' \in SchedState /\ sched'.pc = "attach"
        /\ sched'.job = sched.job /\ sched'.region = sched.region
    BY <1>6 DEF TypeOK, SchedState
  <2>3. /\ job' \in [JobIds -> Job]
        /\ job'[sched.job].state = "queued" /\ job'[sched.job].region = sched.region
        /\ \A i \in JobIds : i # sched.job => job'[i] = job[i]
    BY <1>6, <2>1 DEF InsertJob, TypeOK, Job, JobStates, JobKinds
  <2>4. TypeOK'
    BY <1>1, <2>1, <2>2, <2>3 DEF TypeOK
  <2>5. TasksBacked'
    BY <1>1, <2>1, <2>3 DEF TasksBacked, TaskBacked
  <2>6. RequestsBacked'
    BY <1>1, <2>1, <2>2, <2>3 DEF RequestsBacked
  <2>7. TickBacked' /\ IdleHoldsNothing'
    BY <1>1, <2>1, <2>2, <2>3 DEF TickBacked, IdleHoldsNothing
  <2>8. ActiveJobUnsettled'
    <3>1. \A q \in Regions : row[q].job # sched.job
      BY <2>1 DEF ActiveJobUnsettled, JobIds
    <3>2. \A q \in Regions : row[q].job # 0 => row[q].job \in JobIds
      BY BoundAssumption DEF TypeOK, Row, JobIds
    <3> QED
      BY <2>1, <2>3, <3>1, <3>2 DEF ActiveJobUnsettled
  <2> QED
    BY <1>2, <2>4, <2>5, <2>6, <2>7, <2>8
<1>7. CASE TickAttach
  <2>1. /\ sched.pc = "attach" /\ sched.job \in JobIds /\ sched.region \in Regions
        /\ job[sched.job].state = "queued" /\ job[sched.job].region = sched.region
        /\ UNCHANGED job
    BY <1>7 DEF TickAttach, TickBacked
  <2>2. /\ sched' \in SchedState /\ sched'.pc = "enqueue"
        /\ sched'.job = sched.job /\ sched'.region = sched.region
    BY <1>7 DEF TickAttach, TypeOK, SchedState
  <2>3. row \in [Regions -> Row] /\ sched.job \in 0..MaxJobs
    BY <2>1, BoundAssumption DEF TypeOK, JobIds
  <2>4. \A q \in Regions : row'[q] = IF q = sched.region THEN [row[q] EXCEPT !.job = sched.job] ELSE row[q]
    BY <1>7, <2>3 DEF TickAttach
  <2>5. row' \in [Regions -> Row]
    BY <1>7, <2>3 DEF TickAttach, Row
  <2>6. /\ row'[sched.region].job = sched.job
        /\ \A q \in Regions : row'[q].state = row[q].state
        /\ \A q \in Regions : q # sched.region => row'[q] = row[q]
    BY <2>1, <2>3, <2>4 DEF Row
  <2>7. TypeOK'
    BY <1>1, <2>1, <2>2, <2>5 DEF TypeOK
  <2>8. TasksBacked'
    BY <1>1, <2>1, <2>6 DEF TasksBacked, TaskBacked
  <2>9. RequestsBacked'
    BY <1>1, <2>1, <2>2, <2>6 DEF RequestsBacked
  <2>10. TickBacked' /\ IdleHoldsNothing'
    BY <1>1, <2>1, <2>2, <2>6 DEF TickBacked, IdleHoldsNothing
  <2>11. ActiveJobUnsettled'
    BY <2>1, <2>6 DEF ActiveJobUnsettled
  <2> QED
    BY <1>2, <2>7, <2>8, <2>9, <2>10, <2>11
<1> QED
  BY <1>4, <1>5, <1>6, <1>7 DEF TickInsert, TickError

-----------------------------------------------------------------------------
(* Asynq and the mirror.                                                   *)

\* A task in state st whose job and region are those of task u.
Kept(u) == /\ task'[u].kind = task[u].kind /\ task'[u].region = task[u].region
           /\ task'[u].job = task[u].job

\* Nobody's rows, jobs or requests depend on the status of a task.
LEMMA StatusOnly ==
    ASSUME BookkeepingInv,
           \A u \in TaskIds :
               \/ task'[u] = NoTask
               \/ Kept(u) /\ task[u].status # "free" /\ task'[u].status # "free"
               \/ task'[u] = task[u],
           UNCHANGED <<row, job, client>>, sched' \in {sched, NoTick}
    PROVE  /\ TasksShaped' /\ TasksBacked' /\ RequestsBacked'
           /\ TickBacked' /\ IdleHoldsNothing' /\ ActiveJobUnsettled'
<1> USE DEF BookkeepingInv
<1>1. TasksShaped'
  BY DEF TasksShaped, Kept, NoTask
<1>2. TasksBacked'
  BY DEF TasksBacked, TaskBacked, Kept, NoTask
<1>3. \A u \in TaskIds : task'[u].job \in {0, task[u].job}
  BY DEF Kept, NoTask
<1>4. RequestsBacked'
  BY <1>3 DEF RequestsBacked, NoTick, JobIds
<1>5. TickBacked' /\ IdleHoldsNothing'
  BY <1>3 DEF TickBacked, IdleHoldsNothing, NoTick, JobIds
<1> QED
  BY <1>1, <1>2, <1>4, <1>5 DEF ActiveJobUnsettled

LEMMA TakeStep ==
    ASSUME IInv, NEW w \in Slots, Take(w)
    PROVE  IInv'
<1> USE DEF IInv, BookkeepingInv, db, disk
<1> DEFINE t == Head(pending)
<1>1. /\ slot[w].pc = "idle" /\ pending # <<>>
      /\ task' = [task EXCEPT ![t].status = "active"]
      /\ slot' = [slot EXCEPT ![w] = [Idle EXCEPT !.pc = FirstPc(task[t].kind), !.task = t]]
      /\ pending' = Tail(pending)
      /\ UNCHANGED <<row, job, client, sched, live, staged, upstream>>
  BY DEF Take
<1>2. /\ t = pending[1] /\ 1 \in DOMAIN pending /\ t \in TaskIds
      /\ pending' \in Seq(TaskIds)
      /\ \A i \in DOMAIN pending' : /\ i + 1 \in DOMAIN pending /\ i + 1 # 1
                                    /\ pending'[i] = pending[i + 1]
  BY <1>1 DEF TypeOK
<1>3. task[t].status = "pending" /\ task[t] \in Task
  BY <1>2 DEF PendingMatches, TypeOK
<1> HIDE DEF t
<1>4. /\ \A u \in TaskIds : u # t => task'[u] = task[u]
      /\ task'[t] = [task[t] EXCEPT !.status = "active"]
      /\ task' \in [TaskIds -> Task]
  BY <1>1, <1>2, <1>3 DEF TypeOK, Task
<1>5. task'[t].status = "active" /\ Kept(t)
  BY <1>3, <1>4 DEF Kept, Task
<1>6. /\ FirstPc(task[t].kind) \in Pcs \ {"idle"}
      /\ task[t].kind = "combined" => FirstPc(task[t].kind) = "combined"
  BY <1>3 DEF Task, TaskKinds, ChainKinds, BuildKinds, FirstPc, Pcs
<1>7. slot' \in [Slots -> Slot]
  <2>1. Idle \in Slot /\ t \in 0..MaxTasks
    BY <1>2, BoundAssumption DEF Idle, Slot, Pcs, Versions, NoDir, Dir, TaskIds
  <2> QED
    BY <1>1, <1>6, <2>1 DEF TypeOK, Slot
<1>8. /\ slot'[w].pc = FirstPc(task[t].kind) /\ slot'[w].task = t
      /\ \A v \in Slots : v # w => slot'[v] = slot[v]
  BY <1>1 DEF TypeOK, Idle
<1>9. Busy' = Busy \cup {w} /\ w \notin Busy
  BY <1>1, <1>6, <1>8 DEF Busy
<1>10. \A v \in Busy : slot[v].task \in TaskIds /\ slot[v].task # t
  BY <1>3 DEF ActiveOnOneSlot
<1>11. ActiveOnOneSlot'
  <2>1. \A v \in Busy : slot'[v] = slot[v] /\ v # w
    BY <1>8, <1>9 DEF Busy
  <2>2. \A v \in Busy' : slot'[v].task \in TaskIds /\ task'[slot'[v].task].status = "active"
    <3>1. slot'[w].task \in TaskIds /\ task'[slot'[w].task].status = "active"
      BY <1>2, <1>5, <1>8
    <3>2. ASSUME NEW v \in Busy
          PROVE  slot'[v].task \in TaskIds /\ task'[slot'[v].task].status = "active"
      <4>1. slot'[v].task = slot[v].task /\ slot[v].task \in TaskIds /\ slot[v].task # t
        BY <1>10, <2>1
      <4> QED
        BY <1>4, <4>1 DEF ActiveOnOneSlot
    <3> QED
      BY <1>9, <3>1, <3>2
  <2>3. \A u, v \in Busy' : slot'[u].task = slot'[v].task => u = v
    BY <1>8, <1>9, <1>10, <2>1 DEF ActiveOnOneSlot
  <2> QED
    BY <2>2, <2>3 DEF ActiveOnOneSlot
<1>12. HandlersMatch'
  <2>1. T(w)'.kind = "combined" => At(w, "combined")'
    BY <1>5, <1>6, <1>8 DEF T, At, Kept
  <2>2. \A v \in Busy : T(v)' = T(v) /\ slot'[v] = slot[v]
    BY <1>4, <1>8, <1>9, <1>10 DEF T, Busy
  <2> QED
    BY <1>9, <2>1, <2>2 DEF HandlersMatch, At
<1>13. PendingMatches'
  <2>1. \A i \in DOMAIN pending : pending[i] \in TaskIds /\ (i # 1 => pending[i] # t)
    BY <1>2 DEF TypeOK, PendingMatches
  <2>2. DOMAIN pending' \subseteq Nat
    BY <1>2
  <2>3. \A i \in DOMAIN pending' : task'[pending'[i]].status = "pending"
    BY <1>2, <1>4, <2>1 DEF PendingMatches
  <2>4. \A i, k \in DOMAIN pending' : pending'[i] = pending'[k] => i = k
    BY <1>2, <2>2 DEF PendingMatches
  <2> QED
    BY <2>3, <2>4 DEF PendingMatches
<1>14. /\ TasksShaped' /\ TasksBacked' /\ RequestsBacked'
       /\ TickBacked' /\ IdleHoldsNothing' /\ ActiveJobUnsettled'
  BY <1>1, <1>3, <1>4, <1>5, StatusOnly
<1>15. TypeOK'
  BY <1>1, <1>2, <1>4, <1>7 DEF TypeOK
<1> QED
  BY <1>11, <1>12, <1>13, <1>14, <1>15

LEMMA DueStep ==
    ASSUME IInv, NEW t \in TaskIds, RetryDue(t)
    PROVE  IInv'
<1> USE DEF IInv, BookkeepingInv, db, disk
<1>1. /\ task[t].status = "retry" /\ task[t] \in Task
      /\ task' = [task EXCEPT ![t].status = "pending"]
      /\ pending' = Append(pending, t)
      /\ UNCHANGED <<row, job, slot, client, sched, live, staged, upstream>>
  BY DEF RetryDue, TypeOK
<1>2. /\ \A u \in TaskIds : u # t => task'[u] = task[u]
      /\ task'[t] = [task[t] EXCEPT !.status = "pending"]
      /\ pending' \in Seq(TaskIds)
  BY <1>1 DEF TypeOK
<1>3. task' \in [TaskIds -> Task]
  <2>1. task \in [TaskIds -> Task]
    BY DEF TypeOK
  <2> QED
    BY <1>1, <2>1 DEF Task
<1>4. task'[t].status = "pending" /\ Kept(t)
  BY <1>1, <1>2 DEF Kept, Task
<1>5. Busy' = Busy /\ \A v \in Busy : slot[v].task \in TaskIds /\ slot[v].task # t
  BY <1>1 DEF ActiveOnOneSlot, Busy
<1>6. ActiveOnOneSlot' /\ HandlersMatch'
  BY <1>1, <1>2, <1>5 DEF ActiveOnOneSlot, HandlersMatch, T, At
<1>7. PendingMatches'
  <2>1. task' = [task EXCEPT ![t] = task'[t]]
    BY <1>1, <1>2 DEF TypeOK
  <2> QED
    BY <1>1, <1>4, <2>1, AppendKeepsMatch
<1>8. /\ TasksShaped' /\ TasksBacked' /\ RequestsBacked'
      /\ TickBacked' /\ IdleHoldsNothing' /\ ActiveJobUnsettled'
  BY <1>1, <1>2, <1>4, StatusOnly
<1>9. TypeOK'
  BY <1>1, <1>2, <1>3 DEF TypeOK
<1> QED
  BY <1>6, <1>7, <1>8, <1>9

LEMMA CrashStep ==
    ASSUME IInv, WorkerCrash
    PROVE  IInv'
<1> USE DEF IInv, BookkeepingInv, db, disk
<1>1. /\ task' = [t \in TaskIds |-> IF task[t].status = "active" THEN Failed(t) ELSE task[t]]
      /\ slot' = [w \in Slots |-> Idle]
      /\ sched' = NoTick
      /\ UNCHANGED <<row, job, pending, client, live, staged, upstream>>
  BY DEF WorkerCrash
<1>2. Idle \in Slot /\ NoTick \in SchedState /\ NoTask \in Task
  BY BoundAssumption DEF Idle, Slot, Pcs, Versions, NoDir, Dir, NoTick, SchedState,
                         NoTask, Task, TaskKinds
<1>3. ASSUME NEW t \in TaskIds, task[t].status = "active"
      PROVE  Failed(t) \in Task /\
             (Failed(t) = NoTask \/
              /\ Failed(t).status = "retry" /\ Failed(t).kind = task[t].kind
              /\ Failed(t).region = task[t].region /\ Failed(t).job = task[t].job)
  <2>1. task[t] \in Task
    BY DEF TypeOK
  <2>2. CASE task[t].tries < MaxRetry
    <3>1. Failed(t) = [task[t] EXCEPT !.status = "retry", !.tries = @ + 1]
      BY <2>2 DEF Failed
    <3>2. task[t].tries + 1 \in 0..MaxRetry
      BY <2>1, <2>2, BoundAssumption DEF Task
    <3>3. Failed(t) \in Task
      BY <2>1, <3>1, <3>2 DEF Task
    <3>4. /\ Failed(t).status = "retry" /\ Failed(t).kind = task[t].kind
          /\ Failed(t).region = task[t].region /\ Failed(t).job = task[t].job
      BY <2>1, <3>1 DEF Task
    <3> QED
      BY <3>3, <3>4
  <2>3. CASE ~(task[t].tries < MaxRetry)
    BY <1>2, <2>3 DEF Failed
  <2> QED
    BY <2>2, <2>3
<1>4. task' \in [TaskIds -> Task]
  BY <1>1, <1>3 DEF TypeOK
<1>5. \A u \in TaskIds : \/ task'[u] = NoTask
                         \/ Kept(u) /\ task[u].status # "free" /\ task'[u].status # "free"
                         \/ task'[u] = task[u]
  BY <1>1, <1>3 DEF Kept
<1>6. Busy' = {}
  BY <1>1 DEF Busy, Idle
<1>7. ActiveOnOneSlot' /\ HandlersMatch'
  BY <1>6 DEF ActiveOnOneSlot, HandlersMatch
<1>8. PendingMatches'
  BY <1>1 DEF PendingMatches, TypeOK
<1>9. /\ TasksShaped' /\ TasksBacked' /\ RequestsBacked'
      /\ TickBacked' /\ IdleHoldsNothing' /\ ActiveJobUnsettled'
  BY <1>1, <1>5, StatusOnly
<1>10. TypeOK'
  BY <1>1, <1>2, <1>4 DEF TypeOK
<1> QED
  BY <1>7, <1>8, <1>9, <1>10

LEMMA PublishStep ==
    ASSUME IInv, NEW r \in Regions, Publish(r)
    PROVE  IInv'
<1> USE DEF IInv, db, queue, disk
<1>1. /\ UNCHANGED <<row, job, task, pending, slot, client, sched, live, staged>>
      /\ upstream' = [upstream EXCEPT ![r] = @ + 1] /\ upstream[r] < MaxVersion
  BY DEF Publish
<1>2. upstream' \in [Regions -> Versions \ {0}]
  BY <1>1, BoundAssumption DEF TypeOK, Versions
<1>3. TypeOK'
  BY <1>1, <1>2 DEF TypeOK
<1>4. /\ ActiveOnOneSlot' /\ PendingMatches' /\ TasksShaped' /\ HandlersMatch'
  BY <1>1, HandlersKept
<1>5. TasksBacked' /\ RequestsBacked' /\ TickBacked' /\ IdleHoldsNothing' /\ ActiveJobUnsettled'
  BY <1>1 DEF BookkeepingInv, TasksBacked, TaskBacked, RequestsBacked, TickBacked,
              IdleHoldsNothing, ActiveJobUnsettled
<1> QED
  BY <1>3, <1>4, <1>5 DEF BookkeepingInv

LEMMA NothingHappens ==
    ASSUME IInv, UNCHANGED vars
    PROVE  IInv'
<1> USE DEF IInv, vars
<1>1. TypeOK'
  BY DEF TypeOK
<1>2. /\ ActiveOnOneSlot' /\ PendingMatches' /\ TasksShaped' /\ HandlersMatch'
  BY HandlersKept
<1>3. TasksBacked' /\ RequestsBacked' /\ TickBacked' /\ IdleHoldsNothing' /\ ActiveJobUnsettled'
  BY DEF BookkeepingInv, TasksBacked, TaskBacked, RequestsBacked, TickBacked,
         IdleHoldsNothing, ActiveJobUnsettled
<1> QED
  BY <1>1, <1>2, <1>3 DEF BookkeepingInv

-----------------------------------------------------------------------------
(* The invariant is inductive, and what follows from it.                   *)

LEMMA NextKeeps == IInv /\ [Next]_vars => IInv'
<1> SUFFICES ASSUME IInv, [Next]_vars PROVE IInv'
  OBVIOUS
<1>1. CASE UNCHANGED vars
  BY <1>1, NothingHappens
<1>2. CASE \E c \in Clients : RequestStep(c)
  BY <1>2, CommitStep, RequestEnqueues, LostStep DEF RequestStep
<1>3. CASE \E c \in Clients, r \in Regions : Install(c, r) \/ UpdateCheck(c, r) \/ Delete(c, r)
  BY <1>3, OpeningSteps, CheckStep
<1>4. CASE \E r \in Regions : TickSelect(r) \/ Publish(r)
  BY <1>4, TickKeeps, PublishStep
<1>5. CASE TickStep
  BY <1>5, TickKeeps, TickEnqueues DEF TickStep
<1>6. CASE \E w \in Slots : Take(w) \/ HandlerStep(w)
  BY <1>6, TakeStep, HandlerKeeps
<1>7. CASE \E t \in TaskIds : RetryDue(t)
  BY <1>7, DueStep
<1>8. CASE WorkerCrash
  BY <1>8, CrashStep
<1>9. CASE AtRest
  BY <1>9, NothingHappens DEF AtRest
<1> QED
  BY <1>1, <1>2, <1>3, <1>4, <1>5, <1>6, <1>7, <1>8, <1>9 DEF Next

\* Every reachable state satisfies the invariant (all the code of the module).
THEOREM Inductive == Spec => []IInv
<1>1. Init => IInv
  BY InitHolds
<1>2. IInv /\ [Next]_vars => IInv'
  BY NextKeeps
<1> QED
  BY <1>1, <1>2, PTL DEF Spec

\* Every variable keeps its type: in particular a task is never retried more
\* than MaxRetry times, and a row never points at a job id that cannot exist.
THEOREM TypeCorrect == Spec => []TypeOK
<1>1. IInv => TypeOK
  BY DEF IInv
<1> QED
  BY <1>1, Inductive, PTL

\* The queue, the job rows, the requests, the tick and the handlers agree with
\* each other in every reachable state.
THEOREM Bookkeeping == Spec => []BookkeepingInv
<1>1. IInv => BookkeepingInv
  BY DEF IInv
<1> QED
  BY <1>1, Inductive, PTL

\* No two handler goroutines ever work for the same task, and a goroutine works
\* only for an active one, through every crash, retry and handover.
THEOREM OneHandlerPerTask == Spec => []ActiveOnOneSlot
<1>1. IInv => ActiveOnOneSlot
  BY DEF IInv, BookkeepingInv
<1> QED
  BY <1>1, Inductive, PTL

\* Every task the gateway, the scheduler or a handler ever enqueued finds its
\* committed job row and its region.
THEOREM EveryTaskHasItsRows == Spec => []TasksBacked
<1>1. IInv => TasksBacked
  BY DEF IInv, BookkeepingInv
<1> QED
  BY <1>1, Inductive, PTL

\* A region never points at a job that has succeeded: finishSwap and
\* finishDelete leave nothing behind that would make the UI show it as running.
THEOREM ActiveJobIsOpen == Spec => []ActiveJobUnsettled
<1>1. IInv => ActiveJobUnsettled
  BY DEF IInv, BookkeepingInv
<1> QED
  BY <1>1, Inductive, PTL

-----------------------------------------------------------------------------
(* One request, tick or chain at a time.  A region that nobody asks for    *)
(* while it is worked on, on a worker that does not die when a stage has   *)
(* handed over and only has to return, is a chain of stages: each finds    *)
(* what the one before it has built, and the row names the release they    *)
(* build.                                                                  *)

SerialAssumption == OneAtATime /\ ~AckLost

\* The task has handed over, or has closed its job: all that is left is to return.
Done(t) == \E w \in Busy : slot[w].task = t /\ At(w, "ack") /\ task[t].kind # "swap"
Current(t, r) == task[t].region = r /\ ~Done(t)
Open(t) == job[task[t].job].state # "succeeded"

\* What stage k needs in .new: parts of the release that the row names.
Needed(k) == CASE k = "tiles"     -> {"pbf"}
               [] k = "routing"   -> {"pbf", "tiles"}
               [] k = "geocoding" -> {"pbf", "tiles", "routing"}
               [] OTHER           -> Parts
BuiltFor(r, k) ==
    /\ staged[r].here /\ row[r].md5 # 0
    /\ live[r].has["pbf"] <= row[r].md5
    /\ \A p \in Needed(k) : staged[r].has[p] = row[r].md5
Promoted(r) == ~staged[r].here /\ Whole(live[r]) /\ row[r].md5 = live[r].has["pbf"]

Exclusive(r) ==
    /\ \A c, d \in Clients : client[c].region = r /\ client[d].region = r => c = d
    /\ \A c \in Clients : client[c].region = r => sched.region # r
    /\ \A t \in TaskIds : task[t].region = r =>
          sched.region # r /\ \A c \in Clients : client[c].region # r
    /\ \A t, u \in TaskIds : Current(t, r) /\ Current(u, r) => t = u

RequestInv(r) ==
    \A c \in Clients : client[c].region = r =>
        /\ client[c].pc = "commit_update" => client[c].kind = "update"
        /\ client[c].kind = "delete" => row[r].state = "archived"

CanRemoveHalf == "remove_error" \in Faults
DirsInv(r) ==
    /\ ~live[r].here => live[r] = NoDir
    /\ live[r].has["pbf"] <= upstream[r] /\ staged[r].has["pbf"] <= upstream[r]
    /\ live[r].here => CanRemoveHalf \/ Whole(live[r])

RowInv(r) ==
    /\ row[r].state # "not_installed"
    /\ row[r].state = "ready" => Whole(live[r]) /\ row[r].md5 = live[r].has["pbf"]

TaskInv(t, r) ==
    /\ task[t].kind # "combined"
    /\ task[t].kind # "swap" => Open(t)
    /\ task[t].kind \in BuildKinds => BuiltFor(r, task[t].kind)
    /\ task[t].kind = "swap" => (BuiltFor(r, "swap") /\ Open(t)) \/ Promoted(r)
    /\ task[t].kind = "delete" => row[r].state \in {"archived", "failed"}

PcsOf(k) == CASE k \in {"install", "update"} ->
                     {"mark", "fetch", "persist", "enqueue", "fail"}
              [] k \in BuildKinds -> {"mark", "build", "enqueue", "fail", "fail_job"}
              [] k = "delete" -> {"rmlive", "rmnew", "purge", "finish_delete", "fail"}
              [] OTHER -> {"mark", "stat", "archive", "promote", "cleanup", "finish",
                           "combine", "ack", "fail", "fail_job"}
Marked == {"fetch", "persist", "build", "stat", "archive", "promote", "cleanup", "finish"}

HandlerInv(w, r) ==
    /\ slot[w].pc \in PcsOf(T(w).kind)
    /\ slot[w].pc \in Marked => row[r].state = EntryState(T(w).kind)
    /\ At(w, "persist") =>
          /\ staged[r].here /\ staged[r].has["pbf"] = slot[w].sum
          /\ slot[w].sum # 0 /\ live[r].has["pbf"] <= slot[w].sum
    /\ At(w, "enqueue") => BuiltFor(r, NextKind(T(w).kind))
    /\ T(w).kind = "swap" /\ slot[w].pc \in {"archive", "promote", "fail", "fail_job"} =>
          BuiltFor(r, "swap") /\ Open(slot[w].task)
    /\ At(w, "promote") =>
          /\ ~live[r].here /\ slot[w].old.has["pbf"] <= row[r].md5
          /\ ~slot[w].old.here => slot[w].old = NoDir
          /\ slot[w].old.here => CanRemoveHalf \/ Whole(slot[w].old)
    /\ slot[w].pc \in {"cleanup", "finish", "combine", "ack"} => Promoted(r)

RegionInv(r) ==
    /\ Exclusive(r) /\ RequestInv(r) /\ DirsInv(r) /\ RowInv(r)
    /\ \A t \in TaskIds : Current(t, r) => TaskInv(t, r)
    /\ \A w \in Busy : Current(slot[w].task, r) => HandlerInv(w, r)

CombinedHasNoRegion ==
    \A t \in TaskIds : task[t].kind = "combined" => task[t].region = NoRegion
SerialInv == CombinedHasNoRegion /\ \A r \in Regions : RegionInv(r)
SInv == IInv /\ SerialInv

-----------------------------------------------------------------------------
(* A step that leaves a region alone.                                      *)

Apart(r) ==
    /\ row'[r].state = row[r].state /\ row'[r].md5 = row[r].md5
    /\ live'[r] = live[r] /\ staged'[r] = staged[r] /\ upstream[r] <= upstream'[r]
    /\ \A c \in Clients : client'[c].region = r => client'[c] = client[c]
    /\ sched'.region = r => sched.region = r
    /\ \A t \in TaskIds : task'[t].region = r =>
          /\ Kept(t) /\ (Done(t)' <=> Done(t))
          /\ job'[task[t].job].state = "succeeded" => job[task[t].job].state = "succeeded"
    /\ \A w \in Slots : slot'[w].pc # "idle" /\ T(w)'.region = r =>
          slot'[w] = slot[w] \/ slot'[w].pc = FirstPc(T(w)'.kind)

LEMMA UpToDate ==
    ASSUME IInv, IInv', NEW r \in Regions, Apart(r), DirsInv(r)
    PROVE  DirsInv(r)'
<1>1. live[r].has["pbf"] \in Nat /\ staged[r].has["pbf"] \in Nat
  <2>1. live[r] \in Dir /\ staged[r] \in Dir
    BY DEF IInv, TypeOK
  <2> QED
    BY <2>1, BoundAssumption, DirTypes DEF Versions
<1>2. upstream[r] \in Nat /\ upstream'[r] \in Nat
  BY BoundAssumption DEF IInv, TypeOK, Versions
<1> QED
  BY <1>1, <1>2 DEF Apart, DirsInv, Whole

\* What is true of a region stays true when a step leaves it alone.
LEMMA Elsewhere ==
    ASSUME IInv, IInv', NEW r \in Regions, RegionInv(r), Apart(r)
    PROVE  RegionInv(r)'
<1>1. \A t \in TaskIds : Current(t, r)' => Current(t, r) /\ Kept(t)
  BY DEF Apart, Current, Kept
<1>2. Exclusive(r)'
  <2>1. \A c \in Clients : client'[c].region = r => client[c].region = r
    BY DEF Apart
  <2>2. \A t \in TaskIds : task'[t].region = r => task[t].region = r
    BY DEF Apart, Kept
  <2>3. sched'.region = r => sched.region = r
    BY DEF Apart
  <2>4. Exclusive(r)
    BY DEF RegionInv
  <2> HIDE DEF Current, Apart, RegionInv
  <2> QED
    BY <1>1, <2>1, <2>2, <2>3, <2>4 DEF Exclusive
<1>3. RequestInv(r)'
  BY DEF Apart, RegionInv, RequestInv
<1>4. DirsInv(r)'
  BY UpToDate DEF RegionInv
<1>5. RowInv(r)'
  BY DEF Apart, RegionInv, RowInv, Whole
<1>6. /\ Promoted(r)' <=> Promoted(r)
      /\ \A k : BuiltFor(r, k)' <=> BuiltFor(r, k)
  BY DEF Apart, Promoted, BuiltFor, Whole
<1>7. ASSUME NEW t \in TaskIds, Current(t, r)'
      PROVE  TaskInv(t, r)'
  <2>1. Current(t, r) /\ Kept(t) /\ TaskInv(t, r)
    BY <1>1, <1>7 DEF RegionInv
  <2>2. Open(t) => Open(t)'
    BY <1>7 DEF Apart, Open, Current, Kept
  <2>3. row'[r].state = row[r].state
    BY DEF Apart
  <2> QED
    BY <1>6, <2>1, <2>2, <2>3 DEF TaskInv, Kept
<1>8. ASSUME NEW w \in Busy', Current(slot[w].task, r)'
      PROVE  HandlerInv(w, r)'
  <2>1. slot'[w].task \in TaskIds /\ w \in Slots /\ slot'[w].pc # "idle" /\ T(w)' \in Task
    BY <1>8, HandlerTask DEF IInv, BookkeepingInv, ActiveOnOneSlot, Busy, TypeOK, T
  <2> SUFFICES ASSUME slot'[w] = slot[w] PROVE HandlerInv(w, r)'
    <3> SUFFICES ASSUME slot'[w].pc = FirstPc(T(w)'.kind) PROVE HandlerInv(w, r)'
      BY <1>8, <2>1 DEF Apart, Current, T
    <3>1. T(w)'.kind \in TaskKinds \ {"combined"}
      BY <1>7, <1>8, <2>1 DEF Task, T, TaskInv
    <3> QED
      BY <3>1 DEF HandlerInv, PcsOf, FirstPc, Marked, At, TaskKinds, ChainKinds, BuildKinds
  <2>2. w \in Busy
    BY <2>1 DEF Busy
  <2>3. Current(slot[w].task, r) /\ Kept(slot[w].task) /\ HandlerInv(w, r)
    BY <1>1, <1>8, <2>1, <2>2 DEF RegionInv
  <2>4. Open(slot[w].task) => Open(slot[w].task)'
    BY <1>8, <2>1, <2>2, <2>3 DEF Apart, Open, Current, Kept
  <2>5. T(w)'.kind = T(w).kind /\ T(w)'.job = T(w).job
    BY <2>2, <2>3 DEF T, Kept
  <2>6. row'[r].state = row[r].state /\ row'[r].md5 = row[r].md5 /\ live'[r] = live[r] /\ staged'[r] = staged[r]
    BY DEF Apart
  <2> QED
    BY <1>6, <2>2, <2>3, <2>4, <2>5, <2>6 DEF HandlerInv, At, Whole
<1> QED
  BY <1>2, <1>3, <1>4, <1>5, <1>7, <1>8 DEF RegionInv

-----------------------------------------------------------------------------
(* A handler's step, in its own region and in the others.                  *)

LEMMA DoneAt ==
    ASSUME IInv, NEW w \in Busy
    PROVE  Done(slot[w].task) <=> At(w, "ack") /\ T(w).kind # "swap"
BY DEF IInv, BookkeepingInv, ActiveOnOneSlot, Done, T

\* What every handler's step leaves alone.
Aside(w) ==
    /\ UNCHANGED <<client, sched, upstream>>
    /\ slot' = [slot EXCEPT ![w] = slot'[w]]
    /\ slot'[w].pc # "idle" => slot'[w].task = slot[w].task
    /\ \A q \in Regions : q # R(w) =>
          /\ row'[q].state = row[q].state /\ row'[q].md5 = row[q].md5
          /\ live'[q] = live[q] /\ staged'[q] = staged[q]
    /\ \A j \in JobIds :
          job'[j].state = "succeeded" => job[j].state = "succeeded" \/ j = T(w).job
    /\ task'[slot[w].task] = NoTask \/ Kept(slot[w].task)
    /\ \A u \in TaskIds :
          u # slot[w].task => task'[u] = task[u] \/ task'[u].region \in {NoRegion, R(w)}

\* The job of a task of a region is a job of that region.
LEMMA TaskJob ==
    ASSUME IInv, CombinedHasNoRegion, NEW t \in TaskIds, NEW r \in Regions, task[t].region = r
    PROVE  /\ task[t].status # "free" /\ task[t].kind # "combined"
           /\ task[t].job \in JobIds /\ job[task[t].job].region = r
<1>1. task[t].kind # "combined"
  BY RegionAssumption DEF CombinedHasNoRegion
<1>2. task[t].status # "free"
  BY RegionAssumption DEF IInv, BookkeepingInv, TasksShaped, NoTask
<1> QED
  BY <1>1, <1>2 DEF IInv, BookkeepingInv, TasksBacked, TaskBacked

\* Another handler's step does not make a task done or undo it.
LEMMA DoneElsewhere ==
    ASSUME IInv, NEW w \in Busy, Aside(w), NEW u \in TaskIds, u # slot[w].task,
           task'[u] = task[u]
    PROVE  Done(u)' <=> Done(u)
<1>1. w \in Slots /\ slot[w].pc # "idle"
  BY DEF Busy
<1>2. \A v \in Slots : v # w => slot'[v] = slot[v]
  BY DEF Aside, IInv, TypeOK
<1>3. \A v \in Slots : slot[v].task = u => v # w
  OBVIOUS
<1>4. \A v \in Slots : slot'[v].pc # "idle" /\ slot'[v].task = u => v # w
  BY DEF Aside
<1> QED
  BY <1>2, <1>3, <1>4 DEF Done, Busy, At

LEMMA HandlerApart ==
    ASSUME IInv, CombinedHasNoRegion, NEW w \in Busy, Aside(w),
           NEW r \in Regions, r # R(w)
    PROVE  Apart(r)
<1>1. w \in Slots /\ slot[w].pc # "idle" /\ slot[w].task \in TaskIds
  BY HandlerTask DEF Busy
<1>2. task'[slot[w].task].region # r
  BY RegionAssumption DEF Aside, Kept, NoTask, R, T
<1>3. ASSUME NEW u \in TaskIds, task'[u].region = r
      PROVE  u # slot[w].task /\ task'[u] = task[u] /\ (Done(u)' <=> Done(u))
             /\ (job'[task[u].job].state = "succeeded" => job[task[u].job].state = "succeeded")
  <2>1. u # slot[w].task
    BY <1>2, <1>3
  <2>2. task'[u] = task[u]
    BY <1>3, <2>1, RegionAssumption DEF Aside
  <2>3. Done(u)' <=> Done(u)
    BY <2>1, <2>2, DoneElsewhere
  <2>4. task[u].job \in JobIds /\ job[task[u].job].region = r
    BY <1>3, <2>2, TaskJob
  <2>5. task[u].job # T(w).job
    <3>1. CASE T(w).kind = "combined"
      BY <1>1, <2>4, <3>1 DEF IInv, BookkeepingInv, TasksShaped, T, JobIds
    <3>2. CASE T(w).kind # "combined"
      <4>1. job[T(w).job].region = R(w)
        BY <1>1, <3>2, HandlerTask DEF IInv, BookkeepingInv, TasksBacked, TaskBacked, T, R
      <4> QED
        BY <2>4, <4>1
    <3> QED
      BY <3>1, <3>2
  <2> QED
    BY <2>1, <2>2, <2>3, <2>4, <2>5 DEF Aside
<1>4. ASSUME NEW v \in Slots, slot'[v].pc # "idle", T(v)'.region = r
      PROVE  slot'[v] = slot[v]
  <2>1. v # w
    BY <1>2, <1>4 DEF Aside, T
  <2> QED
    BY <2>1 DEF Aside, IInv, TypeOK
<1>5. upstream[r] <= upstream'[r]
  BY BoundAssumption DEF Aside, IInv, TypeOK, Versions
<1> QED
  BY <1>3, <1>4, <1>5 DEF Apart, Aside, Kept

\* The step of the handler that works on the region: what has to be shown.
OwnStep(w, t, r) ==
    /\ \A u \in TaskIds : u # t => task'[u] = task[u] \/ task'[u].region = NoRegion
    /\ DirsInv(r)' /\ RowInv(r)'
    /\ task'[t] # NoTask /\ ~Done(t)' => TaskInv(t, r)'
    /\ slot'[w].pc # "idle" /\ ~Done(t)' => HandlerInv(w, r)'

LEMMA OwnRegion ==
    ASSUME IInv, IInv', NEW w \in Busy, Aside(w), NEW t, t = slot[w].task,
           NEW r \in Regions, r = R(w), RegionInv(r), Current(t, r), OwnStep(w, t, r)
    PROVE  RegionInv(r)'
<1>1. w \in Slots /\ slot[w].pc # "idle" /\ t \in TaskIds /\ task[t].region = r
  BY HandlerTask DEF Busy, R, T
<1>2. Exclusive(r)
  BY DEF RegionInv
<1>3. \A c \in Clients : client'[c].region # r
  BY <1>1, <1>2 DEF Exclusive, Aside
<1>4. sched'.region # r
  BY <1>1, <1>2 DEF Exclusive, Aside
<1>5. ASSUME NEW u \in TaskIds, Current(u, r)'
      PROVE  u = t /\ task'[t] # NoTask
  <2>1. ASSUME u # t PROVE FALSE
    <3>1. task'[u] = task[u]
      BY <1>5, <2>1, RegionAssumption DEF OwnStep, Current
    <3>2. Done(u)' <=> Done(u)
      BY <2>1, <3>1, DoneElsewhere
    <3>3. Current(u, r)
      BY <1>5, <3>1, <3>2 DEF Current
    <3> QED
      BY <1>1, <1>2, <2>1, <3>3 DEF Exclusive
  <2> QED
    BY <1>5, <2>1, RegionAssumption DEF Current, NoTask
<1>6. Exclusive(r)'
  BY <1>3, <1>4, <1>5 DEF Exclusive
<1>7. RequestInv(r)'
  BY <1>3 DEF RequestInv
<1>8. \A u \in TaskIds : Current(u, r)' => TaskInv(u, r)'
  <2> SUFFICES ASSUME NEW u \in TaskIds, Current(u, r)' PROVE TaskInv(u, r)'
    OBVIOUS
  <2>1. u = t /\ task'[t] # NoTask
    BY <1>5
  <2>2. ~Done(t)'
    BY <2>1 DEF Current
  <2>3. TaskInv(t, r)'
    BY <2>1, <2>2 DEF OwnStep
  <2> QED
    BY <2>1, <2>3
<1>9. ASSUME NEW v \in Busy', Current(slot[v].task, r)'
      PROVE  HandlerInv(v, r)'
  <2>1. v \in Slots /\ slot'[v].pc # "idle" /\ slot'[v].task \in TaskIds
    BY <1>9 DEF Busy, IInv, BookkeepingInv, ActiveOnOneSlot
  <2>2. slot'[v].task = t
    BY <1>5, <1>9, <2>1 DEF Current
  <2>3. v = w
    <3>1. ASSUME v # w PROVE FALSE
      <4>1. slot'[v] = slot[v]
        BY <2>1, <3>1 DEF Aside, IInv, TypeOK
      <4> QED
        BY <2>1, <2>2, <3>1, <4>1 DEF Busy, IInv, BookkeepingInv, ActiveOnOneSlot
    <3> QED
      BY <3>1
  <2> QED
    BY <1>9, <2>1, <2>2, <2>3 DEF OwnStep, Current
<1> QED
  BY <1>6, <1>7, <1>8, <1>9 DEF RegionInv, OwnStep

\* Both together: the region's own step, and every other region left alone.
LEMMA OwnSerial ==
    ASSUME IInv, IInv', SerialInv, NEW w \in Busy, Aside(w), NEW t, t = slot[w].task,
           NEW r \in Regions, r = R(w), Current(t, r), OwnStep(w, t, r), CombinedHasNoRegion'
    PROVE  SerialInv'
<1>1. RegionInv(r)'
  <2>1. RegionInv(r)
    BY DEF SerialInv
  <2> QED
    BY <2>1, OwnRegion
<1>2. ASSUME NEW q \in Regions, q # r PROVE RegionInv(q)'
  <2>1. Apart(q) /\ RegionInv(q)
    BY <1>2, HandlerApart DEF SerialInv
  <2> QED
    BY <2>1, Elsewhere
<1>3. \A q \in Regions : RegionInv(q)'
  BY <1>1, <1>2
<1> QED
  BY <1>3 DEF SerialInv

\* A step that leaves every region alone.
LEMMA ApartSerial ==
    ASSUME IInv, IInv', SerialInv, \A r \in Regions : Apart(r), CombinedHasNoRegion'
    PROVE  SerialInv'
BY Elsewhere DEF SerialInv

\* A handler that returns leaves a task to be retried, or none.
LEMMA SettledTask ==
    ASSUME IInv, NEW w \in Slots, slot[w].pc # "idle", Settled(w), NEW t, t = slot[w].task
    PROVE  /\ t \in TaskIds /\ slot' = [slot EXCEPT ![w] = Idle]
           /\ \A u \in TaskIds : u # t => task'[u] = task[u]
           /\ task'[t] = NoTask \/ Kept(t)
<1>1. t \in TaskIds /\ task[t] \in Task
  BY HandlerTask DEF T
<1>2. slot' = [slot EXCEPT ![w] = Idle] /\ \A u \in TaskIds : u # t => task'[u] = task[u]
  BY DEF Settled, IInv, TypeOK
<1>3. [task[t] EXCEPT !.status = "retry", !.tries = task[t].tries + 1].kind = task[t].kind
      /\ [task[t] EXCEPT !.status = "retry", !.tries = task[t].tries + 1].region = task[t].region
      /\ [task[t] EXCEPT !.status = "retry", !.tries = task[t].tries + 1].job = task[t].job
  BY <1>1 DEF Task
<1>4. task'[t] = NoTask \/ Kept(t)
  BY <1>3 DEF Settled, Kept, T
<1> QED
  BY <1>1, <1>2, <1>4

\* A handler that returns without another write is no matter to any region.
LEMMA ReturnSerial ==
    ASSUME IInv, IInv', SerialInv, NEW w \in Slots, slot[w].pc # "idle", Settled(w),
           slot[w].pc = "ack" => task'[slot[w].task] = NoTask,
           UNCHANGED <<row, live, staged, client, sched, upstream>>,
           \A j \in JobIds : job'[j].state = "succeeded" => job[j].state = "succeeded"
    PROVE  SerialInv'
<1>1. PICK t : t = slot[w].task
  OBVIOUS
<1>2. /\ t \in TaskIds /\ slot' = [slot EXCEPT ![w] = Idle]
      /\ \A u \in TaskIds : u # t => task'[u] = task[u]
      /\ task'[t] = NoTask \/ Kept(t)
  BY <1>1, SettledTask
<1>3. w \in Busy /\ slot \in [Slots -> Slot]
  BY DEF Busy, IInv, TypeOK
<1>4. slot'[w] = Idle /\ Idle.pc = "idle" /\ \A v \in Slots : v # w => slot'[v] = slot[v]
  BY <1>2, <1>3 DEF Idle
<1>5. Aside(w)
  BY <1>1, <1>2, <1>3, <1>4 DEF Aside
<1>6. ~Done(t)'
  <2> SUFFICES ASSUME NEW v \in Slots, slot'[v].pc # "idle", slot'[v].task = t PROVE FALSE
    BY DEF Done, Busy
  <2>1. v # w /\ v \in Busy /\ slot[v].task = slot[w].task
    BY <1>1, <1>4 DEF Busy
  <2> QED
    BY <2>1, <1>3 DEF IInv, BookkeepingInv, ActiveOnOneSlot
<1>7. task'[t] = NoTask \/ ~Done(t)
  BY <1>1, <1>3, DoneAt DEF At
<1>8. CombinedHasNoRegion'
  BY <1>2 DEF SerialInv, CombinedHasNoRegion, Kept, NoTask
<1>9. ASSUME NEW r \in Regions PROVE Apart(r)
  <2>1. ASSUME NEW u \in TaskIds, task'[u].region = r
        PROVE  Kept(u) /\ (Done(u)' <=> Done(u))
               /\ (job'[task[u].job].state = "succeeded" => job[task[u].job].state = "succeeded")
    <3>1. task'[u] # NoTask
      BY <2>1, RegionAssumption DEF NoTask
    <3>2. Kept(u) /\ task[u].region = r
      BY <1>2, <2>1, <3>1 DEF Kept
    <3>3. Done(u)' <=> Done(u)
      BY <1>1, <1>2, <1>3, <1>5, <1>6, <1>7, <3>1, DoneElsewhere
    <3>4. task[u].job \in JobIds
      BY <3>2, TaskJob DEF SerialInv
    <3> QED
      BY <3>2, <3>3, <3>4
  <2>2. ASSUME NEW v \in Slots, slot'[v].pc # "idle" PROVE slot'[v] = slot[v]
    BY <1>4, <2>2
  <2>3. upstream[r] <= upstream'[r]
    BY BoundAssumption DEF IInv, TypeOK, Versions
  <2> QED
    BY <2>1, <2>2, <2>3 DEF Apart
<1> QED
  BY <1>8, <1>9, ApartSerial

LEMMA SerialReturns ==
    ASSUME IInv, IInv', SerialInv, NEW w \in Slots,
           \/ Ack(w) \/ MarkJobFailed(w) \/ MarkFailedLost(w)
           \/ SwapFinishError(w) \/ CombinedRouting(w)
    PROVE  SerialInv'
<1> USE DEF At, db, disk
<1>1. /\ slot[w].pc # "idle"
      /\ ReturnNil(w) \/ ReturnError(w)
      /\ UNCHANGED <<row, live, staged, client, sched, upstream>>
  BY DEF Ack, MarkJobFailed, MarkFailedLost, SwapFinishError, CombinedRouting
<1>2. Settled(w)
  BY <1>1, SettleTypes
<1>3. slot[w].pc = "ack" => ReturnNil(w)
  BY DEF Ack, MarkJobFailed, MarkFailedLost, SwapFinishError, CombinedRouting
<1>4. slot[w].pc = "ack" => task'[slot[w].task] = NoTask
  BY <1>1, <1>3, HandlerTask DEF ReturnNil, IInv, TypeOK
<1>5. job' = job \/ SetJob(T(w).job, "failed")
  BY DEF Ack, MarkJobFailed, MarkFailedLost, SwapFinishError, CombinedRouting
<1>6. ASSUME NEW j \in JobIds, job'[j].state = "succeeded" PROVE job[j].state = "succeeded"
  BY <1>5, <1>6 DEF SetJob, IInv, TypeOK, Job
<1> QED
  BY <1>1, <1>2, <1>4, <1>6, ReturnSerial

-----------------------------------------------------------------------------
(* The steps of a handler that goes on with its task.                      *)

\* What handler w finds that runs task t of region r.
Works(w, t, r) ==
    /\ t = slot[w].task /\ r = R(w) /\ T(w) = task[t]
    /\ w \in Busy /\ t \in TaskIds /\ r \in Regions
    /\ task[t].kind \in ChainKinds \cup {"delete"}
    /\ live[r] \in Dir /\ staged[r] \in Dir /\ slot \in [Slots -> Slot] /\ row \in [Regions -> Row]
    /\ upstream[r] \in Versions \ {0}
    /\ Current(t, r) /\ TaskInv(t, r) /\ HandlerInv(w, r) /\ DirsInv(r) /\ RowInv(r)

LEMMA AtWork ==
    ASSUME IInv, SerialInv, NEW w \in Slots, slot[w].pc \notin {"idle", "combined", "ack"}
    PROVE  \E t \in TaskIds, r \in Regions : Works(w, t, r)
<1>1. PICK t \in TaskIds, r \in Regions : t = slot[w].task /\ r = R(w)
  BY HandlerTask, HandlerRegion
<1>2. w \in Busy
  BY DEF Busy
<1>3. Current(t, r)
  BY <1>1, <1>2, DoneAt DEF Current, At, R, T
<1>4. RegionInv(r)
  BY DEF SerialInv
<1>5. TaskInv(t, r) /\ HandlerInv(w, r) /\ DirsInv(r) /\ RowInv(r)
  BY <1>1, <1>2, <1>3, <1>4 DEF RegionInv
<1>6. task[t].kind \in ChainKinds \cup {"delete"}
  BY <1>1, HandlerRegion, HandlerTask DEF Task, TaskKinds, T
<1>7. /\ live[r] \in Dir /\ staged[r] \in Dir /\ slot \in [Slots -> Slot] /\ row \in [Regions -> Row]
      /\ upstream[r] \in Versions \ {0}
  BY DEF IInv, TypeOK
<1>8. T(w) = task[t]
  BY <1>1 DEF T
<1> QED
  BY <1>1, <1>2, <1>3, <1>5, <1>6, <1>7, <1>8 DEF Works

\* It touches its own region only.
OnlyAt(r) ==
    \A q \in Regions : q # r => /\ row'[q].state = row[q].state /\ row'[q].md5 = row[q].md5
                                /\ live'[q] = live[q] /\ staged'[q] = staged[q]

LEMMA OnwardSerial ==
    ASSUME IInv, IInv', SerialInv, NEW w \in Slots, NEW t, NEW r, Works(w, t, r),
           StaysOn(w), OnlyAt(r), UNCHANGED <<task, client, sched, upstream>>,
           job' = job \/ SetJob(T(w).job, "succeeded"),
           DirsInv(r)', RowInv(r)', ~Done(t)' => TaskInv(t, r)' /\ HandlerInv(w, r)'
    PROVE  SerialInv'
<1>1. /\ r \in Regions /\ w \in Busy /\ t = slot[w].task /\ r = R(w) /\ Current(t, r)
  BY DEF Works
<1>2. ASSUME NEW j \in JobIds, job'[j].state = "succeeded", j # T(w).job
      PROVE  job[j].state = "succeeded"
  BY <1>2 DEF SetJob, IInv, TypeOK
<1>3. Aside(w)
  BY <1>1, <1>2 DEF Aside, StaysOn, OnlyAt, Kept
<1>4. OwnStep(w, t, r)
  BY DEF OwnStep
<1>5. CombinedHasNoRegion'
  BY DEF SerialInv, CombinedHasNoRegion
<1> QED
  BY <1>1, <1>3, <1>4, <1>5, OwnSerial

\* The kind of the task it runs stays, and the row and the directories of a
\* step that writes neither.
LEMMA SameTask ==
    ASSUME NEW w \in Slots, NEW t, NEW r, Works(w, t, r), StaysOn(w), UNCHANGED task
    PROVE  T(w)' = task[t] /\ slot'[w].task = t
BY DEF StaysOn, T, Works

\* A failed stage leaves its inputs as they were.
LEMMA FailSerial ==
    ASSUME IInv, IInv', SerialInv, NEW w \in Slots, NEW t, NEW r, Works(w, t, r),
           Goto(w, "fail"), OnlyAt(r), UNCHANGED <<row, job, task, client, sched, upstream>>,
           task[t].kind # "swap" \/ (BuiltFor(r, "swap") /\ Open(t)),
           task[t].kind \in BuildKinds \cup {"swap"} /\ BuiltFor(r, task[t].kind) =>
               BuiltFor(r, task[t].kind)',
           DirsInv(r)', RowInv(r)'
    PROVE  SerialInv'
<1>1. StaysOn(w)
  BY GotoStays DEF Pcs, IInv
<1>2. T(w)' = task[t] /\ slot'[w].task = t /\ slot'[w].pc = "fail"
  BY <1>1, SameTask DEF Goto, Works
<1>3. Open(t)' <=> Open(t)
  BY DEF Open
<1>4. TaskInv(t, r)'
  BY <1>3 DEF TaskInv, Works, BuildKinds
<1>5. "fail" \in PcsOf(task[t].kind)
  BY DEF Works, PcsOf
<1>6. HandlerInv(w, r)'
  BY <1>2, <1>3, <1>5 DEF HandlerInv, At, Marked
<1> QED
  BY <1>1, <1>4, <1>6, OnwardSerial

\* A step that fails without a write, or after one in .new or below <region>
\* that leaves what the stage needs.
LEMMA NothingWritten ==
    ASSUME NEW w, NEW t, NEW r, Works(w, t, r), UNCHANGED <<row, live, staged, upstream>>
    PROVE  /\ OnlyAt(r) /\ DirsInv(r)' /\ RowInv(r)'
           /\ \A k : BuiltFor(r, k)' <=> BuiltFor(r, k)
           /\ Promoted(r)' <=> Promoted(r)
BY DEF Works, OnlyAt, DirsInv, RowInv, BuiltFor, Promoted, Whole

LEMMA SerialEarlyErrors ==
    ASSUME IInv, IInv', SerialInv, NEW w \in Slots, MarkError(w) \/ EnqueueError(w)
    PROVE  SerialInv'
<1> USE DEF At, db, disk
<1>1. /\ slot[w].pc \in {"mark", "enqueue"}
      /\ UNCHANGED <<row, job, live, staged, client, sched, upstream>>
      /\ \/ T(w).kind \in {"install", "update"} /\ Goto(w, "fail") /\ UNCHANGED task
         \/ ReturnError(w)
  BY DEF MarkError, EnqueueError
<1>2. PICK t \in TaskIds, r \in Regions : Works(w, t, r)
  BY <1>1, AtWork
<1>3. CASE T(w).kind \in {"install", "update"} /\ Goto(w, "fail") /\ UNCHANGED task
  <2>1. task[t].kind # "swap"
    BY <1>2, <1>3 DEF Works
  <2> QED
    BY <1>1, <1>2, <1>3, <2>1, FailSerial, NothingWritten
<1>4. CASE ReturnError(w)
  <2>1. Settled(w)
    BY <1>1, <1>4, SettleTypes
  <2> QED
    BY <1>1, <2>1, ReturnSerial
<1> QED
  BY <1>1, <1>3, <1>4

\* The errors that write nothing at all.
LEMMA SerialPlainErrors ==
    ASSUME IInv, IInv', SerialInv, NEW w \in Slots,
           \/ PersistError(w) \/ GeocodeError(w) \/ SwapArchiveError(w)
           \/ DeleteFinishError(w)
           \/ DeletePurge(w) /\ Goto(w, "fail")
    PROVE  SerialInv'
<1> USE DEF At, db, disk, queue
<1>1. /\ slot[w].pc \in {"persist", "build", "archive", "finish_delete", "purge"}
      /\ UNCHANGED <<row, job, task, live, staged, client, sched, upstream>>
      /\ Goto(w, "fail")
  BY DEF PersistError, GeocodeError, SwapArchiveError, DeleteFinishError, DeletePurge
<1>2. PICK t \in TaskIds, r \in Regions : Works(w, t, r)
  BY <1>1, AtWork
<1>3. task[t].kind # "swap" \/ (BuiltFor(r, "swap") /\ Open(t))
  BY <1>1, <1>2 DEF Works, HandlerInv, PcsOf, BuildKinds, ChainKinds
<1> QED
  BY <1>1, <1>2, <1>3, FailSerial, NothingWritten

\* The errors that leave something in .new.
LEMMA SerialStagedErrors ==
    ASSUME IInv, IInv', SerialInv, NEW w \in Slots,
           FetchError(w) \/ BuildError(w) \/ DeleteNewError(w)
    PROVE  SerialInv'
<1> USE DEF At, db, disk, queue
<1>1. /\ slot[w].pc \in {"fetch", "build", "rmnew"}
      /\ UNCHANGED <<row, job, task, live, client, sched, upstream>>
      /\ Goto(w, "fail")
  BY DEF FetchError, BuildError, DeleteNewError
<1>2. PICK t \in TaskIds, r \in Regions : Works(w, t, r)
  BY <1>1, AtWork
<1>3. task[t].kind # "swap"
  BY <1>1, <1>2 DEF Works, HandlerInv, PcsOf, BuildKinds, ChainKinds
<1>4. /\ r \in Regions /\ r = R(w) /\ T(w) = task[t] /\ staged \in [Regions -> Dir]
      /\ staged[r] \in Dir /\ upstream[r] \in Nat /\ staged[r].has["pbf"] \in Nat
  <2>1. staged[r].has["pbf"] \in Versions /\ upstream[r] \in Versions
    BY <1>2, DirTypes DEF Works
  <2> QED
    BY <1>2, <2>1, BoundAssumption DEF Works, IInv, TypeOK, Versions
<1>5. /\ staged' = [staged EXCEPT ![r] = staged'[r]]
      /\ staged'[r].has["pbf"] = staged[r].has["pbf"] \/ staged'[r].has["pbf"] = 0
  BY <1>4 DEF FetchError, BuildError, DeleteNewError, Made, With, Dir, Parts, Part, Remainder
<1>6. OnlyAt(r)
  BY <1>1, <1>5, <1>4 DEF OnlyAt
<1>7. DirsInv(r)'
  BY <1>1, <1>2, <1>4, <1>5 DEF Works, DirsInv, Whole
<1>8. RowInv(r)'
  BY <1>1, <1>2 DEF Works, RowInv, Whole
<1>9. ASSUME task[t].kind \in BuildKinds, BuiltFor(r, task[t].kind)
      PROVE  BuiltFor(r, task[t].kind)'
  <2>1. slot[w].pc = "build"
    BY <1>1, <1>2, <1>9 DEF Works, HandlerInv, PcsOf, BuildKinds
  <2>2. BuildError(w) /\ task[t].kind \in {"tiles", "routing"}
    BY <1>4, <2>1 DEF FetchError, BuildError, DeleteNewError
  <2> DEFINE p == Part(task[t].kind)
  <2>3. PICK v : staged'[r] = Made(staged[r]) \/ staged'[r] = With(staged[r], p, v)
    BY <1>4, <2>2 DEF BuildError, Part
  <2>4. p \notin Needed(task[t].kind)
    BY <2>2 DEF Part, Needed
  <2> HIDE DEF p
  <2>5. staged'[r].here /\ \A q \in Needed(task[t].kind) : staged'[r].has[q] = staged[r].has[q]
    <3>1. Needed(task[t].kind) \subseteq Parts
      BY DEF Needed, Parts
    <3>2. CASE staged'[r] = Made(staged[r])
      BY <1>4, <1>9, <3>2 DEF Made, Dir, BuiltFor
    <3>3. CASE staged'[r] = With(staged[r], p, v)
      BY <1>4, <2>4, <3>1, <3>3 DEF With, Dir
    <3> QED
      BY <2>3, <3>2, <3>3
  <2> QED
    BY <1>1, <1>9, <2>5 DEF BuiltFor
<1> QED
  BY <1>1, <1>2, <1>3, <1>6, <1>7, <1>8, <1>9, FailSerial

\* A deletion that fails halfway leaves a part of <region>.
LEMMA SerialRemoveError ==
    ASSUME IInv, IInv', SerialInv, NEW w \in Slots, DeleteLiveError(w)
    PROVE  SerialInv'
<1> USE DEF At, db, disk, queue
<1>1. /\ slot[w].pc = "rmlive" /\ CanRemoveHalf
      /\ UNCHANGED <<row, job, task, staged, client, sched, upstream>>
      /\ Goto(w, "fail")
  BY DEF DeleteLiveError, CanRemoveHalf
<1>2. PICK t \in TaskIds, r \in Regions : Works(w, t, r)
  BY <1>1, AtWork
<1>3. task[t].kind = "delete"
  BY <1>1, <1>2 DEF Works, HandlerInv, PcsOf, BuildKinds, ChainKinds
<1>4. row[r].state # "ready"
  BY <1>2, <1>3 DEF Works, TaskInv
<1>5. live \in [Regions -> Dir] /\ live[r] \in Dir /\ r = R(w) /\ r \in Regions
  BY <1>2 DEF Works, IInv, TypeOK
<1>12. PICK d \in Remainder(live[r]) : live' = [live EXCEPT ![r] = d]
  BY <1>5 DEF DeleteLiveError
<1>6. PICK gone \in SUBSET Parts :
         d = [live[r] EXCEPT !.has = [p \in Parts |-> IF p \in gone THEN 0 ELSE live[r].has[p]]]
  BY DEF Remainder
<1>7. /\ live'[r].here = live[r].here
      /\ live'[r].has = [p \in Parts |-> IF p \in gone THEN 0 ELSE live[r].has[p]]
      /\ live'[r] \in Dir
      /\ \A q \in Regions : q # r => live'[q] = live[q]
  <2>1. live'[r] \in Dir
    BY <1>5 DEF IInv, TypeOK
  <2> QED
    BY <1>5, <1>12, <1>6, <2>1 DEF Dir
<1>8. ~live[r].here => live'[r] = NoDir
  <2>1. ASSUME ~live[r].here PROVE live'[r] = NoDir
    <3>1. live[r] = NoDir
      BY <1>2, <2>1 DEF Works, DirsInv
    <3>2. live'[r].has = [p \in Parts |-> 0]
      BY <1>7, <3>1 DEF NoDir
    <3>3. live'[r].here = FALSE
      BY <1>7, <3>1 DEF NoDir
    <3> QED
      BY <1>7, <3>2, <3>3 DEF NoDir, Dir
  <2> QED
    BY <2>1
<1>9. live'[r].has["pbf"] = 0 \/ live'[r].has["pbf"] = live[r].has["pbf"]
  BY <1>7 DEF Parts
<1>10. DirsInv(r)'
  <2>1. upstream[r] \in Nat
    BY <1>2, BoundAssumption DEF Works, Versions
  <2> QED
    BY <1>1, <1>2, <1>7, <1>8, <1>9, <2>1 DEF Works, DirsInv, CanRemoveHalf
<1>11. OnlyAt(r) /\ RowInv(r)'
  BY <1>1, <1>2, <1>4, <1>7 DEF OnlyAt, RowInv, Works
<1> QED
  BY <1>1, <1>2, <1>3, <1>10, <1>11, FailSerial DEF BuildKinds

\* A swap that cannot move .new in moves the old directory back, or not.
LEMMA SerialPromoteError ==
    ASSUME IInv, IInv', SerialInv, NEW w \in Slots, SwapPromoteError(w)
    PROVE  SerialInv'
<1> USE DEF At, db, disk, queue
<1>1. /\ slot[w].pc = "promote"
      /\ slot' = [slot EXCEPT ![w].pc = "fail", ![w].old = NoDir]
      /\ UNCHANGED <<row, job, task, staged, client, sched, upstream>>
  BY DEF SwapPromoteError
<1>2. PICK t \in TaskIds, r \in Regions : Works(w, t, r)
  BY <1>1, AtWork
<1>3. r = R(w) /\ r \in Regions /\ live \in [Regions -> Dir] /\ staged[r].has["pbf"] \in Nat
      /\ upstream[r] \in Nat /\ slot[w] \in Slot
  <2>1. staged[r].has["pbf"] \in Versions /\ upstream[r] \in Versions
    BY <1>2, DirTypes DEF Works
  <2> QED
    BY <1>2, <2>1, BoundAssumption DEF Works, IInv, TypeOK, Versions
<1>4. /\ live' = live \/ (slot[w].old.here /\ live' = [live EXCEPT ![r] = slot[w].old])
  BY <1>1, <1>3 DEF SwapPromoteError
<1>5. HandlerInv(w, r) /\ DirsInv(r) /\ RowInv(r) /\ T(w) = task[t] /\ slot[w].task = t
  BY <1>2 DEF Works
<1>6. task[t].kind = "swap" /\ row[r].state = "updating"
  BY <1>1, <1>2, <1>5 DEF Works, HandlerInv, PcsOf, BuildKinds, ChainKinds, Marked, EntryState
<1>7. BuiltFor(r, "swap") /\ Open(t)
  BY <1>1, <1>5, <1>6 DEF HandlerInv
<1>8. row[r].md5 = staged[r].has["pbf"]
  BY <1>7 DEF BuiltFor, Needed, Parts, BuildKinds
<1>9. /\ live'[r].has["pbf"] <= row[r].md5
      /\ ~live'[r].here => live'[r] = NoDir
      /\ live'[r].here => CanRemoveHalf \/ Whole(live'[r])
  <2>1. CASE live' = live
    BY <1>5, <1>7, <2>1 DEF DirsInv, BuiltFor
  <2>2. CASE slot[w].old.here /\ live' = [live EXCEPT ![r] = slot[w].old]
    <3>1. live'[r] = slot[w].old
      BY <1>3, <2>2
    <3> QED
      BY <1>1, <1>5, <2>2, <3>1 DEF HandlerInv
  <2> QED
    BY <1>4, <2>1, <2>2
<1>10. live'[r].has["pbf"] \in Nat
  <2>1. live'[r] \in Dir
    BY <1>3 DEF IInv, TypeOK
  <2> QED
    BY <2>1, DirTypes, BoundAssumption DEF Versions
<1>11. DirsInv(r)'
  BY <1>1, <1>3, <1>5, <1>8, <1>9, <1>10 DEF DirsInv, CanRemoveHalf, Whole
<1>12. RowInv(r)' /\ OnlyAt(r)
  BY <1>1, <1>3, <1>4, <1>6, <1>5 DEF RowInv, OnlyAt
<1>13. BuiltFor(r, "swap")' /\ (Open(t)' <=> Open(t))
  BY <1>1, <1>7, <1>9 DEF BuiltFor, Open
<1>14. NoDir \in Dir /\ TypeOK
  BY <1>3, DirTypes DEF IInv, TypeOK
<1>15. StaysOn(w)
  BY <1>1, <1>14, GotoWithStays DEF Pcs
<1>16. T(w)' = task[t] /\ slot'[w].task = t /\ slot'[w].pc = "fail"
  BY <1>1, <1>2, <1>15, SameTask DEF Works
<1>17. TaskInv(t, r)' /\ HandlerInv(w, r)'
  BY <1>1, <1>6, <1>7, <1>13, <1>16 DEF TaskInv, HandlerInv, BuildKinds, PcsOf, Marked
<1> QED
  BY <1>1, <1>2, <1>11, <1>12, <1>15, <1>17, OnwardSerial

\* The stage's first failure statement: the row, if the database takes it.
LEMMA SerialStageFailed ==
    ASSUME IInv, IInv', SerialInv, NEW w \in Slots, MarkStageFailed(w)
    PROVE  SerialInv'
<1> USE DEF At, db, disk, queue
<1>1. /\ slot[w].pc = "fail" /\ T(w).kind \in {"swap"} \cup BuildKinds
      /\ Goto(w, "fail_job")
      /\ UNCHANGED <<job, task, live, staged, client, sched, upstream>>
  BY DEF MarkStageFailed
<1>2. PICK t \in TaskIds, r \in Regions : Works(w, t, r)
  BY <1>1, AtWork
<1>3. /\ row' = row \/ row' = [row EXCEPT ![r].state = "failed"]
  BY <1>2 DEF MarkStageFailed, Works
<1>4. /\ row'[r].md5 = row[r].md5 /\ row'[r].state \in {row[r].state, "failed"}
      /\ \A q \in Regions : q # r => row'[q] = row[q]
  <2>1. r \in Regions /\ row \in [Regions -> Row] /\ row[r] \in Row
    BY <1>2 DEF Works
  <2> QED
    BY <1>3, <2>1 DEF Row
<1>5. OnlyAt(r)
  BY <1>1, <1>4 DEF OnlyAt
<1>6. DirsInv(r)' /\ RowInv(r)'
  BY <1>1, <1>2, <1>4 DEF Works, DirsInv, RowInv, Whole
<1>7. (Open(t)' <=> Open(t)) /\ \A k : BuiltFor(r, k)' <=> BuiltFor(r, k)
  BY <1>1, <1>4 DEF Open, BuiltFor
<1>8. StaysOn(w)
  BY <1>1, GotoStays DEF Pcs, IInv
<1>9. T(w)' = task[t] /\ slot'[w].task = t /\ slot'[w].pc = "fail_job"
  BY <1>1, <1>2, <1>8, SameTask DEF Goto, Works
<1>10. task[t].kind \in {"swap"} \cup BuildKinds /\ TaskInv(t, r) /\ HandlerInv(w, r)
  BY <1>1, <1>2 DEF Works
<1>11. task[t].kind = "swap" => BuiltFor(r, "swap") /\ Open(t)
  BY <1>1, <1>2, <1>10 DEF HandlerInv, Works
<1>12. TaskInv(t, r)'
  BY <1>1, <1>7, <1>10, <1>11 DEF TaskInv, BuildKinds
<1>13. HandlerInv(w, r)'
  BY <1>7, <1>9, <1>10, <1>11 DEF HandlerInv, PcsOf, BuildKinds, Marked
<1> QED
  BY <1>1, <1>2, <1>5, <1>6, <1>8, <1>12, <1>13, OnwardSerial

\* The row takes the state of the stage.
LEMMA SerialMark ==
    ASSUME IInv, IInv', SerialInv, NEW w \in Slots, Mark(w)
    PROVE  SerialInv'
<1> USE DEF At, db, disk, queue
<1>1. /\ slot[w].pc = "mark" /\ Goto(w, WorkPc(T(w).kind))
      /\ row' = [row EXCEPT ![R(w)].state = EntryState(T(w).kind)]
      /\ UNCHANGED <<job, task, live, staged, client, sched, upstream>>
  BY DEF Mark
<1>2. PICK t \in TaskIds, r \in Regions : Works(w, t, r)
  BY <1>1, AtWork
<1>3. /\ r \in Regions /\ row \in [Regions -> Row] /\ row[r] \in Row /\ r = R(w) /\ T(w) = task[t]
      /\ slot[w].task = t /\ slot \in [Slots -> Slot]
      /\ TaskInv(t, r) /\ HandlerInv(w, r) /\ DirsInv(r) /\ RowInv(r)
  BY <1>2 DEF Works
<1>4. task[t].kind \in ChainKinds
  BY <1>1, <1>2, <1>3 DEF Works, HandlerInv, PcsOf, BuildKinds, ChainKinds
<1>5. /\ row'[r].md5 = row[r].md5 /\ row'[r].state = EntryState(task[t].kind)
      /\ \A q \in Regions : q # r => row'[q] = row[q]
  BY <1>1, <1>3 DEF Row
<1>6. OnlyAt(r)
  BY <1>1, <1>5 DEF OnlyAt
<1>7. DirsInv(r)' /\ RowInv(r)'
  BY <1>1, <1>3, <1>5 DEF DirsInv, RowInv, Whole, EntryState
<1>8. /\ Open(t)' <=> Open(t)
      /\ \A k : BuiltFor(r, k)' <=> BuiltFor(r, k)
      /\ Promoted(r)' <=> Promoted(r)
  BY <1>1, <1>5 DEF Open, BuiltFor, Promoted, Whole
<1>9. WorkPc(task[t].kind) \in {"fetch", "build", "stat"}
  BY DEF WorkPc
<1>10. StaysOn(w)
  BY <1>1, <1>3, <1>9, GotoStays DEF Pcs, IInv
<1>11. T(w)' = task[t] /\ slot'[w].task = t /\ slot'[w].pc = WorkPc(task[t].kind)
  BY <1>1, <1>2, <1>3, <1>10, SameTask DEF Goto
<1>12. TaskInv(t, r)'
  BY <1>1, <1>3, <1>4, <1>8 DEF TaskInv, ChainKinds, BuildKinds
<1>13. HandlerInv(w, r)'
  BY <1>4, <1>5, <1>9, <1>11 DEF HandlerInv, PcsOf, ChainKinds, BuildKinds, WorkPc
<1> QED
  BY <1>1, <1>2, <1>6, <1>7, <1>10, <1>12, <1>13, OnwardSerial

\* .new holds the release that the mirror publishes now.
LEMMA SerialFetch ==
    ASSUME IInv, IInv', SerialInv, NEW w \in Slots, Fetch(w)
    PROVE  SerialInv'
<1> USE DEF At, db, disk, queue
<1>1. /\ slot[w].pc = "fetch"
      /\ UNCHANGED <<row, job, task, live, client, sched, upstream>>
  BY DEF Fetch
<1>2. PICK t \in TaskIds, r \in Regions : Works(w, t, r)
  BY <1>1, AtWork
<1>3. /\ r \in Regions /\ T(w) = task[t] /\ slot[w].task = t
      /\ slot \in [Slots -> Slot] /\ slot[w] \in Slot
      /\ TaskInv(t, r) /\ HandlerInv(w, r) /\ DirsInv(r) /\ RowInv(r)
  BY <1>2 DEF Works
<1>4. /\ slot' = [slot EXCEPT ![w].pc = "persist", ![w].sum = upstream[r]]
      /\ staged' = [staged EXCEPT ![r] = With(staged[r], "pbf", upstream[r])]
  BY <1>2 DEF Fetch, Works
<1>5. /\ upstream[r] \in Versions \ {0} /\ upstream[r] \in Nat /\ upstream[r] # 0
      /\ staged[r] \in Dir /\ staged \in [Regions -> Dir]
  BY <1>3, BoundAssumption DEF IInv, TypeOK, Versions
<1>6. task[t].kind \in {"install", "update"} /\ row[r].state = EntryState(task[t].kind)
  BY <1>1, <1>2, <1>3 DEF Works, HandlerInv, PcsOf, BuildKinds, ChainKinds, Marked
<1>7. /\ staged'[r].here /\ staged'[r].has["pbf"] = upstream[r]
      /\ \A q \in Regions : q # r => staged'[q] = staged[q]
  BY <1>3, <1>4, <1>5 DEF With, Dir, Parts
<1>8. OnlyAt(r) /\ DirsInv(r)' /\ RowInv(r)'
  BY <1>1, <1>3, <1>5, <1>7 DEF OnlyAt, DirsInv, RowInv, Whole
<1>9. TaskInv(t, r)'
  BY <1>1, <1>3, <1>6 DEF TaskInv, Open, BuildKinds
<1>10. StaysOn(w)
  BY <1>4, <1>5, GotoWithStays DEF Pcs, IInv
<1>11. /\ T(w)' = task[t] /\ slot'[w].task = t
       /\ slot'[w].pc = "persist" /\ slot'[w].sum = upstream[r]
  <2>1. slot'[w].pc = "persist" /\ slot'[w].sum = upstream[r]
    BY <1>3, <1>4 DEF Slot
  <2> QED
    BY <1>1, <1>2, <1>10, <2>1, SameTask
<1>12. HandlerInv(w, r)'
  BY <1>1, <1>3, <1>5, <1>6, <1>7, <1>11 DEF HandlerInv, PcsOf, DirsInv
<1> QED
  BY <1>1, <1>2, <1>8, <1>9, <1>10, <1>12, OnwardSerial

\* The row names the release in .new.
LEMMA SerialPersist ==
    ASSUME IInv, IInv', SerialInv, NEW w \in Slots, Persist(w)
    PROVE  SerialInv'
<1> USE DEF At, db, disk, queue
<1>1. /\ slot[w].pc = "persist" /\ Goto(w, "enqueue")
      /\ UNCHANGED <<job, task, live, staged, client, sched, upstream>>
  BY DEF Persist
<1>2. PICK t \in TaskIds, r \in Regions : Works(w, t, r)
  BY <1>1, AtWork
<1>3. /\ r \in Regions /\ T(w) = task[t] /\ slot[w].task = t /\ r = R(w)
      /\ slot \in [Slots -> Slot] /\ row \in [Regions -> Row] /\ row[r] \in Row
      /\ TaskInv(t, r) /\ HandlerInv(w, r) /\ DirsInv(r) /\ RowInv(r)
  BY <1>2 DEF Works
<1>4. task[t].kind \in {"install", "update"} /\ row[r].state = EntryState(task[t].kind)
  BY <1>1, <1>2, <1>3 DEF Works, HandlerInv, PcsOf, BuildKinds, ChainKinds, Marked
<1>5. /\ row'[r].md5 = slot[w].sum /\ row'[r].state = row[r].state
      /\ \A q \in Regions : q # r => row'[q] = row[q]
  BY <1>3 DEF Persist, Row
<1>6. OnlyAt(r) /\ DirsInv(r)' /\ RowInv(r)'
  BY <1>1, <1>3, <1>4, <1>5 DEF OnlyAt, DirsInv, RowInv, Whole, EntryState
<1>7. BuiltFor(r, "tiles")'
  BY <1>1, <1>3, <1>5 DEF HandlerInv, BuiltFor, Needed
<1>8. TaskInv(t, r)'
  BY <1>1, <1>3, <1>4 DEF TaskInv, Open, BuildKinds
<1>9. StaysOn(w)
  BY <1>1, GotoStays DEF Pcs, IInv
<1>10. T(w)' = task[t] /\ slot'[w].task = t /\ slot'[w].pc = "enqueue"
  BY <1>1, <1>2, <1>3, <1>9, SameTask DEF Goto
<1>11. HandlerInv(w, r)'
  BY <1>4, <1>7, <1>10 DEF HandlerInv, PcsOf, NextKind, Marked
<1> QED
  BY <1>1, <1>2, <1>6, <1>8, <1>9, <1>11, OnwardSerial

\* A stage that succeeds has added its part to .new.
LEMMA SerialBuild ==
    ASSUME IInv, IInv', SerialInv, NEW w \in Slots, Build(w) \/ Geocode(w)
    PROVE  SerialInv'
<1> USE DEF At, db, disk, queue
<1>1. /\ slot[w].pc = "build" /\ Goto(w, "enqueue") /\ T(w).kind \in BuildKinds
      /\ UNCHANGED <<row, job, task, client, sched, upstream>>
  BY DEF Build, Geocode, BuildKinds
<1>2. PICK t \in TaskIds, r \in Regions : Works(w, t, r)
  BY <1>1, AtWork
<1>3. /\ r \in Regions /\ T(w) = task[t] /\ slot[w].task = t /\ r = R(w)
      /\ slot \in [Slots -> Slot] /\ staged \in [Regions -> Dir] /\ staged[r] \in Dir
      /\ TaskInv(t, r) /\ HandlerInv(w, r) /\ DirsInv(r) /\ RowInv(r)
  BY <1>2 DEF Works, IInv, TypeOK
<1>4. task[t].kind \in BuildKinds /\ row[r].state = EntryState(task[t].kind)
  BY <1>1, <1>3 DEF HandlerInv, Marked
<1>5. BuiltFor(r, task[t].kind)
  BY <1>3, <1>4 DEF TaskInv
<1>6. row[r].md5 = staged[r].has["pbf"] /\ row[r].md5 # 0
  BY <1>4, <1>5 DEF BuiltFor, Needed, BuildKinds
<1>7. /\ live' = live
      /\ staged' = [staged EXCEPT ![r] = With(staged[r], Part(task[t].kind), row[r].md5)]
  BY <1>3, <1>6 DEF Build, Geocode, Part
<1>8. staged'[r] = With(staged[r], Part(task[t].kind), row[r].md5)
      /\ \A q \in Regions : q # r => staged'[q] = staged[q]
  BY <1>3, <1>7
<1>9. staged'[r].here /\ \A p \in Parts :
         staged'[r].has[p] = IF p = Part(task[t].kind) THEN row[r].md5 ELSE staged[r].has[p]
  BY <1>3, <1>8 DEF With, Dir
<1>10. /\ Needed(task[t].kind) \subseteq Parts
       /\ Needed(NextKind(task[t].kind)) \subseteq Needed(task[t].kind) \cup {Part(task[t].kind)}
  BY <1>4 DEF Needed, Parts, BuildKinds, NextKind, Part
<1>11. BuiltFor(r, task[t].kind)' /\ BuiltFor(r, NextKind(task[t].kind))'
  <2>1. \A p \in Needed(task[t].kind) \cup {Part(task[t].kind)} : staged'[r].has[p] = row[r].md5
    <3>1. Part(task[t].kind) \in Parts
      BY DEF Part, Parts
    <3> QED
      BY <1>5, <1>9, <1>10, <3>1 DEF BuiltFor
  <2> QED
    BY <1>1, <1>5, <1>7, <1>9, <1>10, <2>1 DEF BuiltFor
<1>12. staged'[r].has["pbf"] = staged[r].has["pbf"]
  BY <1>6, <1>9 DEF Parts
<1>13. OnlyAt(r) /\ DirsInv(r)' /\ RowInv(r)'
  BY <1>1, <1>3, <1>7, <1>8, <1>12 DEF OnlyAt, DirsInv, RowInv, Whole
<1>14. TaskInv(t, r)'
  BY <1>1, <1>3, <1>4, <1>11 DEF TaskInv, Open, BuildKinds
<1>15. StaysOn(w)
  BY <1>1, GotoStays DEF Pcs, IInv
<1>16. T(w)' = task[t] /\ slot'[w].task = t /\ slot'[w].pc = "enqueue"
  BY <1>1, <1>2, <1>3, <1>15, SameTask DEF Goto
<1>17. HandlerInv(w, r)'
  <2>1. PICK k \in BuildKinds : k = task[t].kind
    BY <1>4
  <2>2. BuiltFor(r, NextKind(k))' /\ T(w)'.kind = k
    BY <1>1, <1>11, <1>16, <2>1
  <2> QED
    BY <1>16, <2>2 DEF HandlerInv, PcsOf, Marked, BuildKinds
<1> QED
  BY <1>1, <1>2, <1>13, <1>14, <1>15, <1>17, OnwardSerial

\* The swap finds .new, or has been here before.
LEMMA SerialStat ==
    ASSUME IInv, IInv', SerialInv, NEW w \in Slots, SwapStat(w)
    PROVE  SerialInv'
<1> USE DEF At, db, disk, queue
<1>1. /\ slot[w].pc = "stat"
      /\ UNCHANGED <<row, job, task, live, staged, client, sched, upstream>>
  BY DEF SwapStat
<1>2. PICK t \in TaskIds, r \in Regions : Works(w, t, r)
  BY <1>1, AtWork
<1>3. /\ T(w) = task[t] /\ slot[w].task = t /\ r = R(w) /\ slot \in [Slots -> Slot]
      /\ TaskInv(t, r) /\ HandlerInv(w, r)
  BY <1>2 DEF Works
<1>4. task[t].kind = "swap" /\ row[r].state = "updating"
  BY <1>1, <1>2, <1>3 DEF Works, HandlerInv, PcsOf, BuildKinds, ChainKinds, Marked, EntryState
<1>5. (BuiltFor(r, "swap") /\ Open(t)) \/ Promoted(r)
  BY <1>3, <1>4 DEF TaskInv
<1>6. /\ BuiltFor(r, "swap") => staged[r].here
      /\ Promoted(r) => ~staged[r].here /\ live[r].has["pbf"] # 0
  BY DEF BuiltFor, Promoted, Whole
<1>7. \/ Goto(w, "archive") /\ BuiltFor(r, "swap") /\ Open(t)
      \/ Goto(w, "finish") /\ Promoted(r)
  BY <1>3, <1>5, <1>6 DEF SwapStat
<1>8. /\ OnlyAt(r) /\ DirsInv(r)' /\ RowInv(r)'
      /\ BuiltFor(r, "swap")' <=> BuiltFor(r, "swap")
      /\ Promoted(r)' <=> Promoted(r)
      /\ Open(t)' <=> Open(t)
  BY <1>1, <1>2, NothingWritten DEF Open
<1>9. StaysOn(w)
  BY <1>7, GotoStays DEF Pcs, IInv
<1>10. /\ T(w)' = task[t] /\ slot'[w].task = t /\ slot'[w].pc \in {"archive", "finish"}
       /\ slot'[w].pc = "archive" => BuiltFor(r, "swap") /\ Open(t)
       /\ slot'[w].pc = "finish" => Promoted(r)
  <2>1. T(w)' = task[t] /\ slot'[w].task = t
    BY <1>1, <1>2, <1>9, SameTask
  <2>2. ASSUME NEW pc, Goto(w, pc) PROVE slot'[w].pc = pc
    BY <1>3, <2>2 DEF Goto, Slot
  <2> QED
    BY <1>7, <2>1, <2>2
<1>11. TaskInv(t, r)'
  BY <1>1, <1>3, <1>4, <1>8 DEF TaskInv, BuildKinds
<1>12. HandlerInv(w, r)'
  BY <1>1, <1>4, <1>8, <1>10 DEF HandlerInv, PcsOf, BuildKinds, EntryState
<1> QED
  BY <1>1, <1>2, <1>8, <1>9, <1>11, <1>12, OnwardSerial

\* The old directory is in the swap's hands.
LEMMA SerialArchive ==
    ASSUME IInv, IInv', SerialInv, NEW w \in Slots, SwapArchive(w)
    PROVE  SerialInv'
<1> USE DEF At, db, disk, queue
<1>1. /\ slot[w].pc = "archive"
      /\ UNCHANGED <<row, job, task, staged, client, sched, upstream>>
  BY DEF SwapArchive
<1>2. PICK t \in TaskIds, r \in Regions : Works(w, t, r)
  BY <1>1, AtWork
<1>3. /\ r \in Regions /\ T(w) = task[t] /\ slot[w].task = t /\ r = R(w)
      /\ slot \in [Slots -> Slot] /\ slot[w] \in Slot /\ live \in [Regions -> Dir] /\ live[r] \in Dir
      /\ TaskInv(t, r) /\ HandlerInv(w, r) /\ DirsInv(r) /\ RowInv(r)
  BY <1>2 DEF Works, IInv, TypeOK
<1>4. /\ slot' = [slot EXCEPT ![w].pc = "promote", ![w].old = live[r]]
      /\ live' = [live EXCEPT ![r] = NoDir]
  BY <1>3 DEF SwapArchive
<1>5. task[t].kind = "swap" /\ row[r].state = "updating"
  BY <1>1, <1>2, <1>3 DEF Works, HandlerInv, PcsOf, BuildKinds, ChainKinds, Marked, EntryState
<1>6. BuiltFor(r, "swap") /\ Open(t)
  BY <1>1, <1>3, <1>5 DEF HandlerInv
<1>7. live'[r] = NoDir /\ \A q \in Regions : q # r => live'[q] = live[q]
  BY <1>3, <1>4
<1>8. NoDir.has["pbf"] = 0 /\ ~NoDir.here
  BY DEF NoDir, Parts
<1>9. upstream[r] \in Nat /\ row[r].md5 \in Nat /\ live[r].has["pbf"] \in Nat
  <2>1. upstream[r] \in Versions /\ row[r] \in Row /\ live[r].has["pbf"] \in Versions
    BY <1>2, <1>3, DirTypes DEF Works
  <2> QED
    BY <2>1, BoundAssumption DEF Versions, Row
<1>10. OnlyAt(r) /\ DirsInv(r)' /\ RowInv(r)'
  BY <1>1, <1>3, <1>5, <1>7, <1>8, <1>9 DEF OnlyAt, DirsInv, RowInv
<1>11. BuiltFor(r, "swap")' /\ Open(t)'
  BY <1>1, <1>6, <1>7, <1>8, <1>9 DEF BuiltFor, Open
<1>12. StaysOn(w)
  BY <1>3, <1>4, GotoWithStays DEF Pcs, IInv
<1>13. /\ T(w)' = task[t] /\ slot'[w].task = t
       /\ slot'[w].pc = "promote" /\ slot'[w].old = live[r]
  <2>1. slot'[w].pc = "promote" /\ slot'[w].old = live[r]
    BY <1>3, <1>4 DEF Slot
  <2> QED
    BY <1>1, <1>2, <1>12, <2>1, SameTask
<1>14. TaskInv(t, r)'
  BY <1>1, <1>5, <1>11 DEF TaskInv, BuildKinds
<1>15. live[r].has["pbf"] <= row[r].md5 /\ (~live[r].here => live[r] = NoDir)
       /\ (live[r].here => CanRemoveHalf \/ Whole(live[r]))
  BY <1>3, <1>6 DEF BuiltFor, DirsInv
<1>16. HandlerInv(w, r)'
  <2>1. Whole(slot'[w].old) <=> Whole(live[r])
    BY <1>13
  <2> QED
    BY <1>1, <1>5, <1>7, <1>8, <1>11, <1>13, <1>15, <2>1
       DEF HandlerInv, PcsOf, BuildKinds, EntryState, CanRemoveHalf
<1> QED
  BY <1>1, <1>2, <1>10, <1>12, <1>14, <1>16, OnwardSerial

\* .new has become the live directory.
LEMMA SerialPromote ==
    ASSUME IInv, IInv', SerialInv, NEW w \in Slots, SwapPromote(w)
    PROVE  SerialInv'
<1> USE DEF At, db, disk, queue
<1>1. /\ slot[w].pc = "promote" /\ Goto(w, "cleanup")
      /\ UNCHANGED <<row, job, task, client, sched, upstream>>
  BY DEF SwapPromote
<1>2. PICK t \in TaskIds, r \in Regions : Works(w, t, r)
  BY <1>1, AtWork
<1>3. /\ r \in Regions /\ T(w) = task[t] /\ slot[w].task = t /\ r = R(w)
      /\ slot \in [Slots -> Slot] /\ live \in [Regions -> Dir] /\ staged \in [Regions -> Dir]
      /\ staged[r] \in Dir
      /\ TaskInv(t, r) /\ HandlerInv(w, r) /\ DirsInv(r) /\ RowInv(r)
  BY <1>2 DEF Works, IInv, TypeOK
<1>4. /\ live'[r] = staged[r] /\ staged'[r] = NoDir
      /\ \A q \in Regions : q # r => live'[q] = live[q] /\ staged'[q] = staged[q]
  BY <1>3 DEF SwapPromote
<1>5. task[t].kind = "swap" /\ row[r].state = "updating"
  BY <1>1, <1>2, <1>3 DEF Works, HandlerInv, PcsOf, BuildKinds, ChainKinds, Marked, EntryState
<1>6. BuiltFor(r, "swap")
  BY <1>1, <1>3, <1>5 DEF TaskInv, HandlerInv, Promoted
<1>7. /\ staged[r].here /\ row[r].md5 # 0
      /\ \A p \in Parts : staged[r].has[p] = row[r].md5
      /\ "pbf" \in Parts
  BY <1>6 DEF BuiltFor, Needed, Parts
<1>8. Whole(staged[r]) /\ staged[r].has["pbf"] = row[r].md5
  BY <1>7 DEF Whole
<1>9. NoDir.has["pbf"] = 0 /\ ~NoDir.here
  BY DEF NoDir, Parts
<1>10. upstream[r] \in Nat
  BY <1>2, BoundAssumption DEF Works, Versions
<1>11. Promoted(r)'
  BY <1>1, <1>4, <1>8, <1>9 DEF Promoted, Whole
<1>12. OnlyAt(r) /\ DirsInv(r)' /\ RowInv(r)'
  <2>1. OnlyAt(r) /\ RowInv(r)'
    BY <1>1, <1>3, <1>4, <1>5 DEF OnlyAt, RowInv
  <2>2. Whole(live[r])' /\ live'[r].here
    BY <1>4, <1>7, <1>8 DEF Whole
  <2> QED
    BY <1>1, <1>3, <1>4, <1>9, <1>10, <2>1, <2>2 DEF DirsInv
<1>13. StaysOn(w)
  BY <1>1, GotoStays DEF Pcs, IInv
<1>14. T(w)' = task[t] /\ slot'[w].task = t /\ slot'[w].pc = "cleanup"
  BY <1>1, <1>2, <1>3, <1>13, SameTask DEF Goto
<1>15. TaskInv(t, r)' /\ HandlerInv(w, r)'
  BY <1>1, <1>5, <1>11, <1>14 DEF TaskInv, HandlerInv, PcsOf, BuildKinds, EntryState
<1> QED
  BY <1>1, <1>2, <1>12, <1>13, <1>15, OnwardSerial

\* The rest of the swap: the region is ready only now.
LEMMA SerialFinish ==
    ASSUME IInv, IInv', SerialInv, NEW w \in Slots, SwapCleanup(w) \/ SwapFinish(w)
    PROVE  SerialInv'
<1> USE DEF At, db, disk, queue
<1>1. /\ slot[w].pc \in {"cleanup", "finish"}
      /\ UNCHANGED <<task, live, staged, client, sched, upstream>>
      /\ job' = job \/ SetJob(T(w).job, "succeeded")
  BY DEF SwapCleanup, SwapFinish
<1>2. PICK t \in TaskIds, r \in Regions : Works(w, t, r)
  BY <1>1, AtWork
<1>3. /\ r \in Regions /\ T(w) = task[t] /\ slot[w].task = t /\ r = R(w)
      /\ slot \in [Slots -> Slot] /\ slot[w] \in Slot /\ row \in [Regions -> Row] /\ row[r] \in Row
      /\ TaskInv(t, r) /\ HandlerInv(w, r) /\ DirsInv(r) /\ RowInv(r)
  BY <1>2 DEF Works, IInv, TypeOK
<1>4. task[t].kind = "swap" /\ row[r].state = "updating" /\ Promoted(r)
  BY <1>1, <1>2, <1>3 DEF Works, HandlerInv, PcsOf, BuildKinds, ChainKinds, Marked, EntryState
<1>5. /\ row'[r].md5 = row[r].md5 /\ row'[r].state \in {row[r].state, "ready"}
      /\ \A q \in Regions : q # r => row'[q] = row[q]
      /\ slot[w].pc = "cleanup" => row' = row
  BY <1>1, <1>3 DEF SwapCleanup, SwapFinish, Row
<1>6. OnlyAt(r) /\ DirsInv(r)' /\ RowInv(r)'
  BY <1>1, <1>3, <1>4, <1>5 DEF OnlyAt, DirsInv, RowInv, Promoted, Whole
<1>7. Promoted(r)'
  BY <1>1, <1>4, <1>5 DEF Promoted, Whole
<1>8. NoDir \in Dir
  BY DirTypes, <1>2 DEF Works
<1>9. StaysOn(w) /\ slot'[w].pc = IF slot[w].pc = "cleanup" THEN "finish" ELSE "combine"
  <2>1. CASE SwapCleanup(w)
    <3>1. slot[w].pc = "cleanup" /\ slot' = [slot EXCEPT ![w].pc = "finish", ![w].old = NoDir]
      BY <2>1 DEF SwapCleanup
    <3>2. slot'[w].pc = "finish"
      BY <1>3, <3>1 DEF Slot
    <3> QED
      BY <1>8, <3>1, <3>2, GotoWithStays DEF Pcs, IInv
  <2>2. CASE SwapFinish(w)
    <3>1. slot[w].pc = "finish" /\ Goto(w, "combine")
      BY <2>2 DEF SwapFinish
    <3>2. slot'[w].pc = "combine"
      BY <1>3, <3>1 DEF Goto, Slot
    <3> QED
      BY <3>1, <3>2, GotoStays DEF Pcs, IInv
  <2> QED
    BY <2>1, <2>2
<1>10. T(w)' = task[t] /\ slot'[w].task = t
  BY <1>1, <1>2, <1>9, SameTask
<1>11. TaskInv(t, r)'
  BY <1>1, <1>4, <1>7 DEF TaskInv, BuildKinds
<1>12. HandlerInv(w, r)'
  BY <1>1, <1>4, <1>5, <1>7, <1>9, <1>10 DEF HandlerInv, PcsOf, BuildKinds, EntryState, Marked
<1> QED
  BY <1>1, <1>2, <1>6, <1>9, <1>11, <1>12, OnwardSerial

\* The combined build gets a task of its own, which is no region's.
LEMMA SerialCombined ==
    ASSUME IInv, IInv', SerialInv, NEW w \in Slots, EnqueueCombined(w)
    PROVE  SerialInv'
<1> USE DEF At, db, disk, queue
<1>1. /\ slot[w].pc = "combine" /\ Goto(w, "ack")
      /\ UNCHANGED <<row, job, live, staged, client, sched, upstream>>
  BY DEF EnqueueCombined
<1>2. PICK t \in TaskIds, r \in Regions : Works(w, t, r)
  BY <1>1, AtWork
<1>3. /\ r \in Regions /\ T(w) = task[t] /\ slot[w].task = t /\ r = R(w) /\ w \in Busy
      /\ slot \in [Slots -> Slot] /\ slot[w] \in Slot /\ task \in [TaskIds -> Task]
      /\ TaskInv(t, r) /\ HandlerInv(w, r) /\ DirsInv(r) /\ RowInv(r) /\ Current(t, r)
  BY <1>2 DEF Works, IInv, TypeOK
<1>4. task[t].kind = "swap" /\ Promoted(r)
  BY <1>1, <1>2, <1>3 DEF Works, HandlerInv, PcsOf, BuildKinds, ChainKinds
<1>5. \/ task' = task
      \/ \E n \in TaskIds, new \in Task :
            /\ task[n].status = "free" /\ new.region = NoRegion /\ new.kind = "combined"
            /\ task' = [task EXCEPT ![n] = new]
  <2>1. CASE Enqueue("combined", NoRegion, 0)
    <3>1. "combined" \in TaskKinds /\ 0 \in 0..MaxJobs /\ TypeOK
      BY BoundAssumption DEF TaskKinds, IInv
    <3>2. \E n \in TaskIds, new \in Task :
             /\ task[n].status = "free"
             /\ new.status = "pending" /\ new.kind = "combined"
             /\ new.region = NoRegion /\ new.job = 0
             /\ task' = [task EXCEPT ![n] = new]
             /\ pending' = Append(pending, n)
      BY ONLY <2>1, <3>1, QueueTypes
    <3> QED
      BY ONLY <3>2
  <2> QED
    BY <2>1 DEF EnqueueCombined
<1>6. task[t].status # "free" /\ t \in TaskIds
  BY <1>2, <1>3, RegionAssumption, TaskJob DEF Current, SerialInv
<1>7. /\ \A u \in TaskIds : task'[u] = task[u]
                            \/ (task'[u].region = NoRegion /\ task'[u].kind = "combined")
      /\ task'[t] = task[t]
  BY <1>3, <1>5, <1>6
<1>8. /\ StaysOn(w) /\ slot'[w].pc = "ack" /\ slot'[w].task = t
  <2>1. StaysOn(w)
    BY <1>1, GotoStays DEF Pcs, IInv
  <2> QED
    BY <1>1, <1>3, <2>1 DEF Goto, StaysOn
<1>9. T(w)' = task[t]
  BY <1>7, <1>8 DEF T
<1>10. Aside(w)
  BY <1>1, <1>3, <1>7, <1>8 DEF Aside, StaysOn, Kept
<1>11. OwnStep(w, t, r)
  <2>1. /\ DirsInv(r)' /\ RowInv(r)'
        /\ Promoted(r)' <=> Promoted(r)
    BY <1>1, <1>2, NothingWritten
  <2>2. TaskInv(t, r)'
    BY <1>1, <1>4, <1>7, <2>1 DEF TaskInv, BuildKinds
  <2>3. HandlerInv(w, r)'
    BY <1>4, <1>8, <1>9, <2>1 DEF HandlerInv, PcsOf, BuildKinds, Marked
  <2> QED
    BY <1>7, <2>1, <2>2, <2>3 DEF OwnStep
<1>12. CombinedHasNoRegion'
  BY <1>7 DEF SerialInv, CombinedHasNoRegion
<1> QED
  BY <1>3, <1>10, <1>11, <1>12, OwnSerial

\* A deletion empties the directories, one after the other.
LEMMA SerialDelete ==
    ASSUME IInv, IInv', SerialInv, NEW w \in Slots,
           DeleteLive(w) \/ DeleteNew(w) \/ (DeletePurge(w) /\ Goto(w, "finish_delete"))
    PROVE  SerialInv'
<1> USE DEF At, db, disk, queue
<1>1. /\ slot[w].pc \in {"rmlive", "rmnew", "purge"}
      /\ UNCHANGED <<row, job, task, client, sched, upstream>>
      /\ \E pc \in {"rmnew", "purge", "finish_delete"} : Goto(w, pc)
  BY DEF DeleteLive, DeleteNew, DeletePurge
<1>2. PICK t \in TaskIds, r \in Regions : Works(w, t, r)
  BY <1>1, AtWork
<1>3. /\ r \in Regions /\ T(w) = task[t] /\ slot[w].task = t /\ r = R(w)
      /\ slot \in [Slots -> Slot] /\ live \in [Regions -> Dir] /\ staged \in [Regions -> Dir]
      /\ TaskInv(t, r) /\ HandlerInv(w, r) /\ DirsInv(r) /\ RowInv(r)
  BY <1>2 DEF Works, IInv, TypeOK
<1>4. task[t].kind = "delete" /\ row[r].state # "ready"
  BY <1>1, <1>2, <1>3 DEF Works, HandlerInv, TaskInv, PcsOf, BuildKinds, ChainKinds
<1>5. /\ live'[r] \in {live[r], NoDir} /\ staged'[r] \in {staged[r], NoDir}
      /\ \A q \in Regions : q # r => live'[q] = live[q] /\ staged'[q] = staged[q]
  BY <1>3 DEF DeleteLive, DeleteNew, DeletePurge
<1>6. NoDir.has["pbf"] = 0 /\ ~NoDir.here /\ upstream[r] \in Nat
  BY <1>2, BoundAssumption DEF NoDir, Parts, Works, Versions
<1>7. OnlyAt(r) /\ DirsInv(r)' /\ RowInv(r)'
  BY <1>1, <1>3, <1>4, <1>5, <1>6 DEF OnlyAt, DirsInv, RowInv, CanRemoveHalf, Whole
<1>8. PICK pc \in {"rmnew", "purge", "finish_delete"} : Goto(w, pc)
  BY <1>1
<1>9. StaysOn(w)
  BY <1>8, GotoStays DEF Pcs, IInv
<1>10. T(w)' = task[t] /\ slot'[w].task = t /\ slot'[w].pc = pc
  <2>1. T(w)' = task[t] /\ slot'[w].task = t
    BY <1>1, <1>2, <1>9, SameTask
  <2> QED
    BY <1>3, <1>8, <2>1 DEF Goto, Slot
<1>11. TaskInv(t, r)' /\ HandlerInv(w, r)'
  BY <1>1, <1>3, <1>4, <1>10 DEF TaskInv, HandlerInv, Open, PcsOf, BuildKinds, ChainKinds, Marked
<1> QED
  BY <1>1, <1>2, <1>7, <1>9, <1>11, OnwardSerial

\* With its job closed the deletion is done with the region.
LEMMA SerialDeleteFinish ==
    ASSUME IInv, IInv', SerialInv, NEW w \in Slots, DeleteFinish(w)
    PROVE  SerialInv'
<1> USE DEF At, db, disk, queue
<1>1. /\ slot[w].pc = "finish_delete" /\ Goto(w, "ack") /\ SetJob(T(w).job, "succeeded")
      /\ UNCHANGED <<task, live, staged, client, sched, upstream>>
  BY DEF DeleteFinish
<1>2. PICK t \in TaskIds, r \in Regions : Works(w, t, r)
  BY <1>1, AtWork
<1>3. /\ r \in Regions /\ T(w) = task[t] /\ slot[w].task = t /\ r = R(w)
      /\ slot \in [Slots -> Slot] /\ row \in [Regions -> Row] /\ row[r] \in Row
      /\ TaskInv(t, r) /\ HandlerInv(w, r) /\ DirsInv(r) /\ RowInv(r)
  BY <1>2 DEF Works, IInv, TypeOK
<1>4. task[t].kind = "delete"
  BY <1>1, <1>2, <1>3 DEF Works, HandlerInv, TaskInv, PcsOf, BuildKinds, ChainKinds
<1>5. /\ row'[r].md5 = row[r].md5 /\ row'[r].state = row[r].state
      /\ \A q \in Regions : q # r => row'[q] = row[q]
  BY <1>3 DEF DeleteFinish, Row
<1>6. OnlyAt(r) /\ DirsInv(r)' /\ RowInv(r)'
  BY <1>1, <1>3, <1>5 DEF OnlyAt, DirsInv, RowInv, Whole
<1>7. StaysOn(w)
  BY <1>1, GotoStays DEF Pcs, IInv
<1>8. T(w)' = task[t] /\ slot'[w].task = t /\ slot'[w].pc = "ack"
  BY <1>1, <1>2, <1>3, <1>7, SameTask DEF Goto
<1>9. Done(t)'
  BY <1>1, <1>4, <1>8 DEF Done, Busy
<1> QED
  BY <1>1, <1>2, <1>6, <1>7, <1>9, OnwardSerial

\* markFailed: the row, the job and the end of this attempt.
LEMMA SerialMarkFailed ==
    ASSUME IInv, IInv', SerialInv, NEW w \in Slots, MarkFailed(w)
    PROVE  SerialInv'
<1> USE DEF At, db, disk, queue
<1>1. /\ slot[w].pc = "fail" /\ SetJob(T(w).job, "failed") /\ ReturnError(w)
      /\ T(w).kind \in {"install", "update", "delete"}
      /\ row' = [row EXCEPT ![R(w)].state = "failed"]
      /\ UNCHANGED <<live, staged, client, sched, upstream>>
  BY DEF MarkFailed
<1>2. PICK t \in TaskIds, r \in Regions : Works(w, t, r)
  BY <1>1, AtWork
<1>3. /\ r \in Regions /\ T(w) = task[t] /\ slot[w].task = t /\ r = R(w) /\ w \in Busy
      /\ slot \in [Slots -> Slot] /\ row \in [Regions -> Row] /\ row[r] \in Row
      /\ TaskInv(t, r) /\ DirsInv(r) /\ RowInv(r) /\ Current(t, r)
  BY <1>2 DEF Works, IInv, TypeOK
<1>4. Settled(w)
  BY <1>1, SettleTypes
<1>5. /\ slot' = [slot EXCEPT ![w] = Idle]
      /\ \A u \in TaskIds : u # t => task'[u] = task[u]
      /\ task'[t] = NoTask \/ Kept(t)
  BY <1>1, <1>3, <1>4, SettledTask
<1>6. slot'[w] = Idle /\ Idle.pc = "idle"
  BY <1>3, <1>5 DEF Idle
<1>7. /\ row'[r].md5 = row[r].md5 /\ row'[r].state = "failed"
      /\ \A q \in Regions : q # r => row'[q] = row[q]
  BY <1>1, <1>3 DEF Row
<1>8. \A j \in JobIds : job'[j].state = "succeeded" => job[j].state = "succeeded"
  BY <1>1 DEF SetJob, IInv, TypeOK, Job
<1>9. Aside(w)
  BY <1>1, <1>3, <1>5, <1>6, <1>7, <1>8 DEF Aside
<1>10. CombinedHasNoRegion'
  BY <1>5 DEF SerialInv, CombinedHasNoRegion, Kept, NoTask
<1>11. OwnStep(w, t, r)
  <2>1. DirsInv(r)' /\ RowInv(r)'
    BY <1>1, <1>3, <1>7 DEF DirsInv, RowInv, Whole
  <2>2. ASSUME task'[t] # NoTask PROVE TaskInv(t, r)'
    <3>1. task'[t].kind = task[t].kind /\ task'[t].job = task[t].job
      BY <1>5, <2>2 DEF Kept
    <3>2. task[t].job \in JobIds
      BY <1>2, <1>3, TaskJob DEF Current, SerialInv
    <3>3. Open(t)'
      BY <1>1, <1>3, <1>8, <3>1, <3>2 DEF Open, TaskInv
    <3> QED
      BY <1>1, <1>3, <1>7, <3>1, <3>3 DEF TaskInv, BuildKinds
  <2> QED
    BY <1>5, <1>6, <2>1, <2>2 DEF OwnStep
<1> QED
  BY <1>3, <1>9, <1>10, <1>11, OwnSerial

-----------------------------------------------------------------------------
(* A new task, and the first step of its handler.                          *)

\* A task that is enqueued is the only one that works on its region.
LEMMA Enqueued ==
    ASSUME IInv, IInv', SerialInv, NEW r \in Regions, NEW n \in TaskIds,
           task'[n].status = "pending", task'[n].region = r, task'[n].kind # "combined",
           \A u \in TaskIds : u # n => task'[u] = task[u],
           UNCHANGED <<row, job, live, staged, upstream>>,
           \A u \in TaskIds : u # n => /\ ~Current(u, r)'
                                       /\ task[u].region # r => (Done(u)' <=> Done(u)),
           \A c \in Clients : client'[c] = client[c] \/ client'[c].region = NoRegion,
           sched' = sched \/ sched'.region = NoRegion,
           sched'.region # r /\ \A c \in Clients : client'[c].region # r,
           \A v \in Slots : slot'[v] = slot[v] \/ T(v)'.region = r,
           TaskInv(n, r)'
    PROVE  SerialInv'
<1>1. CombinedHasNoRegion'
  BY DEF SerialInv, CombinedHasNoRegion
<1>2. upstream[r] \in Nat /\ \A q \in Regions : upstream[q] <= upstream'[q]
  BY BoundAssumption DEF IInv, TypeOK, Versions
<1>3. ASSUME NEW q \in Regions, q # r PROVE RegionInv(q)'
  <2>1. ASSUME NEW u \in TaskIds, task'[u].region = q
        PROVE  u # n /\ task'[u] = task[u] /\ (Done(u)' <=> Done(u))
    BY <1>3, <2>1
  <2>2. \A v \in Slots : T(v)'.region = q => slot'[v] = slot[v]
    BY <1>3
  <2>3. \A c \in Clients : client'[c].region = q => client'[c] = client[c]
    BY RegionAssumption
  <2>4. sched'.region = q => sched.region = q
    BY RegionAssumption
  <2>5. Apart(q)
    BY <1>2, <2>1, <2>2, <2>3, <2>4 DEF Apart, Kept
  <2> QED
    BY <2>5, Elsewhere DEF SerialInv
<1>4. RegionInv(r)'
  <2>1. DirsInv(r) /\ RowInv(r)
    BY DEF SerialInv, RegionInv
  <2>2. DirsInv(r)' /\ RowInv(r)'
    BY <2>1 DEF DirsInv, RowInv, Whole
  <2>3. Exclusive(r)' /\ RequestInv(r)'
    <3>1. \A u \in TaskIds : Current(u, r)' => u = n
      OBVIOUS
    <3> QED
      BY <3>1 DEF Exclusive, RequestInv
  <2>4. ASSUME NEW v \in Busy', Current(slot[v].task, r)' PROVE FALSE
    <3>1. slot'[v].task \in TaskIds /\ task'[slot'[v].task].status = "active"
      BY <2>4 DEF IInv, BookkeepingInv, ActiveOnOneSlot
    <3>2. slot'[v].task = n
      BY <2>4, <3>1
    <3> QED
      BY <3>1, <3>2
  <2>5. \A u \in TaskIds : Current(u, r)' => TaskInv(u, r)'
    <3> SUFFICES ASSUME NEW u \in TaskIds, Current(u, r)' PROVE TaskInv(u, r)'
      OBVIOUS
    <3>1. u = n
      OBVIOUS
    <3> QED
      BY <3>1
  <2> QED
    BY <2>2, <2>3, <2>4, <2>5 DEF RegionInv
<1> QED
  BY <1>1, <1>3, <1>4 DEF SerialInv

\* The chain goes on with the next stage, on the same region and job.
LEMMA SerialEnqueueNext ==
    ASSUME IInv, IInv', SerialInv, NEW w \in Slots, EnqueueNext(w)
    PROVE  SerialInv'
<1> USE DEF At, db, disk, queue
<1>1. /\ slot[w].pc = "enqueue" /\ Goto(w, "ack")
      /\ UNCHANGED <<row, job, live, staged, client, sched, upstream>>
  BY DEF EnqueueNext
<1>2. PICK t \in TaskIds, r \in Regions : Works(w, t, r)
  BY <1>1, AtWork
<1>3. /\ T(w) = task[t] /\ slot[w].task = t /\ r = R(w) /\ w \in Busy
      /\ slot \in [Slots -> Slot] /\ slot[w] \in Slot /\ task \in [TaskIds -> Task]
      /\ TaskInv(t, r) /\ HandlerInv(w, r) /\ Current(t, r)
  BY <1>2 DEF Works, IInv, TypeOK
<1>4. PICK k : k = task[t].kind
  OBVIOUS
<1>5. /\ k \in {"install", "update"} \cup BuildKinds
      /\ BuiltFor(r, NextKind(k)) /\ Open(t)
  BY <1>1, <1>2, <1>3, <1>4 DEF Works, HandlerInv, TaskInv, PcsOf, BuildKinds, ChainKinds
<1>6. /\ NextKind(k) \in BuildKinds \cup {"swap"} /\ NextKind(k) \in TaskKinds
      /\ task[t].job \in 0..MaxJobs
  BY <1>3, <1>5 DEF NextKind, BuildKinds, TaskKinds, ChainKinds, Task
<1>7. PICK n \in TaskIds, new \in Task :
         /\ task[n].status = "free"
         /\ new.status = "pending" /\ new.kind = NextKind(k) /\ new.region = r
         /\ new.job = task[t].job
         /\ task' = [task EXCEPT ![n] = new]
  <2>1. Enqueue(NextKind(k), r, task[t].job)
    BY <1>3, <1>4 DEF EnqueueNext
  <2> QED
    BY <1>6, <2>1, QueueTypes DEF IInv
<1>8. task[t].region = r
  BY <1>3 DEF Current
<1>9. t # n
  BY <1>7, <1>8, TaskJob DEF SerialInv
<1>10. task'[n] = new /\ \A u \in TaskIds : u # n => task'[u] = task[u]
  BY <1>3, <1>7
<1>11. StaysOn(w) /\ slot'[w].pc = "ack" /\ slot'[w].task = t
  <2>1. StaysOn(w)
    BY <1>1, GotoStays DEF Pcs, IInv
  <2> QED
    BY <1>1, <1>3, <2>1 DEF Goto, StaysOn
<1>12. Aside(w)
  BY <1>1, <1>3, <1>7, <1>9, <1>10, <1>11 DEF Aside, StaysOn, Kept
<1>13. T(w)' = task[t] /\ task'[t] = task[t]
  BY <1>9, <1>10, <1>11 DEF T
<1>14. Done(t)'
  BY <1>5, <1>4, <1>11, <1>13 DEF Done, Busy, BuildKinds
<1>15. ASSUME NEW u \in TaskIds, u # n
       PROVE  /\ ~Current(u, r)'
              /\ task[u].region # r => (Done(u)' <=> Done(u))
  <2>1. CASE u = t
    BY <1>8, <1>14, <2>1 DEF Current
  <2>2. CASE u # t
    <3>1. Done(u)' <=> Done(u)
      BY <1>3, <1>10, <1>12, <1>15, <2>2, DoneElsewhere
    <3>2. ~Current(u, r)
      BY <1>3, <2>2 DEF SerialInv, RegionInv, Exclusive
    <3> QED
      BY <1>10, <1>15, <3>1, <3>2 DEF Current
  <2> QED
    BY <2>1, <2>2
<1>16. sched'.region # r /\ \A c \in Clients : client'[c].region # r
  BY <1>1, <1>8 DEF SerialInv, RegionInv, Exclusive
<1>17. \A v \in Slots : slot'[v] = slot[v] \/ T(v)'.region = r
  BY <1>3, <1>8, <1>11, <1>13 DEF StaysOn
<1>18. TaskInv(n, r)'
  <2>1. task'[n].kind = NextKind(k) /\ task'[n].job = task[t].job
    BY <1>7, <1>10
  <2>2. Open(n)'
    BY <1>1, <1>5, <2>1 DEF Open
  <2>3. PICK m \in BuildKinds \cup {"swap"} : m = NextKind(k)
    BY <1>6
  <2>4. BuiltFor(r, m)' /\ task'[n].kind = m
    BY <1>1, <1>5, <2>1, <2>3 DEF BuiltFor
  <2> QED
    BY <2>2, <2>3, <2>4 DEF TaskInv, BuildKinds
<1>19. task'[n].status = "pending" /\ task'[n].region = r /\ task'[n].kind # "combined"
  BY <1>6, <1>7, <1>10 DEF BuildKinds
<1> QED
  BY <1>1, <1>10, <1>15, <1>16, <1>17, <1>18, <1>19, Enqueued

\* The first task of a request or of a tick.
LEMMA FirstTask ==
    ASSUME IInv, IInv', SerialInv, NEW k \in JobKinds, NEW r \in Regions, NEW j \in JobIds,
           Enqueue(k, r, j), job[j].state = "queued", k = "delete" => row[r].state = "archived",
           UNCHANGED <<row, job, live, staged, upstream, slot>>,
           \A u \in TaskIds : task[u].region # r,
           \A c \in Clients : client'[c] = client[c] \/ client'[c].region = NoRegion,
           sched' = sched \/ sched'.region = NoRegion,
           sched'.region # r /\ \A c \in Clients : client'[c].region # r
    PROVE  SerialInv'
<1>1. k \in TaskKinds \ {"combined"} /\ k \notin BuildKinds \cup {"swap"} /\ j \in 0..MaxJobs
  BY BoundAssumption DEF JobKinds, TaskKinds, ChainKinds, BuildKinds, JobIds
<1>2. PICK n \in TaskIds, new \in Task :
         /\ task[n].status = "free"
         /\ new.status = "pending" /\ new.kind = k /\ new.region = r /\ new.job = j
         /\ task' = [task EXCEPT ![n] = new]
  BY <1>1, QueueTypes DEF IInv
<1>3. task'[n] = new /\ \A u \in TaskIds : u # n => task'[u] = task[u]
  BY <1>2 DEF IInv, TypeOK
<1>4. \A v \in Busy : slot[v].task \in TaskIds /\ slot[v].task # n
  BY <1>2 DEF IInv, BookkeepingInv, ActiveOnOneSlot
<1>5. \A u \in TaskIds : u # n => (Done(u)' <=> Done(u))
  BY <1>3, <1>4 DEF Done, Busy, At
<1>6. \A u \in TaskIds : u # n => ~Current(u, r)'
  BY <1>3 DEF Current
<1>7. TaskInv(n, r)'
  BY <1>1, <1>2, <1>3 DEF TaskInv, Open
<1>8. \A v \in Slots : slot'[v] = slot[v]
  OBVIOUS
<1> QED
  BY <1>1, <1>2, <1>3, <1>5, <1>6, <1>7, <1>8, Enqueued

LEMMA SerialFirstTasks ==
    ASSUME IInv, IInv', SerialInv,
           (\E c \in Clients : EnqueueRequest(c)) \/ TickEnqueue
    PROVE  SerialInv'
<1> USE DEF db, disk
<1>1. CASE \E c \in Clients : EnqueueRequest(c)
  <2>1. PICK c \in Clients : EnqueueRequest(c)
    BY <1>1
  <2>2. PICK r, j, k : r = client[c].region /\ j = client[c].job /\ k = client[c].kind
    OBVIOUS
  <2>3. /\ client[c].pc = "enqueue" /\ Enqueue(k, r, j)
        /\ client' = [client EXCEPT ![c] = NoRequest]
        /\ UNCHANGED <<row, job, slot, sched, live, staged, upstream>>
    BY <2>1, <2>2 DEF EnqueueRequest
  <2>4. client \in [Clients -> ClientState] /\ k \in JobKinds
    BY <2>2 DEF IInv, TypeOK, ClientState
  <2>5. r \in Regions /\ j \in JobIds /\ job[j].state = "queued"
    BY <2>2, <2>3 DEF IInv, BookkeepingInv, RequestsBacked
  <2>6. Exclusive(r) /\ RequestInv(r)
    BY <2>5 DEF SerialInv, RegionInv
  <2>7. \A u \in TaskIds : task[u].region # r
    BY <2>2, <2>6 DEF Exclusive
  <2>8. k = "delete" => row[r].state = "archived"
    BY <2>2, <2>6 DEF RequestInv
  <2>9. client'[c] = NoRequest /\ \A d \in Clients : d # c => client'[d] = client[d]
    BY <2>3, <2>4
  <2>10. \A d \in Clients : client'[d] = client[d] \/ client'[d].region = NoRegion
    BY <2>9 DEF NoRequest
  <2>11. sched'.region # r /\ \A d \in Clients : client'[d].region # r
    BY <2>2, <2>3, <2>5, <2>6, <2>9, RegionAssumption DEF Exclusive, NoRequest
  <2> QED
    BY <2>3, <2>4, <2>5, <2>7, <2>8, <2>10, <2>11, FirstTask
<1>2. CASE TickEnqueue
  <2>1. PICK r, j : r = sched.region /\ j = sched.job
    OBVIOUS
  <2>2. /\ sched.pc = "enqueue" /\ Enqueue("update", r, j) /\ sched' = NoTick
        /\ UNCHANGED <<row, job, slot, client, live, staged, upstream>>
    BY <1>2, <2>1 DEF TickEnqueue
  <2>3. r \in Regions /\ j \in JobIds /\ job[j].state = "queued" /\ "update" \in JobKinds
    BY <2>1, <2>2 DEF IInv, BookkeepingInv, TickBacked, JobKinds
  <2>4. Exclusive(r)
    BY <2>3 DEF SerialInv, RegionInv
  <2>5. \A u \in TaskIds : task[u].region # r
    BY <2>1, <2>4 DEF Exclusive
  <2>6. sched'.region = NoRegion /\ sched'.region # r /\ \A d \in Clients : client'[d].region # r
    BY <2>1, <2>2, <2>3, <2>4, RegionAssumption DEF Exclusive, NoTick
  <2> QED
    BY <2>2, <2>3, <2>5, <2>6, FirstTask
<1> QED
  BY <1>1, <1>2

-----------------------------------------------------------------------------
(* Asynq.                                                                  *)

\* A task that is taken, retried or settled by a crash is the same task.
LEMMA SerialTake ==
    ASSUME IInv, IInv', SerialInv, NEW w \in Slots, Take(w)
    PROVE  SerialInv'
<1> USE DEF db, disk
<1>1. PICK t : t = Head(pending)
  OBVIOUS
<1>2. /\ slot[w].pc = "idle" /\ pending # <<>>
      /\ task' = [task EXCEPT ![t].status = "active"]
      /\ slot' = [slot EXCEPT ![w] = [Idle EXCEPT !.pc = FirstPc(task[t].kind), !.task = t]]
      /\ UNCHANGED <<row, job, client, sched, live, staged, upstream>>
  BY <1>1 DEF Take
<1>3. t \in TaskIds /\ pending \in Seq(TaskIds)
  BY <1>1, <1>2 DEF IInv, TypeOK
<1>4. /\ task \in [TaskIds -> Task] /\ task[t] \in Task /\ task[t].kind \in TaskKinds
      /\ slot \in [Slots -> Slot]
  BY <1>3 DEF IInv, TypeOK, Task
<1>5. \A u \in TaskIds : Kept(u)
  BY <1>2, <1>4 DEF Kept, Task
<1>6. /\ slot'[w].pc = FirstPc(task[t].kind) /\ slot'[w].task = t
      /\ \A v \in Slots : v # w => slot'[v] = slot[v]
  BY <1>2, <1>4 DEF Idle
<1>7. FirstPc(task[t].kind) # "ack"
  BY <1>4 DEF FirstPc, TaskKinds, ChainKinds, BuildKinds
<1>8. \A u \in TaskIds : Done(u)' <=> Done(u)
  BY <1>2, <1>5, <1>6, <1>7 DEF Done, Busy, At, Kept
<1>9. CombinedHasNoRegion'
  BY <1>5 DEF SerialInv, CombinedHasNoRegion, Kept
<1>10. T(w)'.kind = task[t].kind
  BY <1>3, <1>5, <1>6 DEF T, Kept
<1>11. ASSUME NEW r \in Regions PROVE Apart(r)
  <2>1. upstream[r] <= upstream'[r]
    BY <1>2, BoundAssumption DEF IInv, TypeOK, Versions
  <2>2. \A v \in Slots : slot'[v] = slot[v] \/ slot'[v].pc = FirstPc(T(v)'.kind)
    BY <1>6, <1>10
  <2> QED
    BY <1>2, <1>5, <1>8, <2>1, <2>2 DEF Apart
<1> QED
  BY <1>9, <1>11, ApartSerial

LEMMA SerialDue ==
    ASSUME IInv, IInv', SerialInv, NEW t \in TaskIds, RetryDue(t)
    PROVE  SerialInv'
<1> USE DEF db, disk
<1>1. /\ task' = [task EXCEPT ![t].status = "pending"]
      /\ UNCHANGED <<row, job, slot, client, sched, live, staged, upstream>>
  BY DEF RetryDue
<1>2. task \in [TaskIds -> Task]
  BY DEF IInv, TypeOK
<1>3. \A u \in TaskIds : Kept(u)
  BY <1>1, <1>2 DEF Kept, Task
<1>4. \A u \in TaskIds : Done(u)' <=> Done(u)
  BY <1>1, <1>3 DEF Done, Busy, At, Kept
<1>5. CombinedHasNoRegion'
  BY <1>3 DEF SerialInv, CombinedHasNoRegion, Kept
<1>6. ASSUME NEW r \in Regions PROVE Apart(r)
  <2>1. upstream[r] <= upstream'[r]
    BY <1>1, BoundAssumption DEF IInv, TypeOK, Versions
  <2> QED
    BY <1>1, <1>3, <1>4, <2>1 DEF Apart
<1> QED
  BY <1>5, <1>6, ApartSerial

\* The worker does not die in a handler that has ended, so that no task that has
\* handed over comes back.  All the others are run again on what they find.
LEMMA SerialCrash ==
    ASSUME SerialAssumption, IInv, IInv', SerialInv, WorkerCrash
    PROVE  SerialInv'
<1> USE DEF db, disk
<1>1. /\ task' = [t \in TaskIds |-> IF task[t].status = "active" THEN Failed(t) ELSE task[t]]
      /\ slot' = [w \in Slots |-> Idle] /\ sched' = NoTick
      /\ \A w \in Busy : ~HasEnded(w)
      /\ UNCHANGED <<row, job, client, live, staged, upstream>>
  BY DEF WorkerCrash, SerialAssumption
<1>2. \A t \in TaskIds : task[t] \in Task
  BY DEF IInv, TypeOK
<1>3. \A t \in TaskIds : Failed(t) = NoTask \/ (/\ Failed(t).kind = task[t].kind
                                                /\ Failed(t).region = task[t].region
                                                /\ Failed(t).job = task[t].job)
  BY <1>2 DEF Failed, Task
<1>4. \A t \in TaskIds : task'[t] = NoTask \/ Kept(t)
  BY <1>1, <1>3 DEF Kept
<1>5. \A t \in TaskIds : ~Done(t) /\ ~Done(t)'
  <2>1. \A t \in TaskIds : ~Done(t)
    BY <1>1 DEF Done, HasEnded, At
  <2>2. \A w \in Slots : slot'[w].pc = "idle"
    BY <1>1 DEF Idle
  <2> QED
    BY <2>1, <2>2 DEF Done, Busy
<1>6. CombinedHasNoRegion'
  BY <1>4 DEF SerialInv, CombinedHasNoRegion, Kept, NoTask
<1>7. ASSUME NEW r \in Regions PROVE Apart(r)
  <2>1. upstream[r] <= upstream'[r]
    BY <1>1, BoundAssumption DEF IInv, TypeOK, Versions
  <2>2. \A t \in TaskIds : task'[t].region = r => Kept(t)
    BY <1>4, RegionAssumption DEF NoTask
  <2>3. sched'.region # r
    BY <1>1, RegionAssumption DEF NoTick
  <2>4. \A w \in Slots : slot'[w].pc = "idle"
    BY <1>1 DEF Idle
  <2> QED
    BY <1>1, <1>5, <2>1, <2>2, <2>3, <2>4 DEF Apart
<1> QED
  BY <1>6, <1>7, ApartSerial

-----------------------------------------------------------------------------
(* Requests, the scheduler and the mirror.                                 *)

\* A request or a tick turns to a region that no task works on.
LEMMA Asked ==
    ASSUME IInv, IInv', SerialInv, NEW r \in Regions, \A u \in TaskIds : task[u].region # r,
           UNCHANGED <<task, slot, live, staged, upstream>>,
           \A q \in Regions : q # r => row'[q] = row[q],
           \A c \in Clients : client'[c] = client[c] \/ client'[c].region = r,
           sched' = sched \/ sched'.region = r,
           \A c, d \in Clients : client'[c].region = r /\ client'[d].region = r => c = d,
           \A c \in Clients : client'[c].region = r => sched'.region # r,
           \A j \in JobIds : job'[j].state = "succeeded" => job[j].state = "succeeded",
           RequestInv(r)', RowInv(r)'
    PROVE  SerialInv'
<1>1. CombinedHasNoRegion'
  BY DEF SerialInv, CombinedHasNoRegion
<1>2. \A q \in Regions : upstream[q] <= upstream'[q]
  BY BoundAssumption DEF IInv, TypeOK, Versions
<1>3. \A u \in TaskIds : Done(u)' <=> Done(u)
  BY DEF Done, Busy, At
<1>4. \A q \in Regions, u \in TaskIds : task[u].region = q => task[u].job \in JobIds
  BY TaskJob DEF SerialInv
<1>5. ASSUME NEW q \in Regions, q # r PROVE RegionInv(q)'
  <2>1. Apart(q)
    BY <1>2, <1>3, <1>4, <1>5 DEF Apart, Kept
  <2> QED
    BY <2>1, Elsewhere DEF SerialInv
<1>6. RegionInv(r)'
  <2>1. DirsInv(r)'
    <3>1. DirsInv(r)
      BY DEF SerialInv, RegionInv
    <3> QED
      BY <3>1 DEF DirsInv, Whole, CanRemoveHalf
  <2>2. Exclusive(r)'
    BY DEF Exclusive, Current
  <2>3. \A u \in TaskIds : ~Current(u, r)'
    BY DEF Current
  <2>4. \A v \in Busy' : ~Current(slot[v].task, r)'
    BY DEF Current, IInv, BookkeepingInv, ActiveOnOneSlot
  <2> QED
    BY <2>1, <2>2, <2>3, <2>4 DEF RegionInv
<1> QED
  BY <1>1, <1>5, <1>6 DEF SerialInv

LEMMA SerialRequests ==
    ASSUME SerialAssumption, IInv, IInv', SerialInv, NEW c \in Clients, NEW r \in Regions,
           Install(c, r) \/ UpdateCheck(c, r) \/ Delete(c, r)
    PROVE  SerialInv'
<1> USE DEF db, queue, disk
<1>1. Quiet(r) /\ UNCHANGED <<task, slot, sched, live, staged, upstream>>
  BY DEF SerialAssumption, MayRequest, Install, UpdateCheck, Delete
<1>2. PICK j \in JobIds, pc \in {"commit_update", "enqueue"}, k \in {"install", "update", "delete"} :
         /\ Request(c, pc, k, r, j)
         /\ job' = job \/ job' = [job EXCEPT ![j] = [state |-> "queued", kind |-> k, region |-> r]]
         /\ \/ row' = row /\ pc = "commit_update" /\ k = "update"
            \/ /\ pc = "enqueue" /\ k = "install"
               /\ row' = [row EXCEPT ![r].state = "downloading", ![r].job = j]
            \/ /\ pc = "enqueue" /\ k = "delete"
               /\ row' = [row EXCEPT ![r].state = "archived", ![r].job = j]
  <2>1. CASE Install(c, r)
    BY <2>1 DEF Install, InsertJob
  <2>2. CASE UpdateCheck(c, r)
    BY <2>2 DEF UpdateCheck
  <2>3. CASE Delete(c, r)
    BY <2>3 DEF Delete, InsertJob
  <2> QED
    BY <2>1, <2>2, <2>3
<1>3. /\ client'[c] = [pc |-> pc, kind |-> k, region |-> r, job |-> j]
      /\ \A d \in Clients : d # c => client'[d] = client[d]
  BY <1>2 DEF Request, IInv, TypeOK
<1>4. row \in [Regions -> Row] /\ row[r] \in Row /\ RowInv(r)
  BY DEF IInv, TypeOK, SerialInv, RegionInv
<1>5. /\ \A q \in Regions : q # r => row'[q] = row[q]
      /\ row' = row \/ row'[r].state = IF k = "install" THEN "downloading" ELSE "archived"
      /\ k = "delete" => row'[r].state = "archived"
  BY <1>2, <1>4 DEF Row
<1>6. RowInv(r)'
  BY <1>1, <1>4, <1>5 DEF RowInv, Whole
<1>7. RequestInv(r)'
  BY <1>1, <1>2, <1>3, <1>5 DEF RequestInv, Quiet
<1>8. \A i \in JobIds : job'[i].state = "succeeded" => job[i].state = "succeeded"
  BY <1>2 DEF IInv, TypeOK
<1>9. /\ \A u \in TaskIds : task[u].region # r
      /\ \A d \in Clients : client'[d].region = r => d = c
      /\ sched'.region # r
  BY <1>1, <1>3 DEF Quiet
<1> QED
  BY <1>1, <1>3, <1>5, <1>6, <1>7, <1>8, <1>9, Asked

LEMMA SerialCommit ==
    ASSUME IInv, IInv', SerialInv, NEW c \in Clients, UpdateCommit(c)
    PROVE  SerialInv'
<1> USE DEF queue, disk
<1>1. PICK r, j : r = client[c].region /\ j = client[c].job
  OBVIOUS
<1>2. /\ client[c].pc = "commit_update" /\ InsertJob(j, "update", r)
      /\ row' = [row EXCEPT ![r].state = "updating", ![r].job = j]
      /\ client' = [client EXCEPT ![c].pc = "enqueue"]
      /\ UNCHANGED <<task, slot, sched, live, staged, upstream>>
  BY <1>1 DEF UpdateCommit
<1>3. r \in Regions /\ j \in JobIds
  BY <1>1, <1>2 DEF IInv, BookkeepingInv, RequestsBacked
<1>4. /\ row \in [Regions -> Row] /\ row[r] \in Row
      /\ client \in [Clients -> ClientState] /\ client[c] \in ClientState
  BY <1>3 DEF IInv, TypeOK
<1>5. row'[r].state = "updating" /\ \A q \in Regions : q # r => row'[q] = row[q]
  BY <1>2, <1>3, <1>4 DEF Row
<1>6. /\ client'[c].pc = "enqueue" /\ client'[c].region = r /\ client'[c].kind = client[c].kind
      /\ \A d \in Clients : d # c => client'[d] = client[d]
  BY <1>1, <1>2, <1>4 DEF ClientState
<1>7. Exclusive(r) /\ RequestInv(r)
  BY <1>3 DEF SerialInv, RegionInv
<1>8. \A d \in Clients : client'[d].region = r <=> d = c
  BY <1>1, <1>6, <1>7 DEF Exclusive
<1>9. RequestInv(r)' /\ RowInv(r)'
  BY <1>1, <1>2, <1>5, <1>6, <1>7, <1>8 DEF RequestInv, RowInv
<1>10. \A i \in JobIds : job'[i].state = "succeeded" => job[i].state = "succeeded"
  BY <1>2 DEF InsertJob, IInv, TypeOK
<1>11. sched'.region # r /\ \A u \in TaskIds : task[u].region # r
  BY <1>1, <1>2, <1>7 DEF Exclusive
<1>12. /\ \A d \in Clients : client'[d] = client[d] \/ client'[d].region = r
       /\ \A d, e \in Clients : client'[d].region = r /\ client'[e].region = r => d = e
       /\ \A d \in Clients : client'[d].region = r => sched'.region # r
  BY <1>6, <1>8, <1>11
<1> QED
  BY <1>2, <1>3, <1>5, <1>9, <1>10, <1>11, <1>12, Asked

LEMMA SerialSelect ==
    ASSUME SerialAssumption, IInv, IInv', SerialInv, NEW r \in Regions, TickSelect(r)
    PROVE  SerialInv'
<1> USE DEF db, queue, disk
<1>1. /\ Quiet(r) /\ sched'.region = r
      /\ UNCHANGED <<row, job, task, slot, client, live, staged, upstream>>
  BY DEF SerialAssumption, MayRequest, TickSelect
<1>2. RequestInv(r)' /\ RowInv(r)'
  <2>1. RowInv(r)
    BY DEF SerialInv, RegionInv
  <2> QED
    BY <1>1, <2>1 DEF RequestInv, RowInv, Quiet, Whole
<1> QED
  BY <1>1, <1>2, Asked DEF Quiet

\* The other steps of requests, ticks and the mirror are no region's matter.
LEMMA SerialQuietSteps ==
    ASSUME IInv, IInv', SerialInv,
           \/ \E c \in Clients : RequestLost(c)
           \/ TickInsert \/ TickAttach \/ TickError
           \/ \E r \in Regions : Publish(r)
           \/ UNCHANGED vars
    PROVE  SerialInv'
<1> USE DEF db, queue, disk, vars
<1>1. UNCHANGED <<task, slot, live, staged>>
  BY DEF RequestLost, TickInsert, TickAttach, TickError, Publish
<1>2. row' = row \/ row' = [row EXCEPT ![sched.region].job = sched.job]
  BY DEF RequestLost, TickInsert, TickAttach, TickError, Publish
<1>3. \A q \in Regions : row'[q].state = row[q].state /\ row'[q].md5 = row[q].md5
  <2>1. row \in [Regions -> Row]
    BY DEF IInv, TypeOK
  <2> QED
    BY <1>2, <2>1 DEF Row
<1>4. job' = job \/ InsertJob(sched.job, "update", sched.region)
  BY DEF RequestLost, TickInsert, TickAttach, TickError, Publish
<1>5. \A j \in JobIds : job'[j].state = "succeeded" => job[j].state = "succeeded"
  BY <1>4 DEF InsertJob, IInv, TypeOK
<1>6. \A c \in Clients : client'[c] = client[c] \/ client'[c].region = NoRegion
  <2>1. client \in [Clients -> ClientState]
    BY DEF IInv, TypeOK
  <2>2. client' = client \/ \E c \in Clients : client' = [client EXCEPT ![c] = NoRequest]
    BY DEF RequestLost, TickInsert, TickAttach, TickError, Publish
  <2> QED
    BY <2>1, <2>2 DEF NoRequest
<1>7. sched'.region \in {sched.region, NoRegion}
  <2>1. sched \in SchedState
    BY DEF IInv, TypeOK
  <2>2. \/ sched' = sched \/ sched' = NoTick
        \/ sched' = [sched EXCEPT !.pc = "attach"] \/ sched' = [sched EXCEPT !.pc = "enqueue"]
    BY DEF RequestLost, TickInsert, TickAttach, TickError, Publish
  <2> QED
    BY <2>1, <2>2 DEF SchedState, NoTick
<1>8. \A q \in Regions : upstream[q] <= upstream'[q]
  <2>1. upstream \in [Regions -> Versions] /\ Versions \subseteq Nat
    BY BoundAssumption DEF IInv, TypeOK, Versions
  <2>2. upstream' = upstream \/ \E r \in Regions : upstream' = [upstream EXCEPT ![r] = upstream[r] + 1]
    BY DEF RequestLost, TickInsert, TickAttach, TickError, Publish
  <2>3. ASSUME NEW r \in Regions, upstream' = [upstream EXCEPT ![r] = upstream[r] + 1],
               NEW q \in Regions
        PROVE  upstream[q] <= upstream'[q]
    <3>1. upstream[q] \in Nat /\ upstream[r] \in Nat
      BY <2>1
    <3>2. upstream'[q] = IF q = r THEN upstream[r] + 1 ELSE upstream[q]
      BY <2>1, <2>3
    <3> QED
      BY <3>1, <3>2
  <2>4. ASSUME upstream' = upstream, NEW q \in Regions PROVE upstream[q] <= upstream'[q]
    <3>1. upstream[q] \in Nat
      BY <2>1
    <3> QED
      BY <2>4, <3>1
  <2> QED
    BY <2>2, <2>3, <2>4
<1>9. \A u \in TaskIds : Done(u)' <=> Done(u)
  BY <1>1 DEF Done, Busy, At
<1>10. CombinedHasNoRegion'
  BY <1>1 DEF SerialInv, CombinedHasNoRegion
<1>11. \A q \in Regions, u \in TaskIds : task[u].region = q => task[u].job \in JobIds
  BY TaskJob DEF SerialInv
<1>12. ASSUME NEW q \in Regions PROVE Apart(q)
  BY <1>1, <1>3, <1>5, <1>6, <1>7, <1>8, <1>9, <1>11, RegionAssumption DEF Apart, Kept
<1> QED
  BY <1>10, <1>12, ApartSerial

-----------------------------------------------------------------------------
(* The serial invariant is inductive.                                      *)

LEMMA SerialHandlerStep ==
    ASSUME IInv, IInv', SerialInv, NEW w \in Slots, HandlerStep(w)
    PROVE  SerialInv'
<1>1. CASE DeletePurge(w)
  <2>1. Goto(w, "finish_delete") \/ Goto(w, "fail")
    BY <1>1 DEF DeletePurge
  <2> QED
    BY <1>1, <2>1, SerialDelete, SerialPlainErrors
<1>2. CASE ~DeletePurge(w)
  BY <1>2, SerialMark, SerialEarlyErrors, SerialEnqueueNext, SerialReturns, SerialMarkFailed,
     SerialStageFailed, SerialFetch, SerialStagedErrors, SerialPersist, SerialPlainErrors,
     SerialBuild, SerialStat, SerialArchive, SerialPromote, SerialPromoteError, SerialFinish,
     SerialCombined, SerialDelete, SerialRemoveError, SerialDeleteFinish DEF HandlerStep
<1> QED
  BY <1>1, <1>2

LEMMA SerialNext ==
    ASSUME SerialAssumption, IInv, IInv', SerialInv, [Next]_vars
    PROVE  SerialInv'
<1>1. CASE \E c \in Clients : RequestStep(c)
  BY <1>1, SerialCommit, SerialFirstTasks, SerialQuietSteps DEF RequestStep
<1>2. CASE \E c \in Clients, r \in Regions : Install(c, r) \/ UpdateCheck(c, r) \/ Delete(c, r)
  BY <1>2, SerialRequests
<1>3. CASE \E r \in Regions : TickSelect(r) \/ Publish(r)
  BY <1>3, SerialSelect, SerialQuietSteps
<1>4. CASE TickStep
  BY <1>4, SerialQuietSteps, SerialFirstTasks DEF TickStep
<1>5. CASE \E w \in Slots : Take(w) \/ HandlerStep(w)
  BY <1>5, SerialTake, SerialHandlerStep
<1>6. CASE \E t \in TaskIds : RetryDue(t)
  BY <1>6, SerialDue
<1>7. CASE WorkerCrash
  BY <1>7, SerialCrash
<1>8. CASE AtRest \/ UNCHANGED vars
  BY <1>8, SerialQuietSteps DEF AtRest
<1> QED
  BY <1>1, <1>2, <1>3, <1>4, <1>5, <1>6, <1>7, <1>8 DEF Next

LEMMA SerialInit == Init => SerialInv
<1> SUFFICES ASSUME Init PROVE SerialInv
  OBVIOUS
<1>1. CombinedHasNoRegion
  BY DEF Init, CombinedHasNoRegion, NoTask
<1>2. \A t \in TaskIds : task[t].region = NoRegion
  BY DEF Init, NoTask
<1>3. Busy = {}
  BY DEF Init, Busy, Idle
<1>4. ASSUME NEW r \in Regions PROVE RegionInv(r)
  <2>1. \A c \in Clients : client[c].region # r
    BY RegionAssumption DEF Init, NoRequest
  <2>2. \A t \in TaskIds : task[t].region # r
    BY <1>2, RegionAssumption
  <2>3. Exclusive(r) /\ RequestInv(r) /\ \A t \in TaskIds : ~Current(t, r)
    BY <2>1, <2>2 DEF Exclusive, RequestInv, Current
  <2>4. DirsInv(r) /\ RowInv(r)
    BY DEF Init, DirsInv, RowInv, NoDir, Parts
  <2> QED
    BY <1>3, <2>3, <2>4 DEF RegionInv
<1> QED
  BY <1>1, <1>4 DEF SerialInv

LEMMA SerialStates == SerialAssumption => (Spec => []SInv)
<1> SUFFICES ASSUME SerialAssumption PROVE Spec => []SInv
  OBVIOUS
<1>1. Init => SInv
  BY InitHolds, SerialInit DEF SInv
<1>2. SInv /\ [Next]_vars => SInv'
  BY NextKeeps, SerialNext DEF SInv
<1> QED
  BY <1>1, <1>2, PTL DEF Spec

\* With one request per region at a time the chain of stages is what it looks
\* like in the code: each stage finds the parts of the release that the row
\* names, and a region's tasks are one current task and those that handed over.
THEOREM SerialInductive == SerialAssumption => (Spec => []SerialInv)
<1> SUFFICES ASSUME SerialAssumption PROVE Spec => []SerialInv
  OBVIOUS
<1>1. SInv => SerialInv
  BY DEF SInv
<1> QED
  BY <1>1, SerialStates, PTL

\* A region that the admin page and the tile router see as ready has a complete
\* build under <region>, and its row names the release of that build.
THEOREM ReadyRegionsAreServed == SerialAssumption => (Spec => []ReadyIsServed)
<1> SUFFICES ASSUME SerialAssumption PROVE Spec => []ReadyIsServed
  OBVIOUS
<1>1. SInv => ReadyIsServed
  BY DEF SInv, SerialInv, RegionInv, RowInv, ReadyIsServed, Whole
<1> QED
  BY <1>1, SerialStates, PTL

\* Unless a removal fails halfway, what is under <region> is a complete build.
THEOREM LiveRegionsAreWhole ==
    SerialAssumption /\ "remove_error" \notin Faults => (Spec => []LiveIsWhole)
<1> SUFFICES ASSUME SerialAssumption, "remove_error" \notin Faults PROVE Spec => []LiveIsWhole
  OBVIOUS
<1>1. SInv => LiveIsWhole
  BY DEF SInv, SerialInv, RegionInv, DirsInv, CanRemoveHalf, LiveIsWhole
<1> QED
  BY <1>1, SerialStates, PTL

-----------------------------------------------------------------------------
(* The chain of a region is sequential.                                    *)

LEMMA HandingIsFinite ==
    ASSUME IInv, NEW r \in Regions
    PROVE  IsFiniteSet(Handing(r))
<1> DEFINE g == [w \in Handing(r) |-> slot[w].task]
<1>1. g \in [Handing(r) -> TaskIds]
  BY DEF Handing, IInv, BookkeepingInv, ActiveOnOneSlot
<1>2. \A v, w \in Handing(r) : g[v] = g[w] => v = w
  BY DEF Handing, IInv, BookkeepingInv, ActiveOnOneSlot
<1>3. g \in Injection(Handing(r), TaskIds)
  BY <1>1, <1>2 DEF Injection, IsInjective
<1>4. IsFiniteSet(TaskIds)
  BY FS_Interval, BoundAssumption DEF TaskIds
<1> QED
  BY <1>3, <1>4, FS_Injection

\* A task that has handed over is on a goroutine that is about to return.
LEMMA HandedOver ==
    ASSUME IInv, NEW r \in Regions, NEW D, D = {t \in ChainTasks(r) : Done(t)}
    PROVE  IsFiniteSet(D) /\ Cardinality(D) <= Cardinality(Handing(r))
<1> DEFINE f == [t \in D |-> CHOOSE w \in Handing(r) : slot[w].task = t]
<1>1. ASSUME NEW t \in D PROVE f[t] \in Handing(r) /\ slot[f[t]].task = t
  <2>1. \E w \in Handing(r) : slot[w].task = t
    BY <1>1 DEF Done, ChainTasks, Handing, R, T
  <2> QED
    BY <2>1
<1>2. f \in Injection(D, Handing(r))
  BY <1>1 DEF Injection, IsInjective
<1> HIDE DEF f
<1> QED
  BY <1>2, HandingIsFinite, FS_Injection

LEMMA OneStageAtATime ==
    ASSUME IInv, NEW r \in Regions, RegionInv(r)
    PROVE  Cardinality(ChainTasks(r)) <= 1 + Cardinality(Handing(r))
<1>1. PICK D : D = {t \in ChainTasks(r) : Done(t)}
  OBVIOUS
<1>2. /\ IsFiniteSet(D) /\ Cardinality(D) <= Cardinality(Handing(r))
      /\ IsFiniteSet(Handing(r))
  BY <1>1, HandedOver, HandingIsFinite
<1>3. Cardinality(D) \in Nat /\ Cardinality(Handing(r)) \in Nat
  BY <1>2, FS_CardinalityType
<1>4. \A t, u \in ChainTasks(r) \ D : t = u
  BY <1>1 DEF ChainTasks, RegionInv, Exclusive, Current
<1>5. CASE ChainTasks(r) \ D = {}
  <2>1. ChainTasks(r) = D
    BY <1>1, <1>5
  <2> QED
    BY <1>2, <1>3, <2>1
<1>6. CASE ChainTasks(r) \ D # {}
  <2>1. PICK t : t \in ChainTasks(r) \ D
    BY <1>6
  <2>2. ChainTasks(r) = D \cup {t}
    BY <1>1, <1>4, <2>1
  <2>3. Cardinality(D \cup {t}) = Cardinality(D) + 1
    BY <1>2, <2>1, FS_AddElement
  <2> QED
    BY <1>2, <1>3, <2>2, <2>3
<1> QED
  BY <1>5, <1>6

\* A region never has two stages at work: beside the tasks that have handed
\* over and are about to return it has one task at most.
THEOREM ChainsAreSequential == SerialAssumption => (Spec => []ChainIsSequential)
<1> SUFFICES ASSUME SerialAssumption PROVE Spec => []ChainIsSequential
  OBVIOUS
<1>1. SInv => ChainIsSequential
  BY OneStageAtATime DEF SInv, SerialInv, ChainIsSequential
<1> QED
  BY <1>1, SerialStates, PTL

-----------------------------------------------------------------------------
(* What a step may never do.                                               *)

\* A handler that marks a failure works for a job that is still open.
LEMMA FailsAnOpenJob ==
    ASSUME IInv, SerialInv, NEW w \in Slots, slot[w].pc \in {"fail", "fail_job"}
    PROVE  T(w).job \in JobIds /\ job[T(w).job].state # "succeeded"
<1>1. PICK t \in TaskIds, r \in Regions : Works(w, t, r)
  BY AtWork
<1>2. task[t].kind = "swap" => Open(t)
  BY <1>1 DEF Works, HandlerInv
<1>3. Open(t)
  BY <1>1, <1>2 DEF Works, TaskInv
<1> QED
  BY <1>1, <1>3, HandlerRegion DEF Open, Works

\* The jobs that a step touches were not succeeded before.
LEMMA JobsWritten ==
    ASSUME IInv, SerialInv, [Next]_vars
    PROVE  \/ UNCHANGED job
           \/ \E j \in JobIds, x \in Job : job[j].state = "none" /\ job' = [job EXCEPT ![j] = x]
           \/ \E w \in Slots : SetJob(T(w).job, "succeeded")
           \/ \E w \in Slots : slot[w].pc \in {"fail", "fail_job"} /\ SetJob(T(w).job, "failed")
<1> USE DEF db, At
<1>1. ASSUME NEW j \in JobIds, NEW k \in JobKinds, NEW r \in Regions, InsertJob(j, k, r)
      PROVE  \E x \in Job : job' = [job EXCEPT ![j] = x]
  BY <1>1 DEF InsertJob, Job, JobStates
<1>2. CASE \E c \in Clients : RequestStep(c)
  <2>1. PICK c \in Clients : RequestStep(c)
    BY <1>2
  <2>2. CASE UpdateCommit(c)
    <3>1. PICK j, r : j = client[c].job /\ r = client[c].region
      OBVIOUS
    <3>2. client[c].pc = "commit_update" /\ InsertJob(j, "update", r)
      BY <2>2, <3>1 DEF UpdateCommit
    <3>3. j \in JobIds /\ r \in Regions /\ job[j].state = "none" /\ "update" \in JobKinds
      BY <3>1, <3>2 DEF IInv, BookkeepingInv, RequestsBacked, JobKinds
    <3> QED
      BY <1>1, <3>2, <3>3
  <2>3. CASE EnqueueRequest(c) \/ RequestLost(c)
    BY <2>3 DEF EnqueueRequest, RequestLost
  <2> QED
    BY <2>1, <2>2, <2>3 DEF RequestStep
<1>3. CASE \E c \in Clients, r \in Regions : Install(c, r) \/ UpdateCheck(c, r) \/ Delete(c, r)
  <2>1. PICK c \in Clients, r \in Regions : Install(c, r) \/ UpdateCheck(c, r) \/ Delete(c, r)
    BY <1>3
  <2>2. CASE Install(c, r)
    <3>1. PICK j \in JobIds : FreshJob(j) /\ InsertJob(j, "install", r)
      BY <2>2 DEF Install
    <3> QED
      BY <1>1, <3>1 DEF FreshJob, JobKinds
  <2>3. CASE UpdateCheck(c, r)
    BY <2>3 DEF UpdateCheck
  <2>4. CASE Delete(c, r)
    <3>1. PICK j \in JobIds : FreshJob(j) /\ InsertJob(j, "delete", r)
      BY <2>4 DEF Delete
    <3> QED
      BY <1>1, <3>1 DEF FreshJob, JobKinds
  <2> QED
    BY <2>1, <2>2, <2>3, <2>4
<1>4. CASE \E r \in Regions : TickSelect(r) \/ Publish(r)
  BY <1>4 DEF TickSelect, Publish
<1>5. CASE TickStep
  <2>1. CASE TickInsert
    <3>1. PICK j, r : j = sched.job /\ r = sched.region
      OBVIOUS
    <3>2. sched.pc = "insert" /\ (UNCHANGED job \/ InsertJob(j, "update", r))
      BY <2>1, <3>1 DEF TickInsert
    <3>3. j \in JobIds /\ r \in Regions /\ job[j].state = "none" /\ "update" \in JobKinds
      BY <3>1, <3>2 DEF IInv, BookkeepingInv, TickBacked, JobKinds
    <3> QED
      BY <1>1, <3>2, <3>3
  <2>2. CASE TickAttach \/ TickEnqueue \/ TickError
    BY <2>2 DEF TickAttach, TickEnqueue, TickError
  <2> QED
    BY <1>5, <2>1, <2>2 DEF TickStep
<1>6. CASE \E w \in Slots : Take(w) \/ HandlerStep(w)
  <2>1. PICK w \in Slots : Take(w) \/ HandlerStep(w)
    BY <1>6
  <2>2. CASE MarkFailed(w) \/ MarkJobFailed(w) \/ SwapFinish(w) \/ DeleteFinish(w)
    BY <2>2 DEF MarkFailed, MarkJobFailed, SwapFinish, DeleteFinish
  <2>3. CASE ~(MarkFailed(w) \/ MarkJobFailed(w) \/ SwapFinish(w) \/ DeleteFinish(w))
    BY <2>1, <2>3 DEF HandlerStep, Take, Mark, MarkError, EnqueueNext, EnqueueError, Ack,
       MarkStageFailed, MarkFailedLost, Fetch, FetchError, Persist, PersistError, Build,
       BuildError, Geocode, GeocodeError, SwapStat, SwapArchive, SwapArchiveError, SwapPromote,
       SwapPromoteError, SwapCleanup, SwapFinishError, EnqueueCombined, CombinedRouting,
       DeleteLive, DeleteLiveError, DeleteNew, DeleteNewError, DeletePurge, DeleteFinishError
  <2> QED
    BY <2>2, <2>3
<1>7. CASE (\E t \in TaskIds : RetryDue(t)) \/ WorkerCrash \/ AtRest \/ UNCHANGED vars
  BY <1>7 DEF RetryDue, WorkerCrash, AtRest, vars
<1> QED
  BY <1>2, <1>3, <1>4, <1>5, <1>6, <1>7 DEF Next

\* A job that finishSwap or finishDelete has closed is never opened or failed
\* again, by no retry of its task either.
THEOREM SucceededJobsAreFinal == SerialAssumption => (Spec => SucceededIsFinal)
<1> SUFFICES ASSUME SerialAssumption PROVE Spec => SucceededIsFinal
  OBVIOUS
<1>1. SInv /\ [Next]_vars =>
        [\A j \in JobIds : job[j].state = "succeeded" => job'[j].state = "succeeded"]_vars
  <2> SUFFICES ASSUME SInv, [Next]_vars, NEW j \in JobIds, job[j].state = "succeeded"
               PROVE  job'[j].state = "succeeded"
    OBVIOUS
  <2> USE DEF SInv
  <2>1. job \in [JobIds -> Job] /\ job[j] \in Job
    BY DEF IInv, TypeOK
  <2>2. CASE \E i \in JobIds, x \in Job : job[i].state = "none" /\ job' = [job EXCEPT ![i] = x]
    BY <2>1, <2>2
  <2>3. CASE \E w \in Slots : SetJob(T(w).job, "succeeded")
    BY <2>1, <2>3 DEF SetJob, Job
  <2>4. CASE \E w \in Slots : slot[w].pc \in {"fail", "fail_job"} /\ SetJob(T(w).job, "failed")
    BY <2>1, <2>4, FailsAnOpenJob DEF SetJob
  <2> QED
    BY <2>2, <2>3, <2>4, JobsWritten
<1> QED
  BY <1>1, SerialStates, PTL DEF Spec, SucceededIsFinal

\* The only writers of the live directories.
LEMMA LiveWritten ==
    ASSUME [Next]_vars
    PROVE  \/ UNCHANGED live
           \/ \E w \in Slots : Geocode(w) \/ SwapArchive(w) \/ SwapPromote(w)
                                \/ SwapPromoteError(w) \/ DeleteLive(w) \/ DeleteLiveError(w)
<1> USE DEF disk
<1>1. CASE \E c \in Clients : RequestStep(c)
  BY <1>1 DEF RequestStep, UpdateCommit, EnqueueRequest, RequestLost
<1>2. CASE \E c \in Clients, r \in Regions : Install(c, r) \/ UpdateCheck(c, r) \/ Delete(c, r)
  BY <1>2 DEF Install, UpdateCheck, Delete
<1>3. CASE \E r \in Regions : TickSelect(r) \/ Publish(r)
  BY <1>3 DEF TickSelect, Publish
<1>4. CASE TickStep
  BY <1>4 DEF TickStep, TickInsert, TickAttach, TickEnqueue, TickError
<1>5. CASE \E w \in Slots : Take(w) \/ HandlerStep(w)
  <2>1. PICK w \in Slots : Take(w) \/ HandlerStep(w)
    BY <1>5
  <2>2. CASE \/ Geocode(w) \/ SwapArchive(w) \/ SwapPromote(w)
             \/ SwapPromoteError(w) \/ DeleteLive(w) \/ DeleteLiveError(w)
    BY <2>2
  <2>3. CASE ~(\/ Geocode(w) \/ SwapArchive(w) \/ SwapPromote(w)
               \/ SwapPromoteError(w) \/ DeleteLive(w) \/ DeleteLiveError(w))
    BY <2>1, <2>3 DEF HandlerStep, Take, Mark, MarkError, EnqueueNext, EnqueueError, Ack,
       MarkFailed, MarkJobFailed, MarkStageFailed, MarkFailedLost, Fetch, FetchError, Persist,
       PersistError, Build, BuildError, GeocodeError, SwapStat, SwapArchiveError, SwapCleanup,
       SwapFinish, SwapFinishError, EnqueueCombined, CombinedRouting,
       DeleteNew, DeleteNewError, DeletePurge, DeleteFinish, DeleteFinishError
  <2> QED
    BY <2>2, <2>3
<1>6. CASE (\E t \in TaskIds : RetryDue(t)) \/ WorkerCrash \/ AtRest \/ UNCHANGED vars
  BY <1>6 DEF RetryDue, WorkerCrash, AtRest, vars
<1> QED
  BY <1>1, <1>2, <1>3, <1>4, <1>5, <1>6 DEF Next

\* What the swap finds between its two renames, and a deletion before them.
LEMMA SwapFinds ==
    ASSUME NEW w, NEW t, NEW r, Works(w, t, r), slot[w].pc \in {"archive", "promote"}
    PROVE  /\ task[t].kind = "swap" /\ row[r].state = "updating" /\ BuiltFor(r, "swap")
           /\ Whole(staged[r]) /\ staged[r].has["pbf"] = row[r].md5
           /\ \A p \in Parts : staged[r].has[p] = row[r].md5
           /\ slot[w].pc = "promote" => ~live[r].here /\ live[r] = NoDir
<1>1. task[t].kind = "swap" /\ row[r].state = "updating" /\ BuiltFor(r, "swap")
  BY DEF Works, HandlerInv, PcsOf, BuildKinds, ChainKinds, Marked, EntryState
<1>2. staged[r].here /\ row[r].md5 # 0 /\ \A p \in Parts : staged[r].has[p] = row[r].md5
  BY <1>1 DEF BuiltFor, Needed
<1>3. "pbf" \in Parts
  BY DEF Parts
<1>4. Whole(staged[r]) /\ staged[r].has["pbf"] = row[r].md5
  BY <1>2, <1>3 DEF Whole
<1>5. slot[w].pc = "promote" => ~live[r].here /\ live[r] = NoDir
  BY DEF Works, HandlerInv, At, DirsInv
<1> QED
  BY <1>1, <1>2, <1>4, <1>5

\* The geocoding stage builds in .new, which has the pbf.
LEMMA GeocodeStages ==
    ASSUME IInv, SerialInv, NEW w \in Slots, Geocode(w)
    PROVE  UNCHANGED live
<1>1. slot[w].pc = "build"
  BY DEF Geocode, At
<1>2. PICK t \in TaskIds, r \in Regions : Works(w, t, r)
  BY <1>1, AtWork
<1>3. staged[r].has["pbf"] # 0
  BY <1>2 DEF Geocode, Works, TaskInv, BuildKinds, BuiltFor, Needed
<1> QED
  BY <1>2, <1>3 DEF Geocode, Works

\* The live directory of a region goes away in a deletion, or in a swap that
\* has a complete build to put in its place.
THEOREM LiveGoesForAReason == SerialAssumption => (Spec => WithdrawnForReplacement)
<1> SUFFICES ASSUME SerialAssumption PROVE Spec => WithdrawnForReplacement
  OBVIOUS
<1>1. SInv /\ [Next]_vars =>
        [\A r \in Regions : live[r].here /\ ~live'[r].here =>
           \/ \E w \in Busy : R(w) = r /\ At(w, "rmlive")
           \/ Whole(staged[r])]_vars
  <2> SUFFICES ASSUME SInv, [Next]_vars, NEW r \in Regions, live[r].here, ~live'[r].here
               PROVE  \/ \E w \in Busy : R(w) = r /\ At(w, "rmlive")
                      \/ Whole(staged[r])
    OBVIOUS
  <2> USE DEF SInv
  <2>1. PICK w \in Slots : SwapArchive(w) \/ SwapPromote(w) \/ SwapPromoteError(w)
                           \/ DeleteLive(w) \/ DeleteLiveError(w)
    BY LiveWritten, GeocodeStages
  <2>2. slot[w].pc \in {"archive", "promote", "rmlive"} /\ w \in Busy
    BY <2>1 DEF SwapArchive, SwapPromote, SwapPromoteError, DeleteLive, DeleteLiveError, At, Busy
  <2>3. PICK t \in TaskIds, q \in Regions : Works(w, t, q)
    BY <2>2, AtWork
  <2>4. q = R(w) /\ live \in [Regions -> Dir]
    BY <2>3 DEF Works, IInv, TypeOK
  <2>5. q = r
    BY <2>1, <2>4 DEF SwapArchive, SwapPromote, SwapPromoteError, DeleteLive, DeleteLiveError
  <2>6. CASE slot[w].pc \in {"archive", "promote"}
    BY <2>3, <2>5, <2>6, SwapFinds
  <2>7. CASE slot[w].pc = "rmlive"
    BY <2>2, <2>4, <2>5, <2>7 DEF At
  <2> QED
    BY <2>2, <2>6, <2>7
<1> QED
  BY <1>1, SerialStates, PTL DEF Spec, WithdrawnForReplacement

-----------------------------------------------------------------------------
(* Refinement: what the tile router reads is what RegionFiles says.        *)

\* The only writers of the states in the regions table.
LEMMA StatesWritten ==
    ASSUME IInv, [Next]_vars
    PROVE  \/ \A r \in Regions : row'[r].state = row[r].state
           \/ \E c \in Clients, r \in Regions : Install(c, r) \/ Delete(c, r)
           \/ \E c \in Clients : UpdateCommit(c)
           \/ \E w \in Slots : Mark(w) \/ MarkFailed(w) \/ MarkStageFailed(w) \/ SwapFinish(w)
<1> USE DEF db
<1> row \in [Regions -> Row]
  BY DEF IInv, TypeOK
<1>1. CASE \E c \in Clients : RequestStep(c)
  BY <1>1 DEF RequestStep, EnqueueRequest, RequestLost
<1>2. CASE \E c \in Clients, r \in Regions : Install(c, r) \/ UpdateCheck(c, r) \/ Delete(c, r)
  BY <1>2 DEF UpdateCheck
<1>3. CASE \E r \in Regions : TickSelect(r) \/ Publish(r)
  BY <1>3 DEF TickSelect, Publish
<1>4. CASE TickStep
  <2>1. row' = row \/ row' = [row EXCEPT ![sched.region].job = sched.job]
    BY <1>4 DEF TickStep, TickInsert, TickAttach, TickEnqueue, TickError
  <2> QED
    BY <2>1 DEF Row
<1>5. CASE \E w \in Slots : Take(w) \/ HandlerStep(w)
  <2>1. PICK w \in Slots : Take(w) \/ HandlerStep(w)
    BY <1>5
  <2>2. CASE Mark(w) \/ MarkFailed(w) \/ MarkStageFailed(w) \/ SwapFinish(w)
    BY <2>2
  <2>3. CASE Persist(w) \/ DeleteFinish(w)
    BY <2>3 DEF Persist, DeleteFinish, Row
  <2>4. CASE ~(\/ Mark(w) \/ MarkFailed(w) \/ MarkStageFailed(w) \/ SwapFinish(w)
               \/ Persist(w) \/ DeleteFinish(w))
    <3>1. row' = row
      BY <2>1, <2>4 DEF HandlerStep, Take, MarkError, EnqueueNext, EnqueueError, Ack,
         MarkJobFailed, MarkFailedLost, Fetch, FetchError, PersistError,
         Build, BuildError, Geocode, GeocodeError, SwapStat, SwapArchive, SwapArchiveError,
         SwapPromote, SwapPromoteError, SwapCleanup, SwapFinishError, EnqueueCombined,
         CombinedRouting, DeleteLive, DeleteLiveError, DeleteNew, DeleteNewError, DeletePurge,
         DeleteFinishError
    <3> QED
      BY <3>1
  <2> QED
    BY <2>2, <2>3, <2>4
<1>6. CASE (\E t \in TaskIds : RetryDue(t)) \/ WorkerCrash \/ AtRest \/ UNCHANGED vars
  BY <1>6 DEF RetryDue, WorkerCrash, AtRest, vars
<1> QED
  BY <1>1, <1>2, <1>3, <1>4, <1>5, <1>6 DEF Next

LEMMA FilesUnchanged ==
    ASSUME UNCHANGED live, \A r \in Regions : row'[r].state = row[r].state
    PROVE  UNCHANGED Files!files
BY DEF Files!files, FileState

\* The row of one region changes its state.
LEMMA FilesBecome ==
    ASSUME UNCHANGED live, NEW r \in Regions, \A q \in Regions : q # r => row'[q] = row[q],
           NEW s, FileState(r)' = s
    PROVE  Files!Becomes(r, s)
BY DEF Files!Becomes, FileState

\* The live directory of one region changes.
LEMMA FilesHold ==
    ASSUME UNCHANGED row, NEW r \in Regions, \A q \in Regions : q # r => live'[q] = live[q],
           NEW v, live'[r].has["tiles"] = v
    PROVE  Files!Holds(r, v)
BY DEF Files!Holds, FileState

LEMMA FileStates ==
    ASSUME NEW r \in Regions, RowInv(r)
    PROVE  /\ FileState(r) = "absent" <=> row[r].state = "absent"
           /\ FileState(r) = "failed" <=> row[r].state = "failed"
           /\ FileState(r) = "archived" <=> row[r].state = "archived"
BY DEF RowInv, FileState

LEMMA FilesRowStep ==
    ASSUME IInv, SerialInv,
           \/ \E c \in Clients, r \in Regions : Install(c, r) \/ Delete(c, r)
           \/ \E c \in Clients : UpdateCommit(c)
           \/ \E w \in Slots : Mark(w) \/ MarkFailed(w) \/ MarkStageFailed(w) \/ SwapFinish(w)
    PROVE  [Files!FilesNext]_(Files!files)
<1> USE DEF disk, db, At
<1>0. row \in [Regions -> Row] /\ UNCHANGED live
  BY DEF IInv, TypeOK, Install, Delete, UpdateCommit, Mark, MarkFailed, MarkStageFailed, SwapFinish
\* Whatever a state becomes, RegionFiles has a step for it.
<1>1. ASSUME NEW r \in Regions, \A q \in Regions : q # r => row'[q] = row[q],
             \/ FileState(r)' = "working"
             \/ FileState(r)' \in {"failed", "archived"} /\ row[r].state # "absent"
             \/ FileState(r)' = "ready" /\ row[r].state = "updating" /\ Promoted(r)
      PROVE  [Files!FilesNext]_(Files!files)
  <2>1. RowInv(r)
    BY DEF SerialInv, RegionInv
  <2>2. CASE FileState(r)' = FileState(r)
    BY <1>0, <1>1, <2>2 DEF Files!files, FileState
  <2>3. CASE FileState(r)' # FileState(r) /\ FileState(r)' = "working"
    <3>1. Files!Becomes(r, "working")
      BY <1>0, <1>1, <2>3, FilesBecome
    <3> QED
      BY <2>3, <3>1 DEF Files!FilesNext, Files!FilesStep, Files!Begin
  <2>4. CASE FileState(r)' # FileState(r) /\ FileState(r)' = "failed" /\ row[r].state # "absent"
    <3>1. Files!Becomes(r, "failed")
      BY <1>0, <1>1, <2>4, FilesBecome
    <3>2. FileState(r) \notin {"absent", "failed"}
      BY <2>1, <2>4, FileStates
    <3> QED
      BY <3>1, <3>2 DEF Files!FilesNext, Files!FilesStep, Files!Fail
  <2>5. CASE FileState(r)' = "archived" /\ row[r].state # "absent"
    <3>1. Files!Becomes(r, "archived")
      BY <1>0, <1>1, <2>5, FilesBecome
    <3>2. FileState(r) # "absent"
      BY <2>1, <2>5, FileStates
    <3> QED
      BY <3>1, <3>2 DEF Files!FilesNext, Files!FilesStep, Files!Archive
  <2>6. CASE FileState(r)' = "ready" /\ row[r].state = "updating" /\ Promoted(r)
    <3>1. Files!Becomes(r, "ready")
      BY <1>0, <1>1, <2>6, FilesBecome
    <3>2. FileState(r) = "working" /\ live[r].has["tiles"] # 0
      BY <2>6 DEF FileState, Promoted, Whole, Parts
    <3> QED
      BY <3>1, <3>2 DEF Files!FilesNext, Files!FilesStep, Files!Finish
  <2> QED
    BY <1>1, <2>2, <2>3, <2>4, <2>5, <2>6
<1>2. CASE \E c \in Clients, r \in Regions : Install(c, r) \/ Delete(c, r)
  <2>1. PICK c \in Clients, r \in Regions : Install(c, r) \/ Delete(c, r)
    BY <1>2
  <2>2. row[r] \in Row
    BY <1>0
  <2>3. \A q \in Regions : q # r => row'[q] = row[q]
    BY <1>0, <2>1 DEF Install, Delete
  <2>4. row'[r].state = "downloading" \/ (row'[r].state = "archived" /\ row[r].state # "absent")
    BY <1>0, <2>1, <2>2 DEF Install, Delete, Row
  <2> QED
    BY <1>1, <2>3, <2>4 DEF FileState
<1>3. CASE \E c \in Clients : UpdateCommit(c)
  <2>1. PICK c \in Clients : UpdateCommit(c)
    BY <1>3
  <2> DEFINE r == client[c].region
  <2>2. r \in Regions
    BY <2>1 DEF UpdateCommit, IInv, BookkeepingInv, RequestsBacked
  <2>3. row'[r].state = "updating" /\ \A q \in Regions : q # r => row'[q] = row[q]
    BY <1>0, <2>1, <2>2 DEF UpdateCommit, Row
  <2> QED
    BY <1>1, <2>2, <2>3 DEF FileState
<1>4. CASE \E w \in Slots : Mark(w) \/ MarkFailed(w) \/ MarkStageFailed(w) \/ SwapFinish(w)
  <2>1. PICK w \in Slots : Mark(w) \/ MarkFailed(w) \/ MarkStageFailed(w) \/ SwapFinish(w)
    BY <1>4
  <2>2. slot[w].pc \in {"mark", "fail", "finish"}
    BY <2>1 DEF Mark, MarkFailed, MarkStageFailed, SwapFinish
  <2>3. PICK t \in TaskIds, r \in Regions : Works(w, t, r)
    BY <2>2, AtWork
  <2>4. r = R(w) /\ T(w) = task[t] /\ row[r] \in Row /\ row[r].state # "absent"
    BY <2>2, <2>3, HandlerRegion DEF Works
  <2>5. \A q \in Regions : q # r => row'[q] = row[q]
    BY <1>0, <2>1, <2>4 DEF Mark, MarkFailed, MarkStageFailed, SwapFinish
  <2>6. CASE Mark(w)
    <3>1. row'[r].state = EntryState(task[t].kind)
      BY <1>0, <2>3, <2>4, <2>6 DEF Mark, Row
    <3> QED
      BY <1>1, <2>5, <3>1 DEF EntryState, FileState
  <2>7. CASE MarkFailed(w) \/ MarkStageFailed(w)
    <3>1. row'[r].state = "failed" \/ row' = row
      BY <1>0, <2>3, <2>4, <2>7 DEF MarkFailed, MarkStageFailed, Row
    <3> QED
      BY <1>0, <1>1, <2>4, <2>5, <3>1, FilesUnchanged DEF FileState
  <2>8. CASE SwapFinish(w)
    <3>1. row'[r].state = "ready"
      BY <1>0, <2>4, <2>8 DEF SwapFinish, Row
    <3>2. slot[w].pc = "finish"
      BY <2>8 DEF SwapFinish
    <3>3. row[r].state = "updating" /\ Promoted(r)
      BY <2>3, <3>2 DEF Works, HandlerInv, PcsOf, BuildKinds, ChainKinds, Marked, EntryState
    <3> QED
      BY <1>1, <2>5, <3>1, <3>3 DEF FileState
  <2> QED
    BY <2>1, <2>6, <2>7, <2>8
<1> QED
  BY <1>2, <1>3, <1>4

LEMMA FilesDiskStep ==
    ASSUME IInv, SerialInv, NEW w \in Slots,
           \/ SwapArchive(w) \/ SwapPromote(w) \/ SwapPromoteError(w)
           \/ DeleteLive(w) \/ DeleteLiveError(w)
    PROVE  [Files!FilesNext]_(Files!files)
<1> USE DEF db
<1>1. slot[w].pc \in {"archive", "promote", "rmlive"} /\ UNCHANGED row
  BY DEF SwapArchive, SwapPromote, SwapPromoteError, DeleteLive, DeleteLiveError, At
<1>2. PICK t \in TaskIds, r \in Regions : Works(w, t, r)
  BY <1>1, AtWork
<1>3. /\ r = R(w) /\ T(w) = task[t] /\ live \in [Regions -> Dir] /\ live[r] \in Dir
      /\ staged[r] \in Dir /\ slot[w] \in Slot /\ slot[w].old \in Dir
  BY <1>2 DEF Works, IInv, TypeOK, Slot
<1>4. \A q \in Regions : q # r => live'[q] = live[q]
  BY <1>3 DEF SwapArchive, SwapPromote, SwapPromoteError, DeleteLive, DeleteLiveError
<1>5. PICK v : v = live'[r].has["tiles"]
  OBVIOUS
<1>6. Files!Holds(r, v)
  BY <1>1, <1>4, <1>5, FilesHold
<1>7. CASE v = live[r].has["tiles"]
  BY <1>1, <1>4, <1>5, <1>7 DEF Files!files, FileState
<1>8. CASE v # live[r].has["tiles"] /\ slot[w].pc \in {"archive", "promote"}
  <2>1. FileState(r) = "working"
    BY <1>2, <1>8, SwapFinds DEF FileState
  <2>2. CASE SwapArchive(w)
    <3>1. v = 0
      BY <1>3, <1>5, <2>2 DEF SwapArchive, NoDir, Parts
    <3> QED
      BY <1>6, <1>8, <2>1, <3>1 DEF Files!FilesNext, Files!FilesStep, Files!Withdraw
  <2>3. CASE SwapPromote(w) \/ SwapPromoteError(w)
    <3>1. slot[w].pc = "promote"
      BY <2>3 DEF SwapPromote, SwapPromoteError, At
    <3>2. live[r] = NoDir
      BY <1>2, <3>1, SwapFinds
    <3>3. live[r].has["tiles"] = 0
      BY <3>2 DEF NoDir, Parts
    <3>4. live'[r] \in {live[r], staged[r], slot[w].old}
      BY <1>3, <2>3 DEF SwapPromote, SwapPromoteError
    <3>5. v \in Versions
      BY <1>3, <1>5, <3>4 DEF Dir, Parts
    <3>6. v \in 1..MaxVersion
      BY <1>8, <3>3, <3>5, BoundAssumption DEF Versions
    <3> QED
      BY <1>6, <2>1, <3>3, <3>6 DEF Files!FilesNext, Files!FilesStep, Files!Place
  <2>4. ~(DeleteLive(w) \/ DeleteLiveError(w))
    BY <1>8 DEF DeleteLive, DeleteLiveError, At
  <2> QED
    BY <2>2, <2>3, <2>4
<1>9. CASE v # live[r].has["tiles"] /\ slot[w].pc = "rmlive"
  <2>1. DeleteLive(w) \/ DeleteLiveError(w)
    BY <1>9 DEF SwapArchive, SwapPromote, SwapPromoteError, At
  <2>2. task[t].kind = "delete"
    BY <1>2, <1>9 DEF Works, HandlerInv, PcsOf, BuildKinds, ChainKinds
  <2>3. row[r].state \in {"archived", "failed"}
    BY <1>2, <2>2 DEF Works, TaskInv
  <2>4. FileState(r) \in {"archived", "failed"}
    BY <2>3 DEF FileState
  <2>5. v = 0
    <3>1. CASE DeleteLive(w)
      BY <1>3, <1>5, <3>1 DEF DeleteLive, NoDir, Parts
    <3>2. CASE DeleteLiveError(w)
      <4>1. PICK d \in Remainder(live[r]) : live'[r] = d
        BY <1>3, <3>2 DEF DeleteLiveError
      <4>2. d.has["tiles"] \in {0, live[r].has["tiles"]}
        BY <1>3 DEF Remainder, Dir, Parts
      <4> QED
        BY <1>5, <1>9, <4>1, <4>2
    <3> QED
      BY <2>1, <3>1, <3>2
  <2> QED
    BY <1>6, <1>9, <2>4, <2>5 DEF Files!FilesNext, Files!FilesStep, Files!Remove
<1> QED
  BY <1>1, <1>7, <1>8, <1>9

LEMMA FilesStepHolds ==
    ASSUME IInv, SerialInv, [Next]_vars
    PROVE  [Files!FilesNext]_(Files!files)
<1>1. CASE \/ \E c \in Clients, r \in Regions : Install(c, r) \/ Delete(c, r)
           \/ \E c \in Clients : UpdateCommit(c)
           \/ \E w \in Slots : Mark(w) \/ MarkFailed(w) \/ MarkStageFailed(w) \/ SwapFinish(w)
  BY <1>1, FilesRowStep
<1>2. CASE \A r \in Regions : row'[r].state = row[r].state
  <2>1. CASE UNCHANGED live
    BY <1>2, <2>1, FilesUnchanged
  <2>2. CASE ~UNCHANGED live
    BY <2>2, LiveWritten, GeocodeStages, FilesDiskStep
  <2> QED
    BY <2>1, <2>2
<1> QED
  BY <1>1, <1>2, StatesWritten

LEMMA FilesStart == Init => Files!FilesInit
BY DEF Init, Files!FilesInit, FileState, NoDir, Parts

\* The pipeline implements RegionFiles: the model of the tile router reads
\* nothing that the pipeline cannot show it.
THEOREM PipelineImplementsFiles == SerialAssumption => (Spec => ReadersSeeFiles)
<1> SUFFICES ASSUME SerialAssumption PROVE Spec => ReadersSeeFiles
  OBVIOUS
<1>1. Init => Files!FilesInit
  BY FilesStart
<1>2. SInv /\ [Next]_vars => [Files!FilesNext]_(Files!files)
  BY FilesStepHolds DEF SInv
<1> QED
  BY <1>1, <1>2, SerialStates, PTL DEF Spec, ReadersSeeFiles, Files!FilesSpec

-----------------------------------------------------------------------------
(* Refinement: a reader of <region> is served as ServedRegion says.        *)

\* One handler at a time works on a region before it hands over.
LEMMA OneWorker ==
    ASSUME IInv, SerialInv, NEW v \in Slots, NEW w \in Slots, R(v) = R(w),
           slot[v].pc \notin {"idle", "combined", "ack"},
           slot[w].pc \notin {"idle", "combined", "ack"}
    PROVE  v = w
<1>1. PICK t \in TaskIds, r \in Regions : Works(v, t, r)
  BY AtWork
<1>2. PICK u \in TaskIds, q \in Regions : Works(w, u, q)
  BY AtWork
<1>3. Current(t, r) /\ Current(u, r) /\ v \in Busy /\ w \in Busy
  BY <1>1, <1>2 DEF Works
<1>4. t = u
  BY <1>3 DEF SerialInv, RegionInv, Exclusive
<1> QED
  BY <1>1, <1>2, <1>3, <1>4 DEF Works, IInv, BookkeepingInv, ActiveOnOneSlot

\* What a reader finds: the live directory, or the one in the swap's hands.
ServedFacts ==
    \A r \in Regions :
        /\ live[r].here => Served[r] = live[r].has["pbf"]
        /\ \A w \in Swapping(r) : ~live[r].here /\ Served[r] = slot[w].old.has["pbf"]
        /\ ~live[r].here /\ Swapping(r) = {} => Served[r] = 0

LEMMA ServedAs == SInv /\ "remove_error" \notin Faults => ServedFacts
<1> SUFFICES ASSUME SInv, "remove_error" \notin Faults, NEW r \in Regions
             PROVE  /\ live[r].here => Served[r] = live[r].has["pbf"]
                    /\ \A w \in Swapping(r) : ~live[r].here /\ Served[r] = slot[w].old.has["pbf"]
                    /\ ~live[r].here /\ Swapping(r) = {} => Served[r] = 0
  BY DEF ServedFacts
<1> USE DEF SInv
<1>1. live[r].here => Whole(live[r])
  BY DEF SerialInv, RegionInv, DirsInv, CanRemoveHalf
<1>2. live[r].here => Served[r] = live[r].has["pbf"]
  BY <1>1 DEF Served, Release
<1>3. ~live[r].here /\ Swapping(r) = {} => Served[r] = 0
  BY DEF Served
<1>4. ASSUME NEW w \in Swapping(r)
      PROVE  ~live[r].here /\ Served[r] = slot[w].old.has["pbf"]
  <2>1. w \in Slots /\ slot[w].pc = "promote" /\ R(w) = r /\ slot[w].old.here
    BY <1>4 DEF Swapping, Busy, At
  <2>2. PICK t \in TaskIds : Works(w, t, r)
    BY <2>1, AtWork DEF Works
  <2>3. ~live[r].here /\ Whole(slot[w].old)
    BY <2>1, <2>2 DEF Works, HandlerInv, At, CanRemoveHalf
  <2>4. \A v \in Swapping(r) : v = w
    BY <2>1, OneWorker DEF Swapping, Busy, At
  <2>5. (CHOOSE v \in Swapping(r) : TRUE) = w
    BY <1>4, <2>4
  <2>6. Served[r] = Release(slot[w].old)
    BY <1>4, <2>3, <2>5 DEF Served
  <2> QED
    BY <2>3, <2>6 DEF Release
<1> QED
  BY <1>2, <1>3, <1>4

LEMMA ServedAsNext ==
    ASSUME SInv', "remove_error" \notin Faults
    PROVE  ServedFacts'
<1>1. (SInv /\ "remove_error" \notin Faults => ServedFacts)'
  BY ServedAs, PTL
<1> QED
  BY <1>1

\* A reader notices nothing of a step that leaves the directory and the swap.
LEMMA ServedKept ==
    ASSUME ServedFacts, ServedFacts', NEW r \in Regions, live'[r] = live[r],
           \A v \in Slots : v \in Swapping(r)' <=> v \in Swapping(r),
           \A v \in Swapping(r)' : slot'[v].old = slot[v].old
    PROVE  Served'[r] = Served[r]
<1>1. CASE live[r].here
  BY <1>1 DEF ServedFacts
<1>2. CASE ~live[r].here /\ Swapping(r) = {}
  <2>1. Swapping(r)' = {}
    BY <1>2 DEF Swapping, Busy
  <2> QED
    BY <1>2, <2>1 DEF ServedFacts
<1>3. CASE ~live[r].here /\ Swapping(r) # {}
  <2>1. PICK v : v \in Swapping(r)
    BY <1>3
  <2>2. v \in Swapping(r)'
    BY <2>1 DEF Swapping, Busy
  <2> QED
    BY <2>1, <2>2 DEF ServedFacts
<1> QED
  BY <1>1, <1>2, <1>3

\* A goroutine that is in no swap before and after, or where it was.
Steady(v) == \/ slot[v].pc # "promote" /\ slot'[v].pc # "promote"
             \/ slot'[v] = slot[v] /\ T(v)'.region = T(v).region

LEMMA SteadySwappers ==
    ASSUME NEW r \in Regions, NEW v \in Slots, Steady(v)
    PROVE  /\ v \in Swapping(r)' <=> v \in Swapping(r)
           /\ v \in Swapping(r)' => slot'[v].old = slot[v].old
BY DEF Steady, Swapping, Busy, At, R

LEMMA AllSteady ==
    ASSUME ServedFacts, ServedFacts', UNCHANGED live, \A v \in Slots : Steady(v)
    PROVE  UNCHANGED Served
<1>1. \A r \in Regions : Served'[r] = Served[r]
  <2> SUFFICES ASSUME NEW r \in Regions PROVE Served'[r] = Served[r]
    OBVIOUS
  <2>1. /\ \A v \in Slots : v \in Swapping(r)' <=> v \in Swapping(r)
        /\ \A v \in Swapping(r)' : slot'[v].old = slot[v].old
    BY SteadySwappers DEF Swapping, Busy
  <2> QED
    BY <2>1, ServedKept
<1>2. Served = [r \in Regions |-> Served[r]] /\ Served' = [r \in Regions |-> Served'[r]]
  BY DEF Served
<1> QED
  BY <1>1, <1>2

\* A handler's step leaves the other goroutines and their tasks alone.
LEMMA OthersSteady ==
    ASSUME IInv, NEW w \in Slots, HandlerStep(w), NEW v \in Slots, v # w
    PROVE  Steady(v)
<1> USE DEF Goto, ReturnNil, ReturnError, Enqueue, FreeTask, queue
<1>1. slot'[v] = slot[v]
  <2>1. slot \in [Slots -> Slot]
    BY DEF IInv, TypeOK
  <2> QED
    BY <2>1 DEF HandlerStep, Mark, MarkError, EnqueueNext, EnqueueError, Ack,
       MarkFailed, MarkJobFailed, MarkStageFailed, MarkFailedLost, Fetch, FetchError, Persist,
       PersistError, Build, BuildError, Geocode, GeocodeError, SwapStat, SwapArchive,
       SwapArchiveError, SwapPromote, SwapPromoteError, SwapCleanup, SwapFinish,
       SwapFinishError, EnqueueCombined, CombinedRouting, DeleteLive, DeleteLiveError,
       DeleteNew, DeleteNewError, DeletePurge, DeleteFinish, DeleteFinishError
<1>2. \A u \in TaskIds : task[u].status = "free" \/ u = slot[w].task \/ task'[u] = task[u]
  <2>1. task \in [TaskIds -> Task]
    BY DEF IInv, TypeOK
  <2> QED
    BY <2>1 DEF HandlerStep, Mark, MarkError, EnqueueNext, EnqueueError, Ack,
       MarkFailed, MarkJobFailed, MarkStageFailed, MarkFailedLost, Fetch, FetchError, Persist,
       PersistError, Build, BuildError, Geocode, GeocodeError, SwapStat, SwapArchive,
       SwapArchiveError, SwapPromote, SwapPromoteError, SwapCleanup, SwapFinish,
       SwapFinishError, EnqueueCombined, CombinedRouting, DeleteLive, DeleteLiveError,
       DeleteNew, DeleteNewError, DeletePurge, DeleteFinish, DeleteFinishError
<1>3. CASE slot[v].pc = "idle"
  BY <1>1, <1>3 DEF Steady
<1>4. CASE slot[v].pc # "idle"
  <2>1. slot[w].pc # "idle"
    BY DEF HandlerStep, Mark, MarkError, EnqueueNext, EnqueueError, Ack, At,
       MarkFailed, MarkJobFailed, MarkStageFailed, MarkFailedLost, Fetch, FetchError, Persist,
       PersistError, Build, BuildError, Geocode, GeocodeError, SwapStat, SwapArchive,
       SwapArchiveError, SwapPromote, SwapPromoteError, SwapCleanup, SwapFinish,
       SwapFinishError, EnqueueCombined, CombinedRouting, DeleteLive, DeleteLiveError,
       DeleteNew, DeleteNewError, DeletePurge, DeleteFinish, DeleteFinishError
  <2>2. /\ slot[v].task \in TaskIds /\ task[slot[v].task].status = "active"
        /\ slot[v].task # slot[w].task
    BY <1>4, <2>1 DEF IInv, BookkeepingInv, ActiveOnOneSlot, Busy
  <2>3. task'[slot[v].task] = task[slot[v].task]
    BY <1>2, <2>2
  <2> QED
    BY <1>1, <2>3 DEF Steady, T
<1> QED
  BY <1>3, <1>4

\* Only the steps of the swap about its old directory are not steady.
LEMMA HandlersSteady ==
    ASSUME IInv, NEW w \in Slots, HandlerStep(w), NEW v \in Slots,
           ~(SwapArchive(w) \/ SwapPromote(w) \/ SwapPromoteError(w))
    PROVE  Steady(v)
<1>1. CASE v # w
  BY <1>1, OthersSteady
<1>2. slot \in [Slots -> Slot] /\ slot[w] \in Slot
  BY DEF IInv, TypeOK
<1>3. slot[w].pc # "promote"
  BY DEF HandlerStep, Mark, MarkError, EnqueueNext, EnqueueError, Ack, At,
     MarkFailed, MarkJobFailed, MarkStageFailed, MarkFailedLost, Fetch, FetchError, Persist,
     PersistError, Build, BuildError, Geocode, GeocodeError, SwapStat,
     SwapArchiveError, SwapCleanup, SwapFinish,
     SwapFinishError, EnqueueCombined, CombinedRouting, DeleteLive, DeleteLiveError,
     DeleteNew, DeleteNewError, DeletePurge, DeleteFinish, DeleteFinishError
<1>4. \E pc \in Pcs \ {"promote"} : Goto(w, pc) \/ slot'[w].pc = pc
  <2>1. WorkPc(T(w).kind) \in Pcs \ {"promote"}
    BY DEF WorkPc, Pcs
  <2>2. slot' = [slot EXCEPT ![w] = Idle] => slot'[w].pc = "idle"
    BY <1>2 DEF Idle
  <2>3. \A x : /\ slot' = [slot EXCEPT ![w].pc = "finish", ![w].old = x] => slot'[w].pc = "finish"
               /\ slot' = [slot EXCEPT ![w].pc = "persist", ![w].sum = x] => slot'[w].pc = "persist"
    BY <1>2 DEF Slot
  <2>4. CASE Mark(w)
    BY <2>1, <2>4 DEF Mark
  <2>5. CASE Fetch(w) \/ SwapCleanup(w)
    BY <2>3, <2>5 DEF Fetch, SwapCleanup, Pcs
  <2>6. CASE ~(Mark(w) \/ Fetch(w) \/ SwapCleanup(w))
    BY <2>2, <2>6 DEF HandlerStep, MarkError, EnqueueNext, EnqueueError, Ack,
       MarkFailed, MarkJobFailed, MarkStageFailed, MarkFailedLost, FetchError, Persist,
       PersistError, Build, BuildError, Geocode, GeocodeError, SwapStat,
       SwapArchiveError, SwapFinish,
       SwapFinishError, EnqueueCombined, CombinedRouting, DeleteLive, DeleteLiveError,
       DeleteNew, DeleteNewError, DeletePurge, DeleteFinish, DeleteFinishError,
       ReturnNil, ReturnError, Pcs
  <2> QED
    BY <2>4, <2>5, <2>6
<1>5. slot'[w].pc # "promote"
  <2>1. \A pc : Goto(w, pc) => slot'[w].pc = pc
    BY <1>2 DEF Goto, Slot
  <2> QED
    BY <1>4, <2>1
<1> QED
  BY <1>1, <1>3, <1>5 DEF Steady

\* Requests, ticks and the queue have no part in a swap.
LEMMA OthersAreSteady ==
    ASSUME IInv, NEW v \in Slots,
           \/ \E c \in Clients : RequestStep(c)
           \/ \E c \in Clients, r \in Regions : Install(c, r) \/ UpdateCheck(c, r) \/ Delete(c, r)
           \/ \E r \in Regions : TickSelect(r)
           \/ TickStep
           \/ \E w \in Slots : Take(w)
           \/ \E t \in TaskIds : RetryDue(t)
           \/ AtRest \/ UNCHANGED vars
    PROVE  Steady(v)
<1> USE DEF queue
<1>0. slot \in [Slots -> Slot] /\ task \in [TaskIds -> Task]
  BY DEF IInv, TypeOK
<1>1. slot[v].pc # "idle" =>
        /\ slot[v].task \in TaskIds /\ task[slot[v].task] \in Task
        /\ task[slot[v].task].status = "active"
  BY <1>0 DEF IInv, BookkeepingInv, ActiveOnOneSlot, Busy
<1>2. ASSUME slot'[v] = slot[v],
             \A u \in TaskIds : task[u].status = "free" \/ task'[u].region = task[u].region
      PROVE  Steady(v)
  BY <1>1, <1>2 DEF Steady, T
<1>3. CASE \E c \in Clients : EnqueueRequest(c)
  BY <1>0, <1>2, <1>3 DEF EnqueueRequest, Enqueue, FreeTask
<1>4. CASE TickEnqueue
  BY <1>0, <1>2, <1>4 DEF TickEnqueue, Enqueue, FreeTask
<1>5. CASE \E t \in TaskIds : RetryDue(t)
  <2>1. PICK t \in TaskIds : task' = [task EXCEPT ![t].status = "pending"] /\ slot' = slot
    BY <1>5 DEF RetryDue
  <2>2. \A u \in TaskIds : task'[u].region = task[u].region
    BY <1>0, <2>1 DEF Task
  <2> QED
    BY <1>2, <2>1, <2>2
<1>6. CASE \E w \in Slots : Take(w)
  <2> DEFINE t == Head(pending)
  <2>1. PICK w \in Slots :
           /\ slot[w].pc = "idle" /\ pending # <<>>
           /\ task' = [task EXCEPT ![t].status = "active"]
           /\ slot' = [slot EXCEPT ![w] = [Idle EXCEPT !.pc = FirstPc(task[t].kind), !.task = t]]
    BY <1>6 DEF Take
  <2>2. t \in TaskIds
    BY <2>1 DEF IInv, TypeOK
  <2> HIDE DEF t
  <2>3. task[t].kind \in TaskKinds
    BY <1>0, <2>2 DEF Task
  <2>4. FirstPc(task[t].kind) # "promote"
    BY <2>3 DEF FirstPc, TaskKinds, ChainKinds, BuildKinds
  <2>5. \A u \in TaskIds : task'[u].region = task[u].region
    BY <1>0, <2>1 DEF Task
  <2>6. CASE v = w
    BY <1>0, <2>1, <2>4, <2>6 DEF Steady, Idle
  <2>7. CASE v # w
    BY <1>0, <1>2, <2>1, <2>5, <2>7
  <2> QED
    BY <2>6, <2>7
<1>7. CASE UNCHANGED <<task, slot>>
  BY <1>2, <1>7
<1> QED
  BY <1>3, <1>4, <1>5, <1>6, <1>7 DEF RequestStep, UpdateCommit, RequestLost, Install,
     UpdateCheck, Delete, TickSelect, TickStep, TickInsert, TickAttach, TickError, AtRest, vars

\* A reader of another region than the swap's notices nothing.
LEMMA ServedElsewhere ==
    ASSUME ServedFacts, ServedFacts', NEW r \in Regions, live'[r] = live[r],
           \A v \in Slots : Steady(v) \/ (R(v) # r /\ T(v)'.region # r)
    PROVE  Served'[r] = Served[r]
<1>1. ASSUME NEW v \in Slots
      PROVE  /\ v \in Swapping(r)' <=> v \in Swapping(r)
             /\ v \in Swapping(r)' => slot'[v].old = slot[v].old
  <2>1. CASE Steady(v)
    BY <2>1, SteadySwappers
  <2>2. CASE R(v) # r /\ T(v)'.region # r
    BY <2>2 DEF Swapping, Busy, R
  <2> QED
    BY <1>1, <2>1, <2>2
<1>2. \A v \in Swapping(r)' : slot'[v].old = slot[v].old
  BY <1>1 DEF Swapping, Busy
<1> QED
  BY <1>1, <1>2, ServedKept

\* The region that a step changes, if any.
LEMMA ServedBecomes ==
    ASSUME NEW r \in Regions, \A q \in Regions : q # r => Served'[q] = Served[q]
    PROVE  \A v : Served'[r] = v =>
              /\ Served' = [Served EXCEPT ![r] = v]
              /\ v = 0 => Served' = [q \in Regions |-> IF q \in {r} THEN 0 ELSE Served[q]]
              /\ v = Served[r] => Served' = Served
<1>1. Served = [q \in Regions |-> Served[q]] /\ Served' = [q \in Regions |-> Served'[q]]
  BY DEF Served
<1> QED
  BY <1>1

\* The two renames of a swap, and the deletion, for a reader of the region.
LEMMA ServedSwapStep ==
    ASSUME SInv, SInv', ServedFacts, ServedFacts', NEW w \in Slots,
           SwapArchive(w) \/ SwapPromote(w) \/ SwapPromoteError(w)
    PROVE  [Promise!Next]_<<Served, upstream>>
<1> USE DEF SInv, queue
<1>1. /\ slot[w].pc \in {"archive", "promote"}
      /\ UNCHANGED <<task, upstream>> /\ slot' = [slot EXCEPT ![w] = slot'[w]]
      /\ slot'[w].pc # "idle" /\ slot'[w].task = slot[w].task
      /\ SwapArchive(w) => slot'[w].pc = "promote" /\ slot'[w].old = live[R(w)]
      /\ ~SwapArchive(w) => slot'[w].pc # "promote"
  <2>1. slot \in [Slots -> Slot] /\ slot[w] \in Slot
    BY DEF IInv, TypeOK
  <2> QED
    BY <2>1 DEF SwapArchive, SwapPromote, SwapPromoteError, At, Goto, Slot
<1>2. PICK t \in TaskIds, r \in Regions : Works(w, t, r)
  BY <1>1, AtWork
<1>3. /\ r = R(w) /\ w \in Busy /\ live \in [Regions -> Dir] /\ live[r] \in Dir
      /\ staged[r] \in Dir /\ slot[w] \in Slot /\ slot[w].old \in Dir
      /\ slot \in [Slots -> Slot] /\ row[r] \in Row
  BY <1>2 DEF Works, IInv, TypeOK, Slot
<1>4. T(w)' = T(w) /\ R(w)' = r
  BY <1>1, <1>3 DEF T, R
<1>5. \A v \in Slots : v # w => slot'[v] = slot[v] /\ Steady(v)
  BY <1>1, <1>3 DEF Steady, T
<1>6. ASSUME NEW q \in Regions, q # r PROVE Served'[q] = Served[q]
  <2>1. live'[q] = live[q]
    BY <1>3, <1>6 DEF SwapArchive, SwapPromote, SwapPromoteError
  <2>2. R(w) # q /\ T(w)'.region # q
    BY <1>3, <1>4, <1>6 DEF R
  <2> QED
    BY <1>5, <2>1, <2>2, ServedElsewhere
<1>7. \A v \in Slots : v # w /\ R(v) = r => slot[v].pc # "promote"
  BY <1>1, <1>3, OneWorker
<1>8. \A v \in Swapping(r) \cup Swapping(r)' : v = w
  <2>1. ASSUME NEW v \in Slots, v # w PROVE v \notin Swapping(r)
    BY <1>7, <2>1 DEF Swapping, At
  <2>2. ASSUME NEW v \in Slots, v # w PROVE v \notin Swapping(r)'
    BY <1>5, <2>1, <2>2, SteadySwappers
  <2> QED
    BY <2>1, <2>2 DEF Swapping, Busy
<1>9. /\ w \in Swapping(r) <=> slot[w].pc = "promote" /\ slot[w].old.here
      /\ w \in Swapping(r)' <=> slot'[w].pc = "promote" /\ slot'[w].old.here
  BY <1>1, <1>3, <1>4 DEF Swapping, Busy, At
<1>10. CASE SwapArchive(w)
  <2>1. ~live'[r].here /\ slot[w].pc # "promote" /\ slot'[w].pc = "promote" /\ slot'[w].old = live[r]
    BY <1>1, <1>3, <1>10 DEF SwapArchive, NoDir, At
  <2>2. Served'[r] = Served[r]
    <3>1. CASE live[r].here
      BY <1>9, <2>1, <3>1 DEF ServedFacts
    <3>2. CASE ~live[r].here
      <4>1. Swapping(r) = {} /\ Swapping(r)' = {}
        BY <1>8, <1>9, <2>1, <3>2
      <4> QED
        BY <2>1, <3>2, <4>1 DEF ServedFacts
    <3> QED
      BY <3>1, <3>2
  <2> QED
    BY <1>1, <1>6, <2>2, ServedBecomes
<1>11. ASSUME slot[w].pc = "promote"
       PROVE  /\ ~live[r].here
              /\ Served[r] = IF slot[w].old.here THEN slot[w].old.has["pbf"] ELSE 0
  <2>1. ~live[r].here
    BY <1>2, <1>11, SwapFinds
  <2>2. CASE slot[w].old.here
    BY <1>9, <1>11, <2>2 DEF ServedFacts
  <2>3. CASE ~slot[w].old.here
    <3>1. Swapping(r) = {}
      BY <1>8, <1>9, <2>3
    <3> QED
      BY <2>1, <2>3, <3>1 DEF ServedFacts
  <2> QED
    BY <2>1, <2>2, <2>3
<1>12. CASE SwapPromote(w)
  <2>1. slot[w].pc = "promote" /\ live'[r] = staged[r]
    BY <1>3, <1>12 DEF SwapPromote, At
  <2>2. staged[r].here /\ staged[r].has["pbf"] = row[r].md5 /\ row[r].md5 # 0
    BY <1>2, <2>1, SwapFinds DEF Whole
  <2>3. staged[r].has["pbf"] <= upstream[r] /\ slot[w].old.has["pbf"] <= row[r].md5
    BY <1>2, <2>1 DEF Works, DirsInv, HandlerInv, At
  <2>4. Served'[r] = row[r].md5
    BY <2>1, <2>2 DEF ServedFacts
  <2>5. /\ row[r].md5 \in Nat /\ upstream[r] \in Nat /\ slot[w].old.has["pbf"] \in Nat
    BY <1>2, <1>3, BoundAssumption, DirTypes DEF Works, Row, Versions
  <2>6. row[r].md5 \in Served[r]..upstream[r]
    BY <1>11, <2>1, <2>2, <2>3, <2>5
  <2>7. Promise!Replace(r)
    BY <1>1, <1>6, <2>2, <2>4, <2>6, ServedBecomes DEF Promise!Replace
  <2> QED
    BY <2>7 DEF Promise!Next
<1>13. CASE SwapPromoteError(w)
  <2>1. slot[w].pc = "promote" /\ slot'[w].pc # "promote"
    BY <1>1, <1>13 DEF SwapPromoteError, SwapArchive, At
  <2>2. CASE slot[w].old.here /\ live'[r] = slot[w].old
    <3>1. Served'[r] = Served[r]
      BY <1>11, <2>1, <2>2 DEF ServedFacts
    <3> QED
      BY <1>1, <1>6, <3>1, ServedBecomes
  <2>3. CASE live'[r] = live[r]
    <3>1. Swapping(r)' = {}
      BY <1>8, <1>9, <2>1
    <3>2. Served'[r] = 0
      BY <1>11, <2>1, <2>3, <3>1 DEF ServedFacts
    <3>3. Promise!Remove({r})
      BY <1>1, <1>6, <3>2, ServedBecomes DEF Promise!Remove
    <3> QED
      BY <3>3 DEF Promise!Next
  <2> QED
    BY <1>3, <1>13, <2>2, <2>3 DEF SwapPromoteError
<1> QED
  BY <1>10, <1>12, <1>13

LEMMA ServedDeleteStep ==
    ASSUME SInv, SInv', ServedFacts, ServedFacts', NEW w \in Slots, DeleteLive(w)
    PROVE  [Promise!Next]_<<Served, upstream>>
<1> USE DEF SInv
<1>1. slot[w].pc = "rmlive" /\ UNCHANGED upstream
  BY DEF DeleteLive, At
<1>2. PICK t \in TaskIds, r \in Regions : Works(w, t, r)
  BY <1>1, AtWork
<1>3. r = R(w) /\ live \in [Regions -> Dir]
  BY <1>2 DEF Works, IInv, TypeOK
<1>4. ~live'[r].here /\ \A q \in Regions : q # r => live'[q] = live[q]
  BY <1>3 DEF DeleteLive, NoDir
<1>5. \A v \in Slots : Steady(v)
  <2>1. HandlerStep(w)
    BY DEF HandlerStep
  <2>2. ~(SwapArchive(w) \/ SwapPromote(w) \/ SwapPromoteError(w))
    BY <1>1 DEF SwapArchive, SwapPromote, SwapPromoteError, At
  <2> QED
    BY <2>1, <2>2, HandlersSteady
<1>6. \A q \in Regions : q # r => Served'[q] = Served[q]
  BY <1>4, <1>5, ServedElsewhere
<1>7. Swapping(r)' = {}
  <2>1. \A v \in Slots : ~(R(v) = r /\ slot[v].pc = "promote")
    BY <1>1, <1>3, OneWorker
  <2>2. \A v \in Slots : v \notin Swapping(r)
    BY <2>1 DEF Swapping, At
  <2>3. \A v \in Slots : v \notin Swapping(r)'
    BY <1>5, <2>2, SteadySwappers
  <2> QED
    BY <2>3 DEF Swapping, Busy
<1>8. Served'[r] = 0
  BY <1>4, <1>7 DEF ServedFacts
<1>9. Promise!Remove({r})
  BY <1>1, <1>6, <1>8, ServedBecomes DEF Promise!Remove
<1> QED
  BY <1>9 DEF Promise!Next

\* With the worker die its swaps: what they had in their hands is gone.
LEMMA ServedCrash ==
    ASSUME ServedFacts, ServedFacts', WorkerCrash
    PROVE  [Promise!Next]_<<Served, upstream>>
<1> DEFINE gone == {r \in Regions : ~live[r].here}
<1>1. UNCHANGED <<live, upstream>> /\ \A w \in Slots : slot'[w].pc = "idle"
  BY DEF WorkerCrash, disk, Idle
<1>2. \A r \in Regions : Swapping(r)' = {}
  BY <1>1 DEF Swapping, Busy
<1>3. \A r \in Regions : Served'[r] = IF r \in gone THEN 0 ELSE Served[r]
  BY <1>1, <1>2 DEF ServedFacts
<1>4. Served' = [r \in Regions |-> Served'[r]]
  BY DEF Served
<1>5. Promise!Remove(gone)
  BY <1>1, <1>3, <1>4 DEF Promise!Remove
<1> QED
  BY <1>5 DEF Promise!Next

LEMMA ServedStep ==
    ASSUME SInv, SInv', "remove_error" \notin Faults, [Next]_vars
    PROVE  [Promise!Next]_<<Served, upstream>>
<1>1. ServedFacts /\ ServedFacts'
  BY ServedAs, ServedAsNext
<1> USE DEF SInv
<1>2. CASE \E w \in Slots : SwapArchive(w) \/ SwapPromote(w) \/ SwapPromoteError(w) \/ DeleteLive(w)
  BY <1>1, <1>2, ServedSwapStep, ServedDeleteStep
<1>3. CASE WorkerCrash
  BY <1>1, <1>3, ServedCrash
<1>4. CASE \E r \in Regions : Publish(r)
  <2>1. PICK r \in Regions : Publish(r)
    BY <1>4
  <2>2. \A v \in Slots : Steady(v)
    BY <2>1 DEF Publish, queue, Steady, T
  <2>3. UNCHANGED Served
    BY <1>1, <2>1, <2>2, AllSteady DEF Publish, disk
  <2>4. Promise!Publish(r)
    BY <2>1, <2>3 DEF Publish, Promise!Publish
  <2> QED
    BY <2>4 DEF Promise!Next
<1>5. CASE /\ ~\E w \in Slots : SwapArchive(w) \/ SwapPromote(w) \/ SwapPromoteError(w) \/ DeleteLive(w)
           /\ ~WorkerCrash /\ ~\E r \in Regions : Publish(r)
  <2>1. \A w \in Slots : ~DeleteLiveError(w)
    BY DEF DeleteLiveError
  <2>2. UNCHANGED live
    BY <1>5, <2>1, LiveWritten, GeocodeStages
  <2>3. \A v \in Slots : Steady(v)
    BY <1>5, OthersAreSteady, HandlersSteady DEF Next
  <2>4. UNCHANGED upstream
    BY <1>5 DEF Next, RequestStep, UpdateCommit, EnqueueRequest, RequestLost, Install,
       UpdateCheck, Delete, TickSelect, TickStep, TickInsert, TickAttach, TickEnqueue,
       TickError, Take, RetryDue, AtRest, vars, HandlerStep,
       Mark, MarkError, EnqueueNext, EnqueueError, Ack,
       MarkFailed, MarkJobFailed, MarkStageFailed, MarkFailedLost, Fetch, FetchError, Persist,
       PersistError, Build, BuildError, Geocode, GeocodeError, SwapStat,
       SwapArchiveError, SwapCleanup, SwapFinish, SwapFinishError, EnqueueCombined,
       CombinedRouting, DeleteLiveError, DeleteNew, DeleteNewError, DeletePurge, DeleteFinish,
       DeleteFinishError
  <2>5. UNCHANGED Served
    BY <1>1, <2>2, <2>3, AllSteady
  <2> QED
    BY <2>4, <2>5
<1> QED
  BY <1>2, <1>3, <1>4, <1>5

LEMMA ServedStart == Init => Promise!Init
BY DEF Init, Promise!Init, Served, NoDir, Swapping, Busy, Idle

\* The pipeline implements ServedRegion: a reader of a region sees it absent or
\* as a complete build, and a release replaced by one that is no older.
THEOREM PipelineServesWholeReleases ==
    SerialAssumption /\ "remove_error" \notin Faults => (Spec => ServesWholeReleases)
<1> SUFFICES ASSUME SerialAssumption, "remove_error" \notin Faults PROVE Spec => ServesWholeReleases
  OBVIOUS
<1>1. Init => Promise!Init
  BY ServedStart
<1>2. SInv /\ SInv' /\ [Next]_vars => [Promise!Next]_<<Served, upstream>>
  BY ServedStep
<1> QED
  BY <1>1, <1>2, SerialStates, PTL DEF Spec, ServesWholeReleases, Promise!Spec

=============================================================================
