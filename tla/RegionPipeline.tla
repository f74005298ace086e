--------------------------- MODULE RegionPipeline ---------------------------
(***************************************************************************)
(* The life of a region: the gateway's admin requests (server/internal/    *)
(* regions), the worker's scheduler (worker/internal/scheduler), the Asynq *)
(* queue between them, and the worker's chain of handlers                  *)
(*     install | update -> tiles -> routing -> geocoding -> swap           *)
(* and delete (worker/cmd/worker, worker/internal/install), with the rows  *)
(* they write in config.db and the directories they build under            *)
(* <data>/regions.                                                         *)
(*                                                                         *)
(* One step is one SQLite transaction or statement, one file-system        *)
(* operation, or one Asynq call.  A handler's local control is slot[w].pc. *)
(***************************************************************************)
EXTENDS Naturals, Sequences, FiniteSets

CONSTANTS
    Regions,    \* canonical region keys
    NoRegion,   \* the region of a task that has none (combined routing)
    Slots,      \* the worker's handler goroutines (Concurrency)
    Clients,    \* admin requests the gateway serves at the same time
    MaxJobs,    \* bound: rows ever inserted in the jobs table
    MaxTasks,   \* bound: Asynq tasks outstanding at the same time
    MaxRetry,   \* bound: retries of one task (Asynq's default is 25)
    MaxVersion, \* bound: releases of an extract on the upstream mirror
    Faults,     \* the faults the environment may inject
    CrashKinds, \* the worker may crash while it runs tasks of these kinds
    AckLost,    \* TRUE: also when all such a task has left to do is to return
    OneAtATime  \* TRUE: nobody asks for a region that is still being worked on

FaultKinds == {"work_error",   \* a download, build tool or purge fails
               "timeout",      \* the task's context expires before it reports
               "db_busy",      \* SQLite refuses a write ("database is locked")
               "redis_error",  \* Redis refuses an enqueue
               "rename_error", \* moving a region directory fails
               "remove_error", \* removing a region directory fails halfway
               "lost_request"} \* the gateway stops between commit and enqueue

BuildKinds == {"tiles", "routing", "geocoding"}
ChainKinds == {"install", "update", "swap"} \cup BuildKinds
TaskKinds  == ChainKinds \cup {"delete", "combined"}

ASSUME RegionAssumption == NoRegion \notin Regions
ASSUME BoundAssumption ==
    /\ MaxJobs \in Nat
    /\ MaxTasks \in Nat
    /\ MaxRetry \in Nat
    /\ MaxVersion \in Nat \ {0}
ASSUME FaultAssumption ==
    /\ Faults \subseteq FaultKinds
    /\ CrashKinds \subseteq TaskKinds
    /\ AckLost \in BOOLEAN
    /\ OneAtATime \in BOOLEAN

VARIABLES
    row,      \* regions table: state, active_job_id, md5 of the pbf
    job,      \* jobs table: state, kind and region of each row
    task,     \* the Asynq tasks that are not finished
    pending,  \* Asynq's pending list, oldest first
    slot,     \* the handler goroutines
    client,   \* the admin requests in progress
    sched,    \* the scheduler goroutine
    live,     \* <data>/regions/<region>
    staged,   \* <data>/regions/<region>.new
    upstream  \* the release the mirror publishes

db    == <<row, job>>
queue == <<task, pending>>
disk  == <<live, staged>>
vars  == <<row, job, task, pending, slot, client, sched, live, staged, upstream>>

-----------------------------------------------------------------------------
JobIds   == 1..MaxJobs
TaskIds  == 1..MaxTasks
Versions == 0..MaxVersion          \* 0: missing, or partial and unusable

RowStates == {"absent", "not_installed", "downloading", "processing_tiles",
              "processing_routing", "processing_geocoding", "ready",
              "updating", "failed", "archived"}
JobStates == {"none", "queued", "failed", "succeeded"}
JobKinds  == {"install", "update", "delete"}

\* A region directory: source.osm.pbf, map.pmtiles, the valhalla tar and the
\* manifest's geocoding section, each by the release it was made from.
Parts == {"pbf", "tiles", "routing", "geo"}
Dir   == [here: BOOLEAN, has: [Parts -> Versions]]
NoDir == [here |-> FALSE, has |-> [p \in Parts |-> 0]]

\* os.MkdirAll: an existing directory is left as it is.
Made(d) == [d EXCEPT !.here = TRUE]
With(d, p, v) == [here |-> TRUE, has |-> [d.has EXCEPT ![p] = v]]
Whole(d) == /\ d.here
            /\ d.has["pbf"] # 0
            /\ \A p \in Parts : d.has[p] = d.has["pbf"]

Row  == [state: RowStates, job: 0..MaxJobs, md5: Versions]
Job  == [state: JobStates, kind: JobKinds, region: Regions \cup {NoRegion}]
Task == [status: {"free", "pending", "active", "retry"}, kind: TaskKinds,
         region: Regions \cup {NoRegion}, job: 0..MaxJobs, tries: 0..MaxRetry]

NoJob  == [state |-> "none", kind |-> "install", region |-> NoRegion]
NoTask == [status |-> "free", kind |-> "combined", region |-> NoRegion,
           job |-> 0, tries |-> 0]

Pcs == {"idle", "mark", "fetch", "persist", "build", "enqueue", "stat",
        "archive", "promote", "cleanup", "finish", "combine", "rmlive",
        "rmnew", "purge", "finish_delete", "combined", "fail", "fail_job",
        "ack"}
Slot   == [pc: Pcs, task: 0..MaxTasks, sum: Versions, old: Dir]
Idle   == [pc |-> "idle", task |-> 0, sum |-> 0, old |-> NoDir]

ClientState == [pc: {"idle", "commit_update", "enqueue"}, kind: JobKinds,
                region: Regions \cup {NoRegion}, job: 0..MaxJobs]
NoRequest == [pc |-> "idle", kind |-> "install", region |-> NoRegion, job |-> 0]

SchedState == [pc: {"idle", "insert", "attach", "enqueue"},
               region: Regions \cup {NoRegion}, job: 0..MaxJobs]
NoTick == [pc |-> "idle", region |-> NoRegion, job |-> 0]

TypeOK ==
    /\ row \in [Regions -> Row]
    /\ job \in [JobIds -> Job]
    /\ task \in [TaskIds -> Task]
    /\ pending \in Seq(TaskIds)
    /\ slot \in [Slots -> Slot]
    /\ client \in [Clients -> ClientState]
    /\ sched \in SchedState
    /\ live \in [Regions -> Dir]
    /\ staged \in [Regions -> Dir]
    /\ upstream \in [Regions -> Versions \ {0}]

Init ==
    /\ row = [r \in Regions |-> [state |-> "absent", job |-> 0, md5 |-> 0]]
    /\ job = [j \in JobIds |-> NoJob]
    /\ task = [t \in TaskIds |-> NoTask]
    /\ pending = <<>>
    /\ slot = [w \in Slots |-> Idle]
    /\ client = [c \in Clients |-> NoRequest]
    /\ sched = NoTick
    /\ live = [r \in Regions |-> NoDir]
    /\ staged = [r \in Regions |-> NoDir]
    /\ upstream = [r \in Regions |-> 1]

-----------------------------------------------------------------------------
(* Shared helpers: job ids, the queue, the rows.                           *)

\* A request that is in progress holds the uuid of the job it will insert.
Held == {client[c].job : c \in Clients} \cup {sched.job}
FreshJob(j) ==
    /\ job[j].state = "none" /\ j \notin Held
    /\ \A i \in JobIds : job[i].state = "none" /\ i \notin Held => j <= i

FreeTask(t) ==
    /\ task[t].status = "free"
    /\ \A u \in TaskIds : task[u].status = "free" => t <= u

\* asynq.Client.EnqueueContext: no task id, no uniqueness option.
Enqueue(k, r, j) ==
    \E t \in TaskIds :
        /\ FreeTask(t)
        /\ task' = [task EXCEPT ![t] =
               [status |-> "pending", kind |-> k, region |-> r, job |-> j, tries |-> 0]]
        /\ pending' = Append(pending, t)

\* Nobody is working on the region: no request, tick or task is about it.
Quiet(r) ==
    /\ \A c \in Clients : client[c].region # r
    /\ sched.region # r
    /\ \A t \in TaskIds : task[t].region # r
MayRequest(r) == OneAtATime => Quiet(r)

-----------------------------------------------------------------------------
(* Gateway: Service.Install, Update and Delete.  The row and the job are   *)
(* committed first, the task is enqueued after the commit.                 *)

Request(c, pc, k, r, j) ==
    client' = [client EXCEPT ![c] = [pc |-> pc, kind |-> k, region |-> r, job |-> j]]

\* INSERT INTO jobs in the transaction that points the region at the job.
InsertJob(j, k, r) == job' = [job EXCEPT ![j] = [state |-> "queued", kind |-> k, region |-> r]]

\* Reads the row and writes it in one transaction.
Install(c, r) ==
    /\ client[c].pc = "idle" /\ MayRequest(r)
    /\ row[r].state \in {"absent", "not_installed", "archived", "failed"}
    /\ \E j \in JobIds :
        /\ FreshJob(j)
        /\ row' = [row EXCEPT ![r].state = "downloading", ![r].job = j]
        /\ InsertJob(j, "install", r)
        /\ Request(c, "enqueue", "install", r, j)
    /\ UNCHANGED <<queue, slot, sched, disk, upstream>>

\* The state is read and checked outside the transaction ...
UpdateCheck(c, r) ==
    /\ client[c].pc = "idle" /\ MayRequest(r)
    /\ row[r].state \in {"ready", "failed"}
    /\ \E j \in JobIds : FreshJob(j) /\ Request(c, "commit_update", "update", r, j)
    /\ UNCHANGED <<db, queue, slot, sched, disk, upstream>>

\* Mutant: the transaction points the region at a job it never inserts.
UpdateCommit_NoJobRow(c) ==
    /\ client[c].pc = "commit_update"
    /\ row' = [row EXCEPT ![client[c].region].state = "updating",
                          ![client[c].region].job = client[c].job]
    /\ client' = [client EXCEPT ![c].pc = "enqueue"]
    /\ UNCHANGED <<job, queue, slot, sched, disk, upstream>>

\* ... and written without looking at it again.
UpdateCommit(c) ==
    LET r == client[c].region
        j == client[c].job
    IN  /\ client[c].pc = "commit_update"
        /\ row' = [row EXCEPT ![r].state = "updating", ![r].job = j]
        /\ InsertJob(j, "update", r)
        /\ client' = [client EXCEPT ![c].pc = "enqueue"]
        /\ UNCHANGED <<queue, slot, sched, disk, upstream>>

\* Only needs the row to exist, and rows are never removed.
Delete(c, r) ==
    /\ client[c].pc = "idle" /\ MayRequest(r)
    /\ row[r].state # "absent"
    /\ \E j \in JobIds :
        /\ FreshJob(j)
        /\ row' = [row EXCEPT ![r].state = "archived", ![r].job = j]
        /\ InsertJob(j, "delete", r)
        /\ Request(c, "enqueue", "delete", r, j)
    /\ UNCHANGED <<queue, slot, sched, disk, upstream>>

EnqueueRequest(c) ==
    /\ client[c].pc = "enqueue"
    /\ Enqueue(client[c].kind, client[c].region, client[c].job)
    /\ client' = [client EXCEPT ![c] = NoRequest]
    /\ UNCHANGED <<db, slot, sched, disk, upstream>>

\* The gateway stops, the commit fails, or Redis refuses the task: the request
\* ends where it is and what it committed stays.
RequestLost(c) ==
    /\ client[c].pc # "idle"
    /\ Faults \cap {"lost_request", "redis_error"} # {}
    /\ client' = [client EXCEPT ![c] = NoRequest]
    /\ UNCHANGED <<db, queue, slot, sched, disk, upstream>>

-----------------------------------------------------------------------------
(* Worker: the scheduler.  Three separate writes per due region.           *)

\* The query selects rows that are ready and whose schedule is due (time is
\* not bounded here, so a scheduled region may be due at any moment).
TickSelect(r) ==
    /\ sched.pc = "idle" /\ MayRequest(r)
    /\ row[r].state = "ready"
    /\ \E j \in JobIds :
        /\ FreshJob(j)
        /\ sched' = [pc |-> "insert", region |-> r, job |-> j]
    /\ UNCHANGED <<db, queue, slot, client, disk, upstream>>

\* UpdateCheck.ShouldUpdate compares the recorded md5 with the upstream one.
TickInsert ==
    /\ sched.pc = "insert"
    /\ IF row[sched.region].md5 # upstream[sched.region]
       THEN /\ InsertJob(sched.job, "update", sched.region)
            /\ sched' = [sched EXCEPT !.pc = "attach"]
       ELSE sched' = NoTick /\ UNCHANGED job
    /\ UNCHANGED <<row, queue, slot, client, disk, upstream>>

TickAttach ==
    /\ sched.pc = "attach"
    /\ row' = [row EXCEPT ![sched.region].job = sched.job]
    /\ sched' = [sched EXCEPT !.pc = "enqueue"]
    /\ UNCHANGED <<job, queue, slot, client, disk, upstream>>

TickEnqueue ==
    /\ sched.pc = "enqueue"
    /\ Enqueue("update", sched.region, sched.job)
    /\ sched' = NoTick
    /\ UNCHANGED <<db, slot, client, disk, upstream>>

\* An error at any of the steps is logged and the tick moves on.
TickError ==
    /\ sched.pc # "idle"
    /\ Faults \cap {"db_busy", "redis_error"} # {}
    /\ sched' = NoTick
    /\ UNCHANGED <<db, queue, slot, client, disk, upstream>>

\* The mirror publishes a new release.
Publish(r) ==
    /\ upstream[r] < MaxVersion
    /\ upstream' = [upstream EXCEPT ![r] = @ + 1]
    /\ UNCHANGED <<db, queue, slot, client, sched, disk>>

-----------------------------------------------------------------------------
(* Asynq, as the worker uses it: at-least-once, first in first out, a      *)
(* failed task is retried until MaxRetry and then archived.                *)

FirstPc(k) == CASE k \in {"install", "update", "swap"} \cup BuildKinds -> "mark"
                [] k = "delete"   -> "rmlive"
                [] k = "combined" -> "combined"

\* Mutant: a task stays on the pending list while a handler runs it.
Take_Leaves(w) ==
    /\ slot[w].pc = "idle"
    /\ pending # <<>>
    /\ LET t == Head(pending) IN
        /\ task' = [task EXCEPT ![t].status = "active"]
        /\ slot' = [slot EXCEPT ![w] = [Idle EXCEPT !.pc = FirstPc(task[t].kind), !.task = t]]
    /\ UNCHANGED <<pending, db, client, sched, disk, upstream>>

Take(w) ==
    /\ slot[w].pc = "idle"
    /\ pending # <<>>
    /\ LET t == Head(pending) IN
        /\ task' = [task EXCEPT ![t].status = "active"]
        /\ slot' = [slot EXCEPT ![w] = [Idle EXCEPT !.pc = FirstPc(task[t].kind), !.task = t]]
    /\ pending' = Tail(pending)
    /\ UNCHANGED <<db, client, sched, disk, upstream>>

\* Mutant: retried for ever.
Failed_NoLimit(t) == [task[t] EXCEPT !.status = "retry", !.tries = @ + 1]

\* What is left of a task whose handler returned an error or died.
Failed(t) == IF task[t].tries < MaxRetry
             THEN [task[t] EXCEPT !.status = "retry", !.tries = @ + 1]
             ELSE NoTask

\* Mutant: the task is forwarded twice.
RetryDue_Twice(t) ==
    /\ task[t].status = "retry"
    /\ task' = [task EXCEPT ![t].status = "pending"]
    /\ pending' = Append(Append(pending, t), t)
    /\ UNCHANGED <<db, slot, client, sched, disk, upstream>>

\* The retry delay is over.
RetryDue(t) ==
    /\ task[t].status = "retry"
    /\ task' = [task EXCEPT ![t].status = "pending"]
    /\ pending' = Append(pending, t)
    /\ UNCHANGED <<db, slot, client, sched, disk, upstream>>

\* The worker process dies with every handler and the scheduler in it; Asynq
\* finds the expired leases and treats the tasks as failed.
Busy == {w \in Slots : slot[w].pc # "idle"}
\* The handler has handed over or closed its job, and Asynq does not know yet.
\* (A swap closes its job some steps before it returns.)
HasEnded(w) == slot[w].pc = "ack" /\ task[slot[w].task].kind # "swap"
WorkerCrash ==
    /\ CrashKinds # {}
    /\ \A w \in Busy : task[slot[w].task].kind \in CrashKinds
    /\ AckLost \/ \A w \in Busy : ~HasEnded(w)
    /\ Busy # {} \/ sched.pc # "idle"
    /\ task' = [t \in TaskIds |-> IF task[t].status = "active" THEN Failed(t) ELSE task[t]]
    /\ slot' = [w \in Slots |-> Idle]
    /\ sched' = NoTick
    /\ UNCHANGED <<db, pending, client, disk, upstream>>

-----------------------------------------------------------------------------
(* Worker: what the handlers share.                                        *)

T(w)       == task[slot[w].task]
R(w)       == T(w).region
At(w, pc)  == slot[w].pc = pc
Goto(w, pc) == slot' = [slot EXCEPT ![w].pc = pc]

\* The handler returns nil or an error: Asynq settles its task.
ReturnNil(w) ==
    /\ task' = [task EXCEPT ![slot[w].task] = NoTask]
    /\ slot' = [slot EXCEPT ![w] = Idle]
ReturnError(w) ==
    /\ task' = [task EXCEPT ![slot[w].task] = Failed(slot[w].task)]
    /\ slot' = [slot EXCEPT ![w] = Idle]

SetJob(j, st) == job' = IF j \in JobIds THEN [job EXCEPT ![j].state = st] ELSE job

EntryState(k) == CASE k = "install"   -> "downloading"
                   [] k = "tiles"     -> "processing_tiles"
                   [] k = "routing"   -> "processing_routing"
                   [] k = "geocoding" -> "processing_geocoding"
                   [] OTHER           -> "updating"
WorkPc(k) == CASE k \in {"install", "update"} -> "fetch"
               [] k \in BuildKinds -> "build"
               [] OTHER -> "stat"

\* markState, advanceStage: whatever the row says, it now says this.
Mark(w) ==
    /\ At(w, "mark")
    /\ row' = [row EXCEPT ![R(w)].state = EntryState(T(w).kind)]
    /\ Goto(w, WorkPc(T(w).kind))
    /\ UNCHANGED <<job, queue, client, sched, disk, upstream>>

\* install and update mark the region failed, the chain handlers just return.
MarkError(w) ==
    /\ At(w, "mark") /\ "db_busy" \in Faults
    /\ IF T(w).kind \in {"install", "update"}
       THEN Goto(w, "fail") /\ UNCHANGED task
       ELSE ReturnError(w)
    /\ UNCHANGED <<db, pending, client, sched, disk, upstream>>

\* Mutant: the chain forgets the geocoding stage.
NextKind_SkipsGeocoding(k) == CASE k \in {"install", "update"} -> "tiles"
                                [] k = "tiles" -> "routing"
                                [] OTHER       -> "swap"

NextKind(k) == CASE k \in {"install", "update"} -> "tiles"
                 [] k = "tiles"   -> "routing"
                 [] k = "routing" -> "geocoding"
                 [] OTHER         -> "swap"

\* Mutant: the payload names a region of another task.
EnqueueNext_WrongRegion(w) ==
    /\ At(w, "enqueue")
    /\ \E t \in TaskIds : /\ task[t].region # NoRegion
                          /\ Enqueue(NextKind(T(w).kind), task[t].region, T(w).job)
    /\ Goto(w, "ack")
    /\ UNCHANGED <<db, client, sched, disk, upstream>>

\* enqueueNextStage, enqueueSwap and the last lines of run and runUpdate.
EnqueueNext(w) ==
    /\ At(w, "enqueue")
    /\ Enqueue(NextKind(T(w).kind), R(w), T(w).job)
    /\ Goto(w, "ack")
    /\ UNCHANGED <<db, client, sched, disk, upstream>>

EnqueueError(w) ==
    /\ At(w, "enqueue") /\ Faults \cap {"redis_error", "timeout"} # {}
    /\ IF T(w).kind \in {"install", "update"}
       THEN Goto(w, "fail") /\ UNCHANGED task
       ELSE ReturnError(w)
    /\ UNCHANGED <<db, pending, client, sched, disk, upstream>>

\* Mutant: the handler returns an error after it has handed over.
Ack_AsError(w) ==
    /\ At(w, "ack")
    /\ ReturnError(w)
    /\ UNCHANGED <<db, pending, client, sched, disk, upstream>>

Ack(w) ==
    /\ At(w, "ack")
    /\ ReturnNil(w)
    /\ UNCHANGED <<db, pending, client, sched, disk, upstream>>

\* install.markFailed: region and job in one transaction.
MarkFailed(w) ==
    /\ At(w, "fail") /\ T(w).kind \in {"install", "update", "delete"}
    /\ row' = [row EXCEPT ![R(w)].state = "failed"]
    /\ SetJob(T(w).job, "failed")
    /\ ReturnError(w)
    /\ UNCHANGED <<pending, client, sched, disk, upstream>>

\* markStageFailed: two statements, either of which may be refused.
MarkStageFailed(w) ==
    /\ At(w, "fail") /\ T(w).kind \in {"swap"} \cup BuildKinds
    /\ \/ row' = [row EXCEPT ![R(w)].state = "failed"]
       \/ "db_busy" \in Faults /\ UNCHANGED row
    /\ Goto(w, "fail_job")
    /\ UNCHANGED <<job, queue, client, sched, disk, upstream>>

\* Mutant: the job row is left open.
MarkJobFailed_LeavesQueued(w) ==
    /\ At(w, "fail_job")
    /\ ReturnError(w)
    /\ UNCHANGED <<job, row, pending, client, sched, disk, upstream>>

MarkJobFailed(w) ==
    /\ At(w, "fail_job")
    /\ \/ SetJob(T(w).job, "failed")
       \/ "db_busy" \in Faults /\ UNCHANGED job
    /\ ReturnError(w)
    /\ UNCHANGED <<row, pending, client, sched, disk, upstream>>

\* The failure is never recorded: the transaction is refused, or the task ran
\* into its deadline, and then the writes use a context that is already done.
MarkFailedLost(w) ==
    /\ At(w, "fail")
    /\ \/ "timeout" \in Faults
       \/ "db_busy" \in Faults /\ T(w).kind \in {"install", "update", "delete"}
    /\ ReturnError(w)
    /\ UNCHANGED <<db, pending, client, sched, disk, upstream>>

-----------------------------------------------------------------------------
(* Worker: region:install and region:update.                               *)

WorkFails == Faults \cap {"work_error", "timeout"} # {}

\* A download, or for an install the pbf already in .new when its md5 is the
\* upstream one: either way .new holds the current release afterwards.
Fetch(w) ==
    /\ At(w, "fetch")
    /\ staged' = [staged EXCEPT ![R(w)] = With(@, "pbf", upstream[R(w)])]
    /\ slot' = [slot EXCEPT ![w].pc = "persist", ![w].sum = upstream[R(w)]]
    /\ UNCHANGED <<db, queue, client, sched, live, upstream>>

\* The catalog, the directory or the download fails.  An install has by then
\* removed a pbf whose md5 is not the upstream one.
FetchError(w) ==
    /\ At(w, "fetch") /\ WorkFails
    /\ \/ UNCHANGED staged
       \/ staged' = [staged EXCEPT ![R(w)] = Made(@)]
       \/ /\ T(w).kind = "install"
          /\ staged[R(w)].has["pbf"] # upstream[R(w)]
          /\ staged' = [staged EXCEPT ![R(w)] = With(@, "pbf", 0)]
    /\ Goto(w, "fail")
    /\ UNCHANGED <<db, queue, client, sched, live, upstream>>

\* Mutant: records the md5 the mirror publishes now, not the one of the file.
Persist_Upstream(w) ==
    /\ At(w, "persist")
    /\ row' = [row EXCEPT ![R(w)].md5 = upstream[R(w)]]
    /\ Goto(w, "enqueue")
    /\ UNCHANGED <<job, queue, client, sched, disk, upstream>>

\* persistSourceMeta, long before the release is live.
Persist(w) ==
    /\ At(w, "persist")
    /\ row' = [row EXCEPT ![R(w)].md5 = slot[w].sum]
    /\ Goto(w, "enqueue")
    /\ UNCHANGED <<job, queue, client, sched, disk, upstream>>

PersistError(w) ==
    /\ At(w, "persist") /\ Faults \cap {"db_busy", "timeout"} # {}
    /\ Goto(w, "fail")
    /\ UNCHANGED <<db, queue, client, sched, disk, upstream>>

-----------------------------------------------------------------------------
(* Worker: pipeline:tiles, pipeline:routing, pipeline:geocoding.           *)

Part(k) == CASE k = "tiles" -> "tiles" [] k = "routing" -> "routing" [] OTHER -> "geo"

\* tiles and routing build in .new from the pbf in .new.
Build(w) ==
    /\ At(w, "build") /\ T(w).kind \in {"tiles", "routing"}
    /\ staged[R(w)].has["pbf"] # 0
    /\ staged' = [staged EXCEPT ![R(w)] = With(@, Part(T(w).kind), @.has["pbf"])]
    /\ Goto(w, "enqueue")
    /\ UNCHANGED <<db, queue, client, sched, live, upstream>>

\* Mutant: the exit code of the tool is ignored.
BuildError_Ignored(w) ==
    /\ At(w, "build") /\ T(w).kind \in {"tiles", "routing"}
    /\ WorkFails \/ staged[R(w)].has["pbf"] = 0
    /\ staged' = [staged EXCEPT ![R(w)] = With(@, Part(T(w).kind), 0)]
    /\ Goto(w, "enqueue")
    /\ UNCHANGED <<db, queue, client, sched, live, upstream>>

\* Without a pbf the tool fails.  Whatever failed, .new exists by then, and the
\* artefact is the old one, cut off, or finished but not in the manifest.
BuildError(w) ==
    /\ At(w, "build") /\ T(w).kind \in {"tiles", "routing"}
    /\ WorkFails \/ staged[R(w)].has["pbf"] = 0
    /\ \/ staged' = [staged EXCEPT ![R(w)] = Made(@)]
       \/ \E v \in {0, staged[R(w)].has["pbf"]} :
              staged' = [staged EXCEPT ![R(w)] = With(@, Part(T(w).kind), v)]
    /\ Goto(w, "fail")
    /\ UNCHANGED <<db, queue, client, sched, live, upstream>>

\* geocoding falls back to the live directory when .new has no pbf.
Geocode(w) ==
    /\ At(w, "build") /\ T(w).kind = "geocoding"
    /\ \/ /\ staged[R(w)].has["pbf"] # 0
          /\ staged' = [staged EXCEPT ![R(w)] = With(@, "geo", @.has["pbf"])]
          /\ UNCHANGED live
       \/ /\ staged[R(w)].has["pbf"] = 0 /\ live[R(w)].has["pbf"] # 0
          /\ live' = [live EXCEPT ![R(w)] = With(@, "geo", @.has["pbf"])]
          /\ UNCHANGED staged
    /\ Goto(w, "enqueue")
    /\ UNCHANGED <<db, queue, client, sched, upstream>>

GeocodeError(w) ==
    /\ At(w, "build") /\ T(w).kind = "geocoding"
    /\ WorkFails \/ (staged[R(w)].has["pbf"] = 0 /\ live[R(w)].has["pbf"] = 0)
    /\ Goto(w, "fail")
    /\ UNCHANGED <<db, queue, client, sched, disk, upstream>>

-----------------------------------------------------------------------------
(* Worker: region:swap.                                                    *)

\* Mutant: the live directory is archived before anyone looks for .new.
SwapStat_ArchivesFirst(w) ==
    /\ At(w, "stat")
    /\ Goto(w, IF staged[R(w)].here \/ live[R(w)].here THEN "archive" ELSE "fail")
    /\ UNCHANGED <<db, queue, client, sched, disk, upstream>>

\* .new is promoted if it is a directory.  When it is gone and the live one
\* has a pbf, an earlier attempt promoted it already.
SwapStat(w) ==
    /\ At(w, "stat")
    /\ Goto(w, IF staged[R(w)].here THEN "archive"
               ELSE IF live[R(w)].has["pbf"] # 0 THEN "finish" ELSE "fail")
    /\ UNCHANGED <<db, queue, client, sched, disk, upstream>>

SwapArchive(w) ==
    /\ At(w, "archive")
    /\ slot' = [slot EXCEPT ![w].pc = "promote", ![w].old = live[R(w)]]
    /\ live' = [live EXCEPT ![R(w)] = NoDir]
    /\ UNCHANGED <<db, queue, client, sched, staged, upstream>>

SwapArchiveError(w) ==
    /\ At(w, "archive") /\ "rename_error" \in Faults /\ live[R(w)].here
    /\ Goto(w, "fail")
    /\ UNCHANGED <<db, queue, client, sched, disk, upstream>>

\* Renaming a directory over one that is not there.
SwapPromote(w) ==
    /\ At(w, "promote")
    /\ staged[R(w)].here /\ ~live[R(w)].here
    /\ live' = [live EXCEPT ![R(w)] = staged[R(w)]]
    /\ staged' = [staged EXCEPT ![R(w)] = NoDir]
    /\ Goto(w, "cleanup")
    /\ UNCHANGED <<db, queue, client, sched, upstream>>

\* Mutant: the error of the second rename is dropped.
SwapPromoteError_Dropped(w) ==
    /\ At(w, "promote")
    /\ "rename_error" \in Faults \/ ~staged[R(w)].here \/ live[R(w)].here
    /\ slot' = [slot EXCEPT ![w].pc = "finish", ![w].old = NoDir]
    /\ UNCHANGED <<db, queue, client, sched, disk, upstream>>

\* The archive is moved back if that is possible.
SwapPromoteError(w) ==
    /\ At(w, "promote")
    /\ "rename_error" \in Faults \/ ~staged[R(w)].here \/ live[R(w)].here
    /\ \/ /\ slot[w].old.here /\ ~live[R(w)].here
          /\ live' = [live EXCEPT ![R(w)] = slot[w].old]
       \/ /\ slot[w].old.here => live[R(w)].here \/ "rename_error" \in Faults
          /\ UNCHANGED live
    /\ slot' = [slot EXCEPT ![w].pc = "fail", ![w].old = NoDir]
    /\ UNCHANGED <<db, queue, client, sched, staged, upstream>>

\* Removing the archive; an error here is only logged.
SwapCleanup(w) ==
    /\ At(w, "cleanup")
    /\ slot' = [slot EXCEPT ![w].pc = "finish", ![w].old = NoDir]
    /\ UNCHANGED <<db, queue, client, sched, disk, upstream>>

\* Mutant: the region keeps pointing at the job that is closed.
SwapFinish_KeepsJob(w) ==
    /\ At(w, "finish")
    /\ row' = [row EXCEPT ![R(w)].state = "ready"]
    /\ SetJob(T(w).job, "succeeded")
    /\ Goto(w, "combine")
    /\ UNCHANGED <<queue, client, sched, disk, upstream>>

\* finishSwap: ready, and no active job whichever job that was.
SwapFinish(w) ==
    /\ At(w, "finish")
    /\ row' = [row EXCEPT ![R(w)].state = "ready", ![R(w)].job = 0]
    /\ SetJob(T(w).job, "succeeded")
    /\ Goto(w, "combine")
    /\ UNCHANGED <<queue, client, sched, disk, upstream>>

SwapFinishError(w) ==
    /\ At(w, "finish") /\ Faults \cap {"db_busy", "timeout"} # {}
    /\ ReturnError(w)
    /\ UNCHANGED <<db, pending, client, sched, disk, upstream>>

\* Mutant: a failed enqueue of the combined build fails the swap.
EnqueueCombined_Fatal(w) ==
    /\ At(w, "combine")
    /\ \/ Enqueue("combined", NoRegion, 0) /\ Goto(w, "ack")
       \/ "redis_error" \in Faults /\ UNCHANGED queue /\ Goto(w, "fail")
    /\ UNCHANGED <<db, client, sched, disk, upstream>>

\* The combined routing graph is rebuilt; a failed enqueue is only logged.
EnqueueCombined(w) ==
    /\ At(w, "combine")
    /\ \/ Enqueue("combined", NoRegion, 0)
       \/ "redis_error" \in Faults /\ UNCHANGED queue
    /\ Goto(w, "ack")
    /\ UNCHANGED <<db, client, sched, disk, upstream>>

\* build_combined_routing reads the ready regions and writes only the
\* _combined directory and the .active-region pointer, which are not state of
\* this module: here it takes its turn on a slot, and succeeds or fails.
CombinedRouting(w) ==
    /\ At(w, "combined")
    /\ \/ ReturnNil(w)
       \/ WorkFails /\ ReturnError(w)
    /\ UNCHANGED <<db, pending, client, sched, disk, upstream>>

-----------------------------------------------------------------------------
(* Worker: region:delete.                                                  *)

\* os.RemoveAll may fail halfway.
Remainder(d) == {[d EXCEPT !.has = [p \in Parts |-> IF p \in gone THEN 0 ELSE d.has[p]]]
                    : gone \in SUBSET Parts}

DeleteLive(w) ==
    /\ At(w, "rmlive")
    /\ live' = [live EXCEPT ![R(w)] = NoDir]
    /\ Goto(w, "rmnew")
    /\ UNCHANGED <<db, queue, client, sched, staged, upstream>>

DeleteLiveError(w) ==
    /\ At(w, "rmlive") /\ "remove_error" \in Faults
    /\ \E d \in Remainder(live[R(w)]) : live' = [live EXCEPT ![R(w)] = d]
    /\ Goto(w, "fail")
    /\ UNCHANGED <<db, queue, client, sched, staged, upstream>>

DeleteNew(w) ==
    /\ At(w, "rmnew")
    /\ staged' = [staged EXCEPT ![R(w)] = NoDir]
    /\ Goto(w, "purge")
    /\ UNCHANGED <<db, queue, client, sched, live, upstream>>

DeleteNewError(w) ==
    /\ At(w, "rmnew") /\ "remove_error" \in Faults
    /\ \E d \in Remainder(staged[R(w)]) : staged' = [staged EXCEPT ![R(w)] = d]
    /\ Goto(w, "fail")
    /\ UNCHANGED <<db, queue, client, sched, live, upstream>>

\* The search documents are purged, unless the setting says not to.
DeletePurge(w) ==
    /\ At(w, "purge")
    /\ \/ Goto(w, "finish_delete")
       \/ WorkFails /\ Goto(w, "fail")
    /\ UNCHANGED <<db, queue, client, sched, disk, upstream>>

\* finishDelete does not touch the state of the region.
DeleteFinish(w) ==
    /\ At(w, "finish_delete")
    /\ row' = [row EXCEPT ![R(w)].job = 0]
    /\ SetJob(T(w).job, "succeeded")
    /\ Goto(w, "ack")
    /\ UNCHANGED <<queue, client, sched, disk, upstream>>

DeleteFinishError(w) ==
    /\ At(w, "finish_delete") /\ Faults \cap {"db_busy", "timeout"} # {}
    /\ Goto(w, "fail")
    /\ UNCHANGED <<db, queue, client, sched, disk, upstream>>

-----------------------------------------------------------------------------
HandlerStep(w) ==
    \/ Mark(w) \/ MarkError(w) \/ EnqueueNext(w) \/ EnqueueError(w) \/ Ack(w)
    \/ MarkFailed(w) \/ MarkStageFailed(w) \/ MarkJobFailed(w) \/ MarkFailedLost(w)
    \/ Fetch(w) \/ FetchError(w) \/ Persist(w) \/ PersistError(w)
    \/ Build(w) \/ BuildError(w) \/ Geocode(w) \/ GeocodeError(w)
    \/ SwapStat(w) \/ SwapArchive(w) \/ SwapArchiveError(w)
    \/ SwapPromote(w) \/ SwapPromoteError(w) \/ SwapCleanup(w)
    \/ SwapFinish(w) \/ SwapFinishError(w) \/ EnqueueCombined(w) \/ CombinedRouting(w)
    \/ DeleteLive(w) \/ DeleteLiveError(w) \/ DeleteNew(w) \/ DeleteNewError(w)
    \/ DeletePurge(w) \/ DeleteFinish(w) \/ DeleteFinishError(w)

TickStep == TickInsert \/ TickAttach \/ TickEnqueue \/ TickError

RequestStep(c) == UpdateCommit(c) \/ EnqueueRequest(c) \/ RequestLost(c)

\* Nothing is in progress and nothing is queued: the system waits for requests.
AtRest ==
    /\ \A c \in Clients : client[c].pc = "idle"
    /\ \A t \in TaskIds : task[t].status = "free"
    /\ sched.pc = "idle"
    /\ UNCHANGED vars

Next ==
    \/ \E c \in Clients : RequestStep(c)
    \/ \E c \in Clients, r \in Regions : Install(c, r) \/ UpdateCheck(c, r) \/ Delete(c, r)
    \/ \E r \in Regions : TickSelect(r) \/ Publish(r)
    \/ TickStep
    \/ \E w \in Slots : Take(w) \/ HandlerStep(w)
    \/ \E t \in TaskIds : RetryDue(t)
    \/ WorkerCrash
    \/ AtRest

Spec == Init /\ [][Next]_vars

\* Work that was started goes on: requests finish, the scheduler finishes its
\* tick, an idle handler goroutine takes the next task and a busy one returns,
\* and a retry delay ends.  Requests, releases and crashes need not happen.
Fairness ==
    /\ \A c \in Clients : WF_vars(RequestStep(c))
    /\ WF_vars(TickStep)
    /\ \A w \in Slots : WF_vars(Take(w) \/ HandlerStep(w))
    /\ \A t \in TaskIds : WF_vars(RetryDue(t))

FairSpec == Spec /\ Fairness

-----------------------------------------------------------------------------
(* Properties that hold whatever happens: any number of slots, requests    *)
(* and ticks at the same time, any fault, any crash.                       *)

\* A task is on a handler goroutine exactly while it is active, and on one
\* only: no two handlers ever work for the same task.
ActiveOnOneSlot ==
    /\ \A w \in Busy : slot[w].task \in TaskIds /\ task[slot[w].task].status = "active"
    /\ \A v, w \in Busy : slot[v].task = slot[w].task => v = w

\* Rows are committed before tasks are enqueued: every task of a region finds
\* a job row of its own, for its region, and a region that was asked for.
TaskBacked(t) ==
    task[t].status # "free" /\ task[t].kind # "combined" =>
        /\ task[t].job \in JobIds /\ task[t].region \in Regions
        /\ job[task[t].job].state # "none"
        /\ job[task[t].job].region = task[t].region
        /\ row[task[t].region].state # "absent"
TasksBacked == \A t \in TaskIds : TaskBacked(t)

\* A region's active_job_id never names a job that has succeeded: whoever
\* closes a job as succeeded takes it off the region in the same transaction,
\* and nobody attaches a closed job afterwards.
ActiveJobUnsettled ==
    \A r \in Regions : row[r].job # 0 =>
        /\ job[row[r].job].state \in {"queued", "failed"}
        /\ job[row[r].job].region = r

\* What the three above rest on, as one inductive invariant.
PendingMatches ==
    /\ \A i \in DOMAIN pending : task[pending[i]].status = "pending"
    /\ \A i, k \in DOMAIN pending : pending[i] = pending[k] => i = k

TasksShaped ==
    \A t \in TaskIds :
        /\ task[t].status = "free" => task[t] = NoTask
        /\ task[t].kind = "combined" => task[t].job = 0

\* A job id held by a request or a tick is its own: no task has it yet, and the
\* job row is there exactly from the commit on.
RequestsBacked ==
    \A c \in Clients : client[c].pc # "idle" =>
        /\ client[c].job \in JobIds /\ client[c].region \in Regions
        /\ row[client[c].region].state # "absent"
        /\ client[c].job # sched.job
        /\ \A d \in Clients : client[d].job = client[c].job => d = c
        /\ \A t \in TaskIds : task[t].job # client[c].job
        /\ IF client[c].pc = "commit_update"
           THEN job[client[c].job].state = "none"
           ELSE /\ job[client[c].job].state = "queued"
                /\ job[client[c].job].region = client[c].region

TickBacked ==
    sched.pc # "idle" =>
        /\ sched.job \in JobIds /\ sched.region \in Regions
        /\ row[sched.region].state # "absent"
        /\ \A t \in TaskIds : task[t].job # sched.job
        /\ IF sched.pc = "insert"
           THEN job[sched.job].state = "none"
           ELSE /\ job[sched.job].state = "queued"
                /\ job[sched.job].region = sched.region

\* Only the combined build works for no region and no job.
HandlersMatch == \A w \in Busy : T(w).kind = "combined" => At(w, "combined")

IdleHoldsNothing ==
    /\ \A c \in Clients : client[c].pc = "idle" => client[c].job = 0
    /\ sched.pc = "idle" => sched.job = 0

BookkeepingInv ==
    /\ ActiveOnOneSlot /\ PendingMatches /\ TasksShaped /\ TasksBacked
    /\ RequestsBacked /\ TickBacked /\ IdleHoldsNothing /\ HandlersMatch
    /\ ActiveJobUnsettled

-----------------------------------------------------------------------------
(* Properties of a region that is worked on by one request at a time.      *)

\* Outstanding chain tasks of a region: the chain is strictly sequential.
ChainTasks(r) == {t \in TaskIds : task[t].region = r}
Handing(r) == {w \in Busy : R(w) = r /\ At(w, "ack")}
ChainIsSequential ==
    \A r \in Regions : Cardinality(ChainTasks(r)) <= 1 + Cardinality(Handing(r))

\* What readers find under <region> is always a complete build of one release.
LiveIsWhole == \A r \in Regions : live[r].here => Whole(live[r])

\* A region that is called ready is there, and its recorded md5 is that of the
\* data being served: the scheduler compares like with like.
ReadyIsServed ==
    \A r \in Regions : row[r].state = "ready" =>
        live[r].here /\ Whole(live[r]) /\ row[r].md5 = live[r].has["pbf"]

\* The live directory is only taken away by a delete, or with a complete
\* replacement at hand.
WithdrawnForReplacement ==
    [][\A r \in Regions : live[r].here /\ ~live'[r].here =>
          \/ \E w \in Busy : R(w) = r /\ At(w, "rmlive")
          \/ Whole(staged[r])]_vars

\* A job that succeeded stays succeeded.
SucceededIsFinal ==
    [][\A j \in JobIds : job[j].state = "succeeded" => job'[j].state = "succeeded"]_vars

\* A region in progress comes to rest: ready, failed or archived.
InProgress(r) == row[r].state \in {"downloading", "updating", "processing_tiles",
                                   "processing_routing", "processing_geocoding"}
ProgressEnds == \A r \in Regions : InProgress(r) ~> ~InProgress(r)

\* A queued job is closed.
JobsClose == \A j \in JobIds : job[j].state = "queued" ~> job[j].state # "queued"

-----------------------------------------------------------------------------
(* Refinement: a region that is worked on by one request at a time is      *)
(* served as ServedRegion says.  While the swap has the old directory in   *)
(* its hands the reader is still counted as having it; a directory that is *)
(* not a whole build is no release at all.                                 *)

NotARelease == MaxVersion + 1
Swapping(r) == {w \in Busy : At(w, "promote") /\ R(w) = r /\ slot[w].old.here}
Release(d)  == IF Whole(d) THEN d.has["pbf"] ELSE NotARelease
Served == [r \in Regions |->
              IF live[r].here THEN Release(live[r])
              ELSE IF Swapping(r) # {}
                   THEN Release(slot[CHOOSE w \in Swapping(r) : TRUE].old)
                   ELSE 0]

Promise == INSTANCE ServedRegion WITH served <- Served
ServesWholeReleases == Promise!Spec

\* What the tile router reads of the pipeline is what RegionFiles says.
FileState(r) == IF row[r].state \in {"absent", "not_installed"} THEN "absent"
                ELSE IF row[r].state \in {"ready", "failed", "archived"} THEN row[r].state
                ELSE "working"
Files == INSTANCE RegionFiles WITH state <- [r \in Regions |-> FileState(r)],
                                   file  <- [r \in Regions |-> live[r].has["tiles"]]
ReadersSeeFiles == Files!FilesSpec

=============================================================================
