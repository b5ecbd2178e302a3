--------------------------- MODULE PersistentSpace ---------------------------
(***************************************************************************)
(* The queue a server runs: the in-memory space, the event log, and the    *)
(* threads that call them (crates/storage/src/persistent_space.rs, and the *)
(* tasks of crates/api/src/lib.rs).                                        *)
(*                                                                         *)
(* No lock spans a call.  A call checks the space under its lock, lets go, *)
(* appends to the log under another, lets go, and changes the space: each  *)
(* of these is a step of the calling thread here, and the steps of several *)
(* threads interleave.  The process may die between any two.               *)
(***************************************************************************)
EXTENDS EventLog, HttpApi

CONSTANTS
    Clients,        \* threads that serve requests
    Reaper,         \* thread of the 5-second task: expire_leases
    Cleaner,        \* thread of the hourly task: purge_terminal, snapshot
    Main,           \* thread of a graceful shutdown: drain_claimed, snapshot
    Tasks,          \* those of the last three that run in this instance
    Workload,       \* the requests clients make
    IoFaults,       \* whether a write to the log may fail
    Crashes,        \* whether the process may die
    Disconnects,    \* whether a client may go away while its call is under way
    Ttls,           \* lease_ttl_secs and extend_by
    RetryLimits,    \* max_retries of an enqueue
    PurgeAge,       \* older_than_secs of the hourly purge
    MaxInFlight,    \* bound: calls under way at once
    MaxEvents,      \* bound: no call begins once the log holds as many events
    MaxSnapshots,   \* bound: no clean-up or shutdown begins once as many exist
    MaxTime         \* bound: the clock stops there

Threads == Clients \cup Tasks
Requests == {"enqueue", "claim", "complete", "fail", "cancel", "retry", "extend"}
Times == 0..MaxTime

ASSUME ThreadsAssumption ==
    /\ Tasks \subseteq {Reaper, Cleaner, Main}
    /\ Reaper # Cleaner /\ Cleaner # Main /\ Main # Reaper
    /\ Clients \cap {Reaper, Cleaner, Main} = {}
    /\ Workload \subseteq Requests
    /\ {IoFaults, Crashes, Disconnects} \subseteq BOOLEAN
ASSUME BoundsAssumption ==
    /\ {PurgeAge, MaxInFlight, MaxEvents, MaxSnapshots, MaxTime} \subseteq Nat
    /\ Ttls \subseteq Nat
    /\ RetryLimits \subseteq 0..MaxU8
ASSUME JsonTimeAssumption ==
    \A time \in Times \cup {t + ttl : t \in Times, ttl \in Ttls} : JsonTime(time) \in Int

VARIABLES
    mode,       \* "serving", "closing" (drain, last snapshot), "exiting", "down"
    mem,        \* the in-memory space; empty while the process is down
    log,        \* the SQLite file
    clock,      \* unix_now, in seconds
    call,       \* the call each thread is in, and where in it
    recovered   \* history variable: what a start would load from the file now

vars == <<mode, mem, log, clock, call, recovered>>

Idle == [pc |-> "idle"]

Forever == MaxTime + 1000   \* f64::MAX, later than every lease

ASSUME ForeverAssumption == \A ttl \in Ttls : MaxTime + ttl < Forever

Init ==
    /\ mode = "serving"
    /\ mem = Empty
    /\ log = NewLog
    /\ clock = 0
    /\ call = [t \in Threads |-> Idle]
    /\ recovered = Load(NewLog)

WriteLog(newLog) ==
    /\ log' = newLog
    /\ recovered' = Load(newLog)

-----------------------------------------------------------------------------
(* What a caller can know, and fresh names.                                *)

Pending(t) == IF call[t].pc \in {"append", "apply"} THEN {call[t].event} ELSE {}

InFlight == {t \in Threads : call[t] # Idle}

KnownEvents == ToSet(log.events) \cup UNION {Pending(t) : t \in Threads}

\* What clients can report under: a claim hands its lease out after it was logged.
\* A report under any other uuid finds no job that has it and changes nothing.
Granted == {<<e.id, e.lease>> : e \in {x \in ToSet(log.events) : x.op = "claim"}}

FreshIds == JobIds \ {e.id : e \in KnownEvents}

LeasesIn(jobs) == {jobs[id].lease_id : id \in {x \in JobIds : jobs[x] # NoJob}}

\* The jobs in a row of the file, or listed by a snapshot under way.
SavedJobs ==
         {row.jobs : row \in ToSet(log.snapshots)}
    \cup {call[t].jobs : t \in {x \in Threads : call[x].pc = "save"}}

FreshLeases ==
    {lease \in LeaseIds :
         /\ \A e \in KnownEvents : e.op = "claim" => e.lease # lease
         /\ \A jobs \in {mem.jobs} \cup SavedJobs : lease \notin LeasesIn(jobs)}

-----------------------------------------------------------------------------
(* Requests.  Begin is the check a call makes before it writes; a call     *)
(* whose check fails answers an error and changes nothing.                 *)

CanBegin(t) ==
    /\ call[t] = Idle
    /\ Cardinality(InFlight) < MaxInFlight
    /\ Len(log.events) < MaxEvents
    /\ IF t \in Clients THEN mode = "serving" ELSE mode \in {"serving", "closing"}

Request(t, op) == t \in Clients /\ CanBegin(t) /\ op \in Workload

Log(t, event) == call' = [call EXCEPT ![t] = [pc |-> "append", event |-> event]]

BeginEnqueue(t) ==
    /\ Request(t, "enqueue")
    /\ \E id \in FreshIds, type \in JobTypes, max_retries \in RetryLimits :
           Log(t, [op |-> "enqueue", id |-> id, ts |-> clock,
                   job_type |-> type, max_retries |-> max_retries])
    /\ UNCHANGED <<mode, mem, log, clock, recovered>>

\* A claim changes the space first and logs what it did.
BeginClaim(t) ==
    /\ Request(t, "claim")
    /\ \E type \in JobTypes : \E key \in OldestKeys(mem, type),
          lease \in FreshLeases, ttl \in Ttls, worker \in Workers \cup {Nil} :
           /\ mem' = ClaimKey(mem, key, lease, ttl, worker, clock)
           /\ IF mem.jobs[key[3]] = NoJob
              THEN UNCHANGED call
              ELSE Log(t, [op |-> "claim", id |-> key[3], ts |-> clock,
                           lease |-> lease, until |-> clock + ttl, worker |-> worker])
    /\ UNCHANGED <<mode, log, clock, recovered>>

\* The check before a report compares the lease and not the status.
BeginReport(t, op) ==
    /\ Request(t, op)
    /\ \E held \in Granted :
           /\ held[1] \in Live(mem)
           /\ mem.jobs[held[1]].lease_id = held[2]
           /\ Log(t, [op |-> op, id |-> held[1], ts |-> clock, lease |-> held[2]])
    /\ UNCHANGED <<mode, mem, log, clock, recovered>>

BeginComplete(t) == BeginReport(t, "complete")

BeginFail(t) == BeginReport(t, "fail")

BeginCancel(t) ==
    /\ Request(t, "cancel")
    /\ \E id \in List(mem, "pending") : Log(t, [op |-> "cancel", id |-> id, ts |-> clock])
    /\ UNCHANGED <<mode, mem, log, clock, recovered>>

BeginRetry(t) ==
    /\ Request(t, "retry")
    /\ \E id \in List(mem, "failed") : Log(t, [op |-> "retry", id |-> id, ts |-> clock])
    /\ UNCHANGED <<mode, mem, log, clock, recovered>>

\* A heartbeat is one step: nothing is logged.
Heartbeat(t) ==
    /\ Request(t, "extend")
    /\ \E held \in Granted, ttl \in Ttls :
           mem' = ExtendLease(mem, held[1], held[2], clock + ttl)
    /\ UNCHANGED <<mode, log, clock, call, recovered>>

AppendRequest_AppliesAll(t) ==
    /\ call[t].pc = "append"
    /\ WriteLog(AppendEvent(log, call[t].event))
    /\ call' = [call EXCEPT ![t] = [pc |-> "apply", event |-> @.event]]
    /\ UNCHANGED <<mode, mem, clock>>

AppendRequest(t) ==
    /\ call[t].pc = "append"
    /\ WriteLog(AppendEvent(log, call[t].event))
    /\ call' = [call EXCEPT ![t] = IF @.event.op = "claim" THEN Idle
                                   ELSE [pc |-> "apply", event |-> @.event]]
    /\ UNCHANGED <<mode, mem, clock>>

AppendRequestFails_Ignored(t) ==
    /\ IoFaults
    /\ call[t].pc = "append"
    /\ call' = [call EXCEPT ![t] = IF @.event.op = "claim" THEN Idle
                                   ELSE [pc |-> "apply", event |-> @.event]]
    /\ UNCHANGED <<mode, mem, log, clock, recovered>>

\* The error goes to the caller; what a claim did to the space stays done.
AppendRequestFails(t) ==
    /\ IoFaults
    /\ call[t].pc = "append"
    /\ call' = [call EXCEPT ![t] = Idle]
    /\ UNCHANGED <<mode, mem, log, clock, recovered>>

\* The call answers with what the space says now: a report that was logged
\* may still be refused.
ApplyRequest(t) ==
    /\ call[t].pc = "apply"
    /\ mem' = Apply(mem, call[t].event)
    /\ call' = [call EXCEPT ![t] = Idle]
    /\ UNCHANGED <<mode, log, clock, recovered>>

-----------------------------------------------------------------------------
(* Releasing leases: the reaper those that ran out, a shutdown all.  The   *)
(* ids are listed, one Expire is logged for each, a failed write being     *)
(* ignored, and then the space releases what has run out by then.          *)

BeginRelease_UntilNow(t, ids, until) ==
    call' = [call EXCEPT ![t] = [pc |-> "release", todo |-> ids, ts |-> clock, until |-> clock]]

BeginRelease(t, ids, until) ==
    call' = [call EXCEPT ![t] = [pc |-> "release", todo |-> ids, ts |-> clock, until |-> until]]

BeginReap ==
    /\ Reaper \in Tasks
    /\ CanBegin(Reaper)
    /\ BeginRelease(Reaper, Expired(mem, clock), clock)
    /\ UNCHANGED <<mode, mem, log, clock, recovered>>

\* The server waits for the clients still connected; the call of one that
\* went away keeps its thread.
BeginShutdown ==
    /\ Main \in Tasks
    /\ CanBegin(Main)
    /\ mode = "serving"
    /\ Disconnects \/ \A t \in Clients : call[t] = Idle
    /\ Len(log.snapshots) < MaxSnapshots
    /\ mode' = "closing"
    /\ BeginRelease(Main, List(mem, "claimed"), Forever)
    /\ UNCHANGED <<mem, log, clock, recovered>>

AppendExpire(t) ==
    /\ call[t].pc = "release"
    /\ \E id \in call[t].todo :
           /\ call' = [call EXCEPT ![t].todo = @ \ {id}]
           /\ \/ WriteLog(AppendEvent(log, [op |-> "expire", id |-> id, ts |-> call[t].ts]))
              \/ IoFaults /\ UNCHANGED <<log, recovered>>
    /\ UNCHANGED <<mode, mem, clock>>

FinishRelease(t) ==
    /\ call[t].pc = "release"
    /\ call[t].todo = {}
    /\ mem' = ExpireLeases(mem, call[t].until)
    /\ call' = [call EXCEPT ![t] = IF t = Main THEN [pc |-> "max_seq"] ELSE Idle]
    /\ UNCHANGED <<mode, log, clock, recovered>>

-----------------------------------------------------------------------------
(* Purging ended jobs: listed once, then logged and removed one by one,    *)
(* without a second look at the job.  An error ends the clean-up.          *)

Purgeable ==
    {id \in Live(mem) : /\ mem.jobs[id].status \in Terminal
                        /\ mem.jobs[id].finished_at # Nil
                        /\ mem.jobs[id].finished_at < clock - PurgeAge}

BeginCleanup ==
    /\ Cleaner \in Tasks
    /\ CanBegin(Cleaner)
    /\ Len(log.snapshots) < MaxSnapshots
    /\ call' = [call EXCEPT ![Cleaner] = [pc |-> "purge", todo |-> Purgeable, ts |-> clock]]
    /\ UNCHANGED <<mode, mem, log, clock, recovered>>

AppendPurge ==
    /\ Cleaner \in Tasks
    /\ call[Cleaner].pc = "purge"
    /\ \E id \in call[Cleaner].todo :
           /\ WriteLog(AppendEvent(log, [op |-> "purge", id |-> id, ts |-> call[Cleaner].ts]))
           /\ call' = [call EXCEPT ![Cleaner] = [pc |-> "remove", id |-> id,
                                                 todo |-> @.todo \ {id}, ts |-> @.ts]]
    /\ UNCHANGED <<mode, mem, clock>>

RemovePurged ==
    /\ Cleaner \in Tasks
    /\ call[Cleaner].pc = "remove"
    /\ mem' = RemoveJob(mem, call[Cleaner].id)
    /\ call' = [call EXCEPT ![Cleaner] = [pc |-> "purge", todo |-> @.todo, ts |-> @.ts]]
    /\ UNCHANGED <<mode, log, clock, recovered>>

FinishPurge ==
    /\ Cleaner \in Tasks
    /\ call[Cleaner].pc = "purge"
    /\ call[Cleaner].todo = {}
    /\ call' = [call EXCEPT ![Cleaner] = [pc |-> "max_seq"]]
    /\ UNCHANGED <<mode, mem, log, clock, recovered>>

-----------------------------------------------------------------------------
(* A snapshot: which events it covers, the jobs, the row, the truncation.  *)

ReadMaxSeq(t) ==
    /\ call[t].pc = "max_seq"
    /\ call' = [call EXCEPT ![t] = [pc |-> "list", seq |-> MaxSeq(log), ts |-> clock]]
    /\ UNCHANGED <<mode, mem, log, clock, recovered>>

ListJobs(t) ==
    /\ call[t].pc = "list"
    /\ call' = [call EXCEPT ![t] = [pc |-> "save", seq |-> @.seq, ts |-> @.ts, jobs |-> mem.jobs]]
    /\ UNCHANGED <<mode, mem, log, clock, recovered>>

Save(t) ==
    /\ call[t].pc = "save"
    /\ WriteLog(SaveSnapshot(log, call[t].seq, call[t].ts, call[t].jobs))
    /\ call' = [call EXCEPT ![t] = [pc |-> "truncate", seq |-> @.seq]]
    /\ UNCHANGED <<mode, mem, clock>>

\* The end of a clean-up, or of what a shutdown has to do.
Leave(t) ==
    /\ call' = [call EXCEPT ![t] = Idle]
    /\ mode' = IF t = Main THEN "exiting" ELSE mode

Truncate(t) ==
    /\ call[t].pc = "truncate"
    /\ WriteLog(TruncateBefore(log, call[t].seq))
    /\ Leave(t)
    /\ UNCHANGED <<mem, clock>>

\* Any write of a clean-up or of the last snapshot fails: the rest is skipped.
TaskFails(t) ==
    /\ IoFaults
    /\ \/ call[t].pc \in {"save", "truncate"}
       \/ call[t].pc = "purge" /\ call[t].todo # {}
    /\ Leave(t)
    /\ UNCHANGED <<mem, log, clock, recovered>>

-----------------------------------------------------------------------------
(* The process and the world around it.                                    *)

Tick ==
    /\ clock < MaxTime
    /\ clock' = clock + 1
    /\ UNCHANGED <<mode, mem, log, call, recovered>>

Stop ==
    /\ mode' = "down"
    /\ mem' = Empty
    /\ call' = [t \in Threads |-> Idle]
    /\ UNCHANGED <<log, clock, recovered>>

\* After main returns, the runtime waits for the blocking calls under way.
Exit ==
    /\ mode = "exiting"
    /\ InFlight = {}
    /\ Stop

Crash ==
    /\ Crashes
    /\ mode # "down"
    /\ Stop

Open ==
    /\ mode = "down"
    /\ mode' = "serving"
    /\ mem' = Load(log)
    /\ UNCHANGED <<log, clock, call, recovered>>

Next ==
    \/ \E t \in Clients :
           \/ BeginEnqueue(t)
           \/ BeginClaim(t)
           \/ BeginComplete(t)
           \/ BeginFail(t)
           \/ BeginCancel(t)
           \/ BeginRetry(t)
           \/ Heartbeat(t)
           \/ AppendRequest(t)
           \/ AppendRequestFails(t)
           \/ ApplyRequest(t)
    \/ BeginReap
    \/ BeginShutdown
    \/ BeginCleanup
    \/ AppendPurge
    \/ RemovePurged
    \/ FinishPurge
    \/ \E t \in Tasks :
           \/ AppendExpire(t)
           \/ FinishRelease(t)
           \/ ReadMaxSeq(t)
           \/ ListJobs(t)
           \/ Save(t)
           \/ Truncate(t)
           \/ TaskFails(t)
    \/ Tick
    \/ Exit
    \/ Crash
    \/ Open

Spec == Init /\ [][Next]_vars

\* The life of one process, from the first start to its last step.
OneLife == Init /\ [][Next /\ mode' # "down"]_vars

-----------------------------------------------------------------------------
(* Safety.                                                                 *)

Current == IF mode = "down" THEN recovered ELSE mem

StatusOf(s, id) == IF s.jobs[id] = NoJob THEN "none" ELSE s.jobs[id].status

Logged(op, id) == \E e \in ToSet(log.events) : e.op = op /\ e.id = id

\* a is b, or what is left of b after a trip through the JSON of a snapshot.
\* Heartbeats are not logged, by design: lease_until may differ.
SameJob(a, b) ==
    \/ a = b
    \/ /\ NoJob \notin {a, b}
       /\ \A column \in DOMAIN b \ {"lease_until"} : a[column] \in {b[column], ReadJob(b)[column]}

\* The variables keep their types, and a thread that serves requests is
\* between two calls whenever the process is down.
TypeOK ==
    /\ mode \in {"serving", "closing", "exiting", "down"}
    /\ mem \in SpaceType
    /\ log.events \in Seq(Event)
    /\ log.deleted \in 0..Len(log.events)
    /\ clock \in Times
    /\ DOMAIN call = Threads
    /\ \A t \in Threads : UNION {Pending(t)} \subseteq Event
    /\ mode = "down" => InFlight = {}

\* The space in memory, and the one a crash at this point would leave, keep
\* an exact index and exclusive leases, whatever calls are half done.
SpacesWellKept ==
    \A s \in {mem, recovered} : IndexExact(s) /\ LeaseExclusive(s)

\* Leases are exclusive in memory, and in what a crash at this point would leave,
\* also while calls, an expiry and a snapshot overlap, when the index of the latter
\* may be off.
LeasesKept == \A s \in {mem, recovered} : LeaseExclusive(s)

\* The counter of failed runs stays within the budget in memory, also when
\* reports, expiries and retries of one job overlap.
RetriesBounded == RetryBudget(mem)

\* Between two calls a restart would bring back the jobs in memory, column by
\* column as they are or as one snapshot's JSON gives them back.  The documents
\* say "exact" (README.md:320-322, replay.rs:6-8): a time may be off by its last
\* place and a result of null be gone (sqlite.rs:98), and nothing else.
RecoveryExact ==
    InFlight = {} /\ mode # "down"
        => \A id \in JobIds : SameJob(recovered.jobs[id], mem.jobs[id])

\* Nothing but its own events decides what becomes of a job: the history that
\* GET /jobs/{id}/events answers, replayed alone, ends in the job a restart
\* would bring back, as long as no event was compacted away (routes.rs:301-327).
JobHistoryExplains ==
    log.snapshots = <<>>
        => \A id \in JobIds :
               Replay(Empty.jobs, LoadEventsForJob(log, id)).jobs[id] = recovered.jobs[id]

\* A worker is told the same of its report by the check before the log is
\* written and by the space itself, which look at different columns: which of
\* the two answers depends on timing alone (persistent_space.rs:74-79).
ReportsAnsweredAlike ==
    \A id \in JobIds, lease \in LeaseIds :
        StatusCode(EarlyOutcome(mem, id, lease)) = StatusCode(ReportOutcome(mem, id, lease))

\* What the metrics take for a run was one, whichever calls, replays and expiries
\* wrote the times it is measured by: every run that ended is measured, and a job
\* that never ran, or was taken from its worker, is not.  Only a retry leaves the
\* start of the failed run on a job that waits, or is cancelled (space.rs:146-149).
RunsMeasured ==
    \A id \in Live(mem) :
        /\ mem.jobs[id].status \in {"done", "failed"} => id \in Ran(mem)
        /\ id \in Started(mem) => \/ mem.jobs[id].status \in {"claimed", "done", "failed"}
                                 \/ Logged("retry", id)

\* After a graceful shutdown no job is left with a worker
\* (persistent_space.rs:119-121).
ShutdownReturnsJobs ==
    mode = "exiting" /\ InFlight = {} => List(recovered, "claimed") = {}

-----------------------------------------------------------------------------
(* Action properties.                                                      *)

\* Compaction forgets no change (README.md:48, 327): an event that is logged
\* changes what a start would load as it changes a space, and nothing else, neither
\* a snapshot nor a truncation, changes that by more than a trip through JSON.
CompactionTransparent ==
    [][LET next == IF log'.events = log.events THEN recovered
                   ELSE Apply(recovered, ReadEvent(Last(log'.events)))
       IN  \A id \in JobIds : SameJob(recovered'.jobs[id], next.jobs[id])]_vars

\* A job that is done stays done, across crashes, restarts and compaction,
\* until a purge is logged for it.
DoneSurvives ==
    [][\A id \in JobIds :
           StatusOf(Current, id) = "done"
           => StatusOf(Current', id) = "done" \/ Logged("purge", id)']_vars

\* A job that was enqueued is not lost, across the same, until it is purged.
JobSurvives ==
    [][\A id \in JobIds :
           id \in Live(Current) => id \in Live(Current)' \/ Logged("purge", id)']_vars

\* A running process forgets a job only once it has ended
\* (persistent_space.rs:163: "Remove terminal jobs").
OnlyEndedForgotten ==
    [][\A id \in Live(mem) :
           mode' # "down" /\ id \notin Live(mem)' => mem.jobs[id].status \in Terminal]_vars

\* Only the run whose lease is good can end a job, also when its report was
\* checked before the lease was taken back and is applied after.
HolderReports ==
    [][\A id \in JobIds :
           /\ StatusOf(mem, id) = "claimed"
           /\ StatusOf(mem', id) \in {"done", "failed"}
           => mem.jobs[id].lease_id \in {mem'.jobs[id].result, mem'.jobs[id].error}]_vars

\* Where the abstract queue sees each job of a space: a job that is not there
\* was removed if the log has the event that says so, else it is yet unborn.
Shows(jobs, forgotten) ==
    [id \in JobIds |-> IF jobs[id] # NoJob THEN jobs[id].status
                       ELSE IF Logged(forgotten, id) THEN "removed" ELSE "unborn"]

\* The lease that is good for each job of a space.
Holds(jobs) == [id \in JobIds |-> IF jobs[id] # NoJob THEN jobs[id].lease_id ELSE Nil]

Durable == INSTANCE JobQueue WITH
    NoLease <- Nil,
    state   <- Shows(recovered.jobs, "enqueue"),
    holder  <- Holds(recovered.jobs),
    granted <- {e.lease : e \in {x \in ToSet(log.events) : x.op = "claim"}}

\* What is in the file, at any point of any call, is a state of the abstract
\* queue, and every step moves it as the abstract queue moves.
DurableIsJobQueue == Durable!Spec

EnqueuedIds(events) == {e.id : e \in {x \in events : x.op = "enqueue"}}

AppliedIds ==
    EnqueuedIds(ToSet(log.events)) \ EnqueuedIds(UNION {Pending(t) : t \in Threads})

ClaimedLeases == {e.lease : e \in {x \in KnownEvents : x.op = "claim"}}

Shown == INSTANCE JobQueue WITH
    NoLease <- Nil,
    state   <- Shows(mem.jobs, "purge"),
    holder  <- Holds(mem.jobs),
    granted <- ClaimedLeases

\* So is what a running process shows its clients, however its calls overlap.
ShownIsJobQueue == Shown!Spec

Calls == INSTANCE TupleSpace WITH
    Times      <- Times \cup {Forever},
    space      <- mem,
    usedIds    <- AppliedIds,
    usedLeases <- ClaimedLeases

\* The space of a running process sees calls of TupleSpace and nothing else:
\* the pieces that calls are cut into, and the order in which several threads
\* run them, come down to one store under one lock.
MemoryIsTupleSpace == Calls!Spec
=============================================================================
