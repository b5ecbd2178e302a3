----------------------------- MODULE TupleSpace -----------------------------
(***************************************************************************)
(* The in-memory store under concurrent callers.  Every public method of   *)
(* TupleSpace takes one lock, so a call is one step.  Each caller reads    *)
(* the clock before it waits for the lock: `now` is any time, in no order  *)
(* from one call to the next.  A lease may come late, long after it was    *)
(* taken back, with any job id.                                            *)
(***************************************************************************)
EXTENDS Space

CONSTANTS
    Times,          \* readings of the clock
    Ttls,           \* lease_ttl_secs of a claim
    RetryLimits     \* max_retries of an enqueue

ASSUME TimesAssumption == Times \subseteq Int
ASSUME TtlsAssumption == Ttls \subseteq Int
ASSUME RetryLimitsAssumption == RetryLimits \subseteq 0..MaxU8

VARIABLES
    space,          \* the jobs and the index, under the RwLock
    usedIds,        \* job ids drawn so far: Uuid::new_v4 repeats none
    usedLeases      \* lease ids drawn so far

vars == <<space, usedIds, usedLeases>>

Init ==
    /\ space = Empty
    /\ usedIds = {}
    /\ usedLeases = {}

-----------------------------------------------------------------------------

Enqueue(type, max_retries, now) ==
    \E id \in JobIds \ usedIds :
        /\ space' = EnqueueWithId(space, id, type, max_retries, now)
        /\ usedIds' = usedIds \cup {id}
        /\ UNCHANGED usedLeases

Claim(type, ttl, worker, now) ==
    \E lease \in LeaseIds \ usedLeases, key \in OldestKeys(space, type) :
        /\ space' = ClaimKey(space, key, lease, ttl, worker, now)
        /\ usedLeases' = usedLeases \cup {lease}
        /\ UNCHANGED usedIds

Complete(id, lease, now) ==
    /\ space' = CompleteJob(space, id, lease, lease, now)
    /\ UNCHANGED <<usedIds, usedLeases>>

Fail(id, lease, now) ==
    /\ space' = FailJob(space, id, lease, lease, now)
    /\ UNCHANGED <<usedIds, usedLeases>>

Cancel(id, now) ==
    /\ space' = CancelJob(space, id, now)
    /\ UNCHANGED <<usedIds, usedLeases>>

Retry(id) ==
    /\ space' = RetryJob(space, id)
    /\ UNCHANGED <<usedIds, usedLeases>>

Extend(id, lease, until) ==
    /\ space' = ExtendLease(space, id, lease, until)
    /\ UNCHANGED <<usedIds, usedLeases>>

Expire(now) ==
    /\ space' = ExpireLeases(space, now)
    /\ UNCHANGED <<usedIds, usedLeases>>

\* A purge names ids it listed earlier: the job may be in any state by now.
Remove(id) ==
    /\ space' = RemoveJob(space, id)
    /\ UNCHANGED <<usedIds, usedLeases>>

Next ==
    \/ \E now \in Times :
           \/ \E type \in JobTypes, max_retries \in RetryLimits : Enqueue(type, max_retries, now)
           \/ \E type \in JobTypes, ttl \in Ttls, worker \in Workers \cup {Nil} :
                  Claim(type, ttl, worker, now)
           \/ \E id \in usedIds :
                  \/ Cancel(id, now)
                  \/ \E lease \in usedLeases :
                         \/ Complete(id, lease, now)
                         \/ Fail(id, lease, now)
                         \/ \E ttl \in Ttls : Extend(id, lease, now + ttl)
           \/ Expire(now)
    \/ \E id \in usedIds : Retry(id) \/ Remove(id)

Spec == Init /\ [][Next]_vars

-----------------------------------------------------------------------------
(* Safety.                                                                 *)

\* The variables keep their types; ids in the space were drawn before.
TypeOK ==
    /\ space \in SpaceType
    /\ usedIds \subseteq JobIds
    /\ usedLeases \subseteq LeaseIds
    /\ Live(space) \subseteq usedIds

\* The sorted index that claim trusts (it never looks at a job's status)
\* holds exactly the pending jobs: with a key too many a job runs twice, with
\* a key too few it never runs (space.rs:10-13, 61-70).
PendingIndexExact == IndexExact(space)

\* The lease columns say Some exactly while a job is claimed (types.rs:59), no
\* two jobs can be completed with one lease, and every lease was drawn.
LeasesExclusive ==
    /\ LeaseExclusive(space)
    /\ \A id \in List(space, "claimed") : space.jobs[id].lease_id \in usedLeases

\* A job is run while it has failed fewer than max(1, max_retries) times and
\* failed for good at exactly that number, so the u8 counter never overflows,
\* whatever reports, expiries and retries come in between (space.rs:102-115).
RetriesBounded == RetryBudget(space)

\* finished_at, result and error agree with the status through every path into
\* and out of it, and a job that runs or ran has its start.  A start on a job that
\* waits or was cancelled is the failed run's that a retry left (space.rs:146-149),
\* and goes with the next run that fails or expires.
OutcomesRecorded == OutcomeRecorded(space)

-----------------------------------------------------------------------------
(* Action properties.                                                      *)

StatusOf(s, id) == IF s.jobs[id] = NoJob THEN "none" ELSE s.jobs[id].status

\* A claim takes a job no other pending job of its type is older than
\* (space.rs:54), judged by the jobs themselves and not by the index.
ClaimsOldest ==
    [][\A id \in JobIds :
           /\ StatusOf(space, id) # "claimed"
           /\ StatusOf(space', id) = "claimed"
           => /\ id \in List(space, "pending")
              /\ \A other \in List(space, "pending") :
                     space.jobs[other].job_type = space.jobs[id].job_type
                     => space.jobs[id].enqueued_at <= space.jobs[other].enqueued_at]_vars

\* Only the run whose lease is good can end a job: the result of a job that
\* becomes done, and the error of one that fails, come from its holder, never
\* from a worker whose lease was taken back (space.rs:281-289).
HolderReports ==
    [][\A id \in JobIds :
           /\ StatusOf(space, id) = "claimed"
           /\ StatusOf(space', id) \in {"done", "failed"}
           => space.jobs[id].lease_id \in {space'.jobs[id].result, space'.jobs[id].error}]_vars

\* Where the abstract queue sees each job, and the lease it sees as good for it.
LifeCycle(s, ids) ==
    [id \in JobIds |-> IF id \notin ids THEN "unborn"
                       ELSE IF id \notin Live(s) THEN "removed"
                       ELSE s.jobs[id].status]

GoodLeases(s) == [id \in JobIds |-> IF id \in Live(s) THEN s.jobs[id].lease_id ELSE Nil]

\* The abstract queue: the life cycle, one good lease per job, and no lease
\* good again once taken back.
Queue == INSTANCE JobQueue WITH
    NoLease <- Nil,
    state   <- LifeCycle(space, usedIds),
    holder  <- GoodLeases(space),
    granted <- usedLeases

\* Every call is a step of the abstract queue or changes nothing it shows.
ImplementsJobQueue == Queue!Spec

-----------------------------------------------------------------------------
(* A claim of the documentation that the code does not keep.               *)

\* A run that fails goes back to the queue while the job was re-queued fewer
\* than max_retries times (README.md:46; retries counts the re-queues).
RequeuedUpToMaxRetries ==
    [][\A id \in JobIds :
           StatusOf(space, id) = "claimed" /\ StatusOf(space', id) = "failed"
           => space.jobs[id].retries >= space.jobs[id].max_retries]_vars
=============================================================================
