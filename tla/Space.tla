------------------------------- MODULE Space -------------------------------
(***************************************************************************)
(* The data structure of crates/core/src/space.rs: the jobs by id and the  *)
(* sorted index of the pending ones.  Each method of TupleSpace runs under *)
(* one write lock, so each is an operator from a space to the next space;  *)
(* a call that returns an error returns the space unchanged.               *)
(*                                                                         *)
(* Abstracted: a job's args are opaque and left out, its id is the index   *)
(* of `jobs`, and timestamps are integers: the code keys the index by      *)
(* f64::to_bits, which orders the positive times it uses as < does.        *)
(*                                                                         *)
(* An operator named X_Fault, here and in the other modules, is X with a   *)
(* fault seeded in it: no definition uses it, and a run whose X is         *)
(* replaced by it must fail.                                               *)
(***************************************************************************)
EXTENDS Integers, FiniteSets

CONSTANTS
    JobIds,     \* uuids a job may be given
    JobTypes,   \* names of job types
    LeaseIds,   \* uuids a lease may be given
    Workers,    \* values of worker_id
    MaxU8,      \* the largest u8
    NoJob,      \* "no such key" of the jobs map
    Nil         \* Rust's None in a job's optional fields

\* What a run reports, a result or an error message, is told apart only by the
\* run it comes from, and a run by its lease.
Payloads == LeaseIds

Statuses == {"pending", "claimed", "done", "failed", "cancelled"}
Terminal == {"done", "failed", "cancelled"}

Job == [job_type    : JobTypes,
        status      : Statuses,
        retries     : 0..MaxU8,
        max_retries : 0..MaxU8,
        enqueued_at : Int,
        started_at  : Int \cup {Nil},
        finished_at : Int \cup {Nil},
        result      : Payloads \cup {Nil},
        error       : Payloads \cup {Nil},
        lease_until : Int \cup {Nil},
        lease_id    : LeaseIds \cup {Nil},
        worker_id   : Workers \cup {Nil}]

ASSUME U8Assumption == MaxU8 \in Nat \ {0}
ASSUME NilAssumption == Nil \notin Int \cup LeaseIds \cup Workers
ASSUME NoJobAssumption == NoJob \notin Job

SpaceType == [jobs    : [JobIds -> Job \cup {NoJob}],
              pending : SUBSET (JobTypes \X Int \X JobIds)]

-----------------------------------------------------------------------------
(* Reading and writing one entry.                                          *)

Live(s) == {id \in JobIds : s.jobs[id] # NoJob}

List(s, status) == {id \in Live(s) : s.jobs[id].status = status}

PendingKey_TimeFirst(id, job) == <<job.enqueued_at, job.job_type, id>>

PendingKey(id, job) == <<job.job_type, job.enqueued_at, id>>

Put(s, id, job, pending) ==
    [jobs |-> [s.jobs EXCEPT ![id] = job], pending |-> pending]

Empty == [jobs |-> [id \in JobIds |-> NoJob], pending |-> {}]

NewJob(type, max_retries, now) ==
    [job_type    |-> type,
     status      |-> "pending",
     retries     |-> 0,
     max_retries |-> max_retries,
     enqueued_at |-> now,
     started_at  |-> Nil,
     finished_at |-> Nil,
     result      |-> Nil,
     error       |-> Nil,
     lease_until |-> Nil,
     lease_id    |-> Nil,
     worker_id   |-> Nil]

EnqueueWithId(s, id, type, max_retries, now) ==
    LET job == NewJob(type, max_retries, now)
    IN  Put(s, id, job, s.pending \cup {PendingKey(id, job)})

-----------------------------------------------------------------------------
(* Claiming: the first key of the type in the index.  Ids are random, so   *)
(* which of two keys of equal time is first is left open.                  *)

OldestKeys_AnyAge(s, type) == {k \in s.pending : k[1] = type}

OldestKeys(s, type) ==
    {k \in s.pending : /\ k[1] = type
                       /\ \A other \in s.pending : other[1] = type => k[2] <= other[2]}

Claimed_WorkerKept(job, lease, until, worker, now) ==
    [job EXCEPT !.status      = "claimed",
                !.started_at  = now,
                !.lease_until = until,
                !.lease_id    = lease,
                !.worker_id   = IF @ = Nil THEN worker ELSE @]

Claimed(job, lease, until, worker, now) ==
    [job EXCEPT !.status      = "claimed",
                !.started_at  = now,
                !.lease_until = until,
                !.lease_id    = lease,
                !.worker_id   = worker]

\* The key leaves the index before the job is looked up: a key without a job
\* is dropped and the caller told that nothing is pending.
ClaimKey(s, key, lease, ttl, worker, now) ==
    LET id == key[3]
    IN  IF s.jobs[id] = NoJob
        THEN [s EXCEPT !.pending = @ \ {key}]
        ELSE Put(s, id, Claimed(s.jobs[id], lease, now + ttl, worker, now),
                 s.pending \ {key})

\* The same write during replay, for a lease decided earlier.
ApplyClaim_KeyLeft(s, id, lease, until, worker, now) ==
    IF s.jobs[id] = NoJob
    THEN s
    ELSE Put(s, id, Claimed(s.jobs[id], lease, until, worker, now), s.pending)

ApplyClaim(s, id, lease, until, worker, now) ==
    IF s.jobs[id] = NoJob
    THEN s
    ELSE Put(s, id, Claimed(s.jobs[id], lease, until, worker, now),
             s.pending \ {PendingKey(id, s.jobs[id])})

-----------------------------------------------------------------------------
(* The holder of a lease reports on its job.                               *)

CheckLease_AnyLease(s, id, lease) ==
    /\ s.jobs[id] # NoJob
    /\ s.jobs[id].status = "claimed"

CheckLease(s, id, lease) ==
    /\ s.jobs[id] # NoJob
    /\ s.jobs[id].status = "claimed"
    /\ s.jobs[id].lease_id = lease

CompleteJob(s, id, lease, result, now) ==
    IF ~CheckLease(s, id, lease)
    THEN s
    ELSE Put(s, id,
             [s.jobs[id] EXCEPT !.status      = "done",
                                !.result      = result,
                                !.finished_at = now,
                                !.lease_until = Nil,
                                !.lease_id    = Nil],
             s.pending)

NextU8(n) == IF n = MaxU8 THEN 0 ELSE n + 1

Requeued_LeaseLeft(job) ==
    [job EXCEPT !.status = "pending", !.started_at = Nil, !.lease_until = Nil]

Requeued(job) ==
    [job EXCEPT !.status      = "pending",
                !.started_at  = Nil,
                !.lease_until = Nil,
                !.lease_id    = Nil]

FailJob(s, id, lease, error, now) ==
    IF ~CheckLease(s, id, lease)
    THEN s
    ELSE LET retries == NextU8(s.jobs[id].retries)
             counted == [s.jobs[id] EXCEPT !.retries = retries]
         IN  IF retries < counted.max_retries
             THEN Put(s, id, Requeued(counted),
                      s.pending \cup {PendingKey(id, counted)})
             ELSE Put(s, id,
                      [counted EXCEPT !.status      = "failed",
                                      !.error       = error,
                                      !.finished_at = now,
                                      !.lease_until = Nil,
                                      !.lease_id    = Nil],
                      s.pending)

ExtendLease(s, id, lease, until) ==
    IF ~CheckLease(s, id, lease)
    THEN s
    ELSE Put(s, id, [s.jobs[id] EXCEPT !.lease_until = until], s.pending)

-----------------------------------------------------------------------------
(* Operators' calls: cancel a pending job, retry a failed one.             *)

CancelJob_KeyLeft(s, id, now) ==
    IF id \notin List(s, "pending")
    THEN s
    ELSE Put(s, id, [s.jobs[id] EXCEPT !.status = "cancelled", !.finished_at = now], s.pending)

CancelJob_AnyStatus(s, id, now) ==
    IF id \notin Live(s)
    THEN s
    ELSE Put(s, id,
             [s.jobs[id] EXCEPT !.status = "cancelled", !.finished_at = now],
             s.pending \ {PendingKey(id, s.jobs[id])})

CancelJob(s, id, now) ==
    IF id \notin List(s, "pending")
    THEN s
    ELSE Put(s, id,
             [s.jobs[id] EXCEPT !.status = "cancelled", !.finished_at = now],
             s.pending \ {PendingKey(id, s.jobs[id])})

RetryJob_CountLeft(s, id) ==
    IF id \notin List(s, "failed")
    THEN s
    ELSE Put(s, id,
             [s.jobs[id] EXCEPT !.status = "pending", !.error = Nil, !.finished_at = Nil],
             s.pending \cup {PendingKey(id, s.jobs[id])})

RetryJob_OutcomeLeft(s, id) ==
    IF id \notin List(s, "failed")
    THEN s
    ELSE Put(s, id,
             [s.jobs[id] EXCEPT !.status = "pending", !.error = Nil, !.retries = 0],
             s.pending \cup {PendingKey(id, s.jobs[id])})

\* started_at and worker_id keep what the failed run left in them.
RetryJob(s, id) ==
    IF id \notin List(s, "failed")
    THEN s
    ELSE Put(s, id,
             [s.jobs[id] EXCEPT !.status      = "pending",
                                !.error       = Nil,
                                !.retries     = 0,
                                !.finished_at = Nil],
             s.pending \cup {PendingKey(id, s.jobs[id])})

-----------------------------------------------------------------------------
(* Leases that run out.                                                    *)

Expired_AtDeadline(s, now) ==
    {id \in List(s, "claimed") : s.jobs[id].lease_until # Nil /\ now >= s.jobs[id].lease_until}

Expired(s, now) ==
    {id \in List(s, "claimed") : s.jobs[id].lease_until # Nil /\ now > s.jobs[id].lease_until}

Release_KeyForgotten(s, ids) ==
    [jobs    |-> [id \in JobIds |-> IF id \in ids THEN Requeued(s.jobs[id]) ELSE s.jobs[id]],
     pending |-> s.pending]

Release(s, ids) ==
    [jobs    |-> [id \in JobIds |-> IF id \in ids THEN Requeued(s.jobs[id]) ELSE s.jobs[id]],
     pending |-> s.pending \cup {PendingKey(id, s.jobs[id]) : id \in ids}]

ExpireLeases(s, now) == Release(s, Expired(s, now))

ApplyExpire_StartLeft(s, id) ==
    IF id \notin List(s, "claimed")
    THEN s
    ELSE Put(s, id,
             [s.jobs[id] EXCEPT !.status = "pending", !.lease_until = Nil, !.lease_id = Nil],
             s.pending \cup {PendingKey(id, s.jobs[id])})

ApplyExpire_All(s, id) == Release(s, List(s, "claimed"))

ApplyExpire(s, id) == Release(s, {id} \cap List(s, "claimed"))

-----------------------------------------------------------------------------
(* Seeding from a snapshot, and purging.                                   *)

RestoreJob(s, id, job) ==
    Put(s, id, job,
        IF job.status = "pending" THEN s.pending \cup {PendingKey(id, job)} ELSE s.pending)

RemoveJob(s, id) ==
    IF id \notin Live(s)
    THEN s
    ELSE Put(s, id, NoJob,
             IF s.jobs[id].status = "pending"
             THEN s.pending \ {PendingKey(id, s.jobs[id])}
             ELSE s.pending)

-----------------------------------------------------------------------------
(* What a well-kept space looks like.                                      *)

PendingKeys(s) == {PendingKey(id, s.jobs[id]) : id \in List(s, "pending")}

\* The index holds one key for every pending job and nothing else.
IndexExact(s) == s.pending = PendingKeys(s)

\* A job has a lease exactly while it is claimed, and no two jobs share one.
LeaseExclusive(s) ==
    /\ \A id \in Live(s) :
           /\ (s.jobs[id].status = "claimed") <=> (s.jobs[id].lease_id # Nil)
           /\ (s.jobs[id].lease_id # Nil) <=> (s.jobs[id].lease_until # Nil)
    /\ \A a, b \in List(s, "claimed") : s.jobs[a].lease_id = s.jobs[b].lease_id => a = b

\* A job that may still run has failed fewer times than its budget, which is
\* one run at the least; a job that is failed has used it exactly.
Budget(job) == IF job.max_retries = 0 THEN 1 ELSE job.max_retries

RetryBudget(s) ==
    \A id \in Live(s) :
        LET job == s.jobs[id]
        IN  IF job.status = "failed" THEN job.retries = Budget(job)
                                     ELSE job.retries < Budget(job)

\* The outcome fields agree with the status.  A job that waits or was cancelled
\* has the start of a run only if a retry left it there, which no failed run has
\* followed yet.
OutcomeRecorded(s) ==
    \A id \in Live(s) :
        LET job == s.jobs[id]
        IN  /\ (job.finished_at # Nil) <=> (job.status \in Terminal)
            /\ (job.result # Nil) <=> (job.status = "done")
            /\ (job.error # Nil) <=> (job.status = "failed")
            /\ job.status \in {"claimed", "done", "failed"} => job.started_at # Nil
            /\ job.status \in {"pending", "cancelled"} /\ job.started_at # Nil => job.retries = 0
=============================================================================
