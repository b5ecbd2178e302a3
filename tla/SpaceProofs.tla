----------------------------- MODULE SpaceProofs -----------------------------
(***************************************************************************)
(* Every method of the in-memory store keeps the store well: types, the    *)
(* index of pending jobs, leases, retry budgets and outcomes.  Most        *)
(* methods change one job, so most proofs go through one lemma about Put.  *)
(***************************************************************************)
EXTENDS Space, TLAPS

\* What each job satisfies by itself.
JobOK(job) ==
    /\ (job.status = "claimed") <=> (job.lease_id # Nil)
    /\ (job.lease_id # Nil) <=> (job.lease_until # Nil)
    /\ IF job.status = "failed" THEN job.retries = Budget(job) ELSE job.retries < Budget(job)
    /\ (job.finished_at # Nil) <=> (job.status \in Terminal)
    /\ (job.result # Nil) <=> (job.status = "done")
    /\ (job.error # Nil) <=> (job.status = "failed")
    /\ job.status \in {"claimed", "done", "failed"} => job.started_at # Nil
    /\ job.status \in {"pending", "cancelled"} /\ job.started_at # Nil => job.retries = 0

WellKept(s) ==
    /\ s \in SpaceType
    /\ IndexExact(s)
    /\ LeaseExclusive(s)
    /\ RetryBudget(s)
    /\ OutcomeRecorded(s)

\* The keys left for a space in which only the job of `id` changed.
KeysAfter(s, id, job, pending) ==
    \A k : k \in pending <=> \/ k \in s.pending /\ k # PendingKey(id, s.jobs[id])
                             \/ job # NoJob /\ job.status = "pending" /\ k = PendingKey(id, job)

\* No other job holds the lease of `job`.
LeaseUnshared(s, id, job) ==
    \A other \in List(s, "claimed") \ {id} : s.jobs[other].lease_id # job.lease_id

-----------------------------------------------------------------------------
(* The parts of a well-kept space.                                         *)

\* The index read key by key: a key is there exactly if its job is pending.
LEMMA IndexMember ==
    ASSUME NEW s
    PROVE  IndexExact(s) <=>
             \A k : k \in s.pending <=>
                 \E id \in JobIds : /\ s.jobs[id] # NoJob
                                    /\ s.jobs[id].status = "pending"
                                    /\ k = PendingKey(id, s.jobs[id])
BY DEF IndexExact, PendingKeys, List, Live

\* A well-kept space is one whose jobs are well kept one by one, with an exact
\* index and leases that differ.
LEMMA WellKeptByJob ==
    ASSUME NEW s \in SpaceType
    PROVE  WellKept(s) <=>
             /\ IndexExact(s)
             /\ \A id \in Live(s) : JobOK(s.jobs[id])
             /\ \A a, b \in List(s, "claimed") : s.jobs[a].lease_id = s.jobs[b].lease_id => a = b
BY DEF WellKept, LeaseExclusive, RetryBudget, OutcomeRecorded, JobOK

\* A job that is kept is a job.
LEMMA LiveIsJob ==
    ASSUME NEW s \in SpaceType, NEW id \in Live(s)
    PROVE  id \in JobIds /\ s.jobs[id] \in Job
BY DEF SpaceType, Live

\* The empty space is well kept.
LEMMA EmptyWellKept == WellKept(Empty)
<1>1. Empty \in SpaceType
  BY DEF Empty, SpaceType
<1>2. Live(Empty) = {} /\ List(Empty, "claimed") = {} /\ List(Empty, "pending") = {}
  BY DEF Empty, Live, List
<1>3. IndexExact(Empty)
  BY <1>2 DEF IndexExact, PendingKeys, Empty
<1> QED
  BY <1>1, <1>2, <1>3, WellKeptByJob

-----------------------------------------------------------------------------
(* One job changes.                                                        *)

\* A write of one job keeps the space well kept if the job is sound by itself,
\* has a lease of its own, and the index gains or loses its key as its status
\* says (space.rs:56-79).
LEMMA PutWellKept ==
    ASSUME NEW s, WellKept(s), NEW id \in JobIds, NEW job \in Job, NEW pending,
           JobOK(job),
           KeysAfter(s, id, job, pending),
           pending \subseteq JobTypes \X Int \X JobIds,
           job.status = "claimed" => LeaseUnshared(s, id, job)
    PROVE  WellKept(Put(s, id, job, pending))
<1> DEFINE t == Put(s, id, job, pending)
<1>s. s \in SpaceType /\ IndexExact(s) /\ LeaseExclusive(s)
  BY DEF WellKept
<1>1. /\ t.pending = pending
      /\ t.jobs[id] = job
      /\ \A x \in JobIds : x # id => t.jobs[x] = s.jobs[x]
      /\ t \in SpaceType
  BY <1>s DEF Put, SpaceType
<1>2. job # NoJob
  BY NoJobAssumption
<1>3. \A x \in Live(t) : JobOK(t.jobs[x])
  <2>1. \A x \in Live(s) : JobOK(s.jobs[x])
    BY <1>s, WellKeptByJob
  <2> QED
    BY <2>1, <1>1 DEF Live
<1>4. ASSUME NEW a \in List(t, "claimed"), NEW b \in List(t, "claimed"),
             t.jobs[a].lease_id = t.jobs[b].lease_id
      PROVE  a = b
  <2>1. \A x \in List(t, "claimed") : x # id => x \in List(s, "claimed")
    BY <1>1 DEF List, Live
  <2> QED
    BY <2>1, <1>s, <1>1, <1>4 DEF LeaseExclusive, LeaseUnshared, List, Live
<1>5. IndexExact(t)
  <2> SUFFICES ASSUME NEW k
               PROVE  k \in pending <=>
                        \E x \in JobIds : /\ t.jobs[x] # NoJob
                                          /\ t.jobs[x].status = "pending"
                                          /\ k = PendingKey(x, t.jobs[x])
    BY <1>1, IndexMember
  <2>1. k \in s.pending <=>
            \E x \in JobIds : /\ s.jobs[x] # NoJob
                              /\ s.jobs[x].status = "pending"
                              /\ k = PendingKey(x, s.jobs[x])
    BY <1>s, IndexMember
  <2>2. k \in s.pending /\ k # PendingKey(id, s.jobs[id]) <=>
            \E x \in JobIds : /\ x # id
                              /\ s.jobs[x] # NoJob
                              /\ s.jobs[x].status = "pending"
                              /\ k = PendingKey(x, s.jobs[x])
    BY <2>1 DEF PendingKey
  <2> QED
    BY <2>2, <1>1, <1>2 DEF KeysAfter
<1> QED
  BY <1>1, <1>3, <1>4, <1>5, WellKeptByJob

-----------------------------------------------------------------------------
(* The methods, one lemma each.                                            *)

\* A new job keeps the space well kept (space.rs:38-58).
LEMMA EnqueueWellKept ==
    ASSUME NEW s, WellKept(s), NEW id \in JobIds \ Live(s), NEW type \in JobTypes,
           NEW max_retries \in 0..MaxU8, NEW now \in Int
    PROVE  WellKept(EnqueueWithId(s, id, type, max_retries, now))
<1> DEFINE job == NewJob(type, max_retries, now)
<1> DEFINE pending == s.pending \cup {PendingKey(id, job)}
<1>s. s \in SpaceType /\ IndexExact(s)
  BY DEF WellKept
<1>1. job \in Job /\ JobOK(job) /\ job.status = "pending"
  BY U8Assumption DEF NewJob, Job, JobOK, Statuses, Terminal, Budget
<1>2. KeysAfter(s, id, job, pending)
  <2>1. \A k \in s.pending : k[3] # id
    BY <1>s, IndexMember DEF PendingKey, Live
  <2>2. PendingKey(id, s.jobs[id])[3] = id
    BY DEF PendingKey
  <2> QED
    BY <2>1, <2>2, <1>1, NoJobAssumption DEF KeysAfter
<1>3. pending \subseteq JobTypes \X Int \X JobIds
  BY <1>s DEF SpaceType, PendingKey, NewJob
<1> QED
  BY <1>1, <1>2, <1>3, PutWellKept DEF EnqueueWithId

\* A pending job's key is in the index; a key in the index is its job's.
LEMMA PendingKeyIndexed ==
    ASSUME NEW s, WellKept(s)
    PROVE  /\ \A id \in List(s, "pending") : PendingKey(id, s.jobs[id]) \in s.pending
           /\ \A key \in s.pending : /\ key[3] \in List(s, "pending")
                                    /\ key = PendingKey(key[3], s.jobs[key[3]])
           /\ \A id \in Live(s) : s.jobs[id].status # "pending"
                                  => PendingKey(id, s.jobs[id]) \notin s.pending
<1>s. IndexExact(s)
  BY DEF WellKept
<1> QED
  BY <1>s, IndexMember DEF PendingKey, List, Live

\* A pending job that is claimed is a sound claimed job (types.rs:46-63).
LEMMA ClaimedJob ==
    ASSUME NEW job \in Job, JobOK(job), job.status = "pending", NEW lease \in LeaseIds,
           NEW until \in Int, NEW worker \in Workers \cup {Nil}, NEW now \in Int
    PROVE  LET claimed == Claimed(job, lease, until, worker, now)
           IN  claimed \in Job /\ JobOK(claimed) /\ claimed.status = "claimed"
               /\ claimed.lease_id = lease
BY NilAssumption DEF Claimed, Job, JobOK, Statuses, Terminal, Budget

\* A claim under a fresh lease keeps the space well kept (space.rs:60-94).
LEMMA ClaimWellKept ==
    ASSUME NEW s, WellKept(s), NEW key \in s.pending, NEW lease \in LeaseIds,
           \A id \in List(s, "claimed") : s.jobs[id].lease_id # lease,
           NEW ttl \in Int, NEW worker \in Workers \cup {Nil}, NEW now \in Int
    PROVE  WellKept(ClaimKey(s, key, lease, ttl, worker, now))
<1> DEFINE id == key[3]
           job == Claimed(s.jobs[id], lease, now + ttl, worker, now)
<1>s. s \in SpaceType
  BY DEF WellKept
<1>1. id \in List(s, "pending") /\ key = PendingKey(id, s.jobs[id])
  BY PendingKeyIndexed
<1>2. /\ id \in JobIds
      /\ s.jobs[id] # NoJob
      /\ s.jobs[id] \in Job
      /\ s.jobs[id].status = "pending"
      /\ JobOK(s.jobs[id])
  BY <1>1, <1>s, LiveIsJob, WellKeptByJob DEF List, Live
<1>3. job \in Job /\ JobOK(job) /\ job.status = "claimed" /\ job.lease_id = lease
  BY <1>2, ClaimedJob
<1>4. KeysAfter(s, id, job, s.pending \ {key})
  BY <1>1, <1>3 DEF KeysAfter
<1>5. s.pending \ {key} \subseteq JobTypes \X Int \X JobIds
  BY <1>s DEF SpaceType
<1>6. LeaseUnshared(s, id, job)
  BY <1>3 DEF LeaseUnshared
<1>7. WellKept(Put(s, id, job, s.pending \ {key}))
  BY <1>2, <1>3, <1>4, <1>5, <1>6, PutWellKept
<1> QED
  BY <1>2, <1>7 DEF ClaimKey

\* What the holder of a lease reports on: a claimed job, not in the index.
LEMMA CheckedJob ==
    ASSUME NEW s, WellKept(s), NEW id \in JobIds, NEW lease, CheckLease(s, id, lease)
    PROVE  /\ s \in SpaceType
           /\ id \in List(s, "claimed")
           /\ s.jobs[id] \in Job
           /\ s.jobs[id].status = "claimed"
           /\ s.jobs[id].lease_id = lease
           /\ JobOK(s.jobs[id])
           /\ PendingKey(id, s.jobs[id]) \notin s.pending
<1>s. s \in SpaceType
  BY DEF WellKept
<1>1. id \in List(s, "claimed") /\ id \in Live(s)
  BY DEF CheckLease, List, Live
<1>2. s.jobs[id] \in Job /\ JobOK(s.jobs[id])
  BY <1>s, <1>1, LiveIsJob, WellKeptByJob
<1> QED
  BY <1>s, <1>1, <1>2, PendingKeyIndexed DEF CheckLease

\* A completion, accepted or refused, keeps the space well kept.
LEMMA CompleteWellKept ==
    ASSUME NEW s, WellKept(s), NEW id \in JobIds, NEW lease, NEW result \in Payloads,
           NEW now \in Int
    PROVE  WellKept(CompleteJob(s, id, lease, result, now))
<1>1. CASE ~CheckLease(s, id, lease)
  BY <1>1 DEF CompleteJob
<1>2. CASE CheckLease(s, id, lease)
  <2> DEFINE old == s.jobs[id]
             job == [old EXCEPT !.status = "done", !.result = result, !.finished_at = now,
                                !.lease_until = Nil, !.lease_id = Nil]
  <2>1. /\ s \in SpaceType
        /\ old \in Job
        /\ old.status = "claimed"
        /\ JobOK(old)
        /\ PendingKey(id, old) \notin s.pending
    BY <1>2, CheckedJob
  <2>2. job \in Job /\ JobOK(job) /\ job.status = "done"
    BY <2>1, NilAssumption DEF Job, JobOK, Statuses, Terminal, Budget, Payloads
  <2>3. KeysAfter(s, id, job, s.pending)
    BY <2>1, <2>2 DEF KeysAfter
  <2>4. s.pending \subseteq JobTypes \X Int \X JobIds
    BY <2>1 DEF SpaceType
  <2>5. WellKept(Put(s, id, job, s.pending))
    BY <2>2, <2>3, <2>4, PutWellKept
  <2> QED
    BY <1>2, <2>5 DEF CompleteJob
<1> QED
  BY <1>1, <1>2

\* A job taken back from its worker, with budget left, is a pending job.
LEMMA RequeuedJob ==
    ASSUME NEW job \in Job, job.finished_at = Nil, job.result = Nil, job.error = Nil,
           job.retries < Budget(job)
    PROVE  /\ Requeued(job) \in Job
           /\ JobOK(Requeued(job))
           /\ Requeued(job).status = "pending"
           /\ \A id : PendingKey(id, Requeued(job)) = PendingKey(id, job)
BY DEF Requeued, Job, JobOK, Statuses, Terminal, Budget, PendingKey

\* A failed job has the type of a job.
LEMMA FailedType ==
    ASSUME NEW job \in Job, NEW message \in Payloads, NEW now \in Int
    PROVE  [job EXCEPT !.status = "failed", !.error = message, !.finished_at = now,
                       !.lease_until = Nil, !.lease_id = Nil] \in Job
BY DEF Job, Statuses, Payloads

\* A claimed job whose last run failed is a failed job.
LEMMA FailedJob ==
    ASSUME NEW job \in Job, job.result = Nil, job.started_at # Nil, job.retries = Budget(job),
           NEW message \in Payloads, NEW now \in Int
    PROVE  LET failed == [job EXCEPT !.status = "failed", !.error = message, !.finished_at = now,
                                     !.lease_until = Nil, !.lease_id = Nil]
           IN  failed \in Job /\ JobOK(failed) /\ failed.status = "failed"
<1> DEFINE failed == [job EXCEPT !.status = "failed", !.error = message, !.finished_at = now,
                                 !.lease_until = Nil, !.lease_id = Nil]
<1>1. message # Nil /\ now # Nil
  BY NilAssumption DEF Payloads
<1>2. failed \in Job
  BY FailedType
<1>3. /\ failed.status = "failed"
      /\ failed.retries = Budget(failed)
      /\ failed.lease_id = Nil
      /\ failed.lease_until = Nil
      /\ failed.started_at # Nil
      /\ failed.finished_at = now
      /\ failed.result = Nil
      /\ failed.error = message
  BY DEF Job, Budget
<1>4. JobOK(failed)
  BY <1>1, <1>3 DEF JobOK, Terminal
<1> QED
  BY <1>2, <1>3, <1>4

\* A reported failure, which requeues the job or ends it, keeps the space
\* well kept.
LEMMA FailWellKept ==
    ASSUME NEW s, WellKept(s), NEW id \in JobIds, NEW lease, NEW message \in Payloads,
           NEW now \in Int
    PROVE  WellKept(FailJob(s, id, lease, message, now))
<1>1. CASE ~CheckLease(s, id, lease)
  BY <1>1 DEF FailJob
<1>2. CASE CheckLease(s, id, lease)
  <2> DEFINE old     == s.jobs[id]
             retries == NextU8(old.retries)
             counted == [old EXCEPT !.retries = retries]
             again   == Requeued(counted)
             failed  == [counted EXCEPT !.status = "failed", !.error = message,
                                        !.finished_at = now, !.lease_until = Nil, !.lease_id = Nil]
  <2>1. /\ s \in SpaceType
        /\ old \in Job
        /\ old.status = "claimed"
        /\ JobOK(old)
        /\ PendingKey(id, old) \notin s.pending
    BY <1>2, CheckedJob
  <2>2. old.retries \in 0..MaxU8 /\ old.max_retries \in 0..MaxU8
    BY <2>1 DEF Job
  \* The job still had budget, so the counter does not wrap.
  <2>3. retries = old.retries + 1 /\ retries \in 0..MaxU8 /\ retries <= Budget(old)
    BY <2>1, <2>2, U8Assumption DEF JobOK, Budget, NextU8
  <2>4. /\ counted \in Job
        /\ counted.retries = retries
        /\ counted.max_retries = old.max_retries
        /\ PendingKey(id, counted) = PendingKey(id, old)
        /\ counted.started_at # Nil
        /\ counted.finished_at = Nil
        /\ counted.result = Nil
        /\ counted.error = Nil
    BY <2>1, <2>3 DEF Job, JobOK, Terminal, PendingKey
  <2>5. CASE retries < counted.max_retries
    <3>1. /\ again \in Job
          /\ JobOK(again)
          /\ again.status = "pending"
          /\ PendingKey(id, again) = PendingKey(id, counted)
      <4>1. counted.retries < Budget(counted)
        BY <2>2, <2>3, <2>4, <2>5 DEF Budget
      <4> QED
        BY <2>4, <4>1, RequeuedJob
    <3>2. KeysAfter(s, id, again, s.pending \cup {PendingKey(id, counted)})
      BY <2>1, <3>1, NoJobAssumption DEF KeysAfter
    <3>3. s.pending \cup {PendingKey(id, counted)} \subseteq JobTypes \X Int \X JobIds
      BY <2>1, <2>4 DEF SpaceType, PendingKey, Job
    <3>4. WellKept(Put(s, id, again, s.pending \cup {PendingKey(id, counted)}))
      BY <3>1, <3>2, <3>3, PutWellKept
    <3> QED
      BY <1>2, <2>5, <3>4 DEF FailJob
  <2>6. CASE ~(retries < counted.max_retries)
    <3>1. failed \in Job /\ JobOK(failed) /\ failed.status = "failed"
      <4>1. counted.retries = Budget(counted)
        BY <2>2, <2>3, <2>4, <2>6 DEF Budget
      <4> QED
        BY <2>4, <4>1, FailedJob
    <3>2. KeysAfter(s, id, failed, s.pending)
      BY <2>1, <3>1 DEF KeysAfter
    <3>3. s.pending \subseteq JobTypes \X Int \X JobIds
      BY <2>1 DEF SpaceType
    <3>4. WellKept(Put(s, id, failed, s.pending))
      BY <3>1, <3>2, <3>3, PutWellKept
    <3> QED
      BY <1>2, <2>6, <3>4 DEF FailJob
  <2> QED
    BY <2>5, <2>6
<1> QED
  BY <1>1, <1>2

\* A heartbeat keeps the space well kept.
LEMMA ExtendWellKept ==
    ASSUME NEW s, WellKept(s), NEW id \in JobIds, NEW lease, NEW until \in Int
    PROVE  WellKept(ExtendLease(s, id, lease, until))
<1>1. CASE ~CheckLease(s, id, lease)
  BY <1>1 DEF ExtendLease
<1>2. CASE CheckLease(s, id, lease)
  <2> DEFINE old == s.jobs[id]
             job == [old EXCEPT !.lease_until = until]
  <2>1. /\ s \in SpaceType
        /\ id \in List(s, "claimed")
        /\ old \in Job
        /\ old.status = "claimed"
        /\ JobOK(old)
        /\ PendingKey(id, old) \notin s.pending
    BY <1>2, CheckedJob
  <2>2. job \in Job /\ JobOK(job) /\ job.status = "claimed" /\ job.lease_id = old.lease_id
    BY <2>1, NilAssumption DEF Job, JobOK, Budget, Terminal
  <2>3. KeysAfter(s, id, job, s.pending)
    BY <2>1, <2>2 DEF KeysAfter
  <2>4. s.pending \subseteq JobTypes \X Int \X JobIds
    BY <2>1 DEF SpaceType
  <2>5. LeaseUnshared(s, id, job)
    BY <2>1, <2>2 DEF LeaseUnshared, WellKept, LeaseExclusive
  <2>6. WellKept(Put(s, id, job, s.pending))
    BY <2>2, <2>3, <2>4, <2>5, PutWellKept
  <2> QED
    BY <1>2, <2>6 DEF ExtendLease
<1> QED
  BY <1>1, <1>2

\* A listed job, with what is known of it.
LEMMA ListedJob ==
    ASSUME NEW s, WellKept(s), NEW status, NEW id \in List(s, status)
    PROVE  /\ s \in SpaceType
           /\ id \in JobIds
           /\ s.jobs[id] \in Job
           /\ s.jobs[id].status = status
           /\ JobOK(s.jobs[id])
           /\ (PendingKey(id, s.jobs[id]) \in s.pending) <=> (status = "pending")
<1>s. s \in SpaceType
  BY DEF WellKept
<1>1. id \in Live(s) /\ s.jobs[id].status = status
  BY DEF List
<1>2. s.jobs[id] \in Job /\ JobOK(s.jobs[id])
  BY <1>s, <1>1, LiveIsJob, WellKeptByJob
<1> QED
  BY <1>s, <1>1, <1>2, PendingKeyIndexed DEF Live

\* A cancellation keeps the space well kept: the key leaves the index.
LEMMA CancelWellKept ==
    ASSUME NEW s, WellKept(s), NEW id \in JobIds, NEW now \in Int
    PROVE  WellKept(CancelJob(s, id, now))
<1>1. CASE id \notin List(s, "pending")
  BY <1>1 DEF CancelJob
<1>2. CASE id \in List(s, "pending")
  <2> DEFINE old     == s.jobs[id]
             job     == [old EXCEPT !.status = "cancelled", !.finished_at = now]
             pending == s.pending \ {PendingKey(id, old)}
  <2>1. s \in SpaceType /\ old \in Job /\ old.status = "pending" /\ JobOK(old)
    BY <1>2, ListedJob
  <2>2. job \in Job /\ JobOK(job) /\ job.status = "cancelled"
    BY <2>1, NilAssumption DEF Job, JobOK, Statuses, Terminal, Budget
  <2>3. KeysAfter(s, id, job, pending)
    BY <2>2 DEF KeysAfter
  <2>4. pending \subseteq JobTypes \X Int \X JobIds
    BY <2>1 DEF SpaceType
  <2>5. WellKept(Put(s, id, job, pending))
    BY <2>2, <2>3, <2>4, PutWellKept
  <2> QED
    BY <1>2, <2>5 DEF CancelJob
<1> QED
  BY <1>1, <1>2

\* A job that is retried by hand has the type of a job.
LEMMA RevivedType ==
    ASSUME NEW job \in Job
    PROVE  [job EXCEPT !.status = "pending", !.error = Nil, !.retries = 0,
                       !.finished_at = Nil] \in Job
<1>1. 0 \in 0..MaxU8
  BY U8Assumption
<1> QED
  BY <1>1 DEF Job, Statuses, Payloads

\* A failed job that is retried is a pending job with its key unchanged.
LEMMA RevivedJob ==
    ASSUME NEW job \in Job, job.status = "failed", JobOK(job)
    PROVE  LET revived == [job EXCEPT !.status = "pending", !.error = Nil, !.retries = 0,
                                      !.finished_at = Nil]
           IN  /\ revived \in Job
               /\ JobOK(revived)
               /\ revived.status = "pending"
               /\ \A id : PendingKey(id, revived) = PendingKey(id, job)
<1> DEFINE revived == [job EXCEPT !.status = "pending", !.error = Nil, !.retries = 0,
                                  !.finished_at = Nil]
<1>1. revived \in Job
  BY RevivedType
<1>2. /\ revived.status = "pending"
      /\ revived.error = Nil
      /\ revived.retries = 0
      /\ revived.finished_at = Nil
      /\ revived.max_retries = job.max_retries
      /\ revived.lease_id = job.lease_id
      /\ revived.lease_until = job.lease_until
      /\ revived.result = job.result
      /\ revived.job_type = job.job_type
      /\ revived.enqueued_at = job.enqueued_at
  BY DEF Job
<1>3. 0 < Budget(revived)
  <2>1. revived.max_retries \in Nat
    BY <1>1, U8Assumption DEF Job
  <2> QED
    BY <2>1 DEF Budget
<1>4. job.lease_id = Nil /\ job.lease_until = Nil /\ job.result = Nil
  BY DEF JobOK
<1>5. JobOK(revived)
  BY <1>2, <1>3, <1>4 DEF JobOK, Terminal
<1> QED
  BY <1>1, <1>2, <1>5 DEF PendingKey

\* A retry by hand keeps the space well kept: the key returns to the index.
LEMMA RetryWellKept ==
    ASSUME NEW s, WellKept(s), NEW id \in JobIds
    PROVE  WellKept(RetryJob(s, id))
<1>1. CASE id \notin List(s, "failed")
  BY <1>1 DEF RetryJob
<1>2. CASE id \in List(s, "failed")
  <2> DEFINE old     == s.jobs[id]
             job     == [old EXCEPT !.status = "pending", !.error = Nil, !.retries = 0,
                                    !.finished_at = Nil]
             pending == s.pending \cup {PendingKey(id, old)}
  <2>1. /\ s \in SpaceType
        /\ old \in Job
        /\ old.status = "failed"
        /\ JobOK(old)
        /\ PendingKey(id, old) \notin s.pending
    BY <1>2, ListedJob
  <2>2. /\ job \in Job
        /\ JobOK(job)
        /\ job.status = "pending"
        /\ PendingKey(id, job) = PendingKey(id, old)
    BY <2>1, RevivedJob
  <2>3. KeysAfter(s, id, job, pending)
    BY <2>1, <2>2, NoJobAssumption DEF KeysAfter
  <2>4. pending \subseteq JobTypes \X Int \X JobIds
    BY <2>1 DEF SpaceType, PendingKey, Job
  <2>5. WellKept(Put(s, id, job, pending))
    BY <2>2, <2>3, <2>4, PutWellKept
  <2> QED
    BY <1>2, <2>5 DEF RetryJob
<1> QED
  BY <1>1, <1>2

\* Any set of claimed jobs may be taken back at once.
LEMMA ReleaseWellKept ==
    ASSUME NEW s, WellKept(s), NEW ids \in SUBSET List(s, "claimed")
    PROVE  WellKept(Release(s, ids))
<1> DEFINE t == Release(s, ids)
<1>s. s \in SpaceType /\ IndexExact(s) /\ LeaseExclusive(s)
  BY DEF WellKept
<1>1. \A id \in ids : /\ id \in JobIds
                       /\ s.jobs[id] \in Job
                       /\ s.jobs[id].status = "claimed"
                       /\ JobOK(s.jobs[id])
  BY ListedJob
<1>2. ASSUME NEW id \in ids
      PROVE  /\ Requeued(s.jobs[id]) \in Job
             /\ JobOK(Requeued(s.jobs[id]))
             /\ Requeued(s.jobs[id]).status = "pending"
             /\ PendingKey(id, Requeued(s.jobs[id])) = PendingKey(id, s.jobs[id])
  <2> DEFINE job == s.jobs[id]
  <2>1. job \in Job /\ job.finished_at = Nil /\ job.result = Nil /\ job.error = Nil
    BY <1>1 DEF JobOK, Terminal
  <2>2. job.retries < Budget(job)
    BY <1>1 DEF JobOK
  <2> QED
    BY <2>1, <2>2, RequeuedJob
<1>3. /\ t.jobs = [id \in JobIds |-> IF id \in ids THEN Requeued(s.jobs[id]) ELSE s.jobs[id]]
      /\ t.pending = s.pending \cup {PendingKey(id, s.jobs[id]) : id \in ids}
  BY DEF Release
<1>4. t \in SpaceType
  <2>1. t.jobs \in [JobIds -> Job \cup {NoJob}]
    BY <1>s, <1>2, <1>3 DEF SpaceType
  <2>2. \A id \in ids : PendingKey(id, s.jobs[id]) \in JobTypes \X Int \X JobIds
    BY <1>1 DEF PendingKey, Job
  <2>3. t.pending \subseteq JobTypes \X Int \X JobIds
    BY <1>s, <1>3, <2>2 DEF SpaceType
  <2> QED
    BY <2>1, <2>3 DEF SpaceType, Release
<1>5. \A id \in Live(t) : JobOK(t.jobs[id])
  <2>1. \A id \in Live(s) : JobOK(s.jobs[id])
    BY <1>s, WellKeptByJob
  <2> QED
    BY <2>1, <1>2, <1>3 DEF Live
<1>6. \A id \in List(t, "claimed") : id \in List(s, "claimed") /\ t.jobs[id] = s.jobs[id]
  BY <1>2, <1>3 DEF List, Live
<1>7. IndexExact(t)
  <2> SUFFICES ASSUME NEW k
               PROVE  k \in t.pending <=>
                        \E id \in JobIds : /\ t.jobs[id] # NoJob
                                           /\ t.jobs[id].status = "pending"
                                           /\ k = PendingKey(id, t.jobs[id])
    BY IndexMember
  <2>1. k \in s.pending <=>
          \E id \in JobIds : /\ s.jobs[id] # NoJob
                             /\ s.jobs[id].status = "pending"
                             /\ k = PendingKey(id, s.jobs[id])
    BY <1>s, IndexMember
  <2>2. k \in t.pending <=> k \in s.pending \/ \E id \in ids : k = PendingKey(id, s.jobs[id])
    BY <1>3
  <2>3. \A id \in ids : Requeued(s.jobs[id]) # NoJob
    BY <1>2, NoJobAssumption
  <2> QED
    BY <2>1, <2>2, <2>3, <1>1, <1>2, <1>3
<1> QED
  BY <1>s, <1>4, <1>5, <1>6, <1>7, WellKeptByJob DEF LeaseExclusive

\* Removing ended jobs keeps the space well kept.
LEMMA RemoveWellKept ==
    ASSUME NEW s, WellKept(s), NEW id \in JobIds
    PROVE  WellKept(RemoveJob(s, id))
<1>1. CASE id \notin Live(s)
  BY <1>1 DEF RemoveJob
<1>2. CASE id \in Live(s)
  <2> DEFINE pending == s.pending \ {PendingKey(id, s.jobs[id])}
             t       == Put(s, id, NoJob, pending)
  <2>s. s \in SpaceType /\ IndexExact(s) /\ LeaseExclusive(s)
    BY DEF WellKept
  <2>1. RemoveJob(s, id) = t
    BY <1>2, PendingKeyIndexed DEF RemoveJob
  <2>2. /\ t.pending = pending
        /\ t.jobs[id] = NoJob
        /\ \A x \in JobIds : x # id => t.jobs[x] = s.jobs[x]
        /\ t \in SpaceType
    BY <2>s DEF Put, SpaceType
  <2>3. \A x \in Live(t) : JobOK(t.jobs[x])
    <3>1. \A x \in Live(s) : JobOK(s.jobs[x])
      BY <2>s, WellKeptByJob
    <3> QED
      BY <3>1, <2>2 DEF Live
  <2>4. \A x \in List(t, "claimed") : x \in List(s, "claimed") /\ t.jobs[x] = s.jobs[x]
    BY <2>2 DEF List, Live
  <2>5. IndexExact(t)
    <3> SUFFICES ASSUME NEW k
                 PROVE  k \in pending <=>
                          \E x \in JobIds : /\ t.jobs[x] # NoJob
                                            /\ t.jobs[x].status = "pending"
                                            /\ k = PendingKey(x, t.jobs[x])
      BY <2>2, IndexMember
    <3>1. k \in s.pending <=>
            \E x \in JobIds : /\ s.jobs[x] # NoJob
                              /\ s.jobs[x].status = "pending"
                              /\ k = PendingKey(x, s.jobs[x])
      BY <2>s, IndexMember
    <3>2. \A x \in JobIds : x # id => PendingKey(x, s.jobs[x]) # PendingKey(id, s.jobs[id])
      BY DEF PendingKey
    <3> QED
      BY <3>1, <3>2, <2>2
  <2>6. WellKept(t)
    BY <2>s, <2>2, <2>3, <2>4, <2>5, WellKeptByJob DEF LeaseExclusive
  <2> QED
    BY <2>1, <2>6
<1> QED
  BY <1>1, <1>2

-----------------------------------------------------------------------------
(* Who ends a run.                                                         *)

\* A report of a run that ends its job comes with the lease of that run.
ReportedByHolder(s, t) ==
    \A id \in List(s, "claimed") :
        t.jobs[id] # NoJob /\ t.jobs[id].status \in {"done", "failed"}
        => s.jobs[id].lease_id \in {t.jobs[id].result, t.jobs[id].error}

LEMMA StutterEndsNoRun ==
    ASSUME NEW s
    PROVE  ReportedByHolder(s, s)
BY DEF ReportedByHolder, List

\* A completion or a failure is accepted from the holder of the lease only,
\* and keeps what the holder reports (space.rs:281-289).
LEMMA ReportsByHolder ==
    ASSUME NEW s \in SpaceType, NEW id \in JobIds, NEW lease, NEW now
    PROVE  /\ ReportedByHolder(s, CompleteJob(s, id, lease, lease, now))
           /\ ReportedByHolder(s, FailJob(s, id, lease, lease, now))
<1>1. ReportedByHolder(s, s)
  BY StutterEndsNoRun
<1>2. ReportedByHolder(s, CompleteJob(s, id, lease, lease, now))
  BY <1>1 DEF ReportedByHolder, List, Live, CompleteJob, CheckLease, Put, SpaceType, Job
<1>3. ReportedByHolder(s, FailJob(s, id, lease, lease, now))
  BY <1>1 DEF ReportedByHolder, List, Live, FailJob, Requeued, CheckLease, Put, SpaceType, Job
<1> QED
  BY <1>2, <1>3

\* No other call ends a job that is claimed.
LEMMA OthersEndNoRun ==
    ASSUME NEW s \in SpaceType, NEW id \in JobIds, NEW lease, NEW now
    PROVE  /\ ReportedByHolder(s, ExtendLease(s, id, lease, now))
           /\ ReportedByHolder(s, CancelJob(s, id, now))
           /\ ReportedByHolder(s, RetryJob(s, id))
           /\ ReportedByHolder(s, RemoveJob(s, id))
<1>1. ReportedByHolder(s, ExtendLease(s, id, lease, now))
  BY DEF ReportedByHolder, List, Live, ExtendLease, CheckLease, Put, SpaceType, Job
<1>2. ReportedByHolder(s, CancelJob(s, id, now))
  BY DEF ReportedByHolder, CancelJob, Put, List, Live, SpaceType, Job
<1>3. ReportedByHolder(s, RetryJob(s, id))
  BY DEF ReportedByHolder, RetryJob, Put, List, Live, SpaceType, Job
<1>4. ReportedByHolder(s, RemoveJob(s, id))
  BY DEF ReportedByHolder, List, Live, RemoveJob, Put, SpaceType
<1> QED
  BY <1>1, <1>2, <1>3, <1>4

\* A new job is pending.
LEMMA NewJobEndsNoRun ==
    ASSUME NEW s \in SpaceType, NEW id \in JobIds, NEW type, NEW max_retries, NEW now
    PROVE  ReportedByHolder(s, EnqueueWithId(s, id, type, max_retries, now))
BY DEF ReportedByHolder, List, Live, EnqueueWithId, NewJob, Put, SpaceType

\* A claim leaves a claimed job.
LEMMA ClaimEndsNoRun ==
    ASSUME NEW s \in SpaceType, NEW key \in s.pending, NEW lease, NEW ttl, NEW worker, NEW now
    PROVE  ReportedByHolder(s, ClaimKey(s, key, lease, ttl, worker, now))
<1>1. key[3] \in JobIds
  BY DEF SpaceType
<1>2. CASE s.jobs[key[3]] = NoJob
  BY <1>2 DEF ReportedByHolder, List, Live, ClaimKey
<1>3. CASE s.jobs[key[3]] # NoJob
  <2> DEFINE t == ClaimKey(s, key, lease, ttl, worker, now)
             old == s.jobs[key[3]]
  <2>1. old \in Job
    BY <1>1, <1>3 DEF SpaceType
  <2>2. t.jobs = [s.jobs EXCEPT ![key[3]] = Claimed(old, lease, now + ttl, worker, now)]
    BY <1>3 DEF ClaimKey, Put
  <2>3. Claimed(old, lease, now + ttl, worker, now).status = "claimed"
    <3> HIDE DEF old
    <3> QED
      BY <2>1 DEF Claimed, Job
  <2>4. t.jobs[key[3]].status = "claimed" /\ \A x \in JobIds : x # key[3] => t.jobs[x] = s.jobs[x]
    BY <1>1, <2>2, <2>3 DEF SpaceType
  <2> HIDE DEF t, old
  <2>5. ReportedByHolder(s, t)
    BY <2>4 DEF ReportedByHolder, List, Live
  <2> QED
    BY <2>5 DEF t
<1> QED
  BY <1>2, <1>3

\* A release sends jobs back to the queue.
LEMMA ReleaseEndsNoRun ==
    ASSUME NEW s \in SpaceType, NEW ids \in SUBSET List(s, "claimed")
    PROVE  ReportedByHolder(s, Release(s, ids))
<1>1. \A id \in ids : s.jobs[id] \in Job
  BY DEF List, Live, SpaceType
<1> QED
  BY <1>1 DEF Release, Requeued, ReportedByHolder, List, Live, Job
=============================================================================
