-------------------------- MODULE TupleSpaceProofs --------------------------
(***************************************************************************)
(* The store under any number of callers, jobs, leases and times: its      *)
(* invariants, which together are inductive, what its steps may do, and    *)
(* that it implements the abstract queue.                                  *)
(***************************************************************************)
EXTENDS TupleSpace, SpaceProofs

\* The invariants of TupleSpace hold each other up: a claim trusts the index,
\* the index is right because only pending jobs are claimed, and a lease is
\* good for one job because it was never drawn before.
IInv ==
    /\ TypeOK
    /\ PendingIndexExact
    /\ LeasesExclusive
    /\ RetriesBounded
    /\ OutcomesRecorded

\* The lease of every claimed job was drawn.
LeasesDrawn(s, leases) == \A id \in List(s, "claimed") : s.jobs[id].lease_id \in leases

\* The invariant, part by part.
LEMMA IInvParts ==
    IInv <=> /\ WellKept(space)
             /\ LeasesDrawn(space, usedLeases)
             /\ Live(space) \subseteq usedIds
             /\ usedIds \subseteq JobIds
             /\ usedLeases \subseteq LeaseIds
BY DEF IInv, TypeOK, PendingIndexExact, LeasesExclusive, RetriesBounded, OutcomesRecorded,
       WellKept, LeasesDrawn

\* The same of the next state.
LEMMA IInvPartsNext ==
    IInv' <=> /\ WellKept(space')
              /\ LeasesDrawn(space', usedLeases')
              /\ Live(space') \subseteq usedIds'
              /\ usedIds' \subseteq JobIds
              /\ usedLeases' \subseteq LeaseIds
BY DEF IInv, TypeOK, PendingIndexExact, LeasesExclusive, RetriesBounded, OutcomesRecorded,
       WellKept, LeasesDrawn

\* A call that changes no set of names, creates no job and hands out no lease.
NoNewNames(s, t) ==
    /\ Live(t) \subseteq Live(s)
    /\ \A id \in List(t, "claimed") : id \in List(s, "claimed")
                                      /\ t.jobs[id].lease_id = s.jobs[id].lease_id

\* A step that draws no id and no lease, and leaves a well-kept space whose
\* claimed jobs had their leases before, keeps the invariant.
LEMMA NoNewNamesKeeps ==
    ASSUME IInv, WellKept(space'), NoNewNames(space, space'), UNCHANGED <<usedIds, usedLeases>>
    PROVE  IInv'
<1>1. LeasesDrawn(space', usedLeases')
  BY IInvParts DEF NoNewNames, LeasesDrawn
<1> QED
  BY <1>1, IInvParts, IInvPartsNext DEF NoNewNames

\* The empty store satisfies the invariant.
LEMMA Initial == Init => IInv
<1> SUFFICES ASSUME Init PROVE IInv
  OBVIOUS
<1>1. WellKept(space)
  BY EmptyWellKept DEF Init
<1>2. Live(space) = {} /\ List(space, "claimed") = {}
  BY DEF Init, Empty, Live, List
<1> QED
  BY <1>1, <1>2, IInvParts DEF Init, LeasesDrawn

-----------------------------------------------------------------------------
(* The calls that leave the names alone.                                   *)

\* No report, heartbeat, cancellation or retry gives a job a new lease.
LEMMA ReportNames ==
    ASSUME NEW s \in SpaceType, NEW id \in JobIds, NEW lease, NEW payload, NEW now
    PROVE  /\ NoNewNames(s, CompleteJob(s, id, lease, payload, now))
           /\ NoNewNames(s, FailJob(s, id, lease, payload, now))
           /\ NoNewNames(s, ExtendLease(s, id, lease, now))
           /\ NoNewNames(s, CancelJob(s, id, now))
           /\ NoNewNames(s, RetryJob(s, id))
           /\ NoNewNames(s, RemoveJob(s, id))
<1>1. NoNewNames(s, CompleteJob(s, id, lease, payload, now))
  BY DEF NoNewNames, CompleteJob, CheckLease, Put, List, Live, SpaceType, Job
<1>2. NoNewNames(s, FailJob(s, id, lease, payload, now))
  BY DEF NoNewNames, FailJob, Requeued, CheckLease, Put, List, Live, SpaceType, Job
<1>3. NoNewNames(s, ExtendLease(s, id, lease, now))
  BY DEF NoNewNames, ExtendLease, CheckLease, Put, List, Live, SpaceType, Job
<1>4. NoNewNames(s, CancelJob(s, id, now))
  BY DEF NoNewNames, CancelJob, Put, List, Live, SpaceType, Job
<1>5. NoNewNames(s, RetryJob(s, id))
  BY DEF NoNewNames, RetryJob, Put, List, Live, SpaceType, Job
<1>6. NoNewNames(s, RemoveJob(s, id))
  BY DEF NoNewNames, RemoveJob, Put, List, Live, SpaceType, Job
<1> QED
  BY <1>1, <1>2, <1>3, <1>4, <1>5, <1>6

-----------------------------------------------------------------------------
(* The calls that name a job, a lease or several jobs.                     *)

\* A new job gets an id that was never drawn, so it overwrites none.
LEMMA EnqueueKeeps ==
    ASSUME IInv, NEW now \in Times, NEW type \in JobTypes, NEW max_retries \in RetryLimits,
           Enqueue(type, max_retries, now)
    PROVE  IInv'
<1>1. PICK id \in JobIds \ usedIds :
          /\ space' = EnqueueWithId(space, id, type, max_retries, now)
          /\ usedIds' = usedIds \cup {id}
          /\ UNCHANGED usedLeases
  BY DEF Enqueue
<1>2. /\ WellKept(space)
      /\ LeasesDrawn(space, usedLeases)
      /\ Live(space) \subseteq usedIds
      /\ space \in SpaceType
  BY IInvParts DEF WellKept
<1>3. WellKept(space')
  BY <1>1, <1>2, EnqueueWellKept, TimesAssumption, RetryLimitsAssumption
<1>4. /\ Live(space') \subseteq Live(space) \cup {id}
      /\ \A x \in List(space', "claimed") : /\ x \in List(space, "claimed")
                                            /\ space'.jobs[x] = space.jobs[x]
  BY <1>1, <1>2 DEF EnqueueWithId, Put, NewJob, Live, List, SpaceType
<1> QED
  BY <1>1, <1>2, <1>3, <1>4, IInvParts, IInvPartsNext DEF LeasesDrawn

\* A claim takes a job that is pending, since the index says so, and gives it
\* a lease that no job had.
LEMMA ClaimKeeps ==
    ASSUME IInv, NEW now \in Times, NEW type \in JobTypes, NEW ttl \in Ttls,
           NEW worker \in Workers \cup {Nil}, Claim(type, ttl, worker, now)
    PROVE  IInv'
<1>1. PICK lease \in LeaseIds \ usedLeases, key \in OldestKeys(space, type) :
          /\ space' = ClaimKey(space, key, lease, ttl, worker, now)
          /\ usedLeases' = usedLeases \cup {lease}
          /\ UNCHANGED usedIds
  BY DEF Claim
<1>2. /\ WellKept(space)
      /\ LeasesDrawn(space, usedLeases)
      /\ Live(space) \subseteq usedIds
      /\ space \in SpaceType
  BY IInvParts DEF WellKept
<1>3. key \in space.pending
  BY <1>1 DEF OldestKeys
<1>4. \A id \in List(space, "claimed") : space.jobs[id].lease_id # lease
  BY <1>1, <1>2 DEF LeasesDrawn
<1>5. WellKept(space')
  BY <1>1, <1>2, <1>3, <1>4, ClaimWellKept, TimesAssumption, TtlsAssumption
<1>6. key[3] \in Live(space) /\ key[3] \in JobIds /\ space.jobs[key[3]] \in Job
  BY <1>2, <1>3, PendingKeyIndexed, LiveIsJob DEF List
<1>7. /\ Live(space') \subseteq Live(space)
      /\ \A x \in List(space', "claimed") : /\ x # key[3] => /\ x \in List(space, "claimed")
                                                             /\ space'.jobs[x] = space.jobs[x]
                                            /\ x = key[3] => space'.jobs[x].lease_id = lease
  <2>1. space' = Put(space, key[3], Claimed(space.jobs[key[3]], lease, now + ttl, worker, now),
                     space.pending \ {key})
    BY <1>1, <1>6 DEF ClaimKey, Live
  <2>2. /\ space'.jobs[key[3]].lease_id = lease
        /\ \A x \in JobIds : x # key[3] => space'.jobs[x] = space.jobs[x]
    BY <2>1, <1>2, <1>6 DEF Put, Claimed, SpaceType, Job
  <2> QED
    BY <2>2, <1>6 DEF Live, List
<1>8. LeasesDrawn(space', usedLeases')
  BY <1>1, <1>2, <1>7 DEF LeasesDrawn
<1> QED
  BY <1>1, <1>2, <1>5, <1>7, <1>8, IInvParts, IInvPartsNext

\* The jobs whose leases ran out are claimed jobs, and lose their leases.
LEMMA ExpireNames ==
    ASSUME IInv, NEW now \in Times, Expire(now)
    PROVE  /\ WellKept(space')
           /\ NoNewNames(space, space')
           /\ UNCHANGED <<usedIds, usedLeases>>
<1> DEFINE ids == Expired(space, now)
<1>1. space' = Release(space, ids) /\ UNCHANGED <<usedIds, usedLeases>>
  BY DEF Expire, ExpireLeases
<1>2. WellKept(space) /\ ids \in SUBSET List(space, "claimed")
  BY IInvParts DEF Expired
<1>3. WellKept(space')
  BY <1>1, <1>2, ReleaseWellKept
<1>4. \A id \in ids : space.jobs[id] \in Job /\ id \in Live(space)
  BY <1>2, ListedJob DEF List
<1>5. NoNewNames(space, space')
  BY <1>1, <1>4 DEF NoNewNames, Release, Requeued, Live, List, Job
<1> QED
  BY <1>1, <1>3, <1>5

\* Every step of the store keeps the invariants.
LEMMA Step == IInv /\ [Next]_vars => IInv'
<1> SUFFICES ASSUME IInv, [Next]_vars PROVE IInv'
  OBVIOUS
<1>w. /\ WellKept(space)
      /\ space \in SpaceType
      /\ usedIds \subseteq JobIds
      /\ usedLeases \subseteq Payloads
  BY IInvParts DEF WellKept, Payloads
<1>1. CASE \E now \in Times, type \in JobTypes, max_retries \in RetryLimits :
               Enqueue(type, max_retries, now)
  BY <1>1, EnqueueKeeps
<1>2. CASE \E now \in Times, type \in JobTypes, ttl \in Ttls, worker \in Workers \cup {Nil} :
               Claim(type, ttl, worker, now)
  BY <1>2, ClaimKeeps
<1>3. ASSUME NEW now \in Times, NEW id \in usedIds, NEW lease \in usedLeases,
             Complete(id, lease, now)
      PROVE  IInv'
  BY <1>3, <1>w, CompleteWellKept, ReportNames, NoNewNamesKeeps, TimesAssumption DEF Complete
<1>4. ASSUME NEW now \in Times, NEW id \in usedIds, NEW lease \in usedLeases,
             Fail(id, lease, now)
      PROVE  IInv'
  BY <1>4, <1>w, FailWellKept, ReportNames, NoNewNamesKeeps, TimesAssumption DEF Fail
<1>5. ASSUME NEW now \in Times, NEW id \in usedIds, NEW lease \in usedLeases,
             NEW ttl \in Ttls, Extend(id, lease, now + ttl)
      PROVE  IInv'
  <2>1. now + ttl \in Int
    BY TimesAssumption, TtlsAssumption
  <2> QED
    BY <1>5, <1>w, <2>1, ExtendWellKept, ReportNames, NoNewNamesKeeps DEF Extend
<1>6. ASSUME NEW now \in Times, NEW id \in usedIds, Cancel(id, now)
      PROVE  IInv'
  BY <1>6, <1>w, CancelWellKept, ReportNames, NoNewNamesKeeps, TimesAssumption DEF Cancel
<1>7. CASE \E now \in Times : Expire(now)
  BY <1>7, ExpireNames, NoNewNamesKeeps
<1>8. ASSUME NEW id \in usedIds, Retry(id)
      PROVE  IInv'
  BY <1>8, <1>w, RetryWellKept, ReportNames, NoNewNamesKeeps DEF Retry
<1>9. ASSUME NEW id \in usedIds, Remove(id)
      PROVE  IInv'
  BY <1>9, <1>w, RemoveWellKept, ReportNames, NoNewNamesKeeps DEF Remove
<1>10. CASE UNCHANGED vars
  BY <1>10, IInvParts, IInvPartsNext DEF vars, LeasesDrawn, WellKept, IndexExact, PendingKeys,
       LeaseExclusive, RetryBudget, OutcomeRecorded, List, Live
<1> QED
  BY <1>1, <1>2, <1>3, <1>4, <1>5, <1>6, <1>7, <1>8, <1>9, <1>10 DEF Next

-----------------------------------------------------------------------------
(* The theorems.                                                           *)

\* In every reachable state of the store all its invariants hold together.
THEOREM Invariance == Spec => []IInv
BY Initial, Step, PTL DEF Spec

\* The store keeps its types (types.rs:46-63, space.rs:8-28).
THEOREM TypeCorrect == Spec => []TypeOK
<1>1. IInv => TypeOK
  BY DEF IInv
<1> QED
  BY <1>1, Invariance, PTL

\* The index that a claim trusts holds exactly the pending jobs, whatever
\* calls came before (space.rs:10-13, 56-79).
THEOREM IndexCorrect == Spec => []PendingIndexExact
<1>1. IInv => PendingIndexExact
  BY DEF IInv
<1> QED
  BY <1>1, Invariance, PTL

\* No two jobs can ever be reported on with one lease (space.rs:281-289).
THEOREM LeasesCorrect == Spec => []LeasesExclusive
<1>1. IInv => LeasesExclusive
  BY DEF IInv
<1> QED
  BY <1>1, Invariance, PTL

\* Retries never pass the budget, so the u8 counter never overflows, for any
\* max_retries a u8 can hold (space.rs:96-117).
THEOREM RetriesCorrect == Spec => []RetriesBounded
<1>1. IInv => RetriesBounded
  BY DEF IInv
<1> QED
  BY <1>1, Invariance, PTL

\* The outcome a job shows is the one of its status, on every path.
THEOREM OutcomesCorrect == Spec => []OutcomesRecorded
<1>1. IInv => OutcomesRecorded
  BY DEF IInv
<1> QED
  BY <1>1, Invariance, PTL

-----------------------------------------------------------------------------
(* What a step may do.                                                     *)

\* No run ends by a new job, a claim or the reaper.
LEMMA GrantsEndNoRun ==
    ASSUME IInv,
           NEW now \in Times,
           \/ \E type \in JobTypes, max_retries \in RetryLimits : Enqueue(type, max_retries, now)
           \/ \E type \in JobTypes, ttl \in Ttls, worker \in Workers \cup {Nil} :
                  Claim(type, ttl, worker, now)
           \/ Expire(now)
    PROVE  ReportedByHolder(space, space')
<1>s. space \in SpaceType /\ usedIds \subseteq JobIds
  BY DEF IInv, TypeOK
<1>1. CASE \E type \in JobTypes, max_retries \in RetryLimits : Enqueue(type, max_retries, now)
  BY <1>1, <1>s, NewJobEndsNoRun DEF Enqueue
<1>2. CASE \E type \in JobTypes, ttl \in Ttls, worker \in Workers \cup {Nil} :
               Claim(type, ttl, worker, now)
  BY <1>2, <1>s, ClaimEndsNoRun DEF Claim, OldestKeys
<1>3. CASE Expire(now)
  BY <1>3, <1>s, ReleaseEndsNoRun DEF Expire, ExpireLeases, Expired
<1> QED
  BY <1>1, <1>2, <1>3

\* Every step that ends a run is a report of its holder.
LEMMA StepReports == IInv /\ [Next]_vars => ReportedByHolder(space, space')
<1> SUFFICES ASSUME IInv, [Next]_vars PROVE ReportedByHolder(space, space')
  OBVIOUS
<1>w. space \in SpaceType /\ usedIds \subseteq JobIds
  BY IInvParts DEF WellKept
<1>1. CASE \E now \in Times :
               \/ \E type \in JobTypes, max_retries \in RetryLimits :
                      Enqueue(type, max_retries, now)
               \/ \E type \in JobTypes, ttl \in Ttls, worker \in Workers \cup {Nil} :
                      Claim(type, ttl, worker, now)
               \/ Expire(now)
  BY <1>1, GrantsEndNoRun
<1>2. CASE \E now \in Times, id \in usedIds, lease \in usedLeases :
               Complete(id, lease, now) \/ Fail(id, lease, now)
  BY <1>2, <1>w, ReportsByHolder DEF Complete, Fail
<1>3. CASE \E now \in Times, id \in usedIds :
               \/ Cancel(id, now)
               \/ \E lease \in usedLeases, ttl \in Ttls : Extend(id, lease, now + ttl)
  BY <1>3, <1>w, OthersEndNoRun DEF Cancel, Extend
<1>4. CASE \E id \in usedIds : Retry(id) \/ Remove(id)
  BY <1>4, <1>w, OthersEndNoRun DEF Retry, Remove
<1>5. CASE UNCHANGED vars
  BY <1>5, StutterEndsNoRun DEF vars
<1> QED
  BY <1>1, <1>2, <1>3, <1>4, <1>5 DEF Next

\* A job that becomes claimed was pending, and no pending job of its type is
\* older.
ClaimedOldest(s, t) ==
    \A id \in JobIds :
        /\ StatusOf(s, id) # "claimed"
        /\ StatusOf(t, id) = "claimed"
        => /\ id \in List(s, "pending")
           /\ \A other \in List(s, "pending") :
                  s.jobs[other].job_type = s.jobs[id].job_type
                  => s.jobs[id].enqueued_at <= s.jobs[other].enqueued_at

\* A call that hands out no lease claims no job.
LEMMA NoNewNamesClaimsNone ==
    ASSUME NEW s, NEW t, \A id \in List(t, "claimed") : id \in List(s, "claimed")
    PROVE  ClaimedOldest(s, t)
BY DEF ClaimedOldest, StatusOf, List, Live

\* The first key of the index is the oldest pending job, because the index is
\* exact: no pending job is missing from it.
LEMMA ClaimTakesOldest ==
    ASSUME IInv, NEW now \in Times, NEW type \in JobTypes, NEW ttl \in Ttls,
           NEW worker \in Workers \cup {Nil}, Claim(type, ttl, worker, now)
    PROVE  ClaimedOldest(space, space')
<1>s. WellKept(space) /\ space \in SpaceType
  BY IInvParts DEF WellKept
<1>1. PICK key \in OldestKeys(space, type), lease \in LeaseIds :
          space' = ClaimKey(space, key, lease, ttl, worker, now)
  BY DEF Claim
<1>2. /\ key \in space.pending
      /\ key[1] = type
      /\ \A other \in space.pending : other[1] = type => key[2] <= other[2]
  BY <1>1 DEF OldestKeys
<1>3. /\ key[3] \in List(space, "pending")
      /\ key = PendingKey(key[3], space.jobs[key[3]])
      /\ \A id \in List(space, "pending") : PendingKey(id, space.jobs[id]) \in space.pending
  BY <1>s, <1>2, PendingKeyIndexed
<1>4. \A other \in List(space, "pending") :
          space.jobs[other].job_type = space.jobs[key[3]].job_type
          => space.jobs[key[3]].enqueued_at <= space.jobs[other].enqueued_at
  <2>1. \A id, job : /\ PendingKey(id, job)[1] = job.job_type
                     /\ PendingKey(id, job)[2] = job.enqueued_at
    BY DEF PendingKey
  <2>2. key[1] = space.jobs[key[3]].job_type /\ key[2] = space.jobs[key[3]].enqueued_at
    BY <1>3, <2>1
  <2> QED
    BY <1>2, <1>3, <2>1, <2>2
<1>5. \A x \in JobIds : x # key[3] => space'.jobs[x] = space.jobs[x]
  <2>1. key[3] \in JobIds /\ space.jobs[key[3]] # NoJob
    BY <1>3 DEF List, Live
  <2> QED
    BY <1>1, <1>s, <2>1 DEF ClaimKey, Put, SpaceType
<1> QED
  BY <1>3, <1>4, <1>5 DEF ClaimedOldest, StatusOf

\* Only a claim claims, and it takes the oldest.
LEMMA StepClaims == IInv /\ [Next]_vars => ClaimedOldest(space, space')
<1> SUFFICES ASSUME IInv, [Next]_vars PROVE ClaimedOldest(space, space')
  OBVIOUS
<1>w. space \in SpaceType /\ usedIds \subseteq JobIds
  BY IInvParts DEF WellKept
<1>1. CASE \E now \in Times, type \in JobTypes, max_retries \in RetryLimits :
               Enqueue(type, max_retries, now)
  <2>1. \A x \in List(space', "claimed") : x \in List(space, "claimed")
    BY <1>1, <1>w DEF Enqueue, EnqueueWithId, NewJob, Put, Live, List, SpaceType
  <2> QED
    BY <2>1, NoNewNamesClaimsNone
<1>2. CASE \E now \in Times, type \in JobTypes, ttl \in Ttls, worker \in Workers \cup {Nil} :
               Claim(type, ttl, worker, now)
  BY <1>2, ClaimTakesOldest
<1>3. CASE \E now \in Times, id \in usedIds, lease \in usedLeases :
               \/ Complete(id, lease, now)
               \/ Fail(id, lease, now)
               \/ \E ttl \in Ttls : Extend(id, lease, now + ttl)
  BY <1>3, <1>w, ReportNames, NoNewNamesClaimsNone DEF Complete, Fail, Extend, NoNewNames
<1>4. CASE \E now \in Times, id \in usedIds : Cancel(id, now)
  BY <1>4, <1>w, ReportNames, NoNewNamesClaimsNone DEF Cancel, NoNewNames
<1>5. CASE \E now \in Times : Expire(now)
  BY <1>5, ExpireNames, NoNewNamesClaimsNone DEF NoNewNames
<1>6. CASE UNCHANGED vars
  BY <1>6 DEF vars, ClaimedOldest, StatusOf
<1>7. CASE \E id \in usedIds : Retry(id) \/ Remove(id)
  BY <1>7, <1>w, ReportNames, NoNewNamesClaimsNone DEF Retry, Remove, NoNewNames
<1> QED
  BY <1>1, <1>2, <1>3, <1>4, <1>5, <1>6, <1>7 DEF Next

\* A job ends only by a report of the worker that holds its lease, however
\* late other reports come (space.rs:281-289).
THEOREM HoldersReport == Spec => HolderReports
<1>1. IInv /\ [Next]_vars => [ReportedByHolder(space, space')]_vars
  BY StepReports
<1>2. ReportedByHolder(space, space') <=>
        \A id \in JobIds :
            /\ StatusOf(space, id) = "claimed"
            /\ StatusOf(space', id) \in {"done", "failed"}
            => space.jobs[id].lease_id \in {space'.jobs[id].result, space'.jobs[id].error}
  BY DEF ReportedByHolder, StatusOf, List, Live
<1> QED
  BY <1>1, <1>2, Invariance, PTL DEF Spec, HolderReports

\* A claim takes the oldest pending job of its type (space.rs:60-94).
THEOREM OldestClaimed == Spec => ClaimsOldest
<1>1. IInv /\ [Next]_vars => [ClaimedOldest(space, space')]_vars
  BY StepClaims
<1>2. ClaimedOldest(space, space') <=>
        \A id \in JobIds :
            /\ StatusOf(space, id) # "claimed"
            /\ StatusOf(space', id) = "claimed"
            => /\ id \in List(space, "pending")
               /\ \A other \in List(space, "pending") :
                      space.jobs[other].job_type = space.jobs[id].job_type
                      => space.jobs[id].enqueued_at <= space.jobs[other].enqueued_at
  BY DEF ClaimedOldest
<1> QED
  BY <1>1, <1>2, Invariance, PTL DEF Spec, ClaimsOldest

-----------------------------------------------------------------------------
(* The store implements the abstract queue: each call moves jobs the way   *)
(* JobQueue allows, or is not seen by it.  The invariants say where a job  *)
(* stands when a call finds it.                                            *)

\* The queue sees one job move: the others stay where they are.
Moved(s, t, ids, id, to, lease) ==
    /\ LifeCycle(t, ids) = [LifeCycle(s, ids) EXCEPT ![id] = to]
    /\ GoodLeases(t) = [GoodLeases(s) EXCEPT ![id] = lease]

\* A write of one job that is kept is seen as a move of that job.
LEMMA PutMoves ==
    ASSUME NEW s \in SpaceType, NEW ids, NEW id \in JobIds \cap ids, NEW job, NEW pending
    PROVE  /\ job # NoJob => Moved(s, Put(s, id, job, pending), ids, id, job.status, job.lease_id)
           /\ job = NoJob => Moved(s, Put(s, id, job, pending), ids, id, "removed", Nil)
BY DEF Moved, LifeCycle, GoodLeases, Put, Live, SpaceType

\* The steps of the abstract queue, read off a move.
LEMMA MoveSteps ==
    ASSUME NEW id \in JobIds, NEW to, NEW lease, UNCHANGED <<usedIds, usedLeases>>,
           Moved(space, space', usedIds, id, to, lease)
    PROVE  LET from == LifeCycle(space, usedIds)[id]
           IN  /\ from = "claimed" /\ to = "done" /\ lease = Nil => Queue!Finish(id)
               /\ from = "claimed" /\ to = "failed" /\ lease = Nil => Queue!GiveUp(id)
               /\ from = "claimed" /\ to = "pending" /\ lease = Nil => Queue!Return({id})
               /\ from = "pending" /\ to = "cancelled" /\ lease = GoodLeases(space)[id]
                      => Queue!Withdraw(id)
               /\ from = "failed" /\ to = "pending" /\ lease = GoodLeases(space)[id]
                      => Queue!Revive(id)
               /\ from \notin {"unborn", "removed"} /\ to = "removed" /\ lease = Nil
                      => Queue!Forget(id)
               /\ from = to /\ lease = GoodLeases(space)[id] => UNCHANGED Queue!vars
<1>1. /\ LifeCycle(space', usedIds') = [LifeCycle(space, usedIds) EXCEPT ![id] = to]
      /\ GoodLeases(space') = [GoodLeases(space) EXCEPT ![id] = lease]
      /\ usedLeases' = usedLeases
  BY DEF Moved
<1>2. /\ LifeCycle(space, usedIds) = [x \in JobIds |-> LifeCycle(space, usedIds)[x]]
      /\ GoodLeases(space) = [x \in JobIds |-> GoodLeases(space)[x]]
  BY DEF LifeCycle, GoodLeases
<1> QED
  BY <1>1, <1>2 DEF Queue!Finish, Queue!GiveUp, Queue!Return, Queue!Withdraw, Queue!Revive,
       Queue!Forget, Queue!Move, Queue!TakeBack, Queue!vars

\* A refused call is seen as nothing at all.
LEMMA SameQueue ==
    ASSUME space' = space, UNCHANGED <<usedIds, usedLeases>>
    PROVE  UNCHANGED Queue!vars
BY DEF Queue!vars, LifeCycle, GoodLeases, Live

\* Where a job that is kept stands.
LEMMA KeptStands ==
    ASSUME IInv, NEW id \in Live(space)
    PROVE  /\ id \in JobIds \cap usedIds
           /\ space \in SpaceType
           /\ space.jobs[id] \in Job
           /\ LifeCycle(space, usedIds)[id] = space.jobs[id].status
           /\ GoodLeases(space)[id] = space.jobs[id].lease_id
           /\ space.jobs[id].status # "claimed" => space.jobs[id].lease_id = Nil
<1>1. id \in JobIds \cap usedIds /\ WellKept(space) /\ space \in SpaceType
  BY IInvParts DEF Live, WellKept
<1> QED
  BY <1>1, LiveIsJob, WellKeptByJob DEF JobOK, LifeCycle, GoodLeases

\* What the abstract queue may do in a step.
QueueStep == Queue!Next \/ UNCHANGED Queue!vars

\* The values a call brings are of the types a job keeps.
LEMMA CallTypes ==
    ASSUME IInv
    PROVE  /\ \A now \in Times : now \in Int /\ (\A ttl \in Ttls : now + ttl \in Int)
           /\ \A lease \in usedLeases : lease \in LeaseIds /\ lease \in Payloads
BY IInvParts, TimesAssumption, TtlsAssumption DEF Payloads

\* A job whose lease checks out stands claimed.
LEMMA CheckedStands ==
    ASSUME IInv, NEW id, NEW lease, id \in JobIds, CheckLease(space, id, lease)
    PROVE  id \in Live(space) /\ space.jobs[id].status = "claimed"
BY DEF CheckLease, Live

\* A write of one job that is kept, seen by the queue.
LEMMA WriteMoves ==
    ASSUME IInv, NEW id \in Live(space), NEW job \in Job, NEW pending,
           space' = Put(space, id, job, pending)
    PROVE  Moved(space, space', usedIds, id, job.status, job.lease_id)
BY KeptStands, PutMoves, NoJobAssumption

\* A completion finishes the run of the job's holder.
LEMMA CompleteImplements ==
    ASSUME IInv, NEW now \in Times, NEW id \in usedIds, NEW lease \in usedLeases,
           Complete(id, lease, now)
    PROVE  QueueStep
<1>1. CASE ~CheckLease(space, id, lease)
  BY <1>1, SameQueue DEF Complete, CompleteJob, QueueStep
<1>2. CASE CheckLease(space, id, lease)
  <2> DEFINE job == [space.jobs[id] EXCEPT !.status      = "done",
                                           !.result      = lease,
                                           !.finished_at = now,
                                           !.lease_until = Nil,
                                           !.lease_id    = Nil]
  <2>1. id \in Live(space) /\ space.jobs[id].status = "claimed"
    BY <1>2, IInvParts, CheckedStands
  <2>2. job \in Job /\ job.status = "done" /\ job.lease_id = Nil
    BY <2>1, KeptStands, CallTypes DEF Job, Statuses
  <2>3. space' = Put(space, id, job, space.pending) /\ UNCHANGED <<usedIds, usedLeases>>
    BY <1>2 DEF Complete, CompleteJob
  <2>4. Moved(space, space', usedIds, id, "done", Nil)
    BY <2>1, <2>2, <2>3, WriteMoves
  <2>5. Queue!Finish(id)
    BY <2>1, <2>3, <2>4, KeptStands, MoveSteps
  <2> QED
    BY <2>1, <2>5, KeptStands DEF Queue!Next, QueueStep
<1> QED
  BY <1>1, <1>2

\* A failure gives the job up or returns it to the queue.
LEMMA FailImplements ==
    ASSUME IInv, NEW now \in Times, NEW id \in usedIds, NEW lease \in usedLeases,
           Fail(id, lease, now)
    PROVE  QueueStep
<1>1. CASE ~CheckLease(space, id, lease)
  BY <1>1, SameQueue DEF Fail, FailJob, QueueStep
<1>2. CASE CheckLease(space, id, lease)
  <2> DEFINE counted == [space.jobs[id] EXCEPT !.retries = NextU8(space.jobs[id].retries)]
             failed  == [counted EXCEPT !.status      = "failed",
                                        !.error       = lease,
                                        !.finished_at = now,
                                        !.lease_until = Nil,
                                        !.lease_id    = Nil]
  <2>1. id \in Live(space) /\ space.jobs[id].status = "claimed"
    BY <1>2, IInvParts, CheckedStands
  <2>2. counted \in Job
    BY <2>1, KeptStands, U8Assumption DEF Job, NextU8
  <2>3. Requeued(counted) \in Job /\ Requeued(counted).status = "pending"
                                 /\ Requeued(counted).lease_id = Nil
    BY <2>2 DEF Requeued, Job, Statuses
  <2>4. failed \in Job /\ failed.status = "failed" /\ failed.lease_id = Nil
    BY <2>2, CallTypes DEF Job, Statuses
  <2>5. PICK job \in {Requeued(counted), failed} :
            /\ \E pending : space' = Put(space, id, job, pending)
            /\ UNCHANGED <<usedIds, usedLeases>>
    BY <1>2 DEF Fail, FailJob
  <2>6. job \in Job /\ job.status \in {"pending", "failed"} /\ job.lease_id = Nil
    BY <2>3, <2>4, <2>5
  <2> HIDE DEF counted, failed
  <2>7. Moved(space, space', usedIds, id, job.status, Nil)
    BY <2>1, <2>5, <2>6, WriteMoves
  <2>8. Queue!Return({id}) \/ Queue!GiveUp(id)
    BY <2>1, <2>5, <2>6, <2>7, KeptStands, MoveSteps
  <2> QED
    BY <2>1, <2>8, KeptStands DEF Queue!Next, QueueStep
<1> QED
  BY <1>1, <1>2

\* A heartbeat is not seen: the lease stays good, only its deadline moves.
LEMMA ExtendImplements ==
    ASSUME IInv, NEW now \in Times, NEW ttl \in Ttls, NEW id \in usedIds,
           NEW lease \in usedLeases, Extend(id, lease, now + ttl)
    PROVE  QueueStep
<1>1. CASE ~CheckLease(space, id, lease)
  BY <1>1, SameQueue DEF Extend, ExtendLease, QueueStep
<1>2. CASE CheckLease(space, id, lease)
  <2> DEFINE old == space.jobs[id]
             job == [old EXCEPT !.lease_until = now + ttl]
  <2>1. id \in Live(space) /\ old.status = "claimed"
    BY <1>2, IInvParts, CheckedStands
  <2>2. job \in Job /\ job.status = old.status /\ job.lease_id = old.lease_id
    BY <2>1, KeptStands, CallTypes DEF Job
  <2>3. space' = Put(space, id, job, space.pending) /\ UNCHANGED <<usedIds, usedLeases>>
    BY <1>2 DEF Extend, ExtendLease
  <2>4. Moved(space, space', usedIds, id, old.status, old.lease_id)
    BY <2>1, <2>2, <2>3, WriteMoves
  <2> QED
    BY <2>1, <2>3, <2>4, KeptStands, MoveSteps DEF QueueStep
<1> QED
  BY <1>1, <1>2

\* A cancellation withdraws a pending job.
LEMMA CancelImplements ==
    ASSUME IInv, NEW now \in Times, NEW id \in usedIds, Cancel(id, now)
    PROVE  QueueStep
<1>1. CASE id \notin List(space, "pending")
  BY <1>1, SameQueue DEF Cancel, CancelJob, QueueStep
<1>2. CASE id \in List(space, "pending")
  <2> DEFINE old == space.jobs[id]
             job == [old EXCEPT !.status = "cancelled", !.finished_at = now]
  <2>1. id \in Live(space) /\ old.status = "pending"
    BY <1>2 DEF List
  <2>2. job \in Job /\ job.status = "cancelled" /\ job.lease_id = old.lease_id
    BY <2>1, KeptStands, CallTypes DEF Job, Statuses
  <2>3. /\ space' = Put(space, id, job, space.pending \ {PendingKey(id, old)})
        /\ UNCHANGED <<usedIds, usedLeases>>
    BY <1>2 DEF Cancel, CancelJob
  <2>4. Moved(space, space', usedIds, id, "cancelled", old.lease_id)
    BY <2>1, <2>2, <2>3, WriteMoves
  <2>5. Queue!Withdraw(id)
    BY <2>1, <2>3, <2>4, KeptStands, MoveSteps
  <2> QED
    BY <2>1, <2>5, KeptStands DEF Queue!Next, QueueStep
<1> QED
  BY <1>1, <1>2

\* A retry by hand revives a failed job.
LEMMA RetryImplements ==
    ASSUME IInv, NEW id \in usedIds, Retry(id)
    PROVE  QueueStep
<1>1. CASE id \notin List(space, "failed")
  BY <1>1, SameQueue DEF Retry, RetryJob, QueueStep
<1>2. CASE id \in List(space, "failed")
  <2> DEFINE old == space.jobs[id]
             job == [old EXCEPT !.status = "pending", !.error = Nil, !.retries = 0,
                                !.finished_at = Nil]
  <2>1. id \in Live(space) /\ old.status = "failed"
    BY <1>2 DEF List
  <2>2. job \in Job /\ job.status = "pending" /\ job.lease_id = old.lease_id
    <3>1. old \in Job
      BY <2>1, KeptStands
    <3>2. job \in Job
      BY <3>1, RevivedType
    <3> QED
      BY <3>1, <3>2 DEF Job
  <2>3. /\ space' = Put(space, id, job, space.pending \cup {PendingKey(id, old)})
        /\ UNCHANGED <<usedIds, usedLeases>>
    BY <1>2 DEF Retry, RetryJob
  <2>4. Moved(space, space', usedIds, id, "pending", old.lease_id)
    BY <2>1, <2>2, <2>3, WriteMoves
  <2>5. Queue!Revive(id)
    BY <2>1, <2>3, <2>4, KeptStands, MoveSteps
  <2> QED
    BY <2>1, <2>5, KeptStands DEF Queue!Next, QueueStep
<1> QED
  BY <1>1, <1>2

\* A purge forgets a job, whatever its status.
LEMMA RemoveImplements ==
    ASSUME IInv, NEW id \in usedIds, Remove(id)
    PROVE  QueueStep
<1>1. CASE id \notin Live(space)
  BY <1>1, SameQueue DEF Remove, RemoveJob, QueueStep
<1>2. CASE id \in Live(space)
  <2>1. PICK pending : space' = Put(space, id, NoJob, pending)
    BY <1>2 DEF Remove, RemoveJob
  <2>2. Moved(space, space', usedIds, id, "removed", Nil)
    BY <1>2, <2>1, KeptStands, PutMoves
  <2>3. LifeCycle(space, usedIds)[id] \notin {"unborn", "removed"}
    BY <1>2, KeptStands DEF Job, Statuses
  <2>4. Queue!Forget(id)
    BY <1>2, <2>2, <2>3, KeptStands, MoveSteps DEF Remove
  <2> QED
    BY <1>2, <2>4, KeptStands DEF Queue!Next, QueueStep
<1> QED
  BY <1>1, <1>2

\* A new job is submitted under an id of its own.
LEMMA EnqueueImplements ==
    ASSUME IInv, NEW now \in Times, NEW type \in JobTypes, NEW max_retries \in RetryLimits,
           Enqueue(type, max_retries, now)
    PROVE  QueueStep
<1>1. PICK id \in JobIds \ usedIds :
          /\ space' = EnqueueWithId(space, id, type, max_retries, now)
          /\ usedIds' = usedIds \cup {id}
          /\ UNCHANGED usedLeases
  BY DEF Enqueue
<1>2. space \in SpaceType /\ id \notin Live(space)
  BY <1>1, IInvParts DEF WellKept
<1>3. NewJob(type, max_retries, now) \in Job
  BY CallTypes, U8Assumption, RetryLimitsAssumption DEF NewJob, Job, Statuses
<1>4. /\ space'.jobs[id] = NewJob(type, max_retries, now)
      /\ \A x \in JobIds : x # id => space'.jobs[x] = space.jobs[x]
  BY <1>1, <1>2 DEF EnqueueWithId, Put, SpaceType
<1>5. /\ Live(space') = Live(space) \cup {id}
      /\ space'.jobs[id].status = "pending"
      /\ space'.jobs[id].lease_id = Nil
  BY <1>1, <1>3, <1>4, NoJobAssumption DEF Live, NewJob
<1>6. /\ LifeCycle(space, usedIds)[id] = "unborn"
      /\ LifeCycle(space', usedIds') = [LifeCycle(space, usedIds) EXCEPT ![id] = "pending"]
      /\ GoodLeases(space') = GoodLeases(space)
  BY <1>1, <1>2, <1>4, <1>5 DEF LifeCycle, GoodLeases
<1>7. Queue!Submit(id)
  BY <1>1, <1>6 DEF Queue!Submit, Queue!Move, LifeCycle, GoodLeases
<1> QED
  BY <1>1, <1>7 DEF Queue!Next, QueueStep

\* A claim grants the job a lease that was never granted.
LEMMA ClaimImplements ==
    ASSUME IInv, NEW now \in Times, NEW type \in JobTypes, NEW ttl \in Ttls,
           NEW worker \in Workers \cup {Nil}, Claim(type, ttl, worker, now)
    PROVE  QueueStep
<1>1. PICK lease \in LeaseIds \ usedLeases, key \in OldestKeys(space, type) :
          /\ space' = ClaimKey(space, key, lease, ttl, worker, now)
          /\ usedLeases' = usedLeases \cup {lease}
          /\ UNCHANGED usedIds
  BY DEF Claim
<1> DEFINE id  == key[3]
           job == Claimed(space.jobs[id], lease, now + ttl, worker, now)
<1>2. id \in Live(space) /\ space.jobs[id].status = "pending"
  <2>1. WellKept(space) /\ key \in space.pending
    BY <1>1, IInvParts DEF OldestKeys
  <2> QED
    BY <2>1, PendingKeyIndexed DEF List
<1>3. job \in Job /\ job.status = "claimed" /\ job.lease_id = lease
  <2>1. space.jobs[id] \in Job /\ JobOK(space.jobs[id])
    BY <1>2, KeptStands, IInvParts, WellKeptByJob
  <2>2. now \in Int /\ now + ttl \in Int
    BY CallTypes
  <2> QED
    BY <1>2, <2>1, <2>2, ClaimedJob DEF Claimed, Job
<1>4. space' = Put(space, id, job, space.pending \ {key})
  BY <1>1, <1>2 DEF ClaimKey, Live
<1>5. Moved(space, space', usedIds, id, "claimed", lease)
  BY <1>2, <1>3, <1>4, WriteMoves
<1>6. id \in JobIds /\ LifeCycle(space, usedIds)[id] = "pending"
  BY <1>2, KeptStands
<1>7. Queue!Grant(id, lease)
  BY <1>1, <1>5, <1>6 DEF Queue!Grant, Queue!Move, Moved, LifeCycle, GoodLeases
<1> QED
  BY <1>1, <1>6, <1>7 DEF Queue!Next, QueueStep

\* The reaper returns any number of jobs, or none.
LEMMA ExpireImplements ==
    ASSUME IInv, NEW now \in Times, Expire(now)
    PROVE  QueueStep
<1> DEFINE ids == Expired(space, now)
<1>1. space' = Release(space, ids) /\ UNCHANGED <<usedIds, usedLeases>>
  BY DEF Expire, ExpireLeases
<1>2. \A id \in ids : /\ id \in Live(space)
                      /\ id \in JobIds
                      /\ id \in usedIds
                      /\ space.jobs[id] \in Job
                      /\ LifeCycle(space, usedIds)[id] = "claimed"
  BY KeptStands DEF Expired, List
<1>3. \A id \in ids : /\ Requeued(space.jobs[id]) \in Job
                      /\ Requeued(space.jobs[id]).status = "pending"
                      /\ Requeued(space.jobs[id]).lease_id = Nil
  BY <1>2 DEF Requeued, Job, Statuses
<1>4. \A id \in JobIds : space'.jobs[id] = IF id \in ids THEN Requeued(space.jobs[id])
                                                      ELSE space.jobs[id]
  BY <1>1 DEF Release
<1> HIDE DEF ids
<1>5. Live(space') = Live(space)
  BY <1>2, <1>3, <1>4, NoJobAssumption DEF Live
<1>6. /\ LifeCycle(space', usedIds') =
            [id \in JobIds |-> IF id \in ids THEN "pending" ELSE LifeCycle(space, usedIds)[id]]
      /\ GoodLeases(space') =
            [id \in JobIds |-> IF id \in ids THEN Nil ELSE GoodLeases(space)[id]]
  BY <1>1, <1>2, <1>3, <1>4, <1>5 DEF LifeCycle, GoodLeases
<1>7. CASE ids = {}
  BY <1>1, <1>6, <1>7 DEF QueueStep, Queue!vars, LifeCycle, GoodLeases
<1>8. CASE ids # {}
  <2>1. Queue!Return(ids)
    BY <1>1, <1>2, <1>6, <1>8 DEF Queue!Return
  <2> QED
    BY <1>2, <2>1 DEF Queue!Next, QueueStep
<1> QED
  BY <1>7, <1>8

\* Every step of the store is a step of the abstract queue, or not seen by it.
LEMMA StepImplements == IInv /\ [Next]_vars => [Queue!Next]_Queue!vars
<1> SUFFICES ASSUME IInv, [Next]_vars PROVE QueueStep
  BY DEF QueueStep
<1>1. CASE \E now \in Times, type \in JobTypes, max_retries \in RetryLimits :
               Enqueue(type, max_retries, now)
  BY <1>1, EnqueueImplements
<1>2. CASE \E now \in Times, type \in JobTypes, ttl \in Ttls, worker \in Workers \cup {Nil} :
               Claim(type, ttl, worker, now)
  BY <1>2, ClaimImplements
<1>3. CASE \E now \in Times, id \in usedIds, lease \in usedLeases :
               \/ Complete(id, lease, now)
               \/ Fail(id, lease, now)
               \/ \E ttl \in Ttls : Extend(id, lease, now + ttl)
  BY <1>3, CompleteImplements, FailImplements, ExtendImplements
<1>4. CASE \E now \in Times : Expire(now) \/ \E id \in usedIds : Cancel(id, now)
  BY <1>4, ExpireImplements, CancelImplements
<1>5. CASE \E id \in usedIds : Retry(id) \/ Remove(id)
  BY <1>5, RetryImplements, RemoveImplements
<1>6. CASE UNCHANGED vars
  BY <1>6, SameQueue DEF vars, QueueStep
<1> QED
  BY <1>1, <1>2, <1>3, <1>4, <1>5, <1>6 DEF Next

\* The store implements the abstract queue: a job only moves along its life
\* cycle, one lease is good for it at a time, and no lease is good again once
\* it was taken back (space.rs:38-301).
THEOREM Implementation == Spec => ImplementsJobQueue
<1>1. Init => Queue!Init
  BY DEF Init, Queue!Init, LifeCycle, GoodLeases, Live, Empty
<1> QED
  BY <1>1, StepImplements, Invariance, PTL DEF Spec, ImplementsJobQueue, Queue!Spec
=============================================================================
