-------------------------- MODULE WorkerPoolProofs --------------------------
(***************************************************************************)
(* That no prompt worker is ever disturbed, for any number of jobs,        *)
(* workers and leases, any Ttl and any number of deaths and hangs.         *)
(*                                                                         *)
(* PromptKeepsLease alone is not inductive: it does not say that a prompt  *)
(* worker's lease has time left, which Reap asks for, nor that the lease   *)
(* of another worker is another one, which Report and Heartbeat do.        *)
(***************************************************************************)
EXTENDS WorkerPool, SpaceProofs, FiniteSetTheorems

Activities == {Resting, Dead}
    \cup [state : {"running"}, id : JobIds, lease : LeaseIds, prompt : BOOLEAN]

PoolType ==
    /\ clock \in Int
    /\ doing \in [Workers -> Activities]

\* Two workers never run under one lease.
LeasesApart ==
    \A v, w \in Runners : doing[v].lease = doing[w].lease => v = w

\* A prompt worker's lease is good, and has not run out.
InTime(w) ==
    /\ CheckLease(space, doing[w].id, doing[w].lease)
    /\ clock <= space.jobs[doing[w].id].lease_until

PoolInv ==
    /\ PoolType
    /\ WellKept(space)
    /\ LeasesApart
    /\ \A w \in Prompt : InTime(w)

-----------------------------------------------------------------------------

\* What a running worker is doing is one job under one lease.
LEMMA RunnerType ==
    ASSUME PoolType, NEW w \in Runners
    PROVE  w \in Workers /\ doing[w].id \in JobIds /\ doing[w].lease \in LeaseIds
<1>1. w \in Workers /\ doing[w] \in Activities /\ doing[w].state = "running"
  BY DEF Runners, PoolType
<1>2. doing[w] \notin {Resting, Dead}
  BY <1>1 DEF Resting, Dead
<1> QED
  BY <1>1, <1>2 DEF Activities

\* A prompt worker's job is claimed, under the worker's lease, with a deadline.
LEMMA PromptJob ==
    ASSUME PoolInv, NEW w \in Prompt
    PROVE  /\ w \in Runners
           /\ doing[w].id \in JobIds
           /\ doing[w].lease \in LeaseIds
           /\ doing[w].id \in List(space, "claimed")
           /\ space.jobs[doing[w].id].lease_id = doing[w].lease
           /\ space.jobs[doing[w].id].lease_until \in Int
           /\ clock <= space.jobs[doing[w].id].lease_until
<1> DEFINE id == doing[w].id
<1>1. w \in Runners
  BY DEF Prompt
<1>2. id \in JobIds /\ doing[w].lease \in LeaseIds
  BY <1>1, RunnerType DEF PoolInv
<1>3. CheckLease(space, id, doing[w].lease) /\ clock <= space.jobs[id].lease_until
  BY DEF PoolInv, InTime
<1>4. id \in List(space, "claimed") /\ space.jobs[id].lease_id = doing[w].lease
  BY <1>2, <1>3 DEF CheckLease, List, Live
<1>5. space.jobs[id] \in Job /\ JobOK(space.jobs[id]) /\ space.jobs[id].status = "claimed"
  BY <1>2, <1>3, CheckedJob DEF PoolInv
<1>6. space.jobs[id].lease_until \in Int
  BY <1>5 DEF Job, JobOK
<1> QED
  BY <1>1, <1>2, <1>3, <1>4, <1>6

\* A step that leaves the clock, what `w` does and the job of `w` alone leaves
\* `w` in time.
LEMMA Undisturbed ==
    ASSUME PoolInv, NEW w \in Prompt, clock' = clock, doing'[w] = doing[w],
           space'.jobs[doing[w].id] = space.jobs[doing[w].id]
    PROVE  InTime(w)'
BY DEF PoolInv, InTime, CheckLease

\* The call of one worker says nothing of the job of another.
LEMMA OtherLease ==
    ASSUME PoolInv, NEW w \in Runners, NEW v \in Prompt, v # w,
           CheckLease(space, doing[w].id, doing[w].lease)
    PROVE  doing[v].id # doing[w].id
<1>1. doing[v].lease # doing[w].lease
  BY DEF PoolInv, LeasesApart, Prompt
<1>2. space.jobs[doing[v].id].lease_id = doing[v].lease
  BY PromptJob
<1>3. space.jobs[doing[w].id].lease_id = doing[w].lease
  BY DEF CheckLease
<1> QED
  BY <1>1, <1>2, <1>3

-----------------------------------------------------------------------------
(* Each action keeps the invariant.                                        *)

\* The space as it is at the start.
LEMMA PoolInit == Init => PoolInv
<1> SUFFICES ASSUME Init
             PROVE  PoolInv
  OBVIOUS
<1>1. Runners = {} /\ Prompt = {}
  BY DEF Init, Runners, Prompt, Resting
<1>2. PoolType
  BY DEF Init, PoolType, Activities
<1>3. WellKept(space)
  BY EmptyWellKept DEF Init
<1> QED
  BY <1>1, <1>2, <1>3 DEF PoolInv, LeasesApart

\* A step of the server alone keeps the invariant if it keeps the space well
\* and leaves alone the jobs that prompt workers hold.
LEMMA ServerStep ==
    ASSUME PoolInv, UNCHANGED <<clock, doing>>, WellKept(space'),
           \A w \in Prompt : space'.jobs[doing[w].id] = space.jobs[doing[w].id]
    PROVE  PoolInv'
<1>1. Runners' = Runners /\ Prompt' = Prompt
  BY DEF Runners, Prompt
<1>2. PoolType' /\ LeasesApart'
  BY <1>1 DEF PoolInv, PoolType, LeasesApart
<1>3. \A w \in Prompt : InTime(w)'
  BY Undisturbed
<1> QED
  BY <1>1, <1>2, <1>3 DEF PoolInv

LEMMA EnqueueKeeps ==
    ASSUME PoolInv, Enqueue
    PROVE  PoolInv'
<1> DEFINE new == CHOOSE fresh \in JobIds : fresh \notin Live(space)
<1>1. new \in JobIds \ Live(space)
  <2>1. Live(space) \subseteq JobIds
    BY DEF Live
  <2> QED
    BY <2>1 DEF Enqueue
<1>2. PICK max_retries \in RetryLimits :
          space' = EnqueueWithId(space, new, JobType, max_retries, clock)
  BY DEF Enqueue
<1>3. WellKept(space')
  BY <1>1, <1>2, EnqueueWellKept, PoolAssumption DEF PoolInv, PoolType
<1>4. \A w \in Prompt : space'.jobs[doing[w].id] = space.jobs[doing[w].id]
  <2> SUFFICES ASSUME NEW w \in Prompt
               PROVE  space'.jobs[doing[w].id] = space.jobs[doing[w].id]
    OBVIOUS
  <2>1. doing[w].id \in Live(space)
    BY PromptJob DEF List
  <2>2. doing[w].id \in JobIds /\ doing[w].id # new
    BY <1>1, <2>1 DEF Live
  <2>3. space.jobs \in [JobIds -> Job \cup {NoJob}]
    BY DEF PoolInv, WellKept, SpaceType
  <2> QED
    BY <1>1, <1>2, <2>2, <2>3 DEF EnqueueWithId, Put
<1> QED
  BY <1>3, <1>4, ServerStep DEF Enqueue

LEMMA RetryKeeps ==
    ASSUME PoolInv, Retry
    PROVE  PoolInv'
<1>1. PICK id \in List(space, "failed") : space' = RetryJob(space, id)
  BY DEF Retry
<1>2. id \in JobIds
  BY DEF List, Live
<1>3. WellKept(space')
  BY <1>1, <1>2, RetryWellKept DEF PoolInv
<1>4. \A w \in Prompt : space'.jobs[doing[w].id] = space.jobs[doing[w].id]
  <2> SUFFICES ASSUME NEW w \in Prompt
               PROVE  space'.jobs[doing[w].id] = space.jobs[doing[w].id]
    OBVIOUS
  <2>1. doing[w].id \in JobIds /\ doing[w].id # id
    BY PromptJob DEF List
  <2>2. space.jobs \in [JobIds -> Job \cup {NoJob}]
    BY DEF PoolInv, WellKept, SpaceType
  <2> QED
    BY <1>1, <1>2, <2>1, <2>2 DEF RetryJob, Put
<1> QED
  BY <1>3, <1>4, ServerStep DEF Retry

LEMMA ReapKeeps ==
    ASSUME PoolInv, Reap
    PROVE  PoolInv'
<1> DEFINE ids == Expired(space, clock)
<1>1. space' = Release(space, ids)
  BY DEF Reap, ExpireLeases
<1>2. WellKept(space')
  BY <1>1, ReleaseWellKept DEF PoolInv, Expired
<1>3. \A w \in Prompt : space'.jobs[doing[w].id] = space.jobs[doing[w].id]
  <2> SUFFICES ASSUME NEW w \in Prompt
               PROVE  space'.jobs[doing[w].id] = space.jobs[doing[w].id]
    OBVIOUS
  <2> DEFINE until == space.jobs[doing[w].id].lease_until
  <2>1. doing[w].id \in JobIds /\ until \in Int /\ clock <= until
    BY PromptJob
  <2>2. doing[w].id \notin ids
    BY <2>1 DEF Expired, PoolInv, PoolType
  <2> HIDE DEF ids
  <2> QED
    BY <1>1, <2>1, <2>2 DEF Release
<1> QED
  BY <1>2, <1>3, ServerStep DEF Reap

LEMMA ClaimKeeps ==
    ASSUME PoolInv, NEW w \in Workers, Claim(w)
    PROVE  PoolInv'
<1> DEFINE lease == CHOOSE fresh \in FreshLeases : TRUE
<1>1. PICK key \in OldestKeys(space, JobType) :
          /\ space' = ClaimKey(space, key, lease, Ttl, w, clock)
          /\ doing' = [doing EXCEPT ![w] = Running(key[3], lease, TRUE)]
  BY DEF Claim
<1> DEFINE id == key[3]
<1>2. lease \in FreshLeases
  BY DEF Claim
<1>3. /\ lease \in LeaseIds
      /\ \A v \in Runners : doing[v].lease # lease
      /\ \A held \in Live(space) : space.jobs[held].lease_id # lease
  BY <1>2 DEF FreshLeases
<1> HIDE DEF lease
<1>4. key \in space.pending /\ id \in List(space, "pending")
  BY <1>1, PendingKeyIndexed DEF OldestKeys, PoolInv
<1>5. id \in JobIds /\ space.jobs[id] # NoJob
  BY <1>4 DEF List, Live
<1> DEFINE job == Claimed(space.jobs[id], lease, clock + Ttl, w, clock)
<1>6. space.jobs \in [JobIds -> Job \cup {NoJob}] /\ clock \in Int /\ Ttl \in Nat
  BY PoolAssumption DEF PoolInv, PoolType, WellKept, SpaceType
<1>7. space' = Put(space, id, job, space.pending \ {key}) /\ UNCHANGED clock
  BY <1>1, <1>5 DEF ClaimKey, Claim
<1>8. WellKept(space')
  <2>1. \A held \in List(space, "claimed") : space.jobs[held].lease_id # lease
    BY <1>3 DEF List
  <2> QED
    BY <1>1, <1>3, <1>4, <1>6, <2>1, ClaimWellKept DEF PoolInv
<1>9. /\ doing'[w] = Running(id, lease, TRUE)
      /\ \A v \in Workers \ {w} : doing'[v] = doing[v]
      /\ PoolType'
  BY <1>1, <1>3, <1>5, <1>6, <1>7 DEF PoolInv, PoolType, Activities, Running
<1>10. Runners' = Runners \cup {w} /\ Prompt' = Prompt \cup {w} /\ w \notin Runners
  BY <1>9 DEF Runners, Prompt, Running, Claim, Resting
<1>11. LeasesApart'
  BY <1>3, <1>9, <1>10 DEF LeasesApart, Running, PoolInv, Runners
<1>12. InTime(w)'
  <2>1. space'.jobs[id] = job
    BY <1>5, <1>6, <1>7 DEF Put
  <2>2. job.status = "claimed" /\ job.lease_id = lease /\ job.lease_until = clock + Ttl
    BY <1>4, <1>5, <1>6 DEF Claimed, Job
  <2>3. space'.jobs[id] # NoJob
    BY <2>1, <2>2, <1>4, <1>5, <1>6, NoJobAssumption, <1>3, ClaimedJob, ListedJob DEF PoolInv
  <2> QED
    BY <1>6, <1>7, <1>9, <2>1, <2>2, <2>3 DEF InTime, CheckLease, Running
<1>13. \A v \in Prompt : InTime(v)'
  <2> SUFFICES ASSUME NEW v \in Prompt
               PROVE  InTime(v)'
    OBVIOUS
  <2>1. v \in Workers /\ v # w
    BY <1>10 DEF Prompt, Runners
  <2>2. doing[v].id \in JobIds /\ doing[v].id # id
    BY <1>4, PromptJob DEF List
  <2>3. space'.jobs[doing[v].id] = space.jobs[doing[v].id]
    BY <1>6, <1>7, <2>2 DEF Put
  <2> QED
    BY <1>7, <1>9, <2>1, <2>3, Undisturbed
<1> QED
  BY <1>8, <1>9, <1>10, <1>11, <1>12, <1>13 DEF PoolInv

LEMMA ReportKeeps ==
    ASSUME PoolInv, NEW w \in Workers, Report(w)
    PROVE  PoolInv'
<1> DEFINE id    == doing[w].id
           lease == doing[w].lease
<1>1. w \in Runners /\ id \in JobIds /\ lease \in LeaseIds
  BY RunnerType DEF Report, PoolInv
<1>2. space.jobs \in [JobIds -> Job \cup {NoJob}] /\ clock \in Int
  BY DEF PoolInv, PoolType, WellKept, SpaceType
<1>3. \/ space' = CompleteJob(space, id, lease, lease, clock)
      \/ space' = FailJob(space, id, lease, lease, clock)
  BY DEF Report
<1>4. WellKept(space')
  BY <1>1, <1>2, <1>3, CompleteWellKept, FailWellKept DEF PoolInv, Payloads
<1>5. \/ space' = space
      \/ /\ CheckLease(space, id, lease)
         /\ \A other \in JobIds \ {id} : space'.jobs[other] = space.jobs[other]
  BY <1>1, <1>2, <1>3 DEF CompleteJob, FailJob, Put
<1>6. /\ doing'[w] = Resting
      /\ \A v \in Workers \ {w} : doing'[v] = doing[v]
      /\ PoolType'
      /\ UNCHANGED clock
  BY <1>2 DEF PoolInv, PoolType, Activities, Report
<1>7. Runners' = Runners \ {w} /\ Prompt' = Prompt \ {w}
  BY <1>6 DEF Runners, Prompt, Resting
<1>8. LeasesApart'
  BY <1>6, <1>7 DEF LeasesApart, PoolInv, Runners
<1>9. \A v \in Prompt \ {w} : InTime(v)'
  <2> SUFFICES ASSUME NEW v \in Prompt \ {w}
               PROVE  InTime(v)'
    OBVIOUS
  <2>1. v \in Workers /\ doing[v].id \in JobIds
    BY PromptJob DEF Prompt, Runners
  <2>2. space'.jobs[doing[v].id] = space.jobs[doing[v].id]
    BY <1>1, <1>5, <2>1, OtherLease
  <2> QED
    BY <1>6, <2>1, <2>2, Undisturbed
<1> QED
  BY <1>4, <1>6, <1>7, <1>8, <1>9 DEF PoolInv

LEMMA HeartbeatKeeps ==
    ASSUME PoolInv, NEW w \in Workers, Heartbeat(w)
    PROVE  PoolInv'
<1> DEFINE id    == doing[w].id
           lease == doing[w].lease
<1>1. w \in Runners /\ id \in JobIds /\ lease \in LeaseIds
  BY RunnerType DEF Heartbeat, PoolInv
<1>2. space.jobs \in [JobIds -> Job \cup {NoJob}] /\ clock \in Int /\ Ttl \in Nat
  BY PoolAssumption DEF PoolInv, PoolType, WellKept, SpaceType
<1>3. space' = ExtendLease(space, id, lease, clock + Ttl) /\ UNCHANGED <<clock, doing>>
  BY DEF Heartbeat
<1>4. WellKept(space')
  BY <1>1, <1>2, <1>3, ExtendWellKept DEF PoolInv
<1>5. Runners' = Runners /\ Prompt' = Prompt /\ PoolType' /\ LeasesApart'
  BY <1>3 DEF Runners, Prompt, PoolInv, PoolType, LeasesApart
<1>6. CASE ~CheckLease(space, id, lease)
  BY <1>3, <1>6, <1>4, ServerStep DEF ExtendLease
<1>7. CASE CheckLease(space, id, lease)
  <2>1. space' = Put(space, id, [space.jobs[id] EXCEPT !.lease_until = clock + Ttl], space.pending)
    BY <1>3, <1>7 DEF ExtendLease
  <2>2. space.jobs[id] \in Job
    BY <1>1, <1>7, CheckedJob DEF PoolInv
  <2>3. space'.jobs[id] = [space.jobs[id] EXCEPT !.lease_until = clock + Ttl]
    BY <1>1, <1>2, <2>1 DEF Put
  <2>4. /\ space'.jobs[id].status = "claimed"
        /\ space'.jobs[id].lease_id = lease
        /\ space'.jobs[id].lease_until = clock + Ttl
        /\ space'.jobs[id] \in Job
    BY <1>2, <1>7, <2>2, <2>3 DEF CheckLease, Job
  <2>5. InTime(w)'
    BY <1>2, <1>3, <2>4, NoJobAssumption DEF InTime, CheckLease
  <2>6. \A v \in Prompt \ {w} : InTime(v)'
    <3> SUFFICES ASSUME NEW v \in Prompt \ {w}
                 PROVE  InTime(v)'
      OBVIOUS
    <3>1. doing[v].id \in JobIds /\ doing[v].id # id
      BY <1>1, <1>7, PromptJob, OtherLease
    <3>2. space'.jobs[doing[v].id] = space.jobs[doing[v].id]
      BY <1>2, <2>1, <3>1 DEF Put
    <3> QED
      BY <1>3, <3>2, Undisturbed
  <2> QED
    BY <1>4, <1>5, <2>5, <2>6 DEF PoolInv
<1> QED
  BY <1>6, <1>7

\* A worker that hangs or dies drops out of those that are prompt.
LEMMA HangKeeps ==
    ASSUME PoolInv, NEW w \in Workers, Hang(w) \/ Die(w)
    PROVE  PoolInv'
<1>1. UNCHANGED <<space, clock>>
  BY DEF Hang, Die
<1>2. \A v \in Workers \ {w} : doing'[v] = doing[v]
  BY DEF Hang, Die, PoolInv, PoolType
<1>3. /\ PoolType'
      /\ w \notin Prompt'
      /\ w \in Runners' => w \in Runners /\ doing'[w].lease = doing[w].lease
  <2>1. CASE Die(w)
    BY <1>1, <2>1 DEF Die, PoolInv, PoolType, Activities, Prompt, Runners, Dead
  <2>2. CASE Hang(w)
    <3>1. w \in Runners /\ doing[w] \in Activities /\ doing[w].state = "running"
      BY <2>2 DEF Hang, Prompt, Runners, PoolInv, PoolType
    <3>2. doing[w] \in [state : {"running"}, id : JobIds, lease : LeaseIds, prompt : BOOLEAN]
      BY <3>1 DEF Activities, Resting, Dead
    <3>3. doing'[w] = [doing[w] EXCEPT !.prompt = FALSE]
      BY <2>2 DEF Hang, PoolInv, PoolType
    <3>4. /\ doing'[w] \in [state : {"running"}, id : JobIds, lease : LeaseIds, prompt : BOOLEAN]
          /\ doing'[w].lease = doing[w].lease
          /\ ~doing'[w].prompt
      BY <3>2, <3>3
    <3>5. doing' = [doing EXCEPT ![w] = doing'[w]]
      BY <2>2 DEF Hang, PoolInv, PoolType
    <3>6. PoolType'
      BY <1>1, <3>4, <3>5 DEF PoolInv, PoolType, Activities
    <3> QED
      BY <3>1, <3>4, <3>6 DEF Prompt
  <2> QED
    BY <2>1, <2>2
<1>4. Runners' \subseteq Runners /\ Prompt' \subseteq Prompt
  BY <1>2, <1>3 DEF Runners, Prompt
<1>5. \A v \in Runners' : doing'[v].lease = doing[v].lease
  BY <1>2, <1>3 DEF Runners
<1>6. LeasesApart'
  BY <1>4, <1>5 DEF PoolInv, LeasesApart
<1>7. \A v \in Prompt' : InTime(v)'
  <2> SUFFICES ASSUME NEW v \in Prompt'
               PROVE  InTime(v)'
    OBVIOUS
  <2>1. v \in Prompt /\ doing'[v] = doing[v]
    BY <1>2, <1>3, <1>4 DEF Prompt, Runners
  <2> QED
    BY <1>1, <2>1, Undisturbed
<1> QED
  BY <1>1, <1>3, <1>6, <1>7 DEF PoolInv

\* Time waits for the workers that are prompt.
LEMMA TickKeeps ==
    ASSUME PoolInv, Tick
    PROVE  PoolInv'
<1>1. UNCHANGED <<space, doing>> /\ clock' = clock + 1 /\ clock \in Int
  BY DEF Tick, PoolInv, PoolType
<1>2. Runners' = Runners /\ Prompt' = Prompt
  BY <1>1 DEF Runners, Prompt
<1>3. PoolType' /\ LeasesApart'
  BY <1>1, <1>2 DEF PoolInv, PoolType, LeasesApart
<1>4. \A w \in Prompt : InTime(w)'
  <2> SUFFICES ASSUME NEW w \in Prompt
               PROVE  InTime(w)'
    OBVIOUS
  <2>1. CheckLease(space, doing[w].id, doing[w].lease)
    BY DEF PoolInv, InTime
  <2>2. clock < space.jobs[doing[w].id].lease_until
    BY <2>1 DEF Tick
  <2>3. space.jobs[doing[w].id].lease_until \in Int
    BY PromptJob
  <2> QED
    BY <1>1, <2>1, <2>2, <2>3 DEF InTime, CheckLease
<1> QED
  BY <1>1, <1>2, <1>3, <1>4 DEF PoolInv

-----------------------------------------------------------------------------
(* Who is credited with a run.  The gauges count by worker_id, which every *)
(* claim overwrites: what has to be known is that the job of a lease that  *)
(* is good carries the name of the worker that runs it.                    *)

\* The worker that holds a good lease is the one its job names.
CreditInv ==
    /\ PoolInv
    /\ IsFiniteSet(Live(space))
    /\ \A w \in Runners : CheckLease(space, doing[w].id, doing[w].lease)
                          => space.jobs[doing[w].id].worker_id = w

\* What becomes of a job that no worker takes or reports on.
Quiet(old, new) ==
    \/ new = old
    \/ new # NoJob /\ new.status = "pending"
    \/ /\ {old, new} \cap {NoJob} = {}
       /\ old.status = "claimed" /\ new.status = "claimed"
       /\ new.lease_id = old.lease_id /\ new.worker_id = old.worker_id

\* A write to one entry leaves finitely many jobs.
LEMMA PutFinite ==
    ASSUME NEW s \in SpaceType, IsFiniteSet(Live(s)), NEW id \in JobIds, NEW job, NEW pending
    PROVE  IsFiniteSet(Live(Put(s, id, job, pending)))
<1>1. Live(Put(s, id, job, pending)) \subseteq Live(s) \cup {id}
  BY DEF Live, Put, SpaceType
<1>2. IsFiniteSet(Live(s) \cup {id})
  BY FS_AddElement
<1> QED
  BY <1>1, <1>2, FS_Subset

\* All steps but a claim and a report.
LEMMA QuietSteps ==
    ASSUME CreditInv, [Next]_vars, \A w \in Workers : ~Claim(w) /\ ~Report(w)
    PROVE  /\ \A id \in JobIds : Quiet(space.jobs[id], space'.jobs[id])
           /\ IsFiniteSet(Live(space'))
           /\ Runners' \subseteq Runners
           /\ \A w \in Runners' : /\ doing'[w].id = doing[w].id
                                 /\ doing'[w].lease = doing[w].lease
<1>1. space \in SpaceType /\ space.jobs \in [JobIds -> Job \cup {NoJob}] /\ IsFiniteSet(Live(space))
  BY DEF CreditInv, PoolInv, WellKept, SpaceType
<1>2. CASE doing' = doing
  <2>1. Runners' = Runners
    BY <1>2 DEF Runners
  <2>2. (\A id \in JobIds : Quiet(space.jobs[id], space'.jobs[id])) /\ IsFiniteSet(Live(space'))
    <3>1. CASE Enqueue
      <4> DEFINE new == CHOOSE fresh \in JobIds : fresh \notin Live(space)
      <4>1. new \in JobIds
        <5>1. Live(space) \subseteq JobIds
          BY DEF Live
        <5> QED
          BY <3>1, <5>1 DEF Enqueue
      <4>2. PICK max_retries \in RetryLimits :
                space' = EnqueueWithId(space, new, JobType, max_retries, clock)
        BY <3>1 DEF Enqueue
      <4> HIDE DEF new
      <4> DEFINE job == NewJob(JobType, max_retries, clock)
      <4>3. PICK pending : space' = Put(space, new, job, pending)
        BY <4>2 DEF EnqueueWithId
      <4>4. job.status = "pending" /\ job # NoJob
        <5>1. job \in Job
          BY U8Assumption, PoolAssumption DEF NewJob, Job, Statuses, CreditInv, PoolInv, PoolType
        <5> QED
          BY <5>1, NoJobAssumption DEF NewJob
      <4> HIDE DEF job
      <4> QED
        BY <1>1, <4>1, <4>3, <4>4, PutFinite DEF Put, Quiet
    <3>2. CASE Retry
      <4>1. PICK id \in List(space, "failed") : space' = RetryJob(space, id)
        BY <3>2 DEF Retry
      <4>2. id \in JobIds /\ space.jobs[id] \in Job
        BY <1>1 DEF List, Live
      <4> DEFINE job == [space.jobs[id] EXCEPT !.status      = "pending",
                                               !.error       = Nil,
                                               !.retries     = 0,
                                               !.finished_at = Nil]
      <4>3. PICK pending : space' = Put(space, id, job, pending)
        BY <4>1 DEF RetryJob
      <4>4. job.status = "pending" /\ job # NoJob
        <5>1. 0 \in 0..MaxU8 /\ "pending" \in Statuses
          BY U8Assumption DEF Statuses
        <5>2. job \in Job /\ job.status = "pending"
          BY <4>2, <5>1 DEF Job
        <5> QED
          BY <5>2, NoJobAssumption
      <4> HIDE DEF job
      <4> QED
        BY <1>1, <4>2, <4>3, <4>4, PutFinite DEF Put, Quiet
    <3>3. CASE Reap
      <4> DEFINE ids == Expired(space, clock)
      <4>1. space' = Release(space, ids) /\ ids \subseteq List(space, "claimed")
        BY <3>3 DEF Reap, ExpireLeases, Expired
      <4> HIDE DEF ids
      <4>2. \A id \in JobIds : space'.jobs[id] = IF id \in ids THEN Requeued(space.jobs[id])
                                                            ELSE space.jobs[id]
        BY <4>1 DEF Release
      <4>3. ASSUME NEW id \in ids
            PROVE  /\ id \in JobIds
                   /\ Requeued(space.jobs[id]) # NoJob
                   /\ Requeued(space.jobs[id]).status = "pending"
                   /\ id \in Live(space)
        <5>1. id \in JobIds /\ space.jobs[id] \in Job /\ id \in Live(space)
          BY <1>1, <4>1 DEF List, Live
        <5>2. Requeued(space.jobs[id]) \in Job /\ Requeued(space.jobs[id]).status = "pending"
          BY <5>1 DEF Requeued, Job, Statuses
        <5> QED
          BY <5>1, <5>2, NoJobAssumption
      <4>4. Live(space') = Live(space)
        BY <4>2, <4>3 DEF Live
      <4> QED
        BY <1>1, <4>2, <4>3, <4>4 DEF Quiet
    <3>4. ASSUME NEW w \in Workers, Heartbeat(w)
          PROVE  (\A id \in JobIds : Quiet(space.jobs[id], space'.jobs[id])) /\ IsFiniteSet(Live(space'))
      <4> DEFINE id == doing[w].id
                 job == [space.jobs[id] EXCEPT !.lease_until = clock + Ttl]
      <4>1. id \in JobIds
        BY <3>4, RunnerType DEF Heartbeat, CreditInv, PoolInv
      <4>2. space' = ExtendLease(space, id, doing[w].lease, clock + Ttl)
        BY <3>4 DEF Heartbeat
      <4>3. CASE ~CheckLease(space, id, doing[w].lease)
        BY <1>1, <4>2, <4>3 DEF ExtendLease, Quiet
      <4>4. CASE CheckLease(space, id, doing[w].lease)
        <5>1. space' = Put(space, id, job, space.pending) /\ space.jobs[id] \in Job
              /\ space.jobs[id].status = "claimed"
          BY <1>1, <4>1, <4>2, <4>4 DEF ExtendLease, CheckLease
        <5>2. /\ job.status = "claimed" /\ job.lease_id = space.jobs[id].lease_id
              /\ job.worker_id = space.jobs[id].worker_id
              /\ job \in Job
          BY <5>1, PoolAssumption DEF Job, CreditInv, PoolInv, PoolType
        <5> HIDE DEF job
        <5> QED
          BY <1>1, <4>1, <5>1, <5>2, PutFinite, NoJobAssumption DEF Put, Quiet
      <4> QED
        BY <4>3, <4>4
    <3>5. CASE space' = space
      BY <1>1, <3>5 DEF Quiet
    <3> QED
      BY <3>1, <3>2, <3>3, <3>4, <3>5 DEF Next, Hang, Die, Tick, vars
  <2> QED
    BY <1>2, <2>1, <2>2
<1>3. ASSUME NEW w \in Workers, Hang(w) \/ Die(w)
      PROVE  /\ space' = space
             /\ Runners' \subseteq Runners
             /\ \A v \in Runners' : /\ doing'[v].id = doing[v].id
                                   /\ doing'[v].lease = doing[v].lease
  <2>1. \A v \in Workers \ {w} : doing'[v] = doing[v]
    BY <1>3 DEF Hang, Die, CreditInv, PoolInv, PoolType
  <2>2. CASE Die(w)
    BY <2>1, <2>2 DEF Die, CreditInv, PoolInv, PoolType, Runners, Dead
  <2>3. CASE Hang(w)
    <3>1. w \in Runners /\ doing[w] \in Activities /\ doing[w].state = "running"
      BY <2>3 DEF Hang, Prompt, Runners, CreditInv, PoolInv, PoolType
    <3>2. doing[w] \in [state : {"running"}, id : JobIds, lease : LeaseIds, prompt : BOOLEAN]
      BY <3>1 DEF Activities, Resting, Dead
    <3>3. doing'[w] = [doing[w] EXCEPT !.prompt = FALSE]
      BY <2>3 DEF Hang, CreditInv, PoolInv, PoolType
    <3>4. doing'[w].id = doing[w].id /\ doing'[w].lease = doing[w].lease
      BY <3>2, <3>3
    <3> QED
      BY <2>1, <2>3, <3>1, <3>4 DEF Hang, Runners
  <2> QED
    BY <1>3, <2>2, <2>3
<1>4. (\E w \in Workers : Hang(w) \/ Die(w)) \/ doing' = doing
  BY DEF Next, Enqueue, Retry, Heartbeat, Reap, Tick, vars
<1> QED
  BY <1>1, <1>2, <1>3, <1>4 DEF Quiet

\* The job a report ends, and the worker it credits.
LEMMA ReportEffect ==
    ASSUME CreditInv, NEW w \in Workers, Report(w)
    PROVE  /\ doing'[w] = Resting
           /\ \A v \in Workers \ {w} : doing'[v] = doing[v]
           /\ w \in Runners
           /\ \/ space' = space
              \/ /\ doing[w].id \in JobIds
                 /\ \A id \in JobIds \ {doing[w].id} : space'.jobs[id] = space.jobs[id]
                 /\ space'.jobs[doing[w].id] # NoJob
                 /\ space'.jobs[doing[w].id].status # "claimed"
                 /\ space'.jobs[doing[w].id].worker_id = w
           /\ IsFiniteSet(Live(space'))
<1> DEFINE id    == doing[w].id
           lease == doing[w].lease
<1>1. w \in Runners /\ id \in JobIds /\ lease \in LeaseIds
  BY RunnerType DEF Report, CreditInv, PoolInv
<1>2. space \in SpaceType /\ space.jobs \in [JobIds -> Job \cup {NoJob}] /\ IsFiniteSet(Live(space))
      /\ clock \in Int
  BY DEF CreditInv, PoolInv, PoolType, WellKept, SpaceType
<1>3. \/ space' = CompleteJob(space, id, lease, lease, clock)
      \/ space' = FailJob(space, id, lease, lease, clock)
  BY DEF Report
<1>4. doing'[w] = Resting /\ \A v \in Workers \ {w} : doing'[v] = doing[v]
  BY DEF CreditInv, PoolInv, PoolType, Report
<1>5. CASE ~CheckLease(space, id, lease)
  BY <1>1, <1>2, <1>3, <1>4, <1>5 DEF CompleteJob, FailJob
<1>6. CASE CheckLease(space, id, lease)
  <2> DEFINE old == space.jobs[id]
  <2>1. old \in Job /\ old.worker_id = w
    BY <1>1, <1>2, <1>6 DEF CheckLease, CreditInv
  <2>2. PICK job, pending : /\ space' = Put(space, id, job, pending)
                            /\ job # NoJob /\ job.status # "claimed" /\ job.worker_id = w
    <3> DEFINE done == [old EXCEPT !.status = "done", !.result = lease, !.finished_at = clock,
                                   !.lease_until = Nil, !.lease_id = Nil]
               counted == [old EXCEPT !.retries = NextU8(old.retries)]
               failed == [counted EXCEPT !.status = "failed", !.error = lease, !.finished_at = clock,
                                         !.lease_until = Nil, !.lease_id = Nil]
    <3>1. done \in Job /\ done.status = "done" /\ done.worker_id = w
      BY <1>1, <1>2, <2>1 DEF Job, Statuses, Payloads
    <3>2. counted \in Job /\ counted.worker_id = w
      BY <2>1, U8Assumption DEF Job, NextU8
    <3> HIDE DEF counted
    <3>3. failed \in Job /\ failed.status = "failed" /\ failed.worker_id = w
      BY <1>1, <1>2, <3>2 DEF Job, Statuses, Payloads
    <3>4. Requeued(counted) \in Job /\ Requeued(counted).status = "pending"
          /\ Requeued(counted).worker_id = w
      BY <3>2 DEF Requeued, Job, Statuses
    <3>5. \/ space' = Put(space, id, done, space.pending)
          \/ space' = Put(space, id, Requeued(counted), space.pending \cup {PendingKey(id, counted)})
          \/ space' = Put(space, id, failed, space.pending)
      BY <1>3, <1>6 DEF CompleteJob, FailJob, counted
    <3> HIDE DEF done, failed
    <3> QED
      BY <3>1, <3>3, <3>4, <3>5, NoJobAssumption
  <2> QED
    BY <1>1, <1>2, <1>4, <2>2, PutFinite DEF Put
<1> QED
  BY <1>5, <1>6

\* The claim names the worker that made it.
LEMMA ClaimEffect ==
    ASSUME CreditInv, NEW w \in Workers, Claim(w)
    PROVE  \E id \in JobIds, lease \in LeaseIds :
               /\ doing'[w] = Running(id, lease, TRUE)
               /\ \A v \in Workers \ {w} : doing'[v] = doing[v]
               /\ \A v \in Runners : doing[v].lease # lease
               /\ \A other \in JobIds \ {id} : space'.jobs[other] = space.jobs[other]
               /\ space'.jobs[id].status = "claimed"
               /\ space'.jobs[id].lease_id = lease
               /\ space'.jobs[id].worker_id = w
               /\ IsFiniteSet(Live(space'))
<1> DEFINE lease == CHOOSE fresh \in FreshLeases : TRUE
<1>1. PICK key \in OldestKeys(space, JobType) :
          /\ space' = ClaimKey(space, key, lease, Ttl, w, clock)
          /\ doing' = [doing EXCEPT ![w] = Running(key[3], lease, TRUE)]
  BY DEF Claim
<1> DEFINE id == key[3]
<1>2. lease \in FreshLeases
  BY DEF Claim
<1>3. lease \in LeaseIds /\ \A v \in Runners : doing[v].lease # lease
  BY <1>2 DEF FreshLeases
<1> HIDE DEF lease
<1>4. key \in space.pending /\ id \in List(space, "pending")
  BY <1>1, PendingKeyIndexed DEF OldestKeys, CreditInv, PoolInv
<1>5. space \in SpaceType /\ space.jobs \in [JobIds -> Job \cup {NoJob}] /\ IsFiniteSet(Live(space))
  BY DEF CreditInv, PoolInv, WellKept, SpaceType
<1>6. id \in JobIds /\ space.jobs[id] \in Job /\ space.jobs[id] # NoJob
  BY <1>4, <1>5 DEF List, Live
<1> DEFINE job == Claimed(space.jobs[id], lease, clock + Ttl, w, clock)
<1>7. space' = Put(space, id, job, space.pending \ {key})
  BY <1>1, <1>6 DEF ClaimKey
<1>8. job.status = "claimed" /\ job.lease_id = lease /\ job.worker_id = w
  BY <1>6 DEF Claimed, Job
<1> HIDE DEF job
<1>9. /\ space'.jobs[id] = job
      /\ \A other \in JobIds \ {id} : space'.jobs[other] = space.jobs[other]
      /\ IsFiniteSet(Live(space'))
  BY <1>5, <1>6, <1>7, PutFinite DEF Put
<1>10. /\ doing'[w] = Running(id, lease, TRUE)
       /\ \A v \in Workers \ {w} : doing'[v] = doing[v]
  BY <1>1 DEF CreditInv, PoolInv, PoolType
<1> QED
  BY <1>3, <1>6, <1>8, <1>9, <1>10

\* Every step keeps the names.
LEMMA CreditStep ==
    ASSUME CreditInv, [Next]_vars, PoolInv'
    PROVE  CreditInv'
<1>0. \A w \in Runners : doing[w].id \in JobIds /\ w \in Workers
  BY RunnerType DEF CreditInv, PoolInv
<1>1. CASE \A w \in Workers : ~Claim(w) /\ ~Report(w)
  <2> SUFFICES ASSUME NEW w \in Runners', CheckLease(space', doing'[w].id, doing'[w].lease)
               PROVE  space'.jobs[doing'[w].id].worker_id = w
    BY <1>1, QuietSteps DEF CreditInv
  <2>1. w \in Runners /\ doing'[w].id = doing[w].id /\ doing'[w].lease = doing[w].lease
    BY <1>1, QuietSteps
  <2>2. Quiet(space.jobs[doing[w].id], space'.jobs[doing[w].id])
    BY <1>0, <1>1, <2>1, QuietSteps
  <2> QED
    BY <2>1, <2>2 DEF Quiet, CheckLease, CreditInv
<1>2. ASSUME NEW v \in Workers, Report(v)
      PROVE  CreditInv'
  <2>1. /\ doing'[v] = Resting
        /\ \A w \in Workers \ {v} : doing'[w] = doing[w]
        /\ IsFiniteSet(Live(space'))
    BY <1>2, ReportEffect
  <2>2. \A w \in Runners' : w \in Runners /\ w # v /\ doing'[w] = doing[w]
    BY <2>1 DEF Runners, Resting
  <2>3. ASSUME NEW id \in JobIds, NEW lease, CheckLease(space', id, lease)
        PROVE  CheckLease(space, id, lease) /\ space'.jobs[id] = space.jobs[id]
    BY <1>2, <2>3, ReportEffect DEF CheckLease
  <2> QED
    BY <1>0, <2>1, <2>2, <2>3 DEF CreditInv
<1>3. ASSUME NEW v \in Workers, Claim(v)
      PROVE  CreditInv'
  <2>1. PICK id \in JobIds, lease \in LeaseIds :
               /\ doing'[v] = Running(id, lease, TRUE)
               /\ \A w \in Workers \ {v} : doing'[w] = doing[w]
               /\ \A w \in Runners : doing[w].lease # lease
               /\ \A other \in JobIds \ {id} : space'.jobs[other] = space.jobs[other]
               /\ space'.jobs[id].status = "claimed"
               /\ space'.jobs[id].lease_id = lease
               /\ space'.jobs[id].worker_id = v
               /\ IsFiniteSet(Live(space'))
    BY <1>3, ClaimEffect
  <2>2. \A w \in Runners' : w # v => w \in Runners /\ doing'[w] = doing[w]
    BY <2>1 DEF Runners
  <2>3. doing'[v].id = id
    BY <2>1 DEF Running
  <2>4. ASSUME NEW w \in Runners, CheckLease(space', doing[w].id, doing[w].lease)
        PROVE  space'.jobs[doing[w].id].worker_id = w
    <3>1. doing[w].id # id
      BY <2>1, <2>4 DEF CheckLease
    <3> QED
      BY <1>0, <2>1, <2>4, <3>1 DEF CheckLease, CreditInv
  <2>5. \A w \in Runners' : CheckLease(space', doing'[w].id, doing'[w].lease)
                            => space'.jobs[doing'[w].id].worker_id = w
    <3> SUFFICES ASSUME NEW w \in Runners', CheckLease(space', doing'[w].id, doing'[w].lease)
                 PROVE  space'.jobs[doing'[w].id].worker_id = w
      OBVIOUS
    <3>1. CASE w = v
      BY <2>1, <2>3, <3>1
    <3>2. CASE w # v
      BY <2>2, <2>4, <3>2 DEF CheckLease
    <3> QED
      BY <3>1, <3>2
  <2>6. PoolInv' /\ IsFiniteSet(Live(space))'
    BY <2>1
  <2>7. (\A w \in Runners : CheckLease(space, doing[w].id, doing[w].lease)
                            => space.jobs[doing[w].id].worker_id = w)'
    BY <2>5
  <2> QED
    BY <2>6, <2>7 DEF CreditInv
<1> QED
  BY <1>1, <1>2, <1>3

\* A worker's jobs of one status are not more if none has joined them.
LEMMA NoMoreJobs ==
    ASSUME NEW s, NEW r, NEW w, NEW status, IsFiniteSet(Live(s)),
           \A id \in JobIds :
               r.jobs[id] # NoJob /\ r.jobs[id].status = status /\ r.jobs[id].worker_id = w
               => r.jobs[id] = s.jobs[id]
    PROVE  ~(WorkerJobs(r, w, status) > WorkerJobs(s, w, status))
<1> DEFINE Of(x) == {id \in List(x, status) : x.jobs[id].worker_id = w}
<1>1. Of(r) \subseteq Of(s)
  BY DEF List, Live
<1>2. IsFiniteSet(Of(s))
  BY FS_Subset DEF List
<1>3. Cardinality(Of(r)) \in Nat /\ Cardinality(Of(s)) \in Nat
      /\ Cardinality(Of(r)) <= Cardinality(Of(s))
  BY <1>1, <1>2, FS_Subset, FS_CardinalityType
<1> QED
  BY <1>3 DEF WorkerJobs

-----------------------------------------------------------------------------
(* Theorems of the specification.                                          *)

\* The invariant holds at the start and every step keeps it.
THEOREM PoolInvariance == Spec => []PoolInv
<1>1. Init => PoolInv
  BY PoolInit
<1>2. PoolInv /\ [Next]_vars => PoolInv'
  <2> SUFFICES ASSUME PoolInv, [Next]_vars
               PROVE  PoolInv'
    OBVIOUS
  <2>1. CASE Enqueue
    BY <2>1, EnqueueKeeps
  <2>2. CASE Retry
    BY <2>2, RetryKeeps
  <2>3. ASSUME NEW w \in Workers, Claim(w)
        PROVE  PoolInv'
    BY <2>3, ClaimKeeps
  <2>4. ASSUME NEW w \in Workers, Report(w)
        PROVE  PoolInv'
    BY <2>4, ReportKeeps
  <2>5. ASSUME NEW w \in Workers, Heartbeat(w)
        PROVE  PoolInv'
    BY <2>5, HeartbeatKeeps
  <2>6. ASSUME NEW w \in Workers, Hang(w) \/ Die(w)
        PROVE  PoolInv'
    BY <2>6, HangKeeps
  <2>7. CASE Reap
    BY <2>7, ReapKeeps
  <2>8. CASE Tick
    BY <2>8, TickKeeps
  <2>9. CASE UNCHANGED vars
    BY <2>9 DEF vars, PoolInv, PoolType, LeasesApart, InTime, CheckLease, Runners, Prompt
  <2> QED
    BY <2>1, <2>2, <2>3, <2>4, <2>5, <2>6, <2>7, <2>8, <2>9 DEF Next
<1> QED
  BY <1>1, <1>2, PTL DEF Spec

\* A worker that answers in time still holds its lease when it does, in any
\* pool: the reaper's strict comparison and the leases of the others spare it
\* (space.rs:166-188, 281-289).
THEOREM PromptUndisturbed == Spec => []PromptKeepsLease
<1>1. PoolInv => PromptKeepsLease
  BY DEF PoolInv, PromptKeepsLease, InTime
<1> QED
  BY <1>1, PoolInvariance, PTL

\* The pool keeps the space well: exact index, exclusive leases, retry budget.
THEOREM PoolWellKept == Spec => []WellKept(space)
<1>1. PoolInv => WellKept(space)
  BY DEF PoolInv
<1> QED
  BY <1>1, PoolInvariance, PTL

\* The gauges of the workers credit the one that did the work: those of the
\* done and the failed jobs rise with a report of the worker that was running
\* the job (metrics.rs:39-53), whichever workers held it before and whichever
\* of them still believe they do.
THEOREM CreditToWorkers == Spec => WorkersCredited
<1>1. Init => CreditInv
  <2> SUFFICES ASSUME Init
               PROVE  CreditInv
    OBVIOUS
  <2>1. Live(space) = {} /\ Runners = {}
    BY DEF Init, Live, Empty, Runners, Resting
  <2> QED
    BY <2>1, PoolInit, FS_EmptySet DEF CreditInv
<1>2. CreditInv /\ PoolInv' /\ [Next]_vars => CreditInv'
  BY CreditStep
<1>3. CreditInv /\ [Next]_vars =>
          [\A w \in Workers, status \in {"done", "failed"} :
               WorkerJobs(space', w, status) > WorkerJobs(space, w, status)
               => w \in Runners /\ doing'[w] = Resting]_vars
  <2> SUFFICES ASSUME CreditInv, [Next]_vars, NEW w \in Workers, NEW status \in {"done", "failed"},
                      WorkerJobs(space', w, status) > WorkerJobs(space, w, status)
               PROVE  w \in Runners /\ doing'[w] = Resting
    OBVIOUS
  <2>0. IsFiniteSet(Live(space))
    BY DEF CreditInv
  <2>1. CASE \A v \in Workers : ~Claim(v) /\ ~Report(v)
    <3>1. \A id \in JobIds : Quiet(space.jobs[id], space'.jobs[id])
      BY <2>1, QuietSteps
    <3> QED
      BY <2>0, <3>1, NoMoreJobs DEF Quiet
  <2>2. ASSUME NEW v \in Workers, Claim(v)
        PROVE  FALSE
    <3>1. PICK id \in JobIds : /\ \A other \in JobIds \ {id} : space'.jobs[other] = space.jobs[other]
                               /\ space'.jobs[id].status = "claimed"
      BY <2>2, ClaimEffect
    <3> QED
      BY <2>0, <3>1, NoMoreJobs
  <2>3. ASSUME NEW v \in Workers, Report(v)
        PROVE  w \in Runners /\ doing'[w] = Resting
    <3>1. CASE v = w
      BY <2>3, <3>1, ReportEffect
    <3>2. CASE v # w
      BY <2>0, <2>3, <3>2, ReportEffect, NoMoreJobs
    <3> QED
      BY <3>1, <3>2
  <2> QED
    BY <2>1, <2>2, <2>3
<1> QED
  BY <1>1, <1>2, <1>3, PoolInvariance, PTL DEF Spec, WorkersCredited
=============================================================================
