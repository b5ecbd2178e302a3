---------------------------- MODULE ReplayProofs ----------------------------
(***************************************************************************)
(* What a start makes of a snapshot and a tail of events, for any number   *)
(* of jobs and events.  Both loops of replay.rs are folds; what holds of a *)
(* fold is shown by induction on how much of it is done, and an induction  *)
(* is the search for a least counterexample in a set of numbers.           *)
(***************************************************************************)
EXTENDS EventLog, SpaceProofs, FiniteSetTheorems, SequenceTheorems

\* A set that has 0, and n + 1 with every n below a bound, has all up to it.
LEMMA UpTo ==
    ASSUME NEW N \in Nat, NEW S, 0 \in S, \A n \in Nat : n < N /\ n \in S => n + 1 \in S
    PROVE  0..N \subseteq S
<1> DEFINE T == {n \in 0..N : n \notin S}
<1> SUFFICES ASSUME T # {}
             PROVE  FALSE
  OBVIOUS
<1>1. T \subseteq Nat
  OBVIOUS
<1>2. PICK least \in T : \A n \in T : ~(<<n, least>> \in OpToRel(<, Nat))
  BY <1>1, NatLessThanWellFounded, WFMin
<1>3. \A n \in T : ~(n < least)
  BY <1>1, <1>2 DEF OpToRel
<1>4. least # 0 /\ least - 1 \in Nat /\ least - 1 < least /\ least - 1 < N
  OBVIOUS
<1>5. least - 1 \in S
  BY <1>3, <1>4
<1> QED
  BY <1>4, <1>5

-----------------------------------------------------------------------------
(* The equations of the two loops.                                         *)

\* Some of the places of a sequence have a last one.
LEMMA LastPlace ==
    ASSUME NEW n \in Nat, NEW places \in SUBSET (1..n), places # {}
    PROVE  Max(places) \in places
<1> DEFINE S == {k \in 0..n : places \cap (1..k) # {} =>
                     \E x \in places : \A y \in places \cap (1..k) : x >= y}
<1>1. 0 \in S
  OBVIOUS
<1>2. ASSUME NEW k \in Nat, k < n, k \in S
      PROVE  k + 1 \in S
  <2>1. CASE k + 1 \in places
    BY <1>2, <2>1
  <2>2. CASE k + 1 \notin places
    <3>1. places \cap (1..(k + 1)) = places \cap (1..k)
      BY <1>2, <2>2
    <3> QED
      BY <1>2, <3>1
  <2> QED
    BY <2>1, <2>2
<1> HIDE DEF S
<1>3. n \in S
  BY <1>1, <1>2, UpTo
<1>4. places \cap (1..n) = places
  OBVIOUS
<1>5. \E x \in places : \A y \in places : x >= y
  BY <1>3, <1>4 DEF S
<1> QED
  BY <1>5 DEF Max

\* The sets that are no larger than a number.
UpToSize(D, n) == {s \in SUBSET D : Cardinality(s) <= n}

\* One element fewer makes a set smaller, and the empty set is the smallest.
LEMMA Smaller ==
    ASSUME NEW D, IsFiniteSet(D)
    PROVE  /\ UpToSize(D, 0) = {{}}
           /\ UpToSize(D, Cardinality(D)) = SUBSET D
           /\ \A k \in Nat : UpToSize(D, k) \subseteq UpToSize(D, k + 1)
           /\ \A k \in Nat : \A s \in UpToSize(D, k + 1) : \A x \in s : s \ {x} \in UpToSize(D, k)
<1>1. \A s \in SUBSET D : IsFiniteSet(s) /\ Cardinality(s) \in Nat /\ Cardinality(s) <= Cardinality(D)
  BY FS_Subset, FS_CardinalityType
<1>2. UpToSize(D, 0) = {{}}
  <2>1. \A s \in SUBSET D : Cardinality(s) = 0 <=> s = {}
    BY <1>1, FS_EmptySet
  <2>2. \A s \in SUBSET D : Cardinality(s) <= 0 <=> s = {}
    BY <1>1, <2>1
  <2> QED
    BY <2>2 DEF UpToSize
<1>3. UpToSize(D, Cardinality(D)) = SUBSET D
  BY <1>1 DEF UpToSize
<1>4. \A k \in Nat : UpToSize(D, k) \subseteq UpToSize(D, k + 1)
  BY <1>1 DEF UpToSize
<1>5. ASSUME NEW k \in Nat, NEW s \in UpToSize(D, k + 1), NEW x \in s
      PROVE  s \ {x} \in UpToSize(D, k)
  <2>1. s \in SUBSET D /\ Cardinality(s) <= k + 1
    BY DEF UpToSize
  <2>2. IsFiniteSet(s) /\ Cardinality(s) \in Nat
    BY <1>1, <2>1
  <2>3. Cardinality(s \ {x}) = Cardinality(s) - 1
    BY <2>2, FS_RemoveElement
  <2>4. Cardinality(s \ {x}) <= k
    BY <2>1, <2>2, <2>3
  <2>5. s \ {x} \in SUBSET D
    BY <2>1
  <2> QED
    BY <2>4, <2>5 DEF UpToSize
<1> QED
  BY <1>2, <1>3, <1>4, <1>5

\* The equation of the fold over the events, for the sets of places in `sets`.
EventsLoop(f, base, events, sets) ==
    f = [s \in sets |->
            IF s = {} THEN base
            ELSE Apply(f[s \ {Max(s)}], ReadEvent(events[Max(s)]))]

LEMMA EventsLoopRuns ==
    ASSUME NEW base, NEW events, NEW n \in Nat, DOMAIN events = 1..n
    PROVE  \E f : EventsLoop(f, base, events, SUBSET (1..n))
<1> DEFINE D == 1..n
           S == {k \in Nat : \E f : EventsLoop(f, base, events, UpToSize(D, k))}
<1>1. IsFiniteSet(D) /\ Cardinality(D) = n
  BY FS_Interval
<1>2. 0 \in S
  <2> DEFINE f == [s \in {{}} |-> base]
  <2>1. EventsLoop(f, base, events, {{}})
    BY DEF EventsLoop
  <2> HIDE DEF f
  <2> QED
    BY <1>1, <2>1, Smaller
<1>3. ASSUME NEW k \in Nat, k < n, k \in S
      PROVE  k + 1 \in S
  <2>1. PICK g : EventsLoop(g, base, events, UpToSize(D, k))
    BY <1>3
  <2> DEFINE h == [s \in UpToSize(D, k + 1) |->
                       IF s = {} THEN base
                       ELSE Apply(g[s \ {Max(s)}], ReadEvent(events[Max(s)]))]
  <2>2. ASSUME NEW s \in UpToSize(D, k + 1), s # {}
        PROVE  s \ {Max(s)} \in UpToSize(D, k)
    <3>1. Max(s) \in s
      BY <2>2, LastPlace DEF UpToSize
    <3> QED
      BY <1>1, <3>1, Smaller
  <2>3. \A s \in UpToSize(D, k) : s \in UpToSize(D, k + 1)
    BY <1>1, Smaller
  <2>4. \A s \in UpToSize(D, k) : h[s] = g[s]
    BY <2>1, <2>3 DEF EventsLoop
  <2>5. EventsLoop(h, base, events, UpToSize(D, k + 1))
    BY <2>2, <2>4 DEF EventsLoop
  <2> HIDE DEF h
  <2> QED
    BY <2>5
<1>4. 0..n \subseteq S
  <2> HIDE DEF S
  <2> QED
    BY <1>2, <1>3, UpTo
<1>5. n \in S
  BY <1>4
<1> QED
  BY <1>1, <1>5, Smaller

\* A replay is one application after the other, from what was restored.
ReplaySteps(f, jobs, events) ==
    /\ f[0] = Restored(jobs)
    /\ \A k \in 1..Len(events) : f[k] = Apply(f[k - 1], ReadEvent(events[k]))
    /\ f[Len(events)] = Replay(jobs, events)

LEMMA ReplayUnfolds ==
    ASSUME NEW jobs, NEW events, Len(events) \in Nat, DOMAIN events = 1..Len(events)
    PROVE  \E f : ReplaySteps(f, jobs, events)
<1> DEFINE n    == Len(events)
           loop == CHOOSE f : EventsLoop(f, Restored(jobs), events, SUBSET (1..n))
           f    == [k \in 0..n |-> loop[1..k]]
<1>1. EventsLoop(loop, Restored(jobs), events, SUBSET (1..n))
  BY EventsLoopRuns
<1>2. Replay(jobs, events) = loop[1..n]
  BY DEF Replay, FoldLeft, MapThenFoldSet, EventsLoop
<1> HIDE DEF loop
<1>3. f[0] = Restored(jobs)
  <2>1. loop[{}] = Restored(jobs)
    BY <1>1 DEF EventsLoop
  <2>2. 1..0 = {}
    OBVIOUS
  <2> QED
    BY <2>1, <2>2
<1>4. ASSUME NEW k \in 1..n
      PROVE  f[k] = Apply(f[k - 1], ReadEvent(events[k]))
  <2>0. k \in Nat /\ 1 <= k /\ k <= n /\ n \in Nat
    OBVIOUS
  <2>1. 1..k \in SUBSET (1..n) /\ 1..k # {} /\ (1..k) \ {k} = 1..(k - 1) /\ k - 1 \in 0..n
    <3> HIDE DEF n
    <3>1. 1..k \in SUBSET (1..n) /\ k \in 1..k /\ k - 1 \in 0..n
      BY <2>0
    <3>2. (1..k) \ {k} = 1..(k - 1)
      BY <2>0
    <3> QED
      BY <3>1, <3>2
  <2>2. Max(1..k) = k
    BY DEF Max
  <2>3. loop[1..k] = Apply(loop[(1..k) \ {k}], ReadEvent(events[k]))
    BY <1>1, <2>1, <2>2 DEF EventsLoop
  <2>4. f[k] = loop[1..k] /\ f[k - 1] = loop[1..(k - 1)]
    BY <2>1
  <2> QED
    BY <2>1, <2>3, <2>4
<1>5. f[n] = Replay(jobs, events)
  BY <1>2
<1> HIDE DEF f
<1>6. ReplaySteps(f, jobs, events)
  BY <1>3, <1>4, <1>5 DEF ReplaySteps
<1> QED
  BY <1>6

\* A replay never leaves a set of spaces that has what was restored and that
\* no event leaves.
LEMMA ReplayStays ==
    ASSUME NEW jobs, NEW events, Len(events) \in Nat, DOMAIN events = 1..Len(events),
           NEW spaces, Restored(jobs) \in spaces,
           \A s \in spaces, k \in 1..Len(events) : Apply(s, ReadEvent(events[k])) \in spaces
    PROVE  Replay(jobs, events) \in spaces
<1>1. PICK f : ReplaySteps(f, jobs, events)
  BY ReplayUnfolds
<1> DEFINE S == {k \in 0..Len(events) : f[k] \in spaces}
<1>2. 0 \in S
  BY <1>1 DEF ReplaySteps
<1>3. ASSUME NEW k \in Nat, k < Len(events), k \in S
      PROVE  k + 1 \in S
  <2>1. k + 1 \in 1..Len(events) /\ (k + 1) - 1 = k
    BY <1>3
  <2>2. f[k + 1] = Apply(f[k], ReadEvent(events[k + 1]))
    BY <1>1, <2>1 DEF ReplaySteps
  <2> QED
    BY <1>3, <2>1, <2>2
<1>4. 0..Len(events) \subseteq S
  <2> HIDE DEF S
  <2> QED
    BY <1>2, <1>3, UpTo
<1> QED
  BY <1>1, <1>4 DEF ReplaySteps

\* Nothing replayed over a snapshot leaves what was restored.
LEMMA NothingReplayed ==
    ASSUME NEW jobs
    PROVE  Replay(jobs, <<>>) = Restored(jobs)
<1>1. PICK f : ReplaySteps(f, jobs, <<>>)
  BY ReplayUnfolds
<1> QED
  BY <1>1 DEF ReplaySteps

\* One more event is one more application.
LEMMA ReplayAppends ==
    ASSUME NEW jobs, NEW E, NEW events \in Seq(E), NEW event \in E
    PROVE  Replay(jobs, Append(events, event)) = Apply(Replay(jobs, events), ReadEvent(event))
<1> DEFINE n == Len(events)
           more == Append(events, event)
<1>1. /\ n \in Nat
      /\ DOMAIN events = 1..n
      /\ Len(more) = n + 1
      /\ DOMAIN more = 1..(n + 1)
      /\ \A k \in 1..n : more[k] = events[k]
      /\ more[n + 1] = event
  OBVIOUS
<1> HIDE DEF more
<1>2. PICK f : ReplaySteps(f, jobs, events)
  BY <1>1, ReplayUnfolds
<1>3. PICK g : ReplaySteps(g, jobs, more)
  BY <1>1, ReplayUnfolds
<1> DEFINE S == {k \in 0..n : f[k] = g[k]}
<1>4. 0 \in S
  BY <1>1, <1>2, <1>3 DEF ReplaySteps
<1>5. ASSUME NEW k \in Nat, k < n, k \in S
      PROVE  k + 1 \in S
  <2>1. k + 1 \in 1..n /\ k + 1 \in 1..(n + 1) /\ (k + 1) - 1 = k
    BY <1>1, <1>5
  <2>2. f[k + 1] = Apply(f[k], ReadEvent(events[k + 1]))
    BY <1>2, <2>1 DEF ReplaySteps
  <2>3. g[k + 1] = Apply(g[k], ReadEvent(more[k + 1]))
    BY <1>1, <1>3, <2>1 DEF ReplaySteps
  <2> QED
    BY <1>1, <1>5, <2>1, <2>2, <2>3
<1>6. 0..n \subseteq S
  <2> HIDE DEF S
  <2> QED
    BY <1>1, <1>4, <1>5, UpTo
<1>7. f[n] = g[n] /\ n + 1 \in 1..(n + 1) /\ (n + 1) - 1 = n
  BY <1>1, <1>6
<1>8. g[n + 1] = Apply(g[n], ReadEvent(event))
  BY <1>1, <1>3, <1>7 DEF ReplaySteps
<1>9. g[n + 1] = Replay(jobs, more) /\ f[n] = Replay(jobs, events)
  BY <1>1, <1>2, <1>3 DEF ReplaySteps
<1> QED
  BY <1>7, <1>8, <1>9 DEF more

-----------------------------------------------------------------------------
(* What the loop over a snapshot's jobs makes.                             *)

\* The space that has the jobs of `ids`, as they were read.
RestoredSome(jobs, ids) ==
    [jobs    |-> [id \in JobIds |-> IF id \in ids THEN ReadJob(jobs[id]) ELSE NoJob],
     pending |-> {PendingKey(id, ReadJob(jobs[id])) :
                      id \in {x \in ids : ReadJob(jobs[x]).status = "pending"}}]

\* Which job is restored next does not matter.
LEMMA RestoredOneMore ==
    ASSUME NEW jobs, NEW ids \in SUBSET JobIds, NEW id \in ids
    PROVE  RestoreJob(RestoredSome(jobs, ids \ {id}), id, ReadJob(jobs[id])) = RestoredSome(jobs, ids)
<1> DEFINE s == RestoredSome(jobs, ids \ {id})
           t == RestoredSome(jobs, ids)
           job == ReadJob(jobs[id])
<1>1. [s.jobs EXCEPT ![id] = job] = t.jobs
  BY DEF RestoredSome
<1>2. (IF job.status = "pending" THEN s.pending \cup {PendingKey(id, job)} ELSE s.pending) = t.pending
  BY DEF RestoredSome
<1>3. t = [jobs |-> t.jobs, pending |-> t.pending]
  BY DEF RestoredSome
<1> HIDE DEF s, t, job
<1>4. RestoreJob(s, id, job) = t
  BY <1>1, <1>2, <1>3 DEF RestoreJob, Put
<1> QED
  BY <1>4 DEF s, t, job

\* The equation of the fold over the jobs, for the sets of ids in `sets`.
JobsLoop(f, jobs, sets) ==
    f = [s \in sets |->
            IF s = {} THEN Empty
            ELSE RestoreJob(f[s \ {CHOOSE x \in s : TRUE}], CHOOSE x \in s : TRUE,
                            ReadJob(jobs[CHOOSE x \in s : TRUE]))]

LEMMA JobsLoopRuns ==
    ASSUME NEW jobs, NEW D, IsFiniteSet(D)
    PROVE  \E f : JobsLoop(f, jobs, SUBSET D)
<1> DEFINE n == Cardinality(D)
           S == {k \in Nat : \E f : JobsLoop(f, jobs, UpToSize(D, k))}
<1>1. n \in Nat
  BY FS_CardinalityType
<1>2. 0 \in S
  <2> DEFINE f == [s \in {{}} |-> Empty]
  <2>1. JobsLoop(f, jobs, {{}})
    BY DEF JobsLoop
  <2> HIDE DEF f
  <2> QED
    BY <2>1, Smaller
<1>3. ASSUME NEW k \in Nat, k < n, k \in S
      PROVE  k + 1 \in S
  <2>1. PICK g : JobsLoop(g, jobs, UpToSize(D, k))
    BY <1>3
  <2> DEFINE h == [s \in UpToSize(D, k + 1) |->
                       IF s = {} THEN Empty
                       ELSE RestoreJob(g[s \ {CHOOSE x \in s : TRUE}], CHOOSE x \in s : TRUE,
                                       ReadJob(jobs[CHOOSE x \in s : TRUE]))]
  <2>2. ASSUME NEW s \in UpToSize(D, k + 1), s # {}
        PROVE  s \ {CHOOSE x \in s : TRUE} \in UpToSize(D, k)
    <3>1. (CHOOSE x \in s : TRUE) \in s
      BY <2>2
    <3> QED
      BY <3>1, Smaller
  <2>3. \A s \in UpToSize(D, k) : s \in UpToSize(D, k + 1)
    BY Smaller
  <2>4. \A s \in UpToSize(D, k) : h[s] = g[s]
    BY <2>1, <2>3 DEF JobsLoop
  <2>5. JobsLoop(h, jobs, UpToSize(D, k + 1))
    BY <2>2, <2>4 DEF JobsLoop
  <2> HIDE DEF h
  <2> QED
    BY <2>5
<1>4. 0..n \subseteq S
  <2> HIDE DEF S, n
  <2> QED
    BY <1>1, <1>2, <1>3, UpTo
<1>5. n \in S /\ UpToSize(D, n) = SUBSET D
  BY <1>1, <1>4, Smaller
<1> QED
  BY <1>5

\* The jobs of the snapshot, as they were read, and the keys of the pending
\* ones (replay.rs:14-18).
LEMMA RestoredJobs ==
    ASSUME NEW jobs
    PROVE  Restored(jobs) = RestoredSome(jobs, {id \in JobIds : jobs[id] # NoJob})
<1> DEFINE D    == {id \in JobIds : jobs[id] # NoJob}
           n    == Cardinality(D)
           loop == CHOOSE f : JobsLoop(f, jobs, SUBSET D)
           S    == {k \in Nat : \A ids \in UpToSize(D, k) : loop[ids] = RestoredSome(jobs, ids)}
<1>1. IsFiniteSet(D) /\ n \in Nat /\ D \subseteq JobIds
  BY JobIdsAssumption, FS_Subset, FS_CardinalityType
<1>2. JobsLoop(loop, jobs, SUBSET D)
  BY <1>1, JobsLoopRuns
<1>3. Restored(jobs) = loop[D]
  BY DEF Restored, FoldSet, MapThenFoldSet, JobsLoop
<1> HIDE DEF loop, D
<1>4. 0 \in S
  <2>1. loop[{}] = Empty
    BY <1>2 DEF JobsLoop
  <2>2. RestoredSome(jobs, {}) = Empty
    BY DEF RestoredSome, Empty
  <2> QED
    BY <1>1, <2>1, <2>2, Smaller
<1>5. ASSUME NEW k \in Nat, k < n, k \in S
      PROVE  k + 1 \in S
  <2> SUFFICES ASSUME NEW ids \in UpToSize(D, k + 1)
               PROVE  loop[ids] = RestoredSome(jobs, ids)
    OBVIOUS
  <2>1. CASE ids = {}
    BY <1>1, <1>4, <2>1, Smaller
  <2>2. CASE ids # {}
    <3> DEFINE id == CHOOSE x \in ids : TRUE
    <3>1. id \in ids /\ ids \in SUBSET D /\ ids \in SUBSET JobIds
      BY <1>1, <2>2 DEF UpToSize
    <3>2. loop[ids] = RestoreJob(loop[ids \ {id}], id, ReadJob(jobs[id]))
      BY <1>2, <2>2, <3>1 DEF JobsLoop
    <3> HIDE DEF id
    <3>3. ids \ {id} \in UpToSize(D, k)
      BY <1>1, <3>1, Smaller
    <3>4. loop[ids \ {id}] = RestoredSome(jobs, ids \ {id})
      BY <1>5, <3>3
    <3> QED
      BY <3>1, <3>2, <3>4, RestoredOneMore
  <2> QED
    BY <2>1, <2>2
<1>6. 0..n \subseteq S
  <2> HIDE DEF S, n
  <2> QED
    BY <1>1, <1>4, <1>5, UpTo
<1>7. n \in S /\ D \in UpToSize(D, n)
  BY <1>1, <1>6, Smaller
<1> QED
  BY <1>3, <1>7 DEF D

-----------------------------------------------------------------------------
(* Leases that are one job's each, whatever is replayed over what.  Less   *)
(* than WellKept: a claim that is replayed asks nothing of the job, so the *)
(* budget and the outcomes may be left behind.                             *)

LeasedOK(job) ==
    /\ (job.status = "claimed") <=> (job.lease_id # Nil)
    /\ (job.lease_id # Nil) <=> (job.lease_until # Nil)

\* The jobs whose leases are theirs by `owner`.
GoodJobs(owner) ==
    {jobs \in [JobIds -> Job \cup {NoJob}] :
         \A id \in JobIds : jobs[id] # NoJob =>
             /\ LeasedOK(jobs[id])
             /\ jobs[id].lease_id # Nil => owner[jobs[id].lease_id] = id}

Good(owner) == {s \in SpaceType : s.jobs \in GoodJobs(owner)}

\* A job of a good space.
LEMMA GoodJob ==
    ASSUME NEW owner, NEW s \in Good(owner), NEW id \in Live(s)
    PROVE  /\ id \in JobIds
           /\ s.jobs[id] \in Job
           /\ LeasedOK(s.jobs[id])
           /\ s.jobs[id].lease_id # Nil => owner[s.jobs[id].lease_id] = id
BY DEF Good, GoodJobs, Live

\* The leases of a good space are exclusive.
LEMMA GoodExclusive ==
    ASSUME NEW owner, NEW s \in Good(owner)
    PROVE  LeaseExclusive(s)
<1>1. \A id \in Live(s) : LeasedOK(s.jobs[id])
  BY GoodJob
<1>2. \A id \in List(s, "claimed") : owner[s.jobs[id].lease_id] = id
  BY GoodJob DEF List, LeasedOK
<1> QED
  BY <1>1, <1>2 DEF LeaseExclusive, LeasedOK

LEMMA EmptyGood ==
    ASSUME NEW owner
    PROVE  Empty \in Good(owner)
BY DEF Empty, Good, GoodJobs, SpaceType

\* A write of one job.
LEMMA PutGood ==
    ASSUME NEW owner, NEW s \in Good(owner), NEW id \in JobIds, NEW job \in Job, LeasedOK(job),
           job.lease_id # Nil => owner[job.lease_id] = id,
           NEW pending, pending \subseteq JobTypes \X Int \X JobIds
    PROVE  Put(s, id, job, pending) \in Good(owner)
<1>1. s.jobs \in [JobIds -> Job \cup {NoJob}]
  BY DEF Good, GoodJobs
<1>2. /\ Put(s, id, job, pending).jobs = [s.jobs EXCEPT ![id] = job]
      /\ Put(s, id, job, pending) = [jobs |-> [s.jobs EXCEPT ![id] = job], pending |-> pending]
  BY DEF Put
<1>3. [s.jobs EXCEPT ![id] = job] \in GoodJobs(owner)
  BY <1>1 DEF Good, GoodJobs
<1> QED
  BY <1>2, <1>3 DEF Good, GoodJobs, SpaceType

\* The key of a job is a key.
LEMMA KeyType ==
    ASSUME NEW s \in SpaceType, NEW id \in JobIds, NEW job \in Job
    PROVE  /\ s.pending \subseteq JobTypes \X Int \X JobIds
           /\ s.pending \cup {PendingKey(id, job)} \subseteq JobTypes \X Int \X JobIds
BY DEF SpaceType, PendingKey, Job

\* A job that is claimed has a lease.
LEMMA ClaimedLeased ==
    ASSUME NEW job \in Job, NEW lease \in LeaseIds, NEW until \in Int,
           NEW worker \in Workers \cup {Nil}, NEW now \in Int
    PROVE  /\ Claimed(job, lease, until, worker, now) \in Job
           /\ LeasedOK(Claimed(job, lease, until, worker, now))
           /\ Claimed(job, lease, until, worker, now).lease_id = lease
<1>1. lease # Nil /\ until # Nil
  BY NilAssumption
<1>2. Claimed(job, lease, until, worker, now) \in Job
  BY DEF Claimed, Job, Statuses
<1>3. /\ LeasedOK(Claimed(job, lease, until, worker, now))
      /\ Claimed(job, lease, until, worker, now).lease_id = lease
  BY <1>1 DEF Claimed, LeasedOK, Job
<1> QED
  BY <1>2, <1>3

LEMMA EnqueueGood ==
    ASSUME NEW owner, NEW s \in Good(owner), NEW id \in JobIds, NEW type \in JobTypes,
           NEW max_retries \in 0..MaxU8, NEW now \in Int
    PROVE  EnqueueWithId(s, id, type, max_retries, now) \in Good(owner)
<1> DEFINE job == NewJob(type, max_retries, now)
<1>1. job \in Job /\ LeasedOK(job) /\ job.lease_id = Nil
  BY U8Assumption DEF NewJob, Job, LeasedOK, Statuses
<1>2. s \in SpaceType
  BY DEF Good
<1> HIDE DEF job
<1>3. s.pending \cup {PendingKey(id, job)} \subseteq JobTypes \X Int \X JobIds
  BY <1>1, <1>2, KeyType
<1>4. Put(s, id, job, s.pending \cup {PendingKey(id, job)}) \in Good(owner)
  BY <1>1, <1>3, PutGood
<1> QED
  BY <1>4 DEF EnqueueWithId, job

\* A claim, of a caller or replayed, under a lease that is the job's.
LEMMA ClaimedGood ==
    ASSUME NEW owner, NEW s \in Good(owner), NEW id \in JobIds, NEW lease \in LeaseIds,
           owner[lease] = id, NEW until \in Int, NEW worker \in Workers \cup {Nil},
           NEW now \in Int, NEW key, s.jobs[id] # NoJob
    PROVE  Put(s, id, Claimed(s.jobs[id], lease, until, worker, now), s.pending \ {key})
               \in Good(owner)
<1> DEFINE job == Claimed(s.jobs[id], lease, until, worker, now)
<1>1. s \in SpaceType /\ s.jobs[id] \in Job
  BY DEF Good, GoodJobs
<1>2. job \in Job /\ LeasedOK(job) /\ job.lease_id = lease
  <2> DEFINE old == s.jobs[id]
  <2>1. old \in Job
    BY <1>1
  <2> HIDE DEF old
  <2>2. LET claimed == Claimed(old, lease, until, worker, now)
        IN  claimed \in Job /\ LeasedOK(claimed) /\ claimed.lease_id = lease
    BY <2>1, ClaimedLeased
  <2> QED
    BY <2>2 DEF old
<1>3. s.pending \ {key} \subseteq JobTypes \X Int \X JobIds
  BY <1>1 DEF SpaceType
<1> HIDE DEF job
<1>4. Put(s, id, job, s.pending \ {key}) \in Good(owner)
  BY <1>2, <1>3, PutGood
<1> QED
  BY <1>4 DEF job

LEMMA ClaimGood ==
    ASSUME NEW owner, NEW s \in Good(owner), NEW key \in s.pending, NEW lease \in LeaseIds,
           owner[lease] = key[3], NEW ttl \in Int, NEW worker \in Workers \cup {Nil}, NEW now \in Int
    PROVE  ClaimKey(s, key, lease, ttl, worker, now) \in Good(owner)
<1>1. s \in SpaceType /\ key[3] \in JobIds /\ now + ttl \in Int
  BY DEF Good, SpaceType
<1>2. [s EXCEPT !.pending = s.pending \ {key}] \in Good(owner)
  BY <1>1 DEF Good, SpaceType
<1>3. s.jobs[key[3]] # NoJob =>
        Put(s, key[3], Claimed(s.jobs[key[3]], lease, now + ttl, worker, now), s.pending \ {key})
            \in Good(owner)
  BY <1>1, ClaimedGood
<1> QED
  BY <1>2, <1>3 DEF ClaimKey

\* The holder of a lease has a claimed job.
LEMMA CheckedGood ==
    ASSUME NEW owner, NEW s \in Good(owner), NEW id \in JobIds, NEW lease, CheckLease(s, id, lease)
    PROVE  /\ s \in SpaceType
           /\ s.jobs[id] \in Job
           /\ LeasedOK(s.jobs[id])
           /\ s.jobs[id].status = "claimed"
           /\ s.jobs[id].lease_id # Nil => owner[s.jobs[id].lease_id] = id
           /\ s.pending \subseteq JobTypes \X Int \X JobIds
BY DEF CheckLease, Good, GoodJobs, SpaceType

LEMMA CompleteGood ==
    ASSUME NEW owner, NEW s \in Good(owner), NEW id \in JobIds, NEW lease \in LeaseIds, NEW now \in Int
    PROVE  CompleteJob(s, id, lease, lease, now) \in Good(owner)
<1>1. CASE ~CheckLease(s, id, lease)
  BY <1>1 DEF CompleteJob
<1>2. CASE CheckLease(s, id, lease)
  <2> DEFINE old == s.jobs[id]
             job == [old EXCEPT !.status = "done", !.result = lease, !.finished_at = now,
                                !.lease_until = Nil, !.lease_id = Nil]
  <2>1. old \in Job /\ s.pending \subseteq JobTypes \X Int \X JobIds
    BY <1>2, CheckedGood
  <2>2. job \in Job
    BY <2>1 DEF Job, Statuses, Payloads
  <2>3. LeasedOK(job) /\ job.lease_id = Nil
    BY <2>1 DEF Job, LeasedOK
  <2>4. Put(s, id, job, s.pending) \in Good(owner)
    BY <2>1, <2>2, <2>3, PutGood
  <2> QED
    BY <1>2, <2>4 DEF CompleteJob
<1> QED
  BY <1>1, <1>2

LEMMA FailGood ==
    ASSUME NEW owner, NEW s \in Good(owner), NEW id \in JobIds, NEW lease \in LeaseIds, NEW now \in Int
    PROVE  FailJob(s, id, lease, lease, now) \in Good(owner)
<1>1. CASE ~CheckLease(s, id, lease)
  BY <1>1 DEF FailJob
<1>2. CASE CheckLease(s, id, lease)
  <2> DEFINE old     == s.jobs[id]
             retries == NextU8(old.retries)
             counted == [old EXCEPT !.retries = retries]
             again   == Requeued(counted)
             failed  == [counted EXCEPT !.status = "failed", !.error = lease, !.finished_at = now,
                                        !.lease_until = Nil, !.lease_id = Nil]
  <2>1. s \in SpaceType /\ old \in Job /\ s.pending \subseteq JobTypes \X Int \X JobIds
    BY <1>2, CheckedGood
  <2>2. retries \in 0..MaxU8
    BY <2>1, U8Assumption DEF NextU8, Job
  <2>3. counted \in Job
    BY <2>1, <2>2 DEF Job
  <2>4. again \in Job /\ LeasedOK(again) /\ again.lease_id = Nil
    <3> HIDE DEF counted
    <3>1. again \in Job
      BY <2>3 DEF Requeued, Job, Statuses
    <3>2. LeasedOK(again) /\ again.lease_id = Nil
      BY <2>3 DEF Requeued, LeasedOK, Job
    <3> QED
      BY <3>1, <3>2
  <2>5. failed \in Job /\ LeasedOK(failed) /\ failed.lease_id = Nil
    <3> HIDE DEF counted
    <3>1. failed \in Job
      BY <2>3, FailedType DEF Payloads
    <3>2. LeasedOK(failed) /\ failed.lease_id = Nil
      BY <2>3 DEF LeasedOK, Job
    <3> QED
      BY <3>1, <3>2
  <2>6. s.pending \cup {PendingKey(id, counted)} \subseteq JobTypes \X Int \X JobIds
    BY <2>1, <2>3, KeyType
  <2>7. FailJob(s, id, lease, lease, now) =
            IF retries < counted.max_retries
            THEN Put(s, id, again, s.pending \cup {PendingKey(id, counted)})
            ELSE Put(s, id, failed, s.pending)
    BY <1>2 DEF FailJob
  <2> HIDE DEF counted, again, failed
  <2> QED
    BY <2>1, <2>4, <2>5, <2>6, <2>7, PutGood
<1> QED
  BY <1>1, <1>2

LEMMA ExtendGood ==
    ASSUME NEW owner, NEW s \in Good(owner), NEW id \in JobIds, NEW lease, NEW until \in Int
    PROVE  ExtendLease(s, id, lease, until) \in Good(owner)
<1>1. CASE ~CheckLease(s, id, lease)
  BY <1>1 DEF ExtendLease
<1>2. CASE CheckLease(s, id, lease)
  <2> DEFINE old == s.jobs[id]
             job == [old EXCEPT !.lease_until = until]
  <2>1. /\ old \in Job /\ LeasedOK(old) /\ old.status = "claimed"
        /\ old.lease_id # Nil => owner[old.lease_id] = id
        /\ s.pending \subseteq JobTypes \X Int \X JobIds
    BY <1>2, CheckedGood
  <2>2. job \in Job /\ LeasedOK(job) /\ job.lease_id = old.lease_id
    BY <2>1, NilAssumption DEF Job, LeasedOK
  <2>3. Put(s, id, job, s.pending) \in Good(owner)
    BY <2>1, <2>2, PutGood
  <2> QED
    BY <1>2, <2>3 DEF ExtendLease
<1> QED
  BY <1>1, <1>2

LEMMA OperatorsGood ==
    ASSUME NEW owner, NEW s \in Good(owner), NEW id \in JobIds, NEW now \in Int
    PROVE  CancelJob(s, id, now) \in Good(owner) /\ RetryJob(s, id) \in Good(owner)
<1> DEFINE old == s.jobs[id]
<1>1. id \in Live(s) =>
          /\ s \in SpaceType
          /\ old \in Job
          /\ LeasedOK(old)
          /\ old.lease_id # Nil => owner[old.lease_id] = id
          /\ s.pending \subseteq JobTypes \X Int \X JobIds
  BY GoodJob DEF Good, SpaceType
<1>2. CancelJob(s, id, now) \in Good(owner)
  <2>1. CASE id \notin List(s, "pending")
    BY <2>1 DEF CancelJob
  <2>2. CASE id \in List(s, "pending")
    <3> DEFINE job == [old EXCEPT !.status = "cancelled", !.finished_at = now]
    <3>1. id \in Live(s) /\ old.status = "pending"
      BY <2>2 DEF List
    <3>2. job \in Job
      BY <1>1, <3>1 DEF Job, Statuses
    <3>3. LeasedOK(job) /\ job.lease_id = old.lease_id
      BY <1>1, <3>1 DEF Job, LeasedOK
    <3>4. s.pending \ {PendingKey(id, old)} \subseteq JobTypes \X Int \X JobIds
      BY <1>1, <3>1
    <3>5. Put(s, id, job, s.pending \ {PendingKey(id, old)}) \in Good(owner)
      BY <1>1, <3>1, <3>2, <3>3, <3>4, PutGood
    <3> QED
      BY <2>2, <3>5 DEF CancelJob
  <2> QED
    BY <2>1, <2>2
<1>3. RetryJob(s, id) \in Good(owner)
  <2>1. CASE id \notin List(s, "failed")
    BY <2>1 DEF RetryJob
  <2>2. CASE id \in List(s, "failed")
    <3> DEFINE job == [old EXCEPT !.status = "pending", !.error = Nil, !.retries = 0,
                                  !.finished_at = Nil]
    <3>1. id \in Live(s) /\ old.status = "failed"
      BY <2>2 DEF List
    <3>2. job \in Job
      BY <1>1, <3>1, RevivedType
    <3>3. LeasedOK(job) /\ job.lease_id = old.lease_id
      BY <1>1, <3>1 DEF Job, LeasedOK
    <3>4. s.pending \cup {PendingKey(id, old)} \subseteq JobTypes \X Int \X JobIds
      BY <1>1, <3>1, KeyType
    <3>5. Put(s, id, job, s.pending \cup {PendingKey(id, old)}) \in Good(owner)
      BY <1>1, <3>1, <3>2, <3>3, <3>4, PutGood
    <3> QED
      BY <2>2, <3>5 DEF RetryJob
  <2> QED
    BY <2>1, <2>2
<1> QED
  BY <1>2, <1>3

LEMMA ReleaseGood ==
    ASSUME NEW owner, NEW s \in Good(owner), NEW ids \in SUBSET Live(s)
    PROVE  Release(s, ids) \in Good(owner)
<1>1. s \in SpaceType
  BY DEF Good
<1>2. ASSUME NEW id \in ids
      PROVE  /\ s.jobs[id] \in Job
             /\ Requeued(s.jobs[id]) \in Job
             /\ LeasedOK(Requeued(s.jobs[id]))
             /\ Requeued(s.jobs[id]).lease_id = Nil
  <2>1. s.jobs[id] \in Job
    BY GoodJob
  <2>2. Requeued(s.jobs[id]) \in Job
    BY <2>1 DEF Requeued, Job, Statuses
  <2> QED
    BY <2>1, <2>2 DEF Requeued, LeasedOK, Job
<1> DEFINE jobs == [id \in JobIds |-> IF id \in ids THEN Requeued(s.jobs[id]) ELSE s.jobs[id]]
           keys == {PendingKey(id, s.jobs[id]) : id \in ids}
<1>3. jobs \in GoodJobs(owner)
  BY <1>2 DEF Good, GoodJobs
<1>4. s.pending \cup keys \subseteq JobTypes \X Int \X JobIds
  <2>1. \A id \in ids : PendingKey(id, s.jobs[id]) \in JobTypes \X Int \X JobIds
    BY <1>2 DEF PendingKey, Job, Live
  <2> QED
    BY <1>1, <2>1 DEF SpaceType
<1>5. Release(s, ids) = [jobs |-> jobs, pending |-> s.pending \cup keys]
  BY DEF Release
<1>6. jobs \in [JobIds -> Job \cup {NoJob}]
  BY <1>3 DEF GoodJobs
<1> HIDE DEF jobs, keys
<1> QED
  BY <1>3, <1>4, <1>5, <1>6 DEF Good, SpaceType

LEMMA RemoveGood ==
    ASSUME NEW owner, NEW s \in Good(owner), NEW id \in JobIds
    PROVE  RemoveJob(s, id) \in Good(owner)
<1>1. CASE id \notin Live(s)
  BY <1>1 DEF RemoveJob
<1>2. CASE id \in Live(s)
  <2>1. PICK pending : /\ pending \subseteq s.pending
                       /\ RemoveJob(s, id) = Put(s, id, NoJob, pending)
    BY <1>2 DEF RemoveJob
  <2>2. [s.jobs EXCEPT ![id] = NoJob] \in GoodJobs(owner)
    BY DEF Good, GoodJobs
  <2>3. [s.jobs EXCEPT ![id] = NoJob] \in [JobIds -> Job \cup {NoJob}]
    BY <2>2 DEF GoodJobs
  <2> QED
    BY <2>1, <2>2, <2>3 DEF Put, Good, SpaceType
<1> QED
  BY <1>1, <1>2

-----------------------------------------------------------------------------
(* Replay keeps leases exclusive.                                          *)

\* A time that is read is a time.
JsonTimes == \A time \in Int : JsonTime(time) \in Int

\* A job that is read has the status and the lease of the one that was saved.
LEMMA ReadLeased ==
    ASSUME JsonTimes, NEW job \in Job
    PROVE  /\ ReadJob(job) \in Job
           /\ ReadJob(job).status = job.status
           /\ ReadJob(job).lease_id = job.lease_id
           /\ LeasedOK(job) => LeasedOK(ReadJob(job))
<1>1. \A time \in Int \cup {Nil} : /\ JsonOption(time) \in Int \cup {Nil}
                                   /\ JsonOption(time) = Nil <=> time = Nil
  BY NilAssumption DEF JsonTimes, JsonOption
<1>2. /\ job.started_at \in Int \cup {Nil}
      /\ job.finished_at \in Int \cup {Nil}
      /\ job.lease_until \in Int \cup {Nil}
      /\ job.enqueued_at \in Int
  BY DEF Job
<1>3. JsonTime(job.enqueued_at) \in Int
  BY <1>2 DEF JsonTimes
<1>4. ReadJob(job) = [job EXCEPT !.enqueued_at = JsonTime(job.enqueued_at),
                                 !.started_at  = JsonOption(job.started_at),
                                 !.finished_at = JsonOption(job.finished_at),
                                 !.lease_until = JsonOption(job.lease_until),
                                 !.result      = ReadResult(job.result)]
  BY DEF ReadJob, Job
<1>5. ReadJob(job) \in Job
  <2> DEFINE timed == [job EXCEPT !.enqueued_at = JsonTime(job.enqueued_at),
                                  !.started_at  = JsonOption(job.started_at),
                                  !.finished_at = JsonOption(job.finished_at),
                                  !.lease_until = JsonOption(job.lease_until)]
  <2>1. ReadResult(job.result) \in Payloads \cup {Nil}
    BY DEF ReadResult, Job
  <2>2. timed \in Job
    BY <1>1, <1>2, <1>3 DEF Job
  <2>3. ReadJob(job) = [timed EXCEPT !.result = ReadResult(job.result)]
    BY <1>4
  <2> HIDE DEF timed
  <2> QED
    BY <2>1, <2>2, <2>3 DEF Job
<1>6. /\ ReadJob(job).status = job.status
      /\ ReadJob(job).lease_id = job.lease_id
      /\ ReadJob(job).lease_until = JsonOption(job.lease_until)
  BY <1>4 DEF Job
<1> QED
  BY <1>1, <1>2, <1>5, <1>6 DEF LeasedOK

LEMMA RestoredGood ==
    ASSUME JsonTimes, NEW owner, NEW jobs \in GoodJobs(owner)
    PROVE  Restored(jobs) \in Good(owner)
<1> DEFINE ids == {id \in JobIds : jobs[id] # NoJob}
           s   == RestoredSome(jobs, ids)
<1>1. ASSUME NEW id \in ids
      PROVE  /\ id \in JobIds
             /\ ReadJob(jobs[id]) \in Job
             /\ LeasedOK(ReadJob(jobs[id]))
             /\ ReadJob(jobs[id]).lease_id # Nil => owner[ReadJob(jobs[id]).lease_id] = id
  <2>1. /\ jobs[id] \in Job /\ LeasedOK(jobs[id])
        /\ jobs[id].lease_id # Nil => owner[jobs[id].lease_id] = id
    BY DEF GoodJobs
  <2> QED
    BY <2>1, ReadLeased
<1>2. s.jobs = [id \in JobIds |-> IF id \in ids THEN ReadJob(jobs[id]) ELSE NoJob]
  BY DEF RestoredSome
<1>3. s.jobs \in GoodJobs(owner)
  <2>1. \A id \in JobIds : s.jobs[id] = IF id \in ids THEN ReadJob(jobs[id]) ELSE NoJob
    BY <1>2
  <2>2. s.jobs \in [JobIds -> Job \cup {NoJob}]
    BY <1>1, <1>2
  <2> HIDE DEF s, ids
  <2> QED
    BY <1>1, <2>1, <2>2 DEF GoodJobs
<1>4. s.pending \subseteq JobTypes \X Int \X JobIds
  <2>1. \A id \in ids : PendingKey(id, ReadJob(jobs[id])) \in JobTypes \X Int \X JobIds
    BY <1>1 DEF PendingKey, Job
  <2> QED
    BY <2>1 DEF RestoredSome
<1>5. s = [jobs |-> s.jobs, pending |-> s.pending]
  BY DEF RestoredSome
<1>6. s.jobs \in [JobIds -> Job \cup {NoJob}]
  BY <1>3 DEF GoodJobs
<1>7. s \in Good(owner)
  <2> HIDE DEF s
  <2> QED
    BY <1>3, <1>4, <1>5, <1>6 DEF Good, SpaceType
<1> QED
  BY <1>7, RestoredJobs

\* An event, replayed or applied by a call, under a lease that is its job's.
LEMMA ApplyGood ==
    ASSUME NEW owner, NEW s \in Good(owner), NEW e \in Event,
           e.op = "claim" => owner[e.lease] = e.id
    PROVE  Apply(s, e) \in Good(owner)
<1>1. /\ e.id \in JobIds /\ e.ts \in Int
      /\ e.op \in {"enqueue", "claim", "complete", "fail", "cancel", "expire", "purge", "retry"}
  BY DEF Event
<1>2. CASE e.op = "enqueue"
  <2>1. e.job_type \in JobTypes /\ e.max_retries \in 0..MaxU8
    BY <1>2 DEF Event
  <2> QED
    BY <1>1, <1>2, <2>1, EnqueueGood DEF Apply
<1>3. CASE e.op = "claim"
  <2>1. e.lease \in LeaseIds /\ e.until \in Int /\ e.worker \in Workers \cup {Nil}
    BY <1>3 DEF Event
  <2>2. s.jobs[e.id] # NoJob =>
          Put(s, e.id, Claimed(s.jobs[e.id], e.lease, e.until, e.worker, e.ts),
              s.pending \ {PendingKey(e.id, s.jobs[e.id])}) \in Good(owner)
    BY <1>1, <1>3, <2>1, ClaimedGood
  <2> QED
    BY <1>3, <2>2 DEF Apply, ApplyClaim
<1>4. CASE e.op \in {"complete", "fail"}
  <2>1. e.lease \in LeaseIds
    BY <1>4 DEF Event
  <2> QED
    BY <1>1, <1>4, <2>1, CompleteGood, FailGood DEF Apply
<1>5. CASE e.op \in {"cancel", "retry"}
  BY <1>1, <1>5, OperatorsGood DEF Apply
<1>6. CASE e.op = "expire"
  <2>1. {e.id} \cap List(s, "claimed") \in SUBSET Live(s)
    BY DEF List
  <2> QED
    BY <1>6, <2>1, ReleaseGood DEF Apply, ApplyExpire
<1>7. CASE e.op = "purge"
  BY <1>1, <1>7, RemoveGood DEF Apply
<1> QED
  BY <1>1, <1>2, <1>3, <1>4, <1>5, <1>6, <1>7

LEMMA ReadEventType ==
    ASSUME JsonTimes, NEW e \in Event
    PROVE  /\ ReadEvent(e) \in Event
           /\ ReadEvent(e).op = e.op
           /\ ReadEvent(e).id = e.id
           /\ e.op = "claim" => ReadEvent(e).lease = e.lease
<1>1. CASE e.op = "claim"
  <2>1. e \in [op : {"claim"}, id : JobIds, ts : Int, lease : LeaseIds, until : Int,
               worker : Workers \cup {Nil}]
    BY <1>1 DEF Event
  <2>2. JsonTime(e.until) \in Int
    BY <2>1 DEF JsonTimes
  <2>3. ReadEvent(e) = [e EXCEPT !.until = JsonTime(e.until)]
    BY <1>1, <2>1 DEF ReadEvent
  <2>4. ReadEvent(e) \in [op : {"claim"}, id : JobIds, ts : Int, lease : LeaseIds, until : Int,
                          worker : Workers \cup {Nil}]
    BY <2>1, <2>2, <2>3
  <2>5. ReadEvent(e).op = e.op /\ ReadEvent(e).id = e.id /\ ReadEvent(e).lease = e.lease
    BY <2>1, <2>3
  <2> QED
    BY <2>4, <2>5 DEF Event
<1>2. CASE e.op # "claim"
  BY <1>2 DEF ReadEvent
<1> QED
  BY <1>1, <1>2

\* The events after a seq, and after what was truncated, are events of the log.
LEMMA SinceEvents ==
    ASSUME NEW l, NEW E, l.events \in Seq(E), l.deleted \in Nat, NEW seq \in Nat
    PROVE  LET first == IF seq > l.deleted THEN seq ELSE l.deleted
               since == LoadSince(l, seq)
           IN  /\ since \in Seq(E)
               /\ Len(since) \in Nat
               /\ DOMAIN since = 1..Len(since)
               /\ Len(since) = IF first < Len(l.events) THEN Len(l.events) - first ELSE 0
               /\ \A k \in 1..Len(since) : /\ first + k \in 1..Len(l.events)
                                           /\ since[k] = l.events[first + k]
<1> DEFINE events == l.events
           first  == IF seq > l.deleted THEN seq ELSE l.deleted
           n      == Len(events)
<1>1. events \in Seq(E) /\ n \in Nat /\ first \in Nat
  OBVIOUS
<1>2. LoadSince(l, seq) = SubSeq(events, first + 1, n)
  BY DEF LoadSince
<1> HIDE DEF events, first
<1>3. \A k \in (first + 1)..n : events[k] \in E
  BY <1>1
<1>4. /\ SubSeq(events, first + 1, n) \in Seq(E)
      /\ Len(SubSeq(events, first + 1, n)) = IF first + 1 <= n THEN n - (first + 1) + 1 ELSE 0
      /\ \A k \in 1..(n - (first + 1) + 1) : SubSeq(events, first + 1, n)[k] = events[(first + 1) + k - 1]
  <2>1. first + 1 \in Int /\ n \in Int
    BY <1>1
  <2> QED
    BY <1>3, <2>1, SubSeqProperties
<1> DEFINE since == SubSeq(events, first + 1, n)
<1>5. Len(since) = IF first < n THEN n - first ELSE 0
  BY <1>1, <1>4
<1>6. DOMAIN since = 1..Len(since) /\ Len(since) \in Nat
  BY <1>4
<1>7. \A k \in 1..Len(since) : first + k \in 1..n /\ since[k] = events[first + k]
  BY <1>1, <1>4, <1>5
<1> QED
  BY <1>2, <1>4, <1>5, <1>6, <1>7 DEF first, events

\* The rows of a log.
LogTyped(l) ==
    /\ l.events \in Seq(Event)
    /\ l.deleted \in 0..Len(l.events)
    /\ l.snapshots \in Seq(Snapshot)

\* A log whose grants and snapshots know one job for each lease.
LogGood(l, owner) ==
    /\ LogTyped(l)
    /\ \A e \in ToSet(l.events) : e.op = "claim" => owner[e.lease] = e.id
    /\ \A row \in ToSet(l.snapshots) : row.jobs \in GoodJobs(owner)

\* The snapshot that a start reads is a row, or there is none.
LEMMA LatestRow ==
    ASSUME NEW l, l.snapshots \in Seq(Snapshot)
    PROVE  \/ LatestSnapshot(l) = NoSnapshot
           \/ LatestSnapshot(l) \in ToSet(l.snapshots) /\ LatestSnapshot(l) \in Snapshot
<1> HIDE DEF Snapshot
<1>1. l.snapshots # <<>> => /\ Len(l.snapshots) \in DOMAIN l.snapshots
                            /\ l.snapshots[Len(l.snapshots)] \in Snapshot
  OBVIOUS
<1> QED
  BY <1>1 DEF LatestSnapshot, Last, ToSet

\* What a start loads from a typed log is a replay of events of the log.
LEMMA Loaded ==
    ASSUME NEW l, LogTyped(l)
    PROVE  LET snapshot == LatestSnapshot(l)
               since    == LoadSince(l, snapshot.seq)
           IN  /\ Load(l) = Replay(snapshot.jobs, since)
               /\ snapshot.seq \in Nat
               /\ since \in Seq(Event)
               /\ Len(since) \in Nat
               /\ DOMAIN since = 1..Len(since)
               /\ \A k \in 1..Len(since) : since[k] \in ToSet(l.events) /\ since[k] \in Event
<1> DEFINE snapshot == LatestSnapshot(l)
           since    == LoadSince(l, snapshot.seq)
           first    == IF snapshot.seq > l.deleted THEN snapshot.seq ELSE l.deleted
<1> HIDE DEF Event, Snapshot
<1>1. l.events \in Seq(Event) /\ l.deleted \in Nat /\ DOMAIN l.events = 1..Len(l.events)
  BY DEF LogTyped
<1>2. snapshot.seq \in Nat
  <2>1. NoSnapshot.seq = 0
    BY DEF NoSnapshot
  <2>2. \A row \in Snapshot : row.seq \in Nat
    BY DEF Snapshot
  <2>3. snapshot = NoSnapshot \/ snapshot \in Snapshot
    BY LatestRow DEF LogTyped
  <2> QED
    BY <2>1, <2>2, <2>3
<1>3. /\ since \in Seq(Event)
      /\ Len(since) \in Nat
      /\ DOMAIN since = 1..Len(since)
      /\ \A k \in 1..Len(since) : first + k \in 1..Len(l.events) /\ since[k] = l.events[first + k]
  BY <1>1, <1>2, SinceEvents
<1> HIDE DEF since, first
<1>4. \A k \in 1..Len(since) : since[k] \in ToSet(l.events) /\ since[k] \in Event
  BY <1>1, <1>3 DEF ToSet
<1> QED
  BY <1>2, <1>3, <1>4 DEF Load, since

\* What a start loads has leases that are one job's each.
LEMMA LoadGood ==
    ASSUME JsonTimes, NEW l, NEW owner, LogGood(l, owner)
    PROVE  Load(l) \in Good(owner)
<1> DEFINE snapshot == LatestSnapshot(l)
           since    == LoadSince(l, snapshot.seq)
<1>1. LogTyped(l)
  BY DEF LogGood
<1>2. /\ Load(l) = Replay(snapshot.jobs, since)
      /\ Len(since) \in Nat
      /\ DOMAIN since = 1..Len(since)
      /\ \A k \in 1..Len(since) : since[k] \in ToSet(l.events) /\ since[k] \in Event
  BY <1>1, Loaded
<1>3. snapshot.jobs \in GoodJobs(owner)
  <2>1. NoSnapshot.jobs \in GoodJobs(owner)
    BY EmptyGood DEF NoSnapshot, Good
  <2> QED
    BY <1>1, <2>1, LatestRow DEF LogGood, LogTyped
<1> HIDE DEF snapshot, since
<1>4. Restored(snapshot.jobs) \in Good(owner)
  BY <1>3, RestoredGood
<1>5. ASSUME NEW s \in Good(owner), NEW k \in 1..Len(since)
      PROVE  Apply(s, ReadEvent(since[k])) \in Good(owner)
  <2>1. since[k] \in Event /\ (since[k].op = "claim" => owner[since[k].lease] = since[k].id)
    BY <1>2 DEF LogGood
  <2>2. /\ ReadEvent(since[k]) \in Event
        /\ ReadEvent(since[k]).op = "claim" => owner[ReadEvent(since[k]).lease] = ReadEvent(since[k]).id
    BY <2>1, ReadEventType
  <2> QED
    BY <2>2, ApplyGood
<1> QED
  BY <1>2, <1>4, <1>5, ReplayStays

-----------------------------------------------------------------------------
(* Keys that are one job's each.  A job keeps the key it was born or       *)
(* restored under, so whatever is replayed over it, but a second enqueue,  *)
(* leaves the key where it was.                                            *)

\* The jobs of a space are among those that were born.
BornAs(jobs, births) ==
    \A id \in JobIds : jobs[id] # NoJob => PendingKey(id, jobs[id]) \in births

\* No job was born twice.
OneBirth(births) == \A a, b \in births : a[3] = b[3] => a = b

Indexed(s, births) == BornAs(s.jobs, births) /\ IndexExact(s)

\* The key of a job is in the index exactly while the job is pending.
LEMMA KeyIndexed ==
    ASSUME NEW s \in SpaceType, IndexExact(s), NEW id \in JobIds
    PROVE  /\ s.jobs[id] # NoJob => (PendingKey(id, s.jobs[id]) \in s.pending
                                     <=> s.jobs[id].status = "pending")
           /\ s.jobs[id] = NoJob => \A k \in s.pending : k[3] # id
           /\ \A k \in s.pending : k[3] = id => k = PendingKey(id, s.jobs[id])
BY IndexMember DEF PendingKey

\* One job is written, and its key is put where it belongs.
LEMMA OneKeyMoves ==
    ASSUME NEW births, NEW s \in SpaceType, NEW t \in SpaceType, Indexed(s, births), NEW id \in JobIds,
           \A x \in JobIds \ {id} : t.jobs[x] = s.jobs[x],
           t.jobs[id] # NoJob => PendingKey(id, t.jobs[id]) \in births,
           \A k : k \in t.pending <=>
               \/ k \in s.pending /\ k[3] # id
               \/ /\ t.jobs[id] # NoJob
                  /\ t.jobs[id].status = "pending"
                  /\ k = PendingKey(id, t.jobs[id])
    PROVE  Indexed(t, births)
<1>1. BornAs(t.jobs, births)
  BY DEF Indexed, BornAs
<1>2. ASSUME NEW k
      PROVE  k \in t.pending <=> \E x \in JobIds : /\ t.jobs[x] # NoJob
                                                   /\ t.jobs[x].status = "pending"
                                                   /\ k = PendingKey(x, t.jobs[x])
  <2>1. k \in s.pending <=> \E x \in JobIds : /\ s.jobs[x] # NoJob
                                              /\ s.jobs[x].status = "pending"
                                              /\ k = PendingKey(x, s.jobs[x])
    BY IndexMember DEF Indexed
  <2>2. k \in s.pending /\ k[3] # id <=> \E x \in JobIds \ {id} : /\ s.jobs[x] # NoJob
                                                                 /\ s.jobs[x].status = "pending"
                                                                 /\ k = PendingKey(x, s.jobs[x])
    BY <2>1 DEF PendingKey
  <2> QED
    BY <2>2
<1> QED
  BY <1>1, <1>2, IndexMember DEF Indexed

\* A job moves on and keeps its key.
LEMMA KeyKept ==
    ASSUME NEW births, NEW s \in SpaceType, NEW t \in SpaceType, Indexed(s, births), NEW id \in Live(s),
           NEW job \in Job, t.jobs = [s.jobs EXCEPT ![id] = job],
           PendingKey(id, job) = PendingKey(id, s.jobs[id]),
           t.pending = IF job.status = "pending" THEN s.pending \cup {PendingKey(id, s.jobs[id])}
                       ELSE s.pending \ {PendingKey(id, s.jobs[id])}
    PROVE  Indexed(t, births)
<1> DEFINE key == PendingKey(id, s.jobs[id])
<1>1. id \in JobIds /\ s.jobs[id] # NoJob /\ key \in births
  BY DEF Live, Indexed, BornAs
<1>2. t.jobs[id] = job /\ \A x \in JobIds \ {id} : t.jobs[x] = s.jobs[x]
  BY <1>1 DEF SpaceType
<1>3. key[3] = id /\ \A k \in s.pending : k[3] = id => k = key
  BY <1>1, KeyIndexed DEF Indexed, PendingKey
<1>4. t.jobs[id] # NoJob /\ PendingKey(id, t.jobs[id]) = key
  BY <1>2, NoJobAssumption
<1>5. \A k : k \in t.pending <=>
          \/ k \in s.pending /\ k[3] # id
          \/ /\ t.jobs[id] # NoJob
             /\ t.jobs[id].status = "pending"
             /\ k = PendingKey(id, t.jobs[id])
  <2> HIDE DEF key
  <2>1. t.pending = IF job.status = "pending" THEN s.pending \cup {key} ELSE s.pending \ {key}
    BY DEF key
  <2> QED
    BY <1>2, <1>3, <1>4, <2>1
<1> QED
  BY <1>1, <1>2, <1>4, <1>5, OneKeyMoves

\* An enqueue that is replayed over the job it made finds the same key.
LEMMA EnqueueIndexed ==
    ASSUME NEW births, OneBirth(births), NEW s \in SpaceType, NEW t \in SpaceType, Indexed(s, births),
           NEW id \in JobIds, NEW type \in JobTypes, NEW max_retries \in 0..MaxU8, NEW now \in Int,
           <<type, now, id>> \in births, t = EnqueueWithId(s, id, type, max_retries, now)
    PROVE  Indexed(t, births)
<1> DEFINE job == NewJob(type, max_retries, now)
           key == <<type, now, id>>
<1>1. job \in Job /\ PendingKey(id, job) = key /\ job.status = "pending" /\ key[3] = id
  BY U8Assumption DEF NewJob, Job, PendingKey, Statuses
<1>2. t.jobs = [s.jobs EXCEPT ![id] = job] /\ t.pending = s.pending \cup {PendingKey(id, job)}
  BY DEF EnqueueWithId, Put
<1> HIDE DEF job, key
<1>3. t.jobs[id] = job /\ \A x \in JobIds \ {id} : t.jobs[x] = s.jobs[x]
  BY <1>2 DEF SpaceType
<1>4. ASSUME NEW k \in s.pending, k[3] = id
      PROVE  k = key
  <2>1. s.jobs[id] # NoJob /\ k = PendingKey(id, s.jobs[id])
    BY <1>4, KeyIndexed DEF Indexed
  <2>2. k \in births
    BY <2>1 DEF Indexed, BornAs
  <2> QED
    BY <1>1, <1>4, <2>2 DEF OneBirth, key
<1>5. \A k : k \in t.pending <=>
          \/ k \in s.pending /\ k[3] # id
          \/ /\ t.jobs[id] # NoJob
             /\ t.jobs[id].status = "pending"
             /\ k = PendingKey(id, t.jobs[id])
  BY <1>1, <1>2, <1>3, <1>4, NoJobAssumption
<1>6. PendingKey(id, t.jobs[id]) \in births
  BY <1>1, <1>3 DEF key
<1> QED
  BY <1>3, <1>5, <1>6, OneKeyMoves

\* A claim, of a caller or replayed, takes the key out.
LEMMA ClaimedIndexed ==
    ASSUME NEW births, NEW s \in SpaceType, NEW t \in SpaceType, Indexed(s, births), NEW id \in Live(s),
           NEW lease \in LeaseIds, NEW until \in Int, NEW worker \in Workers \cup {Nil}, NEW now \in Int,
           t = Put(s, id, Claimed(s.jobs[id], lease, until, worker, now),
                   s.pending \ {PendingKey(id, s.jobs[id])})
    PROVE  Indexed(t, births)
<1> DEFINE old == s.jobs[id]
           job == Claimed(old, lease, until, worker, now)
<1>1. old \in Job
  BY LiveIsJob
<1> HIDE DEF old
<1>2. job \in Job
  BY <1>1, ClaimedLeased
<1>3. job.status = "claimed" /\ PendingKey(id, job) = PendingKey(id, old)
  BY <1>1 DEF Claimed, Job, PendingKey
<1>4. t.jobs = [s.jobs EXCEPT ![id] = job] /\ t.pending = s.pending \ {PendingKey(id, old)}
  BY DEF Put, old
<1> HIDE DEF job
<1> QED
  BY <1>2, <1>3, <1>4, KeyKept DEF old

LEMMA ClaimIndexed ==
    ASSUME NEW births, NEW s \in SpaceType, NEW t \in SpaceType, Indexed(s, births), NEW key \in s.pending,
           NEW lease \in LeaseIds, NEW ttl \in Int, NEW worker \in Workers \cup {Nil}, NEW now \in Int,
           t = ClaimKey(s, key, lease, ttl, worker, now)
    PROVE  Indexed(t, births)
<1>1. key[3] \in Live(s) /\ key = PendingKey(key[3], s.jobs[key[3]])
  <2>1. PICK id \in JobIds : s.jobs[id] # NoJob /\ key = PendingKey(id, s.jobs[id])
    BY IndexMember DEF Indexed
  <2> QED
    BY <2>1 DEF PendingKey, Live
<1>2. t = Put(s, key[3], Claimed(s.jobs[key[3]], lease, now + ttl, worker, now), s.pending \ {key})
  BY <1>1 DEF ClaimKey, Live
<1>3. now + ttl \in Int
  OBVIOUS
<1> QED
  BY <1>1, <1>2, <1>3, ClaimedIndexed

\* A report ends the run of a job that has no key, or gives it its key back.
LEMMA ReportIndexed ==
    ASSUME NEW births, NEW s \in SpaceType, NEW t \in SpaceType, Indexed(s, births), NEW id \in JobIds,
           NEW lease \in LeaseIds, NEW now \in Int,
           t = CompleteJob(s, id, lease, lease, now) \/ t = FailJob(s, id, lease, lease, now)
    PROVE  Indexed(t, births)
<1> DEFINE old == s.jobs[id]
           key == PendingKey(id, old)
<1>1. CASE ~CheckLease(s, id, lease)
  BY <1>1 DEF CompleteJob, FailJob
<1>2. CASE CheckLease(s, id, lease)
  <2>1. id \in Live(s) /\ old \in Job /\ old.status = "claimed" /\ s.pending = s.pending \ {key}
    BY <1>2, KeyIndexed, LiveIsJob DEF CheckLease, Live, Indexed
  <2>2. \E job \in Job : /\ t.jobs = [s.jobs EXCEPT ![id] = job]
                         /\ PendingKey(id, job) = key
                         /\ t.pending = IF job.status = "pending" THEN s.pending \cup {key}
                                        ELSE s.pending
    <3>1. CASE t = CompleteJob(s, id, lease, lease, now)
      <4> DEFINE job == [old EXCEPT !.status = "done", !.result = lease, !.finished_at = now,
                                    !.lease_until = Nil, !.lease_id = Nil]
      <4>1. job \in Job /\ job.status = "done" /\ PendingKey(id, job) = key
        BY <2>1 DEF Job, Statuses, Payloads, PendingKey
      <4>2. t = Put(s, id, job, s.pending)
        BY <1>2, <3>1 DEF CompleteJob
      <4> HIDE DEF job, key
      <4>3. t.jobs = [s.jobs EXCEPT ![id] = job] /\ t.pending = s.pending
        BY <4>2 DEF Put
      <4> QED
        BY <4>1, <4>3
    <3>2. CASE t = FailJob(s, id, lease, lease, now)
      <4> DEFINE retries == NextU8(old.retries)
                 counted == [old EXCEPT !.retries = retries]
                 again   == Requeued(counted)
                 failed  == [counted EXCEPT !.status = "failed", !.error = lease, !.finished_at = now,
                                            !.lease_until = Nil, !.lease_id = Nil]
      <4>1. retries \in 0..MaxU8
        BY <2>1, U8Assumption DEF NextU8, Job
      <4>2. counted \in Job /\ PendingKey(id, counted) = key
        BY <2>1, <4>1 DEF Job, PendingKey
      <4>3. t = IF retries < counted.max_retries
                THEN Put(s, id, again, s.pending \cup {PendingKey(id, counted)})
                ELSE Put(s, id, failed, s.pending)
        BY <1>2, <3>2 DEF FailJob
      <4> HIDE DEF counted, key
      <4>4. again \in Job /\ again.status = "pending" /\ PendingKey(id, again) = PendingKey(id, counted)
        BY <4>2 DEF Requeued, Job, Statuses, PendingKey
      <4>5. failed \in Job /\ failed.status = "failed" /\ PendingKey(id, failed) = PendingKey(id, counted)
        BY <4>2, FailedType DEF Job, Payloads, PendingKey
      <4> HIDE DEF again, failed
      <4>6. CASE t = Put(s, id, again, s.pending \cup {PendingKey(id, counted)})
        <5>1. t.jobs = [s.jobs EXCEPT ![id] = again] /\ t.pending = s.pending \cup {key}
          BY <4>2, <4>6 DEF Put
        <5> QED
          BY <4>2, <4>4, <5>1
      <4>7. CASE t = Put(s, id, failed, s.pending)
        <5>1. t.jobs = [s.jobs EXCEPT ![id] = failed] /\ t.pending = s.pending
          BY <4>7 DEF Put
        <5> QED
          BY <4>2, <4>5, <5>1
      <4> QED
        BY <4>3, <4>6, <4>7
    <3> QED
      BY <3>1, <3>2
  <2> QED
    BY <2>1, <2>2, KeyKept
<1> QED
  BY <1>1, <1>2

LEMMA ExtendIndexed ==
    ASSUME NEW births, NEW s \in SpaceType, NEW t \in SpaceType, Indexed(s, births), NEW id \in JobIds,
           NEW lease, NEW until \in Int, t = ExtendLease(s, id, lease, until)
    PROVE  Indexed(t, births)
<1> DEFINE old == s.jobs[id]
           job == [old EXCEPT !.lease_until = until]
<1>1. CASE ~CheckLease(s, id, lease)
  BY <1>1 DEF ExtendLease
<1>2. CASE CheckLease(s, id, lease)
  <2>1. /\ id \in Live(s) /\ old \in Job /\ old.status = "claimed"
        /\ s.pending = s.pending \ {PendingKey(id, old)}
    BY <1>2, KeyIndexed, LiveIsJob DEF CheckLease, Live, Indexed
  <2>2. job \in Job /\ job.status = "claimed" /\ PendingKey(id, job) = PendingKey(id, old)
    BY <2>1 DEF Job, PendingKey
  <2>3. t.jobs = [s.jobs EXCEPT ![id] = job] /\ t.pending = s.pending
    BY <1>2 DEF ExtendLease, Put
  <2> HIDE DEF job
  <2> QED
    BY <2>1, <2>2, <2>3, KeyKept
<1> QED
  BY <1>1, <1>2

LEMMA OperatorsIndexed ==
    ASSUME NEW births, NEW s \in SpaceType, NEW t \in SpaceType, Indexed(s, births), NEW id \in JobIds,
           NEW now \in Int, t = CancelJob(s, id, now) \/ t = RetryJob(s, id)
    PROVE  Indexed(t, births)
<1> DEFINE old       == s.jobs[id]
           key       == PendingKey(id, old)
           cancelled == [old EXCEPT !.status = "cancelled", !.finished_at = now]
           revived   == [old EXCEPT !.status = "pending", !.error = Nil, !.retries = 0,
                                    !.finished_at = Nil]
<1>1. CASE t = s
  BY <1>1
<1>2. CASE t # s
  <2>1. id \in Live(s) /\ old \in Job
    BY <1>2, LiveIsJob DEF CancelJob, RetryJob, List
  <2>2. cancelled \in Job /\ cancelled.status = "cancelled" /\ PendingKey(id, cancelled) = key
    BY <2>1 DEF Job, Statuses, PendingKey
  <2>3. revived \in Job /\ revived.status = "pending" /\ PendingKey(id, revived) = key
    <3>1. revived \in Job
      BY <2>1, RevivedType
    <3> QED
      BY <2>1, <3>1 DEF Job, PendingKey
  <2>4. \/ t = Put(s, id, cancelled, s.pending \ {key})
        \/ t = Put(s, id, revived, s.pending \cup {key})
    BY <1>2 DEF CancelJob, RetryJob
  <2> HIDE DEF cancelled, revived
  <2>5. CASE t = Put(s, id, cancelled, s.pending \ {key})
    <3>1. t.jobs = [s.jobs EXCEPT ![id] = cancelled] /\ t.pending = s.pending \ {key}
      BY <2>5 DEF Put
    <3> QED
      BY <2>1, <2>2, <3>1, KeyKept
  <2>6. CASE t = Put(s, id, revived, s.pending \cup {key})
    <3>1. t.jobs = [s.jobs EXCEPT ![id] = revived] /\ t.pending = s.pending \cup {key}
      BY <2>6 DEF Put
    <3> QED
      BY <2>1, <2>3, <3>1, KeyKept
  <2> QED
    BY <2>4, <2>5, <2>6
<1> QED
  BY <1>1, <1>2

LEMMA ReleaseIndexed ==
    ASSUME NEW births, NEW s \in SpaceType, Indexed(s, births), NEW ids \in SUBSET Live(s)
    PROVE  Indexed(Release(s, ids), births)
<1> DEFINE t == Release(s, ids)
<1>1. /\ t.jobs = [id \in JobIds |-> IF id \in ids THEN Requeued(s.jobs[id]) ELSE s.jobs[id]]
      /\ t.pending = s.pending \cup {PendingKey(id, s.jobs[id]) : id \in ids}
  BY DEF Release
<1>2. ASSUME NEW id \in ids
      PROVE  /\ id \in JobIds /\ s.jobs[id] # NoJob
             /\ Requeued(s.jobs[id]) # NoJob
             /\ Requeued(s.jobs[id]).status = "pending"
             /\ PendingKey(id, Requeued(s.jobs[id])) = PendingKey(id, s.jobs[id])
  <2> DEFINE old == s.jobs[id]
  <2>1. id \in JobIds /\ old \in Job /\ old # NoJob
    BY LiveIsJob DEF Live
  <2> HIDE DEF old
  <2>2. Requeued(old) \in Job /\ Requeued(old).status = "pending" /\ PendingKey(id, Requeued(old)) = PendingKey(id, old)
    BY <2>1 DEF Requeued, Job, Statuses, PendingKey
  <2> QED
    BY <2>1, <2>2, NoJobAssumption DEF old
<1>3. \A id \in JobIds : t.jobs[id] = IF id \in ids THEN Requeued(s.jobs[id]) ELSE s.jobs[id]
  BY <1>1
<1>4. BornAs(t.jobs, births)
  BY <1>2, <1>3 DEF Indexed, BornAs
<1>5. ASSUME NEW k
      PROVE  k \in t.pending <=> \E id \in JobIds : /\ t.jobs[id] # NoJob
                                                    /\ t.jobs[id].status = "pending"
                                                    /\ k = PendingKey(id, t.jobs[id])
  <2>1. k \in s.pending <=> \E id \in JobIds : /\ s.jobs[id] # NoJob
                                               /\ s.jobs[id].status = "pending"
                                               /\ k = PendingKey(id, s.jobs[id])
    BY IndexMember DEF Indexed
  <2>2. k \in t.pending <=> k \in s.pending \/ \E id \in ids : k = PendingKey(id, s.jobs[id])
    BY <1>1
  <2> HIDE DEF t
  <2> QED
    BY <1>2, <1>3, <2>1, <2>2
<1> QED
  BY <1>4, <1>5, IndexMember DEF Indexed

LEMMA RemoveIndexed ==
    ASSUME NEW births, NEW s \in SpaceType, NEW t \in SpaceType, Indexed(s, births), NEW id \in JobIds,
           t = RemoveJob(s, id)
    PROVE  Indexed(t, births)
<1>1. CASE id \notin Live(s)
  BY <1>1 DEF RemoveJob
<1>2. CASE id \in Live(s)
  <2>1. t.jobs = [s.jobs EXCEPT ![id] = NoJob] /\ t.pending = s.pending \ {PendingKey(id, s.jobs[id])}
    BY <1>2, KeyIndexed DEF RemoveJob, Put, Live, Indexed
  <2>2. t.jobs[id] = NoJob /\ \A x \in JobIds \ {id} : t.jobs[x] = s.jobs[x]
    BY <2>1 DEF SpaceType
  <2>3. \A k : k \in t.pending <=> k \in s.pending /\ k[3] # id
    <3>1. PendingKey(id, s.jobs[id])[3] = id
      BY DEF PendingKey
    <3>2. \A k \in s.pending : k[3] = id => k = PendingKey(id, s.jobs[id])
      BY KeyIndexed DEF Indexed
    <3> QED
      BY <2>1, <3>1, <3>2
  <2> QED
    BY <2>2, <2>3, OneKeyMoves
<1> QED
  BY <1>1, <1>2

\* The keys of the jobs restored are built from what was read of them.
LEMMA RestoredIndexed ==
    ASSUME JsonTimes, NEW jobs \in [JobIds -> Job \cup {NoJob}]
    PROVE  IndexExact(Restored(jobs))
<1> DEFINE ids == {id \in JobIds : jobs[id] # NoJob}
           s   == RestoredSome(jobs, ids)
<1>1. ASSUME NEW id \in ids
      PROVE  ReadJob(jobs[id]) # NoJob
  BY ReadLeased, NoJobAssumption
<1>2. /\ s.jobs = [id \in JobIds |-> IF id \in ids THEN ReadJob(jobs[id]) ELSE NoJob]
      /\ s.pending = {PendingKey(id, ReadJob(jobs[id])) :
                          id \in {x \in ids : ReadJob(jobs[x]).status = "pending"}}
  BY DEF RestoredSome
<1>3. \A id \in JobIds : s.jobs[id] = IF id \in ids THEN ReadJob(jobs[id]) ELSE NoJob
  BY <1>2
<1>4. ASSUME NEW k
      PROVE  k \in s.pending <=> \E id \in JobIds : /\ s.jobs[id] # NoJob
                                                    /\ s.jobs[id].status = "pending"
                                                    /\ k = PendingKey(id, s.jobs[id])
  <2>1. k \in s.pending <=> \E id \in ids : /\ ReadJob(jobs[id]).status = "pending"
                                            /\ k = PendingKey(id, ReadJob(jobs[id]))
    BY <1>2
  <2>2. ids \subseteq JobIds
    OBVIOUS
  <2> HIDE DEF s, ids
  <2> QED
    BY <1>1, <1>3, <2>1, <2>2
<1>5. IndexExact(s)
  <2> HIDE DEF s
  <2> QED
    BY <1>4, IndexMember
<1> QED
  BY <1>5, RestoredJobs

\* An event, replayed or applied by a call, over whatever the space has of it.
LEMMA ApplyIndexed ==
    ASSUME NEW births, OneBirth(births), NEW s \in SpaceType, NEW e \in Event,
           Apply(s, e) \in SpaceType, Indexed(s, births),
           e.op = "enqueue" => <<e.job_type, e.ts, e.id>> \in births
    PROVE  Indexed(Apply(s, e), births)
<1> DEFINE t == Apply(s, e)
<1>1. /\ e.id \in JobIds /\ e.ts \in Int
      /\ e.op \in {"enqueue", "claim", "complete", "fail", "cancel", "expire", "purge", "retry"}
  BY DEF Event
<1>2. CASE e.op = "enqueue"
  <2>1. e.job_type \in JobTypes /\ e.max_retries \in 0..MaxU8
    BY <1>2 DEF Event
  <2> QED
    BY <1>1, <1>2, <2>1, EnqueueIndexed DEF Apply
<1>3. CASE e.op = "claim"
  <2>1. e.lease \in LeaseIds /\ e.until \in Int /\ e.worker \in Workers \cup {Nil}
    BY <1>3 DEF Event
  <2>2. t = ApplyClaim(s, e.id, e.lease, e.until, e.worker, e.ts)
    BY <1>3 DEF Apply
  <2>3. CASE s.jobs[e.id] = NoJob
    BY <2>2, <2>3 DEF ApplyClaim
  <2>4. CASE s.jobs[e.id] # NoJob
    <3>1. /\ e.id \in Live(s)
          /\ t = Put(s, e.id, Claimed(s.jobs[e.id], e.lease, e.until, e.worker, e.ts),
                     s.pending \ {PendingKey(e.id, s.jobs[e.id])})
      BY <1>1, <2>2, <2>4 DEF ApplyClaim, Live
    <3> HIDE DEF t
    <3>2. t \in SpaceType
      BY DEF t
    <3>3. Indexed(t, births)
      BY <1>1, <2>1, <3>1, <3>2, ClaimedIndexed
    <3> QED
      BY <3>3 DEF t
  <2> QED
    BY <2>3, <2>4
<1>4. CASE e.op \in {"complete", "fail"}
  <2>1. e.lease \in LeaseIds
    BY <1>4 DEF Event
  <2>2. t = CompleteJob(s, e.id, e.lease, e.lease, e.ts) \/ t = FailJob(s, e.id, e.lease, e.lease, e.ts)
    BY <1>4 DEF Apply
  <2> QED
    BY <1>1, <2>1, <2>2, ReportIndexed
<1>5. CASE e.op \in {"cancel", "retry"}
  <2>1. t = CancelJob(s, e.id, e.ts) \/ t = RetryJob(s, e.id)
    BY <1>5 DEF Apply
  <2> QED
    BY <1>1, <2>1, OperatorsIndexed
<1>6. CASE e.op = "expire"
  <2>1. {e.id} \cap List(s, "claimed") \in SUBSET Live(s)
    BY DEF List
  <2> QED
    BY <1>6, <2>1, ReleaseIndexed DEF Apply, ApplyExpire
<1>7. CASE e.op = "purge"
  <2>1. t = RemoveJob(s, e.id)
    BY <1>7 DEF Apply
  <2> QED
    BY <1>1, <2>1, RemoveIndexed
<1> QED
  BY <1>1, <1>2, <1>3, <1>4, <1>5, <1>6, <1>7

\* An event keeps the index exact, if a job that is enqueued is not there yet.
LEMMA ApplyKeepsIndex ==
    ASSUME NEW s \in SpaceType, NEW e \in Event, Apply(s, e) \in SpaceType, IndexExact(s),
           e.op = "enqueue" => e.id \notin Live(s)
    PROVE  IndexExact(Apply(s, e))
<1> DEFINE births == {PendingKey(id, s.jobs[id]) : id \in Live(s)}
                        \cup (IF e.op = "enqueue" THEN {<<e.job_type, e.ts, e.id>>} ELSE {})
<1>1. BornAs(s.jobs, births)
  BY DEF BornAs, SpaceType, Live
<1>2. OneBirth(births)
  <2> SUFFICES ASSUME NEW a \in births, NEW b \in births, a[3] = b[3]
               PROVE  a = b
    BY DEF OneBirth
  <2>1. \A k \in births : \/ \E id \in Live(s) : k = PendingKey(id, s.jobs[id])
                          \/ e.op = "enqueue" /\ k = <<e.job_type, e.ts, e.id>>
    OBVIOUS
  <2>2. \A id : PendingKey(id, s.jobs[id])[3] = id
    BY DEF PendingKey
  <2>3. <<e.job_type, e.ts, e.id>>[3] = e.id
    OBVIOUS
  <2> HIDE DEF births
  <2> QED
    BY <2>1, <2>2, <2>3
<1>3. e.op = "enqueue" => <<e.job_type, e.ts, e.id>> \in births
  OBVIOUS
<1> HIDE DEF births
<1>4. Indexed(Apply(s, e), births)
  BY <1>1, <1>2, <1>3, ApplyIndexed DEF Indexed
<1> QED
  BY <1>4 DEF Indexed

-----------------------------------------------------------------------------
(* The history of one job.                                                 *)

\* The equation of the fold that selects a job's events.
HistoryLoop(f, id, events, sets) ==
    f = [s \in sets |->
            IF s = {} THEN <<>>
            ELSE IF events[Max(s)].id = id
                 THEN Append(f[s \ {Max(s)}], events[Max(s)])
                 ELSE f[s \ {Max(s)}]]

LEMMA HistoryLoopRuns ==
    ASSUME NEW id, NEW events, NEW n \in Nat, DOMAIN events = 1..n
    PROVE  \E f : HistoryLoop(f, id, events, SUBSET (1..n))
<1> DEFINE D == 1..n
           S == {k \in Nat : \E f : HistoryLoop(f, id, events, UpToSize(D, k))}
<1>1. IsFiniteSet(D) /\ Cardinality(D) = n
  BY FS_Interval
<1>2. 0 \in S
  <2> DEFINE f == [s \in {{}} |-> <<>>]
  <2>1. HistoryLoop(f, id, events, {{}})
    BY DEF HistoryLoop
  <2> HIDE DEF f
  <2> QED
    BY <1>1, <2>1, Smaller
<1>3. ASSUME NEW k \in Nat, k < n, k \in S
      PROVE  k + 1 \in S
  <2>1. PICK g : HistoryLoop(g, id, events, UpToSize(D, k))
    BY <1>3
  <2> DEFINE h == [s \in UpToSize(D, k + 1) |->
                       IF s = {} THEN <<>>
                       ELSE IF events[Max(s)].id = id
                            THEN Append(g[s \ {Max(s)}], events[Max(s)])
                            ELSE g[s \ {Max(s)}]]
  <2>2. ASSUME NEW s \in UpToSize(D, k + 1), s # {}
        PROVE  s \ {Max(s)} \in UpToSize(D, k)
    <3>1. Max(s) \in s
      BY <2>2, LastPlace DEF UpToSize
    <3> QED
      BY <1>1, <3>1, Smaller
  <2>3. \A s \in UpToSize(D, k) : s \in UpToSize(D, k + 1)
    BY <1>1, Smaller
  <2>4. \A s \in UpToSize(D, k) : h[s] = g[s]
    BY <2>1, <2>3 DEF HistoryLoop
  <2>5. HistoryLoop(h, id, events, UpToSize(D, k + 1))
    BY <2>2, <2>4 DEF HistoryLoop
  <2> HIDE DEF h
  <2> QED
    BY <2>5
<1>4. 0..n \subseteq S
  <2> HIDE DEF S
  <2> QED
    BY <1>2, <1>3, UpTo
<1>5. n \in S
  BY <1>4
<1> QED
  BY <1>1, <1>5, Smaller

\* The history of a job grows by the events that are the job's.
HistorySteps(r, log, id) ==
    LET since == LoadSince(log, 0)
    IN  /\ r[0] = <<>>
        /\ \A k \in 1..Len(since) :
               r[k] = IF since[k].id = id THEN Append(r[k - 1], since[k]) ELSE r[k - 1]
        /\ r[Len(since)] = LoadEventsForJob(log, id)

LEMMA HistoryUnfolds ==
    ASSUME NEW log, NEW id, Len(LoadSince(log, 0)) \in Nat,
           DOMAIN LoadSince(log, 0) = 1..Len(LoadSince(log, 0))
    PROVE  \E r : HistorySteps(r, log, id)
<1> DEFINE since == LoadSince(log, 0)
           n     == Len(since)
           loop  == CHOOSE f : HistoryLoop(f, id, since, SUBSET (1..n))
           r     == [k \in 0..n |-> loop[1..k]]
<1>1. HistoryLoop(loop, id, since, SUBSET (1..n))
  BY HistoryLoopRuns
<1>2. LoadEventsForJob(log, id) = loop[1..n]
  BY DEF LoadEventsForJob, FoldLeft, MapThenFoldSet, HistoryLoop
<1> HIDE DEF loop
<1>3. r[0] = <<>>
  <2>1. loop[{}] = <<>>
    BY <1>1 DEF HistoryLoop
  <2>2. 1..0 = {}
    OBVIOUS
  <2> QED
    BY <2>1, <2>2
<1>4. ASSUME NEW k \in 1..n
      PROVE  r[k] = IF since[k].id = id THEN Append(r[k - 1], since[k]) ELSE r[k - 1]
  <2>0. k \in Nat /\ 1 <= k /\ k <= n /\ n \in Nat
    OBVIOUS
  <2>1. 1..k \in SUBSET (1..n) /\ 1..k # {} /\ (1..k) \ {k} = 1..(k - 1) /\ k - 1 \in 0..n
    <3> HIDE DEF n
    <3>1. 1..k \in SUBSET (1..n) /\ k \in 1..k /\ k - 1 \in 0..n
      BY <2>0
    <3>2. (1..k) \ {k} = 1..(k - 1)
      BY <2>0
    <3> QED
      BY <3>1, <3>2
  <2>2. Max(1..k) = k
    BY DEF Max
  <2>3. loop[1..k] = IF since[k].id = id THEN Append(loop[(1..k) \ {k}], since[k])
                                         ELSE loop[(1..k) \ {k}]
    BY <1>1, <2>1, <2>2 DEF HistoryLoop
  <2>4. r[k] = loop[1..k] /\ r[k - 1] = loop[1..(k - 1)]
    BY <2>1
  <2> HIDE DEF r, since, n
  <2> QED
    BY <2>1, <2>3, <2>4
<1>5. r[n] = LoadEventsForJob(log, id)
  BY <1>2
<1> HIDE DEF r
<1>6. HistorySteps(r, log, id)
  BY <1>3, <1>4, <1>5 DEF HistorySteps
<1> QED
  BY <1>6

\* What an event does to its job depends on that job alone, and it leaves the
\* other jobs as they are.
LEMMA ApplyLocal ==
    ASSUME NEW s \in SpaceType, NEW t \in SpaceType, NEW e \in Event, s.jobs[e.id] = t.jobs[e.id]
    PROVE  /\ Apply(s, e).jobs[e.id] = Apply(t, e).jobs[e.id]
           /\ \A id \in JobIds \ {e.id} : Apply(s, e).jobs[id] = s.jobs[id]
<1> DEFINE old == s.jobs[e.id]
           Alike(a, b) == /\ a.jobs[e.id] = b.jobs[e.id]
                          /\ \A id \in JobIds \ {e.id} : a.jobs[id] = s.jobs[id]
<1> SUFFICES Alike(Apply(s, e), Apply(t, e))
  OBVIOUS
<1>1. /\ e.id \in JobIds
      /\ e.op \in {"enqueue", "claim", "complete", "fail", "cancel", "expire", "purge", "retry"}
  BY DEF Event
<1>2. \A new, p, q : Alike(Put(s, e.id, new, p), Put(t, e.id, new, q))
  BY <1>1 DEF Put, SpaceType
<1>3. Alike(s, t)
  BY <1>1
<1>4. s.jobs[e.id] = old /\ t.jobs[e.id] = old
  OBVIOUS
<1> HIDE DEF Alike, old
<1>5. CASE e.op = "enqueue"
  <2> DEFINE job == NewJob(e.job_type, e.max_retries, e.ts)
  <2>1. /\ Apply(s, e) = Put(s, e.id, job, s.pending \cup {PendingKey(e.id, job)})
        /\ Apply(t, e) = Put(t, e.id, job, t.pending \cup {PendingKey(e.id, job)})
    BY <1>5 DEF Apply, EnqueueWithId
  <2> HIDE DEF job
  <2> QED
    BY <1>2, <2>1
<1>6. CASE e.op = "claim"
  <2> DEFINE job == Claimed(old, e.lease, e.until, e.worker, e.ts)
             key == PendingKey(e.id, old)
  <2>1. /\ Apply(s, e) = IF old = NoJob THEN s ELSE Put(s, e.id, job, s.pending \ {key})
        /\ Apply(t, e) = IF old = NoJob THEN t ELSE Put(t, e.id, job, t.pending \ {key})
    BY <1>4, <1>6 DEF Apply, ApplyClaim
  <2> HIDE DEF job, key
  <2> QED
    BY <1>2, <1>3, <2>1
<1>7. CASE e.op = "complete"
  <2> DEFINE held == old # NoJob /\ old.status = "claimed" /\ old.lease_id = e.lease
             job  == [old EXCEPT !.status = "done", !.result = e.lease, !.finished_at = e.ts,
                                 !.lease_until = Nil, !.lease_id = Nil]
  <2>1. /\ Apply(s, e) = IF ~held THEN s ELSE Put(s, e.id, job, s.pending)
        /\ Apply(t, e) = IF ~held THEN t ELSE Put(t, e.id, job, t.pending)
    BY <1>4, <1>7 DEF Apply, CompleteJob, CheckLease
  <2> HIDE DEF job, held
  <2> QED
    BY <1>2, <1>3, <2>1
<1>8. CASE e.op = "fail"
  <2> DEFINE held    == old # NoJob /\ old.status = "claimed" /\ old.lease_id = e.lease
             retries == NextU8(old.retries)
             counted == [old EXCEPT !.retries = retries]
             again   == retries < counted.max_retries
             failed  == [counted EXCEPT !.status = "failed", !.error = e.lease, !.finished_at = e.ts,
                                        !.lease_until = Nil, !.lease_id = Nil]
             key     == PendingKey(e.id, counted)
  <2>1. \A a \in {s, t} : Apply(a, e) = FailJob(a, e.id, e.lease, e.lease, e.ts)
    BY <1>8 DEF Apply
  <2>2. \A a \in {s, t} : CheckLease(a, e.id, e.lease) <=> held
    BY <1>4 DEF CheckLease
  <2>3. \A a \in {s, t} : FailJob(a, e.id, e.lease, e.lease, e.ts) =
            IF ~held THEN a
            ELSE IF again THEN Put(a, e.id, Requeued(counted), a.pending \cup {key})
                          ELSE Put(a, e.id, failed, a.pending)
    <3> HIDE DEF held
    <3> QED
      BY <1>4, <2>2 DEF FailJob
  <2> HIDE DEF held, again, failed, key, counted, retries
  <2>4. CASE ~held
    BY <1>3, <2>1, <2>3, <2>4
  <2>5. CASE held /\ again
    BY <1>2, <2>1, <2>3, <2>5
  <2>6. CASE held /\ ~again
    BY <1>2, <2>1, <2>3, <2>6
  <2> QED
    BY <2>4, <2>5, <2>6
<1>9. CASE e.op \in {"cancel", "retry"}
  <2> DEFINE status == IF e.op = "cancel" THEN "pending" ELSE "failed"
             job    == IF e.op = "cancel"
                       THEN [old EXCEPT !.status = "cancelled", !.finished_at = e.ts]
                       ELSE [old EXCEPT !.status = "pending", !.error = Nil, !.retries = 0,
                                        !.finished_at = Nil]
             there  == old # NoJob /\ old.status = status
  <2>1. \A a \in {s, t} : e.id \in List(a, status) <=> there
    BY <1>1, <1>4 DEF List, Live
  <2>2. \A a \in {s, t} : \/ ~there /\ Apply(a, e) = a
                          \/ there /\ \E p : Apply(a, e) = Put(a, e.id, job, p)
    BY <1>4, <1>9, <2>1 DEF Apply, CancelJob, RetryJob
  <2> HIDE DEF job, there
  <2> QED
    BY <1>2, <1>3, <2>2
<1>10. CASE e.op = "expire"
  <2> DEFINE there == old # NoJob /\ old.status = "claimed"
  <2>1. \A a \in {s, t} : e.id \in List(a, "claimed") <=> there
    BY <1>1, <1>4 DEF List, Live
  <2>2. \A a \in {s, t} : \A x \in JobIds :
            Apply(a, e).jobs[x] = IF x = e.id /\ there THEN Requeued(a.jobs[x]) ELSE a.jobs[x]
    BY <1>10, <2>1 DEF Apply, ApplyExpire, Release
  <2> HIDE DEF there
  <2> QED
    BY <1>1, <1>4, <2>2 DEF Alike
<1>11. CASE e.op = "purge"
  <2>1. \A a \in {s, t} : \/ old = NoJob /\ Apply(a, e) = a
                          \/ old # NoJob /\ \E p : Apply(a, e) = Put(a, e.id, NoJob, p)
    BY <1>1, <1>4, <1>11 DEF Apply, RemoveJob, Live
  <2> QED
    BY <1>2, <1>3, <2>1
<1> QED
  BY <1>1, <1>5, <1>6, <1>7, <1>8, <1>9, <1>10, <1>11

\* What an event may make of its job: it takes one step of its life.
Becomes(e, old, new) ==
    \/ e.op = "enqueue" /\ new \in Job /\ new.status = "pending" /\ new.lease_id = Nil
    \/ e.op = "purge" /\ new = NoJob
    \/ e.op = "claim" /\ old = NoJob /\ new = old
    \/ e.op \notin {"enqueue", "purge", "claim"} /\ new = old
    \/ /\ old \in Job
       /\ new \in Job
       /\ \/ e.op = "claim" /\ new.status = "claimed" /\ new.lease_id = e.lease
          \/ /\ old.status = "claimed"
             /\ new.lease_id = Nil
             /\ \/ e.op = "complete" /\ new.status = "done"
                \/ e.op = "fail" /\ new.status \in {"failed", "pending"}
                \/ e.op = "expire" /\ new.status = "pending"
          \/ /\ new.lease_id = old.lease_id
             /\ \/ e.op = "cancel" /\ old.status = "pending" /\ new.status = "cancelled"
                \/ e.op = "retry" /\ old.status = "failed" /\ new.status = "pending"

LEMMA ApplyBecomes ==
    ASSUME NEW s \in SpaceType, NEW e \in Event
    PROVE  Becomes(e, s.jobs[e.id], Apply(s, e).jobs[e.id])
<1> DEFINE old == s.jobs[e.id]
           new == Apply(s, e).jobs[e.id]
<1> SUFFICES Becomes(e, old, new)
  OBVIOUS
<1>1. /\ e.id \in JobIds /\ e.ts \in Int
      /\ e.op \in {"enqueue", "claim", "complete", "fail", "cancel", "expire", "purge", "retry"}
  BY DEF Event
<1>2. \A job, pending : Put(s, e.id, job, pending).jobs[e.id] = job
  BY <1>1 DEF Put, SpaceType
<1>3. old # NoJob => old \in Job
  BY <1>1 DEF SpaceType
<1>4. CASE e.op = "enqueue"
  <2> DEFINE job == NewJob(e.job_type, e.max_retries, e.ts)
  <2>1. e.job_type \in JobTypes /\ e.max_retries \in 0..MaxU8
    BY <1>4 DEF Event
  <2>2. job \in Job /\ job.status = "pending" /\ job.lease_id = Nil
    BY <1>1, <2>1, U8Assumption DEF NewJob, Job, Statuses
  <2>3. Apply(s, e) = Put(s, e.id, job, s.pending \cup {PendingKey(e.id, job)})
    BY <1>4 DEF Apply, EnqueueWithId
  <2>4. new = job
    <3> HIDE DEF job
    <3> QED
      BY <1>2, <2>3
  <2> HIDE DEF job, old, new
  <2> QED
    BY <1>4, <2>2, <2>4 DEF Becomes
<1>5. CASE e.op = "claim"
  <2> DEFINE job == Claimed(old, e.lease, e.until, e.worker, e.ts)
  <2>1. e.lease \in LeaseIds /\ e.until \in Int /\ e.worker \in Workers \cup {Nil}
    BY <1>5 DEF Event
  <2>2. old # NoJob => job \in Job /\ job.status = "claimed" /\ job.lease_id = e.lease
    <3> HIDE DEF old
    <3> QED
      BY <1>1, <1>3, <2>1, ClaimedLeased DEF Claimed, Job
  <2>3. \/ old = NoJob /\ Apply(s, e) = s
        \/ old # NoJob /\ Apply(s, e) = Put(s, e.id, job, s.pending \ {PendingKey(e.id, old)})
    BY <1>5 DEF Apply, ApplyClaim
  <2>4. \/ old = NoJob /\ new = old
        \/ old # NoJob /\ new = job
    <3> HIDE DEF job
    <3> QED
      BY <1>2, <2>3
  <2> HIDE DEF job, old, new
  <2> QED
    BY <1>3, <1>5, <2>2, <2>4 DEF Becomes
<1>6. CASE e.op = "complete"
  <2> DEFINE job == [old EXCEPT !.status = "done", !.result = e.lease, !.finished_at = e.ts,
                                !.lease_until = Nil, !.lease_id = Nil]
  <2>1. e.lease \in LeaseIds
    BY <1>6 DEF Event
  <2>2. old # NoJob => job \in Job /\ job.status = "done" /\ job.lease_id = Nil
    <3> HIDE DEF old
    <3> QED
      BY <1>1, <1>3, <2>1 DEF Job, Statuses, Payloads
  <2>3. \/ Apply(s, e) = s
        \/ old # NoJob /\ old.status = "claimed" /\ Apply(s, e) = Put(s, e.id, job, s.pending)
    BY <1>6 DEF Apply, CompleteJob, CheckLease
  <2>4. new = old \/ (old # NoJob /\ old.status = "claimed" /\ new = job)
    <3> HIDE DEF job
    <3> QED
      BY <1>2, <2>3
  <2> HIDE DEF job, old, new
  <2> QED
    BY <1>3, <1>6, <2>2, <2>4 DEF Becomes
<1>7. CASE e.op = "fail"
  <2> DEFINE counted == [old EXCEPT !.retries = NextU8(old.retries)]
             failed  == [counted EXCEPT !.status = "failed", !.error = e.lease, !.finished_at = e.ts,
                                        !.lease_until = Nil, !.lease_id = Nil]
  <2>1. e.lease \in LeaseIds
    BY <1>7 DEF Event
  <2>2. old # NoJob => counted \in Job
    <3> HIDE DEF old
    <3> QED
      BY <1>3, U8Assumption DEF Job, NextU8
  <2>3. \/ Apply(s, e) = s
        \/ /\ old # NoJob /\ old.status = "claimed"
           /\ \E pending : \/ Apply(s, e) = Put(s, e.id, Requeued(counted), pending)
                           \/ Apply(s, e) = Put(s, e.id, failed, pending)
    BY <1>7 DEF Apply, FailJob, CheckLease
  <2> HIDE DEF counted
  <2>4. old # NoJob => /\ Requeued(counted) \in Job
                       /\ Requeued(counted).status = "pending" /\ Requeued(counted).lease_id = Nil
    BY <2>2 DEF Requeued, Job, Statuses
  <2>5. old # NoJob => failed \in Job /\ failed.status = "failed" /\ failed.lease_id = Nil
    BY <1>1, <2>1, <2>2 DEF Job, Statuses, Payloads
  <2>6. new = old \/ (old # NoJob /\ old.status = "claimed" /\ new \in {Requeued(counted), failed})
    <3> HIDE DEF failed
    <3> QED
      BY <1>2, <2>3
  <2> HIDE DEF failed, old, new
  <2> QED
    BY <1>3, <1>7, <2>4, <2>5, <2>6 DEF Becomes
<1>8. CASE e.op \in {"cancel", "retry"}
  <2> DEFINE cancelled == [old EXCEPT !.status = "cancelled", !.finished_at = e.ts]
             revived   == [old EXCEPT !.status = "pending", !.error = Nil, !.retries = 0,
                                      !.finished_at = Nil]
  <2>1. old # NoJob => /\ cancelled \in Job /\ cancelled.status = "cancelled"
                       /\ cancelled.lease_id = old.lease_id
    <3> HIDE DEF old
    <3> QED
      BY <1>1, <1>3 DEF Job, Statuses
  <2>2. old # NoJob => revived \in Job /\ revived.status = "pending" /\ revived.lease_id = old.lease_id
    <3> HIDE DEF old
    <3>1. 0 \in 0..MaxU8
      BY U8Assumption
    <3> QED
      BY <1>3, <3>1 DEF Job, Statuses
  <2>3. \/ Apply(s, e) = s
        \/ /\ e.op = "cancel" /\ old # NoJob /\ old.status = "pending"
           /\ \E pending : Apply(s, e) = Put(s, e.id, cancelled, pending)
        \/ /\ e.op = "retry" /\ old # NoJob /\ old.status = "failed"
           /\ \E pending : Apply(s, e) = Put(s, e.id, revived, pending)
    BY <1>8 DEF Apply, CancelJob, RetryJob, List, Live
  <2>4. \/ new = old
        \/ e.op = "cancel" /\ old # NoJob /\ old.status = "pending" /\ new = cancelled
        \/ e.op = "retry" /\ old # NoJob /\ old.status = "failed" /\ new = revived
    <3> HIDE DEF cancelled, revived
    <3> QED
      BY <1>2, <2>3
  <2> HIDE DEF cancelled, revived, old, new
  <2> QED
    BY <1>3, <1>8, <2>1, <2>2, <2>4 DEF Becomes
<1>9. CASE e.op = "expire"
  <2>1. old # NoJob => /\ Requeued(old) \in Job
                       /\ Requeued(old).status = "pending" /\ Requeued(old).lease_id = Nil
    <3> HIDE DEF old
    <3> QED
      BY <1>3 DEF Requeued, Job, Statuses
  <2>2. new = old \/ (old # NoJob /\ old.status = "claimed" /\ new = Requeued(old))
    BY <1>1, <1>9 DEF Apply, ApplyExpire, Release, List, Live
  <2> HIDE DEF old, new
  <2> QED
    BY <1>3, <1>9, <2>1, <2>2 DEF Becomes
<1>10. CASE e.op = "purge"
  <2>1. \/ old = NoJob /\ Apply(s, e) = s
        \/ \E pending : Apply(s, e) = Put(s, e.id, NoJob, pending)
    BY <1>1, <1>10 DEF Apply, RemoveJob, Live
  <2>2. new = NoJob
    BY <1>2, <2>1
  <2> HIDE DEF old, new
  <2> QED
    BY <1>10, <2>2 DEF Becomes
<1> QED
  BY <1>1, <1>4, <1>5, <1>6, <1>7, <1>8, <1>9, <1>10

\* Where a job stands in its life, and the lease that is good for it; `known`
\* says of an id without a job that it had one.
Stands(job, known) == IF job # NoJob THEN job.status ELSE IF known THEN "removed" ELSE "unborn"

GoodFor(job) == IF job # NoJob THEN job.lease_id ELSE Nil

\* The steps of a job's life, by the event that makes them.
TakesStep(e, from, to, had, has) ==
    IF e.op = "claim" THEN from = "pending" /\ to = "claimed" /\ has = e.lease
    ELSE \/ from = to /\ has = had
         \/ from = "unborn" /\ to = "pending" /\ has = had
         \/ from = "pending" /\ to = "cancelled" /\ has = had
         \/ from = "failed" /\ to = "pending" /\ has = had
         \/ from = "claimed" /\ to \in {"done", "failed", "pending"} /\ has = Nil
         \/ from \notin {"unborn", "removed"} /\ to = "removed" /\ has = Nil

\* An event that is no second birth and claims a job that waits is one of them.
LEMMA EventSteps ==
    ASSUME NEW e \in Event, NEW old \in Job \cup {NoJob}, NEW new, Becomes(e, old, new),
           NEW known \in BOOLEAN, old # NoJob => known, e.op = "enqueue" => ~known,
           e.op = "claim" => old # NoJob /\ old.status = "pending"
    PROVE  TakesStep(e, Stands(old, known), Stands(new, known), GoodFor(old), GoodFor(new))
<1> HIDE DEF Event
<1>1. old # NoJob => old \in Job /\ old.status \notin {"unborn", "removed"}
  BY DEF Job, Statuses
<1>2. CASE e.op = "enqueue"
  <2>1. old = NoJob /\ new # NoJob /\ new.status = "pending" /\ new.lease_id = Nil
    BY <1>2, NoJobAssumption DEF Becomes
  <2> QED
    BY <1>2, <2>1 DEF TakesStep, Stands, GoodFor
<1>3. CASE e.op = "purge"
  <2>1. new = NoJob
    BY <1>3 DEF Becomes
  <2> QED
    BY <1>1, <1>3, <2>1 DEF TakesStep, Stands, GoodFor
<1>4. CASE e.op = "claim"
  <2>1. old # NoJob /\ new # NoJob /\ new.status = "claimed" /\ new.lease_id = e.lease
    BY <1>4, NoJobAssumption DEF Becomes
  <2> QED
    BY <1>4, <2>1 DEF TakesStep, Stands, GoodFor
<1>5. CASE e.op \notin {"enqueue", "purge", "claim"}
  <2>1. CASE new = old
    BY <1>5, <2>1 DEF TakesStep
  <2>2. CASE new # old
    <3>1. /\ old # NoJob /\ new # NoJob
          /\ \/ /\ old.status = "claimed" /\ new.lease_id = Nil
                /\ new.status \in {"done", "failed", "pending"}
             \/ /\ new.lease_id = old.lease_id
                /\ \/ old.status = "pending" /\ new.status = "cancelled"
                   \/ old.status = "failed" /\ new.status = "pending"
      BY <1>5, <2>2, NoJobAssumption DEF Becomes
    <3> QED
      BY <1>5, <3>1 DEF TakesStep, Stands, GoodFor
  <2> QED
    BY <2>1, <2>2
<1> QED
  BY <1>2, <1>3, <1>4, <1>5

\* As long as nothing was compacted away, a job is what its own events make of
\* it: the events of the others may as well be left out.
LEMMA HistoryOfOne ==
    ASSUME JsonTimes, NEW l, NEW owner, LogGood(l, owner), l.deleted = 0, l.snapshots = <<>>,
           NEW id \in JobIds
    PROVE  Replay(Empty.jobs, LoadEventsForJob(l, id)).jobs[id] = Load(l).jobs[id]
<1> DEFINE since == LoadSince(l, 0)
           n     == Len(since)
<1>1. LogTyped(l)
  BY DEF LogGood
<1>2. LatestSnapshot(l) = NoSnapshot /\ NoSnapshot.seq = 0 /\ NoSnapshot.jobs = Empty.jobs
  BY DEF LatestSnapshot, NoSnapshot
<1>3. /\ Load(l) = Replay(Empty.jobs, since)
      /\ n \in Nat /\ DOMAIN since = 1..n
      /\ \A k \in 1..n : since[k] \in ToSet(l.events) /\ since[k] \in Event
  <2> HIDE DEF Event
  <2> QED
    BY <1>1, <1>2, Loaded
<1>4. PICK f : ReplaySteps(f, Empty.jobs, since)
  BY <1>3, ReplayUnfolds
<1>5. PICK r : HistorySteps(r, l, id)
  BY <1>3, HistoryUnfolds
<1> HIDE DEF since, n, Event
<1>6. f[0] \in Good(owner) /\ f[0] = Restored(Empty.jobs)
  BY <1>4, EmptyGood, RestoredGood DEF ReplaySteps, Good
<1>7. Replay(Empty.jobs, <<>>) = Restored(Empty.jobs)
  BY NothingReplayed
<1> DEFINE Told(k) == /\ r[k] \in Seq(Event)
                      /\ f[k] \in Good(owner)
                      /\ Replay(Empty.jobs, r[k]) \in Good(owner)
                      /\ Replay(Empty.jobs, r[k]).jobs[id] = f[k].jobs[id]
           S == {k \in 0..n : Told(k)}
<1>8. 0 \in S
  <2>1. r[0] = <<>> /\ r[0] \in Seq(Event)
    BY <1>5 DEF HistorySteps
  <2>2. Replay(Empty.jobs, r[0]) = f[0]
    BY <1>6, <1>7, <2>1
  <2>3. Replay(Empty.jobs, r[0]) \in Good(owner)
    BY <1>6, <2>2
  <2>4. Replay(Empty.jobs, r[0]).jobs[id] = f[0].jobs[id]
    BY <2>2
  <2>5. 0 \in 0..n
    BY <1>3
  <2> QED
    BY <1>6, <2>1, <2>3, <2>4, <2>5
<1>9. ASSUME NEW k \in Nat, k < n, k \in S
      PROVE  k + 1 \in S
  <2> DEFINE e == ReadEvent(since[k + 1])
             g == Replay(Empty.jobs, r[k])
  <2>1. k + 1 \in 1..n /\ (k + 1) - 1 = k
    BY <1>3, <1>9
  <2>2. /\ e \in Event /\ e.id = since[k + 1].id
        /\ e.op = "claim" => owner[e.lease] = e.id
    BY <1>3, <2>1, ReadEventType DEF LogGood
  <2>3. f[k + 1] = Apply(f[k], e)
    BY <1>4, <2>1 DEF ReplaySteps, n
  <2>4. r[k + 1] = IF since[k + 1].id = id THEN Append(r[k], since[k + 1]) ELSE r[k]
    BY <1>5, <2>1 DEF HistorySteps, since, n
  <2>5. since[k + 1] \in Event
    BY <1>3, <2>1
  <2>6. f[k] \in SpaceType /\ g \in SpaceType /\ g.jobs[id] = f[k].jobs[id] /\ r[k] \in Seq(Event)
        /\ f[k] \in Good(owner) /\ g \in Good(owner)
    BY <1>9 DEF Good
  <2>7. Replay(Empty.jobs, Append(r[k], since[k + 1])) = Apply(g, e)
    BY <2>5, <2>6, ReplayAppends
  <2> HIDE DEF e, g
  <2>8. f[k + 1] \in Good(owner) /\ Apply(g, e) \in Good(owner)
    BY <2>2, <2>3, <2>6, ApplyGood
  <2>9. CASE since[k + 1].id = id
    <3>1. Apply(f[k], e).jobs[id] = Apply(g, e).jobs[id]
      BY <2>2, <2>6, <2>9, ApplyLocal
    <3>2. r[k + 1] \in Seq(Event) /\ Replay(Empty.jobs, r[k + 1]) = Apply(g, e)
      BY <2>4, <2>5, <2>6, <2>7, <2>9
    <3> QED
      BY <2>1, <2>3, <2>8, <3>1, <3>2
  <2>10. CASE since[k + 1].id # id
    <3>1. Apply(f[k], e).jobs[id] = f[k].jobs[id]
      BY <2>2, <2>6, <2>10, ApplyLocal
    <3>2. r[k + 1] = r[k]
      BY <2>4, <2>10
    <3> QED
      BY <2>1, <2>3, <2>6, <2>8, <3>1, <3>2 DEF g
  <2> QED
    BY <2>9, <2>10
<1>10. 0..n \subseteq S
  <2> HIDE DEF S
  <2> QED
    BY <1>3, <1>8, <1>9, UpTo
<1>11. Told(n)
  BY <1>3, <1>10
<1>12. r[n] = LoadEventsForJob(l, id) /\ f[n] = Load(l)
  BY <1>3, <1>4, <1>5 DEF ReplaySteps, HistorySteps, since, n
<1> QED
  BY <1>11, <1>12
=============================================================================
