---------------------------- MODULE SerialProofs ----------------------------
(***************************************************************************)
(* What holds of a server whose calls do not overlap: that a restart       *)
(* brings back what memory had, but for what JSON makes of the columns of  *)
(* a snapshot, that compaction forgets no more than that, and what follows *)
(* from both.                                                              *)
(*                                                                         *)
(* The space in memory and the one that the file would give differ only by *)
(* JSON and by the call under way, and the invariant says how, for each of *)
(* its pieces.                                                             *)
(***************************************************************************)
EXTENDS PersistentSpaceProofs

-----------------------------------------------------------------------------
(* Heartbeats are not logged, so what a file gives has other deadlines; a  *)
(* snapshot goes through JSON, so its times may be off and a result of     *)
(* null gone.  No event asks for any of these: what two spaces that are    *)
(* the same but for them become by an event is the same but for them       *)
(* again.                                                                  *)

\* Job by job, a is what is left of b.
Same(a, b) == \A id \in JobIds : SameJob(a.jobs[id], b.jobs[id])

\* SameJob, column by column.
SameFields(a, b) ==
    /\ a.job_type = b.job_type
    /\ a.status = b.status
    /\ a.retries = b.retries
    /\ a.max_retries = b.max_retries
    /\ a.error = b.error
    /\ a.lease_id = b.lease_id
    /\ a.worker_id = b.worker_id
    /\ a.enqueued_at \in {b.enqueued_at, JsonTime(b.enqueued_at)}
    /\ a.started_at \in {b.started_at, JsonOption(b.started_at)}
    /\ a.finished_at \in {b.finished_at, JsonOption(b.finished_at)}
    /\ a.result \in {b.result, ReadResult(b.result)}

\* The columns of a job that is read.
LEMMA ReadColumns ==
    ASSUME NEW job \in Job
    PROVE  /\ DOMAIN job = {"job_type", "status", "retries", "max_retries", "enqueued_at",
                            "started_at", "finished_at", "result", "error", "lease_until",
                            "lease_id", "worker_id"}
           /\ ReadJob(job).job_type = job.job_type
           /\ ReadJob(job).status = job.status
           /\ ReadJob(job).retries = job.retries
           /\ ReadJob(job).max_retries = job.max_retries
           /\ ReadJob(job).error = job.error
           /\ ReadJob(job).lease_id = job.lease_id
           /\ ReadJob(job).worker_id = job.worker_id
           /\ ReadJob(job).enqueued_at = JsonTime(job.enqueued_at)
           /\ ReadJob(job).started_at = JsonOption(job.started_at)
           /\ ReadJob(job).finished_at = JsonOption(job.finished_at)
           /\ ReadJob(job).lease_until = JsonOption(job.lease_until)
           /\ ReadJob(job).result = ReadResult(job.result)
BY DEF ReadJob, Job

LEMMA SameColumns ==
    ASSUME NEW a \in Job, NEW b \in Job
    PROVE  SameJob(a, b) <=> SameFields(a, b)
<1>1. NoJob \notin {a, b}
  BY NoJobAssumption
<1>2. SameFields(a, b) =>
          \A column \in DOMAIN b \ {"lease_until"} : a[column] \in {b[column], ReadJob(b)[column]}
  BY ReadColumns DEF SameFields
<1>3. (\A column \in DOMAIN b \ {"lease_until"} : a[column] \in {b[column], ReadJob(b)[column]})
          => SameFields(a, b)
  <2> SUFFICES ASSUME \A column \in DOMAIN b \ {"lease_until"} :
                          a[column] \in {b[column], ReadJob(b)[column]}
               PROVE  SameFields(a, b)
    OBVIOUS
  <2>1. /\ a.job_type \in {b.job_type, ReadJob(b).job_type}
        /\ a.status \in {b.status, ReadJob(b).status}
        /\ a.retries \in {b.retries, ReadJob(b).retries}
        /\ a.max_retries \in {b.max_retries, ReadJob(b).max_retries}
        /\ a.error \in {b.error, ReadJob(b).error}
        /\ a.lease_id \in {b.lease_id, ReadJob(b).lease_id}
        /\ a.worker_id \in {b.worker_id, ReadJob(b).worker_id}
        /\ a.enqueued_at \in {b.enqueued_at, ReadJob(b).enqueued_at}
        /\ a.started_at \in {b.started_at, ReadJob(b).started_at}
        /\ a.finished_at \in {b.finished_at, ReadJob(b).finished_at}
        /\ a.result \in {b.result, ReadJob(b).result}
    BY ReadColumns
  <2> QED
    BY <2>1, ReadColumns DEF SameFields
<1>4. SameFields(b, b)
  BY DEF SameFields
<1> QED
  BY <1>1, <1>2, <1>3, <1>4 DEF SameJob

\* One job of two spaces that are the same.
LEMMA SameJobs ==
    ASSUME NEW a \in SpaceType, NEW b \in SpaceType, Same(a, b), NEW id \in JobIds
    PROVE  /\ a.jobs[id] = NoJob <=> b.jobs[id] = NoJob
           /\ a.jobs[id] # NoJob => /\ a.jobs[id] \in Job
                                    /\ b.jobs[id] \in Job
                                    /\ SameFields(a.jobs[id], b.jobs[id])
           /\ \A status : id \in List(a, status) <=> id \in List(b, status)
           /\ id \in Live(a) <=> id \in Live(b)
<1>1. a.jobs[id] \in Job \cup {NoJob} /\ b.jobs[id] \in Job \cup {NoJob}
  BY DEF SpaceType
<1>2. SameJob(a.jobs[id], b.jobs[id])
  BY DEF Same
<1>3. a.jobs[id] = NoJob <=> b.jobs[id] = NoJob
  BY <1>2 DEF SameJob
<1>4. a.jobs[id] # NoJob => /\ a.jobs[id] \in Job
                            /\ b.jobs[id] \in Job
                            /\ SameFields(a.jobs[id], b.jobs[id])
  BY <1>1, <1>2, <1>3, SameColumns
<1> QED
  BY <1>3, <1>4 DEF SameFields, List, Live

LEMMA SameItself ==
    ASSUME NEW a
    PROVE  Same(a, a)
BY DEF Same, SameJob

\* The same write of the same job.
LEMMA PutSame ==
    ASSUME NEW a \in SpaceType, NEW b \in SpaceType, Same(a, b), NEW id \in JobIds,
           NEW job, NEW other, SameJob(job, other), NEW pending, NEW keys
    PROVE  Same(Put(a, id, job, pending), Put(b, id, other, keys))
BY DEF Same, Put, SpaceType

LEMMA EnqueueSame ==
    ASSUME NEW a \in SpaceType, NEW b \in SpaceType, Same(a, b), NEW id \in JobIds,
           NEW type, NEW max_retries, NEW now
    PROVE  Same(EnqueueWithId(a, id, type, max_retries, now), EnqueueWithId(b, id, type, max_retries, now))
<1>1. \A job : SameJob(job, job)
  BY DEF SameJob
<1> QED
  BY <1>1, PutSame DEF EnqueueWithId

LEMMA ClaimSame ==
    ASSUME NEW a \in SpaceType, NEW b \in SpaceType, Same(a, b), NEW id \in JobIds,
           NEW lease \in LeaseIds, NEW read \in Int, NEW until \in Int,
           NEW worker \in Workers \cup {Nil}, NEW now \in Int
    PROVE  Same(ApplyClaim(a, id, lease, read, worker, now), ApplyClaim(b, id, lease, until, worker, now))
<1>1. CASE a.jobs[id] = NoJob
  BY <1>1, SameJobs DEF ApplyClaim
<1>2. CASE a.jobs[id] # NoJob
  <2> DEFINE old   == a.jobs[id]
             older == b.jobs[id]
  <2>1. old \in Job /\ older \in Job /\ SameFields(old, older) /\ b.jobs[id] # NoJob
    BY <1>2, SameJobs
  <2> HIDE DEF old, older
  <2>2. SameJob(Claimed(old, lease, read, worker, now), Claimed(older, lease, until, worker, now))
    <3>1. /\ Claimed(old, lease, read, worker, now) \in Job
          /\ Claimed(older, lease, until, worker, now) \in Job
      BY <2>1, ClaimedLeased
    <3>2. SameFields(Claimed(old, lease, read, worker, now), Claimed(older, lease, until, worker, now))
      BY <2>1 DEF SameFields, Claimed, Job
    <3> QED
      BY <3>1, <3>2, SameColumns
  <2>3. Same(Put(a, id, Claimed(old, lease, read, worker, now), a.pending \ {PendingKey(id, old)}),
             Put(b, id, Claimed(older, lease, until, worker, now), b.pending \ {PendingKey(id, older)}))
    BY <2>2, PutSame
  <2> QED
    BY <1>2, <2>1, <2>3 DEF ApplyClaim, old, older
<1> QED
  BY <1>1, <1>2

\* What reports, operators and releases write of a job is a job.
LEMMA WrittenType ==
    ASSUME NEW job \in Job
    PROVE  /\ Requeued(job) \in Job
           /\ \A lease \in LeaseIds, now \in Int :
                  [job EXCEPT !.status = "done", !.result = lease, !.finished_at = now,
                              !.lease_until = Nil, !.lease_id = Nil] \in Job
           /\ \A now \in Int : [job EXCEPT !.status = "cancelled", !.finished_at = now] \in Job
<1>1. Requeued(job) \in Job
  BY DEF Requeued, Job, Statuses
<1>2. ASSUME NEW lease \in LeaseIds, NEW now \in Int
      PROVE  [job EXCEPT !.status = "done", !.result = lease, !.finished_at = now,
                         !.lease_until = Nil, !.lease_id = Nil] \in Job
  BY DEF Job, Statuses, Payloads
<1>3. ASSUME NEW now \in Int
      PROVE  [job EXCEPT !.status = "cancelled", !.finished_at = now] \in Job
  BY DEF Job, Statuses
<1> QED
  BY <1>1, <1>2, <1>3

\* A report finds the same lease in both.
LEMMA ReportSame ==
    ASSUME NEW a \in SpaceType, NEW b \in SpaceType, Same(a, b), NEW id \in JobIds,
           NEW lease \in LeaseIds, NEW now \in Int
    PROVE  /\ Same(CompleteJob(a, id, lease, lease, now), CompleteJob(b, id, lease, lease, now))
           /\ Same(FailJob(a, id, lease, lease, now), FailJob(b, id, lease, lease, now))
<1>1. CheckLease(a, id, lease) <=> CheckLease(b, id, lease)
  BY SameJobs DEF CheckLease, SameFields
<1>2. CASE ~CheckLease(a, id, lease)
  BY <1>1, <1>2 DEF CompleteJob, FailJob
<1>3. CASE CheckLease(a, id, lease)
  <2> DEFINE old         == a.jobs[id]
             older       == b.jobs[id]
             done(job)   == [job EXCEPT !.status = "done", !.result = lease, !.finished_at = now,
                                        !.lease_until = Nil, !.lease_id = Nil]
             retries     == NextU8(old.retries)
             failed(job) == [job EXCEPT !.status = "failed", !.error = lease, !.finished_at = now,
                                        !.lease_until = Nil, !.lease_id = Nil]
             counted     == [old EXCEPT !.retries = retries]
             again       == [older EXCEPT !.retries = retries]
  <2>1. old \in Job /\ older \in Job /\ SameFields(old, older)
    BY <1>3, SameJobs DEF CheckLease
  <2>2. older.retries = old.retries /\ retries \in 0..MaxU8
    BY <2>1, U8Assumption DEF SameFields, NextU8, Job
  <2>3. done(old) \in Job /\ done(older) \in Job /\ SameFields(done(old), done(older))
    <3> HIDE DEF old, older
    <3>1. done(old) \in Job /\ done(older) \in Job
      BY <2>1, WrittenType
    <3>2. SameFields(done(old), done(older))
      BY <2>1 DEF SameFields, Job
    <3> QED
      BY <3>1, <3>2
  <2>4. counted \in Job /\ again \in Job /\ SameFields(counted, again)
    BY <2>1, <2>2 DEF SameFields, Job
  <2>5. CompleteJob(a, id, lease, lease, now) = Put(a, id, done(old), a.pending)
        /\ CompleteJob(b, id, lease, lease, now) = Put(b, id, done(older), b.pending)
    BY <1>1, <1>3 DEF CompleteJob
  <2>6. /\ FailJob(a, id, lease, lease, now) =
               IF retries < counted.max_retries
               THEN Put(a, id, Requeued(counted), a.pending \cup {PendingKey(id, counted)})
               ELSE Put(a, id, failed(counted), a.pending)
        /\ FailJob(b, id, lease, lease, now) =
               IF retries < again.max_retries
               THEN Put(b, id, Requeued(again), b.pending \cup {PendingKey(id, again)})
               ELSE Put(b, id, failed(again), b.pending)
    BY <1>1, <1>3, <2>2 DEF FailJob
  <2>7. SameJob(done(old), done(older))
    <3> HIDE DEF done, old, older
    <3> QED
      BY <2>3, SameColumns
  <2> HIDE DEF old, older, counted, again
  <2>8. counted.max_retries = again.max_retries
    BY <2>4 DEF SameFields
  <2>9. SameJob(Requeued(counted), Requeued(again))
    <3>1. Requeued(counted) \in Job /\ Requeued(again) \in Job
      BY <2>4, WrittenType
    <3>2. SameFields(Requeued(counted), Requeued(again))
      BY <2>4 DEF SameFields, Job, Requeued
    <3> QED
      BY <3>1, <3>2, SameColumns
  <2>10. SameJob(failed(counted), failed(again))
    <3>1. failed(counted) \in Job /\ failed(again) \in Job
      BY <2>4 DEF Job, Statuses, Payloads
    <3>2. SameFields(failed(counted), failed(again))
      BY <2>4 DEF SameFields, Job
    <3> HIDE DEF failed
    <3> QED
      BY <3>1, <3>2, SameColumns
  <2> HIDE DEF done, failed, retries
  <2>11. /\ Same(Put(a, id, done(old), a.pending), Put(b, id, done(older), b.pending))
         /\ Same(Put(a, id, Requeued(counted), a.pending \cup {PendingKey(id, counted)}),
                 Put(b, id, Requeued(again), b.pending \cup {PendingKey(id, again)}))
         /\ Same(Put(a, id, failed(counted), a.pending), Put(b, id, failed(again), b.pending))
    BY <2>7, <2>9, <2>10, PutSame
  <2> QED
    BY <2>5, <2>6, <2>8, <2>11
<1> QED
  BY <1>2, <1>3

LEMMA OperatorsSame ==
    ASSUME NEW a \in SpaceType, NEW b \in SpaceType, Same(a, b), NEW id \in JobIds, NEW now \in Int
    PROVE  Same(CancelJob(a, id, now), CancelJob(b, id, now)) /\ Same(RetryJob(a, id), RetryJob(b, id))
<1> DEFINE old            == a.jobs[id]
           older          == b.jobs[id]
           cancelled(job) == [job EXCEPT !.status = "cancelled", !.finished_at = now]
           revived(job)   == [job EXCEPT !.status = "pending", !.error = Nil, !.retries = 0,
                                         !.finished_at = Nil]
<1>1. \A status : id \in List(a, status) <=> id \in List(b, status)
  BY SameJobs
<1>2. ASSUME NEW status, id \in List(a, status)
      PROVE  /\ SameJob(cancelled(old), cancelled(older))
             /\ SameJob(revived(old), revived(older))
  <2>1. old \in Job /\ older \in Job /\ SameFields(old, older)
    BY <1>2, SameJobs DEF List, Live
  <2> HIDE DEF old, older
  <2>2. cancelled(old) \in Job /\ cancelled(older) \in Job /\ SameFields(cancelled(old), cancelled(older))
    <3>1. cancelled(old) \in Job /\ cancelled(older) \in Job
      BY <2>1, WrittenType
    <3>2. SameFields(cancelled(old), cancelled(older))
      BY <2>1 DEF SameFields, Job
    <3> QED
      BY <3>1, <3>2
  <2>3. revived(old) \in Job /\ revived(older) \in Job
    BY <2>1, RevivedType
  <2>4. SameFields(revived(old), revived(older))
    BY <2>1 DEF SameFields, Job
  <2> HIDE DEF cancelled, revived
  <2> QED
    BY <2>2, <2>3, <2>4, SameColumns
<1>3. Same(CancelJob(a, id, now), CancelJob(b, id, now))
  <2>1. CASE id \notin List(a, "pending")
    BY <1>1, <2>1 DEF CancelJob
  <2>2. CASE id \in List(a, "pending")
    <3>1. /\ CancelJob(a, id, now) = Put(a, id, cancelled(old), a.pending \ {PendingKey(id, old)})
          /\ CancelJob(b, id, now) = Put(b, id, cancelled(older), b.pending \ {PendingKey(id, older)})
      BY <1>1, <2>2 DEF CancelJob
    <3> HIDE DEF cancelled, old, older
    <3> QED
      BY <1>2, <2>2, <3>1, PutSame
  <2> QED
    BY <2>1, <2>2
<1>4. Same(RetryJob(a, id), RetryJob(b, id))
  <2>1. CASE id \notin List(a, "failed")
    BY <1>1, <2>1 DEF RetryJob
  <2>2. CASE id \in List(a, "failed")
    <3>1. /\ RetryJob(a, id) = Put(a, id, revived(old), a.pending \cup {PendingKey(id, old)})
          /\ RetryJob(b, id) = Put(b, id, revived(older), b.pending \cup {PendingKey(id, older)})
      BY <1>1, <2>2 DEF RetryJob
    <3> HIDE DEF revived, old, older
    <3> QED
      BY <1>2, <2>2, <3>1, PutSame
  <2> QED
    BY <2>1, <2>2
<1> QED
  BY <1>3, <1>4

LEMMA ReleaseSame ==
    ASSUME NEW a \in SpaceType, NEW b \in SpaceType, Same(a, b), NEW ids \in SUBSET Live(a)
    PROVE  Same(Release(a, ids), Release(b, ids))
<1>1. ASSUME NEW id \in ids
      PROVE  SameJob(Requeued(a.jobs[id]), Requeued(b.jobs[id]))
  <2> DEFINE old   == a.jobs[id]
             older == b.jobs[id]
  <2>1. old \in Job /\ older \in Job /\ SameFields(old, older)
    BY SameJobs DEF Live
  <2> HIDE DEF old, older
  <2>2. Requeued(old) \in Job /\ Requeued(older) \in Job
    BY <2>1, WrittenType
  <2>3. SameFields(Requeued(old), Requeued(older))
    BY <2>1 DEF SameFields, Job, Requeued
  <2>4. SameJob(Requeued(old), Requeued(older))
    BY <2>2, <2>3, SameColumns
  <2> QED
    BY <2>4 DEF old, older
<1>2. \A id \in JobIds : Release(a, ids).jobs[id] = IF id \in ids THEN Requeued(a.jobs[id]) ELSE a.jobs[id]
  BY DEF Release
<1>3. \A id \in JobIds : Release(b, ids).jobs[id] = IF id \in ids THEN Requeued(b.jobs[id]) ELSE b.jobs[id]
  BY DEF Release
<1> QED
  BY <1>1, <1>2, <1>3 DEF Same

LEMMA RemoveSame ==
    ASSUME NEW a \in SpaceType, NEW b \in SpaceType, Same(a, b), NEW id \in JobIds
    PROVE  Same(RemoveJob(a, id), RemoveJob(b, id))
<1>1. CASE id \notin Live(a)
  BY <1>1, SameJobs DEF RemoveJob
<1>2. CASE id \in Live(a)
  <2>1. id \in Live(b) /\ SameJob(NoJob, NoJob)
    BY <1>2, SameJobs DEF SameJob
  <2>2. \E pending, keys : RemoveJob(a, id) = Put(a, id, NoJob, pending)
                           /\ RemoveJob(b, id) = Put(b, id, NoJob, keys)
    BY <1>2, <2>1 DEF RemoveJob
  <2> QED
    BY <2>1, <2>2, PutSame
<1> QED
  BY <1>1, <1>2

\* No event tells two such spaces apart, and a start reads every event.
LEMMA ApplySame ==
    ASSUME JsonTimes, NEW a \in SpaceType, NEW b \in SpaceType, Same(a, b), NEW e \in Event
    PROVE  Same(Apply(a, ReadEvent(e)), Apply(b, e))
<1>1. /\ e.id \in JobIds /\ e.ts \in Int
      /\ e.op \in {"enqueue", "claim", "complete", "fail", "cancel", "expire", "purge", "retry"}
  BY DEF Event
<1>2. e.op # "claim" => ReadEvent(e) = e
  BY DEF ReadEvent
<1>3. CASE e.op = "claim"
  <2>1. e \in [op : {"claim"}, id : JobIds, ts : Int, lease : LeaseIds, until : Int,
               worker : Workers \cup {Nil}]
    BY <1>3 DEF Event
  <2> DEFINE read == JsonTime(e.until)
             r    == ReadEvent(e)
  <2>2. read \in Int /\ e.until \in Int /\ e.lease \in LeaseIds /\ e.worker \in Workers \cup {Nil}
    BY <2>1 DEF JsonTimes
  <2>3. r = [e EXCEPT !.until = read]
    BY <1>3, <2>1 DEF ReadEvent
  <2>4. /\ r.op = "claim" /\ r.id = e.id /\ r.ts = e.ts /\ r.lease = e.lease
        /\ r.until = read /\ r.worker = e.worker
    BY <2>1, <2>3
  <2> HIDE DEF r, read, Event
  <2>5. Apply(a, r) = ApplyClaim(a, e.id, e.lease, read, e.worker, e.ts)
    BY <2>4 DEF Apply
  <2>6. Apply(b, e) = ApplyClaim(b, e.id, e.lease, e.until, e.worker, e.ts)
    BY <1>3 DEF Apply
  <2> QED
    BY <1>1, <2>2, <2>5, <2>6, ClaimSame DEF r
<1>4. CASE e.op = "enqueue"
  BY <1>1, <1>2, <1>4, EnqueueSame DEF Apply
<1>5. CASE e.op \in {"complete", "fail"}
  <2>1. e.lease \in LeaseIds
    BY <1>5 DEF Event
  <2> QED
    BY <1>1, <1>2, <1>5, <2>1, ReportSame DEF Apply
<1>6. CASE e.op \in {"cancel", "retry"}
  BY <1>1, <1>2, <1>6, OperatorsSame DEF Apply
<1>7. CASE e.op = "expire"
  <2>1. {e.id} \cap List(a, "claimed") = {e.id} \cap List(b, "claimed")
    BY <1>1, SameJobs
  <2>2. {e.id} \cap List(a, "claimed") \in SUBSET Live(a)
    BY DEF List
  <2> QED
    BY <1>2, <1>7, <2>1, <2>2, ReleaseSame DEF Apply, ApplyExpire
<1>8. CASE e.op = "purge"
  BY <1>1, <1>2, <1>8, RemoveSame DEF Apply
<1> QED
  BY <1>1, <1>3, <1>4, <1>5, <1>6, <1>7, <1>8

\* A heartbeat changes a deadline.
LEMMA ExtendSame ==
    ASSUME NEW a \in SpaceType, NEW s \in SpaceType, Same(a, s),
           NEW id \in JobIds, NEW lease, NEW until \in Int
    PROVE  Same(a, ExtendLease(s, id, lease, until))
<1>1. CASE ~CheckLease(s, id, lease)
  BY <1>1 DEF ExtendLease
<1>2. CASE CheckLease(s, id, lease)
  <2> DEFINE old == s.jobs[id]
             job == [old EXCEPT !.lease_until = until]
  <2>1. a.jobs[id] \in Job /\ old \in Job /\ SameFields(a.jobs[id], old)
    BY <1>2, SameJobs DEF CheckLease
  <2>2. ExtendLease(s, id, lease, until) = Put(s, id, job, s.pending)
    BY <1>2 DEF ExtendLease
  <2> HIDE DEF old
  <2>3. job \in Job /\ SameFields(a.jobs[id], job)
    BY <2>1 DEF Job, SameFields
  <2>4. SameJob(a.jobs[id], job)
    BY <2>1, <2>3, SameColumns
  <2> HIDE DEF job
  <2>5. \A x \in JobIds : [s.jobs EXCEPT ![id] = job][x] = IF x = id THEN job ELSE s.jobs[x]
    BY DEF SpaceType
  <2> QED
    BY <2>2, <2>4, <2>5 DEF Same, Put
<1> QED
  BY <1>1, <1>2

\* What a snapshot of b gives back is what is left of b, and of all that was
\* the same as b.
LEMMA RestoredSame ==
    ASSUME JsonTimes, NEW a \in SpaceType, NEW b \in SpaceType, Same(a, b)
    PROVE  /\ Restored(b.jobs) \in SpaceType
           /\ Same(Restored(b.jobs), b)
           /\ Same(Restored(b.jobs), a)
<1> DEFINE ids == {id \in JobIds : b.jobs[id] # NoJob}
           r   == RestoredSome(b.jobs, ids)
<1>1. \A id \in JobIds : r.jobs[id] = IF b.jobs[id] # NoJob THEN ReadJob(b.jobs[id]) ELSE NoJob
  BY DEF RestoredSome
<1>2. \A id \in ids : b.jobs[id] \in Job /\ ReadJob(b.jobs[id]) \in Job
  BY ReadLeased DEF SpaceType
<1>3. r \in SpaceType
  <2>1. \A id \in ids : PendingKey(id, ReadJob(b.jobs[id])) \in JobTypes \X Int \X JobIds
    BY <1>2 DEF PendingKey, Job
  <2>2. r.pending \subseteq JobTypes \X Int \X JobIds
    BY <2>1 DEF RestoredSome
  <2>3. r.jobs \in [JobIds -> Job \cup {NoJob}]
    BY <1>2 DEF RestoredSome
  <2>4. r = [jobs |-> r.jobs, pending |-> r.pending]
    BY DEF RestoredSome
  <2> HIDE DEF r
  <2> QED
    BY <2>2, <2>3, <2>4 DEF SpaceType
<1> HIDE DEF r
<1>4. ASSUME NEW id \in JobIds
      PROVE  SameJob(r.jobs[id], b.jobs[id]) /\ SameJob(r.jobs[id], a.jobs[id])
  <2>1. CASE b.jobs[id] = NoJob
    <3>1. r.jobs[id] = NoJob /\ a.jobs[id] = NoJob
      BY <1>1, <2>1, SameJobs
    <3> QED
      BY <2>1, <3>1 DEF SameJob
  <2>2. CASE b.jobs[id] # NoJob
    <3> DEFINE new == a.jobs[id]
               old == b.jobs[id]
               read == r.jobs[id]
    <3>1. new \in Job /\ old \in Job /\ SameFields(new, old) /\ read = ReadJob(old) /\ read \in Job
      BY <1>1, <1>2, <2>2, SameJobs
    <3> HIDE DEF new, old, read
    <3>2. SameFields(read, old)
      BY <3>1, ReadColumns DEF SameFields
    <3>3. SameFields(read, new)
      <4>1. /\ read.enqueued_at = JsonTime(old.enqueued_at)
            /\ read.started_at = JsonOption(old.started_at)
            /\ read.finished_at = JsonOption(old.finished_at)
            /\ read.result = ReadResult(old.result)
        BY <3>1, ReadColumns
      <4> QED
        BY <3>1, <3>2, <4>1 DEF SameFields
    <3>4. SameJob(read, old) /\ SameJob(read, new)
      BY <3>1, <3>2, <3>3, SameColumns
    <3> QED
      BY <3>4 DEF new, old, read
  <2> QED
    BY <2>1, <2>2
<1>5. Same(r, b) /\ Same(r, a)
  BY <1>4 DEF Same
<1> QED
  BY <1>3, <1>5, RestoredJobs DEF r

-----------------------------------------------------------------------------
(* What the steps of the log do to what a start loads.                     *)

\* The latest snapshot covers events that the log has had.
Covered(l) == LatestSnapshot(l).seq \in 0..Len(l.events)

\* A start that finds one event more applies one event more, as it reads it.
LEMMA LoadReads ==
    ASSUME NEW l, NEW m, LogTyped(l), LogTyped(m), Covered(l), NEW event \in Event,
           m.events = Append(l.events, event), m.deleted = l.deleted, m.snapshots = l.snapshots
    PROVE  /\ Load(m) = Apply(Load(l), ReadEvent(event))
           /\ Covered(m)
<1> DEFINE snapshot == LatestSnapshot(l)
           seq   == snapshot.seq
           first == IF seq > l.deleted THEN seq ELSE l.deleted
           n     == Len(l.events)
           since == LoadSince(l, seq)
           more  == LoadSince(m, seq)
<1>1. /\ l.events \in Seq(Event) /\ l.deleted \in 0..n /\ n \in Nat /\ seq \in 0..n
      /\ m.events \in Seq(Event) /\ m.deleted \in Nat
  BY DEF LogTyped, Covered
<1>2. LatestSnapshot(m) = snapshot
  BY DEF LatestSnapshot
<1>3. first \in 0..n /\ first \in Nat /\ seq \in Nat /\ l.deleted \in Nat
  BY <1>1
<1>4. Load(l) = Replay(snapshot.jobs, since) /\ Load(m) = Replay(snapshot.jobs, more)
  BY <1>2 DEF Load
<1> HIDE DEF Event, snapshot
<1>5. /\ Len(m.events) = n + 1
      /\ \A i \in 1..n : m.events[i] = l.events[i]
      /\ m.events[n + 1] = event
  BY <1>1
<1>6. /\ since \in Seq(Event) /\ Len(since) \in Nat /\ DOMAIN since = 1..Len(since)
      /\ Len(since) = IF first < n THEN n - first ELSE 0
      /\ \A k \in 1..Len(since) : first + k \in 1..n /\ since[k] = l.events[first + k]
  BY <1>1, <1>3, SinceEvents
<1>7. /\ more \in Seq(Event) /\ Len(more) \in Nat /\ DOMAIN more = 1..Len(more)
      /\ Len(more) = IF first < n + 1 THEN n + 1 - first ELSE 0
      /\ \A k \in 1..Len(more) : first + k \in 1..(n + 1) /\ more[k] = m.events[first + k]
  <2> DEFINE start == IF seq > m.deleted THEN seq ELSE m.deleted
  <2>1. start = first
    OBVIOUS
  <2>2. /\ more \in Seq(Event) /\ Len(more) \in Nat /\ DOMAIN more = 1..Len(more)
        /\ Len(more) = IF start < Len(m.events) THEN Len(m.events) - start ELSE 0
        /\ \A k \in 1..Len(more) : start + k \in 1..Len(m.events) /\ more[k] = m.events[start + k]
    BY <1>1, <1>3, SinceEvents
  <2>3. Len(m.events) = n + 1
    BY <1>5
  <2> HIDE DEF more, start, first, since, seq, n
  <2>4. /\ Len(more) = IF first < n + 1 THEN n + 1 - first ELSE 0
        /\ \A k \in 1..Len(more) : first + k \in 1..(n + 1) /\ more[k] = m.events[first + k]
    <3>1. first \in Nat /\ n \in Nat
      BY <1>1, <1>3
    <3> DEFINE b == m.events
               len == Len(b)
    <3>2. /\ Len(more) = IF start < len THEN len - start ELSE 0
          /\ \A k \in 1..Len(more) : start + k \in 1..len /\ more[k] = b[start + k]
      BY <2>2
    <3>3. len = n + 1
      BY <2>3
    <3> HIDE DEF len, b
    <3>4. Len(more) = IF first < n + 1 THEN n + 1 - first ELSE 0
      BY <2>1, <3>1, <3>2, <3>3
    <3>5. \A k \in 1..Len(more) : first + k \in 1..(n + 1) /\ more[k] = b[first + k]
      BY <2>1, <3>1, <3>2, <3>3
    <3> QED
      BY <3>4, <3>5 DEF b
  <2> QED
    BY <2>2, <2>4
<1>8. Covered(m)
  BY <1>1, <1>2, <1>5 DEF Covered
<1> HIDE DEF since, more, first, n, seq
<1>9. Len(since) = n - first /\ Len(more) = (n - first) + 1
  BY <1>1, <1>3, <1>6, <1>7
<1>10. more = Append(since, event)
  <2> DEFINE k == n - first
  <2>1. k \in Nat /\ first + (k + 1) = n + 1
    BY <1>1, <1>3
  <2>2. \A i \in 1..k : more[i] = since[i]
    <3>1. \A i \in 1..k : first + i \in 1..n /\ i \in 1..(k + 1)
      BY <1>1, <1>3
    <3> QED
      BY <1>5, <1>6, <1>7, <1>9, <3>1
  <2>3. more[k + 1] = event
    BY <1>5, <1>7, <1>9, <2>1
  <2>4. Len(since) = k /\ Len(more) = k + 1
    BY <1>9
  <2> HIDE DEF k
  <2>5. Append(since, event) \in Seq(Event) /\ Len(Append(since, event)) = k + 1
    BY <1>6, <2>4
  <2>6. \A i \in 1..k : Append(since, event)[i] = since[i]
    BY <1>6, <2>4
  <2>7. Append(since, event)[k + 1] = event
    BY <1>6, <2>4
  <2>8. \A i \in 1..(k + 1) : i \in 1..k \/ i = k + 1
    BY <2>1
  <2>9. \A i \in 1..(k + 1) : more[i] = Append(since, event)[i]
    BY <2>2, <2>3, <2>6, <2>7, <2>8
  <2> QED
    BY <1>7, <2>4, <2>5, <2>9, <2>1, SeqEqual
<1>11. Replay(snapshot.jobs, Append(since, event)) = Apply(Replay(snapshot.jobs, since), ReadEvent(event))
  BY <1>6, ReplayAppends
<1> QED
  BY <1>4, <1>8, <1>10, <1>11

\* A start that finds a snapshot of everything loads the snapshot.
LEMMA LoadSaved ==
    ASSUME NEW l, NEW m, LogTyped(l), LogTyped(m), NEW ts, NEW jobs,
           m.events = l.events, m.deleted = l.deleted,
           m.snapshots = Append(l.snapshots, [seq |-> MaxSeq(l), ts |-> ts, jobs |-> jobs])
    PROVE  /\ Load(m) = Restored(jobs)
           /\ LatestSnapshot(m).seq = MaxSeq(l)
           /\ Covered(m)
<1> DEFINE row == [seq |-> MaxSeq(l), ts |-> ts, jobs |-> jobs]
           n   == Len(l.events)
<1>1. l.events \in Seq(Event) /\ l.deleted \in 0..n /\ n \in Nat /\ l.snapshots \in Seq(Snapshot)
  BY DEF LogTyped
<1>2. MaxSeq(l) \in 0..n
  BY <1>1 DEF MaxSeq
<1>3. row.seq = MaxSeq(l) /\ row.jobs = jobs
  OBVIOUS
<1>4. LatestSnapshot(m) = row
  <2> HIDE DEF Snapshot, row
  <2>1. m.snapshots = Append(l.snapshots, row)
    BY DEF row
  <2>2. m.snapshots # <<>> /\ m.snapshots[Len(m.snapshots)] = row
    BY <1>1, <2>1
  <2> QED
    BY <2>2 DEF LatestSnapshot, Last
<1>5. LoadSince(m, row.seq) = <<>>
  <2> DEFINE first == IF row.seq > m.deleted THEN row.seq ELSE m.deleted
             since == LoadSince(m, row.seq)
  <2>1. ~(first < n)
    BY <1>1, <1>3 DEF MaxSeq
  <2>2. m.events \in Seq(Event) /\ m.deleted \in Nat /\ row.seq \in Nat
    BY <1>1, <1>2, <1>3
  <2> HIDE DEF Event, row
  <2>3. since \in Seq(Event) /\ Len(since) = 0
    BY <2>1, <2>2, SinceEvents
  <2> QED
    BY <2>3
<1>6. Load(m) = Replay(jobs, <<>>)
  <2> HIDE DEF row
  <2> QED
    BY <1>3, <1>4, <1>5 DEF Load
<1>7. Covered(m)
  <2> HIDE DEF row
  <2> QED
    BY <1>2, <1>3, <1>4 DEF Covered
<1> HIDE DEF row
<1> QED
  BY <1>3, <1>4, <1>6, <1>7, NothingReplayed

\* A start does not look at what a truncation deletes.
LEMMA LoadTruncated ==
    ASSUME NEW l, NEW m, LogTyped(l), Covered(l), m.events = l.events,
           m.snapshots = l.snapshots,
           m.deleted = IF LatestSnapshot(l).seq > l.deleted THEN LatestSnapshot(l).seq ELSE l.deleted
    PROVE  Load(m) = Load(l) /\ Covered(m)
<1> DEFINE snapshot == LatestSnapshot(l)
           seq      == snapshot.seq
<1>1. LatestSnapshot(m) = snapshot
  BY DEF LatestSnapshot
<1>2. seq \in Int /\ l.deleted \in Int
  BY DEF LogTyped, Covered
<1>3. (IF seq > m.deleted THEN seq ELSE m.deleted) = IF seq > l.deleted THEN seq ELSE l.deleted
  BY <1>2
<1> HIDE DEF snapshot
<1>4. LoadSince(m, seq) = LoadSince(l, seq)
  <2> HIDE DEF seq
  <2> QED
    BY <1>3 DEF LoadSince
<1> QED
  BY <1>1, <1>4 DEF Load, Covered, snapshot
-----------------------------------------------------------------------------
(* Leases end before the time that a shutdown asks for, so it takes all.   *)

SoonJob(job) == job.lease_until # Nil => job.lease_until < Forever

Soon(s) == \A id \in Live(s) : SoonJob(s.jobs[id])

LEMMA PutSoon ==
    ASSUME NEW s \in SpaceType, Soon(s), NEW id \in JobIds, NEW job, NEW pending,
           job # NoJob => SoonJob(job)
    PROVE  Soon(Put(s, id, job, pending))
BY DEF Soon, Live, Put, SpaceType

LEMMA ApplySoon ==
    ASSUME NEW s \in SpaceType, Soon(s), NEW e \in Event, e.op = "claim" => e.until < Forever
    PROVE  Soon(Apply(s, e))
<1> DEFINE job == s.jobs[e.id]
<1>1. /\ e.id \in JobIds
      /\ e.op \in {"enqueue", "claim", "complete", "fail", "cancel", "expire", "purge", "retry"}
  BY DEF Event
<1>2. job # NoJob => job \in Job /\ SoonJob(job)
  BY <1>1 DEF Soon, Live, SpaceType
<1>3. \A new, pending : (new = NoJob \/ SoonJob(new)) => Soon(Put(s, e.id, new, pending))
  BY <1>1, PutSoon
<1>4. CASE e.op = "enqueue"
  <2>1. SoonJob(NewJob(e.job_type, e.max_retries, e.ts))
    BY DEF SoonJob, NewJob
  <2> QED
    BY <1>3, <1>4, <2>1 DEF Apply, EnqueueWithId
<1>5. CASE e.op = "claim"
  <2>1. job # NoJob => SoonJob(Claimed(job, e.lease, e.until, e.worker, e.ts))
    BY <1>2, <1>5 DEF SoonJob, Claimed, Job
  <2> QED
    BY <1>3, <1>5, <2>1 DEF Apply, ApplyClaim
<1>6. CASE e.op = "complete"
  <2>1. job # NoJob => SoonJob([job EXCEPT !.status = "done", !.result = e.lease, !.finished_at = e.ts,
                                           !.lease_until = Nil, !.lease_id = Nil])
    BY <1>2 DEF SoonJob, Job
  <2> QED
    BY <1>3, <1>6, <2>1 DEF Apply, CompleteJob, CheckLease
<1>7. CASE e.op = "fail"
  <2> DEFINE counted == [job EXCEPT !.retries = NextU8(job.retries)]
             failed  == [counted EXCEPT !.status = "failed", !.error = e.lease, !.finished_at = e.ts,
                                        !.lease_until = Nil, !.lease_id = Nil]
  <2>1. job # NoJob => SoonJob(Requeued(counted)) /\ SoonJob(failed)
    BY <1>2 DEF SoonJob, Requeued, Job
  <2>2. \/ FailJob(s, e.id, e.lease, e.lease, e.ts) = s
        \/ job # NoJob /\ \E pending : \/ FailJob(s, e.id, e.lease, e.lease, e.ts) = Put(s, e.id, Requeued(counted), pending)
                                       \/ FailJob(s, e.id, e.lease, e.lease, e.ts) = Put(s, e.id, failed, pending)
    BY DEF FailJob, CheckLease
  <2> HIDE DEF job, counted, failed
  <2> QED
    BY <1>3, <1>7, <2>1, <2>2 DEF Apply
<1>8. CASE e.op = "cancel"
  <2>1. job # NoJob => SoonJob([job EXCEPT !.status = "cancelled", !.finished_at = e.ts])
    BY <1>2 DEF SoonJob, Job
  <2> QED
    BY <1>3, <1>8, <2>1 DEF Apply, CancelJob, List, Live
<1>9. CASE e.op = "retry"
  <2>1. job # NoJob => SoonJob([job EXCEPT !.status = "pending", !.error = Nil, !.retries = 0, !.finished_at = Nil])
    BY <1>2 DEF SoonJob, Job
  <2> QED
    BY <1>3, <1>9, <2>1 DEF Apply, RetryJob, List, Live
<1>10. CASE e.op = "expire"
  <2> DEFINE ids == {e.id} \cap List(s, "claimed")
             r   == Release(s, ids)
  <2>1. \A x \in JobIds : r.jobs[x] = IF x \in ids THEN Requeued(s.jobs[x]) ELSE s.jobs[x]
    BY DEF Release
  <2>2. \A x \in ids : s.jobs[x] \in Job
    BY DEF List, Live, SpaceType
  <2>3. \A x \in ids : SoonJob(Requeued(s.jobs[x]))
    BY <2>2 DEF SoonJob, Requeued, Job
  <2> HIDE DEF r, ids
  <2>4. Soon(r)
    BY <2>1, <2>3 DEF Soon, Live
  <2> QED
    BY <1>10, <2>4 DEF Apply, ApplyExpire, r, ids
<1>11. CASE e.op = "purge"
  BY <1>3, <1>11 DEF Apply, RemoveJob
<1> QED
  BY <1>1, <1>4, <1>5, <1>6, <1>7, <1>8, <1>9, <1>10, <1>11

-----------------------------------------------------------------------------
(* Releasing leases one by one and all at once.                            *)

LEMMA ReleaseNone ==
    ASSUME NEW s \in SpaceType
    PROVE  Release(s, {}) = s
<1>1. s = [jobs |-> s.jobs, pending |-> s.pending] /\ s.jobs = [id \in JobIds |-> s.jobs[id]]
  BY DEF SpaceType
<1>2. [id \in JobIds |-> IF id \in {} THEN Requeued(s.jobs[id]) ELSE s.jobs[id]] = [id \in JobIds |-> s.jobs[id]]
  OBVIOUS
<1>3. s.pending \cup {PendingKey(id, s.jobs[id]) : id \in {}} = s.pending
  OBVIOUS
<1> QED
  BY <1>1, <1>2, <1>3 DEF Release

LEMMA ReleaseOneMore ==
    ASSUME NEW s \in SpaceType, NEW ids \in SUBSET List(s, "claimed"),
           NEW id \in List(s, "claimed"), id \notin ids
    PROVE  ApplyExpire(Release(s, ids), id) = Release(s, ids \cup {id})
<1> DEFINE r == Release(s, ids)
           q == Release(s, ids \cup {id})
<1>1. id \in JobIds /\ ids \subseteq JobIds /\ s.jobs[id] # NoJob /\ s.jobs[id].status = "claimed"
  BY DEF List, Live
<1>2. /\ \A x \in JobIds : r.jobs[x] = IF x \in ids THEN Requeued(s.jobs[x]) ELSE s.jobs[x]
      /\ r.pending = s.pending \cup {PendingKey(x, s.jobs[x]) : x \in ids}
      /\ q.jobs = [x \in JobIds |-> IF x \in ids \cup {id} THEN Requeued(s.jobs[x]) ELSE s.jobs[x]]
      /\ q.pending = s.pending \cup {PendingKey(x, s.jobs[x]) : x \in ids \cup {id}}
      /\ q = [jobs |-> q.jobs, pending |-> q.pending]
  BY DEF Release
<1> HIDE DEF r, q
<1>3. r.jobs[id] = s.jobs[id] /\ {id} \cap List(r, "claimed") = {id}
  BY <1>1, <1>2 DEF List, Live
<1>4. [x \in JobIds |-> IF x \in {id} THEN Requeued(r.jobs[x]) ELSE r.jobs[x]] = q.jobs
  <2>1. \A x \in JobIds : (IF x \in {id} THEN Requeued(r.jobs[x]) ELSE r.jobs[x])
                          = IF x \in ids \cup {id} THEN Requeued(s.jobs[x]) ELSE s.jobs[x]
    BY <1>2, <1>3
  <2> QED
    BY <1>2, <2>1
<1>5. r.pending \cup {PendingKey(x, r.jobs[x]) : x \in {id}} = q.pending
  BY <1>2, <1>3
<1> QED
  BY <1>2, <1>3, <1>4, <1>5 DEF ApplyExpire, Release, r, q

LEMMA ReleaseAll ==
    ASSUME NEW s \in SpaceType
    PROVE  List(Release(s, List(s, "claimed")), "claimed") = {}
<1>1. \A id \in JobIds : s.jobs[id] # NoJob => s.jobs[id] \in Job
  BY DEF SpaceType
<1>2. \A job \in Job : Requeued(job).status = "pending"
  BY DEF Requeued, Job
<1> QED
  BY <1>1, <1>2 DEF Release, List, Live
-----------------------------------------------------------------------------
(* The invariant.                                                          *)

\* One call at a time, whose writes succeed.  Of JSON: what it reads of a time
\* is a time, and one before f64::MAX if the time was.
JsonSoon == \A time \in Int : time < Forever => JsonTime(time) < Forever

Serial == MaxInFlight <= 1 /\ IoFaults = FALSE /\ JsonTimes /\ JsonSoon

\* What is known of the spaces, the log and the calls however they overlap.
Kept == OwnedInv /\ GrantInv

\* The claimed jobs that the release under way takes back.
Due(t) == Expired(mem, call[t].until)

Ended(id) == id \in Live(mem) /\ mem.jobs[id].status \in Terminal

\* How far the file is from memory, or memory from the file, and what the
\* call has noted, at each point of a call.
Agrees(t) ==
    /\ call[t].pc = "append" =>
           /\ IF call[t].event.op = "claim"
              THEN /\ Same(Apply(recovered, ReadEvent(call[t].event)), mem)
                   /\ call[t].event.until < Forever
              ELSE Same(recovered, mem)
           /\ call[t].event.op = "enqueue" => ~Logged("enqueue", call[t].event.id)
    /\ call[t].pc = "apply" =>
           /\ call[t].event.op # "claim" /\ Same(recovered, Apply(mem, call[t].event))
           /\ call[t].event.op = "enqueue" => call[t].event.id \notin Live(mem)
    /\ call[t].pc = "release" =>
           /\ DOMAIN call[t] = {"pc", "todo", "ts", "until"}
           /\ call[t].todo \subseteq Due(t)
           /\ Same(recovered, Release(mem, Due(t) \ call[t].todo))
           /\ t = Main => Due(t) = List(mem, "claimed")
    /\ call[t].pc \in {"purge", "remove"} => \A id \in call[t].todo : Ended(id)
    /\ call[t].pc = "remove" =>
           /\ Ended(call[t].id) /\ call[t].id \notin call[t].todo
           /\ Same(recovered, RemoveJob(mem, call[t].id))
    /\ call[t].pc \in {"purge", "max_seq", "list", "save", "truncate"} => Same(recovered, mem)
    /\ call[t].pc \in {"list", "save"} => call[t].seq = MaxSeq(log)
    /\ call[t].pc = "save" => call[t].jobs = mem.jobs
    /\ call[t].pc = "truncate" => call[t].seq = LatestSnapshot(log).seq
    /\ t = Main /\ call[t].pc \in {"max_seq", "list", "save", "truncate"} => List(mem, "claimed") = {}

\* A shutdown under way is the only call, and one that is over left no lease.
Closed ==
    /\ mode = "closing" => Main \in InFlight
    /\ mode = "exiting" => InFlight = {} /\ List(mem, "claimed") = {}

\* Every job in the file has its birth there.
Rooted == \A id \in Live(recovered) : Logged("enqueue", id)

FileKept ==
    /\ Covered(log)
    /\ Soon(recovered)
    /\ IndexExact(recovered)
    /\ Rooted

MemKept == Soon(mem) /\ IndexExact(mem)

SerialInv ==
    /\ \A t, u \in InFlight : t = u
    /\ mode # "down" /\ InFlight = {} => Same(recovered, mem)
    /\ \A t \in Threads : Agrees(t)
    /\ FileKept
    /\ MemKept
    /\ Closed

LEMMA SpacesTyped ==
    ASSUME JsonTimes, Kept
    PROVE  /\ mem \in SpaceType
           /\ recovered \in SpaceType
           /\ \A id \in List(mem, "claimed") : mem.jobs[id].lease_until # Nil
<1>1. PICK owner : Owned(owner)
  BY DEF Kept, OwnedInv
<1>2. mem \in Good(owner) /\ recovered \in Good(owner)
  BY <1>1, RecoveredGood DEF Kept, OwnedInv, Owned
<1>3. \A id \in List(mem, "claimed") : mem.jobs[id].lease_until # Nil
  BY <1>2, GoodJob DEF List, LeasedOK
<1> QED
  BY <1>2, <1>3 DEF Good

\* An exact index, as the lemmas on keys have it.
LEMMA OwnKeys ==
    ASSUME NEW s \in SpaceType, IndexExact(s)
    PROVE  \E births : OneBirth(births) /\ Indexed(s, births)
<1> DEFINE births == {PendingKey(id, s.jobs[id]) : id \in Live(s)}
<1>1. BornAs(s.jobs, births)
  BY DEF BornAs, Live
<1>2. OneBirth(births)
  <2> SUFFICES ASSUME NEW a \in Live(s), NEW b \in Live(s),
                      PendingKey(a, s.jobs[a])[3] = PendingKey(b, s.jobs[b])[3]
               PROVE  a = b
    BY DEF OneBirth
  <2> QED
    BY DEF PendingKey
<1> HIDE DEF births
<1> QED
  BY <1>1, <1>2 DEF Indexed

\* A call that begins is alone.
LEMMA BeginsAlone ==
    ASSUME Serial, SerialInv, NEW t \in Threads, CanBegin(t)
    PROVE  InFlight = {} /\ mode \in {"serving", "closing"} /\ Same(recovered, mem) /\ mode = "serving"
<1>1. InFlight = {}
  <2>1. SUFFICES ASSUME NEW u \in InFlight
                 PROVE  FALSE
    OBVIOUS
  <2>2. InFlight = {u}
    BY DEF SerialInv
  <2>3. Cardinality(InFlight) = 1
    BY <2>2, FS_Singleton
  <2> QED
    BY <2>3, BoundsAssumption DEF Serial, CanBegin
<1>2. mode \in {"serving", "closing"}
  BY DEF CanBegin
<1> QED
  BY <1>1, <1>2 DEF SerialInv, Closed

\* So is a call that goes on.
LEMMA GoesOnAlone ==
    ASSUME Kept, SerialInv, NEW t \in Threads, call[t].pc # "idle"
    PROVE  /\ InFlight = {t}
           /\ mode = "serving" \/ (mode = "closing" /\ t = Main)
<1>1. t \in InFlight
  BY DEF InFlight, Idle
<1>2. mode \in {"serving", "closing", "exiting", "down"} /\ (mode = "down" => InFlight = {})
  BY DEF Kept, OwnedInv, Lasting
<1> QED
  BY <1>1, <1>2 DEF SerialInv, Closed

\* What one step of one call has to show.
LEMMA OneMoves ==
    ASSUME NEW t \in Threads, InFlight \subseteq {t},
           \A other \in Threads \ {t} : call'[other] = call[other],
           Agrees(t)', FileKept', MemKept',
           call'[t] = Idle => Same(recovered', mem'),
           \/ mode' = "serving"
           \/ mode' = "closing" /\ t = Main /\ call'[t] # Idle
           \/ mode' = "exiting" /\ call'[t] = Idle /\ List(mem', "claimed") = {}
    PROVE  SerialInv'
<1>1. \A other \in Threads \ {t} : call'[other] = Idle
  BY DEF InFlight
<1>2. InFlight' = IF call'[t] = Idle THEN {} ELSE {t}
  BY <1>1 DEF InFlight
<1>3. ASSUME NEW other \in Threads \ {t}
      PROVE  Agrees(other)'
  <2>1. call'[other].pc = "idle"
    BY <1>1 DEF Idle
  <2> QED
    BY <2>1 DEF Agrees
<1>4. Closed'
  BY <1>2 DEF Closed
<1> QED
  BY <1>2, <1>3, <1>4 DEF SerialInv

\* The same, of a call that leaves the log alone.
LEMMA LogKept ==
    ASSUME SerialInv, log' = log, recovered' = recovered
    PROVE  FileKept'
BY DEF SerialInv, FileKept, Rooted, Live, Logged

\* The same, of a call that leaves memory alone.
LEMMA MemoryKept ==
    ASSUME SerialInv, mem' = mem
    PROVE  MemKept'
BY DEF SerialInv, MemKept

\* What an event is read as is no later than the event.
LEMMA ReadSoon ==
    ASSUME Serial, NEW event \in Event, event.op = "claim" => event.until < Forever
    PROVE  ReadEvent(event).op = "claim" => ReadEvent(event).until < Forever
<1>1. CASE event.op = "claim"
  <2>1. event \in [op : {"claim"}, id : JobIds, ts : Int, lease : LeaseIds, until : Int,
                   worker : Workers \cup {Nil}]
    BY <1>1 DEF Event
  <2>2. ReadEvent(event).until = JsonTime(event.until) /\ event.until \in Int
    BY <1>1, <2>1 DEF ReadEvent
  <2> QED
    BY <1>1, <2>2 DEF Serial, JsonSoon
<1>2. CASE event.op # "claim"
  BY <1>2 DEF ReadEvent
<1> QED
  BY <1>1, <1>2

\* The same, of a call that writes an event.
LEMMA LogAppends ==
    ASSUME Serial, Kept, Kept', SerialInv, NEW event \in Event,
           log' = AppendEvent(log, event), recovered' = Load(log'),
           event.op = "claim" => event.until < Forever,
           event.op = "enqueue" => ~Logged("enqueue", event.id)
    PROVE  /\ recovered' = Apply(recovered, ReadEvent(event))
           /\ FileKept'
<1>1. JsonTimes /\ LogTyped(log) /\ LogTyped(log') /\ recovered = Load(log) /\ Shapes
  BY DEF Serial, Kept, OwnedInv, Lasting, GrantInv
<1>2. log'.events = Append(log.events, event) /\ log'.deleted = log.deleted /\ log'.snapshots = log.snapshots
  <2>1. PICK E, D, S : log \in [events : Seq(E), deleted : D, snapshots : S]
    BY DEF Kept, GrantInv, Shapes
  <2> QED
    BY <2>1 DEF AppendEvent
<1> DEFINE read == ReadEvent(event)
<1>3. recovered' = Apply(recovered, read) /\ Covered(log')
  <2> HIDE DEF Event
  <2> QED
    BY <1>1, <1>2, LoadReads DEF SerialInv, FileKept
<1>4. /\ read \in Event /\ read.op = event.op /\ read.id = event.id
      /\ read.op = "claim" => read.until < Forever
  <2> HIDE DEF Event
  <2> QED
    BY <1>1, ReadEventType, ReadSoon
<1>5. recovered \in SpaceType
  BY <1>1, SpacesTyped
<1>6. recovered' \in SpaceType
  <2>1. PICK owner : Owned(owner)'
    BY DEF Kept, OwnedInv
  <2>2. LogGood(log', owner)
    BY <1>1, <2>1 DEF Owned, LogGood, KnownEvents, SavedJobs
  <2>3. Load(log') \in Good(owner)
    BY <1>1, <2>2, LoadGood
  <2> QED
    BY <2>3 DEF Good
<1>7. event.id \in JobIds
  BY DEF Event
<1> HIDE DEF read, Event
<1>8. Soon(recovered')
  BY <1>3, <1>4, <1>5, ApplySoon DEF SerialInv, FileKept
<1>9. IndexExact(recovered')
  <2>1. read.op = "enqueue" => read.id \notin Live(recovered)
    BY <1>4 DEF SerialInv, FileKept, Rooted
  <2> QED
    BY <1>3, <1>4, <1>5, <1>6, <2>1, ApplyKeepsIndex DEF SerialInv, FileKept
<1>10. Rooted'
  <2>1. ToSet(log'.events) = ToSet(log.events) \cup {event}
    BY <1>1, EventWritten
  <2>2. \A id \in JobIds : Logged("enqueue", id)' <=>
            Logged("enqueue", id) \/ (event.op = "enqueue" /\ event.id = id)
    BY <2>1 DEF Logged
  <2>3. \A id \in JobIds \ {event.id} : recovered'.jobs[id] = recovered.jobs[id]
    BY <1>3, <1>4, <1>5, ApplyLocal
  <2>4. recovered.jobs[event.id] = NoJob /\ event.op # "enqueue" => recovered'.jobs[event.id] = NoJob
    <3> DEFINE old == recovered.jobs[event.id]
               new == Apply(recovered, read).jobs[event.id]
    <3>1. Becomes(read, old, new)
      BY <1>4, <1>5, ApplyBecomes
    <3> HIDE DEF old, new
    <3>2. old = NoJob /\ read.op # "enqueue" => new = NoJob
      BY <3>1, NoJobAssumption DEF Becomes
    <3> QED
      BY <1>3, <1>4, <3>2 DEF old, new
  <2> QED
    BY <1>7, <2>2, <2>3, <2>4 DEF SerialInv, FileKept, Rooted, Live
<1> QED
  BY <1>3, <1>8, <1>9, <1>10 DEF FileKept, read
-----------------------------------------------------------------------------
(* Requests.                                                               *)

LEMMA InitSpaces ==
    ASSUME Init
    PROVE  /\ recovered = Empty /\ mem = Empty /\ log.events = <<>>
           /\ Covered(log)
<1>1. mem = Empty /\ log = NewLog /\ recovered = Load(NewLog)
  BY DEF Init
<1>2. LatestSnapshot(log) = NoSnapshot /\ log.events = <<>> /\ log.deleted = 0
  BY <1>1 DEF LatestSnapshot, NewLog
<1>3. LoadSince(log, 0) = <<>>
  <2>1. LoadSince(log, 0) = SubSeq(<<>>, 1, 0)
    BY <1>2 DEF LoadSince
  <2> QED
    BY <2>1
<1>4. recovered = Restored(Empty.jobs)
  BY <1>1, <1>2, <1>3, NothingReplayed DEF Load, NoSnapshot
<1>5. Restored(Empty.jobs) = Empty
  <2>1. {id \in JobIds : Empty.jobs[id] # NoJob} = {}
    BY DEF Empty
  <2>2. RestoredSome(Empty.jobs, {}) = Empty
    BY DEF RestoredSome, Empty
  <2> QED
    BY <2>1, <2>2, RestoredJobs
<1>6. Covered(log)
  BY <1>2 DEF Covered, NoSnapshot
<1> QED
  BY <1>1, <1>2, <1>4, <1>5, <1>6

LEMMA SerialInit == Init => SerialInv
<1> SUFFICES ASSUME Init
             PROVE  SerialInv
  OBVIOUS
<1>1. mode = "serving" /\ \A t \in Threads : call[t] = Idle
  BY DEF Init
<1>2. InFlight = {} /\ \A t \in Threads : call[t].pc = "idle"
  BY <1>1 DEF InFlight, Idle
<1>3. \A t \in Threads : Agrees(t)
  BY <1>2 DEF Agrees
<1>4. Soon(Empty) /\ IndexExact(Empty) /\ Live(Empty) = {}
  BY DEF Soon, IndexExact, PendingKeys, List, Live, Empty
<1> QED
  BY <1>1, <1>2, <1>3, <1>4, InitSpaces, SameItself DEF SerialInv, FileKept, MemKept, Rooted, Closed

\* A call that changes nothing yet begins to write an event.
LEMMA SerialBegins ==
    ASSUME Serial, Kept, SerialInv, NEW t \in Clients, CanBegin(t), NEW event \in Event, Log(t, event),
           event.op \notin {"claim", "expire", "purge"},
           event.op = "enqueue" => event.id \in FreshIds,
           UNCHANGED <<mode, mem, log, clock, recovered>>
    PROVE  SerialInv'
<1>1. t \in Threads
  BY DEF Threads
<1>2. InFlight = {} /\ mode = "serving" /\ Same(recovered, mem)
  BY <1>1, BeginsAlone
<1>3. /\ call'[t] = [pc |-> "append", event |-> event]
      /\ \A other \in Threads \ {t} : call'[other] = call[other]
  BY <1>1, LogBegun DEF Kept, GrantInv
<1>4. call'[t].pc = "append" /\ call'[t].event = event /\ call'[t] # Idle
  BY <1>3 DEF Idle
<1>5. Agrees(t)'
  <2>1. event.op = "enqueue" => ~Logged("enqueue", event.id)'
    BY DEF FreshIds, KnownEvents, Logged
  <2> HIDE DEF Event
  <2> QED
    BY <1>2, <1>4, <2>1 DEF Agrees, Logged
<1> HIDE DEF Event
<1>6. MemKept' /\ mode' = "serving" /\ InFlight \subseteq {t}
  BY <1>2, MemoryKept
<1>7. FileKept'
  BY LogKept
<1> QED
  BY <1>1, <1>3, <1>4, <1>5, <1>6, <1>7, OneMoves

\* A claim finds the job of the key, and does what its event says.
LEMMA SerialClaims ==
    ASSUME Serial, Kept, Kept', SerialInv, NEW t \in Clients, BeginClaim(t)
    PROVE  SerialInv'
<1>1. t \in Threads /\ CanBegin(t) /\ UNCHANGED <<mode, log, clock, recovered>>
  BY DEF Threads, BeginClaim, Request
<1>2. InFlight = {} /\ mode = "serving" /\ Same(recovered, mem)
  BY <1>1, BeginsAlone
<1>3. PICK type \in JobTypes : \E key \in OldestKeys(mem, type),
          lease \in FreshLeases, ttl \in Ttls, worker \in Workers \cup {Nil} :
              /\ mem' = ClaimKey(mem, key, lease, ttl, worker, clock)
              /\ IF mem.jobs[key[3]] = NoJob
                 THEN UNCHANGED call
                 ELSE Log(t, [op |-> "claim", id |-> key[3], ts |-> clock,
                              lease |-> lease, until |-> clock + ttl, worker |-> worker])
  BY DEF BeginClaim
<1>4. PICK key \in OldestKeys(mem, type), lease \in FreshLeases, ttl \in Ttls,
           worker \in Workers \cup {Nil} :
              /\ mem' = ClaimKey(mem, key, lease, ttl, worker, clock)
              /\ IF mem.jobs[key[3]] = NoJob
                 THEN UNCHANGED call
                 ELSE Log(t, [op |-> "claim", id |-> key[3], ts |-> clock,
                              lease |-> lease, until |-> clock + ttl, worker |-> worker])
  BY <1>3
<1> DEFINE id    == key[3]
           event == [op |-> "claim", id |-> id, ts |-> clock,
                     lease |-> lease, until |-> clock + ttl, worker |-> worker]
<1>5. mem \in SpaceType /\ IndexExact(mem) /\ recovered \in SpaceType
  BY SpacesTyped DEF Serial, SerialInv, MemKept
<1>6. key \in mem.pending /\ id \in JobIds /\ lease \in LeaseIds
  BY <1>5 DEF OldestKeys, SpaceType, FreshLeases
<1>7. mem.jobs[id] # NoJob /\ key = PendingKey(id, mem.jobs[id])
  BY <1>5, <1>6, KeyIndexed
<1>8. clock \in Int /\ clock + ttl \in Int /\ clock + ttl < Forever
  <2>1. clock \in 0..MaxTime /\ ttl \in Nat /\ MaxTime \in Nat
    BY BoundsAssumption DEF Kept, OwnedInv, Lasting, Times
  <2>2. MaxTime + ttl < Forever /\ Forever \in Int
    BY <2>1, ForeverAssumption DEF Forever
  <2> QED
    BY <2>1, <2>2
<1>9. /\ event \in Event /\ event.op = "claim" /\ event.until < Forever
      /\ event.id = id /\ event.lease = lease /\ event.until = clock + ttl
      /\ event.worker = worker /\ event.ts = clock
  BY <1>6, <1>8 DEF Event
<1>10. Log(t, event)
  BY <1>4, <1>7
<1> HIDE DEF event, id
<1>11. mem' = Apply(mem, event)
  <2>1. mem' = Put(mem, id, Claimed(mem.jobs[id], lease, clock + ttl, worker, clock), mem.pending \ {key})
    BY <1>4, <1>7 DEF ClaimKey, id
  <2>2. Apply(mem, event) = ApplyClaim(mem, id, lease, clock + ttl, worker, clock)
    BY <1>9 DEF Apply
  <2> QED
    BY <1>7, <2>1, <2>2 DEF ApplyClaim
<1>12. Same(Apply(recovered, ReadEvent(event)), mem') /\ MemKept'
  <2>1. mem' \in SpaceType
    BY DEF Kept, OwnedInv, Owned, Good
  <2>2. IndexExact(mem')
    BY <1>5, <1>9, <1>11, <2>1, ApplyKeepsIndex
  <2>3. Soon(mem')
    BY <1>5, <1>9, <1>11, ApplySoon DEF SerialInv, MemKept
  <2>4. Same(Apply(recovered, ReadEvent(event)), mem')
    BY <1>2, <1>5, <1>9, <1>11, ApplySame DEF Serial
  <2> QED
    BY <2>2, <2>3, <2>4 DEF MemKept
<1>13. /\ call'[t] = [pc |-> "append", event |-> event]
       /\ \A other \in Threads \ {t} : call'[other] = call[other]
  BY <1>1, <1>9, <1>10, LogBegun DEF Kept, GrantInv
<1>14. call'[t].pc = "append" /\ call'[t].event = event /\ call'[t] # Idle
  BY <1>13 DEF Idle
<1> HIDE DEF Event
<1>15. Agrees(t)'
  BY <1>1, <1>9, <1>12, <1>14 DEF Agrees
<1>16. mode' = "serving" /\ InFlight \subseteq {t}
  BY <1>1, <1>2
<1>17. FileKept'
  BY <1>1, LogKept
<1> QED
  BY <1>1, <1>12, <1>13, <1>14, <1>15, <1>16, <1>17, OneMoves

LEMMA SerialHeartbeat ==
    ASSUME Serial, Kept, Kept', SerialInv, NEW t \in Clients, Heartbeat(t)
    PROVE  SerialInv'
<1>1. t \in Threads /\ CanBegin(t) /\ UNCHANGED <<mode, log, clock, call, recovered>>
  BY DEF Threads, Heartbeat, Request
<1>2. InFlight = {} /\ mode = "serving" /\ Same(recovered, mem)
  BY <1>1, BeginsAlone
<1>3. PICK held \in Granted, ttl \in Ttls : mem' = ExtendLease(mem, held[1], held[2], clock + ttl)
  BY DEF Heartbeat
<1> DEFINE until == clock + ttl
<1>4. until \in Int /\ until < Forever /\ held[1] \in JobIds /\ mem \in SpaceType /\ recovered \in SpaceType
  <2>1. clock \in 0..MaxTime /\ ttl \in Nat /\ MaxTime \in Nat
    BY BoundsAssumption DEF Kept, OwnedInv, Lasting, Times
  <2>2. MaxTime + ttl < Forever /\ Forever \in Int
    BY <2>1, ForeverAssumption DEF Forever
  <2> QED
    BY <2>1, <2>2, GrantLasts, SpacesTyped DEF Kept, OwnedInv, Serial
<1> HIDE DEF until
<1>5. mem' = ExtendLease(mem, held[1], held[2], until)
  BY <1>3 DEF until
<1>6. Same(recovered', mem')
  BY <1>1, <1>2, <1>4, <1>5, ExtendSame
<1>7. MemKept'
  <2> DEFINE job == [mem.jobs[held[1]] EXCEPT !.lease_until = until]
  <2>1. mem.jobs[held[1]] # NoJob => SoonJob(job)
    BY <1>4 DEF SpaceType, SoonJob, Job
  <2>2. mem' = mem \/ (mem.jobs[held[1]] # NoJob /\ mem' = Put(mem, held[1], job, mem.pending))
    BY <1>5 DEF ExtendLease, CheckLease
  <2> HIDE DEF job
  <2>3. Soon(mem')
    BY <1>4, <2>1, <2>2, PutSoon DEF SerialInv, MemKept
  <2>4. mem' \in SpaceType
    BY DEF Kept, OwnedInv, Owned, Good
  <2>5. PICK births : OneBirth(births) /\ Indexed(mem, births)
    BY <1>4, OwnKeys DEF SerialInv, MemKept
  <2>6. Indexed(mem', births)
    BY <1>4, <1>5, <2>4, <2>5, ExtendIndexed
  <2> QED
    BY <2>3, <2>6 DEF MemKept, Indexed
<1>8. InFlight' = {} /\ mode' = "serving"
  BY <1>1, <1>2 DEF InFlight
<1>9. \A u \in Threads : call'[u].pc = "idle"
  BY <1>1, <1>2 DEF InFlight, Idle
<1>10. \A u \in Threads : Agrees(u)'
  BY <1>9 DEF Agrees
<1>11. FileKept'
  BY <1>1, LogKept
<1> QED
  BY <1>6, <1>7, <1>8, <1>10, <1>11 DEF SerialInv, Closed

\* An event is written: the file moves to where memory is, or will be.
LEMMA SerialAppends ==
    ASSUME Serial, Kept, Kept', SerialInv, NEW t \in Clients, AppendRequest(t)
    PROVE  SerialInv'
<1> DEFINE event == call[t].event
<1>1. /\ t \in Threads /\ t # Main /\ call[t].pc = "append" /\ call[t].pc # "idle"
      /\ log' = AppendEvent(log, event) /\ recovered' = Load(log')
      /\ UNCHANGED <<mode, mem, clock>>
  BY ThreadsAssumption DEF AppendRequest, WriteLog, Threads
<1>2. event \in Event
  BY <1>1 DEF Kept, OwnedInv, Lasting, CallTyped
<1> HIDE DEF Event
<1>3. InFlight = {t} /\ mode' = "serving"
  BY <1>1, GoesOnAlone
<1>4. Agrees(t)
  BY <1>1 DEF SerialInv
<1>5. /\ event.op = "claim" => event.until < Forever /\ Same(Apply(recovered, ReadEvent(event)), mem)
      /\ event.op = "enqueue" => ~Logged("enqueue", event.id)
  BY <1>1, <1>4 DEF Agrees
<1>6. event.op # "claim" => Same(recovered, mem)
  BY <1>1, <1>4 DEF Agrees
<1>7. /\ recovered' = Apply(recovered, ReadEvent(event))
      /\ FileKept' /\ MemKept'
  <2> HIDE DEF event
  <2> QED
    BY <1>1, <1>2, <1>5, LogAppends, MemoryKept
<1>8. /\ event.op = "claim" => call'[t] = Idle
      /\ event.op # "claim" => call'[t] = [pc |-> "apply", event |-> event]
      /\ \A other \in Threads \ {t} : call'[other] = call[other]
  BY <1>1 DEF AppendRequest, Kept, GrantInv, Shapes
<1> HIDE DEF event
<1>9. mem \in SpaceType /\ recovered \in SpaceType
  BY SpacesTyped DEF Serial
<1>10. CASE event.op = "claim"
  <2>1. call'[t] = Idle /\ call'[t].pc = "idle"
    BY <1>8, <1>10 DEF Idle
  <2>2. Agrees(t)' /\ Same(recovered', mem')
    BY <1>1, <1>5, <1>7, <1>10, <2>1 DEF Agrees
  <2> QED
    BY <1>1, <1>3, <1>7, <1>8, <2>2, OneMoves
<1>11. CASE event.op # "claim"
  <2>1. call'[t].pc = "apply" /\ call'[t].event = event /\ call'[t] # Idle
    BY <1>8, <1>11 DEF Idle
  <2>2. Same(recovered', Apply(mem, event))
    BY <1>2, <1>6, <1>7, <1>9, <1>11, ApplySame DEF Serial
  <2>3. event.op = "enqueue" => event.id \notin Live(mem)
    <3>1. event.id \in JobIds
      BY <1>2 DEF Event
    <3> QED
      BY <1>5, <1>6, <1>9, <1>11, <3>1, SameJobs DEF SerialInv, FileKept, Rooted
  <2>4. Agrees(t)'
    BY <1>1, <1>11, <2>1, <2>2, <2>3 DEF Agrees, Live
  <2> QED
    BY <1>1, <1>3, <1>7, <1>8, <2>1, <2>4, OneMoves
<1> QED
  BY <1>10, <1>11

\* The change is made: memory moves to where the file is.
LEMMA SerialApplies ==
    ASSUME Serial, Kept, Kept', SerialInv, NEW t \in Clients, ApplyRequest(t)
    PROVE  SerialInv'
<1> DEFINE event == call[t].event
<1>1. /\ t \in Threads /\ t # Main /\ call[t].pc = "apply" /\ call[t].pc # "idle"
      /\ mem' = Apply(mem, event)
      /\ UNCHANGED <<mode, log, clock, recovered>>
  BY ThreadsAssumption DEF ApplyRequest, Threads
<1>2. event \in Event
  BY <1>1 DEF Kept, OwnedInv, Lasting, CallTyped
<1> HIDE DEF Event
<1>3. InFlight = {t} /\ mode' = "serving"
  BY <1>1, GoesOnAlone
<1>4. Agrees(t)
  BY <1>1 DEF SerialInv
<1>5. /\ event.op # "claim" /\ Same(recovered', mem')
      /\ event.op = "enqueue" => event.id \notin Live(mem)
  BY <1>1, <1>4 DEF Agrees
<1>6. call'[t] = Idle /\ \A other \in Threads \ {t} : call'[other] = call[other]
  BY <1>1 DEF ApplyRequest, Kept, GrantInv, Shapes
<1>7. MemKept'
  <2>1. mem \in SpaceType /\ mem' \in SpaceType
    BY DEF Kept, OwnedInv, Owned, Good
  <2> HIDE DEF event
  <2>2. Soon(mem')
    BY <1>1, <1>2, <1>5, <2>1, ApplySoon DEF SerialInv, MemKept
  <2>3. IndexExact(mem')
    BY <1>1, <1>2, <1>5, <2>1, ApplyKeepsIndex DEF SerialInv, MemKept
  <2> QED
    BY <2>2, <2>3 DEF MemKept
<1>8. call'[t].pc = "idle"
  BY <1>6 DEF Idle
<1>9. Agrees(t)'
  BY <1>8 DEF Agrees
<1>10. FileKept'
  BY <1>1, LogKept
<1> QED
  BY <1>1, <1>3, <1>5, <1>6, <1>7, <1>9, <1>10, OneMoves
-----------------------------------------------------------------------------
(* Tasks.                                                                  *)

LEMMA SerialReleases ==
    ASSUME Serial, Kept, SerialInv, BeginReap \/ BeginShutdown
    PROVE  SerialInv'
<1>1. PICK t \in Tasks, until \in {clock, Forever} :
          /\ CanBegin(t)
          /\ BeginRelease(t, Expired(mem, until), until)
          /\ \/ t = Reaper /\ mode' = mode
             \/ t = Main /\ mode' = "closing" /\ Expired(mem, until) = List(mem, "claimed")
          /\ UNCHANGED <<mem, log, clock, recovered>>
  <2>1. CASE BeginReap
    BY <2>1 DEF BeginReap
  <2>2. CASE BeginShutdown
    <3>1. Expired(mem, Forever) = List(mem, "claimed")
      <4>1. \A id \in List(mem, "claimed") : /\ mem.jobs[id].lease_until # Nil
                                            /\ mem.jobs[id].lease_until \in Int
                                            /\ mem.jobs[id].lease_until < Forever
        BY SpacesTyped DEF Serial, SerialInv, MemKept, Soon, SoonJob, List, Live, SpaceType, Job
      <4>2. Forever \in Int
        BY BoundsAssumption DEF Forever
      <4>3. \A id \in List(mem, "claimed") : Forever > mem.jobs[id].lease_until
        BY <4>1, <4>2
      <4> QED
        BY <4>1, <4>3 DEF Expired
    <3> QED
      BY <2>2, <3>1 DEF BeginShutdown
  <2> QED
    BY <2>1, <2>2
<1>2. t \in Threads
  BY DEF Threads
<1>3. InFlight = {} /\ mode = "serving" /\ Same(recovered, mem)
  BY <1>1, <1>2, BeginsAlone
<1> DEFINE ids  == Expired(mem, until)
           next == [pc |-> "release", todo |-> ids, ts |-> clock, until |-> until]
<1>4. call'[t] = next /\ \A other \in Threads \ {t} : call'[other] = call[other]
  BY <1>1, <1>2 DEF BeginRelease, Kept, GrantInv, Shapes
<1>5. /\ call'[t].pc = "release" /\ call'[t].todo = ids /\ call'[t].until = until
      /\ DOMAIN call'[t] = {"pc", "todo", "ts", "until"} /\ call'[t] # Idle
  BY <1>4 DEF Idle
<1>6. Due(t)' = ids
  BY <1>1, <1>5 DEF Due, Expired, List, Live
<1> HIDE DEF next
<1>7. Release(mem, ids \ ids) = mem
  BY SpacesTyped, ReleaseNone DEF Serial
<1>8. t = Main => ids = List(mem', "claimed")
  BY <1>1, ThreadsAssumption
<1>9. Release(mem', ids \ ids) = mem'
  BY <1>1, <1>7
<1> HIDE DEF ids
<1>10. Agrees(t)'
  BY <1>1, <1>3, <1>5, <1>6, <1>8, <1>9 DEF Agrees
<1>11. FileKept'
  BY <1>1, LogKept
<1>12. MemKept' /\ InFlight \subseteq {t}
  BY <1>1, <1>3, MemoryKept
<1>13. mode' = "serving" \/ (mode' = "closing" /\ t = Main)
  BY <1>1, <1>3
<1> QED
  BY <1>2, <1>4, <1>5, <1>10, <1>11, <1>12, <1>13, OneMoves

\* An expiry is written: what the file gives has released one job more.
LEMMA SerialExpires ==
    ASSUME Serial, Kept, Kept', SerialInv, NEW t \in Tasks, AppendExpire(t)
    PROVE  SerialInv'
<1>1. /\ t \in Threads /\ call[t].pc = "release" /\ call[t].pc # "idle"
      /\ UNCHANGED <<mode, mem, clock>>
  BY DEF AppendExpire, Threads
<1>2. InFlight = {t} /\ (mode = "serving" \/ (mode = "closing" /\ t = Main)) /\ Agrees(t)
  BY <1>1, GoesOnAlone DEF SerialInv
<1>3. PICK id \in call[t].todo :
          /\ call' = [call EXCEPT ![t].todo = @ \ {id}]
          /\ log' = AppendEvent(log, [op |-> "expire", id |-> id, ts |-> call[t].ts])
          /\ recovered' = Load(log')
  BY DEF AppendExpire, WriteLog, Serial
<1> DEFINE event == [op |-> "expire", id |-> id, ts |-> call[t].ts]
           due   == Due(t)
           todo  == call[t].todo
<1>4. id \in JobIds /\ call[t].ts \in Int /\ id \in todo
  BY <1>1 DEF Kept, OwnedInv, Lasting, CallTyped
<1>5. event \in Event /\ event.op = "expire" /\ event.id = id
  BY <1>4 DEF Event
<1>6. /\ DOMAIN call[t] = {"pc", "todo", "ts", "until"} /\ todo \subseteq due
      /\ Same(recovered, Release(mem, due \ todo))
      /\ t = Main => due = List(mem, "claimed")
  BY <1>1, <1>2 DEF Agrees
<1>7. /\ call'[t] = [call[t] EXCEPT !.todo = todo \ {id}]
      /\ \A other \in Threads \ {t} : call'[other] = call[other]
  BY <1>1, <1>3 DEF Kept, GrantInv, Shapes
<1>8. /\ call'[t].pc = "release" /\ call'[t].todo = todo \ {id} /\ call'[t].until = call[t].until
      /\ DOMAIN call'[t] = {"pc", "todo", "ts", "until"} /\ call'[t] # Idle
  BY <1>1, <1>6, <1>7 DEF Idle
<1>9. Due(t)' = due /\ due \subseteq List(mem, "claimed")
  BY <1>1, <1>8 DEF Due, Expired, List, Live
<1> HIDE DEF event, due, todo, Event
<1>10. /\ recovered' = Apply(recovered, ReadEvent(event))
       /\ FileKept'
  BY <1>3, <1>5, LogAppends DEF event
<1>11. mem \in SpaceType /\ recovered \in SpaceType
  BY SpacesTyped DEF Serial
<1>12. Release(mem, due \ todo) \in SpaceType
  <2>1. PICK owner : Owned(owner)
    BY DEF Kept, OwnedInv
  <2>2. due \ todo \in SUBSET Live(mem)
    BY <1>9 DEF List
  <2> QED
    BY <2>1, <2>2, ReleaseGood DEF Owned, Good
<1>13. Same(recovered', Release(mem', due \ (todo \ {id})))
  <2>1. Same(recovered', Apply(Release(mem, due \ todo), event))
    BY <1>5, <1>6, <1>10, <1>11, <1>12, ApplySame DEF Serial
  <2>2. Apply(Release(mem, due \ todo), event) = ApplyExpire(Release(mem, due \ todo), id)
    BY <1>5 DEF Apply
  <2>3. ApplyExpire(Release(mem, due \ todo), id) = Release(mem, (due \ todo) \cup {id})
    <3>1. due \ todo \in SUBSET List(mem, "claimed") /\ id \in List(mem, "claimed") /\ id \notin due \ todo
      BY <1>4, <1>6, <1>9
    <3> QED
      BY <1>11, <3>1, ReleaseOneMore
  <2>4. (due \ todo) \cup {id} = due \ (todo \ {id})
    BY <1>4, <1>6
  <2> QED
    BY <1>1, <2>1, <2>2, <2>3, <2>4
<1>14. t = Main => due = List(mem', "claimed")
  BY <1>1, <1>6
<1>15. todo \ {id} \subseteq due
  BY <1>6
<1>16. Agrees(t)'
  BY <1>8, <1>9, <1>13, <1>14, <1>15 DEF Agrees
<1>17. MemKept' /\ InFlight \subseteq {t} /\ (mode' = "serving" \/ (mode' = "closing" /\ t = Main))
  BY <1>1, <1>2, MemoryKept
<1> QED
  BY <1>1, <1>7, <1>8, <1>10, <1>16, <1>17, OneMoves

\* The jobs are released: memory is where the file is.
LEMMA SerialReleased ==
    ASSUME Serial, Kept, Kept', SerialInv, NEW t \in Tasks, FinishRelease(t)
    PROVE  SerialInv'
<1>1. /\ t \in Threads /\ call[t].pc = "release" /\ call[t].pc # "idle" /\ call[t].todo = {}
      /\ mem' = Release(mem, Due(t))
      /\ UNCHANGED <<mode, log, clock, recovered>>
  BY DEF FinishRelease, Threads, ExpireLeases, Due
<1>2. InFlight = {t} /\ (mode = "serving" \/ (mode = "closing" /\ t = Main)) /\ Agrees(t)
  BY <1>1, GoesOnAlone DEF SerialInv
<1>3. Same(recovered', mem') /\ (t = Main => Due(t) = List(mem, "claimed"))
  <2>1. Due(t) \ call[t].todo = Due(t)
    BY <1>1
  <2> QED
    BY <1>1, <1>2, <2>1 DEF Agrees
<1>4. t = Main => List(mem', "claimed") = {}
  BY <1>1, <1>3, SpacesTyped, ReleaseAll DEF Serial
<1>5. MemKept'
  <2>1. \A id \in JobIds : mem.jobs[id] # NoJob => mem.jobs[id] \in Job
    BY SpacesTyped DEF Serial, SpaceType
  <2>2. \A job \in Job : SoonJob(Requeued(job))
    BY DEF Requeued, SoonJob, Job
  <2>3. \A id \in JobIds : mem'.jobs[id] = IF id \in Due(t) THEN Requeued(mem.jobs[id]) ELSE mem.jobs[id]
    BY <1>1 DEF Release
  <2>4. Due(t) \subseteq Live(mem)
    BY DEF Due, Expired, List
  <2>5. Soon(mem')
    BY <2>1, <2>2, <2>3, <2>4 DEF SerialInv, MemKept, Soon, Live
  <2>6. PICK births : OneBirth(births) /\ Indexed(mem, births)
    BY SpacesTyped, OwnKeys DEF Serial, SerialInv, MemKept
  <2>7. Indexed(mem', births)
    BY <1>1, <2>4, <2>6, SpacesTyped, ReleaseIndexed DEF Serial
  <2> QED
    BY <2>5, <2>7 DEF MemKept, Indexed
<1>6. /\ call'[t] = IF t = Main THEN [pc |-> "max_seq"] ELSE Idle
      /\ \A other \in Threads \ {t} : call'[other] = call[other]
  BY <1>1 DEF FinishRelease, Kept, GrantInv, Shapes
<1>7. /\ call'[t].pc = IF t = Main THEN "max_seq" ELSE "idle"
      /\ t = Main => call'[t] # Idle
  BY <1>6 DEF Idle
<1>8. Agrees(t)'
  BY <1>3, <1>4, <1>7 DEF Agrees
<1>9. FileKept'
  BY <1>1, LogKept
<1> QED
  BY <1>1, <1>2, <1>3, <1>5, <1>6, <1>7, <1>8, <1>9, OneMoves

LEMMA SerialCleanup ==
    ASSUME Serial, Kept, SerialInv, BeginCleanup
    PROVE  SerialInv'
<1>1. /\ Cleaner \in Threads /\ CanBegin(Cleaner)
      /\ UNCHANGED <<mode, mem, log, clock, recovered>>
  BY DEF BeginCleanup, Threads
<1>2. InFlight = {} /\ mode = "serving" /\ Same(recovered, mem)
  BY <1>1, BeginsAlone
<1>3. /\ call'[Cleaner] = [pc |-> "purge", todo |-> Purgeable, ts |-> clock]
      /\ \A other \in Threads \ {Cleaner} : call'[other] = call[other]
  BY <1>1 DEF BeginCleanup, Kept, GrantInv, Shapes
<1>4. call'[Cleaner].pc = "purge" /\ call'[Cleaner].todo = Purgeable /\ call'[Cleaner] # Idle
  BY <1>3 DEF Idle
<1>5. \A id \in Purgeable : Ended(id)'
  BY <1>1 DEF Purgeable, Ended, Live
<1> HIDE DEF Purgeable
<1>6. Agrees(Cleaner)'
  BY <1>1, <1>2, <1>4, <1>5 DEF Agrees
<1>7. FileKept'
  BY <1>1, LogKept
<1>8. MemKept' /\ mode' = "serving" /\ InFlight \subseteq {Cleaner}
  BY <1>1, <1>2, MemoryKept
<1> QED
  BY <1>1, <1>3, <1>4, <1>6, <1>7, <1>8, OneMoves

LEMMA SerialPurges ==
    ASSUME Serial, Kept, Kept', SerialInv, AppendPurge
    PROVE  SerialInv'
<1> DEFINE t == Cleaner
<1>1. /\ t \in Threads /\ t # Main /\ call[t].pc = "purge" /\ call[t].pc # "idle"
      /\ UNCHANGED <<mode, mem, clock>>
  BY ThreadsAssumption DEF AppendPurge, Threads
<1>2. InFlight = {t} /\ mode = "serving" /\ Agrees(t)
  BY <1>1, GoesOnAlone DEF SerialInv
<1>3. PICK id \in call[t].todo :
          /\ log' = AppendEvent(log, [op |-> "purge", id |-> id, ts |-> call[t].ts])
          /\ recovered' = Load(log')
          /\ call' = [call EXCEPT ![t] = [pc |-> "remove", id |-> id, todo |-> @.todo \ {id}, ts |-> @.ts]]
  BY DEF AppendPurge, WriteLog
<1> DEFINE event == [op |-> "purge", id |-> id, ts |-> call[t].ts]
           todo  == call[t].todo
<1>4. id \in JobIds /\ call[t].ts \in Int /\ id \in todo
  BY <1>1 DEF Kept, OwnedInv, Lasting, CallTyped
<1>5. event \in Event /\ event.op = "purge" /\ event.id = id
  BY <1>4 DEF Event
<1>6. Same(recovered, mem) /\ \A x \in todo : Ended(x)
  BY <1>1, <1>2 DEF Agrees
<1>7. /\ call'[t] = [pc |-> "remove", id |-> id, todo |-> todo \ {id}, ts |-> call[t].ts]
      /\ \A other \in Threads \ {t} : call'[other] = call[other]
  BY <1>1, <1>3 DEF Kept, GrantInv, Shapes
<1>8. call'[t].pc = "remove" /\ call'[t].id = id /\ call'[t].todo = todo \ {id} /\ call'[t] # Idle
  BY <1>7 DEF Idle
<1> HIDE DEF event, todo, Event
<1>9. /\ recovered' = Apply(recovered, ReadEvent(event))
      /\ FileKept'
  BY <1>3, <1>5, LogAppends DEF event
<1>10. Same(recovered', RemoveJob(mem', id))
  <2>1. Same(recovered', Apply(mem, event))
    BY <1>5, <1>6, <1>9, SpacesTyped, ApplySame DEF Serial
  <2> QED
    BY <1>1, <1>5, <2>1 DEF Apply
<1>11. \A x \in todo : Ended(x)'
  BY <1>1, <1>6 DEF Ended, Live
<1>12. id \notin todo \ {id} /\ Ended(id)' /\ \A x \in todo \ {id} : Ended(x)'
  BY <1>4, <1>11
<1> HIDE DEF t
<1>13. Agrees(t)'
  BY <1>1, <1>8, <1>10, <1>12 DEF Agrees
<1>14. MemKept' /\ InFlight \subseteq {t} /\ mode' = "serving"
  BY <1>1, <1>2, MemoryKept
<1> QED
  BY <1>1, <1>7, <1>8, <1>9, <1>13, <1>14, OneMoves

\* The job that is removed had ended when the clean-up began.
LEMMA SerialRemoves ==
    ASSUME Serial, Kept, Kept', SerialInv, RemovePurged
    PROVE  SerialInv'
<1> DEFINE t    == Cleaner
           id   == call[t].id
           todo == call[t].todo
<1>1. /\ t \in Threads /\ t # Main /\ call[t].pc = "remove" /\ call[t].pc # "idle"
      /\ mem' = RemoveJob(mem, id)
      /\ UNCHANGED <<mode, log, clock, recovered>>
  BY ThreadsAssumption DEF RemovePurged, Threads
<1>2. InFlight = {t} /\ mode = "serving" /\ Agrees(t)
  BY <1>1, GoesOnAlone DEF SerialInv
<1>3. id \in JobIds
  BY <1>1 DEF Kept, OwnedInv, Lasting, CallTyped
<1>4. /\ Same(recovered, RemoveJob(mem, id)) /\ Ended(id) /\ id \notin todo
      /\ \A x \in todo : Ended(x)
  BY <1>1, <1>2 DEF Agrees
<1>5. /\ call'[t] = [pc |-> "purge", todo |-> todo, ts |-> call[t].ts]
      /\ \A other \in Threads \ {t} : call'[other] = call[other]
  BY <1>1 DEF RemovePurged, Kept, GrantInv, Shapes
<1>6. call'[t].pc = "purge" /\ call'[t].todo = todo /\ call'[t] # Idle
  BY <1>5 DEF Idle
<1>7. mem \in SpaceType
  BY SpacesTyped DEF Serial
<1> HIDE DEF t, id, todo
<1>8. \E pending : mem' = Put(mem, id, NoJob, pending)
  BY <1>1, <1>4 DEF RemoveJob, Ended
<1>9. MemKept'
  <2>1. Soon(mem')
    BY <1>3, <1>7, <1>8, PutSoon DEF SerialInv, MemKept
  <2>2. mem' \in SpaceType
    BY DEF Kept, OwnedInv, Owned, Good
  <2>3. PICK births : OneBirth(births) /\ Indexed(mem, births)
    BY <1>7, OwnKeys DEF SerialInv, MemKept
  <2>4. Indexed(mem', births)
    BY <1>1, <1>3, <1>7, <2>2, <2>3, RemoveIndexed
  <2> QED
    BY <2>1, <2>4 DEF MemKept, Indexed
<1>10. \A x \in todo : Ended(x)'
  <2>1. \A x \in JobIds \ {id} : mem'.jobs[x] = mem.jobs[x]
    BY <1>3, <1>7, <1>8 DEF Put, SpaceType
  <2> QED
    BY <1>4, <2>1 DEF Ended, Live
<1>11. Agrees(t)'
  BY <1>1, <1>4, <1>6, <1>10 DEF Agrees
<1>12. FileKept'
  BY <1>1, LogKept
<1> QED
  BY <1>1, <1>2, <1>5, <1>6, <1>9, <1>11, <1>12, OneMoves

-----------------------------------------------------------------------------
(* Snapshots.                                                              *)

\* What is read of a job ends in time too.
LEMMA RestoredSoon ==
    ASSUME Serial, NEW s \in SpaceType, Soon(s)
    PROVE  Soon(Restored(s.jobs))
<1> DEFINE ids == {id \in JobIds : s.jobs[id] # NoJob}
           r   == RestoredSome(s.jobs, ids)
<1>1. \A id \in JobIds : r.jobs[id] = IF s.jobs[id] # NoJob THEN ReadJob(s.jobs[id]) ELSE NoJob
  BY DEF RestoredSome
<1>2. ASSUME NEW id \in ids
      PROVE  SoonJob(ReadJob(s.jobs[id]))
  <2>1. s.jobs[id] \in Job /\ SoonJob(s.jobs[id])
    BY DEF SpaceType, Soon, Live
  <2>2. ReadJob(s.jobs[id]).lease_until = JsonOption(s.jobs[id].lease_until)
    BY <2>1, ReadColumns
  <2>3. s.jobs[id].lease_until \in Int \cup {Nil}
    BY <2>1 DEF Job
  <2> QED
    BY <2>1, <2>2, <2>3 DEF SoonJob, JsonOption, Serial, JsonSoon
<1> HIDE DEF r
<1>3. Soon(r)
  BY <1>1, <1>2 DEF Soon, Live
<1> QED
  BY <1>3, RestoredJobs DEF r

LEMMA SerialSnapshot ==
    ASSUME Serial, Kept, SerialInv, NEW t \in Threads,
           (t = Cleaner /\ FinishPurge) \/ ReadMaxSeq(t) \/ ListJobs(t)
    PROVE  SerialInv'
<1>1. /\ call[t].pc \in {"purge", "max_seq", "list"} /\ call[t].pc # "idle"
      /\ call[t].pc = "purge" => t # Main
      /\ UNCHANGED <<mode, mem, log, clock, recovered>>
  BY ThreadsAssumption DEF FinishPurge, ReadMaxSeq, ListJobs
<1>2. InFlight = {t} /\ (mode = "serving" \/ (mode = "closing" /\ t = Main)) /\ Agrees(t)
  BY <1>1, GoesOnAlone DEF SerialInv
<1>3. Same(recovered', mem')
  BY <1>1, <1>2 DEF Agrees
<1>4. call = [other \in Threads |-> call[other]]
  BY DEF Kept, GrantInv, Shapes
<1>5. /\ \A other \in Threads \ {t} : call'[other] = call[other]
      /\ \/ call[t].pc = "purge" /\ call'[t].pc = "max_seq"
         \/ call[t].pc = "max_seq" /\ call'[t].pc = "list" /\ call'[t].seq = MaxSeq(log)
         \/ /\ call[t].pc = "list" /\ call'[t].pc = "save"
            /\ call'[t].seq = call[t].seq /\ call'[t].jobs = mem.jobs
  <2>1. CASE t = Cleaner /\ FinishPurge
    <3>1. /\ call'[t] = [pc |-> "max_seq"]
          /\ \A other \in Threads \ {t} : call'[other] = call[other]
      BY <1>4, <2>1 DEF FinishPurge
    <3> QED
      BY <2>1, <3>1 DEF FinishPurge
  <2>2. CASE ReadMaxSeq(t)
    <3>1. /\ call'[t] = [pc |-> "list", seq |-> MaxSeq(log), ts |-> clock]
          /\ \A other \in Threads \ {t} : call'[other] = call[other]
      BY <1>4, <2>2 DEF ReadMaxSeq
    <3> QED
      BY <2>2, <3>1 DEF ReadMaxSeq
  <2>3. CASE ListJobs(t)
    <3>1. /\ call'[t] = [pc |-> "save", seq |-> call[t].seq, ts |-> call[t].ts, jobs |-> mem.jobs]
          /\ \A other \in Threads \ {t} : call'[other] = call[other]
      BY <1>4, <2>3 DEF ListJobs
    <3> QED
      BY <2>3, <3>1 DEF ListJobs
  <2> QED
    BY <2>1, <2>2, <2>3
<1>6. t = Main => List(mem', "claimed") = {}
  BY <1>1, <1>2 DEF Agrees
<1>7. call[t].pc = "list" => call[t].seq = MaxSeq(log)
  BY <1>2 DEF Agrees
<1>8. Agrees(t)'
  BY <1>1, <1>3, <1>5, <1>6, <1>7 DEF Agrees
<1>9. call'[t] # Idle
  BY <1>5 DEF Idle
<1>10. FileKept'
  BY <1>1, LogKept
<1>11. MemKept' /\ InFlight \subseteq {t} /\ (mode' = "serving" \/ (mode' = "closing" /\ t = Main))
  BY <1>1, <1>2, MemoryKept
<1> QED
  BY <1>5, <1>8, <1>9, <1>10, <1>11, OneMoves

\* The row holds what is in memory: a start would load no less and no more,
\* but for what JSON makes of it.
LEMMA SavedFile ==
    ASSUME Serial, Kept, Kept', SerialInv, NEW t \in Threads, Save(t)
    PROVE  /\ log'.events = log.events
           /\ LatestSnapshot(log').seq = call[t].seq
           /\ Covered(log')
           /\ recovered' = Restored(mem.jobs)
           /\ recovered' \in SpaceType
           /\ Same(recovered', mem)
           /\ Same(recovered', recovered)
<1> DEFINE seq  == call[t].seq
           ts   == call[t].ts
           jobs == call[t].jobs
<1>1. /\ call[t].pc = "save"
      /\ log' = SaveSnapshot(log, seq, ts, jobs) /\ recovered' = Load(log')
  BY DEF Save, WriteLog
<1>2. Same(recovered, mem) /\ seq = MaxSeq(log) /\ jobs = mem.jobs
  BY <1>1 DEF SerialInv, Agrees
<1> HIDE DEF seq, ts, jobs
<1>3. /\ log'.events = log.events /\ log'.deleted = log.deleted
      /\ log'.snapshots = Append(log.snapshots, [seq |-> seq, ts |-> ts, jobs |-> jobs])
  <2>1. PICK E, D, S : log \in [events : Seq(E), deleted : D, snapshots : S]
    BY DEF Kept, GrantInv, Shapes
  <2> QED
    BY <1>1, <2>1 DEF SaveSnapshot
<1>4. LogTyped(log) /\ LogTyped(log')
  BY DEF Kept, OwnedInv, Lasting
<1>5. Load(log') = Restored(jobs) /\ LatestSnapshot(log').seq = seq /\ Covered(log')
  BY <1>2, <1>3, <1>4, LoadSaved
<1>6. /\ mem \in SpaceType /\ recovered \in SpaceType /\ JsonTimes
      /\ recovered' = Restored(mem.jobs)
  BY <1>1, <1>2, <1>5, SpacesTyped DEF Serial
<1>7. recovered' \in SpaceType /\ Same(recovered', mem) /\ Same(recovered', recovered)
  BY <1>2, <1>6, RestoredSame
<1> QED
  BY <1>3, <1>5, <1>6, <1>7 DEF seq

LEMMA SerialSaves ==
    ASSUME Serial, Kept, Kept', SerialInv, NEW t \in Threads, Save(t)
    PROVE  SerialInv'
<1>1. call[t].pc = "save" /\ call[t].pc # "idle" /\ UNCHANGED <<mode, mem, clock>>
  BY DEF Save
<1>2. InFlight = {t} /\ (mode = "serving" \/ (mode = "closing" /\ t = Main)) /\ Agrees(t)
  BY <1>1, GoesOnAlone DEF SerialInv
<1>3. Same(recovered, mem) /\ (t = Main => List(mem, "claimed") = {})
  BY <1>1, <1>2 DEF Agrees
<1>4. /\ call'[t] = [pc |-> "truncate", seq |-> call[t].seq]
      /\ \A other \in Threads \ {t} : call'[other] = call[other]
  BY DEF Save, Kept, GrantInv, Shapes
<1>5. call'[t].pc = "truncate" /\ call'[t].seq = call[t].seq /\ call'[t] # Idle
  BY <1>4 DEF Idle
<1>6. mem \in SpaceType /\ recovered \in SpaceType
  BY SpacesTyped DEF Serial
<1>7. FileKept'
  <2>1. mem.jobs \in [JobIds -> Job \cup {NoJob}]
    BY <1>6 DEF SpaceType
  <2>2. IndexExact(recovered')
    BY <2>1, SavedFile, RestoredIndexed DEF Serial
  <2>3. Soon(recovered')
    BY <1>6, SavedFile, RestoredSoon DEF SerialInv, MemKept
  <2>4. Live(recovered') = Live(recovered)
    BY <1>6, SavedFile, SameJobs DEF Live
  <2>5. Rooted'
    BY <2>4, SavedFile DEF SerialInv, FileKept, Rooted, Logged
  <2> QED
    BY <2>2, <2>3, <2>5, SavedFile DEF FileKept
<1>8. Agrees(t)'
  BY <1>1, <1>3, <1>5, SavedFile DEF Agrees
<1>9. /\ MemKept' /\ InFlight \subseteq {t}
      /\ mode' = "serving" \/ (mode' = "closing" /\ t = Main)
  BY <1>1, <1>2, MemoryKept
<1> QED
  BY <1>4, <1>5, <1>7, <1>8, <1>9, OneMoves

\* What the row covers is deleted, and not missed.
LEMMA TruncatedFile ==
    ASSUME Kept, SerialInv, NEW t \in Threads, Truncate(t)
    PROVE  log'.events = log.events /\ recovered' = recovered /\ Covered(log')
<1> DEFINE seq == call[t].seq
<1>1. call[t].pc = "truncate" /\ log' = TruncateBefore(log, seq) /\ recovered' = Load(log')
  BY DEF Truncate, WriteLog
<1>2. seq = LatestSnapshot(log).seq
  BY <1>1 DEF SerialInv, Agrees
<1> HIDE DEF seq
<1>3. /\ log'.events = log.events /\ log'.snapshots = log.snapshots
      /\ log'.deleted = IF seq > log.deleted THEN seq ELSE log.deleted
  <2>1. PICK E, D, S : log \in [events : Seq(E), deleted : D, snapshots : S]
    BY DEF Kept, GrantInv, Shapes
  <2> QED
    BY <1>1, <2>1 DEF TruncateBefore
<1>4. LogTyped(log) /\ recovered = Load(log)
  BY DEF Kept, OwnedInv, Lasting
<1> QED
  BY <1>1, <1>2, <1>3, <1>4, LoadTruncated DEF SerialInv, FileKept

LEMMA SerialTruncates ==
    ASSUME Serial, Kept, SerialInv, NEW t \in Threads, Truncate(t)
    PROVE  SerialInv'
<1>1. /\ call[t].pc = "truncate" /\ call[t].pc # "idle"
      /\ mode' = IF t = Main THEN "exiting" ELSE mode
      /\ UNCHANGED <<mem, clock>>
  BY DEF Truncate, Leave
<1>2. InFlight = {t} /\ (mode = "serving" \/ (mode = "closing" /\ t = Main)) /\ Agrees(t)
  BY <1>1, GoesOnAlone DEF SerialInv
<1>3. Same(recovered, mem) /\ (t = Main => List(mem, "claimed") = {})
  BY <1>1, <1>2 DEF Agrees
<1>4. call'[t] = Idle /\ \A other \in Threads \ {t} : call'[other] = call[other]
  BY DEF Truncate, Leave, Kept, GrantInv, Shapes
<1>5. Same(recovered', mem') /\ FileKept'
  BY <1>1, <1>3, TruncatedFile DEF SerialInv, FileKept, Rooted, Live, Logged
<1>6. Agrees(t)'
  <2>1. call'[t].pc = "idle"
    BY <1>4 DEF Idle
  <2> QED
    BY <2>1 DEF Agrees
<1>7. /\ MemKept' /\ InFlight \subseteq {t}
      /\ mode' = "serving" \/ (mode' = "exiting" /\ List(mem', "claimed") = {})
  BY <1>1, <1>2, <1>3, MemoryKept
<1> QED
  BY <1>4, <1>5, <1>6, <1>7, OneMoves

-----------------------------------------------------------------------------
(* The process and the world around it.                                    *)

LEMMA SerialWorld ==
    ASSUME Serial, Kept, SerialInv, Tick \/ Exit \/ Crash \/ Open \/ UNCHANGED vars
    PROVE  SerialInv'
<1>1. log' = log /\ recovered' = recovered
  BY DEF Tick, Exit, Crash, Open, Stop, vars
<1>2. FileKept'
  BY <1>1, LogKept
<1>3. CASE Tick \/ UNCHANGED vars
  <2>1. mode' = mode /\ mem' = mem /\ call' = call
    BY <1>3 DEF Tick, vars
  <2>2. InFlight' = InFlight /\ \A t \in Threads : Agrees(t)'
    BY <1>1, <2>1 DEF SerialInv, InFlight, Agrees, Due, Ended, Live, Logged
  <2>3. Closed' /\ MemKept'
    BY <2>1, <2>2, MemoryKept DEF SerialInv, Closed
  <2> QED
    BY <1>1, <1>2, <2>1, <2>2, <2>3 DEF SerialInv
<1>4. CASE Exit \/ Crash
  <2>1. mode' = "down" /\ mem' = Empty /\ \A t \in Threads : call'[t] = Idle
    BY <1>4 DEF Exit, Crash, Stop
  <2>2. InFlight' = {} /\ \A t \in Threads : call'[t].pc = "idle"
    BY <2>1 DEF InFlight, Idle
  <2>3. \A t \in Threads : Agrees(t)'
    BY <2>2 DEF Agrees
  <2>4. MemKept'
    BY <2>1 DEF MemKept, Soon, IndexExact, PendingKeys, List, Live, Empty
  <2> QED
    BY <1>2, <2>1, <2>2, <2>3, <2>4 DEF SerialInv, Closed
<1>5. CASE Open
  <2>1. mode = "down" /\ mode' = "serving" /\ mem' = Load(log) /\ call' = call
    BY <1>5 DEF Open
  <2>2. mem' = recovered /\ InFlight = {}
    BY <2>1 DEF Kept, OwnedInv, Lasting
  <2>3. InFlight' = {} /\ \A t \in Threads : call'[t].pc = "idle"
    BY <2>1, <2>2 DEF InFlight, Idle
  <2>4. \A t \in Threads : Agrees(t)'
    BY <2>3 DEF Agrees
  <2>5. Same(recovered', mem') /\ MemKept'
    BY <1>1, <2>2, SameItself DEF SerialInv, FileKept, MemKept
  <2> QED
    BY <1>2, <2>1, <2>3, <2>4, <2>5 DEF SerialInv, Closed
<1> QED
  BY <1>3, <1>4, <1>5

LEMMA SerialNext ==
    ASSUME Serial, Kept, Kept', SerialInv, [Next]_vars
    PROVE  SerialInv'
<1>1. ASSUME NEW t \in Clients, \/ BeginEnqueue(t) \/ BeginComplete(t) \/ BeginFail(t)
                                \/ BeginCancel(t) \/ BeginRetry(t)
      PROVE  SerialInv'
  <2>1. Lasting /\ Shapes
    BY DEF Kept, OwnedInv, GrantInv
  <2>2. PICK event : /\ BegunEvent(event) /\ CanBegin(t) /\ Log(t, event)
                     /\ event.op \notin {"claim"}
                     /\ UNCHANGED <<mode, mem, log, clock, recovered>>
    BY <1>1, <2>1, BeginEnqueueLasts, BeginReportLasts, BeginOperatorLasts
  <2>3. /\ event \in Event /\ event.op \notin {"claim", "expire", "purge"}
        /\ event.op = "enqueue" => event.id \in FreshIds
    BY <2>2 DEF BegunEvent
  <2> QED
    BY <2>2, <2>3, SerialBegins
<1>2. ASSUME NEW t \in Clients, \/ BeginClaim(t) \/ Heartbeat(t) \/ AppendRequest(t)
                                \/ AppendRequestFails(t) \/ ApplyRequest(t)
      PROVE  SerialInv'
  <2>1. ~AppendRequestFails(t)
    BY DEF AppendRequestFails, Serial
  <2> QED
    BY <1>2, <2>1, SerialClaims, SerialHeartbeat, SerialAppends, SerialApplies
<1>3. CASE BeginReap \/ BeginShutdown \/ BeginCleanup \/ AppendPurge \/ RemovePurged
  BY <1>3, SerialReleases, SerialCleanup, SerialPurges, SerialRemoves
<1>4. CASE FinishPurge
  <2>1. Cleaner \in Threads
    BY <1>4 DEF FinishPurge, Threads
  <2> QED
    BY <1>4, <2>1, SerialSnapshot
<1>5. ASSUME NEW t \in Tasks, AppendExpire(t) \/ FinishRelease(t)
      PROVE  SerialInv'
  BY <1>5, SerialExpires, SerialReleased
<1>6. ASSUME NEW t \in Tasks, ReadMaxSeq(t) \/ ListJobs(t) \/ Save(t) \/ Truncate(t) \/ TaskFails(t)
      PROVE  SerialInv'
  <2>1. t \in Threads /\ ~TaskFails(t)
    BY DEF Threads, TaskFails, Serial
  <2> QED
    BY <1>6, <2>1, SerialSnapshot, SerialSaves, SerialTruncates
<1>7. CASE Tick \/ Exit \/ Crash \/ Open \/ UNCHANGED vars
  BY <1>7, SerialWorld
<1> QED
  BY <1>1, <1>2, <1>3, <1>4, <1>5, <1>6, <1>7 DEF Next

LEMMA KeptInvariance ==
    ASSUME JsonTimes
    PROVE  Spec => []Kept
<1>1. OwnedInv /\ GrantInv => Kept
  BY DEF Kept
<1> QED
  BY <1>1, OwnedInvariance, GrantInvariance, PTL

\* One call at a time, memory and file differ by what the call has yet to do
\* to the one or to the other, and by nothing else.
THEOREM SerialInvariance ==
    ASSUME Serial
    PROVE  Spec => []SerialInv
<1>1. Init => SerialInv
  BY SerialInit
<1>2. Kept /\ Kept' /\ SerialInv /\ [Next]_vars => SerialInv'
  BY SerialNext
<1>3. Spec => []Kept
  BY KeptInvariance DEF Serial
<1> QED
  BY <1>1, <1>2, <1>3, PTL DEF Spec

-----------------------------------------------------------------------------
(* What follows.                                                           *)

\* With one call at a time, a restart between two calls brings back the jobs
\* that were in memory, column by column as they are or as the JSON of one
\* snapshot gives them back, but for the deadlines that heartbeats moved
\* (README.md:320-322, replay.rs:6-8).
THEOREM RestartIsExact ==
    ASSUME Serial
    PROVE  Spec => []RecoveryExact
<1>1. SerialInv => RecoveryExact
  BY DEF RecoveryExact, SerialInv, Same
<1> QED
  BY <1>1, SerialInvariance, PTL

\* With one call at a time, the index of the pending jobs is exact, and no two
\* jobs have one lease, in memory and in what a crash at any point would leave:
\* the index is made anew from times that JSON has rounded (sqlite.rs:98,
\* space.rs:208-216).
THEOREM SpacesStayWellKept ==
    ASSUME Serial
    PROVE  Spec => []SpacesWellKept
<1>1. Kept /\ SerialInv => SpacesWellKept
  <2> SUFFICES ASSUME Kept, SerialInv
               PROVE  SpacesWellKept
    OBVIOUS
  <2>1. IndexExact(mem) /\ IndexExact(recovered)
    BY DEF SerialInv, FileKept, MemKept
  <2>2. LeaseExclusive(mem) /\ LeaseExclusive(recovered)
    BY RecoveredGood, GoodExclusive DEF Serial, Kept, OwnedInv, Owned
  <2> QED
    BY <2>1, <2>2 DEF SpacesWellKept
<1>2. Spec => []Kept
  BY KeptInvariance DEF Serial
<1> QED
  BY <1>1, <1>2, SerialInvariance, PTL

\* With one call at a time, a shutdown leaves no job claimed in the file
\* (persistent_space.rs:119-121).
THEOREM ShutdownReturnsAll ==
    ASSUME Serial
    PROVE  Spec => []ShutdownReturnsJobs
<1>1. Kept /\ SerialInv => ShutdownReturnsJobs
  <2> SUFFICES ASSUME Kept, SerialInv, mode = "exiting", InFlight = {},
                      NEW id \in List(recovered, "claimed")
               PROVE  FALSE
    BY DEF ShutdownReturnsJobs
  <2>1. id \in JobIds
    BY DEF List, Live
  <2>2. id \in List(mem, "claimed")
    BY <2>1, SpacesTyped, SameJobs DEF SerialInv, Serial
  <2> QED
    BY <2>2 DEF SerialInv, Closed
<1>2. Spec => []Kept
  BY KeptInvariance DEF Serial
<1> QED
  BY <1>1, <1>2, SerialInvariance, PTL

\* Releasing leases removes no job.
LEMMA ReleaseForgets ==
    ASSUME NEW s \in SpaceType, NEW ids \in SUBSET List(s, "claimed")
    PROVE  Live(s) \subseteq Live(Release(s, ids))
<1> DEFINE r == Release(s, ids)
<1>1. \A x \in JobIds : r.jobs[x] = IF x \in ids THEN Requeued(s.jobs[x]) ELSE s.jobs[x]
  BY DEF Release
<1>2. \A x \in ids : s.jobs[x] \in Job
  BY DEF List, Live, SpaceType
<1>3. \A x \in ids : Requeued(s.jobs[x]) \in Job
  BY <1>2 DEF Requeued, Job, Statuses
<1> HIDE DEF r
<1>4. Live(s) \subseteq Live(r)
  BY <1>1, <1>3, NoJobAssumption DEF Live
<1> QED
  BY <1>4 DEF r

\* Neither does a claim, nor a heartbeat.
LEMMA ClaimForgets ==
    ASSUME OwnedInv, mem \in SpaceType, NEW t \in Clients, BeginClaim(t)
    PROVE  Live(mem) \subseteq Live(mem')
<1>1. PICK type \in JobTypes : \E key \in OldestKeys(mem, type),
          lease \in FreshLeases, ttl \in Ttls, worker \in Workers \cup {Nil} :
              mem' = ClaimKey(mem, key, lease, ttl, worker, clock)
  BY DEF BeginClaim
<1>2. PICK key \in OldestKeys(mem, type), lease \in FreshLeases, ttl \in Ttls,
           worker \in Workers \cup {Nil} : mem' = ClaimKey(mem, key, lease, ttl, worker, clock)
  BY <1>1
<1> DEFINE id == key[3]
<1>3. id \in JobIds /\ lease \in LeaseIds /\ clock \in Int /\ clock + ttl \in Int
  BY BoundsAssumption DEF OldestKeys, SpaceType, FreshLeases, OwnedInv, Lasting, Times
<1>4. mem.jobs[id] # NoJob => Claimed(mem.jobs[id], lease, clock + ttl, worker, clock) \in Job
  BY <1>3, ClaimedLeased DEF SpaceType
<1> HIDE DEF id
<1>5. \A new \in Job : \A pending : Live(mem) \subseteq Live(Put(mem, id, new, pending))
  BY <1>3, NoJobAssumption DEF Put, Live, SpaceType
<1>6. \/ mem'.jobs = mem.jobs
      \/ /\ mem.jobs[id] # NoJob
         /\ \E pending : mem' = Put(mem, id, Claimed(mem.jobs[id], lease, clock + ttl, worker, clock),
                                    pending)
  BY <1>2 DEF ClaimKey, SpaceType, id
<1> QED
  BY <1>4, <1>5, <1>6 DEF Live

LEMMA HeartbeatForgets ==
    ASSUME OwnedInv, mem \in SpaceType, NEW t \in Clients, Heartbeat(t)
    PROVE  Live(mem) \subseteq Live(mem')
<1>1. PICK held \in Granted, ttl \in Ttls : mem' = ExtendLease(mem, held[1], held[2], clock + ttl)
  BY DEF Heartbeat
<1> DEFINE id  == held[1]
           job == [mem.jobs[id] EXCEPT !.lease_until = clock + ttl]
<1>2. id \in JobIds /\ clock + ttl \in Int
  BY GrantLasts, BoundsAssumption DEF OwnedInv, Lasting, Times
<1>3. mem.jobs[id] # NoJob => job \in Job
  BY <1>2 DEF SpaceType, Job
<1>4. mem' = mem \/ (mem.jobs[id] # NoJob /\ mem' = Put(mem, id, job, mem.pending))
  BY <1>1 DEF ExtendLease, CheckLease
<1> HIDE DEF id, job
<1>5. \A new \in Job : Live(mem) \subseteq Live(Put(mem, id, new, mem.pending))
  BY <1>2, NoJobAssumption DEF Put, Live, SpaceType
<1> QED
  BY <1>3, <1>4, <1>5

-----------------------------------------------------------------------------
(* What survives a crash.                                                  *)

\* Of a job that is there, and of one that is done, the same is still true.
Survives(s, t, id) ==
    /\ s.jobs[id] # NoJob => t.jobs[id] # NoJob
    /\ StatusOf(s, id) = "done" => StatusOf(t, id) = "done"

LEMMA SameSurvives ==
    ASSUME NEW a, NEW b, Same(a, b), NEW id \in JobIds,
           a.jobs[id] \in Job \cup {NoJob}, b.jobs[id] \in Job \cup {NoJob}
    PROVE  Survives(a, b, id) /\ Survives(b, a, id)
<1>1. SameJob(a.jobs[id], b.jobs[id])
  BY DEF Same
<1>2. a.jobs[id] = NoJob <=> b.jobs[id] = NoJob
  BY <1>1 DEF SameJob
<1>3. a.jobs[id] # NoJob => a.jobs[id].status = b.jobs[id].status
  BY <1>1, <1>2, SameColumns DEF SameFields
<1> QED
  BY <1>2, <1>3 DEF Survives, StatusOf

LEMMA SurvivesBoth ==
    ASSUME NEW a, NEW b, NEW c, NEW id, Survives(a, b, id), Survives(b, c, id)
    PROVE  Survives(a, c, id)
BY DEF Survives

\* An event takes no job and no outcome away, but for a purge of the job, a
\* claim of a job that is done, and a second birth.
LEMMA ApplySurvives ==
    ASSUME NEW s \in SpaceType, NEW e \in Event, NEW id \in JobIds,
           e.op = "purge" => e.id # id,
           e.op = "enqueue" => e.id \notin Live(s),
           e.op = "claim" => StatusOf(s, e.id) # "done"
    PROVE  Survives(s, Apply(s, e), id)
<1>1. CASE e.id # id
  <2>1. Apply(s, e).jobs[id] = s.jobs[id]
    BY <1>1, ApplyLocal
  <2> QED
    BY <2>1 DEF Survives, StatusOf
<1>2. CASE e.id = id
  <2> DEFINE old == s.jobs[id]
             new == Apply(s, e).jobs[id]
  <2>1. Becomes(e, old, new)
    BY <1>2, ApplyBecomes
  <2>2. /\ e.op = "enqueue" => old = NoJob
        /\ e.op = "claim" /\ old # NoJob => old.status # "done"
        /\ e.op # "purge"
    BY <1>2 DEF Live, StatusOf
  <2>3. StatusOf(s, id) = (IF old = NoJob THEN "none" ELSE old.status)
        /\ StatusOf(Apply(s, e), id) = (IF new = NoJob THEN "none" ELSE new.status)
    BY DEF StatusOf
  <2> HIDE DEF old, new
  <2>4. /\ old # NoJob => new # NoJob
        /\ old # NoJob /\ old.status = "done" => new.status = "done"
    BY <2>1, <2>2, NoJobAssumption DEF Becomes
  <2>5. Survives(s, Apply(s, e), id) <=>
            /\ old # NoJob => new # NoJob
            /\ StatusOf(s, id) = "done" => StatusOf(Apply(s, e), id) = "done"
    BY DEF Survives, old, new
  <2> QED
    BY <2>3, <2>4, <2>5
<1> QED
  BY <1>1, <1>2

\* Nor is anything lost with a claim that is not in the file.
LEMMA ClaimSurvives ==
    ASSUME NEW s \in SpaceType, NEW e \in Event, e.op = "claim", NEW id \in JobIds
    PROVE  Survives(Apply(s, e), s, id)
<1>1. CASE e.id # id
  <2>1. Apply(s, e).jobs[id] = s.jobs[id]
    BY <1>1, ApplyLocal
  <2> QED
    BY <2>1 DEF Survives, StatusOf
<1>2. CASE e.id = id
  <2>1. Becomes(e, s.jobs[id], Apply(s, e).jobs[id])
    BY <1>2, ApplyBecomes
  <2>2. \/ Apply(s, e).jobs[id] = s.jobs[id]
        \/ s.jobs[id] \in Job /\ Apply(s, e).jobs[id].status = "claimed"
    BY <2>1 DEF Becomes
  <2> QED
    BY <2>2, NoJobAssumption DEF Survives, StatusOf
<1> QED
  BY <1>1, <1>2

LEMMA ReleaseSurvives ==
    ASSUME NEW s \in SpaceType, NEW ids \in SUBSET List(s, "claimed"), NEW id \in JobIds
    PROVE  Survives(s, Release(s, ids), id)
<1>1. Release(s, ids).jobs[id] = IF id \in ids THEN Requeued(s.jobs[id]) ELSE s.jobs[id]
  BY DEF Release
<1>2. CASE id \notin ids
  BY <1>1, <1>2 DEF Survives, StatusOf
<1>3. CASE id \in ids
  <2>1. id \in Live(s) /\ s.jobs[id].status = "claimed"
    BY <1>3 DEF List
  <2>2. Release(s, ids).jobs[id] # NoJob
    BY <2>1, ReleaseForgets DEF Live
  <2> QED
    BY <2>1, <2>2 DEF Survives, StatusOf, Live
<1> QED
  BY <1>2, <1>3

LEMMA RemoveSurvives ==
    ASSUME NEW s \in SpaceType, NEW other \in JobIds, NEW id \in JobIds \ {other}
    PROVE  Survives(s, RemoveJob(s, other), id)
<1>1. RemoveJob(s, other).jobs[id] = s.jobs[id]
  BY DEF RemoveJob, Put, SpaceType
<1> QED
  BY <1>1 DEF Survives, StatusOf

\* What a call under way has found, and has written.
Going(t) ==
    /\ call[t].pc = "append" /\ call[t].event.op = "claim"
           => call[t].event.id \in List(recovered, "pending")
    /\ call[t].pc = "remove" => Logged("purge", call[t].id)
    /\ call[t] = Idle \/ call[t].pc \in {"append", "apply", "release", "purge", "remove",
                                        "max_seq", "list", "save", "truncate"}

Goes == \A t \in Threads : Going(t)

LEMMA OneGoes ==
    ASSUME NEW t \in Threads, InFlight \subseteq {t},
           \A other \in Threads \ {t} : call'[other] = call[other], Going(t)'
    PROVE  Goes'
<1>1. \A other \in Threads \ {t} : call'[other] = Idle
  BY DEF InFlight
<1>2. \A other \in Threads \ {t} : Going(other)'
  BY <1>1 DEF Going, Idle
<1> QED
  BY <1>2 DEF Goes

\* A step of the one call to a point at which nothing is asked of it.
LEMMA QuietGoes ==
    ASSUME Serial, Kept, SerialInv, NEW t \in Threads, NEW new, call' = [call EXCEPT ![t] = new],
           CanBegin(t) \/ call[t].pc # "idle",
           new = Idle \/ new.pc \in {"release", "purge", "max_seq", "list", "save", "truncate"}
    PROVE  Goes'
<1>1. InFlight \subseteq {t}
  BY BeginsAlone, GoesOnAlone
<1>2. call'[t] = new /\ \A other \in Threads \ {t} : call'[other] = call[other]
  BY ThreadMoves DEF Kept, GrantInv
<1>3. Going(t)'
  BY <1>2 DEF Going, Idle
<1> QED
  BY <1>1, <1>2, <1>3, OneGoes

LEMMA RequestGoes ==
    ASSUME Serial, Kept, SerialInv, NEW t \in Clients, NEW event, BegunEvent(event), CanBegin(t),
           Log(t, event), UNCHANGED recovered
    PROVE  Goes'
<1>1. t \in Threads
  BY DEF Threads
<1>2. InFlight = {} /\ Same(recovered, mem)
  BY <1>1, BeginsAlone
<1>3. event \in Event /\ event.id \in JobIds
  BY DEF BegunEvent, Event
<1>4. /\ call'[t].pc = "append" /\ call'[t].event = event
      /\ \A other \in Threads \ {t} : call'[other] = call[other]
  <2>1. /\ call'[t] = [pc |-> "append", event |-> event]
        /\ \A other \in Threads \ {t} : call'[other] = call[other]
    BY <1>1, ThreadMoves DEF Log, Kept, GrantInv
  <2> QED
    BY <2>1
<1>5. mem \in SpaceType /\ IndexExact(mem) /\ recovered \in SpaceType
  BY SpacesTyped DEF Serial, SerialInv, MemKept
<1>6. event.op = "claim" => event.id \in List(recovered', "pending")
  <2> SUFFICES ASSUME event.op = "claim"
               PROVE  event.id \in List(recovered, "pending")
    OBVIOUS
  <2>1. event.id \in Live(mem) /\ \E key \in mem.pending : key[3] = event.id
    BY DEF BegunEvent
  <2>2. event.id \in List(mem, "pending")
    BY <1>3, <1>5, <2>1, KeyIndexed DEF List, Live
  <2> QED
    BY <1>2, <1>3, <1>5, <2>2, SameJobs
<1>7. Going(t)'
  BY <1>4, <1>6 DEF Going
<1> QED
  BY <1>1, <1>2, <1>4, <1>7, OneGoes

LEMMA GoesNext ==
    ASSUME Serial, Kept, SerialInv, Goes, [Next]_vars
    PROVE  Goes'
<1>0. /\ Clients \subseteq Threads /\ Tasks \subseteq Threads
      /\ Lasting /\ Shapes /\ mem \in SpaceType /\ Idle.pc = "idle"
  BY SpacesTyped DEF Threads, Serial, Kept, OwnedInv, GrantInv, Idle
<1>1. ASSUME call' = call, recovered' = recovered, log' = log
      PROVE  Goes'
  BY <1>1 DEF Goes, Going, Logged, Live, List
<1>2. ASSUME NEW t \in Clients, \/ BeginEnqueue(t) \/ BeginComplete(t) \/ BeginFail(t)
                                \/ BeginCancel(t) \/ BeginRetry(t)
      PROVE  Goes'
  <2>1. PICK event : /\ BegunEvent(event) /\ CanBegin(t) /\ Log(t, event)
                     /\ UNCHANGED <<mode, mem, log, clock, recovered>>
    BY <1>0, <1>2, BeginEnqueueLasts, BeginReportLasts, BeginOperatorLasts
  <2> QED
    BY <2>1, RequestGoes
<1>3. ASSUME NEW t \in Clients, BeginClaim(t) \/ Heartbeat(t)
      PROVE  Goes'
  <2>1. \/ \E event : BegunEvent(event) /\ CanBegin(t) /\ Log(t, event) /\ event.op = "claim" /\ UNCHANGED recovered
        \/ call' = call /\ recovered' = recovered /\ log' = log
    BY <1>0, <1>3, BeginClaimLasts DEF Heartbeat
  <2> QED
    BY <1>1, <2>1, RequestGoes
<1>4. ASSUME NEW t \in Clients, AppendRequest(t) \/ AppendRequestFails(t)
      PROVE  Goes'
  <2> DEFINE event == call[t].event
  <2>1. /\ t \in Threads /\ call[t].pc = "append" /\ mem' = mem
        /\ call' = [call EXCEPT ![t] = IF event.op = "claim" THEN Idle
                                       ELSE [pc |-> "apply", event |-> event]]
    BY <1>0, <1>4 DEF AppendRequest, AppendRequestFails, Serial
  <2> HIDE DEF event
  <2>2. CASE event.op = "claim"
    BY <1>0, <2>1, <2>2, QuietGoes
  <2>3. CASE event.op # "claim"
    <3>1. /\ call'[t] = [pc |-> "apply", event |-> event]
          /\ \A other \in Threads \ {t} : call'[other] = call[other]
      BY <1>0, <2>1, <2>3, ThreadMoves
    <3>2. call'[t].pc = "apply" /\ call'[t].event = event
      BY <3>1
    <3>3. Going(t)'
      BY <3>2 DEF Going
    <3>4. InFlight \subseteq {t}
      BY <2>1, GoesOnAlone
    <3> QED
      BY <2>1, <3>1, <3>3, <3>4, OneGoes
  <2> QED
    BY <2>2, <2>3
<1>5. ASSUME NEW t \in Clients, ApplyRequest(t)
      PROVE  Goes'
  BY <1>0, <1>5, QuietGoes DEF ApplyRequest
<1>6. CASE BeginReap \/ BeginShutdown \/ BeginCleanup
  <2>1. ASSUME NEW t \in Tasks, CanBegin(t), NEW ids, NEW until, BeginRelease(t, ids, until)
        PROVE  Goes'
    <3> DEFINE new == [pc |-> "release", todo |-> ids, ts |-> clock, until |-> until]
    <3>1. new.pc = "release" /\ call' = [call EXCEPT ![t] = new]
      BY <2>1 DEF BeginRelease
    <3> HIDE DEF new
    <3> QED
      BY <1>0, <2>1, <3>1, QuietGoes
  <2>2. CASE BeginReap
    BY <2>1, <2>2 DEF BeginReap
  <2>3. CASE BeginShutdown
    BY <2>1, <2>3 DEF BeginShutdown
  <2>4. CASE BeginCleanup
    <3> DEFINE new == [pc |-> "purge", todo |-> Purgeable, ts |-> clock]
    <3>1. new.pc = "purge" /\ call' = [call EXCEPT ![Cleaner] = new]
      BY <2>4 DEF BeginCleanup
    <3>2. Cleaner \in Threads /\ CanBegin(Cleaner)
      BY <1>0, <2>4 DEF BeginCleanup
    <3> HIDE DEF new
    <3> QED
      BY <3>1, <3>2, QuietGoes
  <2> QED
    BY <1>6, <2>2, <2>3, <2>4
<1>7. CASE AppendPurge
  <2> DEFINE t == Cleaner
  <2>1. PICK id \in call[t].todo :
            /\ log' = AppendEvent(log, [op |-> "purge", id |-> id, ts |-> call[t].ts])
            /\ call' = [call EXCEPT ![t] = [pc |-> "remove", id |-> id,
                                            todo |-> @.todo \ {id}, ts |-> @.ts]]
    BY <1>7 DEF AppendPurge, WriteLog
  <2> DEFINE event == [op |-> "purge", id |-> id, ts |-> call[t].ts]
  <2>2. t \in Threads /\ call[t].pc = "purge"
    BY <1>0, <1>7 DEF AppendPurge
  <2>3. id \in JobIds /\ call[t].ts \in Int
    BY <2>1, <2>2 DEF Kept, OwnedInv, Lasting, CallTyped
  <2>4. event \in Event /\ event.op = "purge" /\ event.id = id
    BY <2>3 DEF Event
  <2>5. /\ call'[t] = [pc |-> "remove", id |-> id, todo |-> call[t].todo \ {id}, ts |-> call[t].ts]
        /\ \A other \in Threads \ {t} : call'[other] = call[other]
    BY <1>0, <2>1, <2>2, ThreadMoves
  <2>6. call'[t].pc = "remove" /\ call'[t].id = id
    BY <2>5
  <2>7. ToSet(log'.events) = ToSet(log.events) \cup {event}
    <3> HIDE DEF Event
    <3> QED
      BY <1>0, <2>1, <2>4, EventWritten DEF Lasting
  <2> HIDE DEF event
  <2>8. Logged("purge", id)'
    BY <2>4, <2>7 DEF Logged
  <2>9. Going(t)'
    BY <2>6, <2>8 DEF Going, Logged
  <2>10. InFlight \subseteq {t}
    BY <2>2, GoesOnAlone
  <2> HIDE DEF t
  <2> QED
    BY <2>2, <2>5, <2>9, <2>10, OneGoes
<1>8. CASE RemovePurged \/ FinishPurge
  <2> DEFINE next == [pc |-> "purge", todo |-> call[Cleaner].todo, ts |-> call[Cleaner].ts]
             over == [pc |-> "max_seq"]
  <2>1. call' = [call EXCEPT ![Cleaner] = next] \/ call' = [call EXCEPT ![Cleaner] = over]
    BY <1>8 DEF RemovePurged, FinishPurge
  <2>2. next.pc = "purge" /\ over.pc = "max_seq"
    OBVIOUS
  <2>3. Cleaner \in Threads /\ call[Cleaner].pc # "idle"
    BY <1>0, <1>8 DEF RemovePurged, FinishPurge
  <2> HIDE DEF next, over
  <2> QED
    BY <2>1, <2>2, <2>3, QuietGoes
<1>9. ASSUME NEW t \in Tasks, AppendExpire(t)
      PROVE  Goes'
  <2>1. PICK id : call' = [call EXCEPT ![t].todo = @ \ {id}]
    BY <1>9 DEF AppendExpire
  <2> DEFINE new == [call[t] EXCEPT !.todo = @ \ {id}]
  <2>2. new.pc = call[t].pc /\ call[t].pc = "release"
    BY <1>9 DEF AppendExpire
  <2>3. call' = [call EXCEPT ![t] = new]
    BY <2>1
  <2> HIDE DEF new
  <2> QED
    BY <1>0, <2>2, <2>3, QuietGoes
<1>10. ASSUME NEW t \in Tasks, \/ FinishRelease(t) \/ ReadMaxSeq(t) \/ ListJobs(t) \/ Save(t)
                               \/ Truncate(t) \/ TaskFails(t)
       PROVE  Goes'
  <2>1. call[t].pc # "idle"
    BY <1>10 DEF FinishRelease, ReadMaxSeq, ListJobs, Save, Truncate, TaskFails
  <2>2. CASE FinishRelease(t)
    <3> DEFINE new == IF t = Main THEN [pc |-> "max_seq"] ELSE Idle
    <3>1. call' = [call EXCEPT ![t] = new] /\ (new = Idle \/ new.pc = "max_seq")
      BY <1>0, <2>2 DEF FinishRelease
    <3> HIDE DEF new
    <3> QED
      BY <1>0, <2>1, <3>1, QuietGoes
  <2>3. CASE ~FinishRelease(t)
    <3>1. PICK new : /\ new = Idle \/ new.pc \in {"list", "save", "truncate"}
                     /\ call' = [call EXCEPT ![t] = new]
      BY <1>0, <1>10, <2>3 DEF ReadMaxSeq, ListJobs, Save, Truncate, TaskFails, Leave
    <3> QED
      BY <1>0, <2>1, <3>1, QuietGoes
  <2> QED
    BY <2>2, <2>3
<1>11. CASE Tick \/ Exit \/ Crash \/ Open \/ UNCHANGED vars
  <2>1. CASE Tick \/ UNCHANGED vars
    BY <1>1, <2>1 DEF Tick, vars
  <2>2. CASE Exit \/ Crash
    <3>1. \A t \in Threads : call'[t] = Idle
      BY <2>2 DEF Exit, Crash, Stop
    <3> QED
      BY <3>1 DEF Goes, Going, Idle
  <2>3. CASE Open
    BY <1>1, <2>3 DEF Open
  <2> QED
    BY <1>11, <2>1, <2>2, <2>3
<1> QED
  BY <1>2, <1>3, <1>4, <1>5, <1>6, <1>7, <1>8, <1>9, <1>10, <1>11 DEF Next

LEMMA GoesInvariance ==
    ASSUME Serial
    PROVE  Spec => []Goes
<1>1. Init => Goes
  BY DEF Init, Goes, Going, Idle
<1>2. Kept /\ SerialInv /\ Goes /\ [Next]_vars => Goes'
  BY GoesNext
<1>3. Spec => []Kept
  BY KeptInvariance DEF Serial
<1> QED
  BY <1>1, <1>2, <1>3, SerialInvariance, PTL DEF Spec

\* Each write of a job leaves a job, or none.
LEMMA ApplyTyped ==
    ASSUME NEW s \in SpaceType, NEW e \in Event, NEW id \in JobIds
    PROVE  Apply(s, e).jobs[id] \in Job \cup {NoJob}
<1>1. s.jobs[id] \in Job \cup {NoJob}
  BY DEF SpaceType
<1>2. CASE e.id # id
  BY <1>1, <1>2, ApplyLocal
<1>3. CASE e.id = id
  <2> DEFINE old == s.jobs[id]
             new == Apply(s, e).jobs[id]
  <2>1. Becomes(e, old, new) /\ old \in Job \cup {NoJob}
    BY <1>1, <1>3, ApplyBecomes
  <2> HIDE DEF old, new
  <2>2. new \in Job \cup {NoJob}
    BY <2>1 DEF Becomes
  <2> QED
    BY <2>2 DEF new
<1> QED
  BY <1>2, <1>3

LEMMA ReleaseTyped ==
    ASSUME NEW s \in SpaceType, NEW ids \in SUBSET List(s, "claimed"), NEW id \in JobIds
    PROVE  Release(s, ids).jobs[id] \in Job \cup {NoJob}
<1>1. s.jobs[id] \in Job \cup {NoJob} /\ (id \in ids => s.jobs[id] \in Job)
  BY DEF SpaceType, List, Live
<1>2. id \in ids => Requeued(s.jobs[id]) \in Job
  BY <1>1 DEF Requeued, Job, Statuses
<1> QED
  BY <1>1, <1>2 DEF Release

LEMMA RemoveTyped ==
    ASSUME NEW s \in SpaceType, NEW other \in JobIds, NEW id \in JobIds
    PROVE  RemoveJob(s, other).jobs[id] \in Job \cup {NoJob}
BY DEF RemoveJob, Put, SpaceType

\* What a process that stops leaves in the file: of what memory had, all but
\* what a purge under way has noted.
LEMMA StopSurvives ==
    ASSUME Serial, Kept, SerialInv, Goes, mode # "down", NEW id \in JobIds
    PROVE  Survives(mem, recovered, id) \/ Logged("purge", id)
<1>1. mem \in SpaceType /\ recovered \in SpaceType
  BY SpacesTyped DEF Serial
<1>0. mem.jobs[id] \in Job \cup {NoJob} /\ recovered.jobs[id] \in Job \cup {NoJob}
  BY <1>1 DEF SpaceType
<1>2. Same(recovered, mem) => Survives(mem, recovered, id)
  BY <1>0, SameSurvives
<1>3. CASE InFlight = {}
  BY <1>2, <1>3 DEF SerialInv
<1>4. ASSUME NEW t \in InFlight
      PROVE  Survives(mem, recovered, id) \/ Logged("purge", id)
  <2>1. t \in Threads /\ Agrees(t) /\ Going(t) /\ CallTyped(t)
    BY <1>4 DEF InFlight, SerialInv, Goes, Kept, OwnedInv, Lasting
  <2> DEFINE event == call[t].event
  <2>2. CASE call[t].pc = "append" /\ event.op = "claim"
    <3> DEFINE read == ReadEvent(event)
    <3>1. event \in Event /\ Same(Apply(recovered, read), mem)
      BY <2>1, <2>2 DEF CallTyped, Agrees
    <3> HIDE DEF event
    <3>2. read \in Event /\ read.op = "claim"
      BY <2>2, <3>1, ReadEventType DEF Serial
    <3> HIDE DEF read
    <3>3. Apply(recovered, read).jobs[id] \in Job \cup {NoJob}
      BY <1>1, <3>2, ApplyTyped
    <3>4. Survives(mem, Apply(recovered, read), id)
      BY <1>0, <3>1, <3>3, SameSurvives
    <3>5. Survives(Apply(recovered, read), recovered, id)
      BY <1>1, <3>2, ClaimSurvives
    <3> QED
      BY <3>4, <3>5, SurvivesBoth
  <2>3. CASE call[t].pc = "append" /\ event.op # "claim"
    BY <1>2, <2>1, <2>3 DEF Agrees
  <2>4. CASE call[t].pc = "apply"
    <3>1. /\ event \in Event /\ event.op \notin {"claim", "purge"}
          /\ Same(recovered, Apply(mem, event))
          /\ event.op = "enqueue" => event.id \notin Live(mem)
      BY <2>1, <2>4 DEF CallTyped, Agrees
    <3> HIDE DEF event
    <3>2. Survives(mem, Apply(mem, event), id)
      BY <1>1, <3>1, ApplySurvives
    <3>3. Apply(mem, event).jobs[id] \in Job \cup {NoJob}
      BY <1>1, <3>1, ApplyTyped
    <3>4. Survives(Apply(mem, event), recovered, id)
      BY <1>0, <3>1, <3>3, SameSurvives
    <3> QED
      BY <3>2, <3>4, SurvivesBoth
  <2>5. CASE call[t].pc = "release"
    <3> DEFINE ids == Due(t) \ call[t].todo
    <3>1. ids \in SUBSET List(mem, "claimed") /\ Same(recovered, Release(mem, ids))
      BY <2>1, <2>5 DEF Agrees, Due, Expired
    <3> HIDE DEF ids
    <3>2. Release(mem, ids).jobs[id] \in Job \cup {NoJob}
      BY <1>1, <3>1, ReleaseTyped
    <3>3. Survives(mem, Release(mem, ids), id)
      BY <1>1, <3>1, ReleaseSurvives
    <3>4. Survives(Release(mem, ids), recovered, id)
      BY <1>0, <3>1, <3>2, SameSurvives
    <3> QED
      BY <3>3, <3>4, SurvivesBoth
  <2>6. CASE call[t].pc = "remove"
    <3> DEFINE other == call[t].id
    <3>1. other \in JobIds /\ Logged("purge", other) /\ Same(recovered, RemoveJob(mem, other))
      BY <2>1, <2>6 DEF CallTyped, Agrees, Going
    <3> HIDE DEF other
    <3>2. CASE other = id
      BY <3>1, <3>2
    <3>3. CASE other # id
      <4>1. RemoveJob(mem, other).jobs[id] \in Job \cup {NoJob}
        BY <1>1, <3>1, RemoveTyped
      <4>2. Survives(mem, RemoveJob(mem, other), id)
        BY <1>1, <3>1, <3>3, RemoveSurvives
      <4>3. Survives(RemoveJob(mem, other), recovered, id)
        BY <1>0, <3>1, <4>1, SameSurvives
      <4> QED
        BY <4>2, <4>3, SurvivesBoth
    <3> QED
      BY <3>2, <3>3
  <2>7. CASE call[t].pc \in {"purge", "max_seq", "list", "save", "truncate"}
    BY <1>2, <2>1, <2>7 DEF Agrees
  <2>8. call[t].pc \in {"append", "apply", "release", "purge", "remove", "max_seq", "list",
                        "save", "truncate"}
    BY <1>4, <2>1 DEF Going, InFlight
  <2> QED
    BY <2>2, <2>3, <2>4, <2>5, <2>6, <2>7, <2>8
<1> QED
  BY <1>3, <1>4

\* A claim takes a job that waits, and a heartbeat no job at all.
LEMMA ClaimKeySurvives ==
    ASSUME NEW s \in SpaceType, IndexExact(s), NEW key \in s.pending, NEW lease, NEW ttl,
           NEW worker, NEW now, NEW id \in JobIds,
           Live(s) \subseteq Live(ClaimKey(s, key, lease, ttl, worker, now))
    PROVE  Survives(s, ClaimKey(s, key, lease, ttl, worker, now), id)
<1> DEFINE t == ClaimKey(s, key, lease, ttl, worker, now)
<1>1. key[3] \in JobIds
  BY DEF SpaceType
<1>2. s.jobs[key[3]] # NoJob => s.jobs[key[3]].status = "pending"
  BY <1>1, KeyIndexed
<1>3. t.jobs[id] = s.jobs[id] \/ (id = key[3] /\ s.jobs[id] # NoJob)
  BY DEF ClaimKey, Put, SpaceType
<1>4. s.jobs[id] # NoJob => t.jobs[id] # NoJob
  BY DEF Live
<1> HIDE DEF t
<1>5. Survives(s, t, id)
  BY <1>2, <1>3, <1>4 DEF Survives, StatusOf
<1> QED
  BY <1>5 DEF t

LEMMA ExtendSurvives ==
    ASSUME NEW s \in SpaceType, NEW held, NEW lease, NEW until, NEW id \in JobIds,
           Live(s) \subseteq Live(ExtendLease(s, held, lease, until))
    PROVE  Survives(s, ExtendLease(s, held, lease, until), id)
<1> DEFINE t == ExtendLease(s, held, lease, until)
<1>1. t.jobs[id] = s.jobs[id] \/ (id = held /\ s.jobs[id] # NoJob /\ s.jobs[id].status = "claimed")
  BY DEF ExtendLease, CheckLease, Put, SpaceType
<1>2. s.jobs[id] # NoJob => t.jobs[id] # NoJob
  BY DEF Live
<1> HIDE DEF t
<1>3. Survives(s, t, id)
  BY <1>1, <1>2 DEF Survives, StatusOf
<1> QED
  BY <1>3 DEF t

\* What a step leaves of a job: a start finds the file's jobs, a stop leaves
\* them, and any other step is one of memory.
LEMMA StepSurvives ==
    ASSUME Serial, Kept, Kept', SerialInv, Goes, [Next]_vars, NEW id \in JobIds
    PROVE  Survives(Current, Current', id) \/ Logged("purge", id)'
<1>1. /\ mem \in SpaceType /\ IndexExact(mem) /\ Lasting
      /\ Clients \subseteq Threads /\ Tasks \subseteq Threads
  BY SpacesTyped DEF Serial, Kept, OwnedInv, Threads, SerialInv, MemKept
<1>2. ASSUME NEW s
      PROVE  Survives(s, s, id)
  BY DEF Survives
<1>3. CASE mode = "down"
  <2>1. \A t \in Threads : call[t] = Idle /\ call[t].pc = "idle" /\ ~CanBegin(t)
    BY <1>1, <1>3 DEF Lasting, InFlight, Idle, CanBegin
  <2>2. Open \/ Tick \/ UNCHANGED vars
    <3>1. ASSUME NEW t \in Clients
          PROVE  ~ (\/ BeginEnqueue(t) \/ BeginClaim(t) \/ BeginComplete(t) \/ BeginFail(t)
                    \/ BeginCancel(t) \/ BeginRetry(t) \/ Heartbeat(t) \/ AppendRequest(t)
                    \/ AppendRequestFails(t) \/ ApplyRequest(t))
      BY <1>1, <2>1 DEF BeginEnqueue, BeginClaim, BeginComplete, BeginFail, BeginReport, BeginCancel,
                        BeginRetry, Heartbeat, Request, AppendRequest, AppendRequestFails, ApplyRequest
    <3>2. ASSUME NEW t \in Tasks
          PROVE  ~ (\/ AppendExpire(t) \/ FinishRelease(t) \/ ReadMaxSeq(t) \/ ListJobs(t)
                    \/ Save(t) \/ Truncate(t) \/ TaskFails(t))
      BY <1>1, <2>1 DEF AppendExpire, FinishRelease, ReadMaxSeq, ListJobs, Save, Truncate, TaskFails
    <3>3. ~ (\/ BeginReap \/ BeginShutdown \/ BeginCleanup \/ AppendPurge \/ RemovePurged
             \/ FinishPurge \/ Exit \/ Crash)
      BY <1>1, <1>3, <2>1 DEF BeginReap, BeginShutdown, BeginCleanup, AppendPurge, RemovePurged,
                              FinishPurge, Exit, Crash
    <3> QED
      BY <3>1, <3>2, <3>3 DEF Next
  <2>3. CASE Open
    <3>1. Current = recovered /\ Current' = Load(log)
      BY <1>3, <2>3 DEF Current, Open
    <3> QED
      BY <1>1, <1>2, <3>1 DEF Lasting
  <2>4. CASE Tick \/ UNCHANGED vars
    <3>1. Current = recovered /\ Current' = recovered
      BY <1>3, <2>4 DEF Current, Tick, vars
    <3> QED
      BY <1>2, <3>1
  <2> QED
    BY <2>2, <2>3, <2>4
<1>4. CASE mode # "down" /\ (Exit \/ Crash)
  <2>1. Current = mem /\ Current' = recovered /\ log' = log
    BY <1>4 DEF Current, Exit, Crash, Stop
  <2>2. Survives(mem, recovered, id) \/ Logged("purge", id)
    BY <1>4, StopSurvives
  <2> QED
    BY <2>1, <2>2 DEF Logged
<1>5. CASE mode # "down" /\ ~(Exit \/ Crash)
  <2>1. Current = mem /\ Current' = mem' /\ ~Open
    <3>1. mode' # "down"
      BY <1>5, <1>1 DEF Next, vars, Lasting, BeginEnqueue, BeginClaim, BeginComplete, BeginFail,
                BeginReport, BeginCancel, BeginRetry, Heartbeat, AppendRequest, AppendRequestFails,
                ApplyRequest, BeginReap, BeginShutdown, BeginCleanup, AppendPurge, RemovePurged,
                FinishPurge, AppendExpire, FinishRelease, ReadMaxSeq, ListJobs, Save, Truncate,
                TaskFails, Leave, Tick, Open
    <3> QED
      BY <1>5, <3>1 DEF Current, Open
  <2>2. SUFFICES Survives(mem, mem', id) \/ Logged("purge", id)'
    BY <2>1
  <2>3. ASSUME NEW t \in Clients, BeginClaim(t)
        PROVE  Survives(mem, mem', id)
    <3>1. PICK type \in JobTypes : \E key \in OldestKeys(mem, type),
              lease \in FreshLeases, ttl \in Ttls, worker \in Workers \cup {Nil} :
                  mem' = ClaimKey(mem, key, lease, ttl, worker, clock)
      BY <2>3 DEF BeginClaim
    <3>2. PICK key \in OldestKeys(mem, type), lease \in FreshLeases, ttl \in Ttls,
               worker \in Workers \cup {Nil} : mem' = ClaimKey(mem, key, lease, ttl, worker, clock)
      BY <3>1
    <3>3. key \in mem.pending
      BY DEF OldestKeys
    <3>4. Live(mem) \subseteq Live(mem')
      BY <1>1, <2>3, ClaimForgets DEF Kept
    <3> QED
      BY <1>1, <3>2, <3>3, <3>4, ClaimKeySurvives
  <2>4. ASSUME NEW t \in Clients, Heartbeat(t)
        PROVE  Survives(mem, mem', id)
    <3>1. PICK held \in Granted, ttl \in Ttls : mem' = ExtendLease(mem, held[1], held[2], clock + ttl)
      BY <2>4 DEF Heartbeat
    <3>2. Live(mem) \subseteq Live(mem')
      BY <1>1, <2>4, HeartbeatForgets DEF Kept
    <3> QED
      BY <1>1, <3>1, <3>2, ExtendSurvives
  <2>5. ASSUME NEW t \in Clients, ApplyRequest(t)
        PROVE  Survives(mem, mem', id)
    <3> DEFINE event == call[t].event
    <3>1. t \in Threads /\ call[t].pc = "apply" /\ mem' = Apply(mem, event)
      BY <1>1, <2>5 DEF ApplyRequest
    <3>2. /\ event \in Event /\ event.op # "purge"
          /\ event.op # "claim"
          /\ event.op = "enqueue" => event.id \notin Live(mem)
      BY <1>1, <3>1 DEF Lasting, CallTyped, SerialInv, Agrees
    <3> HIDE DEF event
    <3> QED
      BY <1>1, <3>1, <3>2, ApplySurvives
  <2>6. ASSUME NEW t \in Tasks, FinishRelease(t)
        PROVE  Survives(mem, mem', id)
    <3>1. mem' = Release(mem, Expired(mem, call[t].until))
      BY <2>6 DEF FinishRelease, ExpireLeases
    <3> QED
      BY <1>1, <3>1, ReleaseSurvives DEF Expired
  <2>7. CASE RemovePurged
    <3> DEFINE other == call[Cleaner].id
    <3>1. /\ Cleaner \in Threads /\ call[Cleaner].pc = "remove"
          /\ mem' = RemoveJob(mem, other) /\ log' = log
      BY <1>1, <2>7 DEF RemovePurged
    <3>2. other \in JobIds /\ Logged("purge", other)
      BY <1>1, <3>1 DEF Lasting, CallTyped, Goes, Going
    <3> HIDE DEF other
    <3>3. CASE other = id
      BY <3>1, <3>2, <3>3 DEF Logged
    <3>4. CASE other # id
      BY <1>1, <3>1, <3>2, <3>4, RemoveSurvives
    <3> QED
      BY <3>3, <3>4
  <2>8. \/ mem' = mem \/ RemovePurged
        \/ \E t \in Clients : BeginClaim(t) \/ Heartbeat(t) \/ ApplyRequest(t)
        \/ \E t \in Tasks : FinishRelease(t)
    BY <1>5, <2>1 DEF Next, vars, BeginEnqueue, BeginComplete, BeginFail, BeginReport, BeginCancel,
                BeginRetry, AppendRequest, AppendRequestFails, BeginReap, BeginShutdown,
                BeginCleanup, AppendPurge, FinishPurge, AppendExpire, ReadMaxSeq, ListJobs,
                Save, Truncate, TaskFails, Tick
  <2> QED
    BY <1>2, <2>3, <2>4, <2>5, <2>6, <2>7, <2>8
<1> QED
  BY <1>3, <1>4, <1>5

\* A job that was enqueued is not lost, across crashes, restarts and
\* compaction, until it is purged: with one call at a time and a file that can
\* be written (README.md:320-322).
THEOREM JobsSurvive ==
    ASSUME Serial
    PROVE  Spec => JobSurvives
<1> DEFINE Stays == \A id \in JobIds :
                        id \in Live(Current) => id \in Live(Current)' \/ Logged("purge", id)'
<1>1. Kept /\ Kept' /\ SerialInv /\ Goes /\ [Next]_vars => Stays
  BY StepSurvives DEF Survives, Live
<1>2. Spec => []Kept
  BY KeptInvariance DEF Serial
<1>3. Kept /\ Kept' /\ SerialInv /\ Goes /\ [Next]_vars => [Stays]_vars
  BY <1>1
<1> QED
  BY <1>2, <1>3, SerialInvariance, GoesInvariance, PTL DEF Spec, JobSurvives

\* So is the outcome of a job that is done.
THEOREM OutcomesSurvive ==
    ASSUME Serial
    PROVE  Spec => DoneSurvives
<1> DEFINE Stays == \A id \in JobIds :
                        StatusOf(Current, id) = "done"
                        => StatusOf(Current', id) = "done" \/ Logged("purge", id)'
<1>1. Kept /\ Kept' /\ SerialInv /\ Goes /\ [Next]_vars => Stays
  BY StepSurvives DEF Survives
<1>2. Spec => []Kept
  BY KeptInvariance DEF Serial
<1>3. Kept /\ Kept' /\ SerialInv /\ Goes /\ [Next]_vars => [Stays]_vars
  BY <1>1
<1> QED
  BY <1>2, <1>3, SerialInvariance, GoesInvariance, PTL DEF Spec, DoneSurvives

-----------------------------------------------------------------------------
(* The file is an abstract queue: an event that is written moves its job   *)
(* the way JobQueue allows, and nothing else that is done to the file, a   *)
(* crash and a restart included, is seen by it.                            *)

\* The jobs, the good leases and the grants, as the queue sees the file.
Stage == Shows(recovered.jobs, "enqueue")
Holder == Holds(recovered.jobs)
Leased == {e.lease : e \in {x \in ToSet(log.events) : x.op = "claim"}}

\* An event that is news to the file: the birth of a job that had none, or a
\* claim of a job that waits, with a lease that none had.
News(e) ==
    /\ e.op = "enqueue" => ~Logged("enqueue", e.id)
    /\ e.op = "claim" => e.id \in List(recovered, "pending") /\ e.lease \notin Leased

\* A step that writes an event.
Writes(event) ==
    /\ log' = AppendEvent(log, event)
    /\ recovered' = Load(log')
    /\ News(event)
    /\ event.op = "claim" => event.until < Forever

\* The step as the queue sees it.
QueueMoves == Durable!Next \/ UNCHANGED Durable!vars

\* One job moves: the others stay where they are.
LEMMA OneStage ==
    ASSUME NEW e \in Event, recovered \in SpaceType, recovered' = Apply(recovered, e),
           NEW written, written.op = e.op, written.id = e.id,
           e.op = "claim" => written.lease = e.lease,
           ToSet(log'.events) = ToSet(log.events) \cup {written},
           NEW to, to = (IF recovered'.jobs[e.id] # NoJob THEN recovered'.jobs[e.id].status
                         ELSE IF Logged("enqueue", e.id) THEN "removed" ELSE "unborn"),
           e.op = "enqueue" => recovered'.jobs[e.id] # NoJob,
           NEW lease, lease = (IF recovered'.jobs[e.id] # NoJob
                               THEN recovered'.jobs[e.id].lease_id ELSE Nil)
    PROVE  /\ Stage' = [Stage EXCEPT ![e.id] = to]
           /\ Holder' = [Holder EXCEPT ![e.id] = lease]
           /\ Leased' = IF e.op = "claim" THEN Leased \cup {e.lease} ELSE Leased
<1>1. e.id \in JobIds
  BY DEF Event
<1>2. \A id \in JobIds \ {e.id} : recovered'.jobs[id] = recovered.jobs[id]
  BY ApplyLocal
<1> HIDE DEF Event
<1>3. \A id \in JobIds : Logged("enqueue", id)' <=>
          Logged("enqueue", id) \/ (e.op = "enqueue" /\ e.id = id)
  BY DEF Logged
<1>4. Stage' = [Stage EXCEPT ![e.id] = to]
  BY <1>1, <1>2, <1>3 DEF Stage, Shows
<1>5. Holder' = [Holder EXCEPT ![e.id] = lease]
  BY <1>1, <1>2 DEF Holder, Holds
<1>6. Leased' = IF e.op = "claim" THEN Leased \cup {e.lease} ELSE Leased
  BY DEF Leased
<1> QED
  BY <1>4, <1>5, <1>6

\* The steps of the queue, read off a move.
LEMMA StageSteps ==
    ASSUME NEW e, e.id \in JobIds, NEW to, NEW lease,
           Stage' = [Stage EXCEPT ![e.id] = to], Holder' = [Holder EXCEPT ![e.id] = lease],
           Leased' = IF e.op = "claim" THEN Leased \cup {e.lease} ELSE Leased,
           e.op = "claim" => e.lease \in LeaseIds \ Leased,
           TakesStep(e, Stage[e.id], to, Holder[e.id], lease)
    PROVE  QueueMoves
<1> DEFINE id == e.id
<1>1. /\ Stage = [x \in JobIds |-> Stage[x]]
      /\ Holder = [x \in JobIds |-> Holder[x]]
  BY DEF Stage, Shows, Holder, Holds
<1>2. CASE e.op = "claim"
  <2>1. /\ Stage[id] = "pending" /\ to = "claimed" /\ lease = e.lease
        /\ e.lease \in LeaseIds /\ e.lease \notin Leased /\ Leased' = Leased \cup {e.lease}
    BY <1>2 DEF TakesStep
  <2>2. Durable!Grant(id, e.lease)
    BY <1>1, <1>2, <2>1 DEF Durable!Grant, Durable!Move, Stage, Holder, Leased
  <2> QED
    BY <2>1, <2>2 DEF QueueMoves, Durable!Next
<1>3. CASE e.op # "claim"
  <2>1. \/ Stage[id] = to /\ lease = Holder[id]
        \/ Stage[id] = "unborn" /\ to = "pending" /\ lease = Holder[id]
        \/ Stage[id] = "pending" /\ to = "cancelled" /\ lease = Holder[id]
        \/ Stage[id] = "failed" /\ to = "pending" /\ lease = Holder[id]
        \/ Stage[id] = "claimed" /\ to \in {"done", "failed", "pending"} /\ lease = Nil
        \/ Stage[id] \notin {"unborn", "removed"} /\ to = "removed" /\ lease = Nil
    BY <1>3 DEF TakesStep
  <2>2. /\ lease = Holder[id] =>
               /\ Stage[id] = to => UNCHANGED Durable!vars
               /\ Stage[id] = "unborn" /\ to = "pending" => Durable!Submit(id)
               /\ Stage[id] = "pending" /\ to = "cancelled" => Durable!Withdraw(id)
               /\ Stage[id] = "failed" /\ to = "pending" => Durable!Revive(id)
        /\ lease = Nil =>
               /\ Stage[id] = "claimed" /\ to = "done" => Durable!Finish(id)
               /\ Stage[id] = "claimed" /\ to = "failed" => Durable!GiveUp(id)
               /\ Stage[id] = "claimed" /\ to = "pending" => Durable!Return({id})
               /\ Stage[id] \notin {"unborn", "removed"} /\ to = "removed" => Durable!Forget(id)
    BY <1>1, <1>3 DEF Durable!Submit, Durable!Finish, Durable!GiveUp, Durable!Return,
           Durable!Withdraw, Durable!Revive, Durable!Forget, Durable!Move, Durable!TakeBack,
           Durable!vars, Stage, Holder, Leased
  <2>3. /\ \/ Durable!Submit(id) \/ Durable!Withdraw(id) \/ Durable!Revive(id) \/ Durable!Finish(id)
           \/ Durable!GiveUp(id) \/ Durable!Return({id}) \/ Durable!Forget(id)
           => QueueMoves
        /\ UNCHANGED Durable!vars => QueueMoves
    BY DEF QueueMoves, Durable!Next
  <2> QED
    BY <2>1, <2>2, <2>3
<1> QED
  BY <1>2, <1>3

LEMMA EventMoves ==
    ASSUME NEW e \in Event, recovered \in SpaceType, recovered' = Apply(recovered, e),
           NEW written, written.op = e.op, written.id = e.id,
           e.op = "claim" => written.lease = e.lease,
           ToSet(log'.events) = ToSet(log.events) \cup {written}, Rooted, News(e)
    PROVE  QueueMoves
<1> DEFINE id    == e.id
           old   == recovered.jobs[id]
           new   == recovered'.jobs[id]
           known == Logged("enqueue", id)
<1>1. Becomes(e, old, new)
  BY ApplyBecomes
<1>2. id \in JobIds /\ old \in Job \cup {NoJob} /\ (e.op = "claim" => e.lease \in LeaseIds)
  BY DEF Event, SpaceType
<1>3. e.op = "enqueue" => new # NoJob
  BY <1>1, NoJobAssumption DEF Becomes
<1>4. /\ old # NoJob => known
      /\ e.op = "enqueue" => ~known
      /\ e.op = "claim" => old # NoJob /\ old.status = "pending" /\ e.lease \notin Leased
  BY <1>2 DEF Rooted, News, List, Live
<1>5. known \in BOOLEAN
  BY DEF Logged
<1>6. TakesStep(e, Stands(old, known), Stands(new, known), GoodFor(old), GoodFor(new))
  <2> HIDE DEF id, old, new, known, Event
  <2> QED
    BY <1>1, <1>2, <1>4, <1>5, EventSteps
<1>7. Stage[id] = Stands(old, known) /\ Holder[id] = GoodFor(old)
  BY <1>2 DEF Stage, Shows, Holder, Holds, Stands, GoodFor
<1>8. /\ Stage' = [Stage EXCEPT ![id] = Stands(new, known)]
      /\ Holder' = [Holder EXCEPT ![id] = GoodFor(new)]
      /\ Leased' = IF e.op = "claim" THEN Leased \cup {e.lease} ELSE Leased
  BY <1>3, OneStage DEF Stands, GoodFor
<1> HIDE DEF old, new, known, Event
<1> QED
  BY <1>2, <1>4, <1>6, <1>7, <1>8, StageSteps

\* An event that is written is read as one that is news too.
LEMMA WriteMoves ==
    ASSUME Serial, Kept, Kept', SerialInv, NEW event \in Event, Writes(event)
    PROVE  QueueMoves
<1> DEFINE read == ReadEvent(event)
<1>1. recovered \in SpaceType /\ Rooted /\ Shapes /\ LogTyped(log) /\ JsonTimes
  BY SpacesTyped DEF Serial, Kept, GrantInv, OwnedInv, Lasting, SerialInv, FileKept
<1>2. recovered' = Apply(recovered, read)
  BY LogAppends DEF Writes, News
<1> HIDE DEF Event
<1>3. ToSet(log'.events) = ToSet(log.events) \cup {event}
  BY <1>1, EventWritten DEF Writes
<1>4. /\ read \in Event /\ event.op = read.op /\ event.id = read.id
      /\ read.op = "claim" => event.lease = read.lease
  BY <1>1, ReadEventType
<1> HIDE DEF read
<1>5. News(read)
  BY <1>4 DEF Writes, News
<1> QED
  BY <1>1, <1>2, <1>3, <1>4, <1>5, EventMoves

\* Every other step is not seen, though it may compact the file.
LEMMA SameFile ==
    ASSUME Serial, Kept, recovered' \in SpaceType, log'.events = log.events,
           Same(recovered', recovered)
    PROVE  QueueMoves
<1>1. recovered \in SpaceType
  BY SpacesTyped DEF Serial
<1>2. \A id \in JobIds : /\ recovered.jobs[id] = NoJob <=> recovered'.jobs[id] = NoJob
                         /\ recovered.jobs[id] # NoJob =>
                                /\ recovered.jobs[id].status = recovered'.jobs[id].status
                                /\ recovered.jobs[id].lease_id = recovered'.jobs[id].lease_id
  BY <1>1, SameJobs DEF SameFields
<1>3. Stage' = Stage /\ Holder' = Holder /\ Leased' = Leased
  BY <1>2 DEF Stage, Shows, Holder, Holds, Leased, Logged
<1> QED
  BY <1>3 DEF QueueMoves, Durable!vars, Stage, Holder, Leased

\* What a step does to the file.
LEMMA FileSteps ==
    ASSUME Serial, Kept, Kept', SerialInv, Goes, [Next]_vars
    PROVE  \/ \E event \in Event : Writes(event)
           \/ log'.events = log.events /\ Same(recovered', recovered)
<1>1. Clients \subseteq Threads /\ Tasks \subseteq Threads /\ Lasting /\ Lasting' /\ Shapes
  BY DEF Threads, Kept, OwnedInv, GrantInv
<1>2. ASSUME NEW t \in Clients, AppendRequest(t)
      PROVE  \E event \in Event : Writes(event)
  <2> DEFINE event == call[t].event
  <2>1. /\ t \in Threads /\ call[t].pc = "append"
        /\ log' = AppendEvent(log, event) /\ recovered' = Load(log')
    BY <1>1, <1>2 DEF AppendRequest, WriteLog
  <2>2. /\ event \in Event
        /\ event.op = "claim" => event.until < Forever
        /\ event.op = "enqueue" => ~Logged("enqueue", event.id)
        /\ event.op = "claim" => event.id \in List(recovered, "pending")
    BY <1>1, <2>1 DEF Lasting, CallTyped, SerialInv, Agrees, Goes, Going
  <2>3. event.op = "claim" => event.lease \notin Leased
    BY <2>1 DEF Kept, GrantInv, ClaimFresh, Busy, Leased
  <2> HIDE DEF event
  <2>4. Writes(event)
    BY <2>1, <2>2, <2>3 DEF Writes, News
  <2> QED
    BY <2>2, <2>4
<1>3. ASSUME NEW t \in Tasks, AppendExpire(t)
      PROVE  \E event \in Event : Writes(event)
  <2>1. PICK id \in call[t].todo :
            /\ log' = AppendEvent(log, [op |-> "expire", id |-> id, ts |-> call[t].ts])
            /\ recovered' = Load(log')
    BY <1>3 DEF AppendExpire, WriteLog, Serial
  <2> DEFINE event == [op |-> "expire", id |-> id, ts |-> call[t].ts]
  <2>2. id \in JobIds /\ call[t].ts \in Int
    BY <1>1, <1>3, <2>1 DEF AppendExpire, Lasting, CallTyped
  <2>3. event \in Event /\ event.op = "expire"
    BY <2>2 DEF Event
  <2>4. Writes(event)
    BY <2>1, <2>3 DEF Writes, News
  <2> HIDE DEF event
  <2> QED
    BY <2>3, <2>4
<1>4. CASE AppendPurge
  <2>1. PICK id \in call[Cleaner].todo :
            /\ log' = AppendEvent(log, [op |-> "purge", id |-> id, ts |-> call[Cleaner].ts])
            /\ recovered' = Load(log')
    BY <1>4 DEF AppendPurge, WriteLog
  <2> DEFINE event == [op |-> "purge", id |-> id, ts |-> call[Cleaner].ts]
  <2>2. id \in JobIds /\ call[Cleaner].ts \in Int
    BY <1>1, <1>4, <2>1 DEF AppendPurge, Lasting, CallTyped
  <2>3. event \in Event /\ event.op = "purge"
    BY <2>2 DEF Event
  <2>4. Writes(event)
    BY <2>1, <2>3 DEF Writes, News
  <2> HIDE DEF event
  <2> QED
    BY <2>3, <2>4
<1>5. ASSUME NEW t \in Tasks, Save(t) \/ Truncate(t)
      PROVE  log'.events = log.events /\ Same(recovered', recovered)
  BY <1>1, <1>5, SavedFile, TruncatedFile, SameItself
<1>6. CASE log' = log
  <2>1. recovered' = recovered
    BY <1>1, <1>6 DEF Lasting
  <2> QED
    BY <1>6, <2>1, SameItself
<1>7. \/ log' = log \/ AppendPurge
      \/ \E t \in Clients : AppendRequest(t)
      \/ \E t \in Tasks : AppendExpire(t) \/ Save(t) \/ Truncate(t)
  BY DEF Next, vars, BeginEnqueue, BeginClaim, BeginComplete, BeginFail, BeginReport, BeginCancel,
         BeginRetry, Heartbeat, AppendRequestFails, ApplyRequest, BeginReap, BeginShutdown,
         BeginCleanup, RemovePurged, FinishPurge, FinishRelease, ReadMaxSeq, ListJobs,
         TaskFails, Leave, Tick, Exit, Crash, Stop, Open
<1> QED
  BY <1>2, <1>3, <1>4, <1>5, <1>6, <1>7

LEMMA FileMoves ==
    ASSUME Serial, Kept, Kept', SerialInv, recovered' \in SpaceType, Goes, [Next]_vars
    PROVE  QueueMoves
BY FileSteps, WriteMoves, SameFile

\* With one call at a time, an event that is written changes what a start would
\* load as it changes a space, and a snapshot and a truncation change it by no
\* more than a trip through JSON (README.md:48, 327).
THEOREM CompactionForgetsNothing ==
    ASSUME Serial
    PROVE  Spec => CompactionTransparent
<1> DEFINE next == IF log'.events = log.events THEN recovered
                   ELSE Apply(recovered, ReadEvent(Last(log'.events)))
           Moves == \A id \in JobIds : SameJob(recovered'.jobs[id], next.jobs[id])
<1>1. Kept /\ Kept' /\ SerialInv /\ Goes /\ [Next]_vars => [Moves]_vars
  <2> SUFFICES ASSUME Kept, Kept', SerialInv, Goes, [Next]_vars
               PROVE  Moves
    OBVIOUS
  <2>1. ASSUME NEW event \in Event, Writes(event)
        PROVE  Moves
    <3>1. recovered' = Apply(recovered, ReadEvent(event))
      BY <2>1, LogAppends DEF Writes, News
    <3> HIDE DEF Event
    <3>2. /\ log'.events = Append(log.events, event) /\ log.events \in Seq(Event)
          /\ Len(log'.events) = Len(log.events) + 1
      BY <2>1, LogWritten, EventWritten DEF Writes, Kept, GrantInv, OwnedInv, Lasting, LogTyped
    <3>3. Last(log'.events) = event /\ log'.events # log.events
      BY <3>2 DEF Last
    <3>4. recovered' = next
      BY <3>1, <3>3
    <3> HIDE DEF next
    <3> QED
      BY <3>4 DEF SameJob
  <2>2. CASE log'.events = log.events /\ Same(recovered', recovered)
    BY <2>2 DEF Same
  <2> QED
    BY <2>1, <2>2, FileSteps
<1>2. Spec => []Kept
  BY KeptInvariance DEF Serial
<1> QED
  BY <1>1, <1>2, SerialInvariance, GoesInvariance, PTL DEF Spec, CompactionTransparent

\* What is in the file is, at any point of any call, a state of the abstract
\* queue, and every step moves it as that queue moves: with one call at a time,
\* across crashes, restarts and compaction (persistent_space.rs:38-196).
THEOREM FileIsJobQueue ==
    ASSUME Serial
    PROVE  Spec => DurableIsJobQueue
<1>1. Init => Durable!Init
  <2> SUFFICES ASSUME Init PROVE Durable!Init
    OBVIOUS
  <2>1. log.events = <<>> /\ \A id \in JobIds : recovered.jobs[id] = NoJob
    BY InitSpaces DEF Empty
  <2> QED
    BY <2>1 DEF Durable!Init, Shows, Holds, Logged, ToSet
<1> DEFINE Typed == recovered \in SpaceType
<1>2. Kept /\ SerialInv /\ Goes /\ [Next]_vars /\ Kept' /\ Typed'
      => [Durable!Next]_Durable!vars
  BY FileMoves DEF QueueMoves
<1>3. Spec => []Kept
  BY KeptInvariance DEF Serial
<1>4. Kept => Typed
  BY SpacesTyped DEF Serial
<1> HIDE DEF Typed
<1> QED
  BY <1>1, <1>2, <1>3, <1>4, SerialInvariance, GoesInvariance, PTL DEF Spec, DurableIsJobQueue, Durable!Spec
=============================================================================
