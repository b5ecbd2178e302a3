------------------------------ MODULE EventLog ------------------------------
(***************************************************************************)
(* The SQLite file of crates/storage and what a start makes of it: the     *)
(* events table (event.rs), the snapshots table, the methods of SqliteLog  *)
(* (each under the connection's mutex, each one SQL statement) and the     *)
(* replay of a snapshot and a tail of events (replay.rs).                  *)
(*                                                                         *)
(* `events` keeps the rows that truncation deleted, `deleted` says how     *)
(* many they are: AUTOINCREMENT never gives a seq twice, so an event's seq *)
(* is its place in the whole history.                                      *)
(***************************************************************************)
EXTENDS Space, SequencesExt

CONSTANTS
    JsonTime(_),    \* the f64 that serde_json reads back from the text of one
    NullResults     \* the runs, by their leases, whose result is JSON's null

ASSUME JobIdsAssumption == IsFiniteSet(JobIds)   \* a uuid has 128 bits
ASSUME NullResultsAssumption == NullResults \subseteq Payloads

Event ==
         [op : {"enqueue"}, id : JobIds, ts : Int, job_type : JobTypes, max_retries : 0..MaxU8]
    \cup [op : {"claim"}, id : JobIds, ts : Int, lease : LeaseIds, until : Int, worker : Workers \cup {Nil}]
    \cup [op : {"complete", "fail"}, id : JobIds, ts : Int, lease : LeaseIds]
    \cup [op : {"cancel", "expire", "purge", "retry"}, id : JobIds, ts : Int]

Snapshot == [seq : Nat, ts : Int, jobs : [JobIds -> Job \cup {NoJob}]]

LogType == [events : Seq(Event), deleted : Nat, snapshots : Seq(Snapshot)]

NewLog == [events |-> <<>>, deleted |-> 0, snapshots |-> <<>>]

-----------------------------------------------------------------------------
(* SqliteLog.                                                              *)

AppendEvent(log, event) == [log EXCEPT !.events = Append(@, event)]

MaxSeq_OneMore(log) == Len(log.events) + 1

\* An empty table reports 0, also when every event was truncated.
MaxSeq(log) == IF log.deleted = Len(log.events) THEN 0 ELSE Len(log.events)

SaveSnapshot(log, seq, ts, jobs) ==
    [log EXCEPT !.snapshots = Append(@, [seq |-> seq, ts |-> ts, jobs |-> jobs])]

TruncateBefore(log, seq) == [log EXCEPT !.deleted = IF seq > @ THEN seq ELSE @]

LoadSince(log, seq) ==
    SubSeq(log.events, (IF seq > log.deleted THEN seq ELSE log.deleted) + 1, Len(log.events))

NoSnapshot == [seq |-> 0, ts |-> 0, jobs |-> Empty.jobs]

LatestSnapshot_First(log) ==
    IF log.snapshots = <<>> THEN NoSnapshot ELSE Head(log.snapshots)

\* The rows come back in order of id, not of seq.
LatestSnapshot(log) ==
    IF log.snapshots = <<>> THEN NoSnapshot ELSE Last(log.snapshots)

\* The same rows for a question about the past, or about one job.
SnapshotBefore_Any(log, at) == LatestSnapshot(log)

StampedBy(rows, at) ==
    LET Keep(kept, row) == IF row.ts <= at THEN Append(kept, row) ELSE kept
    IN  FoldLeft(Keep, <<>>, rows)

SnapshotBefore(log, at) == LatestSnapshot([log EXCEPT !.snapshots = StampedBy(@, at)])

LoadRange(log, seq, at) == StampedBy(LoadSince(log, seq), at)

LoadEventsForJob(log, id) ==
    LET OfJob(rows, e) == IF e.id = id THEN Append(rows, e) ELSE rows
    IN  FoldLeft(OfJob, <<>>, LoadSince(log, 0))

-----------------------------------------------------------------------------
(* What JSON does to a job and to an event.  The timestamp of an event has *)
(* a REAL column of its own and is kept exactly; its payload is text.      *)
(* serde_json reads a time back to the nearest f64 or the one beside it,   *)
(* and the null of an Option<Value>, Some(Null) or None, as None; the      *)
(* result of a Complete event is a Value, where null is null.              *)

JsonOption(time) == IF time = Nil THEN Nil ELSE JsonTime(time)

ReadResult(result) == IF result \in NullResults THEN Nil ELSE result

ReadJob(job) ==
    [job EXCEPT !.enqueued_at = JsonTime(@),
                !.started_at  = JsonOption(@),
                !.finished_at = JsonOption(@),
                !.lease_until = JsonOption(@),
                !.result      = ReadResult(@)]

ReadEvent(event) ==
    IF event.op = "claim" THEN [event EXCEPT !.until = JsonTime(@)] ELSE event

-----------------------------------------------------------------------------
(* replay.rs.  The live calls of PersistentSpace make the same changes,    *)
(* but for a claim and for an expiry.                                      *)

Apply(s, e) ==
    CASE e.op = "enqueue"  -> EnqueueWithId(s, e.id, e.job_type, e.max_retries, e.ts)
      [] e.op = "claim"    -> ApplyClaim(s, e.id, e.lease, e.until, e.worker, e.ts)
      [] e.op = "complete" -> CompleteJob(s, e.id, e.lease, e.lease, e.ts)
      [] e.op = "fail"     -> FailJob(s, e.id, e.lease, e.lease, e.ts)
      [] e.op = "cancel"   -> CancelJob(s, e.id, e.ts)
      [] e.op = "expire"   -> ApplyExpire(s, e.id)
      [] e.op = "purge"    -> RemoveJob(s, e.id)
      [] e.op = "retry"    -> RetryJob(s, e.id)

\* The snapshot's jobs, restored one by one into an empty space.
Restored(jobs) ==
    LET Restore(id, s) == RestoreJob(s, id, ReadJob(jobs[id]))
    IN  FoldSet(Restore, Empty, {id \in JobIds : jobs[id] # NoJob})

Replay(jobs, events) ==
    LET ApplyRead(s, e) == Apply(s, ReadEvent(e))
    IN  FoldLeft(ApplyRead, Restored(jobs), events)

\* PersistentSpace::load
Load(log) ==
    LET snapshot == LatestSnapshot(log)
    IN  Replay(snapshot.jobs, LoadSince(log, snapshot.seq))
=============================================================================
