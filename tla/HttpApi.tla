------------------------------ MODULE HttpApi ------------------------------
(***************************************************************************)
(* What crates/api says of a space: the view of a job, the figures of the  *)
(* metrics endpoints, and the status code of a call on one job.  Each is   *)
(* read off the jobs in one go, under no lock but that of list or get; the *)
(* text of the answers is left out.                                        *)
(***************************************************************************)
EXTENDS Space, SequencesExt

\* A client is shown every column of a job but the lease.
JobView(job) == [column \in DOMAIN job \ {"lease_until", "lease_id"} |-> job[column]]

Listed(s) == [id \in Live(s) |-> JobView(s.jobs[id])]

-----------------------------------------------------------------------------
(* GET /metrics and GET /dashboard/metrics, each with its own code.        *)

Counts(s) == [status \in Statuses |-> Cardinality(List(s, status))]

\* Both take a job that started for one that waited, and one that finished as
\* well for one that ran, whatever became of it since.
Started(s) == {id \in Live(s) : s.jobs[id].started_at # Nil}
Ran(s)     == {id \in Started(s) : s.jobs[id].finished_at # Nil}

Waits(s) == [id \in Started(s) |-> s.jobs[id].started_at - s.jobs[id].enqueued_at]
Execs(s) == [id \in Ran(s) |-> s.jobs[id].finished_at - s.jobs[id].started_at]

Sum(spans) == MapThenSumSet(LAMBDA id : spans[id], DOMAIN spans)

Average(spans) == IF DOMAIN spans = {} THEN 0 ELSE Sum(spans) \div Cardinality(DOMAIN spans)

Dashboard(s) ==
    [total          |-> Cardinality(Live(s)),
     jobs           |-> Counts(s),
     avg_queue_wait |-> Average(Waits(s)),
     avg_exec       |-> Average(Execs(s))]

\* viscacha_worker_jobs
WorkerJobs(s, worker, status) ==
    Cardinality({id \in List(s, status) : s.jobs[id].worker_id = worker})

-----------------------------------------------------------------------------
(* The status code of a call that names a job.                             *)

StatusCode_LeaseIsBadRequest(outcome) ==
    CASE outcome = "Ok"       -> 200
      [] outcome = "NotFound" -> 404
      [] outcome = "LeaseInvalid" -> 400
      [] outcome \in {"NotPending", "NotClaimed", "InvalidTransition"} -> 409

StatusCode(outcome) ==
    CASE outcome = "Ok"       -> 200
      [] outcome = "NotFound" -> 404
      [] outcome \in {"NotPending", "NotClaimed", "LeaseInvalid", "InvalidTransition"} -> 409

\* A report is checked before it is logged, by the lease alone ...
EarlyOutcome(s, id, lease) ==
    IF id \notin Live(s) THEN "NotFound"
    ELSE IF s.jobs[id].lease_id # lease THEN "LeaseInvalid" ELSE "Ok"

\* ... and again by the space, as a heartbeat is.
ReportOutcome(s, id, lease) ==
    IF id \notin Live(s) THEN "NotFound"
    ELSE IF id \notin List(s, "claimed") THEN "NotClaimed"
    ELSE IF s.jobs[id].lease_id # lease THEN "LeaseInvalid" ELSE "Ok"
=============================================================================
