# Viscacha-rs in TLA+

Models, model checks and machine-checked proofs for the job queue of
`viscacha-rs`: a TLA+ project to keep beside the code. Line numbers are those
of the files under `crates/`; `PROJECT.json` maps every definition that models
code to its lines.

## 1. The system

A server keeps jobs in memory, logs every change to SQLite, and serves an HTTP
API to clients that enqueue jobs and to workers that claim and run them.

```
 workers, clients ──HTTP──> routes.rs ──spawn_blocking──> PersistentSpace
                                                           │          │
 reaper (5 s), clean-up (1 h), shutdown (lib.rs) ──────────┘   TupleSpace (RwLock)
                                                           │
                                                       SqliteLog (Mutex): events, snapshots
```

### Inventory

| Component | State | Operations | What is hard | What makes it correct |
|---|---|---|---|---|
| `TupleSpace` (core/space.rs, types.rs) | jobs by id; sorted index of pending jobs; one `RwLock` | enqueue, claim, complete, fail, cancel, retry, extend_lease, expire_leases, restore, remove, enqueue_with_id, apply_claim, apply_expire | callers' clocks in no order; late reports; a claim that trusts the index | the index is exact; one good lease per job; retries within the budget; oldest job first; a report counts only under its lease |
| `SqliteLog`, `replay` (storage/sqlite.rs, event.rs, replay.rs) | tables `events` and `snapshots`; one `Mutex` | append, load_since, save_snapshot, load_latest_snapshot, truncate_before, max_seq, time-travel queries | crash between snapshot and truncation; sequence 0 of an empty table; JSON times | a snapshot and a tail of events replay to what the whole log replays to |
| `PersistentSpace` (storage/persistent_space.rs) | a `TupleSpace` and a `SqliteLog`, no lock of its own | every call is check, append, apply under three separate locks (a claim: apply, append); drain, purge, snapshot, state_at | all interleavings of those steps; failed appends, some ignored; crashes between steps | a restart restores what memory held; nothing enqueued or done is lost; clients see one queue |
| Server tasks (api/lib.rs) | reaper, hourly clean-up, shutdown | expire_leases every 5 s; purge and snapshot every hour; drain and snapshot on a signal | they overlap requests and one another | leases that ran out are taken back; a shutdown leaves no job claimed |
| Workers | the job and lease each holds | claim, run, heartbeat, report | death, hang, report after the lease ran out | a prompt worker is not disturbed; every job ends |
| Routes, models, errors (api/routes.rs, models.rs, error.rs) | none | one handler per call | a report refused early or late; the history of one job among others' events | a report is answered alike wherever it is refused; a job's history explains the job |
| Metrics, dashboard (api/metrics.rs, dashboard.rs) | none | functions of the listed jobs | columns left over from an earlier run of a job | what is measured as a run was one; work is credited to the worker that did it |
| Auth (api/auth.rs) | none | a comparison on each request | nothing | |
| Web page (api/assets/index.html) | what each pane shows; the requests under way | a poll every second, the time machine | overlapping requests, answers of different instants and out of order, a server that goes away | the live pane comes to show the queue; the past is shown as it was, or as it was before, never as it came to be |

`PROJECT.json` lists under `hazards` what in this code a test would hardly
reach, each at its line, with the properties that cover it.

## 2. The modules

| Module | What it is |
|---|---|
| `Space` | The data structure of `space.rs`: a job, the index, and every method as an operator from a space to the next (a call that answers an error returns the space it got). |
| `JobQueue` | The abstract specification: a life cycle for each job, one good lease at a time, no lease good again once taken back. No index, clock, retries or log. |
| `TupleSpace` | The store under concurrent callers: one action per public method, since each runs under the one lock. |
| `HttpApi` | What the routes and the two metrics endpoints say of a space: views, counts, averages, status codes. |
| `WorkerPool` | Store, reaper and workers against one clock: what leases are for, with fairness. Extends `HttpApi`. |
| `EventLog` | The SQLite file, what JSON does to a job, replay, and the queries of the past. |
| `PersistentSpace` | The server: threads whose calls are cut at every lock, the tasks, crashes, failed writes, restarts. Extends `EventLog` and `HttpApi`. |
| `WebPage` | A browser over that server: polls and questions under way, each with its answers. Extends `PersistentSpace`. |
| `MC*` | Instances for TLC. |
| `*Proofs`, `*Refinement` | The theorems (section 5). |

```
 Space ── TupleSpace ── TupleSpaceProofs (with SpaceProofs)
   ├──── HttpApi ── WorkerPool ── WorkerPoolProofs (with SpaceProofs)
   └──── EventLog ─┬─ ReplayProofs (with SpaceProofs) ──┐
         HttpApi ──┴─ PersistentSpace ─┬────────────────┴─ PersistentSpaceProofs ─┬─ PersistentSpaceRefinement
                                       └─ WebPage                                 └─ SerialProofs
```

`PersistentSpace` and `TupleSpace` share `Space`; `TupleSpace` is shown to
implement `JobQueue`, and so are the file and the memory of `PersistentSpace`,
through different mappings. Its memory is also shown to implement `TupleSpace`.
An operator `X_Fault` beside `X` is `X` with a fault seeded in it: nothing uses it,
and replacing `X` by it must make a named property fail (`mutants` in
`PROJECT.json`).

### State and actions against the code

*Space.* `jobs` is `Inner.jobs`, with `NoJob` for a key that is absent;
`pending` is the set of keys of `Inner.pending`, `<<job_type, enqueued_at, id>>`.
A claim takes the first key of its type (`OldestKeys`): ids are random, so
which of two keys of equal time is first is left open. `args` is opaque and
left out; a result or an error is told apart by the lease it was reported
under; `retries` is a u8 that wraps at `MaxU8` (`NextU8`). Times are integers: the code orders
them by `f64::to_bits`, which agrees with `<` for positive times.

*TupleSpace.* `now` is an argument of every method, read by the caller before
it waits for the lock: each step takes any time. A report may name any lease
ever drawn, whether or not it is still good; `Remove` takes any id, because a
purge names ids it listed earlier.

*EventLog.* What a snapshot saves is JSON text, and a start reads back something else
(`ReadJob`). The text of a time parses to the nearest f64 or to the one beside it, since
`serde_json` is built without its feature `float_roundtrip` (Cargo.toml:11): `JsonTime` is
any such map, and in every run with a file the time 1 comes back as 2. A job completed with a JSON
null has the result `Some(Null)`, which is written as `null` and read as `None`
(sqlite.rs:98, types.rs:57): `NullResults` says which runs end so. Timestamps of events and
snapshots have columns of their own and stay as they are, and the result of a `Complete`
event is a `Value`, in which null stays null.

*PersistentSpace.* `call[t].pc` says where thread `t` is:

| `pc` | In the code |
|---|---|
| `append`, `apply` | a request past its check, before its `log.append`; and before the in-memory change (persistent_space.rs:43-154). A claim has changed memory when it reaches `append`, and ends there (57-70). |
| `release` | `expire_leases` and `drain_claimed` past their listing: one ignored append for each id, then the release (122-137, 187-203) |
| `purge`, `remove` | `purge_terminal`, for each listed id append and remove (165-185) |
| `max_seq`, `list`, `save`, `truncate` | the four steps of `snapshot` (206-213) |

`mode` follows the process: `serving`, `closing` (drain and last snapshot after
the signal), `exiting` (main returned, the runtime waits for blocking calls
that have begun), `down`. `log.events` keeps the rows that truncation deleted
and `log.deleted` counts them, so that an event's seq is its place. `recovered`
is a history variable: what a start would load from the file as it is now. A client
reports under leases that a claim handed out (`Granted`): that is what clients know, not
a guard of the server's. A report under any other uuid finds no job that has it, is refused by
the first check and changes nothing.

`state_at`, `events_for_job` and the reads of the API take one lock each, or two
in turn: they are operators (`SnapshotBefore`, `LoadRange`, `LoadEventsForJob`,
`Listed`), and steps of the one module that has readers, `WebPage`.

*HttpApi.* An answer is a record with the figures or columns that the handler
reads off the jobs; milliseconds, buckets and text are left out. Errors are the
strings of the variants of `SpaceError`. `EarlyOutcome` is the check of
`PersistentSpace::complete` before it writes (lease only) and `ReportOutcome` that
of the space (status, then lease). A job that
has a `started_at` and a `finished_at` counts as a run whatever became of it: a job that failed, was
retried and then cancelled shows one from the start of the failed run to the
cancellation, since a retry leaves `started_at` (space.rs:146-149) where an expiry clears it. README.md:156 and
metrics.rs:85 speak of the time from claim to completion or failure. `RunsMeasured` names this
exception and shows that there is no other. While writing the status codes we found that the API
document and the code differ: routes.rs:168, 194 and 220 announce 400 for a bad
lease, and 97 and 117 announce 404 for a job in another status; the code answers
409 to all of these (error.rs:18-21). The status 500 of a write that fails is
`AppendRequestFails`.

*WebPage.* A poll is the pair of answers it has so far (`Promise.all` of two
requests, index.html:676); several are under way at once since the timer does not
wait. A question to the time machine passes through `asked`, `snapshot` (the
first of the two locked reads of `state_at`, persistent_space.rs:221) and
`answered`. The events it replays are those still there at the second read, however
many a later snapshot has deleted. A question asks of a second that is over: the page's
button asks of a minute ago. What was true then is read off `log.events`, which keeps deleted
rows.

*WorkerPool.* A worker is `resting`, `running` a job under a lease, or `dead`. A
`prompt` worker reports or extends its lease before it runs out; a worker that
hangs is no longer prompt and reports at any time, or after its lease. The
workers are not in this repository: they are modelled as callers of the store, each
request one atomic call of `space.rs` that cannot fail, so that time is the only thing
that can go wrong. The pieces of these calls, their failing writes and restarts are
`PersistentSpace`'s, and `MemoryIsTupleSpace` joins the two.

## 3. What the runs check

Passing runs:

| Run | Instance | Shows |
|---|---|---|
| `tuple_space` | 2 jobs, 2 types, 3 leases, clock readings 1 and 2 in any order, lease terms -1 and 1 s, max_retries 0 and 2 | the index is exact, leases are exclusive, retries stay in the budget, outcome fields agree with the status (but for the `started_at` that a retry leaves); claims take the oldest job; only the holder ends a run; the store implements `JobQueue` |
| `worker_pool` | 2 jobs, 2 workers, 2 mishaps | a prompt worker keeps its lease until it reports; every job ends (liveness); the gauges of done and failed jobs rise for the worker that did the work |
| `serial` | 2 jobs, 2 leases, one call or task at a time, crashes at every step, up to 5 events and 2 snapshots, results that are all null, a JSON text that changes the time 1 | a restart brings back each job in memory, column by column as it is or as one trip through JSON leaves it; compaction forgets no more than that; the index is rebuilt right from rounded times; a shutdown returns every job; every ended run is measured and nothing else, but for a retried job; the file implements `JobQueue` at every step of every call |
| `shown` | 1 job, 2 clients, reaper and clean-up at once, no crash | what clients see is a behaviour of `JobQueue`, however calls overlap, and memory one of `TupleSpace`; no lease is two jobs', in memory or in what a crash would leave; a report is answered with the same status by both checks; retries stay in the budget; only the holder ends a run |
| `faults` | 2 jobs, one call or task at a time, failing writes, heartbeats, crashes, the JSON of `serial` | nothing done and nothing enqueued is lost; index, leases and retries stay right; the events of one job explain what a restart makes of it |
| `web_page` | 1 job that is enqueued and cancelled, one call at a time, clean-ups, crashes, 2 polls and 2 questions at once, 3 seconds | the time machine, whatever was truncated, shows the jobs as they were at the time asked for or before; the live pane comes to show the queue (liveness) |

Runs that find a disagreement between the code and what it says of itself:

| Run | What happens |
|---|---|
| `retry_count` | `fail` counts up before it compares (space.rs:102-106): a job with `max_retries` n is re-queued n-1 times. README.md:46 says up to `max_retries` times. |
| `lost_completion` | A worker's report passes its check; the reaper, finding the lease run out, logs `Expire`; the report logs `Complete` and applies it; then the reaper releases leases and finds the job done. Memory says done and the worker was told so; the log says Expire, then a Complete under a lease that is not good. After a restart the job is pending and runs again. |
| `lost_enqueue` | An enqueue is logged; the clean-up reads `max_seq` and lists the jobs; only then is the job put in memory. The snapshot does not have it and the truncation deletes its event. |
| `purged_retry` | A purge lists a failed job; the job is retried; the purge removes it, pending. |
| `overlapping_snapshots` | The hourly clean-up lists the jobs, one of them claimed; the signal comes, the drain returns the job and saves its snapshot; the clean-up saves its older list as the newest snapshot. The process ends gracefully, and a restart finds the job claimed. No client is connected and nothing crashes or fails. |
| `time_machine` | A snapshot of the empty queue is taken and a job is enqueued; in a later second the next snapshot deletes the event of the enqueue. Asked for the second of the enqueue, `state_at` starts from the first snapshot, finds no events, and answers that there is no job. persistent_space.rs:217-219 guarantees the events after the most recent snapshot before `at`, and README.md:135 promises the exact queue state. |

Three smaller differences are no run of their own: README.md:320-322 and replay.rs:6-8
promise the exact, identical state after a restart, where a time of a snapshot may be off in its
last place and a null result is gone (`RecoveryExact` says that nothing else is); the run
that the metrics show for a job retried and then cancelled; and the status codes
(both in section 2).

### Bounds

Named constants bound what is unbounded in the code, in the guards of the
actions that begin something: `MaxEvents` (no call begins once the log holds
that many events), `MaxSnapshots`, `MaxInFlight`, `MaxTime`, and `MaxSurprises`
in `WorkerPool`. Calls under way always finish. Two jobs are enough for one to
be ahead of another in the index, to be released together and to be confused
with another; two or three leases for a late report under an old one; five
events for enqueue, claim, fail, retry, claim; two snapshots for one to replace
another; `MaxU8` is 2, so that a budget of 2 reaches the counter's limit. A lease
term of 0 s, a purge age of 0 s and a clock of 0 and 1 give every order of a
deadline and a reading. Ids, leases and clients are interchangeable and
symmetric in the runs without liveness, results being null for all leases or for none; in `WorkerPool`, which has liveness and
so no symmetry, new names are chosen by `CHOOSE`.

The persistent runs split what one instance cannot hold. `RecoveryExact` and
`DoneSurvives` fail where a report races the reaper, and `JobSurvives` where an
enqueue races a snapshot: that is what the violation runs show. They are checked
in full where those races are absent, and so are the others where they are
present. `OnlyEndedForgotten` is checked in `purged_retry` alone: without an overlap
it would say no more than which jobs a purge lists.

`MaxPolls` and `MaxQuestions` bound the requests of the page under way: two are
enough for one answer to overtake another. `pane` is chosen at the start, since
the live pane and the time machine share nothing but the server. In `WorkerPool`
a claim needs a lease that nobody remembers (`FreshLeases # {}`): a bound, as
there is always a new one in the code; four leases for two workers and two jobs.
`Disconnects` says whether a client may go away while its call is under way,
which lets a shutdown begin beside that call (lib.rs:103-106); the run
`overlapping_snapshots` forbids it, so that its trace needs nothing of the kind.
In `web_page` calls of the server do not overlap, which is what makes the order of
rows and of their timestamps the same; `time_machine` needs no overlap either.

`CHECK_DEADLOCK FALSE` is set where the bounds stop the model; `tuple_space`
checks deadlock.

### Fairness

*WorkerPool.* `WF(Reap)`: the reaper loops for as long as the
server runs (lib.rs:62-73, core/reaper.rs:8-20), and its call takes one lock.
`WF(Claim(w))`, `WF(Report(w))`: a worker that is not dead polls for work and
ends its run at some time, late or not; this is an assumption about clients.
`WF(Tick)`: the clock moves on. `Die` leaves one worker alive. With fairness
only weak, a claim is not starved because a job keeps its place at the head of
the index until it ends.

*WebPage.* `WF(StartPoll)`: the browser's timer fires every second for as long as
the page is open. A server that serves answers, a request to one that does not
fails, and the browser shows what it has: for each, weak fairness of *some* poll
and not of each, so that any one answer may be late for ever, or be shown
after newer ones. `LiveCatchesUp` assumes that from some point the
jobs and the state of the server no longer change; it assumes nothing of the
order of answers. It holds because the polls of before are finite in number.

## 4. What is not modelled, and why

* Timestamps as f64 beyond order and rounding: NaN and infinite lease terms.
* Loss of the last commits on a power cut (`synchronous = NORMAL`): a crash here
  is the death of the process.
* The clock going backwards is modelled in `TupleSpace` (any reading at any
  call) and not in `PersistentSpace`.
* `load_events_in_range` and `/replay/events`: one listing that nothing else uses.
  Its answer is oldest first up to the limit (sqlite.rs:168) where
  persistent_space.rs:234 says newest first.
* The API key check (auth.rs): one comparison, no state.
* Of the metrics, the histograms (buckets and sums), the series of single jobs and the text; of the
  web page, tabs, filters, the event list and the detail panel; the HTML of the
  dashboard. None keeps state that anything else reads.
* JSON of requests, a status that does not parse, `GET /jobs/{id}` and
  `GET /jobs/{id}/trace`, which show the columns of one job.
* Two clocks read in another order than their calls run: the spans of the metrics may
  then be negative, and the log's order is not that of its timestamps.
* OpenAPI, the program entry, Docker, Grafana: no behaviour of their own.

## 5. What is proved

`SpaceProofs` proves that every method of the store keeps a *well-kept* space
well kept: typed, with an exact index, exclusive leases, retries in the budget
and outcomes recorded. Most methods change one job, so the lemmas go through
`PutWellKept`: put a job that is right by itself (`JobOK`), with the keys that
should be left (`KeysAfter`) and a lease no other job has (`LeaseUnshared`).
`ReleaseWellKept` does the same for many jobs at once.

`TupleSpaceProofs` proves `Spec => []IInv` (`Invariance`), where `IInv` is the
conjunction of the invariants of `TupleSpace`. None of them is inductive alone. A
claim looks only at the index, so that a claimed job was pending needs
`PendingIndexExact`; the index stays exact only because a job that is re-queued
was claimed, which `LeasesExclusive` ties to its lease; a new lease is unshared
because every lease of a job was drawn; and `fail` re-queues only a job within its
budget because `RetriesBounded` held before. Each invariant of the run
`tuple_space` follows as a theorem of its own, for all sets of ids, types, leases,
workers and times, and any `MaxU8`.

The proofs assume what `Space` and `TupleSpace` assume of their constants: `Nil`
and `NoJob` are values apart, times and lease terms are integers and retry limits are u8s.

From the same invariants come the two action properties. `HoldersReport`: of all
calls only `complete` and `fail` end a claimed job, and both check the lease first.
`OldestClaimed`: the claim takes the least key of the index, and since the index is
exact no pending job is missing from it, so none is older.

`TupleSpaceProofs` also proves that the store implements the abstract queue
(`Implementation`: `Spec => ImplementsJobQueue`). `LifeCycle` and `GoodLeases` are
the refinement mapping; `PutMoves` shows that a write of one job moves one job of
the queue, `MoveSteps` says which step that move is, and one lemma per call finds
where the job stood before. A refused call and a heartbeat are stutters; a reaper
pass is one `Return` of a set of jobs.

`WorkerPoolProofs` proves that no prompt worker is ever disturbed
(`PromptUndisturbed`), for any number of workers, deaths and hangs. The property is
not inductive: `PoolInv` adds that a prompt worker's lease has time left, which is
what keeps the reaper away, and that no two workers run under one lease, which is
what keeps the report of another from ending its run. `CreditToWorkers` is about the
gauges: those of a worker's done and failed jobs rise only with a report of that worker. They
count by `worker_id`, which every claim overwrites, so `CreditInv` adds that the job of a good
lease names the worker that runs under it; the counts need that there are finitely many jobs.

`PersistentSpaceProofs` has three parts. The first is a lemma that the others rest on
(`GrantInvariance`): the calls under way agree with the log, through crashes, restarts, failed
writes and compaction. A report under way names a grant that is in the log, and a claim
under way has a lease that no event and no other call has. It is a fact about what the model's
clients do, and no result.

The second proves that the memory of a running process is well
kept, whatever the threads interleave and whichever writes fail. `LifeInv` joins
the types, `WellKept(mem)`, and what keeps an enqueue fresh: an id in the space
is enqueued in the log, and an enqueue under way has an id that is neither in
the space nor in another enqueue (`Unborn`). A step is either *silent* (it leaves the log
alone) or *writing*; each kind has a lemma that carries the invariant, and each
action is shown to be one or the other. A claim needs `GrantInv` too: its lease
must be one that no job holds. From the invariant follow the types, the
index, the leases, the retry budget, that a report is answered alike by both checks, and,
with the lemmas on the end of a run in `SpaceProofs`, that only the holder of a lease
ends a run (`ReportsOfHolders`).

`PersistentSpaceRefinement` proves that those pieces of calls come down to
`TupleSpace` (`MemoryRefinement`): a step of a process whose writes succeed is one
call of the store or changes nothing the store has. `CallsInv` says what is
still true of the arguments a thread remembers: a time the clock has shown, an id that was
applied. The same calls, each an event for one job (`CallEvent`) or one that moves many
or none, are what clients are shown of `JobQueue` (`MemoryIsJobQueue`). There `Purged`
is needed: the mapping reads off the log which jobs are gone, so a purge must be logged
before its job goes, and of a job that was there. What an event does to a job's life
(`EventSteps`, in `ReplayProofs`) is shared with the refinement of the file below.

`ReplayProofs` is about what a start makes of a file, for every file. `Load` is a
fold, and the library's induction theorems are out of reach; so each induction here is
the least counterexample of a set of numbers, of which `UpTo` is the one general
form: what holds before the first event and passes from each event to the next holds at
the end. `LoadGood`: if a row and the events agree with an
assignment of leases to jobs (an *owner* for each lease), so does the space that is
loaded, and then no two jobs share a lease, whatever order the events are in.
`RestoredIndexed`: the index that a start makes of a row is exact, because the key is made
from the time as it came back. That an event keeps an exact index goes through the *births* of
the jobs: if an id has one type and one time, its pending job is in the index under that key.

The third part of `PersistentSpaceProofs` shows that the log always has an owner for each
lease, and that rows, memory and calls under way agree with it, through any number of
crashes, restarts, failed writes and overlapping snapshots: `OwnedInv`. The owner is
chosen anew where a step adds a lease (`OwnerChosen`): a fresh one has no owner yet
because no event, row, job or call names it. From it follow, for all of `Spec` and
not for one life only, the types (`Types`), the exclusive leases of memory and of
what a crash would leave (`LeasesLast`), that reports are
answered alike, and that only a holder ends a run.

`HistoryExplains` is about `GET /jobs/{id}/events`: while nothing was compacted away, the
events of one job, replayed alone, end in the job that a restart would bring back. It says
nothing of the job in memory, which may differ (`lost_completion`).
`ApplyLocal` says that an event changes no job but its own and reads no other,
`HistoryOfOne` carries this along the two folds, of all events and of one job's, side
by side. It remains that an empty list of snapshots means an undeleted log (`NoRows`): a
row is deleted only by a snapshot task that has saved its snapshot, whichever others
overlap with it and wherever the process dies.

Of JSON these proofs assume `JsonTimes`, that the text of a time parses to a time, and nothing
of which time it is. They claim no exact index after a restart whose calls overlapped, because it
need not be: an enqueue logged between a snapshot's reading of `max_seq` and its listing of
the jobs is in the row and also replayed after it; `enqueue_with_id` adds a key and
removes none (space.rs:236-242), and if the time in the row came back one unit off
there are two keys and the job is claimed twice. `JobIdsAssumption`, that there
are finitely many ids, is what lets a row be restored job by job.

`SerialProofs` is about calls that do not overlap and whose writes succeed, with crashes between
any two steps (`Serial`: `MaxInFlight <= 1`, no failing write, `JsonTimes`, and
`JsonSoon`, that what JSON reads of a time before f64::MAX is before f64::MAX). JSON is as lossy
here as it is in the code: `SameJob(a, b)` says that each column of `a` is that of `b` or what
one trip through JSON makes of it, and of the deadline of a lease nothing, since heartbeats are
not logged. `Same` is this for all jobs of two spaces. Its invariant, `SerialInv`, says at each
point of a call how far the file and memory are apart (`Agrees`): before the append
of a claim, the file with that claim would be `Same` as memory; after the append of any
other event, the file is `Same` as memory with that event; during a release, as
memory with the jobs released whose `Expire` is written; otherwise as memory.
`ApplySame` says that no event tells two such spaces apart, column by column
(`SameColumns`): events ask for statuses, leases and budgets and write times that they
bring along. Changes do not add up over restarts,
because `Same` compares the file with the memory of the process that runs, and a
start makes the two equal. `FileKept` and `MemKept`
add an exact index of both and that every job in the file was born there (`Rooted`); it is
why no replayed enqueue finds its job present, and so why the second key above cannot
arise here. From the invariant follow `RestartIsExact`, `SpacesStayWellKept`,
`ShutdownReturnsAll` and, step by step, `CompactionForgetsNothing`: an event changes what a start would
load as it changes a space, and a snapshot and a truncation change it by no more than a
trip through JSON. All are for any numbers of jobs, clients, leases, events, snapshots and
crashes. The first hypothesis is needed: the runs `lost_completion`, `lost_enqueue`,
`purged_retry` and `overlapping_snapshots` are what happens without it.

The same invariant gives what survives (`JobsSurvive`, `OutcomesSurvive`). The property compares
memory before a crash with the file after it, so a step is split (`StepSurvives`): one in memory is one
method of the store, and no method but `remove` loses a job or the outcome of a done one; one
that starts or ends a process goes from memory to the file or back, where the two may differ
by the event a call was about to write or to apply. `Going` says of that event what
makes the difference harmless: a report is of a claimed job, a cancellation of a pending
one, and a purge that memory has yet to carry out is in the log (`StopSurvives`).

`FileIsJobQueue` is that the file alone is an abstract queue. `ApplyBecomes` lists where an
event takes its job, `StageSteps` names the step of the queue for each; an event that is
written is news to the file (`News`: no second birth, no claim but of a waiting job), and a job
in the file has its birth there (`Rooted`), which is what tells a removed job from one
that never was. Saving a snapshot, truncating behind it, a crash and a restart are
stutters, and so are all steps in memory.

`ForeverAssumption` says that the f64::MAX to which a shutdown releases is later than
every deadline, and `ThreadsAssumption` that the three tasks are three threads.

The second part of `PersistentSpaceProofs` and `PersistentSpaceRefinement` are about `OneLife`, one process
from an empty file to its last step before it ends. The retry budget stays there: a
claim replayed after a crash may revive a job that had used it up (see `hazards`, space.rs:248).
`MemoryRefinement` and `MemoryIsJobQueue` also assume that no write fails (`~IoFaults`): a
claim whose write fails leaves a lease in memory that the mappings, which read leases off
the log and the calls, would take back.

Only model-checked: what survives when writes fail (in the run
`faults`: `JobSurvives`, `DoneSurvives`, `SpacesWellKept` and `RetriesBounded`, each of which the
theorems state for writes that succeed or for one life), that the metrics measure runs
(`RunsMeasured`), the time machine, and liveness, which is out of the prover's reach.

## 6. What is left

1. What survives when writes fail too: the run `faults` without its bounds.
2. `RunsMeasured` as a theorem, and the time machine over a server whose calls overlap.
3. The properties of `JobQueue` itself (a lease taken back is never good again),
   which `Implementation` would carry over to the store.
4. `events_in_range` with the page's event list, and the detail panel, whose
   answers may be those of another job (index.html:1007).
5. Bounds above those of section 3 for the runs in which two clients overlap.
