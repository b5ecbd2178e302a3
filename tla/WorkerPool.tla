----------------------------- MODULE WorkerPool -----------------------------
(***************************************************************************)
(* The store, the reaper and the workers on the other side of the API,     *)
(* against one clock.  A worker claims a job, runs it, and reports; it may *)
(* die, or hang and report long after its lease ran out.  What the leases  *)
(* are for: a worker that answers in time is never disturbed, and a job    *)
(* whose worker does not answer still ends.                                *)
(*                                                                         *)
(* The workers are the clients of POST /jobs/claim, complete, fail and     *)
(* heartbeat (crates/api/src/routes.rs), external to this repository.      *)
(***************************************************************************)
EXTENDS HttpApi

CONSTANTS
    JobType,        \* the job type the workers serve
    Ttl,            \* lease_ttl_secs of their claims and heartbeats
    RetryLimits,    \* max_retries of an enqueue
    MaxSurprises    \* bound: deaths, hangs, heartbeats and retries

ASSUME PoolAssumption ==
    /\ JobType \in JobTypes
    /\ Ttl \in Nat
    /\ RetryLimits \subseteq 0..MaxU8
    /\ MaxSurprises \in Nat

VARIABLES
    space,          \* the jobs and the index
    clock,          \* the server's clock, in seconds
    doing,          \* what each worker does
    surprises       \* how often something other than a plain run happened

vars == <<space, clock, doing, surprises>>

Resting == [state |-> "resting"]
Dead    == [state |-> "dead"]

\* A prompt worker reports, or extends its lease, before the lease runs out.
Running(id, lease, prompt) ==
    [state |-> "running", id |-> id, lease |-> lease, prompt |-> prompt]

Init ==
    /\ space = Empty
    /\ clock = 0
    /\ doing = [w \in Workers |-> Resting]
    /\ surprises = 0

Runners == {w \in Workers : doing[w].state = "running"}
Prompt  == {w \in Runners : doing[w].prompt}

\* A lease that nobody remembers is as good as a new one, and any of them as
\* good as another.
FreshLeases ==
    LeaseIds \ (      {doing[w].lease : w \in Runners}
                 \cup UNION {{job.lease_id, job.result, job.error} :
                                job \in {space.jobs[id] : id \in Live(space)}})

Surprise ==
    /\ surprises < MaxSurprises
    /\ surprises' = surprises + 1

-----------------------------------------------------------------------------
(* Clients, and an operator.                                               *)

Enqueue ==
    /\ JobIds # Live(space)
    /\ LET id == CHOOSE fresh \in JobIds : fresh \notin Live(space)
       IN  \E max_retries \in RetryLimits :
               space' = EnqueueWithId(space, id, JobType, max_retries, clock)
    /\ UNCHANGED <<clock, doing, surprises>>

Retry ==
    /\ Surprise
    /\ \E id \in List(space, "failed") : space' = RetryJob(space, id)
    /\ UNCHANGED <<clock, doing>>

-----------------------------------------------------------------------------
(* Workers.                                                                *)

\* A bound: there is always a new lease, LeaseIds permitting.
Claim(w) ==
    /\ doing[w] = Resting
    /\ FreshLeases # {}
    /\ \E key \in OldestKeys(space, JobType) :
       LET lease == CHOOSE fresh \in FreshLeases : TRUE
       IN  /\ space' = ClaimKey(space, key, lease, Ttl, w, clock)
           /\ doing' = [doing EXCEPT ![w] = Running(key[3], lease, TRUE)]
    /\ UNCHANGED <<clock, surprises>>

\* The answer may be that the lease is not good: the worker rests all the same.
Report(w) ==
    /\ w \in Runners
    /\ LET id    == doing[w].id
           lease == doing[w].lease
       IN  \/ space' = CompleteJob(space, id, lease, lease, clock)
           \/ space' = FailJob(space, id, lease, lease, clock)
    /\ doing' = [doing EXCEPT ![w] = Resting]
    /\ UNCHANGED <<clock, surprises>>

Heartbeat(w) ==
    /\ Surprise
    /\ w \in Runners
    /\ space' = ExtendLease(space, doing[w].id, doing[w].lease, clock + Ttl)
    /\ UNCHANGED <<clock, doing>>

Hang(w) ==
    /\ Surprise
    /\ w \in Prompt
    /\ doing' = [doing EXCEPT ![w].prompt = FALSE]
    /\ UNCHANGED <<space, clock>>

\* One worker at the least survives: with none, no job could end.
Die(w) ==
    /\ Surprise
    /\ doing[w] # Dead
    /\ \E other \in Workers \ {w} : doing[other] # Dead
    /\ doing' = [doing EXCEPT ![w] = Dead]
    /\ UNCHANGED <<space, clock>>

-----------------------------------------------------------------------------
(* The reaper, and time.                                                   *)

Reap ==
    /\ Expired(space, clock) # {}
    /\ space' = ExpireLeases(space, clock)
    /\ UNCHANGED <<clock, doing, surprises>>

\* Time passes while a lease runs (a bound: nothing else looks at the clock),
\* and no prompt worker lets its own run out.
Tick ==
    /\ \E id \in List(space, "claimed") : clock <= space.jobs[id].lease_until
    /\ \A w \in Prompt : /\ CheckLease(space, doing[w].id, doing[w].lease)
                         => clock < space.jobs[doing[w].id].lease_until
    /\ clock' = clock + 1
    /\ UNCHANGED <<space, doing, surprises>>

Next ==
    \/ Enqueue
    \/ Retry
    \/ \E w \in Workers :
           \/ Claim(w)
           \/ Report(w)
           \/ Heartbeat(w)
           \/ Hang(w)
           \/ Die(w)
    \/ Reap
    \/ Tick

Spec == Init /\ [][Next]_vars

\* The reaper runs every five seconds for as long as the server does
\* (lib.rs:62-73); a worker that is not dead polls for work and ends its run,
\* however late; time does not stand still.
FairSpec ==
    /\ Spec
    /\ WF_vars(Reap)
    /\ WF_vars(Tick)
    /\ \A w \in Workers : WF_vars(Claim(w)) /\ WF_vars(Report(w))

-----------------------------------------------------------------------------

\* A worker that answers in time still holds its lease when it does: neither
\* the reaper nor any other call takes a job from it (space.rs:166-188).
PromptKeepsLease ==
    \A w \in Prompt : CheckLease(space, doing[w].id, doing[w].lease)

\* The gauges of the workers credit the one that did the work: those of the
\* done and the failed jobs rise with a report of the worker that was running
\* the job, never for one that held it before (README.md:176-189,
\* metrics.rs:39-53).
WorkersCredited ==
    [][\A w \in Workers, status \in {"done", "failed"} :
           WorkerJobs(space', w, status) > WorkerJobs(space, w, status)
           => w \in Runners /\ doing'[w] = Resting]_vars

\* Every job ends, whatever dies or hangs on the way, while one worker lives
\* (README.md:43-44: the job goes back to the queue automatically).
EveryJobEnds ==
    \A id \in JobIds : id \in Live(space) ~> id \in Live(space) /\ space.jobs[id].status \in Terminal
=============================================================================
