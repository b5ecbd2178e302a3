--------------------- MODULE PersistentSpaceRefinement ---------------------
(***************************************************************************)
(* That the pieces of the calls, as threads interleave them, come down to  *)
(* calls of one in-memory store: every step of a running process whose     *)
(* writes succeed is a step of TupleSpace or changes nothing it sees.      *)
(* And that what the clients are shown of it is the abstract queue.        *)
(***************************************************************************)
EXTENDS PersistentSpaceProofs

ClaimLeases(events) == {e.lease : e \in {x \in events : x.op = "claim"}}

Moment(time) == time \in Times \cup {Forever}

\* What the threads remember is still what a call of the store may be given.
CallKnown(t) ==
    /\ call[t].pc \in {"append", "apply"} =>
           /\ call[t].event.ts \in Times
           /\ call[t].event.op = "enqueue" => call[t].event.max_retries \in RetryLimits
           /\ call[t].event.op \notin {"enqueue", "claim"} => call[t].event.id \in AppliedIds
    /\ call[t].pc = "release" => Moment(call[t].until)
    /\ call[t].pc \in {"purge", "remove"} => call[t].todo \subseteq AppliedIds
    /\ call[t].pc = "remove" => call[t].id \in AppliedIds

CallsInv == \A t \in Threads : CallKnown(t)

-----------------------------------------------------------------------------
(* What the store has seen of the ids and of the leases.                   *)

\* An id was applied if the log has it and no call is about to apply it.
LEMMA Applied ==
    /\ \A id : id \in AppliedIds <=>
           /\ id \in EnqueuedIds(ToSet(log.events))
           /\ \A t \in Threads : Enqueues(t) => call[t].event.id # id
    /\ \A id : id \in AppliedIds' <=>
           /\ id \in EnqueuedIds(ToSet(log'.events))
           /\ \A t \in Threads : Enqueues(t)' => call'[t].event.id # id
<1>1. \A id : id \in EnqueuedIds(UNION {Pending(t) : t \in Threads})
                <=> \E t \in Threads : Enqueues(t) /\ call[t].event.id = id
  BY DEF EnqueuedIds, Pending, Enqueues, Busy
<1>2. \A id : id \in EnqueuedIds(UNION {Pending(t) : t \in Threads})'
                <=> \E t \in Threads : Enqueues(t)' /\ call'[t].event.id = id
  BY DEF EnqueuedIds, Pending, Enqueues, Busy
<1> QED
  BY <1>1, <1>2 DEF AppliedIds

\* A lease was drawn if a claim has it, in the log or under way.
LEMMA Drawn ==
    /\ \A lease : lease \in ClaimedLeases <=>
           \/ lease \in ClaimLeases(ToSet(log.events))
           \/ \E t \in Busy : call[t].event.op = "claim" /\ call[t].event.lease = lease
    /\ \A lease : lease \in ClaimedLeases' <=>
           \/ lease \in ClaimLeases(ToSet(log'.events))
           \/ \E t \in Busy' : call'[t].event.op = "claim" /\ call'[t].event.lease = lease
<1>1. \A lease : lease \in ClaimedLeases <=>
           \/ lease \in ClaimLeases(ToSet(log.events))
           \/ \E t \in Busy : call[t].event.op = "claim" /\ call[t].event.lease = lease
  BY DEF ClaimedLeases, ClaimLeases, KnownEvents, Pending, Busy
<1>2. \A lease : lease \in ClaimedLeases' <=>
           \/ lease \in ClaimLeases(ToSet(log'.events))
           \/ \E t \in Busy' : call'[t].event.op = "claim" /\ call'[t].event.lease = lease
  BY DEF ClaimedLeases, ClaimLeases, KnownEvents, Pending, Busy
<1> QED
  BY <1>1, <1>2

\* A job that is there was enqueued and applied.
LEMMA LiveApplied ==
    ASSUME LifeInv
    PROVE  Live(mem) \subseteq AppliedIds
BY Applied DEF LifeInv, Unborn

LEMMA GrantedDrawn == Granted \subseteq {<<id, lease>> : id \in {e.id : e \in ToSet(log.events)}, lease \in ClaimedLeases}
BY DEF Granted, ClaimedLeases, KnownEvents

\* What the store has seen, when one thread moves and writes no enqueue and
\* no claim.
LEMMA SeenKept ==
    ASSUME NEW t \in Threads,
           \A other \in Threads \ {t} : call'[other] = call[other],
           ~Enqueues(t), ~Enqueues(t)',
           t \in Busy => call[t].event.op # "claim",
           t \in Busy' => call'[t].event.op # "claim",
           EnqueuedIds(ToSet(log'.events)) = EnqueuedIds(ToSet(log.events)),
           ClaimLeases(ToSet(log'.events)) = ClaimLeases(ToSet(log.events))
    PROVE  AppliedIds' = AppliedIds /\ ClaimedLeases' = ClaimedLeases
<1>1. \A other \in Threads :
          /\ Enqueues(other)' <=> Enqueues(other)
          /\ Enqueues(other) => call'[other] = call[other]
  BY DEF Enqueues, Busy
<1>2. \A id : id \in AppliedIds' <=> id \in AppliedIds
  BY <1>1, Applied
<1>3. \A other \in Threads :
          /\ other \in Busy' /\ call'[other].event.op = "claim" <=> other \in Busy /\ call[other].event.op = "claim"
          /\ other \in Busy /\ call[other].event.op = "claim" => call'[other] = call[other]
  BY DEF Busy
<1>4. \A lease : lease \in ClaimedLeases' <=> lease \in ClaimedLeases
  BY <1>3, Drawn DEF Busy
<1> QED
  BY <1>2, <1>4

-----------------------------------------------------------------------------
(* The methods of the store, under the names the instance gives them.      *)

LEMMA SameMethods ==
    /\ \A id, type, max_retries, now :
           Calls!EnqueueWithId(mem, id, type, max_retries, now) = EnqueueWithId(mem, id, type, max_retries, now)
    /\ \A type : Calls!OldestKeys(mem, type) = OldestKeys(mem, type)
    /\ \A key, lease, ttl, worker, now :
           Calls!ClaimKey(mem, key, lease, ttl, worker, now) = ClaimKey(mem, key, lease, ttl, worker, now)
    /\ \A id, lease, now :
           /\ Calls!CompleteJob(mem, id, lease, lease, now) = CompleteJob(mem, id, lease, lease, now)
           /\ Calls!FailJob(mem, id, lease, lease, now) = FailJob(mem, id, lease, lease, now)
    /\ \A id, now : Calls!CancelJob(mem, id, now) = CancelJob(mem, id, now)
    /\ \A id : Calls!RetryJob(mem, id) = RetryJob(mem, id)
    /\ \A id, lease, until : Calls!ExtendLease(mem, id, lease, until) = ExtendLease(mem, id, lease, until)
    /\ \A now : Calls!ExpireLeases(mem, now) = ExpireLeases(mem, now)
    /\ \A id : Calls!RemoveJob(mem, id) = RemoveJob(mem, id)
<1>1. \A id, job : Calls!PendingKey(id, job) = PendingKey(id, job)
  BY DEF Calls!PendingKey, PendingKey
<1>2. \A id, job, pending : Calls!Put(mem, id, job, pending) = Put(mem, id, job, pending)
  BY DEF Calls!Put, Put
<1>3. Calls!Live(mem) = Live(mem) /\ \A status : Calls!List(mem, status) = List(mem, status)
  BY DEF Calls!Live, Live, Calls!List, List
<1>4. \A id, lease : Calls!CheckLease(mem, id, lease) <=> CheckLease(mem, id, lease)
  BY DEF Calls!CheckLease, CheckLease
<1>5. \A job : Calls!Requeued(job) = Requeued(job)
  BY DEF Calls!Requeued, Requeued
<1>6. \A n : Calls!NextU8(n) = NextU8(n)
  BY DEF Calls!NextU8, NextU8
<1>7. \A id, type, max_retries, now :
           Calls!EnqueueWithId(mem, id, type, max_retries, now) = EnqueueWithId(mem, id, type, max_retries, now)
  BY <1>1, <1>2 DEF Calls!EnqueueWithId, EnqueueWithId, Calls!NewJob, NewJob
<1>8. \A type : Calls!OldestKeys(mem, type) = OldestKeys(mem, type)
  BY DEF Calls!OldestKeys, OldestKeys
<1>9. \A key, lease, ttl, worker, now :
           Calls!ClaimKey(mem, key, lease, ttl, worker, now) = ClaimKey(mem, key, lease, ttl, worker, now)
  BY <1>2 DEF Calls!ClaimKey, ClaimKey, Calls!Claimed, Claimed
<1>10. \A id, lease, now : Calls!CompleteJob(mem, id, lease, lease, now) = CompleteJob(mem, id, lease, lease, now)
  BY <1>2, <1>4 DEF Calls!CompleteJob, CompleteJob
<1>11. \A id, lease, now : Calls!FailJob(mem, id, lease, lease, now) = FailJob(mem, id, lease, lease, now)
  BY <1>1, <1>2, <1>4, <1>5, <1>6 DEF Calls!FailJob, FailJob
<1>12. \A id, now : Calls!CancelJob(mem, id, now) = CancelJob(mem, id, now)
  BY <1>1, <1>2, <1>3 DEF Calls!CancelJob, CancelJob
<1>13. \A id : Calls!RetryJob(mem, id) = RetryJob(mem, id)
  BY <1>1, <1>2, <1>3 DEF Calls!RetryJob, RetryJob
<1>14. \A id, lease, until : Calls!ExtendLease(mem, id, lease, until) = ExtendLease(mem, id, lease, until)
  BY <1>2, <1>4 DEF Calls!ExtendLease, ExtendLease
<1>15. \A now : Calls!ExpireLeases(mem, now) = ExpireLeases(mem, now)
  <2>1. \A now : Calls!Expired(mem, now) = Expired(mem, now)
    BY <1>3 DEF Calls!Expired, Expired
  <2>2. ASSUME NEW ids
        PROVE  Calls!Release(mem, ids) = Release(mem, ids)
    <3>1. [id \in JobIds |-> IF id \in ids THEN Calls!Requeued(mem.jobs[id]) ELSE mem.jobs[id]]
          = [id \in JobIds |-> IF id \in ids THEN Requeued(mem.jobs[id]) ELSE mem.jobs[id]]
      BY <1>5
    <3>2. {Calls!PendingKey(id, mem.jobs[id]) : id \in ids} = {PendingKey(id, mem.jobs[id]) : id \in ids}
      BY <1>1
    <3> QED
      BY <3>1, <3>2 DEF Calls!Release, Release
  <2> QED
    BY <2>1, <2>2 DEF Calls!ExpireLeases, ExpireLeases
<1>16. \A id : Calls!RemoveJob(mem, id) = RemoveJob(mem, id)
  BY <1>1, <1>2, <1>3 DEF Calls!RemoveJob, RemoveJob
<1> QED
  BY <1>7, <1>8, <1>9, <1>10, <1>11, <1>12, <1>13, <1>14, <1>15, <1>16

-----------------------------------------------------------------------------
(* Each step is a call of the store, or shows it nothing.                  *)

Seen == <<mem, AppliedIds, ClaimedLeases>>

\* Every call of the store but a removal.
CallKeeps ==
    \/ \E now \in Times \cup {Forever} :
           \/ \E type \in JobTypes, max_retries \in RetryLimits : Calls!Enqueue(type, max_retries, now)
           \/ \E type \in JobTypes, ttl \in Ttls, worker \in Workers \cup {Nil} :
                  Calls!Claim(type, ttl, worker, now)
           \/ \E id \in AppliedIds :
                  \/ Calls!Cancel(id, now)
                  \/ \E lease \in ClaimedLeases :
                         \/ Calls!Complete(id, lease, now)
                         \/ Calls!Fail(id, lease, now)
                         \/ \E ttl \in Ttls : Calls!Extend(id, lease, now + ttl)
           \/ Calls!Expire(now)
    \/ \E id \in AppliedIds : Calls!Retry(id)

\* Only the clean-up removes, and what it has logged.
CallRemoves ==
    /\ RemovePurged
    /\ call[Cleaner].id \in AppliedIds
    /\ Calls!Remove(call[Cleaner].id)

CallStep == CallKeeps \/ CallRemoves \/ UNCHANGED Seen

LEMMA CallsKept ==
    ASSUME CallsInv, NEW t \in Threads, CallKnown(t)',
           \A other \in Threads \ {t} : call'[other] = call[other],
           AppliedIds \subseteq AppliedIds'
    PROVE  CallsInv'
<1> SUFFICES ASSUME NEW other \in Threads \ {t}
             PROVE  CallKnown(other)'
  BY DEF CallsInv
<1>1. CallKnown(other) /\ call'[other] = call[other]
  BY DEF CallsInv
<1> QED
  BY <1>1 DEF CallKnown, Moment, Forever

\* A thread begins to write an event that the store knows all about.
LEMMA BeginSilent ==
    ASSUME CallsInv, GrantInv, NEW t \in Threads, t \notin Busy, NEW event \in Event, Log(t, event),
           event.op \notin {"enqueue", "claim", "expire", "purge"},
           event.id \in AppliedIds, event.ts \in Times, UNCHANGED <<mem, log>>
    PROVE  CallsInv' /\ UNCHANGED Seen
<1>1. /\ call'[t] = [pc |-> "append", event |-> event]
      /\ \A other \in Threads \ {t} : call'[other] = call[other]
      /\ ~Enqueues(t)'
  BY LogBegun DEF GrantInv
<1>2. call'[t].pc = "append" /\ call'[t].event = event
  BY <1>1
<1>3. ToSet(log'.events) = ToSet(log.events)
  OBVIOUS
<1>4. AppliedIds' = AppliedIds /\ ClaimedLeases' = ClaimedLeases
  BY <1>1, <1>2, <1>3, SeenKept DEF Enqueues
<1>5. CallKnown(t)'
  BY <1>2, <1>4 DEF CallKnown
<1> QED
  BY <1>1, <1>4, <1>5, CallsKept DEF Seen

LEMMA BeginReportCall ==
    ASSUME CallsInv, LifeInv, GrantInv, NEW t \in Clients, BeginComplete(t) \/ BeginFail(t)
    PROVE  CallsInv' /\ CallStep
<1>1. PICK op \in {"complete", "fail"} : BeginReport(t, op)
  BY DEF BeginComplete, BeginFail
<1>2. PICK held \in Granted :
          /\ held[1] \in Live(mem)
          /\ Log(t, [op |-> op, id |-> held[1], ts |-> clock, lease |-> held[2]])
  BY <1>1 DEF BeginReport
<1> DEFINE event == [op |-> op, id |-> held[1], ts |-> clock, lease |-> held[2]]
<1>3. held[1] \in JobIds /\ held[2] \in LeaseIds /\ held[1] \in AppliedIds
  BY <1>2, GrantedType, LiveApplied DEF LifeInv
<1>4. event \in Event /\ event.op \notin {"enqueue", "claim", "expire", "purge"}
  BY <1>3, ClockType DEF Event
<1>5. event.id \in AppliedIds /\ event.ts \in Times
  BY <1>3 DEF LifeInv, LifeType
<1> HIDE DEF event
<1>6. Log(t, event)
  BY <1>2 DEF event
<1>7. t \in Threads /\ t \notin Busy /\ UNCHANGED <<mem, log>>
  BY <1>1, Beginner DEF BeginReport, Request, Threads
<1> QED
  BY <1>4, <1>5, <1>6, <1>7, BeginSilent DEF CallStep

LEMMA BeginOperatorCall ==
    ASSUME CallsInv, LifeInv, GrantInv, NEW t \in Clients, BeginCancel(t) \/ BeginRetry(t)
    PROVE  CallsInv' /\ CallStep
<1>1. PICK op \in {"cancel", "retry"}, id \in Live(mem) : Log(t, [op |-> op, id |-> id, ts |-> clock])
  BY DEF BeginCancel, BeginRetry, List
<1> DEFINE event == [op |-> op, id |-> id, ts |-> clock]
<1>2. event \in Event /\ event.op \notin {"enqueue", "claim", "expire", "purge"}
  BY ClockType DEF Event, Live
<1>3. event.id \in AppliedIds /\ event.ts \in Times
  BY LiveApplied DEF LifeInv, LifeType
<1> HIDE DEF event
<1>4. Log(t, event)
  BY <1>1 DEF event
<1>5. t \in Threads /\ t \notin Busy /\ UNCHANGED <<mem, log>>
  BY Beginner DEF BeginCancel, BeginRetry, Request, Threads
<1> QED
  BY <1>2, <1>3, <1>4, <1>5, BeginSilent DEF CallStep

\* The id of an enqueue is seen once the job is there, not before.
LEMMA BeginEnqueueCall ==
    ASSUME CallsInv, LifeInv, GrantInv, NEW t \in Clients, BeginEnqueue(t)
    PROVE  CallsInv' /\ CallStep
<1>0. t \in Threads /\ t \notin Busy /\ UNCHANGED <<mode, mem, log, clock>>
  BY Beginner DEF Threads, BeginEnqueue, Request
<1>1. PICK id \in FreshIds : \E type \in JobTypes, max_retries \in RetryLimits :
          Log(t, [op |-> "enqueue", id |-> id, ts |-> clock,
                  job_type |-> type, max_retries |-> max_retries])
  BY DEF BeginEnqueue
<1>2. PICK type \in JobTypes, max_retries \in RetryLimits :
          Log(t, [op |-> "enqueue", id |-> id, ts |-> clock,
                  job_type |-> type, max_retries |-> max_retries])
  BY <1>1
<1> DEFINE event == [op |-> "enqueue", id |-> id, ts |-> clock,
                     job_type |-> type, max_retries |-> max_retries]
<1>3. /\ event.op = "enqueue" /\ event.id = id /\ event.max_retries \in RetryLimits
      /\ event.ts \in Times
  BY DEF LifeInv, LifeType
<1> HIDE DEF event
<1>4. /\ call'[t] = [pc |-> "append", event |-> event]
      /\ \A other \in Threads \ {t} : call'[other] = call[other]
  BY <1>0, <1>2 DEF event, Log, GrantInv, Shapes
<1>5. call'[t].pc = "append" /\ call'[t].event = event
  BY <1>4
<1>6. id \notin EnqueuedIds(ToSet(log.events))
  BY DEF FreshIds, KnownEvents, EnqueuedIds
<1>7. \A other \in Threads : Enqueues(other)' <=> other = t \/ Enqueues(other)
  BY <1>0, <1>3, <1>4, <1>5 DEF Enqueues, Busy
<1>8. \A x : x \in AppliedIds' <=> x \in AppliedIds
  <2>1. \A other \in Threads : Enqueues(other) => other # t /\ call'[other] = call[other]
    BY <1>0, <1>4 DEF Enqueues
  <2>2. ToSet(log'.events) = ToSet(log.events)
    BY <1>0
  <2> QED
    BY <1>0, <1>3, <1>5, <1>6, <1>7, <2>1, <2>2, Applied
<1>9. \A lease : lease \in ClaimedLeases' <=> lease \in ClaimedLeases
  <2>1. \A other \in Threads :
            other \in Busy' /\ call'[other].event.op = "claim" <=> other \in Busy /\ call[other].event.op = "claim"
    BY <1>0, <1>3, <1>4, <1>5 DEF Busy
  <2>2. \A other \in Busy : other \in Threads /\ call'[other] = call[other]
    BY <1>0, <1>4 DEF Busy
  <2>3. ToSet(log'.events) = ToSet(log.events) /\ Busy \subseteq Threads /\ Busy' \subseteq Threads
    BY <1>0 DEF Busy
  <2> QED
    BY <2>1, <2>2, <2>3, Drawn
<1>10. CallKnown(t)'
  BY <1>3, <1>5 DEF CallKnown
<1> QED
  BY <1>0, <1>4, <1>8, <1>9, <1>10, CallsKept DEF CallStep, Seen

\* Which leases the log has granted, after a write.
LEMMA LeasesWritten ==
    ASSUME Shapes, NEW event, log' = AppendEvent(log, event)
    PROVE  ClaimLeases(ToSet(log'.events)) =
               ClaimLeases(ToSet(log.events)) \cup (IF event.op = "claim" THEN {event.lease} ELSE {})
<1>1. ToSet(log'.events) = ToSet(log.events) \cup {event}
  BY LogWritten
<1> QED
  BY <1>1 DEF ClaimLeases

\* The write itself shows the store nothing: the id of an enqueue is not
\* applied yet, the lease of a claim was drawn before.
LEMMA AppendCall ==
    ASSUME CallsInv, LifeInv, GrantInv, NEW t \in Clients, AppendRequest(t)
    PROVE  CallsInv' /\ CallStep
<1> DEFINE event == call[t].event
<1>1. /\ t \in Threads /\ t \in Busy /\ call[t].pc = "append" /\ log' = AppendEvent(log, event)
      /\ mem' = mem
  BY DEF AppendRequest, WriteLog, Threads, Busy
<1>2. /\ IF event.op = "claim" THEN call'[t] = Idle ELSE call'[t] = [pc |-> "apply", event |-> event]
      /\ \A other \in Threads \ {t} : call'[other] = call[other]
  BY <1>1 DEF AppendRequest, GrantInv, Shapes
<1> HIDE DEF event
<1>3. IF event.op = "claim" THEN call'[t].pc = "idle" ELSE call'[t].pc = "apply" /\ call'[t].event = event
  BY <1>2 DEF Idle
<1>4. /\ EnqueuedIds(ToSet(log'.events)) =
             EnqueuedIds(ToSet(log.events)) \cup (IF event.op = "enqueue" THEN {event.id} ELSE {})
      /\ ClaimLeases(ToSet(log'.events)) =
             ClaimLeases(ToSet(log.events)) \cup (IF event.op = "claim" THEN {event.lease} ELSE {})
  BY <1>1, IdsWritten, LeasesWritten DEF GrantInv
<1>5. \A other \in Threads :
          /\ Enqueues(other)' <=> Enqueues(other)
          /\ Enqueues(other) => call'[other].event = call[other].event
  BY <1>1, <1>2, <1>3 DEF Enqueues, Busy, event
<1>6. event.op = "enqueue" => Enqueues(t) /\ call[t].event.id = event.id
  BY <1>1 DEF Enqueues, event
<1>7. \A id : id \in AppliedIds' <=> id \in AppliedIds
  <2> SUFFICES ASSUME NEW id
               PROVE  id \in AppliedIds' <=> id \in AppliedIds
    OBVIOUS
  <2>1. CASE event.op = "enqueue" /\ id = event.id
    BY <1>1, <1>5, <1>6, <2>1, Applied
  <2>2. CASE ~(event.op = "enqueue" /\ id = event.id)
    <3>1. id \in EnqueuedIds(ToSet(log'.events)) <=> id \in EnqueuedIds(ToSet(log.events))
      BY <1>4, <2>2
    <3> QED
      BY <1>5, <3>1, Applied
  <2> QED
    BY <2>1, <2>2
<1>8. \A lease : lease \in ClaimedLeases' <=> lease \in ClaimedLeases
  <2>1. \A other \in Threads \ {t} :
            other \in Busy' /\ call'[other].event.op = "claim" <=> other \in Busy /\ call[other].event.op = "claim"
    BY <1>2 DEF Busy
  <2>2. ~(t \in Busy' /\ call'[t].event.op = "claim")
    BY <1>3 DEF Busy
  <2>3. event.op = "claim" <=> call[t].event.op = "claim"
    BY DEF event
  <2>4. Busy \subseteq Threads /\ Busy' \subseteq Threads /\ event.lease = call[t].event.lease
    BY DEF Busy, event
  <2> QED
    BY <1>1, <1>2, <1>4, <2>1, <2>2, <2>3, <2>4, Drawn
<1>9. CallKnown(t)
  BY <1>1 DEF CallsInv
<1>10. CallKnown(t)'
  <2>1. AppliedIds' = AppliedIds
    BY <1>7
  <2>2. CASE event.op = "claim"
    BY <1>3, <2>2 DEF CallKnown
  <2>3. CASE event.op # "claim"
    BY <1>1, <1>3, <1>9, <2>1, <2>3 DEF CallKnown, event
  <2> QED
    BY <2>2, <2>3
<1> QED
  BY <1>1, <1>2, <1>7, <1>8, <1>10, CallsKept DEF CallStep, Seen

\* A claim is the store's in its first step.
LEMMA BeginClaimCall ==
    ASSUME CallsInv, LifeInv, GrantInv, NEW t \in Clients, BeginClaim(t)
    PROVE  CallsInv' /\ CallStep
<1>0. t \in Threads /\ t \notin Busy /\ UNCHANGED <<mode, log, clock>>
  BY Beginner DEF Threads, BeginClaim, Request
<1>1. PICK type \in JobTypes : \E key \in OldestKeys(mem, type),
          lease \in FreshLeases, ttl \in Ttls, worker \in Workers \cup {Nil} :
              /\ mem' = ClaimKey(mem, key, lease, ttl, worker, clock)
              /\ IF mem.jobs[key[3]] = NoJob
                 THEN UNCHANGED call
                 ELSE Log(t, [op |-> "claim", id |-> key[3], ts |-> clock,
                              lease |-> lease, until |-> clock + ttl, worker |-> worker])
  BY DEF BeginClaim
<1>2. PICK key \in OldestKeys(mem, type), lease \in FreshLeases, ttl \in Ttls,
           worker \in Workers \cup {Nil} :
              /\ mem' = ClaimKey(mem, key, lease, ttl, worker, clock)
              /\ IF mem.jobs[key[3]] = NoJob
                 THEN UNCHANGED call
                 ELSE Log(t, [op |-> "claim", id |-> key[3], ts |-> clock,
                              lease |-> lease, until |-> clock + ttl, worker |-> worker])
  BY <1>1
<1> DEFINE event == [op |-> "claim", id |-> key[3], ts |-> clock,
                     lease |-> lease, until |-> clock + ttl, worker |-> worker]
<1>3. mem.jobs[key[3]] # NoJob
  BY PendingKeyIndexed DEF LifeInv, OldestKeys, List, Live
<1>4. event.op = "claim" /\ event.lease = lease /\ event.ts \in Times
  BY DEF LifeInv, LifeType
<1> HIDE DEF event
<1>5. /\ call'[t] = [pc |-> "append", event |-> event]
      /\ \A other \in Threads \ {t} : call'[other] = call[other]
  BY <1>0, <1>2, <1>3 DEF event, Log, GrantInv, Shapes
<1>6. call'[t].pc = "append" /\ call'[t].event = event
  BY <1>5
<1>7. \A id : id \in AppliedIds' <=> id \in AppliedIds
  <2>1. \A other \in Threads :
            /\ Enqueues(other)' <=> Enqueues(other)
            /\ Enqueues(other) => call'[other] = call[other]
    BY <1>0, <1>4, <1>5, <1>6 DEF Enqueues, Busy
  <2>2. ToSet(log'.events) = ToSet(log.events)
    BY <1>0
  <2> QED
    BY <2>1, <2>2, Applied
<1>8. \A x : x \in ClaimedLeases' <=> x \in ClaimedLeases \/ x = lease
  <2>1. \A other \in Threads \ {t} :
            other \in Busy' /\ call'[other].event.op = "claim" <=> other \in Busy /\ call[other].event.op = "claim"
    BY <1>5 DEF Busy
  <2>2. t \in Busy' /\ call'[t].event.op = "claim" /\ call'[t].event.lease = lease
    BY <1>0, <1>4, <1>6 DEF Busy
  <2>3. ToSet(log'.events) = ToSet(log.events) /\ Busy \subseteq Threads /\ Busy' \subseteq Threads
    BY <1>0 DEF Busy
  <2> QED
    BY <1>0, <1>5, <2>1, <2>2, <2>3, Drawn
<1>9. lease \in LeaseIds \ ClaimedLeases
  BY DEF FreshLeases, ClaimedLeases
<1>10. CallKnown(t)'
  BY <1>4, <1>6 DEF CallKnown
<1>11. CallsInv'
  BY <1>0, <1>5, <1>7, <1>10, CallsKept
<1>12. Calls!Claim(type, ttl, worker, clock)
  <2>1. key \in Calls!OldestKeys(mem, type) /\ mem' = Calls!ClaimKey(mem, key, lease, ttl, worker, clock)
    BY <1>2, SameMethods
  <2> QED
    BY <1>7, <1>8, <1>9, <2>1 DEF Calls!Claim
<1>13. CallKeeps
  BY <1>12 DEF CallKeeps, LifeInv, LifeType
<1> QED
  BY <1>11, <1>13 DEF CallStep

LEMMA HeartbeatCall ==
    ASSUME CallsInv, LifeInv, GrantInv, NEW t \in Clients, Heartbeat(t)
    PROVE  CallsInv' /\ CallStep
<1>1. PICK held \in Granted, ttl \in Ttls : mem' = ExtendLease(mem, held[1], held[2], clock + ttl)
  BY DEF Heartbeat
<1>2. UNCHANGED <<log, call>>
  BY DEF Heartbeat
<1>3. AppliedIds' = AppliedIds /\ ClaimedLeases' = ClaimedLeases
  BY <1>2 DEF AppliedIds, ClaimedLeases, KnownEvents, Pending
<1>4. CallsInv'
  BY <1>2, <1>3 DEF CallsInv, CallKnown, Moment, Forever
<1>5. held[1] \in JobIds /\ held[2] \in ClaimedLeases
  BY GrantedType, GrantedDrawn DEF LifeInv
<1>6. CASE held[1] \in AppliedIds
  <2>1. mem' = Calls!ExtendLease(mem, held[1], held[2], clock + ttl)
    BY <1>1, SameMethods
  <2>2. Calls!Extend(held[1], held[2], clock + ttl)
    BY <1>3, <2>1 DEF Calls!Extend
  <2>3. CallKeeps
    BY <1>5, <1>6, <2>2 DEF CallKeeps, LifeInv, LifeType
  <2> QED
    BY <1>4, <2>3 DEF CallStep
<1>7. CASE held[1] \notin AppliedIds
  <2>1. held[1] \notin Live(mem)
    BY <1>7, LiveApplied
  <2>2. mem' = mem
    BY <1>1, <1>5, <2>1 DEF ExtendLease, CheckLease, Live
  <2> QED
    BY <1>3, <1>4, <2>2 DEF CallStep, Seen
<1> QED
  BY <1>6, <1>7

\* An enqueue is the store's in its last step.
LEMMA ApplyEnqueueCall ==
    ASSUME CallsInv, LifeInv, GrantInv, NEW t \in Clients, ApplyRequest(t), Enqueues(t)
    PROVE  CallsInv' /\ CallStep
<1> DEFINE event == call[t].event
<1>1. /\ t \in Threads /\ t \in Busy /\ call[t].pc = "apply" /\ call'[t] = Idle
      /\ \A other \in Threads \ {t} : call'[other] = call[other]
      /\ log' = log
      /\ mem' = Apply(mem, event)
      /\ event.op = "enqueue"
  BY DEF ApplyRequest, GrantInv, Shapes, Threads, Busy, Enqueues
<1>2. Unborn(t) /\ event \in Event /\ CallKnown(t)
  BY <1>1 DEF LifeInv, LifeType, CallTyped, CallsInv
<1>3. event.id \in JobIds /\ event.job_type \in JobTypes
  BY <1>1, <1>2 DEF Event
<1>4. event.ts \in Times /\ event.max_retries \in RetryLimits
  BY <1>1, <1>2 DEF CallKnown
<1>5. event.id \in EnqueuedIds(ToSet(log.events))
      /\ \A other \in Threads \ {t} : Enqueues(other) => call[other].event.id # event.id
  BY <1>1, <1>2 DEF Unborn
<1>6. ~Enqueues(t)'
  BY <1>1 DEF Enqueues, Busy, Idle
<1>7. Enqueues(t) /\ call[t].event.id = event.id
  OBVIOUS
<1> HIDE DEF event
<1>8. \A other \in Threads \ {t} :
          (Enqueues(other)' <=> Enqueues(other)) /\ call'[other] = call[other]
  BY <1>1 DEF Enqueues, Busy
<1>9. \A id : id \in AppliedIds' <=> id \in AppliedIds \/ id = event.id
  BY <1>1, <1>5, <1>6, <1>7, <1>8, Applied
<1>10. event.id \notin AppliedIds
  BY <1>1, <1>7, Applied
<1>11. ClaimedLeases' = ClaimedLeases
  <2>1. \A other \in Threads :
            /\ other \in Busy' /\ call'[other].event.op = "claim" <=> other \in Busy /\ call[other].event.op = "claim"
            /\ other \in Busy /\ call[other].event.op = "claim" => call'[other] = call[other]
    BY <1>1 DEF Busy, Idle, event
  <2>2. \A lease : lease \in ClaimedLeases' <=> lease \in ClaimedLeases
    BY <1>1, <2>1, Drawn DEF Busy
  <2> QED
    BY <2>2
<1>12. CallKnown(t)'
  BY <1>1 DEF CallKnown, Idle
<1>13. CallsInv'
  BY <1>1, <1>9, <1>12, CallsKept
<1>14. mem' = Calls!EnqueueWithId(mem, event.id, event.job_type, event.max_retries, event.ts)
  BY <1>1, SameMethods DEF Apply
<1>15. Calls!Enqueue(event.job_type, event.max_retries, event.ts)
  BY <1>3, <1>9, <1>10, <1>11, <1>14 DEF Calls!Enqueue
<1>16. CallKeeps
  BY <1>3, <1>4, <1>15 DEF CallKeeps
<1> QED
  BY <1>13, <1>16 DEF CallStep

LEMMA ApplyOtherCall ==
    ASSUME CallsInv, LifeInv, GrantInv, NEW t \in Clients, ApplyRequest(t), ~Enqueues(t)
    PROVE  CallsInv' /\ CallStep
<1> DEFINE event == call[t].event
<1>1. /\ t \in Threads /\ t \in Busy /\ call[t].pc = "apply" /\ call'[t] = Idle
      /\ \A other \in Threads \ {t} : call'[other] = call[other]
      /\ log' = log
      /\ mem' = Apply(mem, event)
  BY DEF ApplyRequest, GrantInv, Shapes, Threads, Busy
<1>2. /\ event.op \in {"complete", "fail", "cancel", "retry"}
      /\ event.op \in {"complete", "fail"} => event.lease \in ClaimedLeases
      /\ event.id \in AppliedIds
      /\ event.ts \in Times
  <2>1. event \in Event /\ event.op \notin {"enqueue", "claim", "expire", "purge"}
    BY <1>1 DEF LifeInv, LifeType, CallTyped, GrantInv, ClaimFresh, Enqueues
  <2>2. event.op \in {"complete", "fail", "cancel", "retry"}
    BY <2>1 DEF Event
  <2>3. CallKnown(t) /\ ReportGranted(event)
    BY <1>1 DEF CallsInv, GrantInv
  <2>4. event.id \in AppliedIds /\ event.ts \in Times
    BY <1>1, <2>1, <2>3 DEF CallKnown
  <2>5. event.op \in {"complete", "fail"} => event.lease \in ClaimedLeases
    BY <2>3 DEF ReportGranted, Granted, ClaimedLeases, KnownEvents
  <2> QED
    BY <2>2, <2>4, <2>5
<1>3. ~Enqueues(t)' /\ t \notin Busy'
  BY <1>1 DEF Enqueues, Busy, Idle
<1>4. event.op # "claim"
  BY <1>2
<1>5. AppliedIds' = AppliedIds /\ ClaimedLeases' = ClaimedLeases
  BY <1>1, <1>3, <1>4, SeenKept
<1>6. CallKnown(t)'
  BY <1>1 DEF CallKnown, Idle
<1>7. CallsInv'
  BY <1>1, <1>5, <1>6, CallsKept
<1> HIDE DEF event
<1>8. CASE event.op = "complete"
  <2>1. Calls!Complete(event.id, event.lease, event.ts)
    BY <1>1, <1>5, <1>8, SameMethods DEF Apply, Calls!Complete
  <2> QED
    BY <1>2, <1>7, <1>8, <2>1 DEF CallStep, CallKeeps
<1>9. CASE event.op = "fail"
  <2>1. Calls!Fail(event.id, event.lease, event.ts)
    BY <1>1, <1>5, <1>9, SameMethods DEF Apply, Calls!Fail
  <2> QED
    BY <1>2, <1>7, <1>9, <2>1 DEF CallStep, CallKeeps
<1>10. CASE event.op = "cancel"
  <2>1. Calls!Cancel(event.id, event.ts)
    BY <1>1, <1>5, <1>10, SameMethods DEF Apply, Calls!Cancel
  <2> QED
    BY <1>2, <1>7, <2>1 DEF CallStep, CallKeeps
<1>11. CASE event.op = "retry"
  <2>1. Calls!Retry(event.id)
    BY <1>1, <1>5, <1>11, SameMethods DEF Apply, Calls!Retry
  <2> QED
    BY <1>2, <1>7, <2>1 DEF CallStep, CallKeeps
<1> QED
  BY <1>2, <1>8, <1>9, <1>10, <1>11

\* A task that has no event of its own under way leaves the ids and the leases
\* as they were, whatever it writes.
LEMMA TaskSeen ==
    ASSUME GrantInv, NEW t \in Threads, t \notin Busy, t \notin Busy',
           \A other \in Threads \ {t} : call'[other] = call[other],
           \/ log'.events = log.events
           \/ \E event : event.op \in {"expire", "purge"} /\ log' = AppendEvent(log, event)
    PROVE  AppliedIds' = AppliedIds /\ ClaimedLeases' = ClaimedLeases
<1>1. /\ EnqueuedIds(ToSet(log'.events)) = EnqueuedIds(ToSet(log.events))
      /\ ClaimLeases(ToSet(log'.events)) = ClaimLeases(ToSet(log.events))
  <2>1. CASE log'.events = log.events
    BY <2>1
  <2>2. ASSUME NEW event, event.op \in {"expire", "purge"}, log' = AppendEvent(log, event)
        PROVE  /\ EnqueuedIds(ToSet(log'.events)) = EnqueuedIds(ToSet(log.events))
               /\ ClaimLeases(ToSet(log'.events)) = ClaimLeases(ToSet(log.events))
    BY <2>2, IdsWritten, LeasesWritten DEF GrantInv
  <2> QED
    BY <2>1, <2>2
<1> QED
  BY <1>1, SeenKept DEF Enqueues

LEMMA TaskBeginsCall ==
    ASSUME CallsInv, LifeInv, GrantInv, BeginReap \/ BeginShutdown \/ BeginCleanup
    PROVE  CallsInv' /\ CallStep
<1>1. PICK t \in Tasks : \/ t = Reaper /\ BeginReap
                         \/ t = Main /\ BeginShutdown
                         \/ t = Cleaner /\ BeginCleanup
  BY DEF BeginReap, BeginShutdown, BeginCleanup
<1>2. /\ t \in Threads /\ t \notin Busy /\ call = [other \in Threads |-> call[other]]
      /\ UNCHANGED <<mem, log>>
  BY <1>1, Beginner DEF Threads, GrantInv, Shapes, BeginReap, BeginShutdown, BeginCleanup
<1>3. Purgeable \subseteq AppliedIds
  BY LiveApplied DEF Purgeable
<1>4. /\ \A other \in Threads \ {t} : call'[other] = call[other]
      /\ \/ call'[t].pc = "release" /\ call'[t].until \in {clock, Forever}
         \/ call'[t].pc = "purge" /\ call'[t].todo = Purgeable
  <2>1. CASE t = Reaper /\ BeginReap
    BY <1>2, <2>1 DEF BeginReap, BeginRelease
  <2>2. CASE t = Main /\ BeginShutdown
    BY <1>2, <2>2 DEF BeginShutdown, BeginRelease
  <2>3. CASE t = Cleaner /\ BeginCleanup
    BY <1>2, <2>3 DEF BeginCleanup
  <2> QED
    BY <1>1, <2>1, <2>2, <2>3
<1>5. AppliedIds' = AppliedIds /\ ClaimedLeases' = ClaimedLeases
  <2>1. t \notin Busy'
    BY <1>4 DEF Busy
  <2> QED
    BY <1>2, <1>4, <2>1, TaskSeen
<1>6. CallKnown(t)'
  BY <1>3, <1>4, <1>5 DEF CallKnown, Moment, Forever, LifeInv, LifeType
<1> QED
  BY <1>2, <1>4, <1>5, <1>6, CallsKept DEF CallStep, Seen

LEMMA AppendExpireCall ==
    ASSUME CallsInv, LifeInv, GrantInv, NEW t \in Tasks, AppendExpire(t)
    PROVE  CallsInv' /\ CallStep
<1>1. PICK id \in call[t].todo :
          /\ call' = [call EXCEPT ![t].todo = @ \ {id}]
          /\ \/ log' = AppendEvent(log, [op |-> "expire", id |-> id, ts |-> call[t].ts])
             \/ log' = log
  BY DEF AppendExpire, WriteLog
<1>2. t \in Threads /\ call[t].pc = "release" /\ mem' = mem /\ CallKnown(t)
  BY DEF AppendExpire, Threads, CallsInv
<1>3. /\ call'[t] = [call[t] EXCEPT !.todo = call[t].todo \ {id}]
      /\ \A other \in Threads \ {t} : call'[other] = call[other]
  BY <1>1, <1>2 DEF GrantInv, Shapes
<1>4. call'[t].pc = "release" /\ call'[t].until = call[t].until
  BY <1>2, <1>3
<1>5. t \notin Busy /\ t \notin Busy'
  BY <1>2, <1>4 DEF Busy
<1>6. AppliedIds' = AppliedIds /\ ClaimedLeases' = ClaimedLeases
  <2>1. \/ log'.events = log.events
        \/ \E event : event.op \in {"expire", "purge"} /\ log' = AppendEvent(log, event)
    BY <1>1
  <2> QED
    BY <1>2, <1>3, <1>5, <2>1, TaskSeen
<1>7. CallKnown(t)'
  BY <1>2, <1>4 DEF CallKnown, Moment, Forever
<1> QED
  BY <1>2, <1>3, <1>6, <1>7, CallsKept DEF CallStep, Seen

LEMMA FinishReleaseCall ==
    ASSUME CallsInv, LifeInv, GrantInv, NEW t \in Tasks, FinishRelease(t)
    PROVE  CallsInv' /\ CallStep
<1>1. /\ t \in Threads /\ call[t].pc = "release" /\ CallKnown(t) /\ log' = log
      /\ mem' = ExpireLeases(mem, call[t].until)
      /\ call' = [call EXCEPT ![t] = IF t = Main THEN [pc |-> "max_seq"] ELSE Idle]
  BY DEF FinishRelease, Threads, CallsInv
<1>2. /\ call'[t].pc \in {"max_seq", "idle"}
      /\ \A other \in Threads \ {t} : call'[other] = call[other]
  BY <1>1 DEF GrantInv, Shapes, Idle
<1>3. t \notin Busy /\ t \notin Busy'
  BY <1>1, <1>2 DEF Busy
<1>4. AppliedIds' = AppliedIds /\ ClaimedLeases' = ClaimedLeases
  BY <1>1, <1>2, <1>3, TaskSeen
<1>5. CallKnown(t)'
  BY <1>2 DEF CallKnown
<1>6. CallsInv'
  BY <1>1, <1>2, <1>4, <1>5, CallsKept
<1>7. Calls!Expire(call[t].until)
  BY <1>1, <1>4, SameMethods DEF Calls!Expire
<1>8. call[t].until \in Times \cup {Forever}
  BY <1>1 DEF CallKnown, Moment
<1> QED
  BY <1>6, <1>7, <1>8 DEF CallStep, CallKeeps

LEMMA AppendPurgeCall ==
    ASSUME CallsInv, LifeInv, GrantInv, AppendPurge
    PROVE  CallsInv' /\ CallStep
<1>1. PICK id \in call[Cleaner].todo :
          /\ log' = AppendEvent(log, [op |-> "purge", id |-> id, ts |-> call[Cleaner].ts])
          /\ call' = [call EXCEPT ![Cleaner] = [pc |-> "remove", id |-> id,
                                                todo |-> @.todo \ {id}, ts |-> @.ts]]
  BY DEF AppendPurge, WriteLog
<1>2. Cleaner \in Threads /\ call[Cleaner].pc = "purge" /\ mem' = mem /\ CallKnown(Cleaner)
  BY DEF AppendPurge, Threads, CallsInv
<1>3. /\ call'[Cleaner] = [pc |-> "remove", id |-> id,
                           todo |-> call[Cleaner].todo \ {id}, ts |-> call[Cleaner].ts]
      /\ \A other \in Threads \ {Cleaner} : call'[other] = call[other]
  BY <1>1, <1>2 DEF GrantInv, Shapes
<1>4. /\ call'[Cleaner].pc = "remove" /\ call'[Cleaner].id = id
      /\ call'[Cleaner].todo = call[Cleaner].todo \ {id}
  BY <1>3
<1>5. Cleaner \notin Busy /\ Cleaner \notin Busy'
  BY <1>2, <1>4 DEF Busy
<1>6. AppliedIds' = AppliedIds /\ ClaimedLeases' = ClaimedLeases
  <2>1. \E event : event.op \in {"expire", "purge"} /\ log' = AppendEvent(log, event)
    BY <1>1
  <2> QED
    BY <1>2, <1>3, <1>5, <2>1, TaskSeen
<1>7. CallKnown(Cleaner)'
  BY <1>2, <1>4, <1>6 DEF CallKnown
<1> QED
  BY <1>2, <1>3, <1>6, <1>7, CallsKept DEF CallStep, Seen

LEMMA RemovePurgedCall ==
    ASSUME CallsInv, LifeInv, GrantInv, RemovePurged
    PROVE  CallsInv' /\ CallStep
<1>1. /\ Cleaner \in Threads /\ call[Cleaner].pc = "remove" /\ CallKnown(Cleaner) /\ log' = log
      /\ mem' = RemoveJob(mem, call[Cleaner].id)
  BY DEF RemovePurged, Threads, CallsInv
<1>2. call[Cleaner].id \in AppliedIds /\ call[Cleaner].todo \subseteq AppliedIds
  BY <1>1 DEF CallKnown
<1>3. /\ call'[Cleaner] = [pc |-> "purge", todo |-> call[Cleaner].todo, ts |-> call[Cleaner].ts]
      /\ \A other \in Threads \ {Cleaner} : call'[other] = call[other]
  BY <1>1 DEF RemovePurged, GrantInv, Shapes
<1>4. call'[Cleaner].pc = "purge" /\ call'[Cleaner].todo = call[Cleaner].todo
  BY <1>3
<1>5. Cleaner \notin Busy /\ Cleaner \notin Busy'
  BY <1>1, <1>4 DEF Busy
<1>6. AppliedIds' = AppliedIds /\ ClaimedLeases' = ClaimedLeases
  BY <1>1, <1>3, <1>5, TaskSeen
<1>7. CallKnown(Cleaner)'
  BY <1>2, <1>4, <1>6 DEF CallKnown
<1>8. CallsInv'
  BY <1>1, <1>3, <1>6, <1>7, CallsKept
<1>9. Calls!Remove(call[Cleaner].id)
  BY <1>1, <1>6, SameMethods DEF Calls!Remove
<1> QED
  BY <1>2, <1>8, <1>9 DEF CallStep, CallRemoves

LEMMA SnapshotCall ==
    ASSUME CallsInv, LifeInv, GrantInv, NEW t \in Threads,
           \/ t = Cleaner /\ FinishPurge
           \/ ReadMaxSeq(t)
           \/ ListJobs(t)
           \/ Save(t)
           \/ Truncate(t)
           \/ TaskFails(t)
    PROVE  CallsInv' /\ CallStep
<1>1. call = [other \in Threads |-> call[other]] /\ mem' = mem /\ t \notin Busy
  BY DEF GrantInv, Shapes, Busy, FinishPurge, ReadMaxSeq, ListJobs, Save, Truncate, TaskFails
<1>2. log'.events = log.events
  <2>1. \/ \E seq, ts, jobs : log' = SaveSnapshot(log, seq, ts, jobs)
        \/ \E seq : log' = TruncateBefore(log, seq)
        \/ log' = log
    BY DEF FinishPurge, ReadMaxSeq, ListJobs, Save, Truncate, TaskFails, WriteLog
  <2> QED
    BY <2>1, RowsChange DEF GrantInv
<1>3. /\ \A other \in Threads \ {t} : call'[other] = call[other]
      /\ call'[t].pc \in {"idle", "max_seq", "list", "save", "truncate"}
  <2>1. CASE t = Cleaner /\ FinishPurge
    BY <1>1, <2>1 DEF FinishPurge
  <2>2. CASE ReadMaxSeq(t)
    BY <1>1, <2>2 DEF ReadMaxSeq
  <2>3. CASE ListJobs(t)
    BY <1>1, <2>3 DEF ListJobs
  <2>4. CASE Save(t)
    BY <1>1, <2>4 DEF Save
  <2>5. CASE Truncate(t) \/ TaskFails(t)
    BY <1>1, <2>5 DEF Truncate, TaskFails, Leave, Idle
  <2> QED
    BY <2>1, <2>2, <2>3, <2>4, <2>5
<1>4. t \notin Busy'
  BY <1>3 DEF Busy
<1>5. AppliedIds' = AppliedIds /\ ClaimedLeases' = ClaimedLeases
  BY <1>1, <1>2, <1>3, <1>4, TaskSeen
<1>6. CallKnown(t)'
  BY <1>3 DEF CallKnown
<1> QED
  BY <1>1, <1>3, <1>5, <1>6, CallsKept DEF CallStep, Seen

LEMMA WorldCall ==
    ASSUME CallsInv, Tick \/ UNCHANGED vars
    PROVE  CallsInv' /\ CallStep
<1>1. UNCHANGED <<mem, log, call>>
  BY DEF Tick, vars
<1>2. AppliedIds' = AppliedIds /\ ClaimedLeases' = ClaimedLeases
  BY <1>1 DEF AppliedIds, ClaimedLeases, KnownEvents, Pending
<1> QED
  BY <1>1, <1>2 DEF CallsInv, CallKnown, Moment, Forever, CallStep, Seen

-----------------------------------------------------------------------------
(* The theorem.                                                            *)

LEMMA CallNext ==
    ASSUME CallsInv, LifeInv, GrantInv, ~IoFaults, [Next /\ mode' # "down"]_vars
    PROVE  CallsInv' /\ CallStep
<1>1. ASSUME NEW t \in Clients, \/ BeginEnqueue(t) \/ BeginClaim(t) \/ BeginComplete(t)
                                \/ BeginFail(t) \/ BeginCancel(t) \/ BeginRetry(t)
      PROVE  CallsInv' /\ CallStep
  BY <1>1, BeginEnqueueCall, BeginClaimCall, BeginReportCall, BeginOperatorCall
<1>2. ASSUME NEW t \in Clients, \/ Heartbeat(t) \/ AppendRequest(t) \/ AppendRequestFails(t)
                                \/ ApplyRequest(t)
      PROVE  CallsInv' /\ CallStep
  BY <1>2, HeartbeatCall, AppendCall, ApplyEnqueueCall, ApplyOtherCall DEF AppendRequestFails
<1>3. CASE BeginReap \/ BeginShutdown \/ BeginCleanup
  BY <1>3, TaskBeginsCall
<1>4. CASE AppendPurge \/ RemovePurged
  BY <1>4, AppendPurgeCall, RemovePurgedCall
<1>5. CASE FinishPurge
  <2>1. Cleaner \in Threads
    BY <1>5 DEF FinishPurge, Threads
  <2> QED
    BY <1>5, <2>1, SnapshotCall
<1>6. ASSUME NEW t \in Tasks, AppendExpire(t) \/ FinishRelease(t)
      PROVE  CallsInv' /\ CallStep
  BY <1>6, AppendExpireCall, FinishReleaseCall
<1>7. ASSUME NEW t \in Tasks, \/ ReadMaxSeq(t) \/ ListJobs(t) \/ Save(t)
                              \/ Truncate(t) \/ TaskFails(t)
      PROVE  CallsInv' /\ CallStep
  <2>1. t \in Threads
    BY DEF Threads
  <2> QED
    BY <1>7, <2>1, SnapshotCall
<1>8. CASE Tick \/ UNCHANGED vars
  BY <1>8, WorldCall
<1>9. CASE (Exit \/ Crash) /\ mode' # "down"
  BY <1>9 DEF Exit, Crash, Stop
<1>10. CASE Open
  BY <1>10 DEF Open, LifeInv, LifeType
<1> QED
  BY <1>1, <1>2, <1>3, <1>4, <1>5, <1>6, <1>7, <1>8, <1>9, <1>10 DEF Next

LEMMA CallInit == Init => CallsInv /\ Calls!Init
<1> SUFFICES ASSUME Init
             PROVE  CallsInv /\ Calls!Init
  OBVIOUS
<1>1. log.events = <<>> /\ mem = Empty /\ \A t \in Threads : call[t].pc = "idle"
  BY DEF Init, NewLog, Idle
<1>2. CallsInv
  BY <1>1 DEF CallsInv, CallKnown
<1>3. ToSet(log.events) = {} /\ \A t \in Threads : Pending(t) = {}
  BY <1>1 DEF ToSet, Pending
<1>4. AppliedIds = {} /\ ClaimedLeases = {}
  BY <1>3 DEF AppliedIds, EnqueuedIds, ClaimedLeases, KnownEvents
<1>5. mem = Calls!Empty
  BY <1>1 DEF Empty, Calls!Empty
<1> QED
  BY <1>2, <1>4, <1>5 DEF Calls!Init

\* The space of a running process whose writes succeed sees calls of one store
\* under one lock, for any number of threads, whatever pieces of calls
\* interleave (persistent_space.rs:39-185, space.rs:22-258).
THEOREM MemoryRefinement == OneLife /\ ~IoFaults => MemoryIsTupleSpace
<1>1. Init => CallsInv /\ Calls!Init
  BY CallInit
<1>2. CallsInv /\ LifeInv /\ GrantInv /\ ~IoFaults /\ [Next /\ mode' # "down"]_vars
      => CallsInv' /\ [Calls!Next]_(Calls!vars)
  <2>1. CallStep => [Calls!Next]_(Calls!vars)
    BY DEF CallStep, CallKeeps, CallRemoves, Seen, Calls!Next, Calls!vars
  <2> QED
    BY <2>1, CallNext
<1>3. CASE IoFaults
  BY <1>3
<1>4. CASE ~IoFaults
  <2>1. CallsInv /\ LifeInv /\ GrantInv /\ [Next /\ mode' # "down"]_vars
        => CallsInv' /\ [Calls!Next]_(Calls!vars)
    BY <1>2, <1>4
  <2> QED
    BY <1>1, <2>1, LifeInvariance, OneLifeIsRun, GrantInvariance, PTL
       DEF OneLife, MemoryIsTupleSpace, Calls!Spec
<1> QED
  BY <1>3, <1>4

-----------------------------------------------------------------------------
(* What a running process shows its clients is the abstract queue.  Which  *)
(* jobs are gone is read off the log: a purge is logged before its job     *)
(* goes, and only of a job that was there.                                 *)

Purged ==
    /\ \A id \in JobIds : Logged("purge", id) => id \in AppliedIds
    /\ \A id \in JobIds : id \in AppliedIds => id \in Live(mem) \/ Logged("purge", id)
    /\ \A t \in Threads : call[t].pc = "remove" => Logged("purge", call[t].id)

\* A step logs no purge and begins no removal, or logs that of a job that it
\* is about to remove.
PurgesNone ==
    /\ \A id : Logged("purge", id)' <=> Logged("purge", id)
    /\ \A t \in Threads : call'[t].pc = "remove" => call'[t] = call[t]

PurgesOne ==
    \E id \in AppliedIds :
        /\ \A other : Logged("purge", other)' <=> Logged("purge", other) \/ other = id
        /\ \A t \in Threads : call'[t].pc = "remove" => call'[t] = call[t] \/ call'[t].id = id

LEMMA ThreadPurgesNone ==
    ASSUME Shapes, NEW t \in Threads, NEW new, call' = [call EXCEPT ![t] = new], new.pc # "remove",
           \/ log'.events = log.events
           \/ \E event : event.op # "purge" /\ log' = AppendEvent(log, event)
    PROVE  PurgesNone
<1>1. call'[t] = new /\ \A other \in Threads \ {t} : call'[other] = call[other]
  BY DEF Shapes
<1>2. \A id : Logged("purge", id)' <=> Logged("purge", id)
  <2>1. CASE log'.events = log.events
    BY <2>1 DEF Logged
  <2>2. ASSUME NEW event, event.op # "purge", log' = AppendEvent(log, event)
        PROVE  \A id : Logged("purge", id)' <=> Logged("purge", id)
    <3>1. ToSet(log'.events) = ToSet(log.events) \cup {event}
      BY <2>2, LogWritten
    <3> QED
      BY <2>2, <3>1 DEF Logged
  <2> QED
    BY <2>1, <2>2
<1> QED
  BY <1>1, <1>2 DEF PurgesNone

LEMMA CallPurges ==
    ASSUME CallsInv, LifeInv, GrantInv, [Next /\ mode' # "down"]_vars
    PROVE  PurgesNone \/ PurgesOne
<1>0. /\ Clients \subseteq Threads /\ Tasks \subseteq Threads /\ Shapes /\ Idle.pc = "idle"
      /\ \A t \in Threads : CallTyped(t)
  BY DEF Threads, GrantInv, Idle, LifeInv, LifeType
<1>1. ASSUME UNCHANGED <<log, call>>
      PROVE  PurgesNone
  BY <1>1 DEF PurgesNone, Logged
<1>2. ASSUME NEW t \in Clients, NEW event, Log(t, event), log' = log
      PROVE  PurgesNone
  <2> DEFINE new == [pc |-> "append", event |-> event]
  <2>1. new.pc = "append" /\ call' = [call EXCEPT ![t] = new]
    BY <1>2 DEF Log
  <2> HIDE DEF new
  <2> QED
    BY <1>0, <1>2, <2>1, ThreadPurgesNone
<1>3. ASSUME NEW t \in Clients, \/ BeginEnqueue(t) \/ BeginClaim(t) \/ BeginComplete(t)
                                \/ BeginFail(t) \/ BeginCancel(t) \/ BeginRetry(t) \/ Heartbeat(t)
      PROVE  PurgesNone
  BY <1>1, <1>2, <1>3 DEF BeginEnqueue, BeginClaim, BeginComplete, BeginFail, BeginReport,
                          BeginCancel, BeginRetry, Heartbeat
<1>4. ASSUME NEW t \in Clients, AppendRequest(t) \/ AppendRequestFails(t) \/ ApplyRequest(t)
      PROVE  PurgesNone
  <2>1. PICK new \in {Idle, [pc |-> "apply", event |-> call[t].event]} :
            call' = [call EXCEPT ![t] = new]
    BY <1>4 DEF AppendRequest, AppendRequestFails, ApplyRequest
  <2>2. new.pc # "remove"
    BY <1>0, <2>1
  <2>3. \/ log'.events = log.events
        \/ call[t].event.op # "purge" /\ log' = AppendEvent(log, call[t].event)
    BY <1>0, <1>4 DEF AppendRequest, AppendRequestFails, ApplyRequest, WriteLog, CallTyped
  <2> QED
    BY <1>0, <2>1, <2>2, <2>3, ThreadPurgesNone
<1>5. CASE BeginReap \/ BeginShutdown \/ BeginCleanup
  <2>1. PICK t \in Tasks : \E ids, until :
            \/ call' = [call EXCEPT ![t] = [pc |-> "release", todo |-> ids, ts |-> clock, until |-> until]]
            \/ call' = [call EXCEPT ![t] = [pc |-> "purge", todo |-> ids, ts |-> clock]]
    BY <1>5 DEF BeginReap, BeginShutdown, BeginCleanup, BeginRelease
  <2>2. PICK ids, until :
            \/ call' = [call EXCEPT ![t] = [pc |-> "release", todo |-> ids, ts |-> clock, until |-> until]]
            \/ call' = [call EXCEPT ![t] = [pc |-> "purge", todo |-> ids, ts |-> clock]]
    BY <2>1
  <2> DEFINE releases == [pc |-> "release", todo |-> ids, ts |-> clock, until |-> until]
             purges   == [pc |-> "purge", todo |-> ids, ts |-> clock]
  <2>3. releases.pc # "remove" /\ purges.pc # "remove"
    OBVIOUS
  <2>4. log' = log
    BY <1>5 DEF BeginReap, BeginShutdown, BeginCleanup
  <2>5. call' = [call EXCEPT ![t] = releases] \/ call' = [call EXCEPT ![t] = purges]
    BY <2>2
  <2> HIDE DEF releases, purges
  <2> QED
    BY <1>0, <2>3, <2>4, <2>5, ThreadPurgesNone
<1>6. CASE AppendPurge
  <2>1. PICK id \in call[Cleaner].todo :
            /\ log' = AppendEvent(log, [op |-> "purge", id |-> id, ts |-> call[Cleaner].ts])
            /\ call' = [call EXCEPT ![Cleaner] = [pc |-> "remove", id |-> id,
                                                  todo |-> @.todo \ {id}, ts |-> @.ts]]
    BY <1>6 DEF AppendPurge, WriteLog
  <2>2. Cleaner \in Threads /\ call[Cleaner].pc = "purge"
    BY <1>0, <1>6 DEF AppendPurge
  <2>3. id \in AppliedIds
    BY <2>1, <2>2 DEF CallsInv, CallKnown
  <2>4. /\ call'[Cleaner] = [pc |-> "remove", id |-> id,
                             todo |-> call[Cleaner].todo \ {id}, ts |-> call[Cleaner].ts]
        /\ \A other \in Threads \ {Cleaner} : call'[other] = call[other]
    BY <1>0, <2>1, <2>2 DEF Shapes
  <2>5. call'[Cleaner].id = id
    BY <2>4
  <2> DEFINE event == [op |-> "purge", id |-> id, ts |-> call[Cleaner].ts]
  <2>6. event.op = "purge" /\ event.id = id /\ log' = AppendEvent(log, event)
    BY <2>1
  <2> HIDE DEF event
  <2>7. ToSet(log'.events) = ToSet(log.events) \cup {event}
    BY <1>0, <2>6, LogWritten
  <2>8. \A other : Logged("purge", other)' <=> Logged("purge", other) \/ other = id
    BY <2>6, <2>7 DEF Logged
  <2> QED
    BY <2>3, <2>4, <2>5, <2>8 DEF PurgesOne
<1>7. CASE RemovePurged \/ FinishPurge
  <2> DEFINE next == [pc |-> "purge", todo |-> call[Cleaner].todo, ts |-> call[Cleaner].ts]
             over == [pc |-> "max_seq"]
  <2>1. call' = [call EXCEPT ![Cleaner] = next] \/ call' = [call EXCEPT ![Cleaner] = over]
    BY <1>7 DEF RemovePurged, FinishPurge
  <2>2. next.pc = "purge" /\ over.pc = "max_seq"
    OBVIOUS
  <2>3. Cleaner \in Threads /\ log' = log
    BY <1>0, <1>7 DEF RemovePurged, FinishPurge
  <2> HIDE DEF next, over
  <2> QED
    BY <1>0, <2>1, <2>2, <2>3, ThreadPurgesNone
<1>8. ASSUME NEW t \in Tasks, AppendExpire(t)
      PROVE  PurgesNone
  <2>1. PICK id : /\ call' = [call EXCEPT ![t].todo = @ \ {id}]
                  /\ \/ log' = AppendEvent(log, [op |-> "expire", id |-> id, ts |-> call[t].ts])
                     \/ log' = log
    BY <1>8 DEF AppendExpire, WriteLog
  <2> DEFINE new   == [call[t] EXCEPT !.todo = @ \ {id}]
             event == [op |-> "expire", id |-> id, ts |-> call[t].ts]
  <2>2. new.pc = call[t].pc /\ call[t].pc = "release" /\ event.op = "expire"
    BY <1>8 DEF AppendExpire
  <2>3. call' = [call EXCEPT ![t] = new] /\ (log' = log \/ log' = AppendEvent(log, event))
    BY <2>1
  <2> HIDE DEF new, event
  <2> QED
    BY <1>0, <2>2, <2>3, ThreadPurgesNone
<1>9. ASSUME NEW t \in Tasks, \/ FinishRelease(t) \/ ReadMaxSeq(t) \/ ListJobs(t) \/ Save(t)
                              \/ Truncate(t) \/ TaskFails(t)
      PROVE  PurgesNone
  <2>1. PICK new : new.pc # "remove" /\ call' = [call EXCEPT ![t] = new]
    <3>1. CASE FinishRelease(t)
      BY <1>0, <3>1 DEF FinishRelease
    <3>2. CASE ReadMaxSeq(t)
      BY <3>2 DEF ReadMaxSeq
    <3>3. CASE ListJobs(t)
      BY <3>3 DEF ListJobs
    <3>4. CASE Save(t)
      BY <3>4 DEF Save
    <3>5. CASE Truncate(t) \/ TaskFails(t)
      BY <1>0, <3>5 DEF Truncate, TaskFails, Leave
    <3> QED
      BY <1>9, <3>1, <3>2, <3>3, <3>4, <3>5
  <2>2. log'.events = log.events
    <3>1. \/ \E seq, ts, jobs : log' = SaveSnapshot(log, seq, ts, jobs)
          \/ \E seq : log' = TruncateBefore(log, seq)
          \/ log' = log
      BY <1>9 DEF FinishRelease, ReadMaxSeq, ListJobs, Save, Truncate, TaskFails, WriteLog
    <3> QED
      BY <1>0, <3>1, RowsChange
  <2> QED
    BY <1>0, <2>1, <2>2, ThreadPurgesNone
<1>10. CASE Tick \/ UNCHANGED vars
  BY <1>1, <1>10 DEF Tick, vars
<1>11. CASE (Exit \/ Crash) /\ mode' # "down"
  BY <1>11 DEF Exit, Crash, Stop
<1>12. CASE Open
  BY <1>12 DEF Open, LifeInv, LifeType
<1> QED
  BY <1>3, <1>4, <1>5, <1>6, <1>7, <1>8, <1>9, <1>10, <1>11, <1>12 DEF Next

\* What the store has seen are ids and leases.
LEMMA SeenTypes ==
    ASSUME LifeInv
    PROVE  /\ mem \in SpaceType
           /\ AppliedIds \subseteq JobIds
           /\ ClaimedLeases \subseteq LeaseIds
           /\ \A now \in Times \cup {Forever} : now \in Int /\ \A ttl \in Ttls : now + ttl \in Int
<1>1. \A e \in KnownEvents : e \in Event
  BY DEF LifeInv, LifeType, CallTyped, KnownEvents, Pending, ToSet
<1>2. \A e \in Event : e.id \in JobIds /\ (e.op = "claim" => e.lease \in LeaseIds)
  BY DEF Event
<1>3. ToSet(log.events) \subseteq KnownEvents
  BY DEF KnownEvents
<1> HIDE DEF Event
<1>4. AppliedIds \subseteq JobIds /\ ClaimedLeases \subseteq LeaseIds
  BY <1>1, <1>2, <1>3 DEF AppliedIds, EnqueuedIds, ClaimedLeases
<1>5. \A now \in Times \cup {Forever} : now \in Int /\ \A ttl \in Ttls : now + ttl \in Int
  <2>1. MaxTime \in Nat /\ Ttls \subseteq Nat
    BY BoundsAssumption
  <2>2. \A now \in Times \cup {Forever} : now \in Nat
    BY <2>1 DEF Times, Forever
  <2> QED
    BY <2>1, <2>2
<1> QED
  BY <1>4, <1>5 DEF LifeInv, WellKept

\* A call that moves one job is an event for it, be it logged or not.
CallEvent(e) ==
    /\ mem' = Apply(mem, e)
    /\ AppliedIds' = IF e.op = "enqueue" THEN AppliedIds \cup {e.id} ELSE AppliedIds
    /\ ClaimedLeases' = IF e.op = "claim" THEN ClaimedLeases \cup {e.lease} ELSE ClaimedLeases
    /\ IF e.op = "enqueue" THEN e.id \notin AppliedIds ELSE e.id \in AppliedIds
    /\ e.op = "claim" => e.id \in List(mem, "pending") /\ e.lease \notin ClaimedLeases
    /\ e.op = "purge" => RemovePurged /\ e.id = call[Cleaner].id

\* The others move many, or none.
CallOther ==
    /\ AppliedIds' = AppliedIds /\ ClaimedLeases' = ClaimedLeases
    /\ \/ mem' = mem
       \/ \E now : mem' = ExpireLeases(mem, now)
       \/ \E id \in JobIds, until \in Int : \E lease : mem' = ExtendLease(mem, id, lease, until)

LEMMA EnqueueIsEvent ==
    ASSUME LifeInv, NEW now \in Times \cup {Forever}, NEW type \in JobTypes,
           NEW max_retries \in RetryLimits, Calls!Enqueue(type, max_retries, now)
    PROVE  \E e \in Event : CallEvent(e)
<1>1. PICK id \in JobIds \ AppliedIds :
          /\ mem' = Calls!EnqueueWithId(mem, id, type, max_retries, now)
          /\ AppliedIds' = AppliedIds \cup {id}
          /\ ClaimedLeases' = ClaimedLeases
  BY DEF Calls!Enqueue
<1> DEFINE e == [op |-> "enqueue", id |-> id, ts |-> now, job_type |-> type, max_retries |-> max_retries]
<1>2. e \in Event
  BY SeenTypes, BoundsAssumption DEF Event
<1>3. mem' = Apply(mem, e)
  BY <1>1, SameMethods DEF Apply
<1>4. e.op = "enqueue" /\ e.id = id
  OBVIOUS
<1> HIDE DEF e, Event
<1>5. CallEvent(e)
  BY <1>1, <1>3, <1>4 DEF CallEvent
<1> QED
  BY <1>2, <1>5

LEMMA ClaimIsEvent ==
    ASSUME LifeInv, NEW now \in Times \cup {Forever}, NEW type \in JobTypes, NEW ttl \in Ttls,
           NEW worker \in Workers \cup {Nil}, Calls!Claim(type, ttl, worker, now)
    PROVE  \E e \in Event : CallEvent(e)
<1>1. PICK lease \in LeaseIds \ ClaimedLeases, key \in Calls!OldestKeys(mem, type) :
          /\ mem' = Calls!ClaimKey(mem, key, lease, ttl, worker, now)
          /\ ClaimedLeases' = ClaimedLeases \cup {lease}
          /\ AppliedIds' = AppliedIds
  BY DEF Calls!Claim
<1> DEFINE id == key[3]
           e  == [op |-> "claim", id |-> id, ts |-> now, lease |-> lease, until |-> now + ttl,
                  worker |-> worker]
<1>2. id \in List(mem, "pending") /\ key = PendingKey(id, mem.jobs[id])
  <2>1. key \in mem.pending /\ WellKept(mem)
    BY <1>1, SameMethods DEF OldestKeys, LifeInv
  <2> QED
    BY <2>1, PendingKeyIndexed
<1>3. id \in JobIds /\ mem.jobs[id] # NoJob /\ id \in AppliedIds
  BY <1>2, LiveApplied DEF List, Live
<1>4. e \in Event
  BY <1>3, SeenTypes DEF Event
<1>5. mem' = Apply(mem, e)
  <2>1. mem' = ClaimKey(mem, key, lease, ttl, worker, now)
    BY <1>1, SameMethods
  <2> QED
    BY <1>2, <1>3, <2>1 DEF ClaimKey, Apply, ApplyClaim
<1>6. e.op = "claim" /\ e.id = id /\ e.lease = lease
  OBVIOUS
<1> HIDE DEF e, id, Event
<1>7. CallEvent(e)
  BY <1>1, <1>2, <1>3, <1>5, <1>6 DEF CallEvent
<1> QED
  BY <1>4, <1>7

\* A call that takes the id of a job that was there.
LEMMA NamedIsEvent ==
    ASSUME LifeInv, NEW e \in Event, mem' = Apply(mem, e), e.id \in AppliedIds,
           UNCHANGED <<AppliedIds, ClaimedLeases>>,
           \/ e.op \in {"complete", "fail", "cancel", "retry"}
           \/ e.op = "purge" /\ RemovePurged /\ e.id = call[Cleaner].id
    PROVE  CallEvent(e)
BY DEF CallEvent

LEMMA CallEffects ==
    ASSUME LifeInv, CallStep
    PROVE  (\E e \in Event : CallEvent(e)) \/ CallOther
<1>1. ASSUME NEW now \in Times \cup {Forever}, NEW type \in JobTypes,
             \/ \E max_retries \in RetryLimits : Calls!Enqueue(type, max_retries, now)
             \/ \E ttl \in Ttls, worker \in Workers \cup {Nil} : Calls!Claim(type, ttl, worker, now)
      PROVE  \E e \in Event : CallEvent(e)
  BY <1>1, EnqueueIsEvent, ClaimIsEvent
<1>2. ASSUME NEW now \in Times \cup {Forever}, NEW id \in AppliedIds, Calls!Cancel(id, now)
      PROVE  \E e \in Event : CallEvent(e)
  <2> DEFINE e == [op |-> "cancel", id |-> id, ts |-> now]
  <2>1. e \in Event /\ e.id = id /\ e.op = "cancel"
    BY SeenTypes DEF Event
  <2>2. mem' = Apply(mem, e) /\ UNCHANGED <<AppliedIds, ClaimedLeases>>
    BY <1>2, SameMethods DEF Calls!Cancel, Apply
  <2> HIDE DEF e, Event
  <2> QED
    BY <2>1, <2>2, NamedIsEvent
<1>3. ASSUME NEW now \in Times \cup {Forever}, NEW id \in AppliedIds, NEW lease \in ClaimedLeases,
             Calls!Complete(id, lease, now) \/ Calls!Fail(id, lease, now)
      PROVE  \E e \in Event : CallEvent(e)
  <2>1. PICK op \in {"complete", "fail"} : \/ op = "complete" /\ Calls!Complete(id, lease, now)
                                           \/ op = "fail" /\ Calls!Fail(id, lease, now)
    BY <1>3
  <2> DEFINE e == [op |-> op, id |-> id, ts |-> now, lease |-> lease]
  <2>2. e \in Event /\ e.id = id /\ e.op = op
    BY SeenTypes DEF Event
  <2>3. mem' = Apply(mem, e) /\ UNCHANGED <<AppliedIds, ClaimedLeases>>
    BY <2>1, SameMethods DEF Calls!Complete, Calls!Fail, Apply
  <2> HIDE DEF e, Event
  <2> QED
    BY <2>2, <2>3, NamedIsEvent
<1>4. ASSUME NEW id \in AppliedIds, Calls!Retry(id)
      PROVE  \E e \in Event : CallEvent(e)
  <2> DEFINE e == [op |-> "retry", id |-> id, ts |-> 0]
  <2>1. e \in Event /\ e.id = id /\ e.op = "retry"
    BY SeenTypes DEF Event
  <2>2. mem' = Apply(mem, e) /\ UNCHANGED <<AppliedIds, ClaimedLeases>>
    BY <1>4, SameMethods DEF Calls!Retry, Apply
  <2> HIDE DEF e, Event
  <2> QED
    BY <2>1, <2>2, NamedIsEvent
<1>5. CASE CallRemoves
  <2> DEFINE id == call[Cleaner].id
             e  == [op |-> "purge", id |-> id, ts |-> 0]
  <2>1. id \in AppliedIds /\ RemovePurged /\ Calls!Remove(id)
    BY <1>5 DEF CallRemoves
  <2>2. e \in Event /\ e.id = id /\ e.op = "purge"
    BY <2>1, SeenTypes DEF Event
  <2>3. mem' = Apply(mem, e) /\ UNCHANGED <<AppliedIds, ClaimedLeases>>
    BY <2>1, SameMethods DEF Calls!Remove, Apply
  <2> HIDE DEF e, Event
  <2> QED
    BY <2>1, <2>2, <2>3, NamedIsEvent
<1>6. ASSUME NEW now \in Times \cup {Forever}, Calls!Expire(now)
      PROVE  CallOther
  BY <1>6, SameMethods DEF Calls!Expire, CallOther
<1>7. ASSUME NEW now \in Times \cup {Forever}, NEW id \in AppliedIds, NEW lease \in ClaimedLeases,
             NEW ttl \in Ttls, Calls!Extend(id, lease, now + ttl)
      PROVE  CallOther
  <2>1. id \in JobIds /\ now + ttl \in Int
    BY SeenTypes
  <2> QED
    BY <1>7, <2>1, SameMethods DEF Calls!Extend, CallOther
<1>8. CASE UNCHANGED Seen
  BY <1>8 DEF Seen, CallOther
<1>9. CASE CallKeeps
  <2> HIDE DEF Event, CallEvent, CallOther
  <2> QED
    BY <1>1, <1>2, <1>3, <1>4, <1>6, <1>7, <1>9 DEF CallKeeps
<1> QED
  BY <1>5, <1>8, <1>9 DEF CallStep

\* What a call that is no event leaves of a job: all the queue sees of it, or
\* a run whose lease was taken back.
Leaves(ids) ==
    /\ \A id \in ids : /\ mem.jobs[id] # NoJob /\ mem.jobs[id].status = "claimed"
                      /\ mem'.jobs[id] # NoJob /\ mem'.jobs[id].status = "pending"
                      /\ mem'.jobs[id].lease_id = Nil
    /\ \A id \in JobIds \ ids :
           /\ mem.jobs[id] = NoJob <=> mem'.jobs[id] = NoJob
           /\ mem.jobs[id] # NoJob => /\ mem'.jobs[id].status = mem.jobs[id].status
                                      /\ mem'.jobs[id].lease_id = mem.jobs[id].lease_id

LEMMA OtherLeaves ==
    ASSUME LifeInv, CallOther
    PROVE  \E ids \in SUBSET JobIds : Leaves(ids)
<1>1. mem \in SpaceType /\ \A id \in JobIds : mem.jobs[id] # NoJob => mem.jobs[id] \in Job
  BY SeenTypes DEF SpaceType
<1>2. CASE mem' = mem
  <2>1. Leaves({})
    BY <1>2 DEF Leaves
  <2>2. {} \in SUBSET JobIds
    OBVIOUS
  <2> QED
    BY <2>1, <2>2
<1>3. ASSUME NEW now, mem' = ExpireLeases(mem, now)
      PROVE  \E ids \in SUBSET JobIds : Leaves(ids)
  <2> DEFINE ids == Expired(mem, now)
  <2>1. /\ \A id \in ids : id \in JobIds /\ mem.jobs[id] # NoJob /\ mem.jobs[id].status = "claimed"
        /\ \A id \in JobIds : mem'.jobs[id] = IF id \in ids THEN Requeued(mem.jobs[id]) ELSE mem.jobs[id]
    BY <1>3 DEF Expired, List, Live, ExpireLeases, Release
  <2>2. \A job \in Job : /\ Requeued(job) # NoJob /\ Requeued(job).status = "pending"
                         /\ Requeued(job).lease_id = Nil
    <3>1. \A job \in Job : /\ Requeued(job) \in Job /\ Requeued(job).status = "pending"
                           /\ Requeued(job).lease_id = Nil
      BY DEF Requeued, Job, Statuses
    <3> QED
      BY <3>1, NoJobAssumption
  <2> HIDE DEF ids
  <2>3. Leaves(ids) /\ ids \in SUBSET JobIds
    BY <1>1, <2>1, <2>2 DEF Leaves
  <2> QED
    BY <2>3
<1>4. ASSUME NEW id \in JobIds, NEW until \in Int, NEW lease, mem' = ExtendLease(mem, id, lease, until)
      PROVE  Leaves({})
  <2>1. CASE ~CheckLease(mem, id, lease)
    BY <1>4, <2>1 DEF ExtendLease, Leaves
  <2>2. CASE CheckLease(mem, id, lease)
    <3> DEFINE old == mem.jobs[id]
               job == [old EXCEPT !.lease_until = until]
    <3>1. old # NoJob /\ old \in Job
      BY <1>1, <2>2 DEF CheckLease
    <3>2. job \in Job /\ job.status = old.status /\ job.lease_id = old.lease_id
      BY <3>1 DEF Job
    <3>3. mem' = Put(mem, id, job, mem.pending)
      BY <1>4, <2>2 DEF ExtendLease
    <3> HIDE DEF job
    <3>4. mem'.jobs[id] = job /\ \A other \in JobIds \ {id} : mem'.jobs[other] = mem.jobs[other]
      BY <1>1, <3>3 DEF Put, SpaceType
    <3> QED
      BY <3>1, <3>2, <3>4, NoJobAssumption DEF Leaves
  <2> QED
    BY <2>1, <2>2
<1>5. {} \in SUBSET JobIds
  OBVIOUS
<1> QED
  BY <1>2, <1>3, <1>4, <1>5 DEF CallOther

\* An event that a call amounts to moves one job, and drops none but the one
\* whose purge is logged.
LEMMA EventLeaves ==
    ASSUME LifeInv, NEW e \in Event, CallEvent(e)
    PROVE  /\ e.id \in JobIds
           /\ mem.jobs[e.id] \in Job \cup {NoJob}
           /\ Becomes(e, mem.jobs[e.id], mem'.jobs[e.id])
           /\ \A other \in JobIds \ {e.id} : mem'.jobs[other] = mem.jobs[other]
           /\ mem'.jobs[e.id] = NoJob /\ mem.jobs[e.id] # NoJob => e.op = "purge"
           /\ e.op = "enqueue" => mem'.jobs[e.id] # NoJob
<1>1. mem \in SpaceType /\ mem' = Apply(mem, e)
  BY SeenTypes DEF CallEvent
<1>2. e.id \in JobIds /\ mem.jobs[e.id] \in Job \cup {NoJob}
  BY <1>1 DEF Event, SpaceType
<1>3. Becomes(e, mem.jobs[e.id], mem'.jobs[e.id])
  BY <1>1, ApplyBecomes
<1>4. \A other \in JobIds \ {e.id} : mem'.jobs[other] = mem.jobs[other]
  BY <1>1, ApplyLocal
<1> HIDE DEF Event
<1>5. /\ mem'.jobs[e.id] = NoJob /\ mem.jobs[e.id] # NoJob => e.op = "purge"
      /\ e.op = "enqueue" => mem'.jobs[e.id] # NoJob
  BY <1>3, NoJobAssumption DEF Becomes
<1> QED
  BY <1>2, <1>3, <1>4, <1>5

\* Whatever a call does, an id it applies has a job, and a job that goes is
\* one whose purge is logged.
LEMMA CallLeaves ==
    ASSUME LifeInv, CallStep, Purged
    PROVE  /\ AppliedIds \subseteq AppliedIds'
           /\ \A id \in JobIds : id \in AppliedIds' => id \in Live(mem') \/ Logged("purge", id)
<1>1. ASSUME NEW e \in Event, CallEvent(e)
      PROVE  /\ AppliedIds \subseteq AppliedIds'
             /\ \A id \in JobIds : id \in AppliedIds' => id \in Live(mem') \/ Logged("purge", id)
  <2>1. AppliedIds' = IF e.op = "enqueue" THEN AppliedIds \cup {e.id} ELSE AppliedIds
    BY <1>1 DEF CallEvent
  <2>2. e.op = "purge" => Logged("purge", e.id)
    BY <1>1 DEF CallEvent, RemovePurged, Purged, Threads
  <2> HIDE DEF Event
  <2>3. /\ e.id \in JobIds
        /\ \A other \in JobIds \ {e.id} : mem'.jobs[other] = mem.jobs[other]
        /\ mem'.jobs[e.id] = NoJob /\ mem.jobs[e.id] # NoJob => e.op = "purge"
        /\ e.op = "enqueue" => mem'.jobs[e.id] # NoJob
    BY <1>1, EventLeaves
  <2> QED
    BY <2>1, <2>2, <2>3 DEF Purged, Live
<1>2. CASE CallOther
  <2>1. AppliedIds' = AppliedIds
    BY <1>2 DEF CallOther
  <2>2. \A id \in JobIds : mem'.jobs[id] = NoJob => mem.jobs[id] = NoJob
    BY <1>2, OtherLeaves DEF Leaves
  <2> QED
    BY <2>1, <2>2 DEF Purged, Live
<1> QED
  BY <1>1, <1>2, CallEffects

LEMMA PurgedNext ==
    ASSUME CallsInv, LifeInv, GrantInv, CallStep, [Next /\ mode' # "down"]_vars, Purged
    PROVE  Purged'
<1>1. \A t \in Threads : call[t].pc = "remove" => Logged("purge", call[t].id)
  BY DEF Purged
<1>2. CASE PurgesNone
  BY <1>2, CallLeaves DEF Purged, PurgesNone
<1>3. CASE PurgesOne
  <2>1. PICK id \in AppliedIds :
            /\ \A other : Logged("purge", other)' <=> Logged("purge", other) \/ other = id
            /\ \A t \in Threads : call'[t].pc = "remove" => call'[t] = call[t] \/ call'[t].id = id
    BY <1>3 DEF PurgesOne
  <2>2. \A t \in Threads : call'[t].pc = "remove" => Logged("purge", call[t].id)'
    <3> SUFFICES ASSUME NEW t \in Threads, call'[t].pc = "remove"
                 PROVE  Logged("purge", call[t].id)'
      OBVIOUS
    <3>1. CASE call'[t] = call[t]
      <4>1. Logged("purge", call[t].id)
        BY <1>1, <3>1
      <4>2. \A other : Logged("purge", other) => Logged("purge", other)'
        BY <2>1
      <4> QED
        BY <3>1, <4>1, <4>2 DEF Logged
    <3>2. CASE call'[t].id = id
      <4>1. Logged("purge", id)'
        BY <2>1
      <4> QED
        BY <3>2, <4>1 DEF Logged
    <3> QED
      BY <2>1, <3>1, <3>2
  <2> QED
    BY <2>1, <2>2, CallLeaves DEF Purged
<1> QED
  BY <1>2, <1>3, CallPurges

\* The abstract queue in what clients are shown.
Sight == Shows(mem.jobs, "purge")
Grip == Holds(mem.jobs)

ShownMoves == [Shown!Next]_(Shown!vars)

LEMMA Seeing ==
    ASSUME LifeInv, Purged, NEW id \in JobIds
    PROVE  /\ Sight[id] = Stands(mem.jobs[id], id \in AppliedIds)
           /\ Grip[id] = GoodFor(mem.jobs[id])
BY LiveApplied DEF Sight, Grip, Shows, Holds, Stands, GoodFor, Purged, Live

LEMMA SeeingNext ==
    ASSUME LifeInv', Purged', NEW id \in JobIds
    PROVE  /\ Sight'[id] = Stands(mem'.jobs[id], id \in AppliedIds')
           /\ Grip'[id] = GoodFor(mem'.jobs[id])
BY DEF Sight, Grip, Shows, Holds, Stands, GoodFor, Purged, Live

\* The steps of the queue, read off a move.
LEMMA SightSteps ==
    ASSUME NEW e, e.id \in JobIds, NEW to, NEW lease,
           Sight' = [Sight EXCEPT ![e.id] = to], Grip' = [Grip EXCEPT ![e.id] = lease],
           ClaimedLeases' = IF e.op = "claim" THEN ClaimedLeases \cup {e.lease} ELSE ClaimedLeases,
           e.op = "claim" => e.lease \in LeaseIds \ ClaimedLeases,
           TakesStep(e, Sight[e.id], to, Grip[e.id], lease)
    PROVE  ShownMoves
<1> DEFINE id == e.id
<1>1. /\ Sight = [x \in JobIds |-> Sight[x]]
      /\ Grip = [x \in JobIds |-> Grip[x]]
  BY DEF Sight, Shows, Grip, Holds
<1>2. CASE e.op = "claim"
  <2>1. /\ Sight[id] = "pending" /\ to = "claimed" /\ lease = e.lease
        /\ e.lease \in LeaseIds /\ e.lease \notin ClaimedLeases
        /\ ClaimedLeases' = ClaimedLeases \cup {e.lease}
    BY <1>2 DEF TakesStep
  <2>2. Shown!Grant(id, e.lease)
    BY <1>1, <1>2, <2>1 DEF Shown!Grant, Shown!Move, Sight, Grip
  <2> QED
    BY <2>1, <2>2 DEF ShownMoves, Shown!Next
<1>3. CASE e.op # "claim"
  <2>1. \/ Sight[id] = to /\ lease = Grip[id]
        \/ Sight[id] = "unborn" /\ to = "pending" /\ lease = Grip[id]
        \/ Sight[id] = "pending" /\ to = "cancelled" /\ lease = Grip[id]
        \/ Sight[id] = "failed" /\ to = "pending" /\ lease = Grip[id]
        \/ Sight[id] = "claimed" /\ to \in {"done", "failed", "pending"} /\ lease = Nil
        \/ Sight[id] \notin {"unborn", "removed"} /\ to = "removed" /\ lease = Nil
    BY <1>3 DEF TakesStep
  <2>2. /\ lease = Grip[id] =>
               /\ Sight[id] = to => UNCHANGED Shown!vars
               /\ Sight[id] = "unborn" /\ to = "pending" => Shown!Submit(id)
               /\ Sight[id] = "pending" /\ to = "cancelled" => Shown!Withdraw(id)
               /\ Sight[id] = "failed" /\ to = "pending" => Shown!Revive(id)
        /\ lease = Nil =>
               /\ Sight[id] = "claimed" /\ to = "done" => Shown!Finish(id)
               /\ Sight[id] = "claimed" /\ to = "failed" => Shown!GiveUp(id)
               /\ Sight[id] = "claimed" /\ to = "pending" => Shown!Return({id})
               /\ Sight[id] \notin {"unborn", "removed"} /\ to = "removed" => Shown!Forget(id)
    BY <1>1, <1>3 DEF Shown!Submit, Shown!Finish, Shown!GiveUp, Shown!Return,
           Shown!Withdraw, Shown!Revive, Shown!Forget, Shown!Move, Shown!TakeBack,
           Shown!vars, Sight, Grip
  <2>3. /\ \/ Shown!Submit(id) \/ Shown!Withdraw(id) \/ Shown!Revive(id) \/ Shown!Finish(id)
           \/ Shown!GiveUp(id) \/ Shown!Return({id}) \/ Shown!Forget(id)
           => ShownMoves
        /\ UNCHANGED Shown!vars => ShownMoves
    BY DEF ShownMoves, Shown!Next
  <2> QED
    BY <2>1, <2>2, <2>3
<1> QED
  BY <1>2, <1>3

LEMMA EventShown ==
    ASSUME LifeInv, LifeInv', Purged, Purged', NEW e \in Event, CallEvent(e)
    PROVE  ShownMoves
<1> DEFINE id    == e.id
           old   == mem.jobs[id]
           new   == mem'.jobs[id]
           known == id \in AppliedIds
<1>1. /\ id \in JobIds
      /\ old \in Job \cup {NoJob}
      /\ Becomes(e, old, new)
      /\ \A other \in JobIds \ {id} : mem'.jobs[other] = mem.jobs[other]
      /\ e.op = "enqueue" => new # NoJob
  BY EventLeaves
<1>2. /\ old # NoJob => known
      /\ e.op = "enqueue" => ~known
      /\ e.op = "claim" => /\ old # NoJob /\ old.status = "pending"
                           /\ e.lease \in LeaseIds \ ClaimedLeases
  <2>1. e.op = "claim" => e.lease \in LeaseIds
    BY DEF Event
  <2> HIDE DEF Event
  <2> QED
    BY <1>1, <2>1, LiveApplied DEF CallEvent, List, Live
<1>3. AppliedIds' = IF e.op = "enqueue" THEN AppliedIds \cup {id} ELSE AppliedIds
  BY DEF CallEvent
<1>4. TakesStep(e, Stands(old, known), Stands(new, known), GoodFor(old), GoodFor(new))
  <2>1. known \in BOOLEAN
    OBVIOUS
  <2> HIDE DEF id, old, new, known, Event
  <2> QED
    BY <1>1, <1>2, <2>1, EventSteps
<1>5. Sight[id] = Stands(old, known) /\ Grip[id] = GoodFor(old)
  BY <1>1, Seeing
<1>6. Sight' = [Sight EXCEPT ![id] = Stands(new, known)]
  <2>1. Sight'[id] = Stands(new, known)
    BY <1>1, <1>3, SeeingNext DEF Stands
  <2>2. \A other \in JobIds \ {id} : Sight'[other] = Sight[other]
    BY <1>1, <1>3, Seeing, SeeingNext
  <2> QED
    BY <2>1, <2>2 DEF Sight, Shows
<1>7. Grip' = [Grip EXCEPT ![id] = GoodFor(new)]
  BY <1>1 DEF Grip, Holds, GoodFor
<1>8. ClaimedLeases' = IF e.op = "claim" THEN ClaimedLeases \cup {e.lease} ELSE ClaimedLeases
  BY DEF CallEvent
<1> HIDE DEF old, new, known, Event
<1> QED
  BY <1>1, <1>2, <1>4, <1>5, <1>6, <1>7, <1>8, SightSteps

LEMMA OtherShown ==
    ASSUME LifeInv, LifeInv', Purged, Purged', CallOther
    PROVE  ShownMoves
<1>1. PICK ids \in SUBSET JobIds : Leaves(ids)
  BY OtherLeaves
<1>2. AppliedIds' = AppliedIds /\ ClaimedLeases' = ClaimedLeases
  BY DEF CallOther
<1>3. \A id \in ids : /\ Sight[id] = "claimed" /\ Sight'[id] = "pending"
                       /\ Grip'[id] = Nil
  BY <1>1 DEF Leaves, Sight, Shows, Grip, Holds
<1>4. \A id \in JobIds \ ids : Sight'[id] = Sight[id] /\ Grip'[id] = Grip[id]
  BY <1>1, <1>2, Seeing, SeeingNext DEF Leaves, Stands, GoodFor
<1>5. CASE ids = {}
  <2>1. Sight' = Sight /\ Grip' = Grip
    BY <1>4, <1>5 DEF Sight, Shows, Grip, Holds
  <2> QED
    BY <1>2, <2>1 DEF ShownMoves, Shown!vars, Sight, Grip
<1>6. CASE ids # {}
  <2>1. /\ Sight' = [id \in JobIds |-> IF id \in ids THEN "pending" ELSE Sight[id]]
        /\ Grip' = [id \in JobIds |-> IF id \in ids THEN Nil ELSE Grip[id]]
    BY <1>3, <1>4 DEF Sight, Shows, Grip, Holds
  <2>2. Shown!Return(ids)
    BY <1>2, <1>3, <1>6, <2>1 DEF Shown!Return, Sight, Grip
  <2> QED
    BY <2>2 DEF ShownMoves, Shown!Next
<1> QED
  BY <1>5, <1>6

LEMMA PurgedInit == Init => Purged /\ Shown!Init
<1> SUFFICES ASSUME Init
             PROVE  Purged /\ Shown!Init
  OBVIOUS
<1>1. log.events = <<>> /\ mem = Empty /\ \A t \in Threads : call[t].pc = "idle"
  BY DEF Init, NewLog, Idle
<1>2. AppliedIds = {} /\ ClaimedLeases = {}
  BY CallInit DEF Calls!Init
<1>3. \A id : ~Logged("purge", id)
  BY <1>1 DEF Logged, ToSet
<1>4. Purged
  BY <1>1, <1>2, <1>3 DEF Purged
<1>5. Shown!Init
  BY <1>1, <1>2, <1>3 DEF Shown!Init, Shows, Holds, Empty
<1> QED
  BY <1>4, <1>5

\* What the clients of a running process whose writes succeed are shown, of
\* every job and its lease, moves as the abstract queue does, for any number
\* of threads whose calls overlap (persistent_space.rs:39-185).
THEOREM MemoryIsJobQueue == OneLife /\ ~IoFaults => ShownIsJobQueue
<1>1. Init => CallsInv /\ Purged /\ Shown!Init
  BY CallInit, PurgedInit
<1>2. /\ CallsInv /\ Purged /\ LifeInv /\ LifeInv' /\ GrantInv /\ ~IoFaults
      /\ [Next /\ mode' # "down"]_vars
      => CallsInv' /\ Purged' /\ ShownMoves
  <2> SUFFICES ASSUME CallsInv, Purged, LifeInv, LifeInv', GrantInv, ~IoFaults,
                      [Next /\ mode' # "down"]_vars
               PROVE  CallsInv' /\ Purged' /\ ShownMoves
    OBVIOUS
  <2>1. CallsInv' /\ CallStep
    BY CallNext
  <2>2. Purged'
    BY <2>1, PurgedNext
  <2>3. ShownMoves
    BY <2>1, <2>2, CallEffects, EventShown, OtherShown
  <2> QED
    BY <2>1, <2>2, <2>3
<1>3. CASE IoFaults
  BY <1>3
<1>4. CASE ~IoFaults
  <2>1. CallsInv /\ Purged /\ LifeInv /\ LifeInv' /\ GrantInv /\ [Next /\ mode' # "down"]_vars
        => CallsInv' /\ Purged' /\ ShownMoves
    BY <1>2, <1>4
  <2> QED
    BY <1>1, <2>1, LifeInvariance, OneLifeIsRun, GrantInvariance, PTL
       DEF OneLife, ShownIsJobQueue, Shown!Spec, ShownMoves
<1> QED
  BY <1>3, <1>4
=============================================================================
