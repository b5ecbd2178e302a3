----------------------- MODULE PersistentSpaceProofs -----------------------
(***************************************************************************)
(* What the calls of the persistent queue keep, for any number of clients, *)
(* tasks and calls under way at once, with writes that fail, although      *)
(* every call is cut in three and nothing but a lock on each piece keeps   *)
(* them apart.                                                             *)
(*                                                                         *)
(* First, what the model takes for granted of its clients: that the report *)
(* under way names a grant, and the claim a lease that nothing else has,   *)
(* stays so whatever other calls log meanwhile.                            *)
(*                                                                         *)
(* Then, of a running process, that it keeps its space well: types, index, *)
(* leases, retry budgets and outcomes.  These theorems are about OneLife:  *)
(* what a start loads may be less, and is the subject of the third part.   *)
(***************************************************************************)
EXTENDS PersistentSpace, ReplayProofs

-----------------------------------------------------------------------------
(* The reports and the claims under way.                                   *)

Busy == {t \in Threads : call[t].pc \in {"append", "apply"}}

\* The log and the calls are as much of a record and a function as EXCEPT asks.
Shapes ==
    /\ \E E, D, S : log \in [events : Seq(E), deleted : D, snapshots : S]
    /\ call = [t \in Threads |-> call[t]]

\* A report names a grant that is in the log.
ReportGranted(e) == e.op \in {"complete", "fail"} => <<e.id, e.lease>> \in Granted

\* A claim that is not in the log yet has a lease that nothing else has.
ClaimFresh(t) ==
    call[t].event.op = "claim" =>
        /\ call[t].pc = "append"
        /\ \A e \in ToSet(log.events) : e.op = "claim" => e.lease # call[t].event.lease
        /\ \A other \in Busy \ {t} : call[other].event.op = "claim"
                                     => call[other].event.lease # call[t].event.lease

GrantInv ==
    /\ Shapes
    /\ \A t \in Busy : ReportGranted(call[t].event) /\ ClaimFresh(t)

-----------------------------------------------------------------------------

\* What a write leaves of the log's shape and adds to its events.
LEMMA LogWritten ==
    ASSUME Shapes, NEW event, log' = AppendEvent(log, event)
    PROVE  /\ \E E, D, S : log' \in [events : Seq(E), deleted : D, snapshots : S]
           /\ log'.events = Append(log.events, event)
           /\ Len(log.events) \in Nat
           /\ DOMAIN log.events = 1..Len(log.events)
           /\ DOMAIN log'.events = 1..(Len(log.events) + 1)
           /\ \A i \in DOMAIN log.events : log'.events[i] = log.events[i]
           /\ log'.events[Len(log.events) + 1] = event
           /\ ToSet(log'.events) = ToSet(log.events) \cup {event}
<1>1. PICK E, D, S : log \in [events : Seq(E), deleted : D, snapshots : S]
  BY DEF Shapes
<1> DEFINE F == E \cup {event}
<1>2. log' = [log EXCEPT !.events = Append(log.events, event)]
  BY DEF AppendEvent
<1>3. log.events \in Seq(E) /\ log'.events = Append(log.events, event)
  BY <1>1, <1>2
<1>4. log.events \in Seq(F)
  BY <1>3
<1> HIDE DEF F
<1>5. event \in F
  BY DEF F
<1>6. log'.events \in Seq(F)
  BY <1>3, <1>4, <1>5
<1>7. log' \in [events : Seq(F), deleted : D, snapshots : S]
  BY <1>1, <1>2, <1>3, <1>6
<1>8. /\ Len(log.events) \in Nat
      /\ DOMAIN log.events = 1..Len(log.events)
      /\ DOMAIN log'.events = 1..(Len(log.events) + 1)
      /\ \A i \in 1..Len(log.events) : log'.events[i] = log.events[i]
      /\ log'.events[Len(log.events) + 1] = event
  BY <1>3, <1>4, <1>5
<1>9. ToSet(log'.events) = ToSet(log.events) \cup {event}
  BY <1>8 DEF ToSet
<1> QED
  BY <1>3, <1>7, <1>8, <1>9

-----------------------------------------------------------------------------
(* The steps, by what they do to the log and to the calls under way.       *)

\* A step that writes no event and begins no write.
LEMMA QuietStep ==
    ASSUME GrantInv, Shapes', log'.events = log.events,
           \A t \in Busy' : t \in Busy /\ call'[t] = call[t]
    PROVE  GrantInv'
<1>1. ToSet(log'.events) = ToSet(log.events) /\ Granted' = Granted
  BY DEF Granted
<1>2. Busy' \subseteq Busy /\ \A t \in Busy' : call'[t] = call[t]
  OBVIOUS
<1> SUFFICES ASSUME NEW t \in Busy'
             PROVE  ReportGranted(call[t].event)' /\ ClaimFresh(t)'
  BY <1>1 DEF GrantInv
<1>3. ReportGranted(call[t].event) /\ ClaimFresh(t)
  BY <1>2 DEF GrantInv
<1>4. ReportGranted(call[t].event)'
  BY <1>1, <1>2, <1>3 DEF ReportGranted
<1>5. ClaimFresh(t)'
  BY <1>1, <1>2, <1>3 DEF ClaimFresh
<1> QED
  BY <1>4, <1>5

\* A step that writes an expiry or a purge, and begins no write.
LEMMA TaskAppends ==
    ASSUME GrantInv, Shapes', NEW event, log' = AppendEvent(log, event),
           event.op \in {"expire", "purge"},
           \A t \in Busy' : t \in Busy /\ call'[t] = call[t]
    PROVE  GrantInv'
<1>1. ToSet(log'.events) = ToSet(log.events) \cup {event}
  BY LogWritten DEF GrantInv
<1>3. Granted' = Granted
  BY <1>1 DEF Granted
<1> SUFFICES ASSUME NEW t \in Busy'
             PROVE  ReportGranted(call[t].event)' /\ ClaimFresh(t)'
  BY DEF GrantInv
<1>4. t \in Busy /\ call'[t] = call[t] /\ ReportGranted(call[t].event) /\ ClaimFresh(t)
  BY DEF GrantInv
<1>5. ReportGranted(call[t].event)'
  BY <1>3, <1>4 DEF ReportGranted
<1>6. ClaimFresh(t)'
  BY <1>1, <1>4 DEF ClaimFresh
<1> QED
  BY <1>5, <1>6

\* A call begins a write.
LEMMA WriteBegins ==
    ASSUME GrantInv, NEW t \in Threads, NEW event, Log(t, event), log' = log, t \notin Busy,
           ReportGranted(event),
           event.op = "claim" => \A e \in KnownEvents : e.op = "claim" => e.lease # event.lease
    PROVE  GrantInv'
<1>1. /\ call'[t] = [pc |-> "append", event |-> event]
      /\ \A other \in Threads \ {t} : call'[other] = call[other]
      /\ Shapes'
  BY DEF Log, GrantInv, Shapes
<1>2. Busy' = Busy \cup {t}
  BY <1>1 DEF Busy
<1>3. ToSet(log'.events) = ToSet(log.events) /\ Granted' = Granted
  BY DEF Granted
<1>4. \A other \in Busy : call[other].event \in KnownEvents
  BY DEF Busy, KnownEvents, Pending
<1>5. ToSet(log.events) \subseteq KnownEvents
  BY DEF KnownEvents
<1>6. \A other \in Busy : other \in Threads \ {t} /\ call'[other] = call[other]
  BY <1>1 DEF Busy
<1>7. ReportGranted(call[t].event)' /\ ClaimFresh(t)'
  <2>1. call'[t].event = event /\ call'[t].pc = "append"
    BY <1>1
  <2>2. ReportGranted(call[t].event)'
    BY <1>3, <2>1 DEF ReportGranted
  <2>3. ClaimFresh(t)'
    BY <1>2, <1>3, <1>4, <1>5, <1>6, <2>1 DEF ClaimFresh
  <2> QED
    BY <2>2, <2>3
<1>8. \A other \in Busy : ReportGranted(call[other].event)' /\ ClaimFresh(other)'
  <2> SUFFICES ASSUME NEW other \in Busy
               PROVE  ReportGranted(call[other].event)' /\ ClaimFresh(other)'
    OBVIOUS
  <2>1. ReportGranted(call[other].event) /\ ClaimFresh(other)
    BY DEF GrantInv
  <2>2. ReportGranted(call[other].event)'
    BY <1>3, <1>6, <2>1 DEF ReportGranted
  <2>3. call[other].event.op = "claim" /\ event.op = "claim" => call[other].event.lease # event.lease
    BY <1>4
  <2>4. ClaimFresh(other)'
    BY <1>1, <1>2, <1>3, <1>6, <2>1, <2>3 DEF ClaimFresh
  <2> QED
    BY <2>2, <2>4
<1> QED
  BY <1>1, <1>2, <1>3, <1>7, <1>8 DEF GrantInv

-----------------------------------------------------------------------------
(* Which actions take which of these steps.                                *)

LEMMA GrantInit == Init => GrantInv
<1> SUFFICES ASSUME Init
             PROVE  GrantInv
  OBVIOUS
<1>1. log = NewLog /\ call = [t \in Threads |-> Idle]
  BY DEF Init
<1>2. <<>> \in Seq({})
  OBVIOUS
<1>3. log \in [events : Seq({}), deleted : {0}, snapshots : {<<>>}]
  BY <1>1, <1>2 DEF NewLog
<1>4. Shapes
  BY <1>1, <1>3 DEF Shapes
<1>6. Busy = {}
  BY <1>1 DEF Busy, Idle
<1> QED
  BY <1>4, <1>6 DEF GrantInv

\* A request that is beginning is not under way.
LEMMA Beginner ==
    ASSUME NEW t, CanBegin(t)
    PROVE  t \notin Busy
BY DEF CanBegin, Busy, Idle

LEMMA BeginKeeps ==
    ASSUME GrantInv, NEW t \in Clients,
           \/ BeginEnqueue(t)
           \/ BeginClaim(t)
           \/ BeginComplete(t)
           \/ BeginFail(t)
           \/ BeginCancel(t)
           \/ BeginRetry(t)
    PROVE  GrantInv'
<1>1. t \in Threads /\ t \notin Busy /\ log' = log
  BY Beginner DEF Threads, Request, BeginEnqueue, BeginClaim, BeginComplete, BeginFail,
                  BeginReport, BeginCancel, BeginRetry
<1>2. ASSUME NEW event, Log(t, event), event.op \in {"enqueue", "cancel", "retry"}
      PROVE  GrantInv'
  BY <1>1, <1>2, WriteBegins DEF ReportGranted
<1>3. CASE BeginEnqueue(t)
  <2>1. PICK id \in FreshIds : \E type \in JobTypes, max_retries \in RetryLimits :
            Log(t, [op |-> "enqueue", id |-> id, ts |-> clock,
                    job_type |-> type, max_retries |-> max_retries])
    BY <1>3 DEF BeginEnqueue
  <2> QED
    BY <1>2, <2>1
<1>4. CASE BeginCancel(t)
  <2>1. PICK id \in List(mem, "pending") : Log(t, [op |-> "cancel", id |-> id, ts |-> clock])
    BY <1>4 DEF BeginCancel
  <2> QED
    BY <1>2, <2>1
<1>5. CASE BeginRetry(t)
  <2>1. PICK id \in List(mem, "failed") : Log(t, [op |-> "retry", id |-> id, ts |-> clock])
    BY <1>5 DEF BeginRetry
  <2> QED
    BY <1>2, <2>1
<1>6. CASE BeginComplete(t) \/ BeginFail(t)
  <2>1. PICK op \in {"complete", "fail"} : BeginReport(t, op)
    BY <1>6 DEF BeginComplete, BeginFail
  <2>2. PICK held \in Granted :
            Log(t, [op |-> op, id |-> held[1], ts |-> clock, lease |-> held[2]])
    BY <2>1 DEF BeginReport
  <2> DEFINE event == [op |-> op, id |-> held[1], ts |-> clock, lease |-> held[2]]
  <2>3. <<held[1], held[2]>> = held
    BY DEF Granted
  <2>4. ReportGranted(event) /\ event.op # "claim"
    BY <2>3 DEF ReportGranted
  <2> QED
    BY <1>1, <2>2, <2>4, WriteBegins
<1>7. CASE BeginClaim(t)
  <2>1. PICK type \in JobTypes : \E key \in OldestKeys(mem, type),
            lease \in FreshLeases, ttl \in Ttls, worker \in Workers \cup {Nil} :
                IF mem.jobs[key[3]] = NoJob
                THEN UNCHANGED call
                ELSE Log(t, [op |-> "claim", id |-> key[3], ts |-> clock,
                             lease |-> lease, until |-> clock + ttl, worker |-> worker])
    BY <1>7 DEF BeginClaim
  <2>2. PICK key \in OldestKeys(mem, type), lease \in FreshLeases, ttl \in Ttls,
             worker \in Workers \cup {Nil} :
                IF mem.jobs[key[3]] = NoJob
                THEN UNCHANGED call
                ELSE Log(t, [op |-> "claim", id |-> key[3], ts |-> clock,
                             lease |-> lease, until |-> clock + ttl, worker |-> worker])
    BY <2>1
  <2>3. CASE UNCHANGED call
    BY <1>1, <2>3, QuietStep DEF Busy, Shapes, GrantInv
  <2>4. CASE Log(t, [op |-> "claim", id |-> key[3], ts |-> clock,
                     lease |-> lease, until |-> clock + ttl, worker |-> worker])
    <3> DEFINE event == [op |-> "claim", id |-> key[3], ts |-> clock,
                         lease |-> lease, until |-> clock + ttl, worker |-> worker]
    <3>1. \A e \in KnownEvents : e.op = "claim" => e.lease # lease
      BY DEF FreshLeases
    <3>2. event.op = "claim" /\ event.lease = lease /\ ReportGranted(event)
      BY DEF ReportGranted
    <3> HIDE DEF event
    <3>3. Log(t, event)
      BY <2>4 DEF event
    <3> QED
      BY <1>1, <3>1, <3>2, <3>3, WriteBegins
  <2> QED
    BY <2>2, <2>3, <2>4
<1> QED
  BY <1>3, <1>4, <1>5, <1>6, <1>7

\* The write of a request, and what follows it.
LEMMA AppendKeeps ==
    ASSUME GrantInv, NEW t \in Clients, AppendRequest(t)
    PROVE  GrantInv'
<1> DEFINE event == call[t].event
<1>1. t \in Busy /\ log' = AppendEvent(log, event) /\ call[t].pc = "append"
  BY DEF AppendRequest, WriteLog, Threads, Busy
<1>2. /\ \A other \in Threads \ {t} : call'[other] = call[other]
      /\ event.op = "claim" => call'[t] = Idle
      /\ event.op # "claim" => call'[t] = [pc |-> "apply", event |-> event]
      /\ call' = [other \in Threads |-> call'[other]]
  BY <1>1 DEF AppendRequest, GrantInv, Shapes, Busy
<1>3. ReportGranted(event) /\ ClaimFresh(t)
  BY <1>1 DEF GrantInv
<1>4. ToSet(log'.events) = ToSet(log.events) \cup {event}
  BY <1>1, LogWritten DEF GrantInv
<1>6. Shapes'
  BY <1>1, <1>2, LogWritten DEF GrantInv, Shapes
<1>7. Granted \subseteq Granted'
  BY <1>4 DEF Granted
<1>8. /\ Busy' \subseteq Busy
      /\ event.op = "claim" => t \notin Busy'
  BY <1>1, <1>2 DEF Busy, Idle
<1> HIDE DEF event
<1> SUFFICES ASSUME NEW other \in Busy'
             PROVE  ReportGranted(call[other].event)' /\ ClaimFresh(other)'
  BY <1>6 DEF GrantInv
<1>9. CASE other = t
  <2>1. event.op # "claim"
    BY <1>8, <1>9
  <2>2. call'[t].event.op = event.op /\ (event.op \in {"complete", "fail"} => call'[t].event = event)
    BY <1>2, <2>1
  <2> QED
    BY <1>3, <1>7, <1>9, <2>1, <2>2 DEF ReportGranted, ClaimFresh
<1>10. CASE other # t
  <2>1. other \in Busy /\ call'[other] = call[other]
    BY <1>2, <1>8, <1>10 DEF Busy
  <2>2. ReportGranted(call[other].event) /\ ClaimFresh(other)
    BY <2>1 DEF GrantInv
  <2>3. ReportGranted(call[other].event)'
    BY <1>7, <2>1, <2>2 DEF ReportGranted
  <2>4. call[other].event.op = "claim" /\ event.op = "claim" => event.lease # call[other].event.lease
    BY <1>1, <1>10, <2>1, <2>2 DEF ClaimFresh, event
  <2>5. \A third \in Busy' \ {t} : call'[third] = call[third] /\ third \in Busy
    BY <1>2, <1>8 DEF Busy
  <2>6. t \in Busy' => event.op # "claim" /\ call'[t].event.op = event.op
    BY <1>2, <1>8
  <2>7. ClaimFresh(other)'
    BY <1>4, <2>1, <2>2, <2>4, <2>5, <2>6 DEF ClaimFresh
  <2> QED
    BY <2>3, <2>7
<1> QED
  BY <1>9, <1>10

LEMMA RequestKeeps ==
    ASSUME GrantInv, NEW t \in Clients,
           Heartbeat(t) \/ AppendRequestFails(t) \/ ApplyRequest(t)
    PROVE  GrantInv'
<1>1. log' = log /\ (call' = call \/ call' = [call EXCEPT ![t] = Idle])
  BY DEF Heartbeat, AppendRequestFails, ApplyRequest
<1>2. Shapes'
  BY <1>1 DEF GrantInv, Shapes
<1>3. \A other \in Busy' : other \in Busy /\ call'[other] = call[other]
  BY <1>1 DEF GrantInv, Shapes, Busy, Idle
<1> QED
  BY <1>1, <1>2, <1>3, QuietStep

\* A task begins, ends or goes on without writing an event, and is not busy.
LEMMA TaskMoves ==
    ASSUME GrantInv, NEW t, call' = [call EXCEPT ![t] = call'[t]],
           call'[t].pc \notin {"append", "apply"}
    PROVE  /\ call' = [other \in Threads |-> call'[other]]
           /\ \A other \in Busy' : other \in Busy /\ call'[other] = call[other]
BY DEF GrantInv, Shapes, Busy

\* The log that a snapshot or a truncation leaves has the same events.
LEMMA RowsChange ==
    ASSUME Shapes,
           \/ \E seq, ts, jobs : log' = SaveSnapshot(log, seq, ts, jobs)
           \/ \E seq : log' = TruncateBefore(log, seq)
           \/ log' = log
    PROVE  /\ \E E, D, S : log' \in [events : Seq(E), deleted : D, snapshots : S]
           /\ log'.events = log.events
<1>1. PICK E, D, S : log \in [events : Seq(E), deleted : D, snapshots : S]
  BY DEF Shapes
<1>2. CASE \E seq, ts, jobs : log' = SaveSnapshot(log, seq, ts, jobs)
  <2>1. PICK rows : log' = [log EXCEPT !.snapshots = rows]
    BY <1>2 DEF SaveSnapshot
  <2>2. log' \in [events : Seq(E), deleted : D, snapshots : S \cup {rows}]
    BY <1>1, <2>1
  <2> QED
    BY <1>1, <2>1, <2>2
<1>3. CASE \E seq : log' = TruncateBefore(log, seq)
  <2>1. PICK n : log' = [log EXCEPT !.deleted = n]
    BY <1>3 DEF TruncateBefore
  <2>2. log' \in [events : Seq(E), deleted : D \cup {n}, snapshots : S]
    BY <1>1, <2>1
  <2> QED
    BY <1>1, <2>1, <2>2
<1>4. CASE log' = log
  BY <1>1, <1>4
<1> QED
  BY <1>2, <1>3, <1>4

\* The other steps of the tasks.
LEMMA TaskKeeps ==
    ASSUME GrantInv, NEW t \in Threads, t \notin Busy,
           \/ t = Reaper /\ BeginReap
           \/ t = Main /\ BeginShutdown
           \/ t = Cleaner /\ (BeginCleanup \/ RemovePurged \/ FinishPurge)
           \/ FinishRelease(t)
           \/ ReadMaxSeq(t)
           \/ ListJobs(t)
           \/ Save(t)
           \/ Truncate(t)
           \/ TaskFails(t)
    PROVE  GrantInv'
<1>0. call = [other \in Threads |-> call[other]]
  BY DEF GrantInv, Shapes
<1>1. call' = [call EXCEPT ![t] = call'[t]] /\ call'[t].pc \notin {"append", "apply"}
  <2>1. CASE t = Reaper /\ BeginReap
    BY <1>0, <2>1 DEF BeginReap, BeginRelease
  <2>2. CASE t = Main /\ BeginShutdown
    BY <1>0, <2>2 DEF BeginShutdown, BeginRelease
  <2>3. CASE t = Cleaner /\ (BeginCleanup \/ RemovePurged \/ FinishPurge)
    BY <1>0, <2>3 DEF BeginCleanup, RemovePurged, FinishPurge
  <2>4. CASE FinishRelease(t)
    BY <1>0, <2>4 DEF FinishRelease, Idle
  <2>5. CASE ReadMaxSeq(t)
    BY <1>0, <2>5 DEF ReadMaxSeq
  <2>6. CASE ListJobs(t)
    BY <1>0, <2>6 DEF ListJobs
  <2>7. CASE Save(t)
    BY <1>0, <2>7 DEF Save
  <2>8. CASE Truncate(t) \/ TaskFails(t)
    BY <1>0, <2>8 DEF Truncate, TaskFails, Leave, Idle
  <2> QED
    BY <2>1, <2>2, <2>3, <2>4, <2>5, <2>6, <2>7, <2>8
<1>2. \/ \E seq, ts, jobs : log' = SaveSnapshot(log, seq, ts, jobs)
      \/ \E seq : log' = TruncateBefore(log, seq)
      \/ log' = log
  BY DEF BeginReap, BeginShutdown, BeginCleanup, RemovePurged, FinishPurge, FinishRelease,
         ReadMaxSeq, ListJobs, Save, Truncate, TaskFails, WriteLog
<1>3. /\ \E E, D, S : log' \in [events : Seq(E), deleted : D, snapshots : S]
      /\ log'.events = log.events
  BY <1>2, RowsChange DEF GrantInv
<1>4. /\ call' = [other \in Threads |-> call'[other]]
      /\ \A other \in Busy' : other \in Busy /\ call'[other] = call[other]
  BY <1>1, TaskMoves
<1>5. Shapes'
  BY <1>3, <1>4 DEF Shapes
<1> QED
  BY <1>3, <1>4, <1>5, QuietStep

LEMMA AppendExpireKeeps ==
    ASSUME GrantInv, NEW t \in Threads, AppendExpire(t)
    PROVE  GrantInv'
<1>1. PICK id \in call[t].todo :
          /\ call' = [call EXCEPT ![t].todo = @ \ {id}]
          /\ \/ log' = AppendEvent(log, [op |-> "expire", id |-> id, ts |-> call[t].ts])
             \/ log' = log
  BY DEF AppendExpire, WriteLog
<1>2. call[t].pc = "release"
  BY DEF AppendExpire
<1>3. /\ call' = [other \in Threads |-> call'[other]]
      /\ \A other \in Threads \ {t} : call'[other] = call[other]
      /\ call'[t] = [call[t] EXCEPT !.todo = call[t].todo \ {id}]
  BY <1>1 DEF GrantInv, Shapes
<1>4. call'[t].pc = "release"
  BY <1>2, <1>3
<1>5. \A other \in Busy' : other \in Busy /\ call'[other] = call[other]
  BY <1>3, <1>4 DEF Busy
<1>6. CASE log' = AppendEvent(log, [op |-> "expire", id |-> id, ts |-> call[t].ts])
  <2>1. Shapes'
    BY <1>3, <1>6, LogWritten DEF Shapes, GrantInv
  <2> QED
    BY <1>5, <1>6, <2>1, TaskAppends
<1>7. CASE log' = log
  <2>1. Shapes'
    BY <1>3, <1>7 DEF Shapes, GrantInv
  <2> QED
    BY <1>5, <1>7, <2>1, QuietStep
<1> QED
  BY <1>1, <1>6, <1>7

LEMMA AppendPurgeKeeps ==
    ASSUME GrantInv, AppendPurge
    PROVE  GrantInv'
<1>1. PICK id \in call[Cleaner].todo :
          /\ log' = AppendEvent(log, [op |-> "purge", id |-> id, ts |-> call[Cleaner].ts])
          /\ call' = [call EXCEPT ![Cleaner] = [pc |-> "remove", id |-> id,
                                                todo |-> @.todo \ {id}, ts |-> @.ts]]
  BY DEF AppendPurge, WriteLog
<1>2. call' = [call EXCEPT ![Cleaner] = call'[Cleaner]] /\ call'[Cleaner].pc = "remove"
  <2>1. call = [other \in Threads |-> call[other]] /\ Cleaner \in Threads
    BY DEF GrantInv, Shapes, AppendPurge, Threads
  <2> QED
    BY <1>1, <2>1
<1>3. /\ call' = [other \in Threads |-> call'[other]]
      /\ \A other \in Busy' : other \in Busy /\ call'[other] = call[other]
  BY <1>2, TaskMoves
<1>4. Shapes'
  BY <1>1, <1>3, LogWritten DEF Shapes, GrantInv
<1> QED
  BY <1>1, <1>3, <1>4, TaskAppends

\* The process and the world: the calls go on, or end all at once.
LEMMA WorldKeeps ==
    ASSUME GrantInv, Tick \/ Exit \/ Crash \/ Open \/ UNCHANGED vars
    PROVE  GrantInv'
<1>1. log' = log /\ (call' = call \/ call' = [t \in Threads |-> Idle])
  BY DEF Tick, Exit, Crash, Open, Stop, vars
<1>2. Shapes'
  BY <1>1 DEF GrantInv, Shapes
<1>3. \A t \in Busy' : t \in Busy /\ call'[t] = call[t]
  BY <1>1 DEF Busy, Idle
<1> QED
  BY <1>1, <1>2, <1>3, QuietStep

-----------------------------------------------------------------------------
(* Theorems of the specification.                                          *)

\* The log and the writes under way agree at the start and after every step.
LEMMA GrantInvariance == Spec => []GrantInv
<1>1. Init => GrantInv
  BY GrantInit
<1>2. GrantInv /\ [Next]_vars => GrantInv'
  <2> SUFFICES ASSUME GrantInv, [Next]_vars
               PROVE  GrantInv'
    OBVIOUS
  <2>1. ASSUME NEW t \in Clients, BeginEnqueue(t) \/ BeginClaim(t) \/ BeginComplete(t)
                                   \/ BeginFail(t) \/ BeginCancel(t) \/ BeginRetry(t)
        PROVE  GrantInv'
    BY <2>1, BeginKeeps
  <2>2. ASSUME NEW t \in Clients, AppendRequest(t)
        PROVE  GrantInv'
    BY <2>2, AppendKeeps
  <2>3. ASSUME NEW t \in Clients, Heartbeat(t) \/ AppendRequestFails(t) \/ ApplyRequest(t)
        PROVE  GrantInv'
    BY <2>3, RequestKeeps
  <2>4. CASE BeginReap \/ BeginShutdown \/ BeginCleanup
    <3>1. PICK t \in Tasks : /\ CanBegin(t)
                             /\ \/ t = Reaper /\ BeginReap
                                \/ t = Main /\ BeginShutdown
                                \/ t = Cleaner /\ BeginCleanup
      BY <2>4 DEF BeginReap, BeginShutdown, BeginCleanup
    <3> QED
      BY <3>1, Beginner, TaskKeeps DEF Threads
  <2>5. CASE AppendPurge
    BY <2>5, AppendPurgeKeeps
  <2>6. CASE RemovePurged \/ FinishPurge
    <3>1. Cleaner \in Threads /\ Cleaner \notin Busy
      BY <2>6 DEF RemovePurged, FinishPurge, Threads, Busy
    <3> QED
      BY <2>6, <3>1, TaskKeeps
  <2>7. ASSUME NEW t \in Tasks, AppendExpire(t)
        PROVE  GrantInv'
    BY <2>7, AppendExpireKeeps DEF Threads
  <2>8. ASSUME NEW t \in Tasks, FinishRelease(t) \/ ReadMaxSeq(t) \/ ListJobs(t)
                                 \/ Save(t) \/ Truncate(t) \/ TaskFails(t)
        PROVE  GrantInv'
    <3>1. t \in Threads /\ t \notin Busy
      BY <2>8 DEF FinishRelease, ReadMaxSeq, ListJobs, Save, Truncate, TaskFails, Threads, Busy
    <3> QED
      BY <2>8, <3>1, TaskKeeps
  <2>9. CASE Tick \/ Exit \/ Crash \/ Open \/ UNCHANGED vars
    BY <2>9, WorldKeeps
  <2> QED
    BY <2>1, <2>2, <2>3, <2>4, <2>5, <2>6, <2>7, <2>8, <2>9 DEF Next
<1> QED
  BY <1>1, <1>2, PTL DEF Spec

-----------------------------------------------------------------------------
(* The space of a running process.                                         *)

CallTyped(t) ==
    /\ call[t].pc \in {"append", "apply"}
           => call[t].event \in Event /\ call[t].event.op \notin {"expire", "purge"}
    /\ call[t].pc \in {"release", "purge", "remove"}
           => call[t].todo \subseteq JobIds /\ call[t].ts \in Int
    /\ call[t].pc = "remove" => call[t].id \in JobIds
    /\ call[t].pc \in {"list", "save", "truncate"} => call[t].seq \in 0..Len(log.events)

LifeType ==
    /\ mode \in {"serving", "closing", "exiting"}
    /\ log.events \in Seq(Event)
    /\ log.deleted \in 0..Len(log.events)
    /\ clock \in Times
    /\ \A t \in Threads : CallTyped(t)

Enqueues(t) == t \in Busy /\ call[t].event.op = "enqueue"

\* A job whose enqueue is under way is not in the space, and no other enqueue
\* under way has its id.
Unborn(t) ==
    /\ call[t].event.id \notin Live(mem)
    /\ call[t].pc = "apply" => call[t].event.id \in EnqueuedIds(ToSet(log.events))
    /\ call[t].pc = "append" => call[t].event.id \notin EnqueuedIds(ToSet(log.events))
    /\ \A other \in Threads \ {t} : Enqueues(other) => call[other].event.id # call[t].event.id

LifeInv ==
    /\ LifeType
    /\ WellKept(mem)
    /\ Live(mem) \subseteq EnqueuedIds(ToSet(log.events))
    /\ \A t \in Threads : Enqueues(t) => Unborn(t)

-----------------------------------------------------------------------------

\* The clock shows a time.
LEMMA ClockType ==
    ASSUME LifeInv
    PROVE  clock \in Int /\ MaxTime \in Nat
BY BoundsAssumption DEF LifeInv, LifeType, Times

\* The calls of the other threads keep their types while the log grows.
LEMMA OthersTyped ==
    ASSUME LifeInv, NEW t \in Threads, CallTyped(t)',
           Len(log.events) \in Nat, Len(log'.events) \in Nat,
           Len(log.events) <= Len(log'.events),
           \A other \in Threads \ {t} : call'[other] = call[other]
    PROVE  \A other \in Threads : CallTyped(other)'
<1> SUFFICES ASSUME NEW other \in Threads \ {t}
             PROVE  CallTyped(other)'
  OBVIOUS
<1>1. CallTyped(other) /\ call'[other] = call[other]
  BY DEF LifeInv, LifeType
<1>2. \A seq \in 0..Len(log.events) : seq \in 0..Len(log'.events)
  OBVIOUS
<1> QED
  BY <1>1, <1>2 DEF CallTyped

\* What an event adds to a typed log.
LEMMA TypedWrite ==
    ASSUME Shapes, LifeType, NEW event \in Event, log' = AppendEvent(log, event)
    PROVE  /\ log'.events \in Seq(Event)
           /\ log'.deleted \in 0..Len(log'.events)
           /\ Len(log.events) \in Nat
           /\ Len(log'.events) = Len(log.events) + 1
<1>1. PICK E, D, S : log \in [events : Seq(E), deleted : D, snapshots : S]
  BY DEF Shapes
<1>2. log'.events = Append(log.events, event)
  BY LogWritten
<1>3. log'.deleted = log.deleted
  BY <1>1 DEF AppendEvent
<1>4. log.events \in Seq(Event) /\ log.deleted \in 0..Len(log.events)
  BY DEF LifeType
<1> HIDE DEF Event
<1>5. Len(log.events) \in Nat /\ Len(log'.events) = Len(log.events) + 1 /\ log'.events \in Seq(Event)
  BY <1>2, <1>4
<1> QED
  BY <1>3, <1>4, <1>5

\* Which ids the log has enqueued, after a write.
LEMMA IdsWritten ==
    ASSUME Shapes, NEW event, log' = AppendEvent(log, event)
    PROVE  EnqueuedIds(ToSet(log'.events)) =
               EnqueuedIds(ToSet(log.events)) \cup (IF event.op = "enqueue" THEN {event.id} ELSE {})
<1>1. ToSet(log'.events) = ToSet(log.events) \cup {event}
  BY LogWritten
<1> QED
  BY <1>1 DEF EnqueuedIds

\* A step that enqueues nothing, under way or in the space.
LEMMA LifeStep ==
    ASSUME LifeInv, LifeType', WellKept(mem'), Live(mem') \subseteq Live(mem),
           EnqueuedIds(ToSet(log'.events)) = EnqueuedIds(ToSet(log.events)),
           \A t \in Threads : Enqueues(t)' => Enqueues(t) /\ call'[t] = call[t]
    PROVE  LifeInv'
<1>1. \A t \in Threads : Enqueues(t)' => Unborn(t)'
  BY DEF LifeInv, Unborn
<1> QED
  BY <1>1 DEF LifeInv

\* A granted lease is of a job and of a lease id.
LEMMA GrantedType ==
    ASSUME LifeType, NEW held \in Granted
    PROVE  held[1] \in JobIds /\ held[2] \in LeaseIds /\ held = <<held[1], held[2]>>
<1>1. PICK e \in ToSet(log.events) : e.op = "claim" /\ held = <<e.id, e.lease>>
  BY DEF Granted
<1>2. log.events \in Seq(Event)
  BY DEF LifeType
<1>3. e \in Event
  BY <1>1, <1>2 DEF ToSet
<1>4. e.id \in JobIds /\ e.lease \in LeaseIds
  BY <1>1, <1>3 DEF Event
<1> QED
  BY <1>1, <1>4

LEMMA LifeInit == Init => LifeInv
<1> SUFFICES ASSUME Init
             PROVE  LifeInv
  OBVIOUS
<1>1. log = NewLog /\ call = [t \in Threads |-> Idle] /\ mem = Empty /\ clock = 0
  BY DEF Init
<1>2. log.events = <<>> /\ log.deleted = 0
  BY <1>1 DEF NewLog
<1>3. log.events \in Seq(Event) /\ Len(log.events) = 0
  <2> HIDE DEF Event
  <2> QED
    BY <1>2
<1>4. clock \in Times
  BY <1>1, BoundsAssumption DEF Times
<1>5. \A t \in Threads : call[t].pc = "idle"
  BY <1>1 DEF Idle
<1>6. \A t \in Threads : CallTyped(t) /\ ~Enqueues(t)
  BY <1>5 DEF CallTyped, Enqueues, Busy
<1>7. LifeType
  BY <1>2, <1>3, <1>4, <1>6 DEF LifeType, Init
<1>8. Live(mem) = {} /\ WellKept(mem)
  BY <1>1, EmptyWellKept DEF Live, Empty
<1> QED
  BY <1>6, <1>7, <1>8 DEF LifeInv

-----------------------------------------------------------------------------
(* One thread moves.                                                       *)

\* A step of one thread that enqueues nothing.
LEMMA ThreadStep ==
    ASSUME LifeInv, NEW t \in Threads, CallTyped(t)', ~Enqueues(t)',
           \A other \in Threads \ {t} : call'[other] = call[other],
           mode' \in {"serving", "closing", "exiting"}, clock' = clock,
           log'.events \in Seq(Event), log'.deleted \in 0..Len(log'.events),
           Len(log.events) <= Len(log'.events),
           EnqueuedIds(ToSet(log'.events)) = EnqueuedIds(ToSet(log.events)),
           WellKept(mem'), Live(mem') \subseteq Live(mem)
    PROVE  LifeInv'
<1>1. Len(log.events) \in Nat /\ Len(log'.events) \in Nat
  <2> HIDE DEF Event
  <2> QED
    BY DEF LifeInv, LifeType
<1>2. \A other \in Threads : CallTyped(other)'
  BY <1>1, OthersTyped
<1>3. LifeType'
  BY <1>2 DEF LifeInv, LifeType
<1>4. \A other \in Threads : Enqueues(other)' => Enqueues(other) /\ call'[other] = call[other]
  BY DEF Enqueues, Busy
<1> QED
  BY <1>3, <1>4, LifeStep

\* One that leaves the events as they are.
LEMMA SilentStep ==
    ASSUME LifeInv, NEW t \in Threads, CallTyped(t)', ~Enqueues(t)',
           \A other \in Threads \ {t} : call'[other] = call[other],
           mode' \in {"serving", "closing", "exiting"}, clock' = clock,
           log'.events = log.events, log'.deleted \in 0..Len(log.events),
           WellKept(mem'), Live(mem') \subseteq Live(mem)
    PROVE  LifeInv'
<1>1. Len(log.events) \in Nat /\ log'.events \in Seq(Event)
  <2> HIDE DEF Event
  <2> QED
    BY DEF LifeInv, LifeType
<1>2. EnqueuedIds(ToSet(log'.events)) = EnqueuedIds(ToSet(log.events))
  OBVIOUS
<1> QED
  BY <1>1, <1>2, ThreadStep

\* One that writes an event other than an enqueue.
LEMMA WritingStep ==
    ASSUME LifeInv, Shapes, NEW t \in Threads, CallTyped(t)', ~Enqueues(t)',
           \A other \in Threads \ {t} : call'[other] = call[other],
           NEW event \in Event, event.op # "enqueue", log' = AppendEvent(log, event),
           mode' = mode, clock' = clock, mem' = mem
    PROVE  LifeInv'
<1>1. /\ log'.events \in Seq(Event)
      /\ log'.deleted \in 0..Len(log'.events)
      /\ Len(log.events) <= Len(log'.events)
  BY TypedWrite DEF LifeInv
<1>2. EnqueuedIds(ToSet(log'.events)) = EnqueuedIds(ToSet(log.events))
  BY IdsWritten
<1>3. mode' \in {"serving", "closing", "exiting"} /\ WellKept(mem') /\ Live(mem') \subseteq Live(mem)
  BY DEF LifeInv, LifeType
<1> QED
  BY <1>1, <1>2, <1>3, ThreadStep

-----------------------------------------------------------------------------
(* Requests.                                                               *)

\* What a call that begins to write an event does to the calls.
LEMMA LogBegun ==
    ASSUME Shapes, NEW t \in Threads, NEW event \in Event, Log(t, event),
           event.op \notin {"expire", "purge"}
    PROVE  /\ call'[t] = [pc |-> "append", event |-> event]
           /\ \A other \in Threads \ {t} : call'[other] = call[other]
           /\ CallTyped(t)'
           /\ event.op # "enqueue" => ~Enqueues(t)'
<1>1. /\ call'[t] = [pc |-> "append", event |-> event]
      /\ \A other \in Threads \ {t} : call'[other] = call[other]
  BY DEF Shapes, Log
<1>2. call'[t].pc = "append" /\ call'[t].event = event
  BY <1>1
<1> QED
  BY <1>1, <1>2 DEF CallTyped, Enqueues

LEMMA BeginReportLife ==
    ASSUME LifeInv, GrantInv, NEW t \in Clients, BeginComplete(t) \/ BeginFail(t)
    PROVE  LifeInv'
<1>1. PICK op \in {"complete", "fail"} : BeginReport(t, op)
  BY DEF BeginComplete, BeginFail
<1>2. PICK held \in Granted :
          Log(t, [op |-> op, id |-> held[1], ts |-> clock, lease |-> held[2]])
  BY <1>1 DEF BeginReport
<1> DEFINE event == [op |-> op, id |-> held[1], ts |-> clock, lease |-> held[2]]
<1>3. held[1] \in JobIds /\ held[2] \in LeaseIds
  BY GrantedType DEF LifeInv
<1>4. event \in Event /\ event.op \notin {"expire", "purge", "enqueue"}
  BY <1>3, ClockType DEF Event
<1> HIDE DEF event
<1>5. Log(t, event)
  BY <1>2 DEF event
<1>6. /\ \A other \in Threads \ {t} : call'[other] = call[other]
      /\ CallTyped(t)' /\ ~Enqueues(t)'
  BY <1>4, <1>5, LogBegun DEF GrantInv, Threads
<1>7. UNCHANGED <<mode, mem, log, clock>>
  BY <1>1 DEF BeginReport
<1> QED
  BY <1>6, <1>7, SilentStep DEF LifeInv, LifeType, Threads

LEMMA BeginOperatorLife ==
    ASSUME LifeInv, GrantInv, NEW t \in Clients, BeginCancel(t) \/ BeginRetry(t)
    PROVE  LifeInv'
<1>1. PICK op \in {"cancel", "retry"}, id \in Live(mem) : Log(t, [op |-> op, id |-> id, ts |-> clock])
  BY DEF BeginCancel, BeginRetry, List
<1> DEFINE event == [op |-> op, id |-> id, ts |-> clock]
<1>2. event \in Event /\ event.op \notin {"expire", "purge", "enqueue"}
  BY ClockType DEF Event, Live
<1> HIDE DEF event
<1>3. Log(t, event)
  BY <1>1 DEF event
<1>4. /\ \A other \in Threads \ {t} : call'[other] = call[other]
      /\ CallTyped(t)' /\ ~Enqueues(t)'
  BY <1>2, <1>3, LogBegun DEF GrantInv, Threads
<1>5. UNCHANGED <<mode, mem, log, clock>>
  BY DEF BeginCancel, BeginRetry
<1> QED
  BY <1>4, <1>5, SilentStep DEF LifeInv, LifeType, Threads

\* A claim that found a job has changed the space before it writes.
LEMMA BeginClaimLife ==
    ASSUME LifeInv, GrantInv, NEW t \in Clients, BeginClaim(t)
    PROVE  LifeInv'
<1>1. PICK type \in JobTypes : \E key \in OldestKeys(mem, type),
          lease \in FreshLeases, ttl \in Ttls, worker \in Workers \cup {Nil} :
              /\ mem' = ClaimKey(mem, key, lease, ttl, worker, clock)
              /\ IF mem.jobs[key[3]] = NoJob
                 THEN UNCHANGED call
                 ELSE Log(t, [op |-> "claim", id |-> key[3], ts |-> clock,
                              lease |-> lease, until |-> clock + ttl, worker |-> worker])
  BY DEF BeginClaim
<1>2. PICK key \in OldestKeys(mem, type), lease \in FreshLeases, ttl \in Ttls,
           worker \in Workers \cup {Nil} :
              /\ mem' = ClaimKey(mem, key, lease, ttl, worker, clock)
              /\ IF mem.jobs[key[3]] = NoJob
                 THEN UNCHANGED call
                 ELSE Log(t, [op |-> "claim", id |-> key[3], ts |-> clock,
                              lease |-> lease, until |-> clock + ttl, worker |-> worker])
  BY <1>1
<1> DEFINE event == [op |-> "claim", id |-> key[3], ts |-> clock,
                     lease |-> lease, until |-> clock + ttl, worker |-> worker]
<1>3. key \in mem.pending /\ key[3] \in List(mem, "pending") /\ WellKept(mem)
  BY PendingKeyIndexed DEF LifeInv, OldestKeys
<1>4. key[3] \in JobIds /\ mem.jobs[key[3]] # NoJob
  BY <1>3 DEF List, Live
<1>5. lease \in LeaseIds /\ \A id \in List(mem, "claimed") : mem.jobs[id].lease_id # lease
  BY DEF FreshLeases, LeasesIn, List, Live
<1>6. ttl \in Int /\ clock \in Int
  BY BoundsAssumption, ClockType
<1>7. WellKept(mem')
  BY <1>2, <1>3, <1>5, <1>6, ClaimWellKept
<1>8. Live(mem') \subseteq Live(mem)
  BY <1>2, <1>4 DEF ClaimKey, Put, Live
<1>9. event \in Event /\ event.op \notin {"expire", "purge", "enqueue"}
  BY <1>4, <1>5, <1>6 DEF Event
<1> HIDE DEF event
<1>10. Log(t, event)
  BY <1>2, <1>4 DEF event
<1>11. /\ \A other \in Threads \ {t} : call'[other] = call[other]
       /\ CallTyped(t)' /\ ~Enqueues(t)'
  BY <1>9, <1>10, LogBegun DEF GrantInv, Threads
<1>12. UNCHANGED <<mode, log, clock>>
  BY DEF BeginClaim
<1> QED
  BY <1>7, <1>8, <1>11, <1>12, SilentStep DEF LifeInv, LifeType, Threads

\* The id of an enqueue is in no event that is written or about to be.
LEMMA BeginEnqueueLife ==
    ASSUME LifeInv, GrantInv, NEW t \in Clients, BeginEnqueue(t)
    PROVE  LifeInv'
<1>0. t \in Threads /\ UNCHANGED <<mode, mem, log, clock>>
  BY DEF Threads, BeginEnqueue
<1>1. PICK id \in FreshIds : \E type \in JobTypes, max_retries \in RetryLimits :
          Log(t, [op |-> "enqueue", id |-> id, ts |-> clock,
                  job_type |-> type, max_retries |-> max_retries])
  BY DEF BeginEnqueue
<1>2. PICK type \in JobTypes, max_retries \in RetryLimits :
          Log(t, [op |-> "enqueue", id |-> id, ts |-> clock,
                  job_type |-> type, max_retries |-> max_retries])
  BY <1>1
<1> DEFINE event == [op |-> "enqueue", id |-> id, ts |-> clock,
                     job_type |-> type, max_retries |-> max_retries]
<1>3. event \in Event /\ event.op = "enqueue" /\ event.id = id
  BY ClockType, BoundsAssumption DEF Event, FreshIds
<1> HIDE DEF event
<1>4. Log(t, event)
  BY <1>2 DEF event
<1>5. /\ call'[t] = [pc |-> "append", event |-> event]
      /\ \A other \in Threads \ {t} : call'[other] = call[other]
      /\ CallTyped(t)'
  BY <1>0, <1>3, <1>4, LogBegun DEF GrantInv
<1>6. LifeType'
  BY <1>0, <1>5 DEF LifeInv, LifeType, CallTyped
<1>7. \A e \in KnownEvents : e.id # id
  BY DEF FreshIds
<1>8. id \notin EnqueuedIds(ToSet(log.events)) /\ id \notin Live(mem)
  BY <1>7 DEF KnownEvents, EnqueuedIds, LifeInv
<1>9. \A other \in Threads : Enqueues(other) => call[other].event.id # id
  BY <1>7 DEF KnownEvents, Pending, Enqueues, Busy
<1>10. call'[t].pc = "append" /\ call'[t].event = event
  BY <1>5
<1>11. \A other \in Threads \ {t} : Enqueues(other)' => Enqueues(other) /\ call'[other] = call[other]
  BY <1>5 DEF Enqueues, Busy
<1>12. Unborn(t)'
  BY <1>0, <1>3, <1>8, <1>9, <1>10, <1>11 DEF Unborn
<1>13. ASSUME NEW other \in Threads \ {t}, Enqueues(other)'
       PROVE  Unborn(other)'
  <2>1. Unborn(other) /\ Enqueues(other) /\ call'[other] = call[other]
    BY <1>11, <1>13 DEF LifeInv
  <2> QED
    BY <1>0, <1>3, <1>9, <1>10, <1>11, <2>1 DEF Unborn
<1> QED
  BY <1>0, <1>6, <1>12, <1>13 DEF LifeInv

\* An enqueue is written: from then on its id is the log's.
LEMMA AppendEnqueueLife ==
    ASSUME LifeInv, GrantInv, NEW t \in Clients, AppendRequest(t), Enqueues(t)
    PROVE  LifeInv'
<1> DEFINE event == call[t].event
<1>1. /\ t \in Threads /\ call[t].pc = "append" /\ log' = AppendEvent(log, event)
      /\ UNCHANGED <<mode, mem, clock>>
  BY DEF AppendRequest, WriteLog, Threads
<1>2. event.op = "enqueue" /\ event \in Event
  BY <1>1 DEF Enqueues, LifeInv, LifeType, CallTyped
<1>3. /\ call'[t] = [pc |-> "apply", event |-> event]
      /\ \A other \in Threads \ {t} : call'[other] = call[other]
  BY <1>1, <1>2 DEF AppendRequest, GrantInv, Shapes
<1> HIDE DEF event
<1>4. call'[t].pc = "apply" /\ call'[t].event = event
  BY <1>3
<1>5. EnqueuedIds(ToSet(log'.events)) = EnqueuedIds(ToSet(log.events)) \cup {event.id}
  BY <1>1, <1>2, IdsWritten DEF GrantInv
<1>6. /\ log'.events \in Seq(Event)
      /\ log'.deleted \in 0..Len(log'.events)
      /\ Len(log.events) \in Nat
      /\ Len(log'.events) = Len(log.events) + 1
  BY <1>1, <1>2, TypedWrite DEF LifeInv, GrantInv
<1>7. CallTyped(t)'
  BY <1>2, <1>4 DEF CallTyped
<1>8. \A other \in Threads : CallTyped(other)'
  BY <1>1, <1>3, <1>6, <1>7, OthersTyped
<1>9. LifeType'
  BY <1>1, <1>6, <1>8 DEF LifeInv, LifeType
<1>10. Unborn(t)
  BY <1>1 DEF LifeInv
<1>11. \A other \in Threads \ {t} : Enqueues(other)' => Enqueues(other) /\ call'[other] = call[other]
  BY <1>3 DEF Enqueues, Busy
<1>12. Unborn(t)'
  BY <1>1, <1>4, <1>5, <1>10, <1>11 DEF Unborn, event
<1>13. ASSUME NEW other \in Threads \ {t}, Enqueues(other)'
       PROVE  Unborn(other)'
  <2>1. Unborn(other) /\ Enqueues(other) /\ call'[other] = call[other]
    BY <1>11, <1>13 DEF LifeInv
  <2>2. call[other].event.id # event.id
    BY <1>1, <1>10, <2>1 DEF Unborn, event
  <2>3. \A third \in Threads \ {other} : Enqueues(third)' =>
            Enqueues(third) /\ call'[third].event = call[third].event
    BY <1>1, <1>4, <1>11 DEF event
  <2> QED
    BY <1>1, <1>5, <2>1, <2>2, <2>3 DEF Unborn
<1>14. Live(mem') \subseteq EnqueuedIds(ToSet(log'.events)) /\ WellKept(mem')
  BY <1>1, <1>5 DEF LifeInv
<1> QED
  BY <1>1, <1>9, <1>12, <1>13, <1>14 DEF LifeInv

LEMMA AppendOtherLife ==
    ASSUME LifeInv, GrantInv, NEW t \in Clients, AppendRequest(t), ~Enqueues(t)
    PROVE  LifeInv'
<1> DEFINE event == call[t].event
<1>1. /\ t \in Threads /\ call[t].pc = "append" /\ log' = AppendEvent(log, event)
      /\ UNCHANGED <<mode, mem, clock>>
  BY DEF AppendRequest, WriteLog, Threads
<1>2. event.op \notin {"enqueue", "expire", "purge"} /\ event \in Event
  BY <1>1 DEF Enqueues, Busy, LifeInv, LifeType, CallTyped
<1>3. /\ call'[t] = Idle \/ call'[t] = [pc |-> "apply", event |-> event]
      /\ \A other \in Threads \ {t} : call'[other] = call[other]
  BY <1>1, <1>2 DEF AppendRequest, GrantInv, Shapes
<1> HIDE DEF event
<1>4. CallTyped(t)' /\ ~Enqueues(t)'
  <2>1. CASE call'[t] = Idle
    BY <2>1 DEF CallTyped, Enqueues, Busy, Idle
  <2>2. CASE call'[t] = [pc |-> "apply", event |-> event]
    <3>1. call'[t].pc = "apply" /\ call'[t].event = event
      BY <2>2
    <3> QED
      BY <1>2, <3>1 DEF CallTyped, Enqueues
  <2> QED
    BY <1>3, <2>1, <2>2
<1> QED
  BY <1>1, <1>2, <1>3, <1>4, WritingStep DEF GrantInv

\* A call that goes away, without its write.
LEMMA AppendFailsLife ==
    ASSUME LifeInv, GrantInv, NEW t \in Clients, AppendRequestFails(t)
    PROVE  LifeInv'
<1>1. /\ t \in Threads /\ call'[t] = Idle
      /\ \A other \in Threads \ {t} : call'[other] = call[other]
      /\ UNCHANGED <<mode, mem, log, clock>>
  BY DEF AppendRequestFails, GrantInv, Shapes, Threads
<1>2. CallTyped(t)' /\ ~Enqueues(t)'
  BY <1>1 DEF CallTyped, Enqueues, Busy, Idle
<1> QED
  BY <1>1, <1>2, SilentStep DEF LifeInv, LifeType

LEMMA HeartbeatLife ==
    ASSUME LifeInv, GrantInv, NEW t \in Clients, Heartbeat(t)
    PROVE  LifeInv'
<1>1. PICK held \in Granted, ttl \in Ttls : mem' = ExtendLease(mem, held[1], held[2], clock + ttl)
  BY DEF Heartbeat
<1>2. held[1] \in JobIds /\ clock + ttl \in Int
  BY GrantedType, ClockType, BoundsAssumption DEF LifeInv
<1>3. WellKept(mem')
  BY <1>1, <1>2, ExtendWellKept DEF LifeInv
<1>4. Live(mem') \subseteq Live(mem)
  BY <1>1, <1>2 DEF ExtendLease, CheckLease, Put, Live
<1>5. t \in Threads /\ UNCHANGED <<mode, log, clock, call>> /\ call[t] = Idle
  BY DEF Heartbeat, Request, CanBegin, Threads
<1>6. CallTyped(t)' /\ ~Enqueues(t)'
  BY <1>5 DEF CallTyped, Enqueues, Busy, Idle
<1> QED
  BY <1>3, <1>4, <1>5, <1>6, SilentStep DEF LifeInv, LifeType

\* A write to a job that is there adds none.
LEMMA PutLive ==
    ASSUME NEW s \in SpaceType, NEW id \in Live(s), NEW job, NEW pending
    PROVE  Live(Put(s, id, job, pending)) \subseteq Live(s)
<1>1. Put(s, id, job, pending).jobs = [s.jobs EXCEPT ![id] = job]
  BY DEF Put
<1>2. DOMAIN s.jobs = JobIds
  BY DEF SpaceType
<1> QED
  BY <1>1, <1>2 DEF Live

\* What an event makes of a well-kept space, when it is not a claim.
LEMMA ApplyWellKept ==
    ASSUME NEW s, WellKept(s), NEW e \in Event, e.op \notin {"claim", "expire", "purge"},
           e.op = "enqueue" => e.id \notin Live(s)
    PROVE  /\ WellKept(Apply(s, e))
           /\ Live(Apply(s, e)) \subseteq Live(s) \cup (IF e.op = "enqueue" THEN {e.id} ELSE {})
<1>1. e.id \in JobIds /\ e.ts \in Int
  BY DEF Event
<1>2. e.op \in {"enqueue", "complete", "fail", "cancel", "retry"}
  BY DEF Event
<1>3. e.op \in {"complete", "fail"} => e.lease \in Payloads
  BY DEF Event, Payloads
<1>4. e.op = "enqueue" => e.job_type \in JobTypes /\ e.max_retries \in 0..MaxU8
  BY DEF Event
<1> HIDE DEF Event
<1>5. CASE e.op = "enqueue"
  <2>1. Apply(s, e) = EnqueueWithId(s, e.id, e.job_type, e.max_retries, e.ts)
    BY <1>5 DEF Apply
  <2>2. WellKept(Apply(s, e))
    BY <1>1, <1>4, <1>5, <2>1, EnqueueWellKept
  <2>3. Apply(s, e).jobs = [s.jobs EXCEPT ![e.id] = NewJob(e.job_type, e.max_retries, e.ts)]
    BY <2>1 DEF EnqueueWithId, Put
  <2>4. DOMAIN s.jobs = JobIds
    BY DEF WellKept, SpaceType
  <2> QED
    BY <1>5, <2>2, <2>3, <2>4 DEF Live
<1>6. CASE e.op = "complete"
  <2>1. Apply(s, e) = CompleteJob(s, e.id, e.lease, e.lease, e.ts)
    BY <1>6 DEF Apply
  <2>2. \/ Apply(s, e) = s
        \/ e.id \in Live(s) /\ \E job, pending : Apply(s, e) = Put(s, e.id, job, pending)
    BY <1>1, <2>1 DEF CompleteJob, CheckLease, Live
  <2>3. Live(Apply(s, e)) \subseteq Live(s)
    BY <2>2, PutLive DEF WellKept
  <2>4. WellKept(Apply(s, e))
    BY <1>1, <1>3, <1>6, <2>1, CompleteWellKept
  <2> QED
    BY <2>3, <2>4
<1>7. CASE e.op = "fail"
  <2>1. Apply(s, e) = FailJob(s, e.id, e.lease, e.lease, e.ts)
    BY <1>7 DEF Apply
  <2>2. \/ Apply(s, e) = s
        \/ e.id \in Live(s) /\ \E job, pending : Apply(s, e) = Put(s, e.id, job, pending)
    BY <1>1, <2>1 DEF FailJob, CheckLease, Live
  <2>3. Live(Apply(s, e)) \subseteq Live(s)
    BY <2>2, PutLive DEF WellKept
  <2>4. WellKept(Apply(s, e))
    BY <1>1, <1>3, <1>7, <2>1, FailWellKept
  <2> QED
    BY <2>3, <2>4
<1>8. CASE e.op = "cancel"
  <2>1. Apply(s, e) = CancelJob(s, e.id, e.ts)
    BY <1>8 DEF Apply
  <2>2. \/ Apply(s, e) = s
        \/ e.id \in Live(s) /\ \E job, pending : Apply(s, e) = Put(s, e.id, job, pending)
    BY <1>1, <2>1 DEF CancelJob, List
  <2>3. Live(Apply(s, e)) \subseteq Live(s)
    BY <2>2, PutLive DEF WellKept
  <2>4. WellKept(Apply(s, e))
    BY <1>1, <1>8, <2>1, CancelWellKept
  <2> QED
    BY <2>3, <2>4
<1>9. CASE e.op = "retry"
  <2>1. Apply(s, e) = RetryJob(s, e.id)
    BY <1>9 DEF Apply
  <2>2. \/ Apply(s, e) = s
        \/ e.id \in Live(s) /\ \E job, pending : Apply(s, e) = Put(s, e.id, job, pending)
    BY <1>1, <2>1 DEF RetryJob, List
  <2>3. Live(Apply(s, e)) \subseteq Live(s)
    BY <2>2, PutLive DEF WellKept
  <2>4. WellKept(Apply(s, e))
    BY <1>1, <1>9, <2>1, RetryWellKept
  <2> QED
    BY <2>3, <2>4
<1> QED
  BY <1>2, <1>5, <1>6, <1>7, <1>8, <1>9

LEMMA ApplyLife ==
    ASSUME LifeInv, GrantInv, NEW t \in Clients, ApplyRequest(t)
    PROVE  LifeInv'
<1> DEFINE event == call[t].event
<1>1. /\ t \in Threads /\ t \in Busy /\ call[t].pc = "apply" /\ call'[t] = Idle
      /\ \A other \in Threads \ {t} : call'[other] = call[other]
      /\ UNCHANGED <<mode, log, clock>>
      /\ mem' = Apply(mem, event)
  BY DEF ApplyRequest, GrantInv, Shapes, Threads, Busy
<1>2. event \in Event /\ event.op \notin {"claim", "expire", "purge"}
  BY <1>1 DEF LifeInv, LifeType, CallTyped, GrantInv, ClaimFresh
<1>3. event.op = "enqueue" => Unborn(t)
  BY <1>1 DEF LifeInv, Enqueues
<1>4. WellKept(mem) /\ (event.op = "enqueue" => event.id \notin Live(mem))
  BY <1>3 DEF Unborn, LifeInv
<1>5. /\ WellKept(mem')
      /\ Live(mem') \subseteq Live(mem) \cup (IF event.op = "enqueue" THEN {event.id} ELSE {})
  <2> HIDE DEF event
  <2> QED
    BY <1>1, <1>2, <1>4, ApplyWellKept
<1>6. CallTyped(t)' /\ ~Enqueues(t)'
  BY <1>1 DEF CallTyped, Enqueues, Busy, Idle
<1>7. CASE event.op # "enqueue"
  BY <1>1, <1>5, <1>6, <1>7, SilentStep DEF LifeInv, LifeType
<1>8. CASE event.op = "enqueue"
  <2>1. Live(mem') \subseteq EnqueuedIds(ToSet(log'.events))
    BY <1>1, <1>3, <1>5, <1>8 DEF LifeInv, Unborn
  <2>2. LifeType'
    BY <1>1, <1>6 DEF LifeInv, LifeType, CallTyped
  <2>3. ASSUME NEW other \in Threads, Enqueues(other)'
        PROVE  Unborn(other)'
    <3>1. other # t /\ Enqueues(other) /\ Unborn(other) /\ call'[other] = call[other]
      BY <1>1, <1>6, <2>3 DEF LifeInv, Enqueues, Busy
    <3>2. call[other].event.id # event.id
      BY <1>1, <1>3, <1>8, <3>1 DEF Unborn
    <3>3. \A third \in Threads : Enqueues(third)' => Enqueues(third) /\ call'[third] = call[third]
      BY <1>1, <1>6 DEF Enqueues, Busy
    <3> QED
      BY <1>1, <1>5, <3>1, <3>2, <3>3 DEF Unborn
  <2> QED
    BY <1>5, <2>1, <2>2, <2>3 DEF LifeInv
<1> QED
  BY <1>7, <1>8

-----------------------------------------------------------------------------
(* Tasks.                                                                  *)

\* A release changes no job but those it is given.
LEMMA ReleaseLive ==
    ASSUME WellKept(mem), NEW ids \in SUBSET List(mem, "claimed")
    PROVE  Live(Release(mem, ids)) \subseteq Live(mem)
<1>1. Release(mem, ids).jobs = [id \in JobIds |-> IF id \in ids THEN Requeued(mem.jobs[id]) ELSE mem.jobs[id]]
  BY DEF Release
<1>2. ids \subseteq Live(mem)
  BY DEF List
<1> QED
  BY <1>1, <1>2 DEF Live

LEMMA RemoveLive ==
    ASSUME WellKept(mem), NEW id \in JobIds
    PROVE  Live(RemoveJob(mem, id)) \subseteq Live(mem)
<1>1. \/ RemoveJob(mem, id) = mem
      \/ id \in Live(mem) /\ \E pending : RemoveJob(mem, id) = Put(mem, id, NoJob, pending)
  BY DEF RemoveJob
<1> QED
  BY <1>1, PutLive DEF WellKept

\* A task begins: what it lists are jobs, and the time is a time.
LEMMA TaskBeginsLife ==
    ASSUME LifeInv, GrantInv, BeginReap \/ BeginShutdown \/ BeginCleanup
    PROVE  LifeInv'
<1>1. PICK t \in Tasks : \/ t = Reaper /\ BeginReap
                         \/ t = Main /\ BeginShutdown
                         \/ t = Cleaner /\ BeginCleanup
  BY DEF BeginReap, BeginShutdown, BeginCleanup
<1>2. t \in Threads /\ call = [other \in Threads |-> call[other]]
  BY DEF Threads, GrantInv, Shapes
<1>3. Expired(mem, clock) \subseteq JobIds /\ List(mem, "claimed") \subseteq JobIds /\ Purgeable \subseteq JobIds
  BY DEF Expired, List, Live, Purgeable
<1>4. \E pc \in {"release", "purge"}, todo \in SUBSET JobIds :
          call'[t].pc = pc /\ call'[t].todo = todo /\ call'[t].ts = clock
  <2>1. CASE t = Reaper /\ BeginReap
    BY <1>2, <1>3, <2>1 DEF BeginReap, BeginRelease
  <2>2. CASE t = Main /\ BeginShutdown
    BY <1>2, <1>3, <2>2 DEF BeginShutdown, BeginRelease
  <2>3. CASE t = Cleaner /\ BeginCleanup
    BY <1>2, <1>3, <2>3 DEF BeginCleanup
  <2> QED
    BY <1>1, <2>1, <2>2, <2>3
<1>5. /\ \A other \in Threads \ {t} : call'[other] = call[other]
      /\ UNCHANGED <<mem, log, clock>>
      /\ mode' \in {mode, "closing"}
  BY <1>1, <1>2 DEF BeginReap, BeginShutdown, BeginCleanup, BeginRelease
<1>6. CallTyped(t)' /\ ~Enqueues(t)'
  BY <1>4, ClockType DEF CallTyped, Enqueues, Busy
<1> QED
  BY <1>2, <1>5, <1>6, SilentStep DEF LifeInv, LifeType

LEMMA AppendExpireLife ==
    ASSUME LifeInv, GrantInv, NEW t \in Tasks, AppendExpire(t)
    PROVE  LifeInv'
<1>1. PICK id \in call[t].todo :
          /\ call' = [call EXCEPT ![t].todo = @ \ {id}]
          /\ \/ log' = AppendEvent(log, [op |-> "expire", id |-> id, ts |-> call[t].ts])
             \/ log' = log
  BY DEF AppendExpire, WriteLog
<1>2. t \in Threads /\ call[t].pc = "release" /\ UNCHANGED <<mode, mem, clock>>
  BY DEF AppendExpire, Threads
<1>3. call[t].todo \subseteq JobIds /\ call[t].ts \in Int
  BY <1>2 DEF LifeInv, LifeType, CallTyped
<1>4. /\ call'[t] = [call[t] EXCEPT !.todo = call[t].todo \ {id}]
      /\ \A other \in Threads \ {t} : call'[other] = call[other]
  BY <1>1, <1>2 DEF GrantInv, Shapes
<1>5. call'[t].pc = "release" /\ call'[t].ts = call[t].ts
  BY <1>2, <1>4
<1>6. call'[t].todo \subseteq call[t].todo
  <2>1. CASE "todo" \in DOMAIN call[t]
    BY <1>4, <2>1
  <2>2. CASE "todo" \notin DOMAIN call[t]
    BY <1>4, <2>2
  <2> QED
    BY <2>1, <2>2
<1>7. CallTyped(t)' /\ ~Enqueues(t)'
  BY <1>3, <1>5, <1>6 DEF CallTyped, Enqueues, Busy
<1>8. CASE log' = log
  BY <1>2, <1>4, <1>7, <1>8, SilentStep DEF LifeInv, LifeType
<1>9. CASE log' = AppendEvent(log, [op |-> "expire", id |-> id, ts |-> call[t].ts])
  <2> DEFINE event == [op |-> "expire", id |-> id, ts |-> call[t].ts]
  <2>1. event \in Event /\ event.op # "enqueue"
    BY <1>3 DEF Event
  <2> HIDE DEF event
  <2>2. log' = AppendEvent(log, event)
    BY <1>9 DEF event
  <2> QED
    BY <1>2, <1>4, <1>7, <2>1, <2>2, WritingStep DEF GrantInv
<1> QED
  BY <1>1, <1>8, <1>9

LEMMA FinishReleaseLife ==
    ASSUME LifeInv, GrantInv, NEW t \in Tasks, FinishRelease(t)
    PROVE  LifeInv'
<1>1. /\ t \in Threads
      /\ mem' = Release(mem, Expired(mem, call[t].until))
      /\ UNCHANGED <<mode, log, clock>>
      /\ call' = [call EXCEPT ![t] = IF t = Main THEN [pc |-> "max_seq"] ELSE Idle]
  BY DEF FinishRelease, ExpireLeases, Threads
<1>2. Expired(mem, call[t].until) \in SUBSET List(mem, "claimed")
  BY DEF Expired
<1>3. WellKept(mem') /\ Live(mem') \subseteq Live(mem)
  BY <1>1, <1>2, ReleaseWellKept, ReleaseLive DEF LifeInv
<1>4. /\ call'[t].pc \in {"max_seq", "idle"}
      /\ \A other \in Threads \ {t} : call'[other] = call[other]
  BY <1>1 DEF GrantInv, Shapes, Idle
<1>5. CallTyped(t)' /\ ~Enqueues(t)'
  BY <1>4 DEF CallTyped, Enqueues, Busy
<1> QED
  BY <1>1, <1>3, <1>4, <1>5, SilentStep DEF LifeInv, LifeType

LEMMA AppendPurgeLife ==
    ASSUME LifeInv, GrantInv, AppendPurge
    PROVE  LifeInv'
<1>1. PICK id \in call[Cleaner].todo :
          /\ log' = AppendEvent(log, [op |-> "purge", id |-> id, ts |-> call[Cleaner].ts])
          /\ call' = [call EXCEPT ![Cleaner] = [pc |-> "remove", id |-> id,
                                                todo |-> @.todo \ {id}, ts |-> @.ts]]
  BY DEF AppendPurge, WriteLog
<1>2. Cleaner \in Threads /\ call[Cleaner].pc = "purge" /\ UNCHANGED <<mode, mem, clock>>
  BY DEF AppendPurge, Threads
<1>3. call[Cleaner].todo \subseteq JobIds /\ call[Cleaner].ts \in Int
  BY <1>2 DEF LifeInv, LifeType, CallTyped
<1>4. /\ call'[Cleaner] = [pc |-> "remove", id |-> id,
                           todo |-> call[Cleaner].todo \ {id}, ts |-> call[Cleaner].ts]
      /\ \A other \in Threads \ {Cleaner} : call'[other] = call[other]
  BY <1>1, <1>2 DEF GrantInv, Shapes
<1>5. CallTyped(Cleaner)' /\ ~Enqueues(Cleaner)'
  <2>1. /\ call'[Cleaner].pc = "remove" /\ call'[Cleaner].id = id /\ call'[Cleaner].ts = call[Cleaner].ts
        /\ call'[Cleaner].todo = call[Cleaner].todo \ {id}
    BY <1>4
  <2> QED
    BY <1>3, <2>1 DEF CallTyped, Enqueues, Busy
<1> DEFINE event == [op |-> "purge", id |-> id, ts |-> call[Cleaner].ts]
<1>6. event \in Event /\ event.op # "enqueue"
  BY <1>3 DEF Event
<1> HIDE DEF event
<1>7. log' = AppendEvent(log, event)
  BY <1>1 DEF event
<1> QED
  BY <1>2, <1>4, <1>5, <1>6, <1>7, WritingStep DEF GrantInv

LEMMA RemovePurgedLife ==
    ASSUME LifeInv, GrantInv, RemovePurged
    PROVE  LifeInv'
<1>1. /\ Cleaner \in Threads /\ call[Cleaner].pc = "remove"
      /\ mem' = RemoveJob(mem, call[Cleaner].id)
      /\ UNCHANGED <<mode, log, clock>>
  BY DEF RemovePurged, Threads
<1>2. call[Cleaner].id \in JobIds /\ call[Cleaner].todo \subseteq JobIds /\ call[Cleaner].ts \in Int
  BY <1>1 DEF LifeInv, LifeType, CallTyped
<1>3. WellKept(mem') /\ Live(mem') \subseteq Live(mem)
  BY <1>1, <1>2, RemoveWellKept, RemoveLive DEF LifeInv
<1>4. /\ call'[Cleaner] = [pc |-> "purge", todo |-> call[Cleaner].todo, ts |-> call[Cleaner].ts]
      /\ \A other \in Threads \ {Cleaner} : call'[other] = call[other]
  BY <1>1 DEF RemovePurged, GrantInv, Shapes
<1>5. CallTyped(Cleaner)' /\ ~Enqueues(Cleaner)'
  <2>1. /\ call'[Cleaner].pc = "purge" /\ call'[Cleaner].ts = call[Cleaner].ts
        /\ call'[Cleaner].todo = call[Cleaner].todo
    BY <1>4
  <2> QED
    BY <1>2, <2>1 DEF CallTyped, Enqueues, Busy
<1> QED
  BY <1>1, <1>3, <1>4, <1>5, SilentStep DEF LifeInv, LifeType

\* The steps of a clean-up or of the last snapshot that change neither space
\* nor events.
LEMMA SnapshotLife ==
    ASSUME LifeInv, GrantInv, NEW t \in Threads,
           \/ t = Cleaner /\ FinishPurge
           \/ ReadMaxSeq(t)
           \/ ListJobs(t)
           \/ Save(t)
           \/ Truncate(t)
           \/ TaskFails(t)
    PROVE  LifeInv'
<1>1. call = [other \in Threads |-> call[other]] /\ CallTyped(t) /\ Len(log.events) \in Nat
  <2> HIDE DEF Event
  <2> QED
    BY DEF GrantInv, Shapes, LifeInv, LifeType
<1>2. PICK E, D, S : log \in [events : Seq(E), deleted : D, snapshots : S]
  BY DEF GrantInv, Shapes
<1>3. mem' = mem /\ clock' = clock /\ mode' \in {mode, "exiting"}
  BY DEF FinishPurge, ReadMaxSeq, ListJobs, Save, Truncate, TaskFails, Leave
<1>4. /\ \A other \in Threads \ {t} : call'[other] = call[other]
      /\ \/ call'[t].pc \in {"idle", "max_seq"}
         \/ call'[t].pc \in {"list", "save", "truncate"} /\ call'[t].seq \in 0..Len(log.events)
  <2>1. CASE t = Cleaner /\ FinishPurge
    BY <1>1, <2>1 DEF FinishPurge
  <2>2. CASE ReadMaxSeq(t)
    <3>1. MaxSeq(log) \in 0..Len(log.events)
      BY <1>1 DEF MaxSeq
    <3> QED
      BY <1>1, <2>2, <3>1 DEF ReadMaxSeq
  <2>3. CASE ListJobs(t)
    <3>1. /\ call'[t] = [pc |-> "save", seq |-> call[t].seq, ts |-> call[t].ts, jobs |-> mem.jobs]
          /\ \A other \in Threads \ {t} : call'[other] = call[other]
      BY <1>1, <2>3 DEF ListJobs
    <3>2. call'[t].pc = "save" /\ call'[t].seq = call[t].seq
      BY <3>1
    <3> QED
      BY <1>1, <2>3, <3>1, <3>2 DEF ListJobs, CallTyped
  <2>4. CASE Save(t)
    <3>1. /\ call'[t] = [pc |-> "truncate", seq |-> call[t].seq]
          /\ \A other \in Threads \ {t} : call'[other] = call[other]
      BY <1>1, <2>4 DEF Save
    <3>2. call'[t].pc = "truncate" /\ call'[t].seq = call[t].seq
      BY <3>1
    <3> QED
      BY <1>1, <2>4, <3>1, <3>2 DEF Save, CallTyped
  <2>5. CASE Truncate(t) \/ TaskFails(t)
    BY <1>1, <2>5 DEF Truncate, TaskFails, Leave, Idle
  <2> QED
    BY <2>1, <2>2, <2>3, <2>4, <2>5
<1>5. log'.events = log.events /\ log'.deleted \in 0..Len(log.events)
  <2>1. CASE Truncate(t)
    <3>1. log' = [log EXCEPT !.deleted = IF call[t].seq > log.deleted THEN call[t].seq ELSE log.deleted]
      BY <1>2, <2>1 DEF Truncate, WriteLog, TruncateBefore
    <3>2. call[t].seq \in 0..Len(log.events)
      BY <1>1, <2>1 DEF Truncate, CallTyped
    <3> QED
      BY <1>2, <3>1, <3>2 DEF LifeInv, LifeType
  <2>2. CASE Save(t)
    <3>1. PICK rows : log' = [log EXCEPT !.snapshots = rows]
      BY <2>2 DEF Save, WriteLog, SaveSnapshot
    <3> QED
      BY <1>2, <3>1 DEF LifeInv, LifeType
  <2>3. CASE log' = log
    BY <2>3 DEF LifeInv, LifeType
  <2> QED
    BY <2>1, <2>2, <2>3 DEF FinishPurge, ReadMaxSeq, ListJobs, TaskFails
<1>6. CallTyped(t)' /\ ~Enqueues(t)'
  <2>1. CASE call'[t].pc \in {"idle", "max_seq"}
    BY <2>1 DEF CallTyped, Enqueues, Busy
  <2>2. CASE call'[t].pc \in {"list", "save", "truncate"} /\ call'[t].seq \in 0..Len(log.events)
    BY <1>5, <2>2 DEF CallTyped, Enqueues, Busy
  <2> QED
    BY <1>4, <2>1, <2>2
<1> QED
  BY <1>3, <1>4, <1>5, <1>6, SilentStep DEF LifeInv, LifeType

\* Time passes, or nothing happens.
LEMMA WorldLife ==
    ASSUME LifeInv, Tick \/ UNCHANGED vars
    PROVE  LifeInv'
<1>1. UNCHANGED <<mode, mem, log, call>>
  BY DEF Tick, vars
<1>2. clock' \in Times
  BY BoundsAssumption DEF Tick, vars, Times, LifeInv, LifeType
<1>3. LifeType'
  BY <1>1, <1>2 DEF LifeInv, LifeType, CallTyped
<1>4. \A t \in Threads : Enqueues(t)' => Unborn(t)'
  BY <1>1 DEF LifeInv, Enqueues, Busy, Unborn
<1> QED
  BY <1>1, <1>3, <1>4 DEF LifeInv

LEMMA LifeNext ==
    ASSUME LifeInv, GrantInv, [Next /\ mode' # "down"]_vars
    PROVE  LifeInv'
<1>1. ASSUME NEW t \in Clients, \/ BeginEnqueue(t) \/ BeginClaim(t) \/ BeginComplete(t)
                                \/ BeginFail(t) \/ BeginCancel(t) \/ BeginRetry(t)
      PROVE  LifeInv'
  BY <1>1, BeginEnqueueLife, BeginClaimLife, BeginReportLife, BeginOperatorLife
<1>2. ASSUME NEW t \in Clients, \/ Heartbeat(t) \/ AppendRequest(t) \/ AppendRequestFails(t)
                                \/ ApplyRequest(t)
      PROVE  LifeInv'
  BY <1>2, HeartbeatLife, AppendEnqueueLife, AppendOtherLife, AppendFailsLife, ApplyLife
<1>3. CASE BeginReap \/ BeginShutdown \/ BeginCleanup
  BY <1>3, TaskBeginsLife
<1>4. CASE AppendPurge \/ RemovePurged
  BY <1>4, AppendPurgeLife, RemovePurgedLife
<1>5. CASE FinishPurge
  <2>1. Cleaner \in Threads
    BY <1>5 DEF FinishPurge, Threads
  <2> QED
    BY <1>5, <2>1, SnapshotLife
<1>6. ASSUME NEW t \in Tasks, AppendExpire(t) \/ FinishRelease(t)
      PROVE  LifeInv'
  BY <1>6, AppendExpireLife, FinishReleaseLife
<1>7. ASSUME NEW t \in Tasks, \/ ReadMaxSeq(t) \/ ListJobs(t) \/ Save(t)
                              \/ Truncate(t) \/ TaskFails(t)
      PROVE  LifeInv'
  <2>1. t \in Threads
    BY DEF Threads
  <2> QED
    BY <1>7, <2>1, SnapshotLife
<1>8. CASE Tick \/ UNCHANGED vars
  BY <1>8, WorldLife
<1>9. CASE (Exit \/ Crash) /\ mode' # "down"
  BY <1>9 DEF Exit, Crash, Stop
<1>10. CASE Open
  BY <1>10 DEF Open, LifeInv, LifeType
<1> QED
  BY <1>1, <1>2, <1>3, <1>4, <1>5, <1>6, <1>7, <1>8, <1>9, <1>10 DEF Next

-----------------------------------------------------------------------------
(* Theorems about the life of one process.                                 *)

LEMMA OneLifeIsRun == OneLife => Spec
<1>1. [Next /\ mode' # "down"]_vars => [Next]_vars
  OBVIOUS
<1> QED
  BY <1>1, PTL DEF OneLife, Spec

\* From the first start to the last step of a process, the space is well kept
\* and the calls under way are sound, however their pieces interleave.
THEOREM LifeInvariance == OneLife => []LifeInv
<1>1. Init => LifeInv
  BY LifeInit
<1>2. LifeInv /\ GrantInv /\ [Next /\ mode' # "down"]_vars => LifeInv'
  BY LifeNext
<1> QED
  BY <1>1, <1>2, OneLifeIsRun, GrantInvariance, PTL DEF OneLife

\* Every variable keeps its type, for any number of threads.
THEOREM LifeTypes == OneLife => []TypeOK
<1>1. LifeInv /\ GrantInv => TypeOK
  <2> SUFFICES ASSUME LifeInv, GrantInv
               PROVE  TypeOK
    OBVIOUS
  <2>1. ASSUME NEW t \in Threads
        PROVE  UNION {Pending(t)} \subseteq Event
    <3>1. t \in Busy => call[t].event \in Event
      BY DEF LifeInv, LifeType, CallTyped, Busy
    <3>2. Pending(t) \subseteq Event
      BY <3>1 DEF Pending, Busy
    <3> HIDE DEF Event
    <3> QED
      BY <3>2
  <2>2. mode \in {"serving", "closing", "exiting"}
    BY DEF LifeInv, LifeType
  <2>3. DOMAIN call = Threads
    BY DEF GrantInv, Shapes
  <2>4. mem \in SpaceType /\ log.events \in Seq(Event) /\ log.deleted \in 0..Len(log.events) /\ clock \in Times
    BY DEF LifeInv, LifeType, WellKept
  <2> HIDE DEF Event
  <2> QED
    BY <2>1, <2>2, <2>3, <2>4 DEF TypeOK
<1> QED
  BY <1>1, LifeInvariance, GrantInvariance, OneLifeIsRun, PTL

\* The sorted index holds exactly the pending jobs, and a lease is one job's,
\* while calls of several threads are cut in pieces (persistent_space.rs:59-185).
THEOREM MemoryWellKept == OneLife => [](IndexExact(mem) /\ LeaseExclusive(mem))
<1>1. LifeInv => IndexExact(mem) /\ LeaseExclusive(mem)
  BY DEF LifeInv, WellKept
<1> QED
  BY <1>1, LifeInvariance, PTL

\* No job is run more often than its budget allows, when reports, expiries
\* and retries of it overlap (space.rs:102-115, persistent_space.rs:81-104).
THEOREM MemoryRetriesBounded == OneLife => []RetriesBounded
<1>1. LifeInv => RetriesBounded
  BY DEF LifeInv, WellKept, RetriesBounded
<1> QED
  BY <1>1, LifeInvariance, PTL

\* Whether a report is refused before it is logged or after, the worker is
\* told the same: the lease is Some exactly while the job is claimed.
THEOREM ReportsAlike == OneLife => []ReportsAnsweredAlike
<1>1. LifeInv => ReportsAnsweredAlike
  <2> SUFFICES ASSUME LifeInv, NEW id \in JobIds, NEW lease \in LeaseIds
               PROVE  StatusCode(EarlyOutcome(mem, id, lease)) = StatusCode(ReportOutcome(mem, id, lease))
    BY DEF ReportsAnsweredAlike
  <2>1. CASE id \notin Live(mem)
    BY <2>1 DEF EarlyOutcome, ReportOutcome
  <2>2. CASE id \in Live(mem)
    <3>1. (mem.jobs[id].status = "claimed") <=> (mem.jobs[id].lease_id # Nil)
      BY <2>2 DEF LifeInv, WellKept, LeaseExclusive
    <3>2. id \notin List(mem, "claimed") => mem.jobs[id].lease_id # lease
      BY <2>2, <3>1, NilAssumption DEF List
    <3> QED
      BY <2>2, <3>2 DEF EarlyOutcome, ReportOutcome, StatusCode
  <2> QED
    BY <2>1, <2>2
<1> QED
  BY <1>1, LifeInvariance, PTL

-----------------------------------------------------------------------------
(* Who ends a run, when its report is in pieces.                           *)

LEMMA ClaimStepEndsNoRun ==
    ASSUME LifeInv, NEW t \in Clients, BeginClaim(t)
    PROVE  ReportedByHolder(mem, mem')
<1>1. PICK type \in JobTypes : \E key \in OldestKeys(mem, type),
          lease \in FreshLeases, ttl \in Ttls, worker \in Workers \cup {Nil} :
              mem' = ClaimKey(mem, key, lease, ttl, worker, clock)
  BY DEF BeginClaim
<1>2. PICK key \in mem.pending : \E lease \in FreshLeases, ttl \in Ttls, worker \in Workers \cup {Nil} :
              mem' = ClaimKey(mem, key, lease, ttl, worker, clock)
  BY <1>1 DEF OldestKeys
<1>3. PICK lease, ttl, worker : mem' = ClaimKey(mem, key, lease, ttl, worker, clock)
  BY <1>2
<1> QED
  BY <1>3, ClaimEndsNoRun DEF LifeInv, WellKept

LEMMA ApplyEndsByHolder ==
    ASSUME LifeInv, GrantInv, NEW t \in Clients, ApplyRequest(t)
    PROVE  ReportedByHolder(mem, mem')
<1> DEFINE event == call[t].event
<1>1. t \in Threads /\ call[t].pc = "apply" /\ t \in Busy /\ mem' = Apply(mem, event)
  BY DEF ApplyRequest, Threads, Busy
<1>2. event \in Event /\ event.op \notin {"claim", "expire", "purge"}
  BY <1>1 DEF LifeInv, LifeType, CallTyped, GrantInv, ClaimFresh
<1>3. event.id \in JobIds /\ event.op \in {"enqueue", "complete", "fail", "cancel", "retry"}
  BY <1>2 DEF Event
<1> HIDE DEF event
<1>4. mem \in SpaceType /\ WellKept(mem)
  BY DEF LifeInv, WellKept
<1>5. CASE event.op = "enqueue"
  BY <1>1, <1>3, <1>4, <1>5, NewJobEndsNoRun DEF Apply
<1>6. CASE event.op = "complete"
  BY <1>1, <1>3, <1>4, <1>6, ReportsByHolder DEF Apply
<1>7. CASE event.op = "fail"
  BY <1>1, <1>3, <1>4, <1>7, ReportsByHolder DEF Apply
<1>8. CASE event.op = "cancel"
  BY <1>1, <1>3, <1>4, <1>8, OthersEndNoRun DEF Apply
<1>9. CASE event.op = "retry"
  BY <1>1, <1>3, <1>4, <1>9, OthersEndNoRun DEF Apply
<1> QED
  BY <1>3, <1>5, <1>6, <1>7, <1>8, <1>9

\* The steps that change the space; the others change no job.
LEMMA StepEndsByHolder ==
    ASSUME LifeInv, GrantInv, [Next /\ mode' # "down"]_vars
    PROVE  ReportedByHolder(mem, mem')
<1>s. mem \in SpaceType /\ WellKept(mem)
  BY DEF LifeInv, WellKept
<1>1. ASSUME NEW t \in Clients, BeginClaim(t) \/ ApplyRequest(t)
      PROVE  ReportedByHolder(mem, mem')
  BY <1>1, ClaimStepEndsNoRun, ApplyEndsByHolder
<1>2. ASSUME NEW t \in Clients, Heartbeat(t)
      PROVE  ReportedByHolder(mem, mem')
  <2>1. PICK held \in Granted, ttl \in Ttls : mem' = ExtendLease(mem, held[1], held[2], clock + ttl)
    BY <1>2 DEF Heartbeat
  <2>2. held[1] \in JobIds
    BY GrantedType DEF LifeInv
  <2> QED
    BY <1>s, <2>1, <2>2, OthersEndNoRun
<1>3. ASSUME NEW t \in Tasks, FinishRelease(t)
      PROVE  ReportedByHolder(mem, mem')
  BY <1>s, <1>3, ReleaseEndsNoRun DEF FinishRelease, ExpireLeases, Expired
<1>4. CASE RemovePurged
  <2>1. Cleaner \in Threads /\ call[Cleaner].pc = "remove" /\ mem' = RemoveJob(mem, call[Cleaner].id)
    BY <1>4 DEF RemovePurged, Threads
  <2>2. call[Cleaner].id \in JobIds
    BY <2>1 DEF LifeInv, LifeType, CallTyped
  <2> QED
    BY <1>s, <2>1, <2>2, OthersEndNoRun
<1>5. CASE mem' = mem
  BY <1>5, StutterEndsNoRun
<1>6. CASE (Exit \/ Crash) /\ mode' # "down"
  BY <1>6 DEF Exit, Crash, Stop
<1>7. CASE Open
  BY <1>7 DEF Open, LifeInv, LifeType
<1>8. CASE BeginReap \/ BeginShutdown \/ BeginCleanup \/ AppendPurge \/ FinishPurge \/ Tick \/ UNCHANGED vars
  BY <1>5, <1>8 DEF BeginReap, BeginShutdown, BeginCleanup, AppendPurge, FinishPurge, Tick, vars
<1>9. ASSUME NEW t \in Clients,
             \/ BeginEnqueue(t) \/ BeginComplete(t) \/ BeginFail(t) \/ BeginCancel(t)
             \/ BeginRetry(t) \/ AppendRequest(t) \/ AppendRequestFails(t)
      PROVE  ReportedByHolder(mem, mem')
  BY <1>5, <1>9 DEF BeginEnqueue, BeginComplete, BeginFail, BeginReport, BeginCancel, BeginRetry,
                    AppendRequest, AppendRequestFails
<1>10. ASSUME NEW t \in Tasks,
              \/ AppendExpire(t) \/ ReadMaxSeq(t) \/ ListJobs(t) \/ Save(t) \/ Truncate(t)
              \/ TaskFails(t)
       PROVE  ReportedByHolder(mem, mem')
  BY <1>5, <1>10 DEF AppendExpire, ReadMaxSeq, ListJobs, Save, Truncate, TaskFails
<1> QED
  BY <1>1, <1>2, <1>3, <1>4, <1>6, <1>7, <1>8, <1>9, <1>10 DEF Next

\* A report is accepted from the holder of the lease only, also when it was
\* checked before the lease was taken back and is applied after
\* (persistent_space.rs:72-104).
THEOREM ReportsOfHolders == OneLife => HolderReports
<1>1. LifeInv /\ GrantInv /\ [Next /\ mode' # "down"]_vars => [ReportedByHolder(mem, mem')]_vars
  BY StepEndsByHolder
<1>2. ReportedByHolder(mem, mem') <=>
        \A id \in JobIds :
            /\ StatusOf(mem, id) = "claimed"
            /\ StatusOf(mem', id) \in {"done", "failed"}
            => mem.jobs[id].lease_id \in {mem'.jobs[id].result, mem'.jobs[id].error}
  BY DEF ReportedByHolder, StatusOf, List, Live
<1> QED
  BY <1>1, <1>2, LifeInvariance, GrantInvariance, OneLifeIsRun, PTL DEF OneLife, HolderReports

-----------------------------------------------------------------------------
(* That the space is kept well across crashes and restarts: in memory, in  *)
(* every snapshot taken, and in what a start would load at any point, with *)
(* any number of calls under way and writes that fail.                     *)
(*                                                                         *)
(* The space in memory alone is not inductive, since a start puts another  *)
(* in its place.  What lasts is in the log: which job each lease was given *)
(* to.  The invariant says that memory, the rows and the calls under way   *)
(* all agree with it, and ReplayProofs that whatever is then replayed over *)
(* whatever agrees too.                                                    *)

\* The row that a snapshot under way will write has a time.
RowTyped(t) == call[t].pc \in {"list", "save"} => call[t].ts \in Int

Lasting ==
    /\ mode \in {"serving", "closing", "exiting", "down"}
    /\ mode = "down" => InFlight = {} /\ mem = Empty
    /\ LogTyped(log)
    /\ clock \in Times
    /\ \A t \in Threads : CallTyped(t) /\ RowTyped(t)
    /\ recovered = Load(log)

\* A step saves no jobs but those of the space, and adds no events but these.
Carries(events) ==
    /\ SavedJobs' \subseteq SavedJobs \cup {mem.jobs}
    /\ KnownEvents' \subseteq KnownEvents \cup events
    /\ ToSet(log.events) \subseteq ToSet(log'.events)

-----------------------------------------------------------------------------
(* What the log may become.                                                *)

LEMMA LogLength ==
    ASSUME LogTyped(log)
    PROVE  Len(log.events) \in Nat /\ DOMAIN log.events = 1..Len(log.events)
<1> HIDE DEF Event
<1> QED
  BY DEF LogTyped

LEMMA EventWritten ==
    ASSUME Shapes, LogTyped(log), NEW event \in Event, log' = AppendEvent(log, event)
    PROVE  /\ LogTyped(log')
           /\ Len(log'.events) = Len(log.events) + 1
           /\ ToSet(log'.events) = ToSet(log.events) \cup {event}
           /\ log'.snapshots = log.snapshots
<1>1. PICK E, D, S : log \in [events : Seq(E), deleted : D, snapshots : S]
  BY DEF Shapes
<1>2. log'.events = Append(log.events, event) /\ ToSet(log'.events) = ToSet(log.events) \cup {event}
  BY LogWritten
<1>3. log'.deleted = log.deleted /\ log'.snapshots = log.snapshots
  BY <1>1 DEF AppendEvent
<1>4. log.events \in Seq(Event) /\ log.deleted \in 0..Len(log.events) /\ log.snapshots \in Seq(Snapshot)
  BY DEF LogTyped
<1> HIDE DEF Event, Snapshot
<1>5. Len(log.events) \in Nat /\ Len(log'.events) = Len(log.events) + 1 /\ log'.events \in Seq(Event)
  BY <1>2, <1>4
<1> QED
  BY <1>2, <1>3, <1>4, <1>5 DEF LogTyped

LEMMA OneMore ==
    ASSUME NEW S, NEW rows \in Seq(S), NEW row \in S
    PROVE  /\ Append(rows, row) \in Seq(S)
           /\ ToSet(Append(rows, row)) = ToSet(rows) \cup {row}
<1>1. /\ Len(rows) \in Nat
      /\ DOMAIN rows = 1..Len(rows)
      /\ DOMAIN Append(rows, row) = 1..(Len(rows) + 1)
      /\ \A i \in 1..Len(rows) : Append(rows, row)[i] = rows[i]
      /\ Append(rows, row)[Len(rows) + 1] = row
  OBVIOUS
<1> QED
  BY <1>1 DEF ToSet

LEMMA RowWritten ==
    ASSUME Shapes, LogTyped(log), NEW seq \in Nat, NEW ts \in Int,
           NEW jobs \in [JobIds -> Job \cup {NoJob}],
           log' = SaveSnapshot(log, seq, ts, jobs)
    PROVE  /\ LogTyped(log')
           /\ log'.events = log.events
           /\ log'.deleted = log.deleted
           /\ log'.snapshots = Append(log.snapshots, [seq |-> seq, ts |-> ts, jobs |-> jobs])
           /\ \A row \in ToSet(log'.snapshots) : row \in ToSet(log.snapshots) \/ row.jobs = jobs
<1> DEFINE row == [seq |-> seq, ts |-> ts, jobs |-> jobs]
<1>1. PICK E, D, S : log \in [events : Seq(E), deleted : D, snapshots : S]
  BY DEF Shapes
<1>2. /\ log'.events = log.events
      /\ log'.deleted = log.deleted
      /\ log'.snapshots = Append(log.snapshots, row)
  BY <1>1 DEF SaveSnapshot
<1>3. row \in Snapshot /\ row.jobs = jobs
  BY DEF Snapshot
<1>4. log.snapshots \in Seq(Snapshot)
  BY DEF LogTyped
<1> HIDE DEF Event, Snapshot, row
<1>5. log'.snapshots \in Seq(Snapshot) /\ ToSet(log'.snapshots) = ToSet(log.snapshots) \cup {row}
  BY <1>2, <1>3, <1>4, OneMore
<1> QED
  BY <1>2, <1>3, <1>5 DEF LogTyped, row

LEMMA PrefixDropped ==
    ASSUME Shapes, LogTyped(log), NEW seq \in 0..Len(log.events), log' = TruncateBefore(log, seq)
    PROVE  /\ LogTyped(log')
           /\ log'.events = log.events
           /\ log'.snapshots = log.snapshots
           /\ log'.deleted = IF seq > log.deleted THEN seq ELSE log.deleted
<1>1. PICK E, D, S : log \in [events : Seq(E), deleted : D, snapshots : S]
  BY DEF Shapes
<1> QED
  BY <1>1 DEF TruncateBefore, LogTyped

-----------------------------------------------------------------------------
(* One thread moves.                                                       *)

LEMMA ThreadLasts ==
    ASSUME Lasting, NEW t \in Threads, CallTyped(t)', RowTyped(t)',
           \A other \in Threads \ {t} : call'[other] = call[other],
           mode # "down" \/ call[t] # Idle, mode' \in {mode, "closing", "exiting"},
           clock' = clock, LogTyped(log'), Len(log.events) <= Len(log'.events),
           recovered' = Load(log')
    PROVE  Lasting'
<1>1. Len(log.events) \in Nat /\ Len(log'.events) \in Nat
  BY LogLength DEF Lasting, LogTyped
<1>2. mode # "down"
  BY DEF Lasting, InFlight
<1>3. ASSUME NEW other \in Threads
      PROVE  CallTyped(other)' /\ RowTyped(other)'
  <2>1. CASE other = t
    BY <2>1
  <2>2. CASE other # t
    <3>1. CallTyped(other) /\ RowTyped(other) /\ call'[other] = call[other]
      BY <2>2 DEF Lasting
    <3>2. \A seq \in 0..Len(log.events) : seq \in 0..Len(log'.events)
      BY <1>1
    <3> QED
      BY <3>1, <3>2 DEF CallTyped, RowTyped
  <2> QED
    BY <2>1, <2>2
<1> QED
  BY <1>2, <1>3 DEF Lasting

\* One that leaves the log as it is.
LEMMA QuietLasts ==
    ASSUME Lasting, NEW t \in Threads, CallTyped(t)', RowTyped(t)',
           \A other \in Threads \ {t} : call'[other] = call[other],
           mode # "down" \/ call[t] # Idle, mode' \in {mode, "closing", "exiting"},
           clock' = clock, log' = log, recovered' = recovered
    PROVE  Lasting'
<1>1. LogTyped(log') /\ recovered' = Load(log') /\ Len(log.events) <= Len(log'.events)
  BY LogLength DEF Lasting
<1> QED
  BY <1>1, ThreadLasts

LEMMA ThreadCarries ==
    ASSUME NEW t \in Threads, \A other \in Threads \ {t} : call'[other] = call[other],
           \A row \in ToSet(log'.snapshots) : row \in ToSet(log.snapshots) \/ row.jobs \in SavedJobs,
           call'[t].pc = "save" => call'[t].jobs \in SavedJobs \cup {mem.jobs},
           NEW events, ToSet(log.events) \subseteq ToSet(log'.events),
           ToSet(log'.events) \subseteq KnownEvents \cup events,
           call'[t].pc \in {"append", "apply"} => call'[t].event \in KnownEvents \cup events
    PROVE  Carries(events)
<1>1. SavedJobs' \subseteq SavedJobs \cup {mem.jobs}
  BY DEF SavedJobs
<1>2. \A other \in Threads : Pending(other)' \subseteq KnownEvents \cup events
  <2>1. Pending(t)' \subseteq KnownEvents \cup events
    BY DEF Pending
  <2>2. \A other \in Threads \ {t} : Pending(other)' = Pending(other)
    BY DEF Pending
  <2>3. \A other \in Threads : Pending(other) \subseteq KnownEvents
    BY DEF KnownEvents
  <2> QED
    BY <2>1, <2>2, <2>3
<1>3. KnownEvents' \subseteq KnownEvents \cup events
  BY <1>2 DEF KnownEvents
<1> QED
  BY <1>1, <1>3 DEF Carries

\* A step of a thread that leaves the log as it is, and lists nothing.
LEMMA QuietCarries ==
    ASSUME NEW t \in Threads, \A other \in Threads \ {t} : call'[other] = call[other],
           log' = log, call'[t].pc # "save", NEW events,
           call'[t].pc \in {"append", "apply"} => call'[t].event \in KnownEvents \cup events
    PROVE  Carries(events)
<1>1. ToSet(log'.snapshots) = ToSet(log.snapshots) /\ ToSet(log'.events) = ToSet(log.events)
  OBVIOUS
<1>2. ToSet(log.events) \subseteq KnownEvents
  BY DEF KnownEvents
<1> QED
  BY <1>1, <1>2, ThreadCarries

\* A job that is listed, a grant that was read.
LEMMA GrantLasts ==
    ASSUME Lasting, NEW held \in Granted
    PROVE  held[1] \in JobIds /\ held[2] \in LeaseIds /\ held = <<held[1], held[2]>>
<1>1. PICK e \in ToSet(log.events) : e.op = "claim" /\ held = <<e.id, e.lease>>
  BY DEF Granted
<1>2. log.events \in Seq(Event)
  BY DEF Lasting, LogTyped
<1>3. e \in Event
  BY <1>1, <1>2 DEF ToSet
<1> QED
  BY <1>1, <1>3 DEF Event

LEMMA ClockLasts ==
    ASSUME Lasting
    PROVE  clock \in Int /\ MaxTime \in Nat
BY BoundsAssumption DEF Lasting, Times

\* A call begins to write an event.
LEMMA WriteBegun ==
    ASSUME Lasting, Shapes, NEW t \in Threads, CanBegin(t), NEW event \in Event, Log(t, event),
           event.op \notin {"expire", "purge"}, UNCHANGED <<mode, log, clock, recovered>>
    PROVE  /\ Lasting'
           /\ Carries({event})
           /\ call'[t].pc = "append" /\ call'[t].event = event
           /\ \A other \in Threads \ {t} : call'[other] = call[other]
<1>1. /\ call'[t] = [pc |-> "append", event |-> event]
      /\ \A other \in Threads \ {t} : call'[other] = call[other]
      /\ CallTyped(t)'
  BY LogBegun
<1>2. mode # "down"
  BY DEF CanBegin
<1>3. call'[t].pc = "append" /\ call'[t].event = event
  BY <1>1
<1>4. RowTyped(t)'
  BY <1>3 DEF RowTyped
<1>5. Lasting'
  BY <1>1, <1>2, <1>4, QuietLasts
<1>6. Carries({event})
  <2> HIDE DEF Event
  <2> QED
    BY <1>1, <1>3, QuietCarries
<1> QED
  BY <1>1, <1>3, <1>5, <1>6
-----------------------------------------------------------------------------
(* The actions.                                                            *)

LEMMA LastingInit == Init => Lasting
<1> SUFFICES ASSUME Init
             PROVE  Lasting
  OBVIOUS
<1>1. log = NewLog /\ call = [t \in Threads |-> Idle] /\ clock = 0 /\ recovered = Load(log)
  BY DEF Init
<1>2. LogTyped(log)
  <2> HIDE DEF Event, Snapshot
  <2> QED
    BY <1>1 DEF NewLog, LogTyped
<1>3. \A t \in Threads : call[t].pc = "idle"
  BY <1>1 DEF Idle
<1>4. \A t \in Threads : CallTyped(t) /\ RowTyped(t)
  BY <1>3 DEF CallTyped, RowTyped
<1>5. clock \in Times
  BY <1>1, BoundsAssumption DEF Times
<1> QED
  BY <1>1, <1>2, <1>4, <1>5 DEF Lasting, Init

\* What the beginning of a request adds to the events that are known.
BegunEvent(event) ==
    /\ event \in Event
    /\ \/ event.op \in {"complete", "fail", "cancel", "retry"}
       \/ event.op = "enqueue" /\ event.id \in FreshIds
       \/ /\ event.op = "claim" /\ event.lease \in FreshLeases /\ event.id \in Live(mem)
          /\ \E key \in mem.pending, ttl \in Int, worker \in Workers \cup {Nil} :
                 /\ key[3] = event.id
                 /\ mem' = ClaimKey(mem, key, event.lease, ttl, worker, clock)

LEMMA BeginReportLasts ==
    ASSUME Lasting, Shapes, NEW t \in Clients, BeginComplete(t) \/ BeginFail(t)
    PROVE  \E event : /\ BegunEvent(event) /\ CanBegin(t) /\ Log(t, event)
                      /\ event.op \notin {"enqueue", "claim"}
                      /\ UNCHANGED <<mode, mem, log, clock, recovered>>
<1>1. PICK op \in {"complete", "fail"} : BeginReport(t, op)
  BY DEF BeginComplete, BeginFail
<1>2. PICK held \in Granted :
          Log(t, [op |-> op, id |-> held[1], ts |-> clock, lease |-> held[2]])
  BY <1>1 DEF BeginReport
<1> DEFINE event == [op |-> op, id |-> held[1], ts |-> clock, lease |-> held[2]]
<1>3. held[1] \in JobIds /\ held[2] \in LeaseIds
  BY GrantLasts
<1>4. event \in Event /\ event.op \in {"complete", "fail"}
  BY <1>3, ClockLasts DEF Event
<1> HIDE DEF event
<1>5. Log(t, event)
  BY <1>2 DEF event
<1> QED
  BY <1>1, <1>4, <1>5 DEF BegunEvent, BeginReport, Request

LEMMA BeginOperatorLasts ==
    ASSUME Lasting, Shapes, NEW t \in Clients, BeginCancel(t) \/ BeginRetry(t)
    PROVE  \E event : /\ BegunEvent(event) /\ CanBegin(t) /\ Log(t, event)
                      /\ event.op \notin {"enqueue", "claim"}
                      /\ UNCHANGED <<mode, mem, log, clock, recovered>>
<1>1. PICK op \in {"cancel", "retry"}, id \in Live(mem) : Log(t, [op |-> op, id |-> id, ts |-> clock])
  BY DEF BeginCancel, BeginRetry, List
<1> DEFINE event == [op |-> op, id |-> id, ts |-> clock]
<1>2. event \in Event /\ event.op \in {"cancel", "retry"}
  BY ClockLasts DEF Event, Live
<1> HIDE DEF event
<1>3. Log(t, event)
  BY <1>1 DEF event
<1> QED
  BY <1>2, <1>3 DEF BegunEvent, BeginCancel, BeginRetry, Request

LEMMA BeginEnqueueLasts ==
    ASSUME Lasting, Shapes, NEW t \in Clients, BeginEnqueue(t)
    PROVE  \E event : /\ BegunEvent(event) /\ CanBegin(t) /\ Log(t, event)
                      /\ event.op = "enqueue" /\ event.id \in FreshIds
                      /\ UNCHANGED <<mode, mem, log, clock, recovered>>
<1>1. PICK id \in FreshIds : \E type \in JobTypes, max_retries \in RetryLimits :
          Log(t, [op |-> "enqueue", id |-> id, ts |-> clock,
                  job_type |-> type, max_retries |-> max_retries])
  BY DEF BeginEnqueue
<1>2. PICK type \in JobTypes, max_retries \in RetryLimits :
          Log(t, [op |-> "enqueue", id |-> id, ts |-> clock,
                  job_type |-> type, max_retries |-> max_retries])
  BY <1>1
<1> DEFINE event == [op |-> "enqueue", id |-> id, ts |-> clock,
                     job_type |-> type, max_retries |-> max_retries]
<1>3. event \in Event /\ event.op = "enqueue" /\ event.id = id
  BY ClockLasts, BoundsAssumption DEF Event, FreshIds
<1> HIDE DEF event
<1>4. Log(t, event)
  BY <1>2 DEF event
<1> QED
  BY <1>3, <1>4 DEF BegunEvent, BeginEnqueue, Request

\* A claim that finds a job, and one that drops a key without a job.
LEMMA BeginClaimLasts ==
    ASSUME Lasting, Shapes, mem \in SpaceType, NEW t \in Clients, BeginClaim(t)
    PROVE  \/ \E event : /\ BegunEvent(event) /\ CanBegin(t) /\ Log(t, event) /\ event.op = "claim"
                         /\ UNCHANGED <<mode, log, clock, recovered>>
           \/ /\ \E key \in mem.pending : /\ mem.jobs[key[3]] = NoJob
                                         /\ mem' = [mem EXCEPT !.pending = @ \ {key}]
              /\ UNCHANGED <<mode, log, clock, call, recovered>>
<1>1. PICK type \in JobTypes : \E key \in OldestKeys(mem, type),
          lease \in FreshLeases, ttl \in Ttls, worker \in Workers \cup {Nil} :
              /\ mem' = ClaimKey(mem, key, lease, ttl, worker, clock)
              /\ IF mem.jobs[key[3]] = NoJob
                 THEN UNCHANGED call
                 ELSE Log(t, [op |-> "claim", id |-> key[3], ts |-> clock,
                              lease |-> lease, until |-> clock + ttl, worker |-> worker])
  BY DEF BeginClaim
<1>2. PICK key \in OldestKeys(mem, type), lease \in FreshLeases, ttl \in Ttls,
           worker \in Workers \cup {Nil} :
              /\ mem' = ClaimKey(mem, key, lease, ttl, worker, clock)
              /\ IF mem.jobs[key[3]] = NoJob
                 THEN UNCHANGED call
                 ELSE Log(t, [op |-> "claim", id |-> key[3], ts |-> clock,
                              lease |-> lease, until |-> clock + ttl, worker |-> worker])
  BY <1>1
<1>3. key \in mem.pending /\ UNCHANGED <<mode, log, clock, recovered>> /\ CanBegin(t)
  BY DEF OldestKeys, BeginClaim, Request
<1>4. CASE mem.jobs[key[3]] = NoJob
  <2>1. mem' = [mem EXCEPT !.pending = @ \ {key}] /\ UNCHANGED call
    BY <1>2, <1>4 DEF ClaimKey
  <2> QED
    BY <1>3, <1>4, <2>1
<1>5. CASE mem.jobs[key[3]] # NoJob /\ key[3] \in JobIds
  <2> DEFINE event == [op |-> "claim", id |-> key[3], ts |-> clock,
                       lease |-> lease, until |-> clock + ttl, worker |-> worker]
  <2>1. ttl \in Int /\ clock \in Int /\ clock + ttl \in Int /\ lease \in LeaseIds
    BY ClockLasts, BoundsAssumption DEF FreshLeases
  <2>2. event \in Event /\ event.op = "claim" /\ event.lease = lease /\ event.id = key[3]
    BY <1>5, <2>1 DEF Event
  <2> HIDE DEF event
  <2>3. Log(t, event)
    BY <1>2, <1>5 DEF event
  <2>4. BegunEvent(event)
    BY <1>2, <1>3, <1>5, <2>1, <2>2 DEF BegunEvent, Live
  <2> QED
    BY <1>3, <2>2, <2>3, <2>4
<1>6. key[3] \in JobIds
  BY <1>3 DEF SpaceType
<1> QED
  BY <1>4, <1>5, <1>6
\* The write of a request: its event was known before.
LEMMA AppendRequestLasts ==
    ASSUME Lasting, Shapes, NEW t \in Clients, AppendRequest(t)
    PROVE  /\ Lasting' /\ Carries({}) /\ UNCHANGED mem
           /\ t \in Busy /\ call[t].pc = "append" /\ call[t].event \in Event
           /\ ToSet(log'.events) = ToSet(log.events) \cup {call[t].event}
           /\ \A other \in Threads \ {t} : call'[other] = call[other]
           /\ IF call[t].event.op = "claim" THEN call'[t].pc = "idle"
              ELSE call'[t].pc = "apply" /\ call'[t].event = call[t].event
<1> DEFINE event == call[t].event
<1>1. /\ t \in Threads /\ call[t].pc = "append" /\ log' = AppendEvent(log, event)
      /\ recovered' = Load(log')
      /\ UNCHANGED <<mode, mem, clock>>
  BY DEF AppendRequest, WriteLog, Threads
<1>2. event.op \notin {"expire", "purge"} /\ event \in Event /\ event \in KnownEvents
  BY <1>1 DEF Lasting, CallTyped, KnownEvents, Pending
<1>3. /\ event.op = "claim" => call'[t] = Idle
      /\ event.op # "claim" => call'[t] = [pc |-> "apply", event |-> event]
      /\ \A other \in Threads \ {t} : call'[other] = call[other]
  BY <1>1 DEF AppendRequest, Shapes
<1> HIDE DEF event
<1>4. IF event.op = "claim" THEN call'[t].pc = "idle"
      ELSE call'[t].pc = "apply" /\ call'[t].event = event
  BY <1>3 DEF Idle
<1>5. CallTyped(t)' /\ RowTyped(t)'
  BY <1>2, <1>4 DEF CallTyped, RowTyped
<1>6. /\ LogTyped(log')
      /\ Len(log'.events) = Len(log.events) + 1
      /\ ToSet(log'.events) = ToSet(log.events) \cup {event}
      /\ log'.snapshots = log.snapshots
  BY <1>1, <1>2, EventWritten DEF Lasting
<1>7. Len(log.events) <= Len(log'.events)
  BY <1>6, LogLength DEF Lasting
<1>8. call[t] # Idle
  BY <1>1 DEF Idle
<1>9. Lasting'
  BY <1>1, <1>3, <1>5, <1>6, <1>7, <1>8, ThreadLasts
<1>10. Carries({})
  <2>1. /\ ToSet(log'.snapshots) = ToSet(log.snapshots)
        /\ ToSet(log'.events) \subseteq KnownEvents
        /\ call'[t].pc # "save"
        /\ call'[t].pc \in {"append", "apply"} => call'[t].event \in KnownEvents
    BY <1>2, <1>4, <1>6 DEF KnownEvents
  <2> QED
    BY <1>1, <1>3, <1>6, <2>1, ThreadCarries
<1> QED
  BY <1>1, <1>2, <1>3, <1>4, <1>6, <1>9, <1>10 DEF event, Busy

\* A call that ends, with its write failed or its change made.
LEMMA RequestEndsLasts ==
    ASSUME Lasting, Shapes, NEW t \in Clients, AppendRequestFails(t) \/ ApplyRequest(t)
    PROVE  /\ Lasting' /\ Carries({})
           /\ UNCHANGED <<mode, log, clock, recovered>>
           /\ t \in Busy /\ call'[t].pc = "idle"
           /\ \A other \in Threads \ {t} : call'[other] = call[other]
           /\ call[t].event \in Event /\ call[t].event \in KnownEvents
           /\ \/ call[t].pc = "append" /\ mem' = mem
              \/ call[t].pc = "apply" /\ mem' = Apply(mem, call[t].event)
<1>1. /\ t \in Threads /\ t \in Busy /\ call'[t] = Idle
      /\ \A other \in Threads \ {t} : call'[other] = call[other]
      /\ UNCHANGED <<mode, log, clock, recovered>>
  BY DEF AppendRequestFails, ApplyRequest, Shapes, Threads, Busy
<1>2. call[t].event \in Event /\ call[t].event \in KnownEvents /\ call[t] # Idle
  BY <1>1 DEF Lasting, CallTyped, KnownEvents, Pending, Busy, Idle
<1>3. call'[t].pc = "idle"
  BY <1>1 DEF Idle
<1>4. CallTyped(t)' /\ RowTyped(t)'
  BY <1>3 DEF CallTyped, RowTyped
<1>5. Lasting'
  BY <1>1, <1>2, <1>4, QuietLasts
<1>6. Carries({})
  BY <1>1, <1>3, QuietCarries
<1> QED
  BY <1>1, <1>2, <1>3, <1>5, <1>6 DEF AppendRequestFails, ApplyRequest

LEMMA HeartbeatLasts ==
    ASSUME Lasting, Shapes, NEW t \in Clients, Heartbeat(t)
    PROVE  /\ Lasting' /\ Carries({}) /\ UNCHANGED <<mode, log, call>>
           /\ \E id \in JobIds, lease \in LeaseIds, until \in Int :
                  mem' = ExtendLease(mem, id, lease, until)
<1>1. PICK held \in Granted, ttl \in Ttls : mem' = ExtendLease(mem, held[1], held[2], clock + ttl)
  BY DEF Heartbeat
<1>2. held[1] \in JobIds /\ held[2] \in LeaseIds /\ clock + ttl \in Int
  BY GrantLasts, ClockLasts, BoundsAssumption
<1>3. t \in Threads /\ UNCHANGED <<mode, log, clock, call, recovered>> /\ call[t] = Idle /\ mode # "down"
  BY DEF Heartbeat, Request, CanBegin, Threads
<1>4. CallTyped(t)' /\ RowTyped(t)' /\ call'[t].pc = "idle"
  BY <1>3 DEF CallTyped, RowTyped, Idle
<1>5. Lasting'
  BY <1>3, <1>4, QuietLasts
<1>6. Carries({})
  BY <1>3, <1>4, QuietCarries
<1> QED
  BY <1>1, <1>2, <1>3, <1>5, <1>6

-----------------------------------------------------------------------------
(* Tasks.                                                                  *)

LEMMA TaskBeginsLasts ==
    ASSUME Lasting, Shapes, BeginReap \/ BeginShutdown \/ BeginCleanup
    PROVE  /\ Lasting' /\ Carries({}) /\ UNCHANGED <<mem, log>>
           /\ \A t \in Threads : call'[t] = call[t] \/ call'[t].pc \in {"release", "purge"}
<1>1. PICK t \in Tasks : /\ CanBegin(t)
                         /\ \/ t = Reaper /\ BeginReap
                            \/ t = Main /\ BeginShutdown
                            \/ t = Cleaner /\ BeginCleanup
  BY DEF BeginReap, BeginShutdown, BeginCleanup
<1>2. t \in Threads /\ call = [other \in Threads |-> call[other]] /\ mode # "down"
  BY <1>1 DEF Threads, Shapes, CanBegin
<1>3. Expired(mem, clock) \subseteq JobIds /\ List(mem, "claimed") \subseteq JobIds /\ Purgeable \subseteq JobIds
  BY DEF Expired, List, Live, Purgeable
<1>4. \E pc \in {"release", "purge"}, todo \in SUBSET JobIds :
          call'[t].pc = pc /\ call'[t].todo = todo /\ call'[t].ts = clock
  <2>1. CASE t = Reaper /\ BeginReap
    BY <1>2, <1>3, <2>1 DEF BeginReap, BeginRelease
  <2>2. CASE t = Main /\ BeginShutdown
    BY <1>2, <1>3, <2>2 DEF BeginShutdown, BeginRelease
  <2>3. CASE t = Cleaner /\ BeginCleanup
    BY <1>2, <1>3, <2>3 DEF BeginCleanup
  <2> QED
    BY <1>1, <2>1, <2>2, <2>3
<1>5. /\ \A other \in Threads \ {t} : call'[other] = call[other]
      /\ UNCHANGED <<mem, log, clock, recovered>>
      /\ mode' \in {mode, "closing"}
  BY <1>1, <1>2 DEF BeginReap, BeginShutdown, BeginCleanup, BeginRelease
<1>6. CallTyped(t)' /\ RowTyped(t)'
  BY <1>4, ClockLasts DEF CallTyped, RowTyped
<1>7. Lasting'
  BY <1>2, <1>5, <1>6, QuietLasts
<1>8. Carries({})
  BY <1>2, <1>4, <1>5, QuietCarries
<1> QED
  BY <1>4, <1>5, <1>7, <1>8

\* A task writes an event of its own, or fails to.
LEMMA TaskWritesLasts ==
    ASSUME Lasting, Shapes, NEW t \in Threads, CallTyped(t)', RowTyped(t)',
           \A other \in Threads \ {t} : call'[other] = call[other],
           call[t] # Idle, call'[t].pc \notin {"save", "append", "apply"},
           NEW event \in Event, log' = AppendEvent(log, event), recovered' = Load(log'),
           UNCHANGED <<mode, clock>>
    PROVE  /\ Lasting' /\ Carries({event})
           /\ ToSet(log'.events) = ToSet(log.events) \cup {event}
<1>1. /\ LogTyped(log')
      /\ Len(log'.events) = Len(log.events) + 1
      /\ ToSet(log'.events) = ToSet(log.events) \cup {event}
      /\ log'.snapshots = log.snapshots
  BY EventWritten DEF Lasting
<1>2. Len(log.events) <= Len(log'.events)
  BY <1>1, LogLength DEF Lasting
<1>3. Lasting'
  BY <1>1, <1>2, ThreadLasts
<1>4. ToSet(log'.snapshots) = ToSet(log.snapshots) /\ ToSet(log'.events) \subseteq KnownEvents \cup {event}
  BY <1>1 DEF KnownEvents
<1>5. Carries({event})
  <2> HIDE DEF Event
  <2> QED
    BY <1>1, <1>4, ThreadCarries
<1> QED
  BY <1>1, <1>3, <1>5

LEMMA AppendExpireLasts ==
    ASSUME Lasting, Shapes, NEW t \in Tasks, AppendExpire(t)
    PROVE  \E event \in Event :
               /\ event.op = "expire" /\ event.id \in call[t].todo
               /\ Lasting' /\ Carries({event}) /\ UNCHANGED mem
               /\ \/ log' = AppendEvent(log, event)
                  \/ log' = log
               /\ t \in Threads /\ call[t].pc = "release" /\ call'[t].pc = "release"
               /\ \A other \in Threads \ {t} : call'[other] = call[other]
<1>1. PICK id \in call[t].todo :
          /\ call' = [call EXCEPT ![t].todo = @ \ {id}]
          /\ \/ /\ log' = AppendEvent(log, [op |-> "expire", id |-> id, ts |-> call[t].ts])
                /\ recovered' = Load(log')
             \/ log' = log /\ recovered' = recovered
  BY DEF AppendExpire, WriteLog
<1>2. t \in Threads /\ call[t].pc = "release" /\ UNCHANGED <<mode, mem, clock>> /\ call[t] # Idle
  BY DEF AppendExpire, Threads, Idle
<1>3. call[t].todo \subseteq JobIds /\ call[t].ts \in Int
  BY <1>2 DEF Lasting, CallTyped
<1>4. /\ call'[t] = [call[t] EXCEPT !.todo = call[t].todo \ {id}]
      /\ \A other \in Threads \ {t} : call'[other] = call[other]
  BY <1>1, <1>2 DEF Shapes
<1>5. call'[t].pc = "release" /\ call'[t].ts = call[t].ts
  BY <1>2, <1>4
<1>6. call'[t].todo \subseteq call[t].todo
  <2>1. CASE "todo" \in DOMAIN call[t]
    BY <1>4, <2>1
  <2>2. CASE "todo" \notin DOMAIN call[t]
    BY <1>4, <2>2
  <2> QED
    BY <2>1, <2>2
<1>7. CallTyped(t)' /\ RowTyped(t)'
  BY <1>3, <1>5, <1>6 DEF CallTyped, RowTyped
<1> DEFINE event == [op |-> "expire", id |-> id, ts |-> call[t].ts]
<1>8. event \in Event /\ event.op = "expire" /\ event.id = id
  BY <1>3 DEF Event
<1>9. \/ log' = AppendEvent(log, event) /\ recovered' = Load(log')
      \/ log' = log /\ recovered' = recovered
  BY <1>1
<1> HIDE DEF event
<1>10. CASE log' = log /\ recovered' = recovered
  <2>1. Lasting'
    BY <1>2, <1>4, <1>7, <1>10, QuietLasts
  <2>2. Carries({event})
    BY <1>2, <1>4, <1>5, <1>10, QuietCarries
  <2> QED
    BY <1>1, <1>2, <1>4, <1>5, <1>8, <1>10, <2>1, <2>2
<1>11. CASE log' = AppendEvent(log, event) /\ recovered' = Load(log')
  <2>1. Lasting' /\ Carries({event})
    BY <1>2, <1>4, <1>5, <1>7, <1>8, <1>11, TaskWritesLasts
  <2> QED
    BY <1>1, <1>2, <1>4, <1>5, <1>8, <1>11, <2>1
<1> QED
  BY <1>9, <1>10, <1>11

LEMMA AppendPurgeLasts ==
    ASSUME Lasting, Shapes, AppendPurge
    PROVE  \E event \in Event :
               /\ event.op = "purge"
               /\ Lasting' /\ Carries({event}) /\ UNCHANGED mem
               /\ log' = AppendEvent(log, event)
               /\ call'[Cleaner].pc = "remove" /\ call'[Cleaner].id = event.id
               /\ \A other \in Threads \ {Cleaner} : call'[other] = call[other]
<1>1. PICK id \in call[Cleaner].todo :
          /\ log' = AppendEvent(log, [op |-> "purge", id |-> id, ts |-> call[Cleaner].ts])
          /\ recovered' = Load(log')
          /\ call' = [call EXCEPT ![Cleaner] = [pc |-> "remove", id |-> id,
                                                todo |-> @.todo \ {id}, ts |-> @.ts]]
  BY DEF AppendPurge, WriteLog
<1>2. /\ Cleaner \in Threads /\ call[Cleaner].pc = "purge" /\ call[Cleaner] # Idle
      /\ UNCHANGED <<mode, mem, clock>>
  BY DEF AppendPurge, Threads, Idle
<1>3. call[Cleaner].todo \subseteq JobIds /\ call[Cleaner].ts \in Int
  BY <1>2 DEF Lasting, CallTyped
<1>4. /\ call'[Cleaner] = [pc |-> "remove", id |-> id,
                           todo |-> call[Cleaner].todo \ {id}, ts |-> call[Cleaner].ts]
      /\ \A other \in Threads \ {Cleaner} : call'[other] = call[other]
  BY <1>1, <1>2 DEF Shapes
<1>5. /\ call'[Cleaner].pc = "remove" /\ call'[Cleaner].id = id /\ call'[Cleaner].ts = call[Cleaner].ts
      /\ call'[Cleaner].todo = call[Cleaner].todo \ {id}
  BY <1>4
<1>6. CallTyped(Cleaner)' /\ RowTyped(Cleaner)'
  BY <1>3, <1>5 DEF CallTyped, RowTyped
<1> DEFINE event == [op |-> "purge", id |-> id, ts |-> call[Cleaner].ts]
<1>7. event \in Event /\ event.op = "purge" /\ event.id = id
  BY <1>3 DEF Event
<1>8. log' = AppendEvent(log, event)
  BY <1>1
<1> HIDE DEF event
<1>9. Lasting' /\ Carries({event})
  BY <1>1, <1>2, <1>4, <1>5, <1>6, <1>7, <1>8, TaskWritesLasts
<1> QED
  BY <1>2, <1>4, <1>5, <1>7, <1>8, <1>9

\* A task that changes the space and writes nothing.
LEMMA TaskChangesLasts ==
    ASSUME Lasting, Shapes, NEW t \in Threads, FinishRelease(t) \/ (t = Cleaner /\ RemovePurged)
    PROVE  /\ Lasting' /\ Carries({}) /\ UNCHANGED <<mode, log>>
           /\ call'[t].pc \in {"max_seq", "idle", "purge"}
           /\ \A other \in Threads \ {t} : call'[other] = call[other]
           /\ \/ \E ids \in SUBSET List(mem, "claimed") : mem' = Release(mem, ids)
              \/ \E id \in JobIds : mem' = RemoveJob(mem, id)
<1>1. CASE FinishRelease(t)
  <2>1. /\ mem' = Release(mem, Expired(mem, call[t].until))
        /\ UNCHANGED <<mode, log, clock, recovered>>
        /\ call' = [call EXCEPT ![t] = IF t = Main THEN [pc |-> "max_seq"] ELSE Idle]
        /\ call[t] # Idle
    BY <1>1 DEF FinishRelease, ExpireLeases, Idle
  <2>2. Expired(mem, call[t].until) \in SUBSET List(mem, "claimed")
    BY DEF Expired
  <2>3. /\ call'[t].pc \in {"max_seq", "idle"}
        /\ \A other \in Threads \ {t} : call'[other] = call[other]
    BY <2>1 DEF Shapes, Idle
  <2>4. CallTyped(t)' /\ RowTyped(t)'
    BY <2>3 DEF CallTyped, RowTyped
  <2>5. Lasting'
    BY <2>1, <2>3, <2>4, QuietLasts
  <2>6. Carries({})
    BY <2>1, <2>3, QuietCarries
  <2> QED
    BY <2>1, <2>2, <2>3, <2>5, <2>6
<1>2. CASE t = Cleaner /\ RemovePurged
  <2>1. /\ call[t].pc = "remove" /\ call[t] # Idle
        /\ mem' = RemoveJob(mem, call[t].id)
        /\ UNCHANGED <<mode, log, clock, recovered>>
    BY <1>2 DEF RemovePurged, Idle
  <2>2. call[t].id \in JobIds /\ call[t].todo \subseteq JobIds /\ call[t].ts \in Int
    BY <2>1 DEF Lasting, CallTyped
  <2>3. /\ call'[t] = [pc |-> "purge", todo |-> call[t].todo, ts |-> call[t].ts]
        /\ \A other \in Threads \ {t} : call'[other] = call[other]
    BY <1>2 DEF RemovePurged, Shapes
  <2>4. call'[t].pc = "purge" /\ call'[t].ts = call[t].ts /\ call'[t].todo = call[t].todo
    BY <2>3
  <2>5. CallTyped(t)' /\ RowTyped(t)'
    BY <2>2, <2>4 DEF CallTyped, RowTyped
  <2>6. Lasting'
    BY <2>1, <2>3, <2>5, QuietLasts
  <2>7. Carries({})
    BY <2>1, <2>3, <2>4, QuietCarries
  <2> QED
    BY <2>1, <2>2, <2>3, <2>4, <2>6, <2>7
<1> QED
  BY <1>1, <1>2
\* A step of a snapshot that leaves the log as it is.
LEMMA SnapshotMovesLasts ==
    ASSUME Lasting, Shapes, NEW t \in Threads,
           (t = Cleaner /\ FinishPurge) \/ ReadMaxSeq(t) \/ ListJobs(t) \/ TaskFails(t)
    PROVE  /\ Lasting' /\ Carries({}) /\ UNCHANGED <<mem, log>>
           /\ call'[t].pc \in {"idle", "max_seq", "list", "save"}
           /\ \A other \in Threads \ {t} : call'[other] = call[other]
<1>1. call = [other \in Threads |-> call[other]] /\ CallTyped(t) /\ RowTyped(t) /\ Len(log.events) \in Nat
  BY LogLength DEF Shapes, Lasting
<1>2. mem' = mem /\ log' = log /\ recovered' = recovered /\ clock' = clock /\ mode' \in {mode, "closing", "exiting"}
  BY DEF FinishPurge, ReadMaxSeq, ListJobs, TaskFails, Leave
<1>3. /\ \A other \in Threads \ {t} : call'[other] = call[other]
      /\ \/ call'[t].pc \in {"idle", "max_seq"}
         \/ /\ call'[t].pc \in {"list", "save"}
            /\ call'[t].seq \in 0..Len(log.events) /\ call'[t].ts \in Int
      /\ call'[t].pc = "save" => call'[t].jobs = mem.jobs
      /\ call[t] # Idle
  <2>1. CASE t = Cleaner /\ FinishPurge
    BY <1>1, <2>1 DEF FinishPurge, Idle
  <2>2. CASE ReadMaxSeq(t)
    <3>1. MaxSeq(log) \in 0..Len(log.events)
      BY <1>1 DEF MaxSeq
    <3> QED
      BY <1>1, <2>2, <3>1, ClockLasts DEF ReadMaxSeq, Idle
  <2>3. CASE ListJobs(t)
    <3>1. /\ call'[t] = [pc |-> "save", seq |-> call[t].seq, ts |-> call[t].ts, jobs |-> mem.jobs]
          /\ \A other \in Threads \ {t} : call'[other] = call[other]
      BY <1>1, <2>3 DEF ListJobs
    <3>2. /\ call'[t].pc = "save" /\ call'[t].seq = call[t].seq /\ call'[t].ts = call[t].ts
          /\ call'[t].jobs = mem.jobs
      BY <3>1
    <3> QED
      BY <1>1, <2>3, <3>1, <3>2 DEF ListJobs, CallTyped, RowTyped, Idle
  <2>4. CASE TaskFails(t)
    BY <1>1, <2>4 DEF TaskFails, Leave, Idle
  <2> QED
    BY <2>1, <2>2, <2>3, <2>4
<1>4. CallTyped(t)' /\ RowTyped(t)'
  BY <1>2, <1>3 DEF CallTyped, RowTyped
<1>5. Lasting'
  BY <1>2, <1>3, <1>4, QuietLasts
<1>6. Carries({})
  <2>1. ToSet(log'.snapshots) = ToSet(log.snapshots) /\ ToSet(log'.events) = ToSet(log.events)
    BY <1>2
  <2>2. ToSet(log.events) \subseteq KnownEvents
    BY DEF KnownEvents
  <2> QED
    BY <1>3, <2>1, <2>2, ThreadCarries
<1> QED
  BY <1>2, <1>3, <1>5, <1>6

\* A step of a snapshot that changes the rows.
LEMMA SnapshotWritesLasts ==
    ASSUME Lasting, Shapes, SavedJobs \subseteq [JobIds -> Job \cup {NoJob}],
           NEW t \in Threads, Save(t) \/ Truncate(t)
    PROVE  /\ Lasting' /\ Carries({}) /\ mem' = mem /\ log'.events = log.events
           /\ call'[t].pc \in {"truncate", "idle"}
           /\ \A other \in Threads \ {t} : call'[other] = call[other]
<1>1. /\ call = [other \in Threads |-> call[other]] /\ CallTyped(t) /\ RowTyped(t)
      /\ Len(log.events) \in Nat
  BY LogLength DEF Shapes, Lasting
<1>2. /\ mem' = mem /\ clock' = clock /\ recovered' = Load(log') /\ call[t] # Idle
      /\ mode' \in {mode, "closing", "exiting"}
  BY DEF Save, Truncate, WriteLog, Leave, Idle
<1>3. /\ \A other \in Threads \ {t} : call'[other] = call[other]
      /\ \/ call'[t].pc = "idle"
         \/ call'[t].pc = "truncate" /\ call'[t].seq \in 0..Len(log.events)
  <2>1. CASE Save(t)
    <3>1. /\ call'[t] = [pc |-> "truncate", seq |-> call[t].seq]
          /\ \A other \in Threads \ {t} : call'[other] = call[other]
      BY <1>1, <2>1 DEF Save
    <3>2. call'[t].pc = "truncate" /\ call'[t].seq = call[t].seq
      BY <3>1
    <3> QED
      BY <1>1, <2>1, <3>1, <3>2 DEF Save, CallTyped
  <2>2. CASE Truncate(t)
    BY <1>1, <2>2 DEF Truncate, Leave, Idle
  <2> QED
    BY <2>1, <2>2
<1>4. /\ LogTyped(log') /\ log'.events = log.events
      /\ \A row \in ToSet(log'.snapshots) : row \in ToSet(log.snapshots) \/ row.jobs \in SavedJobs
  <2>1. CASE Save(t)
    <3>1. /\ log' = SaveSnapshot(log, call[t].seq, call[t].ts, call[t].jobs)
          /\ call[t].seq \in Nat /\ call[t].ts \in Int
          /\ call[t].jobs \in SavedJobs
      BY <1>1, <2>1 DEF Save, WriteLog, CallTyped, RowTyped, SavedJobs
    <3> DEFINE seq == call[t].seq
               ts == call[t].ts
               jobs == call[t].jobs
    <3>2. jobs \in [JobIds -> Job \cup {NoJob}] /\ jobs \in SavedJobs /\ LogTyped(log)
      BY <3>1 DEF Lasting
    <3>3. log' = SaveSnapshot(log, seq, ts, jobs) /\ seq \in Nat /\ ts \in Int
      BY <3>1
    <3> HIDE DEF seq, ts, jobs
    <3>4. /\ LogTyped(log') /\ log'.events = log.events
          /\ \A row \in ToSet(log'.snapshots) : row \in ToSet(log.snapshots) \/ row.jobs = jobs
      BY <3>2, <3>3, RowWritten
    <3> QED
      BY <3>2, <3>4
  <2>2. CASE Truncate(t)
    <3>1. log' = TruncateBefore(log, call[t].seq) /\ call[t].seq \in 0..Len(log.events)
      BY <1>1, <2>2 DEF Truncate, WriteLog, CallTyped
    <3>2. LogTyped(log') /\ log'.events = log.events /\ log'.snapshots = log.snapshots
      BY <3>1, PrefixDropped DEF Lasting
    <3> QED
      BY <3>2
  <2> QED
    BY <2>1, <2>2
<1>5. CallTyped(t)' /\ RowTyped(t)'
  BY <1>3, <1>4 DEF CallTyped, RowTyped
<1>6. Lasting'
  BY <1>1, <1>2, <1>3, <1>4, <1>5, ThreadLasts
<1>7. Carries({})
  <2>1. ToSet(log'.events) = ToSet(log.events) /\ ToSet(log.events) \subseteq KnownEvents
    BY <1>4 DEF KnownEvents
  <2> QED
    BY <1>3, <1>4, <2>1, ThreadCarries
<1> QED
  BY <1>2, <1>3, <1>4, <1>6, <1>7

\* The process and the world: the calls go on, or end all at once.
LEMMA WorldLasts ==
    ASSUME Lasting, Tick \/ Exit \/ Crash \/ Open \/ UNCHANGED vars
    PROVE  /\ Lasting' /\ Carries({}) /\ UNCHANGED log
           /\ mem' \in {mem, Empty, recovered}
           /\ \A t \in Threads : call'[t] = call[t] \/ call'[t].pc = "idle"
<1>1. /\ UNCHANGED <<log, recovered>> /\ mem' \in {mem, Empty, recovered}
      /\ call' = call \/ call' = [t \in Threads |-> Idle]
  BY DEF Tick, Exit, Crash, Open, Stop, vars, Lasting
<1>2. \A t \in Threads : call'[t] = call[t] \/ (call'[t].pc = "idle" /\ call'[t] = Idle)
  BY <1>1 DEF Idle
<1>3. clock' \in Times
  BY BoundsAssumption DEF Tick, Exit, Crash, Open, Stop, vars, Times, Lasting
<1>4. \A t \in Threads : CallTyped(t)' /\ RowTyped(t)'
  <2> SUFFICES ASSUME NEW t \in Threads
               PROVE  CallTyped(t)' /\ RowTyped(t)'
    OBVIOUS
  <2>1. CASE call'[t] = call[t]
    BY <1>1, <2>1 DEF Lasting, CallTyped, RowTyped
  <2>2. CASE call'[t].pc = "idle"
    BY <2>2 DEF CallTyped, RowTyped
  <2> QED
    BY <1>2, <2>1, <2>2
<1>5. /\ mode' \in {"serving", "closing", "exiting", "down"}
      /\ mode' = "down" => InFlight' = {} /\ mem' = Empty
  <2>1. CASE Tick \/ UNCHANGED vars
    BY <2>1 DEF Tick, vars, Lasting, InFlight
  <2>2. CASE Exit \/ Crash
    <3>1. call' = [t \in Threads |-> Idle] /\ mode' = "down" /\ mem' = Empty
      BY <2>2 DEF Exit, Crash, Stop
    <3> QED
      BY <3>1 DEF InFlight
  <2>3. CASE Open
    BY <2>3 DEF Open
  <2> QED
    BY <2>1, <2>2, <2>3
<1>6. Lasting'
  BY <1>1, <1>3, <1>4, <1>5 DEF Lasting
<1>7. Carries({})
  <2>1. SavedJobs' \subseteq SavedJobs
    BY <1>1, <1>2 DEF SavedJobs
  <2>2. \A t \in Threads : Pending(t)' \subseteq Pending(t)
    BY <1>2 DEF Pending
  <2>3. KnownEvents' \subseteq KnownEvents
    BY <1>1, <2>2 DEF KnownEvents
  <2> QED
    BY <1>1, <2>1, <2>3 DEF Carries
<1> QED
  BY <1>1, <1>2, <1>6, <1>7
-----------------------------------------------------------------------------
(* Each lease is one job's.                                                *)

Owned(owner) ==
    /\ owner \in [LeaseIds -> JobIds \cup {NoJob}]
    /\ mem \in Good(owner)
    /\ SavedJobs \subseteq GoodJobs(owner)
    /\ \A e \in KnownEvents : e.op = "claim" => owner[e.lease] = e.id

OwnedInv == Lasting /\ \E owner : Owned(owner)

\* What a start would load agrees with the log too.
LEMMA RecoveredGood ==
    ASSUME JsonTimes, Lasting, NEW owner, Owned(owner)
    PROVE  recovered \in Good(owner)
<1>1. LogGood(log, owner)
  BY DEF Lasting, Owned, LogGood, KnownEvents, SavedJobs
<1> QED
  BY <1>1, LoadGood DEF Lasting

\* A step that grants no lease.
LEMMA OwnedStep ==
    ASSUME NEW owner, Owned(owner), NEW events, Carries(events),
           \A e \in events : e.op # "claim", mem' \in Good(owner)
    PROVE  Owned(owner)'
<1>1. mem.jobs \in GoodJobs(owner)
  BY DEF Owned, Good
<1> QED
  BY <1>1 DEF Owned, Carries

\* A lease that nothing has may be given to any job.
LEMMA OwnerChosen ==
    ASSUME NEW owner, Owned(owner), NEW lease \in FreshLeases, NEW id \in JobIds
    PROVE  Owned([owner EXCEPT ![lease] = id])
<1> DEFINE next == [owner EXCEPT ![lease] = id]
<1>1. next \in [LeaseIds -> JobIds \cup {NoJob}] /\ \A other \in LeaseIds \ {lease} : next[other] = owner[other]
  BY DEF Owned, FreshLeases
<1>2. ASSUME NEW jobs \in GoodJobs(owner), lease \notin LeasesIn(jobs)
      PROVE  jobs \in GoodJobs(next)
  <2>1. jobs \in [JobIds -> Job \cup {NoJob}]
    BY DEF GoodJobs
  <2>2. ASSUME NEW x \in JobIds, jobs[x] # NoJob
        PROVE  LeasedOK(jobs[x]) /\ (jobs[x].lease_id # Nil => next[jobs[x].lease_id] = x)
    <3>1. /\ LeasedOK(jobs[x]) /\ jobs[x] \in Job
          /\ jobs[x].lease_id # Nil => owner[jobs[x].lease_id] = x
      BY <2>1, <2>2 DEF GoodJobs
    <3>2. jobs[x].lease_id # lease
      BY <1>2, <2>2 DEF LeasesIn
    <3>3. jobs[x].lease_id # Nil => jobs[x].lease_id \in LeaseIds \ {lease}
      BY <3>1, <3>2 DEF Job
    <3> HIDE DEF next
    <3> QED
      BY <1>1, <3>1, <3>3
  <2> HIDE DEF next
  <2> QED
    BY <2>1, <2>2 DEF GoodJobs
<1> HIDE DEF next
<1>3. mem \in Good(next)
  BY <1>2 DEF Owned, Good, FreshLeases
<1>4. SavedJobs \subseteq GoodJobs(next)
  BY <1>2 DEF Owned, FreshLeases
<1>5. ASSUME NEW e \in KnownEvents, e.op = "claim"
      PROVE  next[e.lease] = e.id
  <2>1. e.lease # lease /\ owner[e.lease] = e.id
    BY <1>5 DEF FreshLeases, Owned
  <2>2. next[e.lease] = owner[e.lease]
    <3>1. owner = [x \in LeaseIds |-> owner[x]]
      BY DEF Owned
    <3>2. next = [x \in LeaseIds |-> IF x = lease THEN id ELSE owner[x]]
      BY <3>1 DEF next
    <3>3. next = [owner EXCEPT ![lease] = id]
      BY DEF next
    <3> QED
      BY <2>1, <3>1, <3>3
  <2> QED
    BY <2>1, <2>2
<1> QED
  BY <1>1, <1>3, <1>4, <1>5 DEF Owned, next
\* A claim gives a lease that nothing has to the job it found.
LEMMA ClaimOwned ==
    ASSUME NEW owner, Owned(owner), Lasting, NEW event, BegunEvent(event), event.op = "claim",
           Carries({event})
    PROVE  \E next : Owned(next)'
<1>1. PICK key \in mem.pending, ttl \in Int, worker \in Workers \cup {Nil} :
          /\ key[3] = event.id
          /\ mem' = ClaimKey(mem, key, event.lease, ttl, worker, clock)
  BY DEF BegunEvent
<1>2. event.lease \in FreshLeases /\ event.id \in JobIds
  BY DEF BegunEvent, Live
<1> DEFINE next == [owner EXCEPT ![event.lease] = event.id]
<1>3. Owned(next)
  BY <1>2, OwnerChosen
<1>4. next[event.lease] = event.id /\ event.lease \in LeaseIds
  BY <1>2 DEF Owned, FreshLeases
<1> HIDE DEF next
<1>5. mem' \in Good(next)
  <2>1. mem \in Good(next) /\ clock \in Int
    BY <1>3, ClockLasts DEF Owned
  <2> QED
    BY <1>1, <1>4, <2>1, ClaimGood
<1>6. mem.jobs \in GoodJobs(next)
  BY <1>3 DEF Owned, Good
<1>7. Owned(next)'
  BY <1>3, <1>4, <1>5, <1>6 DEF Owned, Carries
<1> QED
  BY <1>7

LEMMA OwnedInit == Init => OwnedInv
<1> SUFFICES ASSUME Init
             PROVE  OwnedInv
  OBVIOUS
<1> DEFINE owner == [lease \in LeaseIds |-> NoJob]
<1>1. owner \in [LeaseIds -> JobIds \cup {NoJob}]
  OBVIOUS
<1>2. mem = Empty /\ log = NewLog /\ call = [t \in Threads |-> Idle]
  BY DEF Init
<1>3. ToSet(log.events) = {} /\ ToSet(log.snapshots) = {}
  BY <1>2 DEF NewLog, ToSet
<1>4. \A t \in Threads : call[t].pc = "idle"
  BY <1>2 DEF Idle
<1>5. KnownEvents = {} /\ SavedJobs = {}
  BY <1>3, <1>4 DEF KnownEvents, Pending, SavedJobs
<1> HIDE DEF owner
<1>6. Owned(owner)
  BY <1>1, <1>2, <1>5, EmptyGood DEF Owned
<1> QED
  BY <1>6, LastingInit DEF OwnedInv

LEMMA OwnedRequests ==
    ASSUME OwnedInv, GrantInv, NEW t \in Clients,
           \/ BeginEnqueue(t) \/ BeginClaim(t) \/ BeginComplete(t) \/ BeginFail(t)
           \/ BeginCancel(t) \/ BeginRetry(t)
    PROVE  OwnedInv'
<1>1. PICK owner : Owned(owner)
  BY DEF OwnedInv
<1>2. Lasting /\ Shapes /\ t \in Threads /\ mem \in SpaceType
  BY <1>1 DEF OwnedInv, GrantInv, Threads, Owned, Good
<1>3. ASSUME NEW event, BegunEvent(event), CanBegin(t), Log(t, event),
             UNCHANGED <<mode, log, clock, recovered>>
      PROVE  Lasting' /\ Carries({event})
  BY <1>2, <1>3, WriteBegun DEF BegunEvent
<1>4. CASE \E event : /\ BegunEvent(event) /\ CanBegin(t) /\ Log(t, event) /\ event.op # "claim"
                      /\ UNCHANGED <<mode, mem, log, clock, recovered>>
  <2>1. PICK event : /\ BegunEvent(event) /\ CanBegin(t) /\ Log(t, event) /\ event.op # "claim"
                     /\ UNCHANGED <<mode, mem, log, clock, recovered>>
    BY <1>4
  <2>2. mem' \in Good(owner)
    BY <1>1, <2>1 DEF Owned
  <2> QED
    BY <1>1, <1>3, <2>1, <2>2, OwnedStep DEF OwnedInv
<1>5. CASE BeginEnqueue(t)
  BY <1>2, <1>4, <1>5, BeginEnqueueLasts
<1>6. CASE BeginComplete(t) \/ BeginFail(t)
  BY <1>2, <1>4, <1>6, BeginReportLasts
<1>7. CASE BeginCancel(t) \/ BeginRetry(t)
  BY <1>2, <1>4, <1>7, BeginOperatorLasts
<1>8. CASE BeginClaim(t)
  <2>1. CASE \E event : /\ BegunEvent(event) /\ CanBegin(t) /\ Log(t, event) /\ event.op = "claim"
                        /\ UNCHANGED <<mode, log, clock, recovered>>
    BY <1>1, <1>2, <1>3, <2>1, ClaimOwned DEF OwnedInv
  <2>2. CASE /\ \E key \in mem.pending : /\ mem.jobs[key[3]] = NoJob
                                       /\ mem' = [mem EXCEPT !.pending = @ \ {key}]
             /\ UNCHANGED <<mode, log, clock, call, recovered>>
    <3>1. mem' \in Good(owner)
      BY <1>1, <2>2 DEF Owned, Good, SpaceType
    <3>2. mode # "down" /\ call[t] = Idle
      BY <1>8 DEF BeginClaim, Request, CanBegin
    <3>3. call'[t].pc = "idle"
      BY <2>2, <3>2 DEF Idle
    <3>4. CallTyped(t)' /\ RowTyped(t)'
      BY <3>3 DEF CallTyped, RowTyped
    <3>5. Lasting'
      BY <1>2, <2>2, <3>2, <3>4, QuietLasts
    <3>6. Carries({})
      BY <1>2, <2>2, <3>3, QuietCarries
    <3> QED
      BY <1>1, <3>1, <3>5, <3>6, OwnedStep DEF OwnedInv
  <2> QED
    BY <1>2, <1>8, <2>1, <2>2, BeginClaimLasts
<1> QED
  BY <1>5, <1>6, <1>7, <1>8

LEMMA OwnedNext ==
    ASSUME JsonTimes, OwnedInv, GrantInv, [Next]_vars
    PROVE  OwnedInv'
<1>1. PICK owner : Owned(owner)
  BY DEF OwnedInv
<1>2. Lasting /\ Shapes /\ mem \in Good(owner)
  BY <1>1 DEF OwnedInv, GrantInv, Owned
<1>s. ASSUME NEW events, Lasting', Carries(events), \A e \in events : e.op # "claim",
             mem' \in Good(owner)
      PROVE  OwnedInv'
  BY <1>1, <1>s, OwnedStep DEF OwnedInv
<1>3. ASSUME NEW t \in Clients, \/ BeginEnqueue(t) \/ BeginClaim(t) \/ BeginComplete(t)
                                \/ BeginFail(t) \/ BeginCancel(t) \/ BeginRetry(t)
      PROVE  OwnedInv'
  BY <1>3, OwnedRequests
<1>4. ASSUME NEW t \in Clients, Heartbeat(t)
      PROVE  OwnedInv'
  <2>1. Lasting' /\ Carries({})
    BY <1>2, <1>4, HeartbeatLasts
  <2>2. mem' \in Good(owner)
    BY <1>2, <1>4, HeartbeatLasts, ExtendGood
  <2> QED
    BY <1>s, <2>1, <2>2
<1>5. ASSUME NEW t \in Clients, AppendRequest(t)
      PROVE  OwnedInv'
  <2>1. Lasting' /\ Carries({}) /\ mem' = mem
    BY <1>2, <1>5, AppendRequestLasts
  <2> QED
    BY <1>2, <1>s, <2>1
<1>6. ASSUME NEW t \in Clients, AppendRequestFails(t) \/ ApplyRequest(t)
      PROVE  OwnedInv'
  <2>1. /\ Lasting' /\ Carries({})
        /\ call[t].event \in Event /\ call[t].event \in KnownEvents
        /\ mem' = mem \/ mem' = Apply(mem, call[t].event)
    BY <1>2, <1>6, RequestEndsLasts
  <2>2. call[t].event.op = "claim" => owner[call[t].event.lease] = call[t].event.id
    BY <1>1, <2>1 DEF Owned
  <2>3. Apply(mem, call[t].event) \in Good(owner)
    BY <1>2, <2>1, <2>2, ApplyGood
  <2> QED
    BY <1>2, <1>s, <2>1, <2>3
<1>7. CASE BeginReap \/ BeginShutdown \/ BeginCleanup
  <2>1. Lasting' /\ Carries({}) /\ mem' = mem
    BY <1>2, <1>7, TaskBeginsLasts
  <2> QED
    BY <1>2, <1>s, <2>1
<1>8. ASSUME NEW t \in Tasks, AppendExpire(t)
      PROVE  OwnedInv'
  <2>1. PICK event : Lasting' /\ Carries({event}) /\ mem' = mem /\ event.op = "expire"
    BY <1>2, <1>8, AppendExpireLasts
  <2> QED
    BY <1>2, <1>s, <2>1
<1>9. CASE AppendPurge
  <2>1. PICK event : Lasting' /\ Carries({event}) /\ mem' = mem /\ event.op = "purge"
    BY <1>2, <1>9, AppendPurgeLasts
  <2> QED
    BY <1>2, <1>s, <2>1
<1>10. ASSUME NEW t \in Threads, FinishRelease(t) \/ (t = Cleaner /\ RemovePurged)
       PROVE  OwnedInv'
  <2>1. /\ Lasting' /\ Carries({})
        /\ \/ \E ids \in SUBSET List(mem, "claimed") : mem' = Release(mem, ids)
           \/ \E id \in JobIds : mem' = RemoveJob(mem, id)
    BY <1>2, <1>10, TaskChangesLasts
  <2>2. mem' \in Good(owner)
    <3>1. List(mem, "claimed") \subseteq Live(mem)
      BY DEF List
    <3>2. ASSUME NEW ids \in SUBSET List(mem, "claimed"), mem' = Release(mem, ids)
          PROVE  mem' \in Good(owner)
      BY <1>2, <3>1, <3>2, ReleaseGood
    <3> QED
      BY <1>2, <2>1, <3>2, RemoveGood
  <2> QED
    BY <1>s, <2>1, <2>2
<1>11. ASSUME NEW t \in Threads, (t = Cleaner /\ FinishPurge) \/ ReadMaxSeq(t) \/ ListJobs(t) \/ TaskFails(t)
       PROVE  OwnedInv'
  <2>1. Lasting' /\ Carries({}) /\ mem' = mem
    BY <1>2, <1>11, SnapshotMovesLasts
  <2> QED
    BY <1>2, <1>s, <2>1
<1>12. ASSUME NEW t \in Threads, Save(t) \/ Truncate(t)
       PROVE  OwnedInv'
  <2>1. SavedJobs \subseteq [JobIds -> Job \cup {NoJob}]
    BY <1>1 DEF Owned, GoodJobs
  <2>2. Lasting' /\ Carries({}) /\ mem' = mem
    BY <1>2, <1>12, <2>1, SnapshotWritesLasts
  <2> QED
    BY <1>2, <1>s, <2>2
<1>13. CASE Tick \/ Exit \/ Crash \/ Open \/ UNCHANGED vars
  <2>1. Lasting' /\ Carries({}) /\ mem' \in {mem, Empty, recovered}
    BY <1>2, <1>13, WorldLasts
  <2>2. mem' \in Good(owner)
    BY <1>1, <1>2, <2>1, EmptyGood, RecoveredGood
  <2> QED
    BY <1>s, <2>1, <2>2
<1>14. Clients \subseteq Threads /\ Tasks \subseteq Threads
  BY DEF Threads
<1>15. RemovePurged \/ FinishPurge => Cleaner \in Threads
  BY DEF RemovePurged, FinishPurge, Threads
<1> QED
  BY <1>3, <1>4, <1>5, <1>6, <1>7, <1>8, <1>9, <1>10, <1>11, <1>12, <1>13, <1>14, <1>15 DEF Next
\* Leases, rows and calls agree with the log, whatever crashes and restarts.
LEMMA OwnedInvariance ==
    ASSUME JsonTimes
    PROVE  Spec => []OwnedInv
<1>1. Init => OwnedInv
  BY OwnedInit
<1>2. OwnedInv /\ GrantInv /\ [Next]_vars => OwnedInv'
  BY OwnedNext
<1> QED
  BY <1>1, <1>2, GrantInvariance, PTL DEF Spec

\* Every variable keeps its type through crashes and restarts, with any number
\* of threads, as long as what JSON reads of a time is a time.
THEOREM Types ==
    ASSUME JsonTimes
    PROVE  Spec => []TypeOK
<1>1. OwnedInv /\ GrantInv => TypeOK
  <2> SUFFICES ASSUME OwnedInv, GrantInv
               PROVE  TypeOK
    OBVIOUS
  <2>1. ASSUME NEW t \in Threads
        PROVE  UNION {Pending(t)} \subseteq Event
    <3>1. t \in Busy => call[t].event \in Event
      BY DEF OwnedInv, Lasting, CallTyped, Busy
    <3>2. Pending(t) \subseteq Event
      BY <3>1 DEF Pending, Busy
    <3> HIDE DEF Event
    <3> QED
      BY <3>2
  <2>2. Lasting /\ mem \in SpaceType
    BY DEF OwnedInv, Owned, Good
  <2>3. DOMAIN call = Threads
    BY DEF GrantInv, Shapes
  <2> HIDE DEF Event
  <2> QED
    BY <2>1, <2>2, <2>3 DEF TypeOK, Lasting, LogTyped
<1> QED
  BY <1>1, OwnedInvariance, GrantInvariance, PTL

\* No lease is two jobs', in memory or in what a crash would leave to load, and
\* a job has one exactly while it is claimed: although replay asks nothing of
\* the job a claim is replayed on, and calls of several threads are logged in
\* another order than they were made (replay.rs:29-55, space.rs:245-272).
THEOREM LeasesLast ==
    ASSUME JsonTimes
    PROVE  Spec => []LeasesKept
<1>1. OwnedInv => LeasesKept
  BY RecoveredGood, GoodExclusive DEF OwnedInv, Owned, LeasesKept
<1> QED
  BY <1>1, OwnedInvariance, PTL

\* Whether a report is refused before it is logged or after, the worker is
\* told the same, also by a process that started from a log (routes.rs and
\* persistent_space.rs:74-79).
THEOREM ReportsAlikeAfterRestart ==
    ASSUME JsonTimes
    PROVE  Spec => []ReportsAnsweredAlike
<1>1. OwnedInv => ReportsAnsweredAlike
  <2> SUFFICES ASSUME OwnedInv, NEW id \in JobIds, NEW lease \in LeaseIds
               PROVE  StatusCode(EarlyOutcome(mem, id, lease)) = StatusCode(ReportOutcome(mem, id, lease))
    BY DEF ReportsAnsweredAlike
  <2>1. CASE id \notin Live(mem)
    BY <2>1 DEF EarlyOutcome, ReportOutcome
  <2>2. CASE id \in Live(mem)
    <3>1. (mem.jobs[id].status = "claimed") <=> (mem.jobs[id].lease_id # Nil)
      BY <2>2, GoodJob DEF OwnedInv, Owned, LeasedOK
    <3>2. id \notin List(mem, "claimed") => mem.jobs[id].lease_id # lease
      BY <2>2, <3>1, NilAssumption DEF List
    <3> QED
      BY <2>2, <3>2 DEF EarlyOutcome, ReportOutcome, StatusCode
  <2> QED
    BY <2>1, <2>2
<1> QED
  BY <1>1, OwnedInvariance, PTL

\* The steps that change the space; a crash ends no run, and a start finds none.
LEMMA RunEndsByHolder ==
    ASSUME OwnedInv, GrantInv, [Next]_vars
    PROVE  ReportedByHolder(mem, mem')
<1>s. Lasting /\ Shapes /\ mem \in SpaceType
  BY DEF OwnedInv, GrantInv, Owned, Good
<1>1. CASE mem' = mem
  BY <1>1, StutterEndsNoRun
<1>2. ASSUME NEW t \in Clients, BeginClaim(t)
      PROVE  ReportedByHolder(mem, mem')
  <2>1. PICK type \in JobTypes : \E key \in OldestKeys(mem, type),
            lease \in FreshLeases, ttl \in Ttls, worker \in Workers \cup {Nil} :
                mem' = ClaimKey(mem, key, lease, ttl, worker, clock)
    BY <1>2 DEF BeginClaim
  <2>2. PICK key \in mem.pending, lease \in FreshLeases, ttl \in Ttls, worker \in Workers \cup {Nil} :
                mem' = ClaimKey(mem, key, lease, ttl, worker, clock)
    BY <2>1 DEF OldestKeys
  <2> QED
    BY <1>s, <2>2, ClaimEndsNoRun
<1>3. ASSUME NEW t \in Clients, Heartbeat(t)
      PROVE  ReportedByHolder(mem, mem')
  <2>1. PICK id \in JobIds, lease \in LeaseIds, until \in Int : mem' = ExtendLease(mem, id, lease, until)
    BY <1>s, <1>3, HeartbeatLasts
  <2> QED
    BY <1>s, <2>1, OthersEndNoRun
<1>4. ASSUME NEW t \in Clients, ApplyRequest(t)
      PROVE  ReportedByHolder(mem, mem')
  <2> DEFINE event == call[t].event
  <2>1. t \in Busy /\ call[t].pc = "apply" /\ mem' = Apply(mem, event) /\ event \in Event
    BY <1>s, <1>4, RequestEndsLasts DEF ApplyRequest
  <2>2. event.op \notin {"claim", "expire", "purge"}
    BY <2>1 DEF Lasting, OwnedInv, CallTyped, GrantInv, ClaimFresh, Busy
  <2>3. event.id \in JobIds /\ event.op \in {"enqueue", "complete", "fail", "cancel", "retry"}
    BY <2>1, <2>2 DEF Event
  <2> HIDE DEF event
  <2>4. CASE event.op = "enqueue"
    BY <1>s, <2>1, <2>3, <2>4, NewJobEndsNoRun DEF Apply
  <2>5. CASE event.op \in {"complete", "fail"}
    BY <1>s, <2>1, <2>3, <2>5, ReportsByHolder DEF Apply
  <2>6. CASE event.op \in {"cancel", "retry"}
    BY <1>s, <2>1, <2>3, <2>6, OthersEndNoRun DEF Apply
  <2> QED
    BY <2>3, <2>4, <2>5, <2>6
<1>5. ASSUME NEW t \in Threads, FinishRelease(t) \/ (t = Cleaner /\ RemovePurged)
      PROVE  ReportedByHolder(mem, mem')
  <2>1. \/ \E ids \in SUBSET List(mem, "claimed") : mem' = Release(mem, ids)
        \/ \E id \in JobIds : mem' = RemoveJob(mem, id)
    BY <1>s, <1>5, TaskChangesLasts
  <2> QED
    BY <1>s, <2>1, ReleaseEndsNoRun, OthersEndNoRun
<1>6. CASE Exit \/ Crash
  BY <1>6 DEF Exit, Crash, Stop, Empty, ReportedByHolder, List, Live
<1>7. CASE Open
  BY <1>s, <1>7 DEF Open, Lasting, Empty, ReportedByHolder, List, Live
<1>8. CASE BeginReap \/ BeginShutdown \/ BeginCleanup \/ AppendPurge \/ FinishPurge \/ Tick \/ UNCHANGED vars
  BY <1>1, <1>8 DEF BeginReap, BeginShutdown, BeginCleanup, AppendPurge, FinishPurge, Tick, vars
<1>9. ASSUME NEW t \in Clients,
             \/ BeginEnqueue(t) \/ BeginComplete(t) \/ BeginFail(t) \/ BeginCancel(t)
             \/ BeginRetry(t) \/ AppendRequest(t) \/ AppendRequestFails(t)
      PROVE  ReportedByHolder(mem, mem')
  BY <1>1, <1>9 DEF BeginEnqueue, BeginComplete, BeginFail, BeginReport, BeginCancel, BeginRetry,
                    AppendRequest, AppendRequestFails
<1>10. ASSUME NEW t \in Tasks,
              \/ AppendExpire(t) \/ ReadMaxSeq(t) \/ ListJobs(t) \/ Save(t) \/ Truncate(t)
              \/ TaskFails(t)
       PROVE  ReportedByHolder(mem, mem')
  BY <1>1, <1>10 DEF AppendExpire, ReadMaxSeq, ListJobs, Save, Truncate, TaskFails
<1>11. Tasks \subseteq Threads /\ (RemovePurged => Cleaner \in Threads)
  BY DEF RemovePurged, Threads
<1> QED
  BY <1>2, <1>3, <1>4, <1>5, <1>6, <1>7, <1>8, <1>9, <1>10, <1>11 DEF Next

\* Only the run whose lease is good can end a job, in every process that serves
\* the file and across restarts between them (persistent_space.rs:72-104).
THEOREM HoldersReportAfterRestart ==
    ASSUME JsonTimes
    PROVE  Spec => HolderReports
<1>1. OwnedInv /\ GrantInv /\ [Next]_vars => [ReportedByHolder(mem, mem')]_vars
  BY RunEndsByHolder
<1>2. ReportedByHolder(mem, mem') <=>
        \A id \in JobIds :
            /\ StatusOf(mem, id) = "claimed"
            /\ StatusOf(mem', id) \in {"done", "failed"}
            => mem.jobs[id].lease_id \in {mem'.jobs[id].result, mem'.jobs[id].error}
  BY DEF ReportedByHolder, StatusOf, List, Live
<1> QED
  BY <1>1, <1>2, OwnedInvariance, GrantInvariance, PTL DEF Spec, HolderReports

-----------------------------------------------------------------------------
(* The history of one job.                                                 *)

\* Only what a snapshot covers is truncated.
NoRows ==
    log.snapshots = <<>> => log.deleted = 0 /\ \A t \in Threads : call[t].pc # "truncate"

\* One thread goes on.
LEMMA ThreadMoves ==
    ASSUME Shapes, NEW t \in Threads, NEW new, call' = [call EXCEPT ![t] = new]
    PROVE  call'[t] = new /\ \A other \in Threads \ {t} : call'[other] = call[other]
BY DEF Shapes

LEMMA NoRowsNext ==
    ASSUME Lasting, Shapes, NoRows, [Next]_vars
    PROVE  NoRows'
<1> DEFINE Written(l) == l.snapshots = log.snapshots /\ l.deleted = log.deleted
           Moves(t) == \E new : new.pc # "truncate" /\ call' = [call EXCEPT ![t] = new]
<1>1. ASSUME Written(log'), call' = call \/ \E t \in Threads : Moves(t)
      PROVE  NoRows'
  <2>1. \A t \in Threads : call'[t] = call[t] \/ call'[t].pc # "truncate"
    BY <1>1, ThreadMoves
  <2> QED
    BY <1>1, <2>1 DEF NoRows
<1>2. \A event : Written(AppendEvent(log, event))
  BY DEF Shapes, AppendEvent
<1>c. Clients \subseteq Threads /\ Tasks \subseteq Threads /\ Idle.pc # "truncate"
  BY DEF Threads, Idle
<1>3. ASSUME NEW t \in Clients, \/ BeginEnqueue(t) \/ BeginClaim(t) \/ BeginComplete(t)
                                \/ BeginFail(t) \/ BeginCancel(t) \/ BeginRetry(t) \/ Heartbeat(t)
      PROVE  NoRows'
  <2>1. log' = log /\ (call' = call \/ \E event : Log(t, event))
    BY <1>3 DEF BeginEnqueue, BeginClaim, BeginComplete, BeginFail, BeginReport, BeginCancel,
                BeginRetry, Heartbeat
  <2>2. \A event : Log(t, event) => Moves(t)
    BY DEF Log
  <2> QED
    BY <1>1, <1>c, <2>1, <2>2
<1>4. ASSUME NEW t \in Clients, AppendRequest(t) \/ AppendRequestFails(t) \/ ApplyRequest(t)
      PROVE  NoRows'
  <2>1. Written(log')
    BY <1>2, <1>4 DEF AppendRequest, AppendRequestFails, ApplyRequest, WriteLog
  <2> DEFINE next == IF call[t].event.op = "claim" THEN Idle
                     ELSE [pc |-> "apply", event |-> call[t].event]
  <2>2. call' = [call EXCEPT ![t] = next] \/ call' = [call EXCEPT ![t] = Idle]
    BY <1>4 DEF AppendRequest, AppendRequestFails, ApplyRequest
  <2>3. next.pc # "truncate"
    BY <1>c
  <2> HIDE DEF next
  <2>4. Moves(t)
    BY <1>c, <2>2, <2>3
  <2> HIDE DEF Moves, Written
  <2> QED
    BY <1>1, <1>c, <2>1, <2>4
<1>5. CASE BeginReap \/ BeginShutdown \/ BeginCleanup
  <2>1. log' = log /\ \E t \in Tasks : Moves(t)
    BY <1>5 DEF BeginReap, BeginShutdown, BeginCleanup, BeginRelease
  <2> QED
    BY <1>1, <1>c, <2>1
<1>6. CASE AppendPurge \/ RemovePurged \/ FinishPurge
  <2>1. Written(log')
    BY <1>2, <1>6 DEF AppendPurge, RemovePurged, FinishPurge, WriteLog
  <2>2. Cleaner \in Tasks /\ Moves(Cleaner)
    BY <1>6 DEF AppendPurge, RemovePurged, FinishPurge
  <2> HIDE DEF Moves, Written
  <2> QED
    BY <1>1, <1>c, <2>1, <2>2
<1>7. ASSUME NEW t \in Tasks, AppendExpire(t)
      PROVE  NoRows'
  <2>1. Written(log')
    BY <1>2, <1>7 DEF AppendExpire, WriteLog
  <2>2. PICK id : call' = [call EXCEPT ![t].todo = @ \ {id}]
    BY <1>7 DEF AppendExpire
  <2> DEFINE new == [call[t] EXCEPT !.todo = @ \ {id}]
  <2>3. new.pc = call[t].pc /\ call[t].pc = "release"
    BY <1>7 DEF AppendExpire
  <2>4. call' = [call EXCEPT ![t] = new]
    BY <2>2
  <2> HIDE DEF new
  <2>5. Moves(t)
    BY <2>3, <2>4
  <2> HIDE DEF Moves, Written
  <2> QED
    BY <1>1, <1>c, <2>1, <2>5
<1>8. ASSUME NEW t \in Tasks, FinishRelease(t)
      PROVE  NoRows'
  <2> DEFINE next == IF t = Main THEN [pc |-> "max_seq"] ELSE Idle
  <2>1. log' = log /\ call' = [call EXCEPT ![t] = next]
    BY <1>8 DEF FinishRelease
  <2>2. next.pc # "truncate"
    BY <1>c
  <2> HIDE DEF next
  <2> QED
    BY <1>1, <1>c, <2>1, <2>2
<1>9. ASSUME NEW t \in Tasks, ReadMaxSeq(t) \/ ListJobs(t) \/ TaskFails(t)
      PROVE  NoRows'
  <2>1. log' = log
    BY <1>9 DEF ReadMaxSeq, ListJobs, TaskFails
  <2>2. Moves(t)
    BY <1>9, <1>c DEF ReadMaxSeq, ListJobs, TaskFails, Leave
  <2> HIDE DEF Moves
  <2> QED
    BY <1>1, <1>c, <2>1, <2>2
<1>10. ASSUME NEW t \in Tasks, Save(t)
       PROVE  NoRows'
  <2> DEFINE row == [seq |-> call[t].seq, ts |-> call[t].ts, jobs |-> call[t].jobs]
  <2>1. log'.snapshots = Append(log.snapshots, row)
    BY <1>10 DEF Save, WriteLog, SaveSnapshot, Shapes
  <2>2. log.snapshots \in Seq(Snapshot)
    BY DEF Lasting, LogTyped
  <2> HIDE DEF Snapshot, row
  <2>3. log'.snapshots # <<>>
    BY <2>1, <2>2
  <2> QED
    BY <2>3 DEF NoRows
<1>11. ASSUME NEW t \in Tasks, Truncate(t)
       PROVE  NoRows'
  <2>1. log.snapshots # <<>>
    BY <1>11, <1>c DEF Truncate, NoRows
  <2>2. log'.snapshots = log.snapshots
    BY <1>11 DEF Truncate, WriteLog, TruncateBefore, Shapes
  <2> QED
    BY <2>1, <2>2 DEF NoRows
<1>12. CASE Tick \/ Exit \/ Crash \/ Open \/ UNCHANGED vars
  <2>1. log' = log /\ \A t \in Threads : call'[t] = call[t] \/ call'[t].pc = "idle"
    BY <1>12, WorldLasts
  <2> QED
    BY <2>1 DEF NoRows
<1> HIDE DEF Written, Moves
<1> QED
  BY <1>3, <1>4, <1>5, <1>6, <1>7, <1>8, <1>9, <1>10, <1>11, <1>12 DEF Next

\* The events that GET /jobs/{id}/events answers, replayed alone, end in the
\* job that a restart would bring back, as long as nothing was compacted away:
\* no other job's events change it, whatever crashes, fails or overlaps
\* (routes.rs:301-327, sqlite.rs:148-161).
THEOREM HistoryExplains ==
    ASSUME JsonTimes
    PROVE  Spec => []JobHistoryExplains
<1>1. OwnedInv /\ NoRows => JobHistoryExplains
  <2> SUFFICES ASSUME OwnedInv, NoRows, log.snapshots = <<>>, NEW id \in JobIds
               PROVE  Replay(Empty.jobs, LoadEventsForJob(log, id)).jobs[id] = recovered.jobs[id]
    BY DEF JobHistoryExplains
  <2>1. PICK owner : Owned(owner)
    BY DEF OwnedInv
  <2>2. LogGood(log, owner) /\ recovered = Load(log)
    BY <2>1 DEF OwnedInv, Lasting, Owned, LogGood, KnownEvents, SavedJobs
  <2>3. log.deleted = 0
    BY DEF NoRows
  <2> QED
    BY <2>2, <2>3, HistoryOfOne
<1>2. Init => NoRows
  BY DEF Init, NoRows, NewLog, Idle
<1>3. OwnedInv /\ GrantInv /\ NoRows /\ [Next]_vars => NoRows'
  BY NoRowsNext DEF OwnedInv, GrantInv
<1> QED
  BY <1>1, <1>2, <1>3, OwnedInvariance, GrantInvariance, PTL DEF Spec
=============================================================================
