------------------------------ MODULE JobQueue ------------------------------
(***************************************************************************)
(* What the queue promises its clients, with no index, clock or log: every *)
(* job moves through its life cycle, at most one lease is good for it at a *)
(* time, and a lease that was taken back is never good again.              *)
(***************************************************************************)
CONSTANTS JobIds, LeaseIds, NoLease

VARIABLES
    state,      \* where each job is in its life cycle
    holder,     \* the lease that is good for the job
    granted     \* every lease ever granted

vars == <<state, holder, granted>>

Ended == {"done", "failed", "cancelled"}
States == {"unborn", "pending", "claimed", "removed"} \cup Ended

TypeOK ==
    /\ state \in [JobIds -> States]
    /\ holder \in [JobIds -> LeaseIds \cup {NoLease}]
    /\ granted \subseteq LeaseIds

Init ==
    /\ state = [id \in JobIds |-> "unborn"]
    /\ holder = [id \in JobIds |-> NoLease]
    /\ granted = {}

Move(id, from, to) ==
    /\ state[id] = from
    /\ state' = [state EXCEPT ![id] = to]

TakeBack(id) == holder' = [holder EXCEPT ![id] = NoLease]

Submit(id) ==
    /\ Move(id, "unborn", "pending")
    /\ UNCHANGED <<holder, granted>>

Grant(id, lease) ==
    /\ Move(id, "pending", "claimed")
    /\ lease \notin granted
    /\ granted' = granted \cup {lease}
    /\ holder' = [holder EXCEPT ![id] = lease]

\* The holder ends its run: the job is done, failed, or pending again.
Finish(id) ==
    /\ Move(id, "claimed", "done")
    /\ TakeBack(id)
    /\ UNCHANGED granted

GiveUp(id) ==
    /\ Move(id, "claimed", "failed")
    /\ TakeBack(id)
    /\ UNCHANGED granted

\* Leases taken back, the jobs pending again: a failed run with retries left
\* gives back one job, the reaper any number at once.
Return(ids) ==
    /\ ids # {}
    /\ \A id \in ids : state[id] = "claimed"
    /\ state' = [id \in JobIds |-> IF id \in ids THEN "pending" ELSE state[id]]
    /\ holder' = [id \in JobIds |-> IF id \in ids THEN NoLease ELSE holder[id]]
    /\ UNCHANGED granted

Withdraw(id) ==
    /\ Move(id, "pending", "cancelled")
    /\ UNCHANGED <<holder, granted>>

Revive(id) ==
    /\ Move(id, "failed", "pending")
    /\ UNCHANGED <<holder, granted>>

\* Purging takes an id and asks nothing of the job's state.
Forget(id) ==
    /\ state[id] \notin {"unborn", "removed"}
    /\ state' = [state EXCEPT ![id] = "removed"]
    /\ TakeBack(id)
    /\ UNCHANGED granted

Next ==
    \/ \E id \in JobIds :
           \/ Submit(id)
           \/ \E lease \in LeaseIds : Grant(id, lease)
           \/ Finish(id)
           \/ GiveUp(id)
           \/ Withdraw(id)
           \/ Revive(id)
           \/ Forget(id)
    \/ \E ids \in SUBSET JobIds : Return(ids)

Spec == Init /\ [][Next]_vars
=============================================================================
