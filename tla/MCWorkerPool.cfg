CONSTANTS
    JobIds = {j1, j2}
    JobTypes = {email}
    LeaseIds = {l1, l2, l3, l4}
    Workers = {w1, w2}
    MaxU8 = 2
    NoJob = NoJob
    Nil = Nil
    JobType = email
    Ttl = 1
    RetryLimits = {2}
    MaxSurprises = 2
SPECIFICATION FairSpec
INVARIANTS
    PromptKeepsLease
PROPERTIES
    EveryJobEnds
    WorkersCredited
CHECK_DEADLOCK FALSE
