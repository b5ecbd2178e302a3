CONSTANTS
    JobIds = {j1, j2}
    JobTypes = {email, image}
    LeaseIds = {l1, l2, l3}
    Workers = {}
    MaxU8 = 2
    NoJob = NoJob
    Nil = Nil
    Times = {1, 2}
    Ttls <- MCTtls
    RetryLimits <- MCLimits
SPECIFICATION Spec
SYMMETRY Interchangeable
INVARIANTS
    TypeOK
    PendingIndexExact
    LeasesExclusive
    RetriesBounded
    OutcomesRecorded
PROPERTIES
    ClaimsOldest
    HolderReports
    ImplementsJobQueue
