CONSTANTS
    JobIds = {j1, j2}
    JobTypes = {email}
    LeaseIds = {l1, l2}
    Workers = {}
    MaxU8 = 2
    NoJob = NoJob
    Nil = Nil
    JsonTime <- ShiftedTime
    NullResults = {l1, l2}
    Clients = {c1}
    Reaper = reaper
    Cleaner = cleaner
    Main = main
    Tasks = {reaper, cleaner, main}
    Workload = {"enqueue", "claim", "complete", "fail", "cancel", "retry"}
    IoFaults = FALSE
    Crashes = TRUE
    Disconnects = TRUE
    Ttls = {0}
    RetryLimits = {1, 2}
    PurgeAge = 0
    MaxInFlight = 1
    MaxEvents = 5
    MaxSnapshots = 2
    MaxTime = 1
SPECIFICATION Spec
SYMMETRY Interchangeable
INVARIANTS
    TypeOK
    SpacesWellKept
    RecoveryExact
    ShutdownReturnsJobs
    RunsMeasured
PROPERTIES
    CompactionTransparent
    DurableIsJobQueue
CHECK_DEADLOCK FALSE
