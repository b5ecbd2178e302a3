CONSTANTS
    JobIds = {j1}
    JobTypes = {email}
    LeaseIds = {l1}
    Workers = {}
    MaxU8 = 2
    NoJob = NoJob
    Nil = Nil
    JsonTime <- ShiftedTime
    NullResults = {}
    Clients = {c1}
    Reaper = reaper
    Cleaner = cleaner
    Main = main
    Tasks = {cleaner, main}
    Workload = {"enqueue", "claim"}
    IoFaults = FALSE
    Crashes = FALSE
    Disconnects = FALSE
    Ttls = {0}
    RetryLimits = {1}
    PurgeAge = 0
    MaxInFlight = 2
    MaxEvents = 4
    MaxSnapshots = 2
    MaxTime = 1
SPECIFICATION Spec
INVARIANTS
    ShutdownReturnsJobs
CHECK_DEADLOCK FALSE
