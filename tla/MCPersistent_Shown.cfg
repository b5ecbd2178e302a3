CONSTANTS
    JobIds = {j1}
    JobTypes = {email}
    LeaseIds = {l1, l2}
    Workers = {}
    MaxU8 = 2
    NoJob = NoJob
    Nil = Nil
    JsonTime <- ShiftedTime
    NullResults = {}
    Clients = {c1, c2}
    Reaper = reaper
    Cleaner = cleaner
    Main = main
    Tasks = {reaper, cleaner}
    Workload = {"enqueue", "claim", "complete", "fail", "cancel", "retry", "extend"}
    IoFaults = FALSE
    Crashes = FALSE
    Disconnects = TRUE
    Ttls = {0}
    RetryLimits = {1}
    PurgeAge = 0
    MaxInFlight = 3
    MaxEvents = 4
    MaxSnapshots = 1
    MaxTime = 1
SPECIFICATION Spec
SYMMETRY Interchangeable
INVARIANTS
    
    RetriesBounded
    ReportsAnsweredAlike
PROPERTIES
    ShownIsJobQueue
    MemoryIsTupleSpace
    HolderReports
CHECK_DEADLOCK FALSE
