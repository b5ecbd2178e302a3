CONSTANTS
    JobIds = {j1}
    JobTypes = {email}
    LeaseIds = {l1, l2}
    Workers = {}
    MaxU8 = 2
    NoJob = NoJob
    Nil = Nil
    JsonTime <- ShiftedTime
    NullResults = {}
    Clients = {c1}
    Reaper = reaper
    Cleaner = cleaner
    Main = main
    Tasks = {cleaner}
    Workload = {"enqueue", "claim", "fail", "retry"}
    IoFaults = FALSE
    Crashes = TRUE
    Disconnects = TRUE
    Ttls = {0}
    RetryLimits = {1}
    PurgeAge = 0
    MaxInFlight = 2
    MaxEvents = 5
    MaxSnapshots = 2
    MaxTime = 1
SPECIFICATION Spec
PROPERTIES
    OnlyEndedForgotten
CHECK_DEADLOCK FALSE
