CONSTANTS
    JobIds = {j1}
    JobTypes = {email}
    LeaseIds = {l1}
    Workers = {}
    MaxU8 = 2
    NoJob = NoJob
    Nil = Nil
    JsonTime <- ShiftedTime
    NullResults = {}
    Clients = {c1}
    Reaper = reaper
    Cleaner = cleaner
    Main = main
    Tasks = {cleaner}
    Workload = {"enqueue", "cancel"}
    IoFaults = FALSE
    Crashes = TRUE
    Disconnects = TRUE
    Ttls = {0}
    RetryLimits = {1}
    PurgeAge = 0
    MaxInFlight = 1
    MaxEvents = 3
    MaxSnapshots = 2
    MaxTime = 2
    MaxPolls = 1
    MaxQuestions = 1
SPECIFICATION PageSpec
PROPERTIES
    TimeMachineExact
CHECK_DEADLOCK FALSE
