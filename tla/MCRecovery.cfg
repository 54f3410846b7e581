SPECIFICATION MCSpec
CONSTANTS
    Jobs = {1, 2, 3}
    Priority <- LastIsUrgent
    MaxCapacity = 2
    Unknown = Unknown
    Workers = {1}
    Devices = {1}
    AllocIds = {a1, a2}
    TotalMemory = 1
    Registrations <- AllDevices
    NoWorker = NoWorker
    NoAllocation = NoAllocation
    NoId = NoId
    Absent = Absent
    NoLease = NoLease
    Req <- LastIsTooLarge
    Cpus <- Plenty
    Ram <- Plenty
    MaxGpuLimit = 2
    MaxCpuLimit = 2
    GangScheduling = FALSE
    WorkerChurn = FALSE
    MaxCrashes = 0
    MaxReschedules = 1
    WatchedJobs = {1}
    WatchedWorkers = {w1, w2}
    NotRegistered = NotRegistered
    NotTracked = NotTracked
    MaxRestarts = 1
INVARIANTS TypeOK RowsAgree RecoveredOnce
PROPERTIES HandedOutInOrder LifecycleSpec EveryJobEnds SilentIsDeclared CrashIsDeclared
