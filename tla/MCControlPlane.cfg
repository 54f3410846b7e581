SPECIFICATION Spec
CONSTANTS
    Jobs = {1, 2}
    Priority <- EqualPriority
    MaxCapacity = 3
    Unknown = Unknown
    Workers = {1, 2}
    Devices = {1}
    AllocIds = {a1, a2}
    TotalMemory = 1
    Registrations <- AllDevices
    NoWorker = NoWorker
    NoAllocation = NoAllocation
    NoId = NoId
    Absent = Absent
    NoLease = NoLease
    Req <- OneGpuEach
    Cpus <- Plenty
    Ram <- Plenty
    MaxGpuLimit = 2
    MaxCpuLimit = 2
    GangScheduling = FALSE
    WorkerChurn = TRUE
    MaxCrashes = 1
    MaxReschedules = 1
SYMMETRY Symmetry
CONSTRAINT CrashOrRecovery
INVARIANTS TypeOK NoSharedDevice LaunchedOnce RunsOnItsLease FinishedHoldsNothing
PROPERTIES OutcomeIsFinal NoLaunchAfterEnd
