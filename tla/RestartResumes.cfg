SPECIFICATION FairSpec
CONSTANTS
    Jobs = {1}
    Priority <- EqualPriority
    MaxCapacity = 3
    Unknown = Unknown
    Workers = {1}
    Devices = {1}
    AllocIds = {a1}
    TotalMemory = 1
    Registrations <- AllDevices
    NoWorker = NoWorker
    NoAllocation = NoAllocation
    NoId = NoId
    Absent = Absent
    NoLease = NoLease
    Req <- OneGpuEach
    Cpus <- Plenty
    Ram <- Plenty
    MaxGpuLimit = 2
    MaxCpuLimit = 2
    GangScheduling = TRUE
    WorkerChurn = FALSE
    MaxCrashes = 1
    MaxReschedules = 0
PROPERTIES RestartResumes
