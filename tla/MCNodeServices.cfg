SPECIFICATION NodeSpec
CONSTANTS
    Workers = {w1}
    NotRegistered = NotRegistered
    MaxLosses = 1
    MaxServerRestarts = 1
    DispatchJobs = {j1, j2}
    Nowhere = Nowhere
    MaxLaunches = 2
    ContainerJobs <- OneContainer
    NoPcieBusId = NoPcieBusId
    FallbackToNative = TRUE
    IsoJobs = {i1, i2, i3}
    Gpus <- GpuIds
    CleanGpuId <- Indexes
    PcieBusId <- BusIds
    NoBusId = NoBusId
    UsePcieBusId = TRUE
    Nobody = Nobody
    NoReservation = NoReservation
    MaxStep = 3
    Files = {f1, f2}
    Own = Own
    Keeps = {0, 1, 2}
    Threads = {t1, t2}
    Tasks = {k1, k2}
    NoLoop = NoLoop
INVARIANTS NodeTypeOK TablesAgreeAtRest ContainerEndIsTrue
PROPERTIES OfflineComesBack ToldIsTrue IsolationLease ResumePointKept StoppedLoopsEnd
