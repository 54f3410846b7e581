SPECIFICATION BenchSpec
CONSTANTS
    Req <- FourJobs
    Priority <- Priorities
    Submitted <- SubmissionTimes
    AgingPeriod = 10
    CpuWeight = 1
    Clusters <- TwoWorkers
    Times = {12, 30}
    Fleets <- TrialFleets
    Counts = {4}
    Intervals = {1, 2}
    LongestGap = 1
    BurstSize = 2
    Durations = {1, 3}
    MaxSteps = 16
INVARIANTS BenchTypeOK WithinCapacity WholeOrNothing NothingFittingLeft VramConserved FeasibleJobsComplete DiagnosisIsRight
PROPERTIES BestOfAll
