SPECIFICATION BenchSpec
CONSTANTS
    Req <- LargeBeforeSmall
    Priority <- NoPriorities
    Submitted <- InOrderOfArrival
    AgingPeriod = 10
    CpuWeight = 1
    Clusters = {}
    Times = {2}
    Fleets <- LopsidedFleet
    Counts = {3}
    Intervals = {1}
    LongestGap = 1
    BurstSize = 2
    Durations = {3}
    MaxSteps = 12
INVARIANT ArrivalFairness
