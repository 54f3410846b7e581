SPECIFICATION FairSpec
CONSTANTS
    MaxPid = 3
    MaxRestarts = 1
    WorldSize = 2
    Init1 = Init1
    Server = Server
INVARIANTS TypeOK EndedIsDead OutcomeIsTrue
PROPERTIES SweepSparesJobs StraysAreSwept
