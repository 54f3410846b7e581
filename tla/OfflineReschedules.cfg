SPECIFICATION FairSpec
CONSTANTS
    Workers = {w1}
    Jobs = {j1}
    NotRegistered = NotRegistered
    NotTracked = NotTracked
    MaxRestarts = 0
PROPERTIES OfflineReschedules
