SPECIFICATION Spec
CONSTANTS
    Jobs = {j1, j2}
    Workers = {w1, w2}
    Devices = {d1, d2}
    AllocIds = {a1, a2}
    TotalMemory = 2
    Requests = {1}
    Registrations <- AllDevices
    NoWorker = NoWorker
    NoAllocation = NoAllocation
    NoId = NoId
    Absent = Absent
    NoLease = NoLease
SYMMETRY Symmetry
INVARIANTS TypeOK AvailableIsUnheld StoreMirrors
PROPERTIES LeaseSpec
