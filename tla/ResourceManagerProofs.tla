----------------------- MODULE ResourceManagerProofs -----------------------
(***************************************************************************)
(* Theorems about ResourceManager, for every set of jobs, workers, devices *)
(* and allocation ids.  TypeOK is not inductive by itself: the `+=` of     *)
(* allocate_resources yields a number only because an AVAILABLE device has *)
(* a memory entry.  Inv carries that fact, and the agreement of the index, *)
(* the allocations and the stored rows that a restart relies on.           *)
(***************************************************************************)
EXTENDS ResourceManager, TLAPS

\* What the methods do to the rows is visible to every proof below.
USE DEF SaveWorker, DeleteWorker, SaveAllocation, DeleteAllocation

\* The keys of an allocation are devices of the cluster.
LEMMA AllocationKeysType ==
    ASSUME NEW alloc \in Allocation
    PROVE  AllocationKeys(alloc) \subseteq Keys
BY DEF AllocationKeys, KeysOf, Allocation, Keys

\* A live allocation is an allocation record.
LEMMA LiveType ==
    ASSUME TypeOK, NEW a \in Live
    PROVE  /\ a \in AllocIds
           /\ allocations[a] \in Allocation
           /\ allocations[a].job \in Jobs
           /\ AllocationKeys(allocations[a]) \subseteq Keys
<1>1. a \in AllocIds /\ allocations[a] \in Allocation
    BY DEF TypeOK, Live
<1> QED
    BY <1>1, AllocationKeysType DEF Allocation

\* A device that allocate_resources accepts is AVAILABLE, with no VRAM charged.
LEMMA AcceptedDevices ==
    ASSUME Inv, NEW j \in Jobs, NEW w \in Workers, NEW D \in SUBSET Devices,
           NEW mem \in Requests, ~AllocationRefused(j, w, D, mem),
           NEW k \in KeysOf(w, D)
    PROVE  k \in Keys /\ deviceState[k] = "AVAILABLE" /\ deviceMemory[k] = 0
<1>1. PICK d \in D : k = <<w, d>>
    BY DEF KeysOf
<1>2. k \in Keys /\ k[1] = w /\ k[2] = d
    BY <1>1 DEF Keys
<1>3. k \in Registered(workers) /\ StateOf(k) = "AVAILABLE"
    BY <1>1 DEF AllocationRefused, DeviceRefused
<1>4. deviceState[k] # Absent
    BY <1>3 DEF Inv, RegisteredIsKnown
<1>5. deviceState[k] = "AVAILABLE"
    BY <1>3, <1>4 DEF StateOf
<1> QED
    BY <1>2, <1>5 DEF Inv, AvailableIsClean

LEMMA InitInv == Init => Inv
<1> SUFFICES ASSUME Init PROVE Inv
    OBVIOUS
<1>1. TypeOK
    BY DEF Init, TypeOK
<1>2. Live = {} /\ \A j \in Jobs : ~HasAllocation(j) /\ dbAllocations[j] = NoAllocation
    BY DEF Init, Live, HasAllocation
<1>3. \A k \in Keys : deviceState[k] # "AVAILABLE"
    BY AbsentAssumption DEF Init, ResourceStates
<1>4. Registered(workers) = {}
    BY DEF Init, Registered, Keys
<1> QED
    BY <1>1, <1>2, <1>3, <1>4
    DEF Inv, DeviceExclusive, AvailableIsUnheld, AvailableIsClean, StoreMirrors,
        RegisteredIsKnown

-----------------------------------------------------------------------------
(* The methods that leave the allocations alone *)

LEMMA RegisterWorkerInv ==
    ASSUME Inv, NEW w \in Workers, NEW info \in Registrations, RegisterWorker(w, info)
    PROVE  Inv'
<1> DEFINE new == {k \in KeysOf(w, info.devices) : deviceState[k] = Absent}
<1>1. info \in WorkerInfo
    BY RegistrationsAssumption
<1>2. TypeOK'
    BY <1>1 DEF Inv, TypeOK, RegisterWorker, ResourceStates
<1>3. UNCHANGED <<Live, allocations, jobAllocations, dbAllocations>>
    BY DEF RegisterWorker, Live
<1>4. \A k \in Keys : /\ k \in new => deviceState'[k] = "AVAILABLE" /\ deviceMemory'[k] = 0
                      /\ k \notin new => /\ deviceState'[k] = deviceState[k]
                                         /\ deviceMemory'[k] = deviceMemory[k]
    BY DEF RegisterWorker
<1>5. AvailableIsUnheld'
    <2> SUFFICES ASSUME NEW a \in Live, NEW k \in AllocationKeys(allocations[a])
                 PROVE  StateOf(k)' # "AVAILABLE"
        BY <1>3 DEF AvailableIsUnheld, AllocationKeys
    <2>1. k \in Keys /\ StateOf(k) # "AVAILABLE"
        BY LiveType DEF Inv, AvailableIsUnheld
    <2>2. k \notin new
        BY <2>1 DEF StateOf
    <2> QED
        BY <1>4, <2>1, <2>2 DEF StateOf
<1>6. DeviceExclusive' /\ StoreMirrors'
    BY <1>3 DEF Inv, DeviceExclusive, StoreMirrors, AllocationKeys, HasAllocation
<1>7. AvailableIsClean'
    BY <1>4 DEF Inv, AvailableIsClean
<1>8. RegisteredIsKnown'
    <2> SUFFICES ASSUME NEW k \in Registered(workers)' PROVE deviceState'[k] # Absent
        BY DEF RegisteredIsKnown
    <2>1. k \in Keys
        BY DEF Registered
    <2>2. CASE k \in KeysOf(w, info.devices)
        BY <1>4, <2>1, <2>2, AbsentAssumption DEF ResourceStates
    <2>3. CASE k \notin KeysOf(w, info.devices)
        <3>1. k[1] # w
            BY <2>1, <2>3 DEF Registered, RegisterWorker, Keys, KeysOf, Inv, TypeOK
        <3>2. k \in Registered(workers)
            BY <2>1, <3>1 DEF Registered, RegisterWorker, Inv, TypeOK, Keys
        <3> QED
            BY <1>4, <2>1, <2>3, <3>2 DEF Inv, RegisteredIsKnown
    <2> QED
        BY <2>2, <2>3
<1> QED
    BY <1>2, <1>5, <1>6, <1>7, <1>8 DEF Inv

LEMMA UnregisterWorkerInv ==
    ASSUME Inv, NEW w \in Workers, UnregisterWorker(w)
    PROVE  Inv'
<1>1. TypeOK'
    BY DEF Inv, TypeOK, UnregisterWorker, ResourceStates
<1>2. UNCHANGED <<Live, allocations, jobAllocations, dbAllocations, deviceMemory>>
    BY DEF UnregisterWorker, Live
<1>3. \A k \in Keys : deviceState'[k] \in {"UNAVAILABLE", deviceState[k]}
    BY DEF UnregisterWorker
<1>4. AvailableIsUnheld'
    <2> SUFFICES ASSUME NEW a \in Live, NEW k \in AllocationKeys(allocations[a])
                 PROVE  StateOf(k)' # "AVAILABLE"
        BY <1>2 DEF AvailableIsUnheld, AllocationKeys
    <2>1. k \in Keys /\ StateOf(k) # "AVAILABLE"
        BY LiveType DEF Inv, AvailableIsUnheld
    <2> QED
        BY <1>3, <2>1, AbsentAssumption DEF StateOf, ResourceStates
<1>5. DeviceExclusive' /\ StoreMirrors'
    BY <1>2 DEF Inv, DeviceExclusive, StoreMirrors, AllocationKeys, HasAllocation
<1>6. AvailableIsClean'
    BY <1>2, <1>3 DEF Inv, AvailableIsClean
<1>7. RegisteredIsKnown'
    <2>1. Registered(workers)' \subseteq Registered(workers)
        BY DEF UnregisterWorker, Registered, Inv, TypeOK, Keys
    <2> QED
        BY <1>3, <2>1, AbsentAssumption
        DEF Inv, RegisteredIsKnown, ResourceStates, Registered
<1> QED
    BY <1>1, <1>4, <1>5, <1>6, <1>7 DEF Inv

LEMMA UpdateDeviceStatusInv ==
    ASSUME Inv, NEW key \in Keys, NEW s \in ReportedStates, UpdateDeviceStatus(key, s)
    PROVE  Inv'
<1>1. TypeOK'
    BY DEF Inv, TypeOK, UpdateDeviceStatus, ReportedStates, ResourceStates, dbVars
<1>2. UNCHANGED <<Live, allocations, jobAllocations, dbAllocations, deviceMemory,
                  Registered(workers)>>
    BY DEF UpdateDeviceStatus, Live, dbVars, Registered
<1>3. \A k \in Keys : deviceState'[k] \in ReportedStates \cup {deviceState[k]}
    BY DEF UpdateDeviceStatus, Inv, TypeOK
<1>4. AvailableIsUnheld'
    <2> SUFFICES ASSUME NEW a \in Live, NEW k \in AllocationKeys(allocations[a])
                 PROVE  StateOf(k)' # "AVAILABLE"
        BY <1>2 DEF AvailableIsUnheld, AllocationKeys
    <2>1. k \in Keys /\ StateOf(k) # "AVAILABLE"
        BY LiveType DEF Inv, AvailableIsUnheld
    <2> QED
        BY <1>3, <2>1, AbsentAssumption DEF StateOf, ResourceStates, ReportedStates
<1>5. DeviceExclusive' /\ StoreMirrors'
    BY <1>2 DEF Inv, DeviceExclusive, StoreMirrors, AllocationKeys, HasAllocation
<1>6. AvailableIsClean'
    BY <1>2, <1>3 DEF Inv, AvailableIsClean, ReportedStates
<1>7. RegisteredIsKnown'
    BY <1>2, <1>3, AbsentAssumption
    DEF Inv, RegisteredIsKnown, ReportedStates, ResourceStates, Registered
<1> QED
    BY <1>1, <1>4, <1>5, <1>6, <1>7 DEF Inv

-----------------------------------------------------------------------------
(* Allocation and deallocation *)

LEMMA AllocateInv ==
    ASSUME Inv, NEW j \in Jobs, NEW w \in Workers, NEW D \in SUBSET Devices,
           NEW mem \in Requests, Allocate(j, w, D, mem)
    PROVE  Inv'
<1> DEFINE alloc == [job |-> j, worker |-> w, devices |-> D]
           K     == KeysOf(w, D)
<1>1. PICK new \in FreshIds :
          /\ allocations' = [allocations EXCEPT ![new] = alloc]
          /\ jobAllocations' = [jobAllocations EXCEPT ![j] = new]
    BY DEF Allocate
<1>2. /\ alloc \in Allocation /\ alloc.job = j /\ AllocationKeys(alloc) = K
      /\ new \in AllocIds \ Live /\ \A i \in Jobs : jobAllocations[i] # new
      /\ jobAllocations[j] = NoId
    BY DEF Allocation, AllocationKeys, FreshIds, Allocate, AllocationRefused
<1>3. \A k \in K : k \in Keys /\ deviceState[k] = "AVAILABLE" /\ deviceMemory[k] = 0
    BY AcceptedDevices DEF Allocate
<1>4. \A k \in Keys : /\ k \in K => deviceState'[k] = "ALLOCATED"
                      /\ k \notin K => /\ deviceState'[k] = deviceState[k]
                                       /\ deviceMemory'[k] = deviceMemory[k]
    BY DEF Allocate
<1>5. TypeOK'
    <2>1. deviceMemory' \in [Keys -> Nat \cup {Absent}]
        BY <1>3, MemoryAssumption DEF Allocate, Inv, TypeOK
    <2>2. /\ deviceState' \in [Keys -> ResourceStates \cup {Absent}]
          /\ dbAllocations' \in [Jobs -> Allocation \cup {NoAllocation}]
          /\ UNCHANGED <<workers, dbWorkers>>
        BY <1>2 DEF Allocate, Inv, TypeOK, ResourceStates
    <2>3. /\ allocations' \in [AllocIds -> Allocation \cup {NoAllocation}]
          /\ jobAllocations' \in [Jobs -> AllocIds \cup {NoId}]
        BY <1>1, <1>2 DEF Inv, TypeOK
    <2> QED
        BY <2>1, <2>2, <2>3 DEF Inv, TypeOK
<1>6. /\ Live' = Live \cup {new}
      /\ allocations'[new] = alloc
      /\ \A a \in Live : allocations'[a] = allocations[a]
    BY <1>1, <1>2, AbsentAssumption DEF Live, Inv, TypeOK
<1>7. ASSUME NEW a \in Live PROVE K \cap AllocationKeys(allocations[a]) = {}
    BY <1>3, AbsentAssumption DEF Inv, AvailableIsUnheld, StateOf, ResourceStates
<1>8. DeviceExclusive'
    BY <1>2, <1>6, <1>7 DEF Inv, DeviceExclusive, AllocationKeys
<1>9. AvailableIsUnheld'
    <2> SUFFICES ASSUME NEW a \in Live', NEW k \in AllocationKeys(allocations'[a])
                 PROVE  StateOf(k)' # "AVAILABLE"
        BY DEF AvailableIsUnheld, AllocationKeys
    <2>1. CASE a = new
        BY <1>2, <1>3, <1>4, <1>6, <2>1, AbsentAssumption DEF StateOf, ResourceStates
    <2>2. CASE a \in Live
        <3>1. k \in AllocationKeys(allocations[a]) /\ k \in Keys /\ k \notin K
            BY <1>6, <1>7, <2>2, LiveType DEF Inv
        <3> QED
            BY <1>4, <2>2, <3>1 DEF StateOf, Inv, AvailableIsUnheld
    <2> QED
        BY <1>6, <2>1, <2>2
<1>10. AvailableIsClean'
    BY <1>4 DEF Inv, AvailableIsClean
<1>11. dbAllocations' = [dbAllocations EXCEPT ![j] = alloc]
    BY DEF Allocate
<1>12. StoreMirrors'
    <2>1. ASSUME NEW a \in Live'
          PROVE  jobAllocations'[allocations'[a].job] = a
        <3>1. CASE a = new
            BY <1>1, <1>2, <1>6, <3>1 DEF Inv, TypeOK
        <3>2. CASE a \in Live
            <4>1. jobAllocations[allocations[a].job] = a /\ allocations[a].job \in Jobs
                BY <3>2, LiveType DEF Inv, StoreMirrors
            <4>2. allocations[a].job # j
                BY <1>2, <3>2, <4>1, AbsentAssumption, LiveType DEF Inv
            <4> QED
                BY <1>1, <1>6, <3>2, <4>1, <4>2 DEF Inv, TypeOK
        <3> QED
            BY <1>6, <3>1, <3>2
    <2>2. ASSUME NEW i \in Jobs
          PROVE  IF HasAllocation(i)'
                 THEN /\ dbAllocations'[i] = allocations'[jobAllocations'[i]]
                      /\ dbAllocations'[i].job = i
                 ELSE dbAllocations'[i] = NoAllocation
        <3>1. CASE i = j
            BY <1>1, <1>2, <1>6, <1>11, <3>1, AbsentAssumption DEF HasAllocation, Inv, TypeOK
        <3>2. CASE i # j
            BY <1>1, <1>2, <1>6, <1>11, <3>2 DEF HasAllocation, Inv, StoreMirrors, TypeOK
        <3> QED
            BY <3>1, <3>2
    <2> QED
        BY <2>1, <2>2 DEF StoreMirrors
<1>13. RegisteredIsKnown'
    <2>1. Registered(workers)' = Registered(workers)
        BY DEF Allocate, Registered
    <2> QED
        BY <1>4, <2>1, AbsentAssumption
        DEF Inv, RegisteredIsKnown, Registered, ResourceStates
<1> QED
    BY <1>5, <1>8, <1>9, <1>10, <1>12, <1>13 DEF Inv

\* Popping the live allocation a, whether or not its job's index entry goes too.
LEMMA FreeInv ==
    ASSUME Inv, NEW a \in Live, Free(a),
           jobAllocations' \in {jobAllocations, [jobAllocations EXCEPT ![allocations[a].job] = NoId]}
    PROVE  Inv'
<1> DEFINE j == allocations[a].job
           K == AllocationKeys(allocations[a])
<1>1. a \in AllocIds /\ j \in Jobs /\ K \subseteq Keys /\ jobAllocations[j] = a
    BY LiveType DEF Inv, StoreMirrors
<1>2. /\ \A i \in Jobs : i # j => jobAllocations'[i] = jobAllocations[i]
      /\ jobAllocations'[j] \in {a, NoId}
      /\ jobAllocations' \in [Jobs -> AllocIds \cup {NoId}]
    BY <1>1 DEF Inv, TypeOK
<1>3. \A k \in Keys : /\ k \in K => deviceState'[k] = "AVAILABLE" /\ deviceMemory'[k] = 0
                      /\ k \notin K => /\ deviceState'[k] = deviceState[k]
                                       /\ deviceMemory'[k] = deviceMemory[k]
    BY DEF Free
<1>4. TypeOK'
    BY <1>1, <1>2 DEF Free, Inv, TypeOK, ResourceStates
<1>5. /\ Live' = Live \ {a}
      /\ \A b \in Live' : allocations'[b] = allocations[b]
      /\ allocations' = [allocations EXCEPT ![a] = NoAllocation]
    BY <1>1 DEF Free, Live, Inv, TypeOK
<1>6. ASSUME NEW b \in Live' PROVE K \cap AllocationKeys(allocations[b]) = {}
    BY <1>5 DEF Inv, DeviceExclusive
<1>7. DeviceExclusive'
    BY <1>5 DEF Inv, DeviceExclusive, AllocationKeys
<1>8. AvailableIsUnheld'
    <2> SUFFICES ASSUME NEW b \in Live', NEW k \in AllocationKeys(allocations'[b])
                 PROVE  StateOf(k)' # "AVAILABLE"
        BY DEF AvailableIsUnheld, AllocationKeys
    <2>1. b \in Live /\ k \in AllocationKeys(allocations[b]) /\ k \in Keys /\ k \notin K
        BY <1>5, <1>6, LiveType DEF Inv
    <2> QED
        BY <1>3, <2>1 DEF StateOf, Inv, AvailableIsUnheld
<1>9. AvailableIsClean'
    BY <1>3 DEF Inv, AvailableIsClean
<1>10. StoreMirrors'
    <2>1. dbAllocations' = [dbAllocations EXCEPT ![j] = NoAllocation]
        BY DEF Free
    <2>2. ASSUME NEW b \in Live' PROVE jobAllocations'[allocations'[b].job] = b
        <3>1. jobAllocations[allocations[b].job] = b /\ allocations[b].job \in Jobs /\ b # a
            BY <1>5, LiveType DEF Inv, StoreMirrors
        <3> QED
            BY <1>1, <1>2, <1>5, <3>1
    <2>3. ASSUME NEW i \in Jobs
          PROVE  IF HasAllocation(i)'
                 THEN /\ dbAllocations'[i] = allocations'[jobAllocations'[i]]
                      /\ dbAllocations'[i].job = i
                 ELSE dbAllocations'[i] = NoAllocation
        <3>1. CASE i = j
            BY <1>1, <1>2, <1>5, <2>1, <3>1, AbsentAssumption DEF HasAllocation, Inv, TypeOK
        <3>2. CASE i # j
            <4>1. jobAllocations[i] = a => ~HasAllocation(i)
                BY <3>2 DEF HasAllocation, Inv, StoreMirrors
            <4>2. HasAllocation(i)' <=> HasAllocation(i)
                BY <1>2, <1>5, <3>2, <4>1 DEF HasAllocation
            <4> QED
                BY <1>1, <1>2, <1>5, <2>1, <3>2, <4>1, <4>2
                DEF HasAllocation, Inv, StoreMirrors, TypeOK
        <3> QED
            BY <3>1, <3>2
    <2> QED
        BY <2>2, <2>3 DEF StoreMirrors
<1>11. RegisteredIsKnown'
    <2>1. Registered(workers)' = Registered(workers)
        BY DEF Free, Registered
    <2> QED
        BY <1>3, <2>1, AbsentAssumption DEF Inv, RegisteredIsKnown, Registered, ResourceStates
<1> QED
    BY <1>4, <1>7, <1>8, <1>9, <1>10, <1>11 DEF Inv

LEMMA DeallocateJobInv ==
    ASSUME Inv, NEW j \in Jobs, DeallocateJob(j)
    PROVE  Inv'
<1>1. CASE HasAllocation(j)
    <2>1. jobAllocations[j] \in Live /\ allocations[jobAllocations[j]].job = j
        BY <1>1 DEF HasAllocation, Inv, StoreMirrors
    <2> QED
        BY <1>1, <2>1, FreeInv DEF DeallocateJob
<1>2. CASE ~HasAllocation(j)
    <2>1. /\ jobAllocations' = [jobAllocations EXCEPT ![j] = NoId]
          /\ UNCHANGED <<workers, deviceState, deviceMemory, allocations, dbWorkers,
                         dbAllocations, Live, Registered(workers)>>
        BY <1>2 DEF DeallocateJob, dbVars, Live, Registered
    <2>2. TypeOK'
        BY <2>1 DEF Inv, TypeOK
    <2>3. StoreMirrors'
        <3>1. ASSUME NEW a \in Live PROVE allocations[a].job # j
            BY <1>2, LiveType, AbsentAssumption DEF HasAllocation, Inv, StoreMirrors
        <3>2. \A i \in Jobs : HasAllocation(i)' <=> HasAllocation(i)
            BY <1>2, <2>1, AbsentAssumption DEF HasAllocation, Inv, TypeOK, Live
        <3> QED
            BY <1>2, <2>1, <3>1, <3>2, LiveType DEF HasAllocation, Inv, StoreMirrors, TypeOK
    <2>4. DeviceExclusive' /\ AvailableIsUnheld' /\ AvailableIsClean' /\ RegisteredIsKnown'
        BY <2>1
        DEF Inv, DeviceExclusive, AvailableIsUnheld, AvailableIsClean, RegisteredIsKnown,
            AllocationKeys, StateOf
    <2> QED
        BY <2>2, <2>3, <2>4 DEF Inv
<1> QED
    BY <1>1, <1>2

LEMMA DeallocateByIdInv ==
    ASSUME Inv, NEW a \in AllocIds, DeallocateById(a)
    PROVE  Inv'
BY FreeInv DEF DeallocateById

-----------------------------------------------------------------------------
(* A new process *)

\* The rows a restart reads are the allocations that were live.
LEMMA StoredType ==
    ASSUME Inv, NEW j \in StoredJobs
    PROVE  /\ j \in Jobs
           /\ dbAllocations[j] \in Allocation
           /\ dbAllocations[j].job = j
           /\ jobAllocations[j] \in Live
           /\ dbAllocations[j] = allocations[jobAllocations[j]]
<1>1. j \in Jobs /\ HasAllocation(j)
    BY DEF Inv, StoreMirrors, StoredJobs
<1> QED
    BY <1>1, LiveType DEF Inv, StoreMirrors, HasAllocation

LEMMA RestartInv ==
    ASSUME Inv, Restart
    PROVE  Inv'
<1> DEFINE held(k) == \E j \in StoredJobs : k \in AllocationKeys(dbAllocations[j])
<1>1. PICK ids \in [Jobs -> AllocIds \cup {NoId}] :
          /\ NewIds(ids)
          /\ allocations' =
                [a \in AllocIds |->
                    IF \E j \in StoredJobs : ids[j] = a
                    THEN dbAllocations[CHOOSE j \in StoredJobs : ids[j] = a]
                    ELSE NoAllocation]
          /\ jobAllocations' = ids
    BY DEF Restart
<1>2. /\ workers' = dbWorkers
      /\ UNCHANGED <<dbWorkers, dbAllocations, StoredJobs>>
      /\ deviceState' =
            [k \in Keys |-> IF held(k) THEN "ALLOCATED"
                            ELSE IF k \in Registered(dbWorkers) THEN "AVAILABLE" ELSE Absent]
      /\ deviceMemory' = [k \in Keys |-> IF k \in Registered(dbWorkers) THEN 0 ELSE Absent]
    BY DEF Restart, dbVars, StoredJobs
<1>3. ASSUME NEW j \in StoredJobs
      PROVE  ids[j] \in AllocIds /\ allocations'[ids[j]] = dbAllocations[j]
    <2>1. ids[j] \in AllocIds
        BY <1>1, StoredType DEF NewIds
    <2>2. (CHOOSE i \in StoredJobs : ids[i] = ids[j]) = j
        BY <1>1 DEF NewIds
    <2> QED
        BY <1>1, <2>1, <2>2
<1>4. ASSUME NEW a \in AllocIds, ~ \E j \in StoredJobs : ids[j] = a
      PROVE  allocations'[a] = NoAllocation
    BY <1>1, <1>4
<1>5. Live' = {ids[j] : j \in StoredJobs}
    BY <1>3, <1>4, StoredType, AbsentAssumption DEF Live
<1>6. TypeOK'
    <2>1. allocations' \in [AllocIds -> Allocation \cup {NoAllocation}]
        <3>1. ASSUME NEW a \in AllocIds PROVE allocations'[a] \in Allocation \cup {NoAllocation}
            BY <1>3, <1>4, StoredType
        <3> QED
            BY <1>1, <3>1
    <2>2. deviceState' \in [Keys -> ResourceStates \cup {Absent}]
        BY <1>2 DEF ResourceStates
    <2> QED
        BY <1>1, <1>2, <2>1, <2>2 DEF Inv, TypeOK
<1>7. DeviceExclusive'
    <2> SUFFICES ASSUME NEW a \in Live', NEW b \in Live', a # b
                 PROVE  AllocationKeys(allocations'[a]) \cap AllocationKeys(allocations'[b]) = {}
        BY DEF DeviceExclusive, AllocationKeys
    <2>1. PICK i \in StoredJobs, j \in StoredJobs : a = ids[i] /\ b = ids[j] /\ i # j
        BY <1>5
    <2>2. jobAllocations[i] # jobAllocations[j]
        BY <2>1, StoredType
    <2> QED
        BY <1>3, <2>1, <2>2, StoredType DEF Inv, DeviceExclusive
<1>8. AvailableIsUnheld'
    <2> SUFFICES ASSUME NEW a \in Live', NEW k \in AllocationKeys(allocations'[a])
                 PROVE  StateOf(k)' # "AVAILABLE"
        BY DEF AvailableIsUnheld, AllocationKeys
    <2>1. k \in Keys /\ held(k)
        BY <1>3, <1>5, StoredType, AllocationKeysType
    <2> QED
        BY <1>2, <2>1, AbsentAssumption DEF StateOf, ResourceStates
<1>9. AvailableIsClean'
    BY <1>2, AbsentAssumption DEF AvailableIsClean, ResourceStates
<1>10. StoreMirrors'
    <2>1. ASSUME NEW a \in Live' PROVE jobAllocations'[allocations'[a].job] = a
        BY <1>1, <1>3, <1>5, StoredType
    <2>2. ASSUME NEW j \in Jobs
          PROVE  IF HasAllocation(j)'
                 THEN /\ dbAllocations'[j] = allocations'[jobAllocations'[j]]
                      /\ dbAllocations'[j].job = j
                 ELSE dbAllocations'[j] = NoAllocation
        <3>1. CASE j \in StoredJobs
            <4>1. HasAllocation(j)'
                BY <1>1, <1>3, <1>5, <3>1, AbsentAssumption DEF HasAllocation
            <4> QED
                BY <1>1, <1>2, <1>3, <3>1, <4>1, StoredType
        <3>2. CASE j \notin StoredJobs
            <4>1. ~HasAllocation(j)'
                BY <1>1, <3>2 DEF HasAllocation, NewIds
            <4> QED
                BY <1>2, <3>2, <4>1 DEF StoredJobs
        <3> QED
            BY <3>1, <3>2
    <2> QED
        BY <2>1, <2>2 DEF StoreMirrors
<1>11. RegisteredIsKnown'
    BY <1>2, AbsentAssumption DEF RegisteredIsKnown, Registered, ResourceStates
<1> QED
    BY <1>6, <1>7, <1>8, <1>9, <1>10, <1>11 DEF Inv

-----------------------------------------------------------------------------
(* The theorems *)

LEMMA NextInv == Inv /\ [Next]_vars => Inv'
<1> SUFFICES ASSUME Inv, [Next]_vars PROVE Inv'
    OBVIOUS
<1>1. ASSUME NEW w \in Workers, NEW info \in Registrations, RegisterWorker(w, info)
      PROVE  Inv'
    BY <1>1, RegisterWorkerInv
<1>2. ASSUME NEW w \in Workers, UnregisterWorker(w) PROVE Inv'
    BY <1>2, UnregisterWorkerInv
<1>3. ASSUME NEW k \in Keys, NEW s \in ReportedStates, UpdateDeviceStatus(k, s) PROVE Inv'
    BY <1>3, UpdateDeviceStatusInv
<1>4. ASSUME NEW j \in Jobs, NEW w \in Workers, NEW D \in SUBSET Devices,
             NEW mem \in Requests, Allocate(j, w, D, mem)
      PROVE  Inv'
    BY <1>4, AllocateInv
<1>5. ASSUME NEW j \in Jobs, DeallocateJob(j) PROVE Inv'
    BY <1>5, DeallocateJobInv
<1>6. ASSUME NEW a \in AllocIds, DeallocateById(a) PROVE Inv'
    BY <1>6, DeallocateByIdInv
<1>7. CASE Restart
    BY <1>7, RestartInv
<1>8. CASE UNCHANGED vars
    BY <1>8
    DEF vars, Inv, TypeOK, DeviceExclusive, AvailableIsUnheld, AvailableIsClean, StoreMirrors,
        RegisteredIsKnown, Live, AllocationKeys, StateOf, HasAllocation, Registered
<1> QED
    BY <1>1, <1>2, <1>3, <1>4, <1>5, <1>6, <1>7, <1>8 DEF Next

\* The inductive invariant of the resource manager.
THEOREM Invariance == Spec => []Inv
BY InitInv, NextInv, PTL DEF Spec

\* The manager's books and the rows of the store always have their shape; in
\* particular allocate_resources never adds VRAM to a missing entry.
THEOREM TypeCorrect == Spec => []TypeOK
<1>1. Inv => TypeOK
    BY DEF Inv
<1> QED
    BY Invariance, <1>1, PTL

\* No device is ever in two live allocations (allocate_resources,
\* deallocate_resources, unregister_worker and load_from_storage in any order).
THEOREM Exclusive == Spec => []DeviceExclusive
<1>1. Inv => DeviceExclusive
    BY DEF Inv
<1> QED
    BY Invariance, <1>1, PTL

\* A device that reads as AVAILABLE is held by nobody.
THEOREM OfferedIsUnheld == Spec => []AvailableIsUnheld
<1>1. Inv => AvailableIsUnheld
    BY DEF Inv
<1> QED
    BY Invariance, <1>1, PTL

\* The rows of table allocations are what the jobs hold, so that a restart
\* rebuilds it.
THEOREM RowsMirrorAllocations == Spec => []StoreMirrors
<1>1. Inv => StoreMirrors
    BY DEF Inv
<1> QED
    BY Invariance, <1>1, PTL

-----------------------------------------------------------------------------
(* The manager implements DeviceLease *)

\* What the jobs hold according to the rows of table allocations.
StoredLease ==
    [j \in Jobs |-> IF dbAllocations[j] # NoAllocation THEN AllocationKeys(dbAllocations[j]) ELSE NoLease]

\* The leases are what the rows say, so that only a step that writes a row
\* changes one.
LEMMA LeaseIsStored == Inv => LeaseOf = StoredLease
<1> SUFFICES ASSUME Inv, NEW j \in Jobs
             PROVE  LeaseOf[j] = StoredLease[j]
    BY DEF LeaseOf, StoredLease
<1>1. \A a \in Live : allocations[a].job = j => a = jobAllocations[j]
    BY DEF Inv, StoreMirrors
<1>2. CASE HasAllocation(j)
    <2> DEFINE held == jobAllocations[j]
    <2>1. held \in Live /\ dbAllocations[j] = allocations[held] /\ allocations[held].job = j
        BY <1>2 DEF Inv, StoreMirrors, HasAllocation
    <2>2. {b \in Live : allocations[b].job = j} = {held}
        BY <1>1, <2>1
    <2>3. UNION {AllocationKeys(allocations[a]) : a \in {b \in Live : allocations[b].job = j}}
              = AllocationKeys(allocations[held])
        BY <2>2
    <2>4. allocations[held] # NoAllocation
        BY <2>1 DEF Live
    <2> QED
        BY <2>1, <2>3, <2>4 DEF LeaseOf, StoredLease
<1>3. CASE ~HasAllocation(j)
    <2>1. dbAllocations[j] = NoAllocation
        BY <1>3 DEF Inv, StoreMirrors
    <2>2. ~\E a \in Live : allocations[a].job = j
        BY <1>1, <1>3, AbsentAssumption DEF HasAllocation, Live
    <2> QED
        BY <2>1, <2>2 DEF LeaseOf, StoredLease
<1> QED
    BY <1>2, <1>3

\* allocate_resources acquires the lease of its job: no device it accepts is
\* in a stored allocation.
LEMMA AllocateAcquires ==
    ASSUME Inv, NEW j \in Jobs, NEW w \in Workers, NEW D \in SUBSET Devices,
           NEW mem \in Requests, Allocate(j, w, D, mem)
    PROVE  /\ StoredLease[j] = NoLease
           /\ \A i \in Jobs : StoredLease[i] # NoLease => StoredLease[i] \cap KeysOf(w, D) = {}
           /\ StoredLease' = [StoredLease EXCEPT ![j] = KeysOf(w, D)]
<1> DEFINE alloc == [job |-> j, worker |-> w, devices |-> D]
<1>1. /\ ~AllocationRefused(j, w, D, mem)
      /\ dbAllocations' = [dbAllocations EXCEPT ![j] = alloc]
    BY DEF Allocate
<1>2. dbAllocations[j] = NoAllocation
    BY <1>1 DEF AllocationRefused, Inv, StoreMirrors, HasAllocation
<1>3. ASSUME NEW i \in Jobs, StoredLease[i] # NoLease, NEW k \in StoredLease[i] \cap KeysOf(w, D)
      PROVE  FALSE
    <2>1. HasAllocation(i) /\ dbAllocations[i] = allocations[jobAllocations[i]]
        BY <1>3 DEF StoredLease, Inv, StoreMirrors
    <2>2. k \in AllocationKeys(allocations[jobAllocations[i]])
        BY <1>3, <2>1 DEF StoredLease
    <2>3. StateOf(k) # "AVAILABLE"
        BY <2>1, <2>2 DEF Inv, AvailableIsUnheld, HasAllocation
    <2>4. deviceState[k] = "AVAILABLE"
        BY <1>1, <1>3, AcceptedDevices
    <2> QED
        BY <2>3, <2>4 DEF StateOf
<1>4. alloc # NoAllocation /\ AllocationKeys(alloc) = KeysOf(w, D)
    BY AbsentAssumption DEF Allocation, AllocationKeys
<1>5. StoredLease' = [StoredLease EXCEPT ![j] = KeysOf(w, D)]
    BY <1>1, <1>4 DEF StoredLease, Inv, TypeOK, AllocationKeys
<1> QED
    BY <1>2, <1>3, <1>5 DEF StoredLease

\* Both forms of deallocate_resources release the lease of the job whose
\* allocation they pop.
LEMMA FreeReleases ==
    ASSUME Inv, NEW a \in Live, Free(a)
    PROVE  \E j \in Jobs : /\ StoredLease[j] # NoLease
                           /\ StoredLease' = [StoredLease EXCEPT ![j] = NoLease]
<1> DEFINE j == allocations[a].job
<1>1. j \in Jobs /\ a \in AllocIds /\ AllocationKeys(allocations[a]) \subseteq Keys
    BY LiveType DEF Inv
<1>2. HasAllocation(j) /\ jobAllocations[j] = a
    BY <1>1, AbsentAssumption DEF Inv, StoreMirrors, HasAllocation
<1>3. dbAllocations[j] = allocations[a] /\ allocations[a] # NoAllocation
    BY <1>1, <1>2 DEF Inv, StoreMirrors, Live
<1>4. StoredLease[j] # NoLease
    BY <1>1, <1>3, AbsentAssumption DEF StoredLease
<1>5. dbAllocations' = [dbAllocations EXCEPT ![j] = NoAllocation]
    BY DEF Free
<1>6. StoredLease' = [StoredLease EXCEPT ![j] = NoLease]
    BY <1>1, <1>5 DEF StoredLease, Inv, TypeOK, AllocationKeys
<1> QED
    BY <1>1, <1>4, <1>6

\* Every step of the manager is a step of DeviceLease, or none.
LEMMA StepImplementsLease == Inv /\ Inv' /\ [Next]_vars => [Leases!Next]_LeaseOf
<1> SUFFICES ASSUME Inv, Inv', [Next]_vars
             PROVE  [Leases!Next]_LeaseOf
    OBVIOUS
<1>1. LeaseOf = StoredLease /\ LeaseOf' = StoredLease'
    <2>1. (Inv => LeaseOf = StoredLease)'
        BY LeaseIsStored, PTL
    <2> QED
        BY <2>1, LeaseIsStored
<1>2. ASSUME UNCHANGED dbAllocations PROVE UNCHANGED LeaseOf
    BY <1>1, <1>2 DEF StoredLease, AllocationKeys
<1>3. ASSUME NEW j \in Jobs, NEW w \in Workers, NEW D \in SUBSET Devices,
             NEW mem \in Requests, Allocate(j, w, D, mem)
      PROVE  Leases!Next
    <2>1. KeysOf(w, D) \in SUBSET Keys
        BY DEF KeysOf, Keys
    <2>2. Leases!Acquire(j, KeysOf(w, D))
        BY <1>1, <1>3, AllocateAcquires DEF Leases!Acquire, Leases!Holds
    <2> QED
        BY <2>1, <2>2 DEF Leases!Next
<1>4. ASSUME NEW a \in Live, Free(a)
      PROVE  Leases!Next
    BY <1>1, <1>4, FreeReleases DEF Leases!Next, Leases!Release, Leases!Holds
<1>5. ASSUME NEW j \in Jobs, DeallocateJob(j)
      PROVE  [Leases!Next]_LeaseOf
    BY <1>2, <1>4, <1>5 DEF DeallocateJob, HasAllocation, dbVars
<1>6. ASSUME NEW a \in AllocIds, DeallocateById(a)
      PROVE  Leases!Next
    BY <1>4, <1>6 DEF DeallocateById
<1>7. ASSUME \/ \E w \in Workers, info \in Registrations : RegisterWorker(w, info)
             \/ \E w \in Workers : UnregisterWorker(w)
             \/ \E k \in Keys, s \in ReportedStates : UpdateDeviceStatus(k, s)
             \/ Restart
             \/ UNCHANGED vars
      PROVE  UNCHANGED LeaseOf
    BY <1>2, <1>7 DEF RegisterWorker, UnregisterWorker, UpdateDeviceStatus, Restart, vars, dbVars
<1> QED
    BY <1>3, <1>5, <1>6, <1>7 DEF Next

\* The manager keeps the promise of DeviceLease: what a job holds changes only
\* when it acquires devices that nobody holds, or gives all of them back.
THEOREM ImplementsLease == Spec => LeaseSpec
<1>1. Init => Leases!Init
    BY DEF Init, Leases!Init, LeaseOf, Live
<1> QED
    BY <1>1, StepImplementsLease, Invariance, PTL DEF Spec, LeaseSpec, Leases!Spec
=============================================================================
