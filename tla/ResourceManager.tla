-------------------------- MODULE ResourceManager --------------------------
(***************************************************************************)
(* drigs/core/resource_manager.py: the books the control plane keeps on    *)
(* workers, devices and allocations, together with the rows of the SQLite  *)
(* store they are written through to and rebuilt from after a restart.     *)
(*                                                                         *)
(* Every method of ResourceManager runs under one RLock, so a method is    *)
(* one action.  A method that raises changes nothing; its refusal is the   *)
(* operator AllocationRefused.  A process that dies loses the five         *)
(* dictionaries and keeps the rows: Restart.                               *)
(***************************************************************************)
EXTENDS Naturals, FiniteSets

CONSTANTS
    Jobs,           \* job ids
    Workers,        \* worker ids
    Devices,        \* device ids; a device is known by <<worker, device>>
    AllocIds,       \* allocation ids (uuid4 in the code; here a bounded set)
    TotalMemory,    \* VRAM of a device, in units
    Requests,       \* the VRAM requests (gpu_memory_bytes) considered
    Registrations,  \* the WorkerInfo values that workers register with
    NoWorker,       \* value of an unregistered worker
    NoAllocation,   \* value of an allocation id or row that is not in use
    NoId,           \* "job not in _job_allocations"
    Absent,         \* "key not in the dictionary"
    NoLease         \* see DeviceLease

Keys == Workers \X Devices

ResourceStates == {"AVAILABLE", "ALLOCATED", "DEGRADED", "UNAVAILABLE"}

WorkerInfo == [devices : SUBSET Devices, healthy : BOOLEAN]

Allocation == [job : Jobs, worker : Workers, devices : SUBSET Devices]

ASSUME MemoryAssumption == TotalMemory \in Nat /\ Requests \subseteq Nat

ASSUME RegistrationsAssumption == Registrations \subseteq WorkerInfo

ASSUME AbsentAssumption ==
    /\ NoWorker \notin WorkerInfo
    /\ NoAllocation \notin Allocation
    /\ NoId \notin AllocIds
    /\ Absent \notin Nat /\ Absent \notin ResourceStates
    /\ \A K \in SUBSET Keys : NoLease # K

VARIABLES
    workers,         \* _workers
    deviceState,     \* _device_states
    deviceMemory,    \* _device_allocated_memory
    allocations,     \* _allocations, by allocation id
    jobAllocations,  \* _job_allocations
    dbWorkers,       \* the rows of table workers
    dbAllocations    \* the rows of table allocations; its primary key is job_id

memoryVars == <<workers, deviceState, deviceMemory, allocations, jobAllocations>>
dbVars     == <<dbWorkers, dbAllocations>>
vars       == <<workers, deviceState, deviceMemory, allocations, jobAllocations,
                dbWorkers, dbAllocations>>

-----------------------------------------------------------------------------
(* Helpers *)

KeysOf(w, D) == {w} \X D

AllocationKeys(alloc) == KeysOf(alloc.worker, alloc.devices)

Live == {a \in AllocIds : allocations[a] # NoAllocation}

StoredJobs == {j \in Jobs : dbAllocations[j] # NoAllocation}

KnownWorkers == {w \in Workers : workers[w] # NoWorker}

Registered(ws) == {k \in Keys : ws[k[1]] # NoWorker /\ k[2] \in ws[k[1]].devices}

\* The ids a fresh uuid may take: none that the manager still refers to.
FreshIds == AllocIds \ (Live \cup {jobAllocations[j] : j \in Jobs})

HasAllocation(j) == jobAllocations[j] # NoId /\ jobAllocations[j] \in Live

\* self._device_states.get(key, AVAILABLE)
StateOf(k) == IF deviceState[k] = Absent THEN "AVAILABLE" ELSE deviceState[k]

\* self._device_allocated_memory.get(key, 0)
MemoryOf(k) == IF deviceMemory[k] = Absent THEN 0 ELSE deviceMemory[k]

-----------------------------------------------------------------------------
(* Initial state: an empty store and a manager that loaded it *)

Init ==
    /\ workers = [w \in Workers |-> NoWorker]
    /\ deviceState = [k \in Keys |-> Absent]
    /\ deviceMemory = [k \in Keys |-> Absent]
    /\ allocations = [a \in AllocIds |-> NoAllocation]
    /\ jobAllocations = [j \in Jobs |-> NoId]
    /\ dbWorkers = [w \in Workers |-> NoWorker]
    /\ dbAllocations = [j \in Jobs |-> NoAllocation]

-----------------------------------------------------------------------------
(* The rows of the store *)

SaveWorker(w, info) == dbWorkers' = [dbWorkers EXCEPT ![w] = info]

DeleteWorker(w) == dbWorkers' = [dbWorkers EXCEPT ![w] = NoWorker]

\* An upsert by job id: a second allocation of a job would replace its row.
SaveAllocation(alloc) == dbAllocations' = [dbAllocations EXCEPT ![alloc.job] = alloc]

DeleteAllocation(j) == dbAllocations' = [dbAllocations EXCEPT ![j] = NoAllocation]

-----------------------------------------------------------------------------
(* The methods *)

\* A device that is already known keeps its state and its allocated memory.
RegisterWorker(w, info) ==
    LET new == {k \in KeysOf(w, info.devices) : deviceState[k] = Absent}
    IN  /\ workers' = [workers EXCEPT ![w] = info]
        /\ deviceState' = [k \in Keys |-> IF k \in new THEN "AVAILABLE" ELSE deviceState[k]]
        /\ deviceMemory' = [k \in Keys |-> IF k \in new THEN 0 ELSE deviceMemory[k]]
        /\ SaveWorker(w, info)
        /\ UNCHANGED <<allocations, jobAllocations, dbAllocations>>

\* Mutant: the states of the worker's devices are forgotten.
UnregisterForgets(w) ==
    /\ workers[w] # NoWorker
    /\ workers' = [workers EXCEPT ![w] = NoWorker]
    /\ deviceState' = [k \in Keys |-> IF k \in KeysOf(w, workers[w].devices)
                                      THEN Absent ELSE deviceState[k]]
    /\ DeleteWorker(w)
    /\ UNCHANGED <<deviceMemory, allocations, jobAllocations, dbAllocations>>

UnregisterWorker(w) ==
    /\ workers[w] # NoWorker
    /\ workers' = [workers EXCEPT ![w] = NoWorker]
    /\ deviceState' = [k \in Keys |-> IF k \in KeysOf(w, workers[w].devices)
                                      THEN "UNAVAILABLE" ELSE deviceState[k]]
    /\ DeleteWorker(w)
    /\ UNCHANGED <<deviceMemory, allocations, jobAllocations, dbAllocations>>

\* Mutant: a reported DeviceState is stored as it is.
RawReportedStates == {"DEGRADED", "OFFLINE"}

\* The resource state a reported DeviceState turns into; HEALTHY changes nothing.
ReportedStates == {"DEGRADED", "UNAVAILABLE"}

UpdateDeviceStatus(k, state) ==
    /\ deviceState' = [deviceState EXCEPT ![k] = state]
    /\ UNCHANGED <<workers, deviceMemory, allocations, jobAllocations, dbVars>>

\* Mutant: a device in use is shared as long as the memory asked for fits.
DeviceRefusedByMemory(w, d, mem) ==
    \/ <<w, d>> \notin Registered(workers)
    \/ StateOf(<<w, d>>) \notin {"AVAILABLE", "ALLOCATED"}
    \/ mem > 0 /\ MemoryOf(<<w, d>>) + mem > TotalMemory

\* The checks of allocate_resources, each of which raises ResourceError.
DeviceRefused(w, d, mem) ==
    \/ <<w, d>> \notin Registered(workers)
    \/ StateOf(<<w, d>>) # "AVAILABLE"
    \/ mem > 0 /\ MemoryOf(<<w, d>>) + mem > TotalMemory

AllocationRefused(j, w, D, mem) ==
    \/ jobAllocations[j] # NoId
    \/ w \notin KnownWorkers
    \/ \E d \in D : DeviceRefused(w, d, mem)

Allocate(j, w, D, mem) ==
    LET alloc == [job |-> j, worker |-> w, devices |-> D]
    IN  /\ ~AllocationRefused(j, w, D, mem)
        /\ deviceState' = [k \in Keys |-> IF k \in KeysOf(w, D) THEN "ALLOCATED"
                                          ELSE deviceState[k]]
        /\ deviceMemory' = [k \in Keys |-> IF k \in KeysOf(w, D) THEN deviceMemory[k] + mem
                                           ELSE deviceMemory[k]]
        /\ \E a \in FreshIds :
              /\ allocations' = [allocations EXCEPT ![a] = alloc]
              /\ jobAllocations' = [jobAllocations EXCEPT ![j] = a]
        /\ SaveAllocation(alloc)
        /\ UNCHANGED <<workers, dbWorkers>>

\* Mutant: the row is not deleted.
FreeKeepsRow(a) ==
    LET freed == AllocationKeys(allocations[a])
    IN  /\ allocations' = [allocations EXCEPT ![a] = NoAllocation]
        /\ deviceState' = [k \in Keys |-> IF k \in freed THEN "AVAILABLE" ELSE deviceState[k]]
        /\ deviceMemory' = [k \in Keys |-> IF k \in freed THEN 0 ELSE deviceMemory[k]]
        /\ UNCHANGED <<workers, dbVars>>

\* The effect of popping the live allocation a.  The state its devices had
\* meanwhile (UNAVAILABLE, DEGRADED) is overwritten.
Free(a) ==
    LET freed == AllocationKeys(allocations[a])
    IN  /\ allocations' = [allocations EXCEPT ![a] = NoAllocation]
        /\ deviceState' = [k \in Keys |-> IF k \in freed THEN "AVAILABLE" ELSE deviceState[k]]
        /\ deviceMemory' = [k \in Keys |-> IF k \in freed THEN 0 ELSE deviceMemory[k]]
        /\ DeleteAllocation(allocations[a].job)
        /\ UNCHANGED <<workers, dbWorkers>>

\* deallocate_resources(job_id): the index entry goes, with the allocation if
\* there still is one; a job without an entry is a call that returns False.
DeallocateJob(j) ==
    /\ jobAllocations' = [jobAllocations EXCEPT ![j] = NoId]
    /\ IF HasAllocation(j)
       THEN Free(jobAllocations[j])
       ELSE UNCHANGED <<workers, deviceState, deviceMemory, allocations, dbVars>>

\* deallocate_resources(allocation_id): the index entry of the job stays behind.
DeallocateById(a) ==
    /\ a \in Live
    /\ Free(a)
    /\ UNCHANGED jobAllocations

\* A new process: __init__ and load_from_storage.  Rows of allocations carry
\* no allocation id, so every restored allocation gets a new one.
NewIds(ids) ==
    /\ \A j \in Jobs : ids[j] = NoId <=> j \notin StoredJobs
    /\ \A i, j \in StoredJobs : ids[i] = ids[j] => i = j

\* Mutant: allocations are not restored.
RestartForgetsHeld ==
    /\ workers' = dbWorkers
    /\ deviceState' = [k \in Keys |-> IF k \in Registered(dbWorkers) THEN "AVAILABLE" ELSE Absent]
    /\ deviceMemory' = [k \in Keys |-> IF k \in Registered(dbWorkers) THEN 0 ELSE Absent]
    /\ allocations' = [a \in AllocIds |-> NoAllocation]
    /\ jobAllocations' = [j \in Jobs |-> NoId]
    /\ UNCHANGED dbVars

Restart ==
    \E ids \in [Jobs -> AllocIds \cup {NoId}] :
        /\ NewIds(ids)
        /\ workers' = dbWorkers
        /\ deviceState' =
              [k \in Keys |->
                  IF \E j \in StoredJobs : k \in AllocationKeys(dbAllocations[j])
                  THEN "ALLOCATED"
                  ELSE IF k \in Registered(dbWorkers) THEN "AVAILABLE" ELSE Absent]
        /\ deviceMemory' = [k \in Keys |-> IF k \in Registered(dbWorkers) THEN 0 ELSE Absent]
        /\ allocations' =
              [a \in AllocIds |->
                  IF \E j \in StoredJobs : ids[j] = a
                  THEN dbAllocations[CHOOSE j \in StoredJobs : ids[j] = a]
                  ELSE NoAllocation]
        /\ jobAllocations' = ids
        /\ UNCHANGED dbVars

-----------------------------------------------------------------------------
(* The manager with every caller its interface admits *)

Next ==
    \/ \E w \in Workers, info \in Registrations : RegisterWorker(w, info)
    \/ \E w \in Workers : UnregisterWorker(w)
    \/ \E k \in Keys, s \in ReportedStates : UpdateDeviceStatus(k, s)
    \/ \E j \in Jobs, w \in Workers, D \in SUBSET Devices, mem \in Requests :
          Allocate(j, w, D, mem)
    \/ \E j \in Jobs : DeallocateJob(j)
    \/ \E a \in AllocIds : DeallocateById(a)
    \/ Restart

Spec == Init /\ [][Next]_vars

-----------------------------------------------------------------------------
(* Properties *)

\* Every variable keeps the shape of its dictionary or table.
TypeOK ==
    /\ workers \in [Workers -> WorkerInfo \cup {NoWorker}]
    /\ deviceState \in [Keys -> ResourceStates \cup {Absent}]
    /\ deviceMemory \in [Keys -> Nat \cup {Absent}]
    /\ allocations \in [AllocIds -> Allocation \cup {NoAllocation}]
    /\ jobAllocations \in [Jobs -> AllocIds \cup {NoId}]
    /\ dbWorkers \in [Workers -> WorkerInfo \cup {NoWorker}]
    /\ dbAllocations \in [Jobs -> Allocation \cup {NoAllocation}]

\* No device is in two live allocations, whatever mix of registrations, health
\* reports, deallocations (by either id) and restarts led here: the promise of
\* allocate_resources ("atomically reserve").
DeviceExclusive ==
    \A a, b \in Live :
        a # b => AllocationKeys(allocations[a]) \cap AllocationKeys(allocations[b]) = {}

\* A device that reads as AVAILABLE, one the dictionary does not know included,
\* is in no live allocation: it is offered again only once its holder has given
\* it back, also after a restart that rebuilt the states from the rows.
AvailableIsUnheld ==
    \A a \in Live : \A k \in AllocationKeys(allocations[a]) : StateOf(k) # "AVAILABLE"

\* A device offered as AVAILABLE has a memory entry and it is zero: the `+=` of
\* allocate_resources cannot raise KeyError half way through marking its
\* devices, and no VRAM of a former holder is still charged.
AvailableIsClean == \A k \in Keys : deviceState[k] = "AVAILABLE" => deviceMemory[k] = 0

\* The index, the live allocations and the stored rows agree: a live allocation
\* is the one its job is indexed with, and a job's row is what the job holds.
\* A restart therefore rebuilds exactly what was held.
StoreMirrors ==
    /\ \A a \in Live : jobAllocations[allocations[a].job] = a
    /\ \A j \in Jobs :
          IF HasAllocation(j)
          THEN /\ dbAllocations[j] = allocations[jobAllocations[j]]
               /\ dbAllocations[j].job = j
          ELSE dbAllocations[j] = NoAllocation

\* A device of a registered worker is known: _device_states.get never falls
\* back to its default for a device that passed the check on device_map.
RegisteredIsKnown == \A k \in Registered(workers) : deviceState[k] # Absent

\* The inductive invariant: none of its parts is inductive without the others.
Inv ==
    /\ TypeOK
    /\ DeviceExclusive
    /\ AvailableIsUnheld
    /\ AvailableIsClean
    /\ StoreMirrors
    /\ RegisteredIsKnown

\* What the job holds, read off the live allocations.
LeaseOf ==
    [j \in Jobs |->
        IF \E a \in Live : allocations[a].job = j
        THEN UNION {AllocationKeys(allocations[a]) : a \in {b \in Live : allocations[b].job = j}}
        ELSE NoLease]

Leases == INSTANCE DeviceLease WITH lease <- LeaseOf

\* The manager implements DeviceLease: restarts, registrations and health
\* reports never change what a job holds, and a lease is taken and released
\* as a whole.
LeaseSpec == Leases!Spec
=============================================================================
