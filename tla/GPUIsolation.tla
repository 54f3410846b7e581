---------------------------- MODULE GPUIsolation ----------------------------
(***************************************************************************)
(* drigs/execution/isolation.py: which GPUs of a worker node a job may     *)
(* see.  Reservations are kept twice, by job and by GPU; each method holds *)
(* the manager's lock.  A CUDA_VISIBLE_DEVICES value is the set of its     *)
(* parts, a part an index or a PCIe bus id.                                *)
(***************************************************************************)
CONSTANTS
    IsoJobs,        \* job ids
    Gpus,           \* device ids, as the hardware backends form them
    CleanGpuId,     \* CleanGpuId[d]: the id without its gpu- prefix
    PcieBusId,      \* PcieBusId[d]: pcie_bus_id of the device, or NoBusId
    NoBusId,
    UsePcieBusId,   \* use_pcie_bus_id
    Nobody,         \* owner of a GPU that is not reserved
    NoReservation   \* of a job without one

\* Two devices have different indexes and different bus addresses, no index
\* reads like a bus address.
ASSUME GpuIdsAssumption ==
    /\ UsePcieBusId \in BOOLEAN
    /\ \A d, e \in Gpus : d # e => /\ CleanGpuId[d] # CleanGpuId[e]
                                   /\ PcieBusId[d] = NoBusId \/ PcieBusId[d] # PcieBusId[e]
    /\ \A d, e \in Gpus : CleanGpuId[e] \notin {PcieBusId[d], NoBusId}
    /\ Nobody \notin IsoJobs
    /\ \A D \in SUBSET Gpus : NoReservation # D

VARIABLES
    known,      \* DOMAIN of _devices_map
    reserved,   \* _reserved_gpus
    owner,      \* _gpu_owners
    visible     \* visible[j]: CUDA_VISIBLE_DEVICES that reserve_gpus returned for j

isolationVars == <<known, reserved, owner, visible>>

HasReservation(j) == reserved[j] # NoReservation

\* format_cuda_visible_devices, of one device.
Format(d, devices) ==
    IF UsePcieBusId /\ d \in devices /\ PcieBusId[d] # NoBusId
    THEN PcieBusId[d] ELSE CleanGpuId[d]

FormatCudaVisibleDevices(D, devices) == {Format(d, devices) : d \in D}

IsolationInit ==
    /\ known = {}
    /\ reserved = [j \in IsoJobs |-> NoReservation]
    /\ owner = [d \in Gpus |-> Nobody]
    /\ visible = [j \in IsoJobs |-> {}]

RegisterDevices(D) ==
    /\ known' = known \cup D
    /\ UNCHANGED <<reserved, owner, visible>>

\* Mutant: only GPUs of which all are taken are refused.
ReserveGpusPartly(j, D) ==
    /\ ~HasReservation(j)
    /\ D # {} => \E d \in D : owner[d] = Nobody
    /\ reserved' = [reserved EXCEPT ![j] = D]
    /\ owner' = [d \in Gpus |-> IF d \in D THEN j ELSE owner[d]]
    /\ visible' = [visible EXCEPT ![j] = FormatCudaVisibleDevices(D, known)]
    /\ UNCHANGED known

\* IsolationError, before anything is recorded, for a job that has a reservation
\* and for a GPU that has an owner.
ReserveGpus(j, D) ==
    /\ ~HasReservation(j)
    /\ \A d \in D : owner[d] = Nobody
    /\ reserved' = [reserved EXCEPT ![j] = D]
    /\ owner' = [d \in Gpus |-> IF d \in D THEN j ELSE owner[d]]
    /\ visible' = [visible EXCEPT ![j] = FormatCudaVisibleDevices(D, known)]
    /\ UNCHANGED known

\* Nothing is released for a job without a reservation.
ReleaseGpus(j) ==
    /\ HasReservation(j)
    /\ reserved' = [reserved EXCEPT ![j] = NoReservation]
    /\ owner' = [d \in Gpus |-> IF d \in reserved[j] THEN Nobody ELSE owner[d]]
    /\ visible' = [visible EXCEPT ![j] = {}]
    /\ UNCHANGED known

IsolationNext ==
    \/ \E D \in SUBSET Gpus : RegisterDevices(D)
    \/ \E j \in IsoJobs : ReleaseGpus(j) \/ \E D \in SUBSET Gpus : ReserveGpus(j, D)

IsolationSpec == IsolationInit /\ [][IsolationNext]_isolationVars

IsolationTypeOK ==
    /\ known \subseteq Gpus
    /\ reserved \in [IsoJobs -> {NoReservation} \cup SUBSET Gpus]
    /\ owner \in [Gpus -> IsoJobs \cup {Nobody}]
    /\ visible \in [IsoJobs -> SUBSET UNION {{CleanGpuId[d], PcieBusId[d]} : d \in Gpus}]

\* The two indexes say the same.
OwnersAgree ==
    \A j \in IsoJobs, d \in Gpus :
        owner[d] = j <=> (HasReservation(j) /\ d \in reserved[j])

\* What reserve_gpus returned names the devices of the reservation.
VisibleIsReserved ==
    \A j \in IsoJobs :
        HasReservation(j) =>
            \A v \in visible[j] : \E d \in reserved[j] : v \in {CleanGpuId[d], PcieBusId[d]} /\ v # NoBusId

\* No GPU is visible to two jobs that hold reservations, under neither of its
\* names, though one job may have been given indexes and the other, after the
\* devices were registered, bus addresses.
VisibleIsDisjoint ==
    \A i, j \in IsoJobs :
        (i # j /\ HasReservation(i) /\ HasReservation(j)) =>
            \A d \in Gpus : \A u, v \in {CleanGpuId[d], PcieBusId[d]} :
                u = NoBusId \/ v = NoBusId \/ ~(u \in visible[i] /\ v \in visible[j])

Lease == INSTANCE DeviceLease
         WITH Jobs <- IsoJobs, Keys <- Gpus, NoLease <- NoReservation, lease <- reserved

\* The manager keeps the promise of DeviceLease, as the ResourceManager does.
IsolationLease == Lease!Spec
=============================================================================
