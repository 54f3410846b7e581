--------------------------- MODULE MCControlPlane ---------------------------
(***************************************************************************)
(* ControlPlane for TLC: jobs and requirements, and the workers they run   *)
(* on.                                                                     *)
(***************************************************************************)
EXTENDS ControlPlane, TLC

\* All jobs have the same priority.
EqualPriority == [j \in Jobs |-> 0]

OneGpu == [gpus |-> 1, vram |-> 1, cpus |-> 1, ram |-> 1]
TwoGpus == [gpus |-> 2, vram |-> 1, cpus |-> 2, ram |-> 2]

OneGpuEach == [j \in Jobs |-> OneGpu]

\* The first job wants a GPU of every worker, the others one GPU.
FirstWantsTwo == [j \in Jobs |-> IF j = 1 THEN TwoGpus ELSE OneGpu]

Plenty == [w \in Workers |-> 8]

\* Healthy workers that have all the devices.
AllDevices == {[devices |-> Devices, healthy |-> TRUE]}

\* Bound: a behaviour has a death of the controller or a call of reschedule_job, and
\* after the call no worker is away.
CrashOrRecovery ==
    /\ crashes + reschedules <= 1
    /\ reschedules > 0 => \A w \in Workers : workers[w] # NoWorker

Symmetry == Permutations(AllocIds)
=============================================================================
