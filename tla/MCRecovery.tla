----------------------------- MODULE MCRecovery -----------------------------
(***************************************************************************)
(* For TLC, what brings jobs back: the JobQueue, where anything may be     *)
(* called; the ControlPlane over that queue, with a Rescheduler; and the   *)
(* FailureDetector over a registry of its own.  A behaviour drives one of  *)
(* the three.                                                              *)
(***************************************************************************)
EXTENDS JobQueue

CONSTANTS
    Workers, Devices, AllocIds, TotalMemory, Registrations,    \* see ControlPlane
    NoWorker, NoAllocation, NoId, Absent, NoLease,
    Req, Cpus, Ram, MaxGpuLimit, MaxCpuLimit, GangScheduling, WorkerChurn,
    MaxCrashes, MaxReschedules,
    WatchedJobs, WatchedWorkers, NotRegistered, NotTracked,    \* see FailureDetector
    MaxRestarts

VARIABLES
    workers, deviceState, deviceMemory, allocations, jobAllocations, dbWorkers, dbAllocations,
    handles, processes, pc, plan, toPoll, target, recoveryPc, recoveryJob, crashes, reschedules,
    health, recent, dbHealth, active,
    monitored, process, failedWorkers, failedJobs, calls, restarts,
    driven      \* "queue", "controller" or "detector"

CP == INSTANCE ControlPlane

FD == INSTANCE FailureDetector WITH Jobs <- WatchedJobs, Workers <- WatchedWorkers

controllerVars ==
    <<workers, deviceState, deviceMemory, allocations, jobAllocations, dbWorkers, dbAllocations,
      handles, processes, pc, plan, toPoll, target, recoveryPc, recoveryJob, crashes, reschedules>>

watchVars ==
    <<health, recent, dbHealth, active, monitored, process, failedWorkers, failedJobs, calls, restarts>>

allVars == <<vars, controllerVars, watchVars, driven>>

Anyone == driven = "queue" /\ UNCHANGED <<controllerVars, watchVars, driven>>

Controller == driven = "controller" /\ UNCHANGED <<watchVars, driven>>

Detector == driven = "detector" /\ UNCHANGED <<vars, controllerVars, driven>>

\* Bound: agents report HEALTHY.  The detector asks only who is OFFLINE.
NobodyAiling == \A w \in WatchedWorkers : health[w] \notin {"DEGRADED", "UNAVAILABLE"}

MCInit == CP!Init /\ FD!Init /\ driven \in {"queue", "controller", "detector"}

MCNext ==
    \/ Anyone /\ Next
    \/ Controller /\ CP!Next
    \/ Detector /\ FD!Next /\ NobodyAiling'

\* ControlPlane!Fairness, and that of FailureDetector.
MCFairness ==
    /\ WF_allVars(Controller /\ CP!Step)
    /\ WF_allVars(Controller /\ (CP!CancelRelease \/ CP!CancelCheck \/ CP!CancelMark))
    /\ WF_allVars(Controller /\ (CP!RescheduleRelease \/ CP!RescheduleMark \/ CP!RescheduleRequeue))
    /\ WF_allVars(Controller /\ \E p \in DOMAIN processes, outcome \in CP!Outcomes :
                                   CP!ProcessExit(p, outcome))
    /\ WF_allVars(Detector /\ FD!CheckFailures({}))

MCSpec == MCInit /\ [][MCNext]_allVars /\ MCFairness

-----------------------------------------------------------------------------
(* Constants *)

\* The last job is urgent, the others are served by age.
LastIsUrgent == [j \in Jobs |-> IF \A i \in Jobs : i <= j THEN 1 ELSE 0]

\* The last job asks for more GPUs than the admission allows.
LastIsTooLarge ==
    [j \in Jobs |-> [gpus |-> IF \A i \in Jobs : i <= j THEN MaxGpuLimit + 1 ELSE 1,
                     vram |-> 1, cpus |-> 1, ram |-> 1]]

Plenty == [w \in Workers |-> 8]

\* Healthy workers that have all the devices.
AllDevices == {[devices |-> Devices, healthy |-> TRUE]}

-----------------------------------------------------------------------------
(* Properties *)

\* ControlPlane!EveryJobEnds: under the controller every job that waits gets an
\* outcome, those the rescheduler puts back included.
EveryJobEnds == driven = "controller" => CP!EveryJobEnds

\* FailureDetector!RecoveredOnce: the rescheduler is called at most once for a job.
RecoveredOnce == FD!RecoveredOnce

\* FailureDetector!SilentIsDeclared: a job on a worker that falls silent is
\* declared failed, unless somebody else's check took the timeout away.
SilentIsDeclared == FD!SilentIsDeclared

\* FailureDetector!CrashIsDeclared: a job whose process ended badly is declared
\* failed.
CrashIsDeclared == FD!CrashIsDeclared
=============================================================================
