---------------------------- MODULE ControlPlane ----------------------------
(***************************************************************************)
(* drigs/core/controller.py, LocalController, over its JobQueue, its       *)
(* ResourceManager, the SQLite store both write to, the native execution   *)
(* backend, and (when Recovery) drigs/recovery/rescheduler.py.             *)
(*                                                                         *)
(* step() and cancel_job() hold the controller's RLock from end to end, so *)
(* one program counter pc follows whichever of them runs.  They are cut    *)
(* at every call to the queue, the resource manager and the backend, which *)
(* have locks of their own: between two calls, jobs are submitted, workers *)
(* come and go, processes exit, the rescheduler runs, or the controller    *)
(* process dies.  A controller that dies loses its handles and the memory  *)
(* of queue and manager; the job processes, started in sessions of their   *)
(* own, live on; a new controller loads the store.                         *)
(***************************************************************************)
EXTENDS Naturals, Sequences, FiniteSets

CONSTANTS
    Jobs, Priority, MaxCapacity, Unknown,                   \* see JobQueue
    Workers, Devices, AllocIds, TotalMemory, Registrations, \* see ResourceManager
    NoWorker, NoAllocation, NoId, Absent, NoLease,
    Req,            \* Req[j]: what job j asks for (see Schedulers)
    Cpus, Ram,      \* Cpus[w], Ram[w]: capacity of worker w
    MaxGpuLimit, MaxCpuLimit,   \* of the AdmissionController
    GangScheduling, \* the scheduler is the GangScheduler, else the FIFOScheduler
    WorkerChurn,    \* workers register and unregister while jobs run
    MaxCrashes,     \* bound: deaths of the controller process
    MaxReschedules  \* bound: calls of reschedule_job (0: no Rescheduler)

VARIABLES
    status, queue, dbStatus,                                  \* JobQueue
    workers, deviceState, deviceMemory, allocations,          \* ResourceManager
    jobAllocations, dbWorkers, dbAllocations,
    handles,        \* _handles[j]: the process of job j that is polled, or 0
    processes,      \* every process launched: its job, its devices, its state
    pc,             \* where step() or cancel_job() is
    plan,           \* scheduled_allocations not yet gone through
    toPoll,         \* active_job_ids not yet polled
    target,         \* the job that a poll or cancel_job is about
    recoveryPc,     \* where reschedule_job() is
    recoveryJob,    \* its job
    crashes, reschedules  \* counters of the bounds

queueVars == <<status, queue, dbStatus>>
managerVars == <<workers, deviceState, deviceMemory, allocations, jobAllocations,
                 dbWorkers, dbAllocations>>
loopVars == <<pc, plan, toPoll, target>>
recoveryVars == <<recoveryPc, recoveryJob, reschedules>>
vars == <<queueVars, managerVars, handles, processes, loopVars, recoveryVars, crashes>>

Requests == {Req[j].vram : j \in Jobs}

NoJob == 0      \* jobs are numbered from 1 (ids are uuids in the code)

JQ == INSTANCE JobQueue
RM == INSTANCE ResourceManager
Sched == INSTANCE Schedulers

ASSUME JobsAssumption ==
    /\ Jobs \subseteq Nat \ {NoJob} /\ IsFiniteSet(Jobs)
    /\ Priority \in [Jobs -> Nat]
    /\ Unknown \notin JQ!Statuses

ASSUME ManagerAssumption ==
    /\ TotalMemory \in Nat /\ Requests \subseteq Nat /\ Registrations \subseteq RM!WorkerInfo
    /\ NoWorker \notin RM!WorkerInfo /\ NoAllocation \notin RM!Allocation
    /\ NoId \notin AllocIds
    /\ Absent \notin Nat /\ Absent \notin RM!ResourceStates
    /\ \A K \in SUBSET RM!Keys : NoLease # K

\* Some worker can be registered from the start.
ASSUME ClusterAssumption == \E info \in Registrations : info.healthy

ASSUME BoundsAssumption == MaxCrashes \in Nat /\ MaxReschedules \in Nat

-----------------------------------------------------------------------------
(* Processes *)

Outcomes == JQ!Terminal     \* what get_status makes of the exit code

Running(p) == processes[p].state = "RUNNING"

Launched(j) == {p \in DOMAIN processes : processes[p].job = j}

LiveProcesses == {p \in DOMAIN processes : Running(p)}

\* get_status: exit code 0 is COMPLETED, death by SIGTERM or SIGKILL is
\* CANCELLED, any other code is FAILED.
ProcessExit(p, outcome) ==
    /\ Running(p)
    /\ processes' = [processes EXCEPT ![p].state = outcome]
    /\ UNCHANGED <<queueVars, managerVars, handles, loopVars, recoveryVars, crashes>>

-----------------------------------------------------------------------------
(* Calls that may raise StateTransitionError *)

\* update_job_status(j, s), then to pc = next; or it raises, then to pc = raised.
UpdateOr(j, s, next, raised) ==
    \/ JQ!UpdateStatus(j, s) /\ pc' = next
    \/ ~JQ!MayBecome(j, s) /\ pc' = raised /\ UNCHANGED queueVars

-----------------------------------------------------------------------------
(* step(): schedule, allocate, launch *)

Cluster ==
    [w \in RM!KnownWorkers |->
        [healthy |-> workers[w].healthy, devices |-> workers[w].devices,
         free |-> [d \in workers[w].devices |-> TotalMemory], cpus |-> Cpus[w], ram |-> Ram[w]]]

Schedule ==
    IF JQ!Pending = {} \/ DOMAIN Cluster = {} THEN <<>>
    ELSE IF GangScheduling THEN Sched!GangSchedule(JQ!PendingJobs, Cluster)
    ELSE Sched!FIFOSchedule(JQ!Pending, Cluster)

\* get_cluster_state, get_pending_jobs and scheduler.schedule.
StepBegin ==
    /\ pc = "idle"
    /\ plan' = Schedule
    /\ pc' = "schedule"
    /\ UNCHANGED <<queueVars, managerVars, handles, processes, toPoll, target, recoveryVars,
                   crashes>>

Entry == Head(plan)

MarkScheduled ==
    /\ pc = "schedule" /\ plan # <<>>
    /\ UpdateOr(Entry.job, "SCHEDULED", "allocate", "fail")
    /\ UNCHANGED <<managerVars, handles, processes, plan, toPoll, target, recoveryVars, crashes>>

Reserve ==
    /\ pc = "allocate"
    /\ RM!Allocate(Entry.job, Entry.worker, Entry.devices, Req[Entry.job].vram)
    /\ pc' = "launch"
    /\ UNCHANGED <<queueVars, handles, processes, plan, toPoll, target, recoveryVars, crashes>>

ReserveRefused ==
    /\ pc = "allocate"
    /\ RM!AllocationRefused(Entry.job, Entry.worker, Entry.devices, Req[Entry.job].vram)
    /\ pc' = "fail"
    /\ UNCHANGED <<queueVars, managerVars, handles, processes, plan, toPoll, target,
                   recoveryVars, crashes>>

\* A second handle of the same job replaces the first.
Launch ==
    /\ pc = "launch"
    /\ processes' = Append(processes, [job |-> Entry.job, state |-> "RUNNING",
                                       keys |-> RM!KeysOf(Entry.worker, Entry.devices)])
    /\ handles' = [handles EXCEPT ![Entry.job] = Len(processes')]
    /\ pc' = "running"
    /\ UNCHANGED <<queueVars, managerVars, plan, toPoll, target, recoveryVars, crashes>>

LaunchFails ==
    /\ pc = "launch"
    /\ pc' = "fail"
    /\ UNCHANGED <<queueVars, managerVars, handles, processes, plan, toPoll, target,
                   recoveryVars, crashes>>

MarkRunning ==
    /\ pc = "running"
    /\ UpdateOr(Entry.job, "RUNNING", "schedule", "fail")
    /\ plan' = IF pc' = "schedule" THEN Tail(plan) ELSE plan
    /\ UNCHANGED <<managerVars, handles, processes, toPoll, target, recoveryVars, crashes>>

\* The except clause.  If the job can no longer become FAILED, the exception
\* leaves step() and the rest of the pass, the polling included, is skipped.
MarkFailed ==
    /\ pc = "fail"
    /\ UpdateOr(Entry.job, "FAILED", "release", "idle")
    /\ plan' = IF pc' = "idle" THEN <<>> ELSE plan
    /\ UNCHANGED <<managerVars, handles, processes, toPoll, target, recoveryVars, crashes>>

\* Mutant: the entry is tried again.
ReleaseFailedRetries ==
    /\ pc = "release"
    /\ RM!DeallocateJob(Entry.job)
    /\ pc' = "allocate"
    /\ UNCHANGED <<queueVars, handles, processes, plan, toPoll, target, recoveryVars, crashes>>

ReleaseFailed ==
    /\ pc = "release"
    /\ RM!DeallocateJob(Entry.job)
    /\ plan' = Tail(plan)
    /\ pc' = "schedule"
    /\ UNCHANGED <<queueVars, handles, processes, toPoll, target, recoveryVars, crashes>>

-----------------------------------------------------------------------------
(* step(): monitor *)

MonitorBegin ==
    /\ pc = "schedule" /\ plan = <<>>
    /\ toPoll' = {j \in Jobs : handles[j] # 0}
    /\ pc' = "poll"
    /\ UNCHANGED <<queueVars, managerVars, handles, processes, plan, target, recoveryVars, crashes>>

PollRunning(j) ==
    /\ pc = "poll" /\ j \in toPoll
    /\ Running(handles[j])
    /\ toPoll' = toPoll \ {j}
    /\ UNCHANGED <<queueVars, managerVars, handles, processes, pc, plan, target, recoveryVars,
                   crashes>>

\* The handle of a process that ended is dropped only if the job may take the
\* status; else the error is logged and the handle is polled again next time.
PollEnded(j) ==
    /\ pc = "poll" /\ j \in toPoll
    /\ ~Running(handles[j])
    /\ UpdateOr(j, processes[handles[j]].state, "finish", "poll")
    /\ toPoll' = toPoll \ {j}
    /\ target' = IF pc' = "finish" THEN j ELSE target
    /\ UNCHANGED <<managerVars, handles, processes, plan, recoveryVars, crashes>>

\* Mutant: the resources are kept.
FinishKeepsLease ==
    /\ pc = "finish"
    /\ handles' = [handles EXCEPT ![target] = 0]
    /\ target' = NoJob
    /\ pc' = "poll"
    /\ UNCHANGED <<queueVars, managerVars, processes, plan, toPoll, recoveryVars, crashes>>

Finish ==
    /\ pc = "finish"
    /\ RM!DeallocateJob(target)
    /\ handles' = [handles EXCEPT ![target] = 0]
    /\ target' = NoJob
    /\ pc' = "poll"
    /\ UNCHANGED <<queueVars, processes, plan, toPoll, recoveryVars, crashes>>

StepEnd ==
    /\ pc = "poll" /\ toPoll = {}
    /\ pc' = "idle"
    /\ UNCHANGED <<queueVars, managerVars, handles, processes, plan, toPoll, target,
                   recoveryVars, crashes>>

-----------------------------------------------------------------------------
(* submit_job() and cancel_job() *)

\* validate_job, of a specification that parses: it has names, an entrypoint and
\* no negative requests.
ValidateJob(j) ==
    /\ Req[j].cpus >= 1
    /\ Req[j].gpus <= MaxGpuLimit
    /\ Req[j].cpus <= MaxCpuLimit

\* An AdmissionError changes nothing; admit_job makes the new job QUEUED.
Submit(j) ==
    /\ ValidateJob(j)
    /\ JQ!Enqueue(j, "QUEUED")
    /\ UNCHANGED <<managerVars, handles, processes, loopVars, recoveryVars, crashes>>

\* Mutant: the process is not stopped.
CancelLetsRun(j) ==
    /\ pc = "idle" /\ handles[j] # 0
    /\ handles' = [handles EXCEPT ![j] = 0]
    /\ target' = j
    /\ pc' = "cancelRelease"
    /\ UNCHANGED <<queueVars, managerVars, processes, plan, toPoll, recoveryVars, crashes>>

\* A job with a handle has its process stopped and its resources released.
CancelStop(j) ==
    /\ pc = "idle" /\ handles[j] # 0
    /\ handles' = [handles EXCEPT ![j] = 0]
    /\ processes' = IF Running(handles[j])
                    THEN [processes EXCEPT ![handles[j]].state = "CANCELLED"] ELSE processes
    /\ target' = j
    /\ pc' = "cancelRelease"
    /\ UNCHANGED <<queueVars, managerVars, plan, toPoll, recoveryVars, crashes>>

CancelRelease ==
    /\ pc = "cancelRelease"
    /\ RM!DeallocateJob(target)
    /\ pc' = "cancelCheck"
    /\ UNCHANGED <<queueVars, handles, processes, plan, toPoll, target, recoveryVars, crashes>>

\* A job without a handle goes straight to the test of its status.  For an
\* unknown job and for one that is over, the call changes nothing.
CancelNoHandle(j) ==
    /\ pc = "idle" /\ handles[j] = 0 /\ status[j] \notin JQ!Terminal \cup {Unknown}
    /\ target' = j
    /\ pc' = "cancelCheck"
    /\ UNCHANGED <<queueVars, managerVars, handles, processes, plan, toPoll, recoveryVars,
                   crashes>>

CancelCheck ==
    /\ pc = "cancelCheck"
    /\ IF status[target] \in {"QUEUED", "SCHEDULED", "RUNNING"}
       THEN pc' = "cancelMark" /\ UNCHANGED target
       ELSE pc' = "idle" /\ target' = NoJob
    /\ UNCHANGED <<queueVars, managerVars, handles, processes, plan, toPoll, recoveryVars,
                   crashes>>

CancelMark ==
    /\ pc = "cancelMark"
    /\ UpdateOr(target, "CANCELLED", "idle", "idle")
    /\ target' = NoJob
    /\ UNCHANGED <<managerVars, handles, processes, plan, toPoll, recoveryVars, crashes>>

-----------------------------------------------------------------------------
(* Rescheduler.reschedule_job(), on a thread of its own.  Its lock is not the   *)
(* controller's, and it takes any job the queue knows, whatever its status.     *)

RescheduleBegin(j) ==
    /\ recoveryPc = "idle" /\ reschedules < MaxReschedules
    /\ status[j] # Unknown
    /\ recoveryPc' = "release" /\ recoveryJob' = j
    /\ reschedules' = reschedules + 1
    /\ UNCHANGED <<queueVars, managerVars, handles, processes, loopVars, crashes>>

RescheduleRelease ==
    /\ recoveryPc = "release"
    /\ RM!DeallocateJob(recoveryJob)
    /\ recoveryPc' = "recovering"
    /\ UNCHANGED <<queueVars, handles, processes, loopVars, recoveryJob, reschedules, crashes>>

\* An update that raises ends the call, with the resources already released.
RescheduleUpdate(from, s, next) ==
    /\ recoveryPc = from
    /\ \/ JQ!UpdateStatus(recoveryJob, s) /\ recoveryPc' = next
       \/ ~JQ!MayBecome(recoveryJob, s) /\ recoveryPc' = "idle" /\ UNCHANGED queueVars
    /\ recoveryJob' = IF recoveryPc' = "idle" THEN NoJob ELSE recoveryJob
    /\ UNCHANGED <<managerVars, handles, processes, loopVars, reschedules, crashes>>

\* Mutant: the job is not queued but marked SCHEDULED.
RescheduleAsScheduled == RescheduleUpdate("requeue", "SCHEDULED", "idle")

RescheduleMark == RescheduleUpdate("recovering", "RECOVERING", "requeue")

RescheduleRequeue == RescheduleUpdate("requeue", "QUEUED", "idle")

-----------------------------------------------------------------------------
(* Workers, and the death of the controller *)

\* POST /v1/workers/register and the manager's half of a heartbeat.
Register(w, info) ==
    /\ WorkerChurn
    /\ RM!RegisterWorker(w, info)
    /\ UNCHANGED <<queueVars, handles, processes, loopVars, recoveryVars, crashes>>

\* POST /v1/workers/{worker_id}/deregister.
Unregister(w) ==
    /\ WorkerChurn
    /\ RM!UnregisterWorker(w)
    /\ UNCHANGED <<queueVars, handles, processes, loopVars, recoveryVars, crashes>>

\* The controller process dies and a new one starts: __init__ and
\* load_persisted_state.  Nobody polls the processes of the old one.
CrashAndRestart ==
    /\ crashes < MaxCrashes
    /\ crashes' = crashes + 1
    /\ JQ!Restart /\ RM!Restart
    /\ handles' = [j \in Jobs |-> 0]
    /\ pc' = "idle" /\ plan' = <<>> /\ toPoll' = {} /\ target' = NoJob
    /\ recoveryPc' = "idle" /\ recoveryJob' = NoJob
    /\ UNCHANGED <<processes, reschedules>>

-----------------------------------------------------------------------------
(* The specification *)

\* Every worker is registered, with the first of the registrations.
FirstRegistration == CHOOSE info \in Registrations : info.healthy

Init ==
    /\ JQ!Init
    /\ workers = [w \in Workers |-> FirstRegistration] /\ dbWorkers = workers
    /\ deviceState = [k \in RM!Keys |-> IF k \in RM!Registered(workers)
                                        THEN "AVAILABLE" ELSE Absent]
    /\ deviceMemory = [k \in RM!Keys |-> IF k \in RM!Registered(workers) THEN 0 ELSE Absent]
    /\ allocations = [a \in AllocIds |-> NoAllocation]
    /\ jobAllocations = [j \in Jobs |-> NoId]
    /\ dbAllocations = [j \in Jobs |-> NoAllocation]
    /\ handles = [j \in Jobs |-> 0] /\ processes = <<>>
    /\ pc = "idle" /\ plan = <<>> /\ toPoll = {} /\ target = NoJob
    /\ recoveryPc = "idle" /\ recoveryJob = NoJob
    /\ crashes = 0 /\ reschedules = 0

\* What the thread of the control loop does.
Step ==
    \/ StepBegin \/ MarkScheduled \/ Reserve \/ ReserveRefused \/ Launch \/ LaunchFails
    \/ MarkRunning \/ MarkFailed \/ ReleaseFailed
    \/ MonitorBegin \/ (\E j \in Jobs : PollRunning(j) \/ PollEnded(j)) \/ Finish \/ StepEnd

\* What a thread that called cancel_job does.
Cancel ==
    \/ \E j \in Jobs : CancelStop(j) \/ CancelNoHandle(j)
    \/ CancelRelease \/ CancelCheck \/ CancelMark

Reschedule ==
    \/ \E j \in Jobs : RescheduleBegin(j)
    \/ RescheduleRelease \/ RescheduleMark \/ RescheduleRequeue

Environment ==
    \/ \E j \in Jobs : Submit(j)
    \/ \E w \in Workers : Unregister(w) \/ \E info \in Registrations : Register(w, info)
    \/ \E p \in DOMAIN processes, outcome \in Outcomes : ProcessExit(p, outcome)
    \/ CrashAndRestart

Next == Step \/ Cancel \/ Reschedule \/ Environment

Spec == Init /\ [][Next]_vars

\* The loop thread runs on, a call of cancel_job or reschedule_job that has
\* begun finishes, and the workloads themselves terminate.
Fairness ==
    /\ WF_vars(Step)
    /\ WF_vars(CancelRelease \/ CancelCheck \/ CancelMark)
    /\ WF_vars(RescheduleRelease \/ RescheduleMark \/ RescheduleRequeue)
    /\ WF_vars(\E p \in DOMAIN processes, outcome \in Outcomes : ProcessExit(p, outcome))

FairSpec == Spec /\ Fairness

-----------------------------------------------------------------------------
(* Properties *)

PcStates == {"idle", "schedule", "allocate", "launch", "running", "fail", "release",
             "poll", "finish", "cancelRelease", "cancelCheck", "cancelMark"}

\* Every variable keeps its shape.
TypeOK ==
    /\ JQ!TypeOK /\ RM!TypeOK
    /\ handles \in [Jobs -> 0..Len(processes)]
    /\ \A p \in DOMAIN processes :
          /\ processes[p].job \in Jobs /\ processes[p].keys \subseteq RM!Keys
          /\ processes[p].state \in {"RUNNING"} \cup Outcomes
    /\ pc \in PcStates /\ toPoll \subseteq Jobs /\ target \in Jobs \cup {NoJob}
    /\ recoveryPc \in {"idle", "release", "recovering", "requeue"}
    /\ recoveryJob \in Jobs \cup {NoJob}
    /\ crashes \in 0..MaxCrashes /\ reschedules \in 0..MaxReschedules

\* No two running processes have a device in common, whatever workers come and
\* go and whenever the controller dies: resources are reserved before a launch
\* and released after the end, and the reservation survives the controller.  Not
\* so once reschedule_job was called, which releases the devices of a job whose
\* process it does not stop (rescheduler.py:39).
NoSharedDevice ==
    reschedules = 0 =>
        \A p, q \in LiveProcesses : p # q => processes[p].keys \cap processes[q].keys = {}

\* A job is launched once, and once more per call of reschedule_job: SCHEDULED
\* is stored before the launch, so that a controller that dies right after it
\* does not launch the job again.
LaunchedOnce == \A j \in Jobs : Cardinality(Launched(j)) <= 1 + reschedules

\* The devices of a running process are leased to its job as long as it runs:
\* they are released only once it has ended, unless by reschedule_job.
RunsOnItsLease ==
    reschedules = 0 =>
        \A p \in LiveProcesses :
            LET j == processes[p].job
            IN  RM!HasAllocation(j) /\ processes[p].keys = RM!LeaseOf[j]

\* Between two passes, a job that is over holds no resources, whatever launches
\* failed, was cancelled or rescheduled.  Not so once the controller died, which it
\* may do after the end of a job is stored and before the release (controller.py:182).
FinishedHoldsNothing ==
    crashes = 0 /\ pc = "idle" =>
        \A j \in Jobs : status[j] \in JQ!Terminal => ~RM!HasAllocation(j)

\* A job that is over stays so, with its outcome, whatever poll, cancellation,
\* recovery or restart comes late.
OutcomeIsFinal ==
    [][\A j \in Jobs : status[j] \in JQ!Terminal => status'[j] = status[j]]_vars

\* A process is never launched for a job that was cancelled or is over.
NoLaunchAfterEnd ==
    [][\A p \in DOMAIN processes' \ DOMAIN processes :
          status[processes'[p].job] \notin JQ!Terminal]_vars

\* Every job that waits gets an outcome, when it fits on some worker.
EveryJobEnds == \A j \in Jobs : status[j] = "QUEUED" ~> status[j] \in JQ!Terminal

-----------------------------------------------------------------------------
(* What the documents promise and the code does not keep *)

\* "Upon controller restart, state recovery reconstructs the in-memory cluster
\* topology without dropping active job context" (architecture.tex:45), "seamless
\* controller restart recovery" (README.md:20): a job that runs gets its outcome,
\* also when the controller dies meanwhile.
RestartResumes == \A j \in Jobs : status[j] = "RUNNING" ~> status[j] \in JQ!Terminal

AvailableDevices == {k \in RM!Registered(workers) : RM!StateOf(k) = "AVAILABLE"}

\* "If |D_avail| < N_req(j), job j remains in the QUEUED state" (scheduling.tex:47).
BusyStaysQueued ==
    [][\A j \in Jobs :
          status[j] = "QUEUED" /\ Cardinality(AvailableDevices) < Req[j].gpus
             => status'[j] \in {"QUEUED", "CANCELLED"}]_vars

\* "Atomic all-or-nothing multi-GPU reservation" (README.md:156): a process of a
\* job has all the GPUs the job asked for.
GangAllOrNothing ==
    \A p \in LiveProcesses : Cardinality(processes[p].keys) = Req[processes[p].job].gpus
=============================================================================
