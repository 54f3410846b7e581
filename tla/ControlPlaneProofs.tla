------------------------- MODULE ControlPlaneProofs -------------------------
(***************************************************************************)
(* The control plane, for every set of jobs, workers and devices: its      *)
(* shape, the leases and the lives of jobs that it implements, the         *)
(* finality of outcomes, and that what ended holds nothing, for every      *)
(* scheduler; and what is launched on which devices, for a scheduler that  *)
(* names a job once.                                                       *)
(*                                                                         *)
(* The queue and the manager keep the invariants proved of them alone,     *)
(* since every step of the control plane is one of theirs or leaves them   *)
(* alone.  What step(), cancel_job() and reschedule_job() know between two *)
(* calls is the rest of the invariant.                                     *)
(***************************************************************************)
EXTENDS ControlPlane, SetLemmas

RMP == INSTANCE ResourceManagerProofs
JQP == INSTANCE JobQueueProofs

-----------------------------------------------------------------------------
(* What is known of the queue and of the manager *)

\* The two names of the manager's invariant, and of its steps, mean the same.
LEMMA ManagerBooks == RM!Inv <=> RMP!Inv
  BY DEF RM!Inv, RM!TypeOK, RM!DeviceExclusive, RM!AvailableIsUnheld, RM!AvailableIsClean,
         RM!StoreMirrors, RM!RegisteredIsKnown, RM!Registered, RM!AllocationKeys, RM!KeysOf,
         RM!StateOf, RM!HasAllocation, RM!Live, RM!Keys, RM!WorkerInfo, RM!Allocation,
         RM!ResourceStates,
         RMP!Inv, RMP!TypeOK, RMP!DeviceExclusive, RMP!AvailableIsUnheld,
         RMP!AvailableIsClean, RMP!StoreMirrors, RMP!RegisteredIsKnown, RMP!Registered,
         RMP!AllocationKeys, RMP!KeysOf, RMP!StateOf, RMP!HasAllocation, RMP!Live, RMP!Keys,
         RMP!WorkerInfo, RMP!Allocation, RMP!ResourceStates

LEMMA ManagerMoves == [RM!Next]_(RM!vars) => [RMP!Next]_(RMP!vars)
  BY DEF RM!Next, RM!vars, RM!dbVars, RM!RegisterWorker, RM!UnregisterWorker, RM!UpdateDeviceStatus,
         RM!Allocate, RM!AllocationRefused, RM!DeviceRefused, RM!KnownWorkers, RM!FreshIds,
         RM!DeallocateJob, RM!DeallocateById, RM!Free, RM!Restart, RM!NewIds, RM!StoredJobs,
         RM!SaveWorker, RM!DeleteWorker, RM!SaveAllocation, RM!DeleteAllocation,
         RM!ReportedStates, RM!MemoryOf,
         RM!Registered, RM!AllocationKeys, RM!KeysOf, RM!StateOf, RM!HasAllocation, RM!Live, RM!Keys,
         RMP!Next, RMP!vars, RMP!dbVars, RMP!RegisterWorker, RMP!UnregisterWorker, RMP!UpdateDeviceStatus,
         RMP!Allocate, RMP!AllocationRefused, RMP!DeviceRefused, RMP!KnownWorkers, RMP!FreshIds,
         RMP!DeallocateJob, RMP!DeallocateById, RMP!Free, RMP!Restart, RMP!NewIds, RMP!StoredJobs,
         RMP!SaveWorker, RMP!DeleteWorker, RMP!SaveAllocation, RMP!DeleteAllocation,
         RMP!ReportedStates, RMP!MemoryOf,
         RMP!Registered, RMP!AllocationKeys, RMP!KeysOf, RMP!StateOf, RMP!HasAllocation, RMP!Live, RMP!Keys

\* The assumptions of ControlPlane are those of ResourceManager.
LEMMA ManagerConstants ==
    /\ TotalMemory \in Nat /\ Requests \subseteq Nat /\ Registrations \subseteq RMP!WorkerInfo
    /\ NoWorker \notin RMP!WorkerInfo /\ NoAllocation \notin RMP!Allocation
    /\ NoId \notin AllocIds
    /\ Absent \notin Nat /\ Absent \notin RMP!ResourceStates
    /\ \A K \in SUBSET RMP!Keys : NoLease # K
  BY ManagerAssumption
     DEF RM!WorkerInfo, RM!Allocation, RM!ResourceStates, RM!Keys,
         RMP!WorkerInfo, RMP!Allocation, RMP!ResourceStates, RMP!Keys

LEMMA ManagerKept == ASSUME RM!Inv, [RM!Next]_(RM!vars) PROVE RM!Inv'
<1>1. RMP!Inv /\ [RMP!Next]_(RMP!vars)
  BY ManagerBooks, ManagerMoves
<1>2. RMP!Inv'
  BY <1>1, ManagerConstants, RMP!NextInv
<1>3. (RM!Inv <=> RMP!Inv)'
  BY ManagerBooks, PTL
<1> QED BY <1>2, <1>3

QueueInv == JQ!TypeOK /\ JQ!RowsAgree

\* The steps of the queue that the control plane takes: it never takes a job out.
QueueStep ==
    \/ \E j \in Jobs : JQ!Enqueue(j, "QUEUED")
    \/ \E j \in Jobs, s \in JQ!Statuses : JQ!UpdateStatus(j, s)
    \/ JQ!Restart
    \/ UNCHANGED queueVars

LEMMA QueueTables == QueueInv <=> JQP!Inv
  BY DEF QueueInv, JQ!TypeOK, JQ!RowsAgree, JQ!Known, JQ!Statuses, JQ!Terminal,
         JQP!Inv, JQP!TypeOK, JQP!RowsAgree, JQP!Known, JQP!Statuses, JQP!Terminal

LEMMA QueueMoves == ASSUME QueueStep PROVE [JQP!Next]_(JQP!vars)
<1>1. JQ!Statuses = JQP!Statuses
  BY DEF JQ!Statuses, JQ!Terminal, JQP!Statuses, JQP!Terminal
<1>2. \A s : JQ!ValidTransitions(s) = JQP!ValidTransitions(s)
  BY DEF JQ!ValidTransitions, JQP!ValidTransitions
<1>3. ASSUME NEW j \in Jobs, JQ!Enqueue(j, "QUEUED") PROVE JQP!Enqueue(j, "QUEUED")
  <2>1. JQ!Cardinality(queue) = JQP!Cardinality(queue)
    BY DEF JQ!Cardinality, JQP!Cardinality
  <2> QED
    BY <1>3, <2>1 DEF JQ!Enqueue, JQ!EnqueuedAs, JQ!SaveJob,
           JQP!Enqueue, JQP!EnqueuedAs, JQP!SaveJob
<1>4. ASSUME NEW j \in Jobs, NEW s \in JQ!Statuses, JQ!UpdateStatus(j, s)
      PROVE  JQP!UpdateStatus(j, s)
  BY <1>2, <1>4 DEF JQ!UpdateStatus, JQ!MayBecome, JQ!Known, JQ!SaveJob,
                    JQP!UpdateStatus, JQP!MayBecome, JQP!Known, JQP!SaveJob
<1>5. JQ!Restart => JQP!Restart
  BY DEF JQ!Restart, JQ!LoadAllJobs, JQP!Restart, JQP!LoadAllJobs
<1> QED
  BY <1>1, <1>3, <1>4, <1>5 DEF QueueStep, queueVars, JQP!Next, JQP!NewStatuses, JQP!vars

LEMMA QueueConstants ==
    Jobs \subseteq Nat /\ Priority \in [Jobs -> Nat] /\ Unknown \notin JQP!Statuses
  BY JobsAssumption DEF JQ!Statuses, JQ!Terminal, JQP!Statuses, JQP!Terminal

LEMMA QueueKept == ASSUME QueueInv, QueueStep PROVE QueueInv'
<1>1. JQP!Inv'
  BY QueueMoves, QueueConstants, QueueTables, JQP!NextKeeps
<1>2. (QueueInv <=> JQP!Inv)'
  BY QueueTables, PTL
<1> QED BY <1>1, <1>2

-----------------------------------------------------------------------------
(* The inductive invariant *)

Process == [job : Jobs, state : {"RUNNING"} \cup Outcomes, keys : SUBSET RM!Keys]

\* A handle is that of a process of the job.
Handles ==
    /\ processes \in Seq(Process)
    /\ handles \in [Jobs -> 0..Len(processes)]
    /\ \A j \in Jobs : handles[j] # 0 => processes[handles[j]].job = j

Control ==
    /\ pc \in PcStates /\ toPoll \subseteq Jobs /\ target \in Jobs \cup {NoJob}
    /\ recoveryPc \in {"idle", "release", "recovering", "requeue"}
    /\ recoveryJob \in Jobs \cup {NoJob}
    /\ crashes \in 0..MaxCrashes /\ reschedules \in 0..MaxReschedules

\* The entry of the plan that step() is at, whatever the scheduler planned: its
\* job is SCHEDULED until it is marked RUNNING.
AtEntry ==
    /\ pc \in {"allocate", "launch", "running", "release"} => Entry.job \in Jobs
    /\ pc \in {"allocate", "launch", "running"} => status[Entry.job] = "SCHEDULED"
    /\ pc = "launch" => RM!KeysOf(Entry.worker, Entry.devices) \subseteq RM!Keys

\* The job that a poll, a cancellation or a recovery is about.
AtTarget ==
    /\ pc \in {"finish", "cancelRelease", "cancelCheck", "cancelMark"} => target \in Jobs
    /\ pc \in {"poll", "finish"} => \A j \in toPoll : handles[j] # 0
    /\ pc = "finish" => target \notin toPoll
    /\ recoveryPc # "idle" => recoveryJob \in Jobs

Inv == RM!Inv /\ QueueInv /\ Handles /\ Control /\ AtEntry /\ AtTarget

\* The steps of the manager that the control plane takes.
ManagerStep ==
    \/ \E w \in Workers, info \in Registrations : RM!RegisterWorker(w, info)
    \/ \E w \in Workers : RM!UnregisterWorker(w)
    \/ \E j \in Jobs, w \in Workers, D \in SUBSET Devices, mem \in Requests :
          RM!Allocate(j, w, D, mem)
    \/ \E j \in Jobs : RM!DeallocateJob(j)
    \/ RM!Restart
    \/ UNCHANGED managerVars

\* An accepted allocation names a registered worker and devices of it.
LEMMA AcceptedAllocation ==
    ASSUME Inv, Reserve
    PROVE  /\ Entry.job \in Jobs /\ Entry.worker \in Workers
           /\ Entry.devices \in SUBSET Devices /\ Req[Entry.job].vram \in Requests
           /\ RM!KeysOf(Entry.worker, Entry.devices) \subseteq RM!Keys
<1>1. Entry.job \in Jobs /\ Req[Entry.job].vram \in Requests
  BY DEF Inv, AtEntry, Reserve, Requests
<1>2. Entry.worker \in Workers
      /\ \A d \in Entry.devices : <<Entry.worker, d>> \in RM!Keys
  BY DEF Reserve, RM!Allocate, RM!AllocationRefused, RM!DeviceRefused, RM!KnownWorkers,
         RM!Registered
<1> QED
  BY <1>1, <1>2 DEF RM!Keys, RM!KeysOf

LEMMA ManagerSteps == ASSUME Inv, [Next]_vars PROVE ManagerStep
<1>1. CASE Reserve
  BY <1>1, AcceptedAllocation DEF Reserve, ManagerStep
<1>2. CASE \/ ReleaseFailed \/ Finish \/ CancelRelease \/ RescheduleRelease
  BY <1>2 DEF ReleaseFailed, Finish, CancelRelease, RescheduleRelease, Inv, AtEntry, AtTarget,
              ManagerStep
<1> QED
  BY <1>1, <1>2
     DEF Next, Step, Cancel, Reschedule, Environment, vars, ManagerStep,
         StepBegin, MarkScheduled, ReserveRefused, Launch, LaunchFails, MarkRunning, MarkFailed,
         MonitorBegin, PollRunning, PollEnded, StepEnd, CancelStop, CancelNoHandle, CancelCheck,
         CancelMark, RescheduleBegin, RescheduleMark, RescheduleRequeue, RescheduleUpdate,
         Submit, Unregister, Register, ProcessExit, CrashAndRestart

\* An update that may raise, of a job that is known if it does not.
LEMMA UpdateOrSteps ==
    ASSUME NEW j, NEW s \in JQ!Statuses, NEW next, NEW raised, UpdateOr(j, s, next, raised)
    PROVE  QueueStep
  BY DEF UpdateOr, QueueStep, JQ!UpdateStatus, JQ!MayBecome, JQ!Known

LEMMA QueueSteps == ASSUME Inv, [Next]_vars PROVE QueueStep
<1>1. {"QUEUED", "SCHEDULED", "RUNNING", "FAILED", "CANCELLED", "RECOVERING"} \subseteq JQ!Statuses
  BY DEF JQ!Statuses, JQ!Terminal
<1>2. CASE MarkScheduled \/ MarkRunning \/ MarkFailed \/ CancelMark
  BY <1>1, <1>2, UpdateOrSteps DEF MarkScheduled, MarkRunning, MarkFailed, CancelMark
<1>3. ASSUME NEW j \in Jobs, PollEnded(j) PROVE QueueStep
  <2>1. processes[handles[j]].state \in JQ!Statuses
    <3>1. handles[j] \in DOMAIN processes
      BY <1>3 DEF PollEnded, Inv, AtTarget, Handles
    <3>2. processes[handles[j]] \in Process
      BY <3>1 DEF Inv, Handles
    <3> QED
      BY <1>3, <3>2 DEF PollEnded, Running, Process, Outcomes, JQ!Statuses
  <2> QED BY <1>3, <2>1, UpdateOrSteps DEF PollEnded
<1>4. CASE RescheduleMark \/ RescheduleRequeue
  BY <1>1, <1>4 DEF RescheduleMark, RescheduleRequeue, RescheduleUpdate, Inv, AtTarget, QueueStep
<1> QED
  BY <1>2, <1>3, <1>4
     DEF Next, Step, Cancel, Reschedule, Environment, vars, QueueStep,
         StepBegin, Reserve, ReserveRefused, Launch, LaunchFails, ReleaseFailed,
         MonitorBegin, PollRunning, Finish, StepEnd, CancelStop, CancelNoHandle, CancelRelease,
         CancelCheck, RescheduleBegin, RescheduleRelease, Submit, Unregister, Register,
         ProcessExit, CrashAndRestart

\* Initially every worker is registered and nobody holds anything.
LEMMA InitInv == ASSUME Init PROVE Inv
<1>1. FirstRegistration \in RM!WorkerInfo /\ FirstRegistration # NoWorker
  BY ClusterAssumption, ManagerAssumption DEF FirstRegistration
<1>2. RM!Live = {} /\ \A j \in Jobs : ~RM!HasAllocation(j) /\ dbAllocations[j] = NoAllocation
  BY DEF Init, RM!Live, RM!HasAllocation
<1>3. RM!TypeOK
  BY <1>1 DEF Init, RM!TypeOK, RM!ResourceStates
<1>4. RM!AvailableIsClean /\ RM!RegisteredIsKnown
  BY ManagerAssumption DEF Init, RM!AvailableIsClean, RM!RegisteredIsKnown, RM!Registered,
                           RM!ResourceStates
<1>5. RM!Inv
  BY <1>2, <1>3, <1>4 DEF RM!Inv, RM!DeviceExclusive, RM!AvailableIsUnheld, RM!StoreMirrors
<1>6. QueueInv
  BY DEF Init, JQ!Init, QueueInv, JQ!TypeOK, JQ!RowsAgree
<1>7. Handles /\ Control /\ AtEntry /\ AtTarget
  BY BoundsAssumption DEF Init, Handles, Control, PcStates, AtEntry, AtTarget
<1> QED BY <1>5, <1>6, <1>7 DEF Inv

\* A new process is one of the job that the entry names, with the devices of the
\* entry; it is the only one a launch adds.
LEMMA LaunchAdds ==
    ASSUME Inv, Launch
    PROVE  /\ Entry.job \in Jobs
           /\ Len(processes') = Len(processes) + 1
           /\ processes' \in Seq(Process)
           /\ \A p \in 1..Len(processes) : processes'[p] = processes[p]
           /\ processes'[Len(processes) + 1] =
                 [job |-> Entry.job, state |-> "RUNNING",
                  keys |-> RM!KeysOf(Entry.worker, Entry.devices)]
           /\ handles' = [handles EXCEPT ![Entry.job] = Len(processes) + 1]
<1> DEFINE new == [job |-> Entry.job, state |-> "RUNNING",
                   keys |-> RM!KeysOf(Entry.worker, Entry.devices)]
<1>1. Entry.job \in Jobs /\ new \in Process
  BY DEF Inv, AtEntry, Launch, Process
<1>2. processes' = Append(processes, new) /\ processes \in Seq(Process)
  BY DEF Launch, Inv, Handles
<1>3. handles' = [handles EXCEPT ![Entry.job] = Len(processes')]
  BY DEF Launch
<1> HIDE DEF new
<1>4. /\ Len(processes') = Len(processes) + 1
      /\ processes' \in Seq(Process)
      /\ \A p \in 1..Len(processes) : processes'[p] = processes[p]
      /\ processes'[Len(processes) + 1] = new
  BY <1>1, <1>2
<1> QED BY <1>1, <1>3, <1>4 DEF new

\* When a process ends or is stopped, only its state changes.
LEMMA StateChange ==
    ASSUME Inv, NEW p \in DOMAIN processes, NEW s \in Outcomes,
           processes' = [processes EXCEPT ![p].state = s]
    PROVE  /\ processes' \in Seq(Process)
           /\ Len(processes') = Len(processes)
           /\ \A q \in DOMAIN processes :
                 /\ processes'[q].job = processes[q].job /\ processes'[q].keys = processes[q].keys
                 /\ processes'[q].state = IF q = p THEN s ELSE processes[q].state
<1>1. processes \in Seq(Process) /\ processes[p] \in Process
  BY DEF Inv, Handles
<1>2. [processes[p] EXCEPT !.state = s] \in Process
  BY <1>1 DEF Process
<1>3. /\ Len(processes') = Len(processes)
      /\ processes' \in Seq(Process)
      /\ \A q \in DOMAIN processes :
            processes'[q] = IF q = p THEN [processes[p] EXCEPT !.state = s] ELSE processes[q]
  BY <1>1, <1>2
<1>4. \A q \in DOMAIN processes : processes[q] \in Process
  BY <1>1
<1> QED BY <1>3, <1>4 DEF Process

LEMMA HandlesKept == ASSUME Inv, [Next]_vars PROVE Handles'
<1>1. CASE Launch
  BY <1>1, LaunchAdds DEF Inv, Handles
<1>2. CASE Finish
  <2>1. UNCHANGED processes /\ handles' = [handles EXCEPT ![target] = 0]
    BY <1>2 DEF Finish
  <2>2. handles' \in [Jobs -> 0..Len(processes)]
    <3>1. processes \in Seq(Process) /\ handles \in [Jobs -> 0..Len(processes)]
      BY DEF Inv, Handles
    <3>2. 0 \in 0..Len(processes)
      BY <3>1
    <3> QED BY <2>1, <3>1, <3>2
  <2>3. \A j \in Jobs : handles'[j] \in {0, handles[j]}
    BY <2>1 DEF Inv, Handles
  <2> QED BY <2>1, <2>2, <2>3 DEF Inv, Handles
<1>3. ASSUME NEW j \in Jobs, CancelStop(j) PROVE Handles'
  <2>1. handles[j] \in DOMAIN processes /\ "CANCELLED" \in Outcomes
    BY <1>3 DEF CancelStop, Inv, Handles, Outcomes, JQ!Terminal
  <2>2. /\ processes' \in Seq(Process) /\ Len(processes') = Len(processes)
        /\ \A q \in DOMAIN processes : processes'[q].job = processes[q].job
    BY <1>3, <2>1, StateChange DEF CancelStop, Inv, Handles
  <2> QED
    BY <1>3, <2>2 DEF CancelStop, Inv, Handles
<1>4. ASSUME NEW p \in DOMAIN processes, NEW s \in Outcomes, ProcessExit(p, s) PROVE Handles'
  <2>1. /\ processes' \in Seq(Process) /\ Len(processes') = Len(processes)
        /\ \A q \in DOMAIN processes : processes'[q].job = processes[q].job
    BY <1>4, StateChange DEF ProcessExit
  <2> QED
    BY <1>4, <2>1 DEF ProcessExit, Inv, Handles
<1>5. CASE CrashAndRestart
  BY <1>5 DEF CrashAndRestart, Inv, Handles
<1>6. CASE UNCHANGED <<handles, processes>>
  BY <1>6 DEF Inv, Handles
<1> QED
  BY <1>1, <1>2, <1>3, <1>4, <1>5, <1>6
     DEF Next, Step, Cancel, Reschedule, Environment, vars,
         StepBegin, MarkScheduled, Reserve, ReserveRefused, LaunchFails, MarkRunning, MarkFailed,
         ReleaseFailed, MonitorBegin, PollRunning, PollEnded, StepEnd, CancelNoHandle,
         CancelRelease, CancelCheck, CancelMark, RescheduleBegin, RescheduleRelease,
         RescheduleMark, RescheduleRequeue, RescheduleUpdate, Submit, Unregister, Register

LEMMA ControlKept == ASSUME Inv, [Next]_vars PROVE Control'
<1> USE DEF Inv, Control, loopVars, recoveryVars
<1>1. CASE Step
  <2> USE BoundsAssumption DEF PcStates, UpdateOr
  <2>1. CASE MarkScheduled \/ MarkRunning \/ MarkFailed
    BY <2>1 DEF MarkScheduled, MarkRunning, MarkFailed
  <2>2. ASSUME NEW j \in Jobs, PollRunning(j) \/ PollEnded(j) PROVE Control'
    BY <2>2 DEF PollRunning, PollEnded
  <2>3. CASE MonitorBegin \/ Finish \/ StepEnd
    BY <2>3 DEF MonitorBegin, Finish, StepEnd
  <2>4. CASE StepBegin \/ Reserve \/ ReserveRefused \/ Launch \/ LaunchFails \/ ReleaseFailed
    BY <2>4 DEF StepBegin, Reserve, ReserveRefused, Launch, LaunchFails, ReleaseFailed
  <2> QED BY <1>1, <2>1, <2>2, <2>3, <2>4 DEF Step
<1>2. CASE Cancel
  BY <1>2 DEF Cancel, CancelStop, CancelNoHandle, CancelRelease, CancelCheck, CancelMark,
              PcStates, UpdateOr
<1>3. CASE Reschedule
  <2>1. ASSUME NEW j \in Jobs, RescheduleBegin(j) PROVE Control'
    BY <2>1, BoundsAssumption DEF RescheduleBegin
  <2>2. CASE RescheduleRelease \/ RescheduleMark \/ RescheduleRequeue
    BY <2>2 DEF RescheduleRelease, RescheduleMark, RescheduleRequeue, RescheduleUpdate
  <2> QED BY <1>3, <2>1, <2>2 DEF Reschedule
<1>4. CASE CrashAndRestart
  BY <1>4, BoundsAssumption DEF CrashAndRestart, PcStates
<1>5. CASE UNCHANGED <<loopVars, recoveryVars, crashes>>
  BY <1>5
<1> QED
  BY <1>1, <1>2, <1>3, <1>4, <1>5
     DEF Next, Environment, vars, Submit, Unregister, Register, ProcessExit

\* No call of another thread moves a job out of SCHEDULED: the rescheduler only
\* moves RUNNING to RECOVERING and RECOVERING to QUEUED.
LEMMA ScheduledStays ==
    ASSUME Inv, NEW j \in Jobs, status[j] = "SCHEDULED",
           Reschedule \/ (Environment /\ ~CrashAndRestart)
    PROVE  status'[j] = "SCHEDULED"
<1>1. ASSUME NEW i \in Jobs, Submit(i) PROVE status'[j] = "SCHEDULED"
  BY <1>1, JobsAssumption DEF Submit, JQ!Enqueue, JQ!EnqueuedAs, JQ!Statuses, Inv, QueueInv, JQ!TypeOK
<1>2. CASE RescheduleMark \/ RescheduleRequeue
  BY <1>2 DEF RescheduleMark, RescheduleRequeue, RescheduleUpdate, queueVars, JQ!UpdateStatus,
              JQ!MayBecome, JQ!ValidTransitions, Inv, QueueInv, JQ!TypeOK
<1> QED
  BY <1>1, <1>2
     DEF Reschedule, Environment, queueVars, RescheduleBegin, RescheduleRelease, Unregister,
         Register, ProcessExit

LEMMA AtEntryKept == ASSUME Inv, [Next]_vars PROVE AtEntry'
<1>1. CASE MarkScheduled \/ MarkRunning \/ MarkFailed
  BY <1>1 DEF MarkScheduled, MarkRunning, MarkFailed, UpdateOr, JQ!UpdateStatus, JQ!MayBecome,
              JQ!Known, AtEntry, Entry, Inv, QueueInv, JQ!TypeOK
<1>2. CASE Reserve
  BY <1>2, AcceptedAllocation DEF Reserve, AtEntry, Entry, queueVars, Inv
<1>3. CASE Launch
  BY <1>3 DEF Launch, AtEntry, Entry, queueVars, Inv
<1>4. CASE Reschedule \/ (Environment /\ ~CrashAndRestart)
  <2>1. UNCHANGED <<pc, plan>>
    BY <1>4 DEF Reschedule, Environment, loopVars, RescheduleBegin, RescheduleRelease, Unregister,
       Register, ProcessExit, RescheduleMark, RescheduleRequeue, RescheduleUpdate, Submit
  <2> QED
    BY <1>4, <2>1, ScheduledStays DEF AtEntry, Entry, Inv
<1>5. CASE UNCHANGED vars
  BY <1>5 DEF vars, queueVars, loopVars, AtEntry, Entry, Inv
<1>6. CASE /\ pc' \notin {"allocate", "launch", "running", "release"}
  BY <1>6 DEF AtEntry
<1> QED
  BY <1>1, <1>2, <1>3, <1>4, <1>5, <1>6
     DEF Next, Step, Cancel, StepBegin, ReserveRefused, LaunchFails, ReleaseFailed,
         MonitorBegin, PollRunning, PollEnded, UpdateOr, Finish, StepEnd, CancelStop,
         CancelNoHandle, CancelRelease, CancelCheck, CancelMark, CrashAndRestart

LEMMA AtTargetKept == ASSUME Inv, [Next]_vars PROVE AtTarget'
<1> USE DEF Inv, AtTarget, loopVars, recoveryVars
<1>1. CASE Step
  <2> USE DEF UpdateOr
  <2>1. ASSUME NEW j \in Jobs, PollRunning(j) \/ PollEnded(j) PROVE AtTarget'
    BY <2>1 DEF PollRunning, PollEnded
  <2>2. CASE Finish
    BY <2>2 DEF Finish, Handles
  <2>3. CASE MonitorBegin \/ StepEnd
    BY <2>3 DEF MonitorBegin, StepEnd
  <2>4. CASE MarkScheduled \/ MarkRunning \/ MarkFailed
    BY <2>4 DEF MarkScheduled, MarkRunning, MarkFailed
  <2>5. CASE StepBegin \/ Reserve \/ ReserveRefused \/ Launch \/ LaunchFails \/ ReleaseFailed
    BY <2>5 DEF StepBegin, Reserve, ReserveRefused, Launch, LaunchFails, ReleaseFailed
  <2> QED BY <1>1, <2>1, <2>2, <2>3, <2>4, <2>5 DEF Step
<1>2. CASE Cancel
  BY <1>2 DEF Cancel, CancelStop, CancelNoHandle, CancelRelease, CancelCheck, CancelMark, UpdateOr
<1>3. CASE Reschedule
  BY <1>3 DEF Reschedule, RescheduleBegin, RescheduleRelease, RescheduleMark,
              RescheduleRequeue, RescheduleUpdate
<1>4. CASE CrashAndRestart
  BY <1>4 DEF CrashAndRestart
<1>5. CASE UNCHANGED <<handles, loopVars, recoveryVars>>
  BY <1>5
<1> QED
  BY <1>1, <1>2, <1>3, <1>4, <1>5
     DEF Next, Environment, vars, Submit, Unregister, Register, ProcessExit

LEMMA NextInv == ASSUME Inv, [Next]_vars PROVE Inv'
<1>1. RM!Inv'
  <2>1. [RM!Next]_(RM!vars)
    BY ManagerSteps DEF ManagerStep, managerVars, RM!Next, RM!vars
  <2> QED BY <2>1, ManagerKept DEF Inv
<1>2. QueueInv'
  BY QueueSteps, QueueKept DEF Inv
<1> QED BY <1>1, <1>2, HandlesKept, ControlKept, AtEntryKept, AtTargetKept DEF Inv

-----------------------------------------------------------------------------
(* For every scheduler, every number of crashes and of recoveries *)

\* The inductive invariant of the control plane.
THEOREM Invariance == Spec => []Inv
  BY InitInv, NextInv, PTL DEF Spec

\* Every variable keeps its shape, whatever the scheduler plans, whichever calls
\* of step(), cancel_job() and reschedule_job() interleave, and whenever the
\* controller dies.
THEOREM TypeCorrect == Spec => []TypeOK
<1>1. ASSUME Inv PROVE TypeOK
  <2>1. \A p \in DOMAIN processes : processes[p] \in Process
    BY <1>1 DEF Inv, Handles
  <2>2. \A p \in DOMAIN processes :
            /\ processes[p].job \in Jobs /\ processes[p].keys \subseteq RM!Keys
            /\ processes[p].state \in {"RUNNING"} \cup Outcomes
    BY <2>1 DEF Process
  <2> QED
    BY <1>1, <2>2 DEF Inv, TypeOK, QueueInv, Handles, Control, RM!Inv
<1> QED BY <1>1, Invariance, PTL

\* The whole control plane keeps the promise of DeviceLease: whatever calls interleave
\* and whenever the controller dies, what a job holds changes only when the job
\* acquires devices nobody holds or gives all of them back.
THEOREM ImplementsLease == Spec => RMP!LeaseSpec
<1>1. Init => RMP!Leases!Init
  BY DEF Init, RMP!Leases!Init, RMP!LeaseOf, RMP!Live
<1>2. ASSUME Inv, Inv', [Next]_vars PROVE [RMP!Leases!Next]_(RMP!LeaseOf)
  <2>1. RMP!Inv
    BY <1>2, ManagerBooks DEF Inv
  <2>2. RMP!Inv'
    <3>1. (RM!Inv <=> RMP!Inv)'
      BY ManagerBooks, PTL
    <3> QED BY <1>2, <3>1 DEF Inv
  <2>3. [RMP!Next]_(RMP!vars)
    <3>1. [RM!Next]_(RM!vars)
      BY <1>2, ManagerSteps DEF ManagerStep, managerVars, RM!Next, RM!vars
    <3> QED BY <3>1, ManagerMoves
  <2> QED BY <2>1, <2>2, <2>3, ManagerConstants, RMP!StepImplementsLease
<1> QED BY <1>1, <1>2, Invariance, PTL DEF Spec, RMP!LeaseSpec, RMP!Leases!Spec

\* And that of JobLifecycle: no interleaving of step(), cancel_job() and
\* reschedule_job(), and no death of the controller, revives a job that ended
\* or completes one that was not started.
THEOREM ImplementsLifecycle == Spec => JQP!LifecycleSpec
<1>1. Init => JQP!Lifecycle!Init
  BY QueueConstants, JQP!StageValues DEF Init, JQ!Init, JQP!StageOf, JQP!Lifecycle!Init
<1>2. ASSUME Inv, [Next]_vars PROVE [JQP!Lifecycle!Next]_(JQP!StageOf)
  <2>1. JQP!Inv
    BY <1>2, QueueTables DEF Inv
  <2>2. [JQP!Next]_(JQP!vars)
    BY <1>2, QueueSteps, QueueMoves
  <2> QED BY <2>1, <2>2, QueueConstants, JQP!StepRefines
<1> QED BY <1>1, <1>2, Invariance, PTL DEF Spec, JQP!LifecycleSpec, JQP!Lifecycle!Spec

\* A job that is over keeps its outcome.
THEOREM OutcomesAreFinal == Spec => OutcomeIsFinal
<1>1. ASSUME Inv, [Next]_vars, NEW j \in Jobs, status[j] \in JQ!Terminal
      PROVE  status'[j] = status[j]
  <2>1. ASSUME NEW i \in Jobs, JQ!Enqueue(i, "QUEUED") PROVE status'[j] = status[j]
    BY <1>1, <2>1, JobsAssumption DEF JQ!Enqueue, JQ!EnqueuedAs, JQ!Statuses, Inv, QueueInv, JQ!TypeOK
  <2>2. ASSUME NEW i \in Jobs, NEW s \in JQ!Statuses, JQ!UpdateStatus(i, s)
        PROVE  status'[j] = status[j]
    BY <1>1, <2>2 DEF JQ!UpdateStatus, JQ!MayBecome, JQ!ValidTransitions, JQ!Terminal, Inv,
                      QueueInv, JQ!TypeOK
  <2>3. CASE JQ!Restart
    BY <1>1, <2>3, JobsAssumption
       DEF JQ!Restart, JQ!LoadAllJobs, JQ!Statuses, Inv, QueueInv, JQ!RowsAgree
  <2> QED
    BY <1>1, <2>1, <2>2, <2>3, QueueSteps DEF QueueStep, queueVars
<1>2. Inv /\ [Next]_vars
         => [\A j \in Jobs : status[j] \in JQ!Terminal => status'[j] = status[j]]_vars
  BY <1>1
<1> QED BY <1>2, Invariance, PTL DEF Spec, OutcomeIsFinal

\* A process is launched only for a job that is SCHEDULED.
THEOREM NoLateLaunch == Spec => NoLaunchAfterEnd
<1>1. ASSUME Inv, [Next]_vars, NEW p \in DOMAIN processes' \ DOMAIN processes
      PROVE  status[processes'[p].job] \notin JQ!Terminal
  <2>1. CASE Launch
    <3>1. processes'[p].job = Entry.job
      BY <1>1, <2>1, LaunchAdds DEF Inv, Handles
    <3> QED BY <1>1, <2>1, <3>1 DEF Launch, Inv, AtEntry, JQ!Terminal
  <2>2. CASE ~Launch
    <3>1. DOMAIN processes' = DOMAIN processes
      BY <1>1, <2>2
         DEF Next, Step, Cancel, Reschedule, Environment, vars,
         StepBegin, MarkScheduled, Reserve, ReserveRefused, LaunchFails, MarkRunning, MarkFailed,
         ReleaseFailed, MonitorBegin, PollRunning, PollEnded, Finish, StepEnd, CancelStop, CancelNoHandle,
         CancelRelease, CancelCheck, CancelMark, RescheduleBegin, RescheduleRelease,
         RescheduleMark, RescheduleRequeue, RescheduleUpdate, Submit, Unregister, Register, ProcessExit, CrashAndRestart
    <3> QED BY <1>1, <3>1
  <2> QED BY <2>1, <2>2
<1>2. Inv /\ [Next]_vars
         => [\A p \in DOMAIN processes' \ DOMAIN processes :
                status[processes'[p].job] \notin JQ!Terminal]_vars
  BY <1>1
<1> QED BY <1>2, Invariance, PTL DEF Spec, NoLaunchAfterEnd

-----------------------------------------------------------------------------
(* The rows of table allocations are what the jobs hold *)

Held(j) == dbAllocations[j] # NoAllocation

LEMMA HeldIsStored == ASSUME RM!Inv, NEW j \in Jobs PROVE RM!HasAllocation(j) <=> Held(j)
  BY DEF RM!Inv, RM!StoreMirrors, RM!HasAllocation, RM!Live, Held

LEMMA DeallocateRow ==
    ASSUME RM!Inv, NEW j \in Jobs, RM!DeallocateJob(j)
    PROVE  dbAllocations' = [dbAllocations EXCEPT ![j] = NoAllocation]
<1>1. CASE RM!HasAllocation(j)
  BY <1>1 DEF RM!DeallocateJob, RM!Free, RM!DeleteAllocation, RM!Inv, RM!StoreMirrors,
              RM!HasAllocation
<1>2. CASE ~RM!HasAllocation(j)
  BY <1>2 DEF RM!DeallocateJob, RM!dbVars, RM!Inv, RM!StoreMirrors, RM!TypeOK
<1> QED BY <1>1, <1>2

LEMMA AllocateRow ==
    ASSUME RM!Inv, NEW j \in Jobs, NEW w, NEW D, NEW mem, RM!Allocate(j, w, D, mem)
    PROVE  /\ dbAllocations[j] = NoAllocation
           /\ dbAllocations' =
                 [dbAllocations EXCEPT ![j] = [job |-> j, worker |-> w, devices |-> D]]
  BY DEF RM!Allocate, RM!AllocationRefused, RM!SaveAllocation, RM!Inv, RM!StoreMirrors,
         RM!HasAllocation

\* Only an allocation and a deallocation write a row.
LEMMA RowsUntouched ==
    ASSUME [Next]_vars
    PROVE  \/ Reserve \/ ReleaseFailed \/ Finish \/ CancelRelease \/ RescheduleRelease
           \/ UNCHANGED dbAllocations
  BY DEF Next, Step, Cancel, Reschedule, Environment, vars, managerVars,
         StepBegin, MarkScheduled, ReserveRefused, Launch, LaunchFails, MarkRunning, MarkFailed,
         MonitorBegin, PollRunning, PollEnded, StepEnd, CancelStop, CancelNoHandle, CancelCheck,
         CancelMark, RescheduleBegin, RescheduleMark, RescheduleRequeue, RescheduleUpdate,
         Submit, Unregister, Register, RM!RegisterWorker, RM!UnregisterWorker, ProcessExit,
         CrashAndRestart, RM!Restart, RM!dbVars

-----------------------------------------------------------------------------
(* A controller that does not die leaves nothing behind *)

\* What a job holds is held by the handle of its process, or step() or
\* cancel_job() is about to deal with it.
HeldByHandle ==
    \A j \in Jobs : Held(j) =>
        \/ handles[j] # 0
        \/ pc \in {"launch", "fail", "release"} /\ Entry.job = j
        \/ pc = "cancelRelease" /\ target = j

\* A job that is over holds something only until the release that comes next.
OverReleases ==
    \A j \in Jobs : Held(j) /\ status[j] \in JQ!Terminal =>
        \/ pc = "finish" /\ target = j
        \/ pc = "release" /\ Entry.job = j

HolderIsKnown == \A j \in Jobs : Held(j) => status[j] # Unknown

\* cancel_job has dropped the handle before it marks the job.
CancelledIsUnhandled == pc \in {"cancelRelease", "cancelCheck", "cancelMark"} => handles[target] = 0

Tidy == HeldByHandle /\ OverReleases /\ HolderIsKnown /\ CancelledIsUnhandled

\* A job becomes over only where a release follows, or where it holds nothing.
LEMMA OnlyOneEnds ==
    ASSUME Inv, [Next]_vars, ~CrashAndRestart, NEW j \in Jobs, status'[j] # status[j]
    PROVE  /\ status'[j] # Unknown
           /\ status'[j] \in JQ!Terminal =>
                \/ MarkFailed /\ pc' = "release" /\ Entry.job = j
                \/ PollEnded(j) /\ pc' = "finish" /\ target' = j
                \/ CancelMark /\ target = j
<1>1. ASSUME NEW i, NEW s \in JQ!Statuses, NEW next, NEW raised, UpdateOr(i, s, next, raised)
      PROVE  i = j /\ status'[j] = s /\ pc' = next
  BY <1>1 DEF UpdateOr, JQ!UpdateStatus, queueVars, Inv, QueueInv, JQ!TypeOK
<1>2. {"QUEUED", "SCHEDULED", "RUNNING", "FAILED", "CANCELLED", "RECOVERING"} \subseteq JQ!Statuses
  BY DEF JQ!Statuses, JQ!Terminal
<1>3. Unknown \notin JQ!Statuses
  BY JobsAssumption
<1>4. CASE MarkScheduled \/ MarkRunning
  BY <1>1, <1>2, <1>3, <1>4 DEF MarkScheduled, MarkRunning, JQ!Terminal
<1>5. CASE MarkFailed \/ CancelMark
  BY <1>1, <1>2, <1>3, <1>5 DEF MarkFailed, CancelMark
<1>6. ASSUME NEW i \in Jobs, PollEnded(i)
      PROVE  i = j /\ pc' = "finish" /\ target' = j /\ status'[j] # Unknown
  <2>1. handles[i] \in DOMAIN processes
    BY <1>6 DEF PollEnded, Inv, AtTarget, Handles
  <2>2. processes[handles[i]] \in Process
    BY <2>1 DEF Inv, Handles
  <2>3. processes[handles[i]].state \in JQ!Statuses
    BY <1>6, <2>2 DEF PollEnded, Running, Process, Outcomes, JQ!Statuses
  <2> QED BY <1>1, <1>3, <1>6, <2>3 DEF PollEnded
<1>7. ASSUME RescheduleMark \/ RescheduleRequeue
      PROVE  status'[j] \in {"RECOVERING", "QUEUED"}
  BY <1>7 DEF RescheduleMark, RescheduleRequeue, RescheduleUpdate, JQ!UpdateStatus, queueVars,
              Inv, QueueInv, JQ!TypeOK
<1>8. ASSUME NEW i \in Jobs, Submit(i) PROVE status'[j] = "QUEUED"
  BY <1>8 DEF Submit, JQ!Enqueue, JQ!EnqueuedAs, Inv, QueueInv, JQ!TypeOK
<1>9. ASSUME UNCHANGED queueVars PROVE FALSE
  BY <1>9 DEF queueVars
<1>10. "RECOVERING" \notin JQ!Terminal /\ "QUEUED" \notin JQ!Terminal
  BY DEF JQ!Terminal
<1> QED
  BY <1>2, <1>3, <1>4, <1>5, <1>6, <1>7, <1>8, <1>9, <1>10
     DEF Next, Step, Cancel, Reschedule, Environment, vars,
         StepBegin, Reserve, ReserveRefused, Launch, LaunchFails, ReleaseFailed, MonitorBegin,
         PollRunning, Finish, StepEnd, CancelStop, CancelNoHandle, CancelRelease, CancelCheck,
         RescheduleBegin, RescheduleRelease, Unregister, Register, ProcessExit

\* Who holds something after a step held it before, but for the job that Reserve
\* is about; a job whose resources are released holds nothing.
LEMMA HeldBefore ==
    ASSUME Inv, [Next]_vars, NEW j \in Jobs, Held(j)'
    PROVE  /\ Held(j) \/ (Reserve /\ j = Entry.job)
           /\ ReleaseFailed => j # Entry.job
           /\ Finish \/ CancelRelease => j # target
<1>1. CASE Reserve
  BY <1>1, AllocateRow DEF Reserve, Held, Inv, AtEntry, RM!Inv, RM!TypeOK, ReleaseFailed, Finish,
                           CancelRelease
<1>2. CASE ReleaseFailed
  BY <1>2, DeallocateRow DEF ReleaseFailed, Held, Inv, AtEntry, RM!Inv, RM!TypeOK, Finish,
                             CancelRelease
<1>3. CASE Finish \/ CancelRelease
  BY <1>3, DeallocateRow DEF ReleaseFailed, Held, Inv, AtTarget, RM!Inv, RM!TypeOK, Finish,
                             CancelRelease
<1>4. CASE RescheduleRelease
  <2>1. recoveryJob \in Jobs /\ RM!DeallocateJob(recoveryJob)
    BY <1>4 DEF RescheduleRelease, Inv, AtTarget
  <2>2. Held(j) /\ UNCHANGED pc
    BY <1>4, <2>1, DeallocateRow DEF RescheduleRelease, Held, Inv, RM!Inv, RM!TypeOK, loopVars
  <2> QED BY <2>2 DEF ReleaseFailed, Finish, CancelRelease
<1>5. CASE ~(Reserve \/ ReleaseFailed \/ Finish \/ CancelRelease \/ RescheduleRelease)
  BY <1>5, RowsUntouched DEF Held
<1> QED BY <1>1, <1>2, <1>3, <1>4, <1>5

LEMMA HeldByHandleKept ==
    ASSUME Inv, Tidy, [Next]_vars, ~CrashAndRestart
    PROVE  HeldByHandle'
<1> SUFFICES ASSUME NEW j \in Jobs, Held(j)'
             PROVE  \/ handles'[j] # 0
                    \/ pc' \in {"launch", "fail", "release"} /\ Entry'.job = j
                    \/ pc' = "cancelRelease" /\ target' = j
  BY DEF HeldByHandle, Held
<1>1. CASE Reserve
  BY <1>1, HeldBefore DEF Reserve, Entry, Tidy, HeldByHandle
<1> SUFFICES ASSUME ~Reserve, Held(j)
             PROVE  \/ handles'[j] # 0
                    \/ pc' \in {"launch", "fail", "release"} /\ Entry'.job = j
                    \/ pc' = "cancelRelease" /\ target' = j
  BY <1>1, HeldBefore
<1>2. \/ handles[j] # 0
      \/ pc \in {"launch", "fail", "release"} /\ Entry.job = j
      \/ pc = "cancelRelease" /\ target = j
  BY DEF Tidy, HeldByHandle
<1>3. CASE ReleaseFailed \/ Finish \/ CancelRelease
  BY <1>2, <1>3, HeldBefore DEF ReleaseFailed, Finish, CancelRelease, Inv, Handles
<1>4. CASE Launch
  BY <1>2, <1>4, LaunchAdds DEF Inv, Handles, Launch
<1>5. CASE LaunchFails
  BY <1>2, <1>5 DEF LaunchFails, Entry
<1>6. CASE MarkFailed
  <2>1. CASE pc' = "release"
    BY <1>2, <1>6, <2>1 DEF MarkFailed, Entry
  <2>2. CASE pc' = "idle"
    <3>1. Entry.job # j
      <4>1. status[j] # Unknown /\ status[j] \notin JQ!Terminal
        BY <1>6 DEF Tidy, OverReleases, HolderIsKnown, MarkFailed
      <4>2. JQ!MayBecome(j, "FAILED")
        BY <4>1 DEF JQ!MayBecome, JQ!Known, JQ!ValidTransitions, JQ!Terminal, JQ!Statuses, Inv,
                    QueueInv, JQ!TypeOK
      <4> QED BY <1>6, <2>2, <4>2 DEF MarkFailed, UpdateOr
    <3> QED BY <1>2, <1>6, <3>1 DEF MarkFailed
  <2> QED BY <1>6, <2>1, <2>2 DEF MarkFailed, UpdateOr
<1>7. ASSUME NEW i \in Jobs, CancelStop(i)
      PROVE  handles'[j] # 0 \/ (pc' = "cancelRelease" /\ target' = j)
  BY <1>2, <1>7 DEF CancelStop, Inv, Handles
<1>8. CASE pc \notin {"launch", "fail", "release", "cancelRelease"} /\ UNCHANGED handles
  BY <1>2, <1>8
<1>9. CASE UNCHANGED <<handles, pc, plan, target>>
  BY <1>2, <1>9 DEF Entry
<1> QED
  BY <1>3, <1>4, <1>5, <1>6, <1>7, <1>8, <1>9
     DEF Next, Step, Cancel, Reschedule, Environment, vars, loopVars,
         StepBegin, MarkScheduled, ReserveRefused, MarkRunning, MonitorBegin, PollRunning,
         PollEnded, StepEnd, CancelNoHandle, CancelCheck, CancelMark,
         RescheduleBegin, RescheduleRelease, RescheduleMark, RescheduleRequeue,
         RescheduleUpdate, Submit, Unregister, Register, ProcessExit

LEMMA OverReleasesKept ==
    ASSUME Inv, Tidy, [Next]_vars, ~CrashAndRestart
    PROVE  OverReleases'
<1> SUFFICES ASSUME NEW j \in Jobs, Held(j)', status'[j] \in JQ!Terminal
             PROVE  \/ pc' = "finish" /\ target' = j
                    \/ pc' = "release" /\ Entry'.job = j
  BY DEF OverReleases, Held
<1>1. CASE status'[j] # status[j]
  <2>1. CASE MarkFailed /\ pc' = "release" /\ Entry.job = j
    BY <2>1 DEF MarkFailed, Entry
  <2>2. CASE CancelMark /\ target = j
    BY <2>2, HeldBefore DEF CancelMark, Reserve, Tidy, HeldByHandle, CancelledIsUnhandled
  <2> QED BY <1>1, <2>1, <2>2, OnlyOneEnds
<1>2. CASE status'[j] = status[j]
  <2>1. Held(j)
    BY <1>2, HeldBefore DEF Inv, AtEntry, Reserve, JQ!Terminal
  <2>2. \/ pc = "finish" /\ target = j
        \/ pc = "release" /\ Entry.job = j
    BY <1>2, <2>1 DEF Tidy, OverReleases
  <2>3. ~ReleaseFailed /\ ~Finish
    BY <2>2, HeldBefore DEF ReleaseFailed, Finish
  <2>4. UNCHANGED <<pc, plan, target>>
    BY <2>2, <2>3
       DEF Next, Step, Cancel, Reschedule, Environment, vars, loopVars,
         StepBegin, MarkScheduled, Reserve, ReserveRefused, Launch, LaunchFails, MarkRunning,
         MarkFailed, MonitorBegin, PollRunning, PollEnded, StepEnd, CancelStop, CancelNoHandle,
         CancelRelease, CancelCheck, CancelMark, RescheduleBegin, RescheduleRelease,
         RescheduleMark, RescheduleRequeue, RescheduleUpdate, Submit, Unregister, Register,
         ProcessExit
  <2> QED BY <2>2, <2>4 DEF Entry
<1> QED BY <1>1, <1>2

LEMMA HolderIsKnownKept ==
    ASSUME Inv, Tidy, [Next]_vars, ~CrashAndRestart
    PROVE  HolderIsKnown'
<1> SUFFICES ASSUME NEW j \in Jobs, Held(j)' PROVE status'[j] # Unknown
  BY DEF HolderIsKnown, Held
<1>1. status[j] # Unknown
  BY HeldBefore, JobsAssumption DEF Tidy, HolderIsKnown, Inv, AtEntry, Reserve, JQ!Statuses
<1> QED BY <1>1, OnlyOneEnds

LEMMA CancelledIsUnhandledKept ==
    ASSUME Inv, Tidy, [Next]_vars, ~CrashAndRestart
    PROVE  CancelledIsUnhandled'
<1>1. ASSUME NEW j \in Jobs, CancelStop(j) PROVE CancelledIsUnhandled'
  BY <1>1 DEF CancelStop, CancelledIsUnhandled, Inv, Handles
<1>2. CASE pc' \notin {"cancelRelease", "cancelCheck", "cancelMark"}
  BY <1>2 DEF CancelledIsUnhandled
<1>3. ASSUME NEW j \in Jobs, CancelNoHandle(j) PROVE CancelledIsUnhandled'
  BY <1>3 DEF CancelNoHandle, CancelledIsUnhandled
<1>4. CASE UNCHANGED <<handles, target>>
           /\ (pc' \in {"cancelRelease", "cancelCheck", "cancelMark"} =>
                pc \in {"cancelRelease", "cancelCheck", "cancelMark"})
  BY <1>4 DEF CancelledIsUnhandled, Tidy
<1> QED
  BY <1>1, <1>2, <1>3, <1>4
     DEF Next, Step, Cancel, Reschedule, Environment, vars, loopVars, UpdateOr,
         StepBegin, MarkScheduled, Reserve, ReserveRefused, Launch, LaunchFails, MarkRunning,
         MarkFailed, ReleaseFailed, MonitorBegin, PollRunning, PollEnded, Finish, StepEnd,
         CancelRelease, CancelCheck, CancelMark, RescheduleBegin, RescheduleRelease,
         RescheduleMark, RescheduleRequeue, RescheduleUpdate, Submit, Unregister, Register,
         ProcessExit

LEMMA CrashesOnlyGrow ==
    ASSUME Inv, [Next]_vars, crashes' = 0 PROVE crashes = 0 /\ ~CrashAndRestart
<1>1. crashes \in Nat
  BY BoundsAssumption DEF Inv, Control
<1>2. ~CrashAndRestart
  BY <1>1 DEF CrashAndRestart
<1>3. crashes' = crashes
  BY <1>2
     DEF Next, Step, Cancel, Reschedule, Environment, vars,
         StepBegin, MarkScheduled, Reserve, ReserveRefused, Launch, LaunchFails, MarkRunning,
         MarkFailed, ReleaseFailed, MonitorBegin, PollRunning, PollEnded, Finish, StepEnd,
         CancelStop, CancelNoHandle, CancelRelease, CancelCheck, CancelMark,
         RescheduleBegin, RescheduleRelease, RescheduleMark, RescheduleRequeue,
         RescheduleUpdate, Submit, Unregister, Register, ProcessExit
<1> QED BY <1>2, <1>3

\* Unless the controller dies between the two, the release that follows an end
\* takes place: until it does, a job that is over holds nothing between passes, also when
\* cancellations, launch failures and recoveries interleave.
THEOREM NothingLeftBehind == Spec => []FinishedHoldsNothing
<1>1. Init => (crashes = 0 => Tidy)
  BY DEF Init, Tidy, HeldByHandle, OverReleases, HolderIsKnown, CancelledIsUnhandled, Held
<1>2. Inv /\ (crashes = 0 => Tidy) /\ [Next]_vars => (crashes = 0 => Tidy)'
  <2> SUFFICES ASSUME Inv, crashes = 0 => Tidy, [Next]_vars, crashes' = 0 PROVE Tidy'
    OBVIOUS
  <2>1. crashes = 0 /\ ~CrashAndRestart
    BY CrashesOnlyGrow DEF Inv, Control
  <2> QED
    BY <2>1, HeldByHandleKept, OverReleasesKept, HolderIsKnownKept, CancelledIsUnhandledKept
       DEF Tidy
<1>3. Inv /\ (crashes = 0 => Tidy) => FinishedHoldsNothing
  BY HeldIsStored DEF Inv, Tidy, OverReleases, FinishedHoldsNothing
<1> QED BY <1>1, <1>2, <1>3, Invariance, PTL DEF Spec

-----------------------------------------------------------------------------
(* The plan of the FIFOScheduler *)

\* A plan for some of the jobs js, that names none of them twice.
IsPlan(p, js) ==
    /\ \E S : p \in Seq(S)
    /\ \A i \in 1..Len(p) : p[i].job \in js
    /\ \A i, k \in 1..Len(p) : i # k => p[i].job # p[k].job

LEMMA EmptyPlan == ASSUME NEW js PROVE IsPlan(<<>>, js)
<1>1. <<>> \in Seq({}) /\ Len(<<>>) = 0
  OBVIOUS
<1> QED BY <1>1 DEF IsPlan

LEMMA AppendPlan ==
    ASSUME NEW js, NEW more, js \subseteq more, NEW p, IsPlan(p, js),
           NEW e, e.job \in more, e.job \notin js
    PROVE  IsPlan(Append(p, e), more)
<1>1. PICK S : p \in Seq(S)
  BY DEF IsPlan
<1>2. p \in Seq(S \cup {e}) /\ e \in S \cup {e}
  BY <1>1
<1> DEFINE q == Append(p, e)
<1>3. /\ q \in Seq(S \cup {e}) /\ Len(q) = Len(p) + 1 /\ Len(p) \in Nat
      /\ \A i \in 1..Len(p) : q[i] = p[i]
      /\ q[Len(p) + 1] = e
  BY <1>2
<1> HIDE DEF q
<1>4. \A i \in 1..Len(q) : i \in 1..Len(p) \/ i = Len(p) + 1
  BY <1>3
<1>5. /\ \A i \in 1..Len(p) : p[i].job \in js
      /\ \A i, k \in 1..Len(p) : i # k => p[i].job # p[k].job
  BY DEF IsPlan
<1>6. \A i \in 1..Len(q) : q[i].job \in more
  BY <1>3, <1>4, <1>5
<1>7. \A i, k \in 1..Len(q) : i # k => q[i].job # q[k].job
  BY <1>3, <1>4, <1>5
<1>8. \E T : q \in Seq(T)
  BY <1>3
<1>9. IsPlan(q, more)
  BY <1>6, <1>7, <1>8 DEF IsPlan
<1> QED BY <1>9 DEF q

\* What is left of a plan when its first entry is done.
LEMMA TailPlan ==
    ASSUME NEW js, NEW p, IsPlan(p, js), p # <<>>
    PROVE  /\ IsPlan(Tail(p), js) /\ Len(Tail(p)) = Len(p) - 1 /\ Len(p) \in Nat \ {0}
           /\ \A i \in 1..Len(Tail(p)) : i + 1 \in 2..Len(p) /\ Tail(p)[i] = p[i + 1]
           /\ Head(p) = p[1]
<1>1. PICK S : p \in Seq(S)
  BY DEF IsPlan
<1> DEFINE q == Tail(p)
<1>2. /\ q \in Seq(S) /\ Len(q) = Len(p) - 1 /\ Len(p) \in Nat \ {0}
      /\ \A i \in 1..Len(q) : i + 1 \in 2..Len(p) /\ q[i] = p[i + 1]
      /\ Head(p) = p[1]
  BY <1>1
<1> HIDE DEF q
<1>3. IsPlan(q, js)
  BY <1>2 DEF IsPlan
<1> QED BY <1>2, <1>3 DEF q

\* A job's turn appends an entry of the job to the plan, or leaves the plan.
LEMMA TurnAppends ==
    ASSUME NEW a, NEW n, NEW cluster
    PROVE  LET p == Sched!FIFOPlace(a, n, cluster).plan
           IN  p = a.plan \/ \E e : e.job = n /\ p = Append(a.plan, e)
  BY DEF Sched!FIFOPlace, Sched!PlaceOnFirst, Sched!PlaceOn, Sched!Take

\* What is handed out when job n had its turn, and when all up to number last had.
Turn(before, n, pending, cluster) ==
    IF n \in pending THEN Sched!FIFOPlace(before, n, cluster) ELSE before

IsAfter(f, last, pending, cluster) ==
    f = [n \in 0..last |-> IF n = 0 THEN Sched!NothingTaken(cluster)
                           ELSE Turn(f[n - 1], n, pending, cluster)]

\* The recursive function of FIFOSchedule exists.
LEMMA AfterExists ==
    ASSUME NEW last \in Nat, NEW pending, NEW cluster
    PROVE  \E f : IsAfter(f, last, pending, cluster)
<1> DEFINE G == {m \in 0..last : \E f : IsAfter(f, m, pending, cluster)}
<1>1. 0 \in G
  <2> DEFINE f == [n \in 0..0 |-> Sched!NothingTaken(cluster)]
  <2>1. IsAfter(f, 0, pending, cluster)
    BY DEF IsAfter
  <2> QED BY <2>1
<1>2. IsFiniteSet(G) /\ G \in SUBSET Nat
  <2>1. IsFiniteSet(0..last) /\ 0..last \in SUBSET Nat /\ G \in SUBSET (0..last)
    BY FS_Interval
  <2> HIDE DEF G
  <2> QED BY <2>1, FS_Subset
<1>3. PICK m \in G : \A k \in G : m >= k
  <2> HIDE DEF G
  <2> QED BY <1>1, <1>2, GreatestNumber
<1>4. ASSUME m # last PROVE FALSE
  <2>1. PICK f : IsAfter(f, m, pending, cluster)
    BY <1>3
  <2> DEFINE g == [n \in 0..(m + 1) |-> IF n = m + 1 THEN Turn(f[m], m + 1, pending, cluster)
                                        ELSE f[n]]
  <2>2. m \in 0..last /\ m + 1 \in 0..last
    BY <1>3, <1>4
  <2>3. \A n \in 0..(m + 1) :
           g[n] = IF n = 0 THEN Sched!NothingTaken(cluster)
                  ELSE Turn(g[n - 1], n, pending, cluster)
    <3> TAKE n \in 0..(m + 1)
    <3>1. CASE n = m + 1
      BY <2>2, <3>1
    <3>2. CASE n # m + 1
      <4>1. n \in 0..m /\ g[n] = f[n]
        BY <2>2, <3>2
      <4>2. f[n] = IF n = 0 THEN Sched!NothingTaken(cluster)
                   ELSE Turn(f[n - 1], n, pending, cluster)
        BY <2>1, <4>1 DEF IsAfter
      <4>3. n # 0 => g[n - 1] = f[n - 1]
        BY <2>2, <4>1
      <4> QED BY <4>1, <4>2, <4>3
    <3> QED BY <3>1, <3>2
  <2>4. IsAfter(g, m + 1, pending, cluster)
    <3>1. g = [n \in 0..(m + 1) |-> g[n]]
      OBVIOUS
    <3> HIDE DEF g
    <3> QED BY <2>3, <3>1 DEF IsAfter
  <2>5. m + 1 \in G
    <3> HIDE DEF g
    <3> QED BY <2>2, <2>4
  <2> QED BY <1>3, <2>2, <2>5
<1> QED BY <1>3, <1>4

LEMMA AfterIsPlan ==
    ASSUME NEW last \in Nat, NEW pending \in SUBSET (Nat \ {0}), NEW cluster,
           NEW f, IsAfter(f, last, pending, cluster)
    PROVE  IsPlan(f[last].plan, pending)
<1> DEFINE G == {m \in 0..last : IsPlan(f[m].plan, pending \cap (1..m))}
<1>1. 0 \in G
  <2>1. f[0] = Sched!NothingTaken(cluster)
    BY DEF IsAfter
  <2>2. f[0].plan = <<>>
    BY <2>1 DEF Sched!NothingTaken
  <2> QED BY <2>2, EmptyPlan
<1>2. IsFiniteSet(G) /\ G \in SUBSET Nat
  <2>1. IsFiniteSet(0..last) /\ 0..last \in SUBSET Nat /\ G \in SUBSET (0..last)
    BY FS_Interval
  <2> HIDE DEF G
  <2> QED BY <2>1, FS_Subset
<1>3. PICK m \in G : \A k \in G : m >= k
  <2> HIDE DEF G
  <2> QED BY <1>1, <1>2, GreatestNumber
<1>4. ASSUME m # last PROVE FALSE
  <2> DEFINE n == m + 1
             js == pending \cap (1..m)
             more == pending \cap (1..n)
  <2>1. m \in 0..last /\ n \in 0..last /\ n # 0 /\ n - 1 = m
    BY <1>3, <1>4
  <2>2. IsPlan(f[m].plan, js)
    BY <1>3
  <2>3. f[n] = Turn(f[m], n, pending, cluster)
    BY <2>1 DEF IsAfter
  <2>4. js \subseteq more /\ n \notin js /\ (n \in pending => n \in more)
    BY <2>1
  <2>5. f[n].plan = f[m].plan \/ (n \in pending /\ \E e : e.job = n /\ f[n].plan = Append(f[m].plan, e))
    BY <2>3, TurnAppends DEF Turn
  <2> HIDE DEF n, js, more
  <2>6. ASSUME f[n].plan = f[m].plan PROVE IsPlan(f[n].plan, more)
    <3> HIDE DEF IsPlan
    <3> DEFINE p == f[m].plan
    <3>1. IsPlan(p, more)
      <4>1. IsPlan(p, js)
        BY <2>2
      <4> HIDE DEF p
      <4> QED BY <4>1, <2>4 DEF IsPlan
    <3> QED BY <2>6, <3>1
  <2>7. ASSUME n \in pending, NEW e, e.job = n, f[n].plan = Append(f[m].plan, e)
        PROVE  IsPlan(f[n].plan, more)
    BY <2>2, <2>4, <2>7, AppendPlan
  <2>8. IsPlan(f[n].plan, more)
    BY <2>2, <2>4, <2>5, <2>6, <2>7 DEF IsPlan
  <2>9. n \in G
    BY <2>1, <2>8 DEF more
  <2> QED BY <1>3, <2>1, <2>9 DEF n
<1>5. IsPlan(f[last].plan, pending \cap (1..last))
  BY <1>3, <1>4
<1> QED BY <1>5 DEF IsPlan

LEMMA ScheduleIsPlan == ASSUME ~GangScheduling, Inv PROVE IsPlan(Schedule, JQ!Pending)
<1> DEFINE pending == JQ!Pending
           last == Sched!Max(pending)
<1>1. pending \in SUBSET (Nat \ {0}) /\ IsFiniteSet(pending)
  <2>1. pending \in SUBSET Jobs
    BY DEF JQ!Pending, Inv, QueueInv, JQ!TypeOK, JQ!Known
  <2> HIDE DEF pending
  <2> QED BY <2>1, JobsAssumption, FS_Subset DEF NoJob
<1>2. CASE JQ!Pending = {} \/ DOMAIN Cluster = {}
  BY <1>2, EmptyPlan DEF Schedule
<1>3. CASE ~(JQ!Pending = {} \/ DOMAIN Cluster = {})
  <2>1. last \in Nat
    <3>1. \E n \in pending : \A m \in pending : n >= m
      BY <1>1, <1>3, GreatestNumber
    <3>2. last \in pending
      BY <3>1 DEF Sched!Max
    <3> QED BY <1>1, <3>2
  <2> DEFINE f == CHOOSE f : IsAfter(f, last, pending, Cluster)
  <2>2. IsAfter(f, last, pending, Cluster)
    BY <2>1, AfterExists
  <2>3. Schedule = f[last].plan
    <3>1. Schedule = Sched!FIFOSchedule(pending, Cluster)
      BY <1>3 DEF Schedule
    <3>2. Sched!FIFOSchedule(pending, Cluster) = f[last].plan
      BY DEF Sched!FIFOSchedule, IsAfter, Turn
    <3> QED BY <3>1, <3>2
  <2> HIDE DEF f, last, pending
  <2>4. IsPlan(f[last].plan, pending)
    BY <1>1, <2>1, <2>2, AfterIsPlan
  <2> QED BY <2>3, <2>4 DEF pending
<1> QED BY <1>2, <1>3

-----------------------------------------------------------------------------
(* A pass works on a fresh plan *)

InPass == pc \in {"schedule", "allocate", "launch", "running", "fail", "release"}

\* Every entry that the pass has not come to yet is of a job that still waits.
PlanIsFresh ==
    InPass =>
        /\ IsPlan(plan, Jobs)
        /\ pc # "schedule" => plan # <<>>
        /\ \A i \in 1..Len(plan) : i > 1 \/ pc = "schedule" => status[plan[i].job] = "QUEUED"

Fresh == Inv /\ PlanIsFresh

LEMMA CrashKeepsStatus == ASSUME Inv, CrashAndRestart PROVE status' = status
  BY JobsAssumption DEF CrashAndRestart, JQ!Restart, JQ!LoadAllJobs, JQ!Statuses, Inv, QueueInv,
                        JQ!RowsAgree, JQ!TypeOK

\* The six ways in which the status of a job changes.
LEMMA StatusMoves ==
    ASSUME Fresh, [Next]_vars, NEW j \in Jobs, status'[j] # status[j]
    PROVE  \/ Submit(j) /\ status[j] = Unknown /\ status'[j] = "QUEUED"
           \/ /\ MarkScheduled /\ Entry.job = j /\ pc' = "allocate"
              /\ status[j] = "QUEUED" /\ status'[j] = "SCHEDULED"
           \/ MarkRunning /\ Entry.job = j /\ pc' = "schedule" /\ status'[j] = "RUNNING"
           \/ /\ \/ MarkFailed /\ Entry.job = j
                 \/ PollEnded(j)
                 \/ CancelMark
              /\ status'[j] \in JQ!Terminal
           \/ /\ RescheduleMark /\ recoveryJob = j
              /\ status[j] = "RUNNING" /\ status'[j] = "RECOVERING"
           \/ RescheduleRequeue /\ status[j] = "RECOVERING" /\ status'[j] = "QUEUED"
<1>0. ~CrashAndRestart
  BY CrashKeepsStatus DEF Fresh
<1>1. ASSUME NEW i, NEW s \in JQ!Statuses, NEW next, NEW raised, UpdateOr(i, s, next, raised)
      PROVE  i = j /\ status'[j] = s /\ pc' = next
  BY <1>1 DEF UpdateOr, JQ!UpdateStatus, queueVars, Fresh, Inv, QueueInv, JQ!TypeOK
<1>2. {"QUEUED", "SCHEDULED", "RUNNING", "FAILED", "CANCELLED", "RECOVERING"} \subseteq JQ!Statuses
      /\ {"FAILED", "CANCELLED"} \subseteq JQ!Terminal
  BY DEF JQ!Statuses, JQ!Terminal
<1>3. ASSUME MarkScheduled
      PROVE  /\ Entry.job = j /\ pc' = "allocate"
             /\ status[j] = "QUEUED" /\ status'[j] = "SCHEDULED"
  <2>1. Entry.job = j /\ pc' = "allocate" /\ status'[j] = "SCHEDULED"
    BY <1>1, <1>2, <1>3 DEF MarkScheduled
  <2>2. pc = "schedule" /\ plan # <<>> /\ IsPlan(plan, Jobs)
    BY <1>3 DEF MarkScheduled, Fresh, PlanIsFresh, InPass
  <2>3. Entry = plan[1] /\ 1 \in 1..Len(plan)
    BY <2>2, TailPlan DEF Entry
  <2> QED BY <2>1, <2>2, <2>3 DEF Fresh, PlanIsFresh, InPass
<1>4. CASE MarkRunning
  BY <1>1, <1>2, <1>4 DEF MarkRunning
<1>5. CASE MarkFailed \/ CancelMark
  BY <1>1, <1>2, <1>5 DEF MarkFailed, CancelMark
<1>6. ASSUME NEW i \in Jobs, PollEnded(i) PROVE i = j /\ status'[j] \in JQ!Terminal
  <2>1. handles[i] \in DOMAIN processes
    BY <1>6 DEF PollEnded, Fresh, Inv, AtTarget, Handles
  <2>2. processes[handles[i]] \in Process
    BY <2>1 DEF Fresh, Inv, Handles
  <2>3. processes[handles[i]].state \in JQ!Statuses \cap JQ!Terminal
    BY <1>6, <2>2 DEF PollEnded, Running, Process, Outcomes, JQ!Statuses
  <2> QED BY <1>1, <1>6, <2>3 DEF PollEnded
<1>7. ASSUME RescheduleMark \/ RescheduleRequeue
      PROVE  \/ /\ RescheduleMark /\ recoveryJob = j
                /\ status[j] = "RUNNING" /\ status'[j] = "RECOVERING"
             \/ RescheduleRequeue /\ status[j] = "RECOVERING" /\ status'[j] = "QUEUED"
  BY <1>7 DEF RescheduleMark, RescheduleRequeue, RescheduleUpdate, JQ!UpdateStatus, queueVars,
              JQ!MayBecome, JQ!ValidTransitions, JQ!Terminal, Fresh,
              Inv, QueueInv, JQ!TypeOK
<1>8. ASSUME NEW i \in Jobs, Submit(i)
      PROVE  i = j /\ status[j] = Unknown /\ status'[j] = "QUEUED"
  BY <1>8 DEF Submit, JQ!Enqueue, JQ!EnqueuedAs, Fresh, Inv, QueueInv, JQ!TypeOK
<1>9. ASSUME UNCHANGED queueVars PROVE FALSE
  BY <1>9 DEF queueVars
<1> QED
  BY <1>0, <1>3, <1>4, <1>5, <1>6, <1>7, <1>8, <1>9
     DEF Next, Step, Cancel, Reschedule, Environment, vars,
         StepBegin, Reserve, ReserveRefused, Launch, LaunchFails, ReleaseFailed, MonitorBegin,
         PollRunning, Finish, StepEnd, CancelStop, CancelNoHandle, CancelRelease, CancelCheck,
         RescheduleBegin, RescheduleRelease, Unregister, Register, ProcessExit, MarkScheduled,
         MarkRunning

\* A job that waits keeps waiting, but for the pass itself and cancel_job.
LEMMA QueuedStays ==
    ASSUME Fresh, [Next]_vars, NEW j \in Jobs, status[j] = "QUEUED",
           (MarkScheduled \/ MarkRunning \/ MarkFailed) => j # Entry.job,
           pc \notin {"poll", "cancelMark"}
    PROVE  status'[j] = "QUEUED"
  BY StatusMoves, JobsAssumption DEF JQ!Statuses, PollEnded, CancelMark

LEMMA PlanIsFreshKept == ASSUME ~GangScheduling, Fresh, [Next]_vars PROVE PlanIsFresh'
<1>1. CASE StepBegin
  <2>1. IsPlan(Schedule, JQ!Pending)
    BY ScheduleIsPlan DEF Fresh
  <2>2. JQ!Pending \subseteq Jobs /\ \A j \in JQ!Pending : status[j] = "QUEUED"
    BY DEF JQ!Pending, JQ!Known, Fresh, Inv, QueueInv, JQ!TypeOK
  <2>3. /\ IsPlan(Schedule, Jobs)
        /\ \A i \in 1..Len(Schedule) : status[Schedule[i].job] = "QUEUED"
    BY <2>1, <2>2 DEF IsPlan
  <2> QED
    BY <1>1, <2>3 DEF StepBegin, PlanIsFresh, queueVars, IsPlan
<1> SUFFICES ASSUME ~StepBegin, InPass' PROVE PlanIsFresh'
  BY <1>1 DEF PlanIsFresh
<1>2. InPass
  BY DEF InPass, Next, Step, Cancel, Reschedule, Environment, vars, loopVars, UpdateOr,
         MarkScheduled, Reserve, ReserveRefused, Launch, LaunchFails, MarkRunning,
         MarkFailed, ReleaseFailed, MonitorBegin, PollRunning, PollEnded, Finish, StepEnd,
         CancelStop, CancelNoHandle, CancelRelease, CancelCheck, CancelMark, RescheduleBegin,
         RescheduleRelease, RescheduleMark, RescheduleRequeue, RescheduleUpdate,
         Submit, Unregister, Register, ProcessExit, CrashAndRestart
<1>3. /\ IsPlan(plan, Jobs)
      /\ pc # "schedule" => plan # <<>>
      /\ \A i \in 1..Len(plan) : i > 1 \/ pc = "schedule" => status[plan[i].job] = "QUEUED"
  BY <1>2 DEF Fresh, PlanIsFresh
<1>4. pc \notin {"poll", "cancelMark"}
  BY <1>2 DEF InPass
<1>5. ASSUME plan # <<>>, NEW i \in 2..Len(plan)
      PROVE  plan[i].job # Entry.job /\ plan[i].job \in Jobs /\ status[plan[i].job] = "QUEUED"
  <2>1. Entry = plan[1] /\ Len(plan) \in Nat \ {0}
    BY <1>3, <1>5, TailPlan DEF Entry
  <2> QED BY <1>3, <1>5, <2>1 DEF IsPlan
<1>6. ASSUME plan # <<>>, NEW i \in 2..Len(plan) PROVE status'[plan[i].job] = "QUEUED"
  BY <1>4, <1>5, <1>6, QueuedStays
<1>7. CASE ReleaseFailed \/ (MarkRunning /\ pc' = "schedule")
  <2>1. plan # <<>> /\ plan' = Tail(plan) /\ pc' = "schedule"
    BY <1>3, <1>7 DEF ReleaseFailed, MarkRunning
  <2>2. /\ IsPlan(plan', Jobs)
        /\ \A i \in 1..Len(plan') : i + 1 \in 2..Len(plan) /\ plan'[i] = plan[i + 1]
    BY <1>3, <2>1, TailPlan
  <2>3. \A i \in 1..Len(plan') : status'[plan'[i].job] = "QUEUED"
    BY <1>6, <2>1, <2>2
  <2> QED BY <2>1, <2>2, <2>3 DEF PlanIsFresh
<1>8. CASE UNCHANGED plan /\ plan # <<>> /\ pc' # "schedule"
  <2>1. \A i \in 1..Len(plan) : i > 1 => status'[plan[i].job] = "QUEUED"
    <3>1. Len(plan) \in Nat
      BY <1>3, <1>8, TailPlan
    <3> QED BY <1>6, <1>8, <3>1
  <2> QED BY <1>3, <1>8, <2>1 DEF PlanIsFresh
<1>9. CASE UNCHANGED <<plan, pc>> /\ pc = "schedule" /\ ~(MarkScheduled \/ MarkRunning \/ MarkFailed)
  <2>1. \A i \in 1..Len(plan) : status'[plan[i].job] = "QUEUED"
    BY <1>3, <1>4, <1>9, QueuedStays DEF IsPlan
  <2> QED BY <1>3, <1>9, <2>1 DEF PlanIsFresh
<1> QED
  <2>1. CASE Reschedule \/ UNCHANGED vars \/ Environment
    <3>1. UNCHANGED <<plan, pc>> \/ pc' = "idle"
      BY <2>1 DEF Reschedule, Environment, vars, loopVars,
                  RescheduleBegin, RescheduleRelease, RescheduleMark, RescheduleRequeue,
                  RescheduleUpdate, Submit, Unregister, Register, ProcessExit, CrashAndRestart
    <3>2. pc' = pc /\ plan' = plan
      BY <3>1 DEF InPass
    <3>3. ~(MarkScheduled \/ MarkRunning \/ MarkFailed) \/ pc # "schedule"
      BY <3>2 DEF MarkScheduled, MarkRunning, MarkFailed, UpdateOr
    <3> QED BY <1>3, <1>8, <1>9, <3>2, <3>3
  <2> QED
    BY <1>2, <1>3, <1>7, <1>8, <2>1
       DEF InPass, Next, Step, Cancel, UpdateOr,
         MarkScheduled, Reserve, ReserveRefused, Launch, LaunchFails, MarkRunning,
         MarkFailed, ReleaseFailed, MonitorBegin, PollRunning, PollEnded, Finish, StepEnd,
         CancelStop, CancelNoHandle, CancelRelease, CancelCheck, CancelMark

LEMMA InitFresh == ASSUME Init PROVE Fresh
  BY InitInv DEF Init, Fresh, PlanIsFresh, InPass

LEMMA NextFresh == ASSUME ~GangScheduling, Fresh, [Next]_vars PROVE Fresh'
  BY NextInv, PlanIsFreshKept DEF Fresh

-----------------------------------------------------------------------------
(* A job is launched once *)

\* A launch of the job may come as things stand.
MayLaunch(j) ==
    \/ status[j] \in {Unknown, "QUEUED", "RECOVERING"}
    \/ pc \in {"allocate", "launch"} /\ Entry.job = j

\* A call of reschedule_job is under way that may yet bring the job back.
MayReturn(j) == recoveryPc \in {"release", "recovering"} /\ recoveryJob = j

One(chance) == IF chance THEN 1 ELSE 0

WithinBudget ==
    \A j \in Jobs :
        Cardinality(Launched(j)) + One(MayLaunch(j)) + One(MayReturn(j)) <= 1 + reschedules

LEMMA LaunchedIsFinite == ASSUME Inv, NEW j PROVE IsFiniteSet(Launched(j))
<1>1. Launched(j) \subseteq 1..Len(processes) /\ Len(processes) \in Nat
  BY DEF Launched, Inv, Handles
<1>2. IsFiniteSet(1..Len(processes))
  BY <1>1, FS_Interval
<1> QED BY <1>1, <1>2, FS_Subset

\* A chance to launch comes with the submission, or is the one of a call of
\* reschedule_job, which has it no longer.
LEMMA MayLaunchBefore ==
    ASSUME Fresh, [Next]_vars, NEW j \in Jobs, MayLaunch(j)'
    PROVE  MayLaunch(j) \/ (MayReturn(j) /\ ~MayReturn(j)')
<1>1. CASE status'[j] \in {Unknown, "QUEUED", "RECOVERING"}
  <2>1. RescheduleMark => recoveryPc = "recovering" /\ recoveryPc' \notin {"release", "recovering"}
    BY DEF RescheduleMark, RescheduleUpdate
  <2> QED
    BY <1>1, <2>1, StatusMoves, JobsAssumption DEF MayLaunch, MayReturn, JQ!Statuses, JQ!Terminal
<1>2. CASE pc' \in {"allocate", "launch"} /\ Entry'.job = j
  <2>1. CASE MarkScheduled
    <3>1. pc = "schedule" /\ plan # <<>> /\ Entry = Entry'
      BY <2>1 DEF MarkScheduled, Entry
    <3>2. Entry = plan[1] /\ 1 \in 1..Len(plan)
      BY <3>1, TailPlan DEF Entry, Fresh, PlanIsFresh, InPass
    <3> QED BY <1>2, <3>1, <3>2 DEF Fresh, PlanIsFresh, InPass, MayLaunch
  <2>2. CASE ~MarkScheduled
    <3>1. pc \in {"allocate", "launch"} /\ plan' = plan
      BY <1>2, <2>2
         DEF Next, Step, Cancel, Reschedule, Environment, vars, loopVars, UpdateOr,
         StepBegin, Reserve, ReserveRefused, Launch, LaunchFails, MarkRunning,
         MarkFailed, ReleaseFailed, MonitorBegin, PollRunning, PollEnded, Finish, StepEnd,
         CancelStop, CancelNoHandle, CancelRelease, CancelCheck, CancelMark, RescheduleBegin,
         RescheduleRelease, RescheduleMark, RescheduleRequeue, RescheduleUpdate,
         Submit, Unregister, Register, ProcessExit, CrashAndRestart
    <3> QED BY <1>2, <3>1 DEF MayLaunch, Entry
  <2> QED BY <2>1, <2>2
<1> QED BY <1>1, <1>2 DEF MayLaunch

\* Only a new call may bring a job back that none was to bring back.
LEMMA MayReturnBefore ==
    ASSUME Fresh, [Next]_vars, NEW j \in Jobs, MayReturn(j)', ~RescheduleBegin(j)
    PROVE  MayReturn(j)
<1>1. \A i \in Jobs : ~RescheduleBegin(i)
  BY DEF RescheduleBegin, MayReturn
<1> QED
  BY <1>1
     DEF Next, Step, Cancel, Reschedule, Environment, vars, recoveryVars, MayReturn,
         StepBegin, MarkScheduled, Reserve, ReserveRefused, Launch, LaunchFails, MarkRunning,
         MarkFailed, ReleaseFailed, MonitorBegin, PollRunning, PollEnded, Finish, StepEnd,
         CancelStop, CancelNoHandle, CancelRelease, CancelCheck, CancelMark, RescheduleRelease,
         RescheduleMark, RescheduleRequeue, RescheduleUpdate,
         Submit, Unregister, Register, ProcessExit, CrashAndRestart

\* Only a launch adds a process.
LEMMA LaunchedBefore ==
    ASSUME Fresh, [Next]_vars, ~Launch, NEW j PROVE Launched(j)' = Launched(j)
<1>1. ASSUME NEW p \in DOMAIN processes, NEW s \in Outcomes,
             processes' = [processes EXCEPT ![p].state = s]
      PROVE  Launched(j)' = Launched(j)
  <2>1. DOMAIN processes' = DOMAIN processes
    BY <1>1
  <2>2. \A q \in DOMAIN processes : processes'[q].job = processes[q].job
    BY <1>1, StateChange DEF Fresh
  <2> QED BY <2>1, <2>2 DEF Launched
<1>2. ASSUME NEW i \in Jobs, CancelStop(i) PROVE Launched(j)' = Launched(j)
  <2>1. handles[i] \in DOMAIN processes /\ "CANCELLED" \in Outcomes
    BY <1>2 DEF CancelStop, Fresh, Inv, Handles, Outcomes, JQ!Terminal
  <2> QED BY <1>1, <1>2, <2>1 DEF CancelStop, Launched
<1>3. ASSUME NEW p \in DOMAIN processes, NEW s \in Outcomes, ProcessExit(p, s)
      PROVE  Launched(j)' = Launched(j)
  BY <1>1, <1>3 DEF ProcessExit
<1>4. CASE UNCHANGED processes
  BY <1>4 DEF Launched
<1> QED
  BY <1>2, <1>3, <1>4
     DEF Next, Step, Cancel, Reschedule, Environment, vars,
         StepBegin, MarkScheduled, Reserve, ReserveRefused, LaunchFails, MarkRunning,
         MarkFailed, ReleaseFailed, MonitorBegin, PollRunning, PollEnded, Finish, StepEnd,
         CancelNoHandle, CancelRelease, CancelCheck, CancelMark, RescheduleBegin,
         RescheduleRelease, RescheduleMark, RescheduleRequeue, RescheduleUpdate,
         Submit, Unregister, Register, CrashAndRestart

\* A launch uses up the chance of its job.
LEMMA LaunchSpends ==
    ASSUME Fresh, Launch, NEW j \in Jobs
    PROVE  /\ Launched(j)' = IF j = Entry.job THEN Launched(j) \cup {Len(processes) + 1}
                             ELSE Launched(j)
           /\ Len(processes) + 1 \notin Launched(j)
           /\ j = Entry.job => MayLaunch(j) /\ ~MayLaunch(j)'
<1>1. processes \in Seq(Process) /\ Len(processes) \in Nat
  BY DEF Fresh, Inv, Handles
<1>2. /\ DOMAIN processes = 1..Len(processes)
      /\ DOMAIN processes' = 1..(Len(processes) + 1)
      /\ \A p \in 1..Len(processes) : processes'[p] = processes[p]
      /\ processes'[Len(processes) + 1].job = Entry.job
  BY <1>1, LaunchAdds DEF Fresh
<1>3. DOMAIN processes' = DOMAIN processes \cup {Len(processes) + 1}
      /\ Len(processes) + 1 \notin DOMAIN processes
  BY <1>1, <1>2
<1>4. status[Entry.job] = "SCHEDULED" /\ Unknown # "SCHEDULED" /\ UNCHANGED status
  BY JobsAssumption DEF Launch, Fresh, Inv, AtEntry, queueVars, JQ!Statuses
<1> QED BY <1>1, <1>2, <1>3, <1>4 DEF Launched, MayLaunch, Launch

LEMMA WithinBudgetKept == ASSUME Fresh, WithinBudget, [Next]_vars PROVE WithinBudget'
<1> SUFFICES ASSUME NEW j \in Jobs
             PROVE  Cardinality(Launched(j)') + One(MayLaunch(j)') + One(MayReturn(j)')
                        <= 1 + reschedules'
  BY DEF WithinBudget
<1> DEFINE before == Cardinality(Launched(j))
           after == Cardinality(Launched(j)')
<1>1. before + One(MayLaunch(j)) + One(MayReturn(j)) <= 1 + reschedules
  BY DEF WithinBudget
<1>2. IsFiniteSet(Launched(j)) /\ before \in Nat /\ reschedules \in Nat
  BY LaunchedIsFinite, FS_CardinalityType, BoundsAssumption DEF Fresh, Inv, Control
<1>3. MayLaunch(j)' => MayLaunch(j) \/ (MayReturn(j) /\ ~MayReturn(j)')
  BY MayLaunchBefore
<1>4. MayReturn(j)' => MayReturn(j) \/ RescheduleBegin(j)
  BY MayReturnBefore
<1>5. CASE Launch
  <2>1. after = IF j = Entry.job THEN before + 1 ELSE before
    BY <1>2, <1>5, LaunchSpends, FS_AddElement
  <2>2. UNCHANGED reschedules /\ (MayReturn(j)' <=> MayReturn(j))
    BY <1>5 DEF Launch, recoveryVars, MayReturn
  <2>3. j = Entry.job => MayLaunch(j) /\ ~MayLaunch(j)'
    BY <1>5, LaunchSpends
  <2> HIDE DEF before, after
  <2>4. after + One(MayLaunch(j)') + One(MayReturn(j)') <= 1 + reschedules'
    BY <1>1, <1>2, <1>3, <2>1, <2>2, <2>3 DEF One
  <2> QED BY <2>4 DEF after
<1>6. CASE ~Launch
  <2>1. after = before
    BY <1>6, LaunchedBefore
  <2>2. CASE \E i \in Jobs : RescheduleBegin(i)
    <3>1. reschedules' = reschedules + 1 /\ ~MayReturn(j) /\ (MayLaunch(j)' => MayLaunch(j))
      BY <1>3, <2>2 DEF RescheduleBegin, MayReturn
    <3> HIDE DEF before, after
    <3>2. after + One(MayLaunch(j)') + One(MayReturn(j)') <= 1 + reschedules'
      BY <1>1, <1>2, <2>1, <3>1 DEF One
    <3> QED BY <3>2 DEF after
  <2>3. CASE ~\E i \in Jobs : RescheduleBegin(i)
    <3>1. UNCHANGED reschedules
      BY <2>3
         DEF Next, Step, Cancel, Reschedule, Environment, vars, recoveryVars,
         StepBegin, MarkScheduled, Reserve, ReserveRefused, Launch, LaunchFails, MarkRunning,
         MarkFailed, ReleaseFailed, MonitorBegin, PollRunning, PollEnded, Finish, StepEnd,
         CancelStop, CancelNoHandle, CancelRelease, CancelCheck, CancelMark, RescheduleRelease,
         RescheduleMark, RescheduleRequeue, RescheduleUpdate,
         Submit, Unregister, Register, ProcessExit, CrashAndRestart
    <3>2. MayReturn(j)' => MayReturn(j)
      BY <1>4, <2>3
    <3> HIDE DEF before, after
    <3>3. after + One(MayLaunch(j)') + One(MayReturn(j)') <= 1 + reschedules'
      BY <1>1, <1>2, <1>3, <2>1, <3>1, <3>2 DEF One
    <3> QED BY <3>3 DEF after
  <2> QED BY <2>2, <2>3
<1> QED BY <1>5, <1>6

LEMMA BudgetInvariance ==
    ASSUME ~GangScheduling PROVE Spec => [](Fresh /\ WithinBudget)
<1>1. ASSUME Init PROVE WithinBudget
  <2>1. \A j : Launched(j) = {}
    BY <1>1 DEF Init, Launched
  <2>2. reschedules = 0
    BY <1>1 DEF Init
  <2>3. \A j : ~MayReturn(j)
    BY <1>1 DEF Init, MayReturn
  <2> QED BY <2>1, <2>2, <2>3, FS_EmptySet DEF WithinBudget, One
<1>2. Fresh /\ WithinBudget /\ [Next]_vars => (Fresh /\ WithinBudget)'
  BY NextFresh, WithinBudgetKept
<1> QED BY <1>1, <1>2, InitFresh, PTL DEF Spec

\* Under the FIFOScheduler a job is launched once, and once more per call of
\* reschedule_job, wherever the controller dies: the pass launches only what it
\* found waiting, and SCHEDULED is stored before the launch.
THEOREM NoSecondLaunch == ASSUME ~GangScheduling PROVE Spec => []LaunchedOnce
<1>1. ASSUME Fresh, WithinBudget PROVE LaunchedOnce
  <2> SUFFICES ASSUME NEW j \in Jobs PROVE Cardinality(Launched(j)) <= 1 + reschedules
    BY DEF LaunchedOnce
  <2>1. Cardinality(Launched(j)) \in Nat /\ reschedules \in Nat
    BY <1>1, LaunchedIsFinite, FS_CardinalityType, BoundsAssumption DEF Fresh, Inv, Control
  <2> QED BY <1>1, <2>1 DEF WithinBudget, One
<1> QED BY <1>1, BudgetInvariance, PTL

-----------------------------------------------------------------------------
(* A process runs on what its job holds, while nobody calls reschedule_job *)

Single == Fresh /\ WithinBudget

RowOfEntry ==
    pc = "launch" =>
        /\ Held(Entry.job)
        /\ RM!AllocationKeys(dbAllocations[Entry.job]) = RM!KeysOf(Entry.worker, Entry.devices)

\* What the except clause releases was reserved for a process that never ran.
FailedUnlaunched == pc \in {"fail", "release"} => Launched(Entry.job) = {}

\* What a poll or a cancellation releases was used by a process that ended.
EndedStopped == pc \in {"finish", "cancelRelease"} => \A p \in Launched(target) : ~Running(p)

ProcessesHold ==
    \A p \in LiveProcesses :
        /\ Held(processes[p].job)
        /\ processes[p].keys = RM!AllocationKeys(dbAllocations[processes[p].job])

Leased ==
    recoveryPc = "idle" /\ RowOfEntry /\ FailedUnlaunched /\ EndedStopped /\ ProcessesHold

\* Without a call of reschedule_job a job has one process, and none if a launch
\* may still come.
LEMMA OneProcess ==
    ASSUME reschedules = 0, Single, NEW j \in Jobs
    PROVE  /\ \A p, q \in Launched(j) : p = q
           /\ MayLaunch(j) => Launched(j) = {}
<1>2. IsFiniteSet(Launched(j)) /\ Cardinality(Launched(j)) \in Nat
  BY LaunchedIsFinite, FS_CardinalityType DEF Single, Fresh
<1>3. Cardinality(Launched(j)) + One(MayLaunch(j)) <= 1
  BY <1>2 DEF Single, WithinBudget, One
<1>4. Cardinality(Launched(j)) <= 1
  BY <1>2, <1>3 DEF One
<1>5. MayLaunch(j) => Cardinality(Launched(j)) = 0
  BY <1>2, <1>3 DEF One
<1> QED BY <1>2, <1>4, <1>5, AtMostOne, FS_EmptySet

\* A process that runs ran before, unless it was launched.
LEMMA RunningBefore ==
    ASSUME Inv, [Next]_vars, ~Launch, NEW p \in LiveProcesses'
    PROVE  /\ p \in LiveProcesses
           /\ processes'[p].job = processes[p].job /\ processes'[p].keys = processes[p].keys
           /\ \A j \in Jobs : CancelStop(j) => p # handles[j]
<1>1. ASSUME NEW q \in DOMAIN processes, NEW s \in Outcomes,
             processes' = [processes EXCEPT ![q].state = s]
      PROVE  /\ p \in LiveProcesses /\ p # q
             /\ processes'[p].job = processes[p].job /\ processes'[p].keys = processes[p].keys
  <2>1. s # "RUNNING"
    BY DEF Outcomes, JQ!Terminal
  <2>2. DOMAIN processes' = DOMAIN processes
    BY <1>1
  <2> QED BY <1>1, <2>1, <2>2, StateChange DEF LiveProcesses, Running
<1>2. ASSUME NEW j \in Jobs, CancelStop(j)
      PROVE  /\ p \in LiveProcesses /\ p # handles[j]
             /\ processes'[p].job = processes[p].job /\ processes'[p].keys = processes[p].keys
  <2>1. handles[j] \in DOMAIN processes /\ "CANCELLED" \in Outcomes
    BY <1>2 DEF CancelStop, Inv, Handles, Outcomes, JQ!Terminal
  <2> QED BY <1>1, <1>2, <2>1 DEF CancelStop, LiveProcesses, Running
<1>3. ASSUME NEW q \in DOMAIN processes, NEW s \in Outcomes, ProcessExit(q, s)
      PROVE  /\ p \in LiveProcesses
             /\ processes'[p].job = processes[p].job /\ processes'[p].keys = processes[p].keys
  BY <1>1, <1>3 DEF ProcessExit
<1>4. ASSUME NEW q \in DOMAIN processes, NEW s \in Outcomes, ProcessExit(q, s), NEW j \in Jobs,
             CancelStop(j)
      PROVE  FALSE
  BY <1>4 DEF ProcessExit, CancelStop, loopVars
<1>5. CASE UNCHANGED processes
  BY <1>2, <1>5 DEF LiveProcesses, Running
<1> QED
  BY <1>2, <1>3, <1>4, <1>5
     DEF Next, Step, Cancel, Reschedule, Environment, vars,
         StepBegin, MarkScheduled, Reserve, ReserveRefused, LaunchFails, MarkRunning,
         MarkFailed, ReleaseFailed, MonitorBegin, PollRunning, PollEnded, Finish, StepEnd,
         CancelNoHandle, CancelRelease, CancelCheck, CancelMark, RescheduleBegin,
         RescheduleRelease, RescheduleMark, RescheduleRequeue, RescheduleUpdate,
         Submit, Unregister, Register, CrashAndRestart

LEMMA FailedUnlaunchedKept ==
    ASSUME reschedules = 0, Single, Leased, [Next]_vars PROVE FailedUnlaunched'
<1> SUFFICES ASSUME pc' \in {"fail", "release"} PROVE Launched(Entry.job)' = {}
  BY DEF FailedUnlaunched
<1>1. CASE ReserveRefused \/ LaunchFails
  <2>1. Entry.job \in Jobs /\ MayLaunch(Entry.job)
    BY <1>1 DEF ReserveRefused, LaunchFails, MayLaunch, Single, Fresh, Inv, AtEntry
  <2>2. UNCHANGED <<plan, processes>>
    BY <1>1 DEF ReserveRefused, LaunchFails
  <2> QED BY <2>1, <2>2, OneProcess DEF Launched, Entry
<1>2. CASE ~(ReserveRefused \/ LaunchFails)
  <2>1. ~MarkScheduled
    <3> SUFFICES ASSUME MarkScheduled PROVE FALSE
      OBVIOUS
    <3>1. /\ pc = "schedule" /\ plan # <<>> /\ pc' = "fail"
          /\ ~JQ!MayBecome(Entry.job, "SCHEDULED")
      BY DEF MarkScheduled, UpdateOr
    <3>2. Entry = plan[1] /\ 1 \in 1..Len(plan)
      BY <3>1, TailPlan DEF Entry, Single, Fresh, PlanIsFresh, InPass
    <3>3. Entry.job \in Jobs /\ status[Entry.job] = "QUEUED"
      BY <3>1, <3>2 DEF Single, Fresh, PlanIsFresh, InPass, IsPlan
    <3> QED
      BY <3>1, <3>3, JobsAssumption DEF JQ!MayBecome, JQ!Known, JQ!ValidTransitions, JQ!Statuses
  <2>2. ~MarkRunning
    <3> SUFFICES ASSUME MarkRunning PROVE FALSE
      OBVIOUS
    <3>1. ~JQ!MayBecome(Entry.job, "RUNNING")
      BY DEF MarkRunning, UpdateOr
    <3>2. Entry.job \in Jobs /\ status[Entry.job] = "SCHEDULED"
      BY DEF MarkRunning, Single, Fresh, Inv, AtEntry
    <3> QED
      BY <3>1, <3>2, JobsAssumption DEF JQ!MayBecome, JQ!Known, JQ!ValidTransitions, JQ!Statuses
  <2>3. pc \in {"fail", "release"} /\ UNCHANGED plan /\ ~Launch
    BY <1>2, <2>1, <2>2
       DEF Next, Step, Cancel, Reschedule, Environment, vars, loopVars, UpdateOr,
         StepBegin, Reserve, Launch, MarkFailed, ReleaseFailed, MonitorBegin, PollRunning,
         PollEnded, Finish, StepEnd, CancelStop, CancelNoHandle, CancelRelease, CancelCheck,
         CancelMark, RescheduleBegin, RescheduleRelease, RescheduleMark, RescheduleRequeue,
         RescheduleUpdate, Submit, Unregister, Register, ProcessExit, CrashAndRestart
  <2>4. Launched(Entry.job) = {} /\ Entry' = Entry
    BY <2>3 DEF Leased, FailedUnlaunched, Entry
  <2>5. Launched(Entry.job)' = Launched(Entry.job)
    BY <2>3, <2>4, LaunchedBefore DEF Single, Launched
  <2> QED BY <2>4, <2>5
<1> QED BY <1>1, <1>2

LEMMA EndedStoppedKept ==
    ASSUME reschedules = 0, Single, Leased, [Next]_vars PROVE EndedStopped'
<1> SUFFICES ASSUME pc' \in {"finish", "cancelRelease"}, NEW p \in LiveProcesses',
                    processes'[p].job = target'
             PROVE  FALSE
  BY DEF EndedStopped, Launched, LiveProcesses
<1>1. ~Launch
  BY DEF Launch
<1>2. p \in LiveProcesses /\ processes[p].job = target'
      /\ \A j \in Jobs : CancelStop(j) => p # handles[j]
  BY <1>1, RunningBefore DEF Single, Fresh
<1>3. ASSUME NEW j \in Jobs, handles[j] # 0, target' = j PROVE p = handles[j]
  <2>1. handles[j] \in Launched(j)
    BY <1>3 DEF Launched, Single, Fresh, Inv, Handles
  <2>2. p \in Launched(j)
    BY <1>2, <1>3 DEF LiveProcesses, Launched
  <2> QED BY <2>1, <2>2, OneProcess
<1>4. ASSUME NEW j \in Jobs, PollEnded(j), target' = j PROVE FALSE
  BY <1>2, <1>3, <1>4 DEF PollEnded, LiveProcesses, Running, Single, Fresh, Inv, AtTarget
<1>5. ASSUME NEW j \in Jobs, CancelStop(j) PROVE FALSE
  BY <1>2, <1>3, <1>5 DEF CancelStop
<1>6. CASE pc \in {"finish", "cancelRelease"} /\ UNCHANGED target
  BY <1>2, <1>6 DEF Leased, EndedStopped, Launched, LiveProcesses
<1> QED
  BY <1>4, <1>5, <1>6
     DEF Next, Step, Cancel, Reschedule, Environment, vars, loopVars, UpdateOr,
         StepBegin, MarkScheduled, Reserve, ReserveRefused, Launch, LaunchFails, MarkRunning,
         MarkFailed, ReleaseFailed, MonitorBegin, PollRunning, PollEnded, Finish, StepEnd,
         CancelNoHandle, CancelRelease, CancelCheck, CancelMark, RescheduleBegin,
         RescheduleRelease, RescheduleMark, RescheduleRequeue, RescheduleUpdate,
         Submit, Unregister, Register, ProcessExit, CrashAndRestart

LEMMA RowOfEntryKept ==
    ASSUME reschedules = 0, Single, Leased, [Next]_vars PROVE RowOfEntry'
<1> SUFFICES ASSUME pc' = "launch"
             PROVE  /\ dbAllocations'[Entry'.job] # NoAllocation
                    /\ RM!AllocationKeys(dbAllocations'[Entry'.job])
                          = RM!KeysOf(Entry'.worker, Entry'.devices)
  BY DEF RowOfEntry, Held, RM!AllocationKeys, RM!KeysOf
<1>1. CASE Reserve
  <2> DEFINE alloc == [job |-> Entry.job, worker |-> Entry.worker, devices |-> Entry.devices]
  <2>1. Entry.job \in Jobs /\ Entry.worker \in Workers /\ Entry.devices \in SUBSET Devices
    BY <1>1, AcceptedAllocation DEF Single, Fresh
  <2>2. dbAllocations' = [dbAllocations EXCEPT ![Entry.job] = alloc]
    BY <1>1, <2>1, AllocateRow DEF Reserve, Single, Fresh, Inv
  <2>3. alloc # NoAllocation
    BY <2>1, ManagerAssumption DEF RM!Allocation
  <2>4. Entry' = Entry
    BY <1>1 DEF Reserve, Entry
  <2>5. dbAllocations'[Entry.job] = alloc
    BY <2>1, <2>2 DEF Single, Fresh, Inv, RM!Inv, RM!TypeOK
  <2> QED BY <2>3, <2>4, <2>5 DEF RM!AllocationKeys
<1>2. CASE ~Reserve
  <2>1. pc = "launch" /\ UNCHANGED plan
    BY <1>2
       DEF Next, Step, Cancel, Reschedule, Environment, vars, loopVars, UpdateOr,
         StepBegin, MarkScheduled, ReserveRefused, Launch, LaunchFails, MarkRunning,
         MarkFailed, ReleaseFailed, MonitorBegin, PollRunning, PollEnded, Finish, StepEnd,
         CancelStop, CancelNoHandle, CancelRelease, CancelCheck, CancelMark, RescheduleBegin,
         RescheduleRelease, RescheduleMark, RescheduleRequeue, RescheduleUpdate,
         Submit, Unregister, Register, ProcessExit, CrashAndRestart
  <2>2. UNCHANGED dbAllocations
    BY <1>2, <2>1, RowsUntouched
       DEF Leased, ReleaseFailed, Finish, CancelRelease, RescheduleRelease
  <2> QED BY <2>1, <2>2 DEF Leased, RowOfEntry, Held, Entry
<1> QED BY <1>1, <1>2

LEMMA ProcessesHoldKept ==
    ASSUME reschedules = 0, Single, Leased, [Next]_vars PROVE ProcessesHold'
<1> SUFFICES ASSUME NEW p \in LiveProcesses'
             PROVE  /\ dbAllocations'[processes'[p].job] # NoAllocation
                    /\ processes'[p].keys = RM!AllocationKeys(dbAllocations'[processes'[p].job])
  BY DEF ProcessesHold, Held, RM!AllocationKeys, RM!KeysOf
<1>1. CASE Launch
  <2>1. UNCHANGED dbAllocations
    BY <1>1 DEF Launch, managerVars
  <2>2. p \in DOMAIN processes' /\ Running(p)'
    BY DEF LiveProcesses
  <2>3. processes \in Seq(Process) /\ processes' \in Seq(Process) /\ Len(processes) \in Nat
    BY <1>1, LaunchAdds DEF Single, Fresh, Inv, Handles
  <2>4. CASE p = Len(processes) + 1
    BY <1>1, <2>1, <2>4, LaunchAdds DEF Single, Fresh, Leased, RowOfEntry, Held, Launch
  <2>5. CASE p # Len(processes) + 1
    <3>1. p \in 1..Len(processes)
      BY <1>1, <2>2, <2>3, <2>5, LaunchAdds DEF Single, Fresh
    <3>2. processes'[p] = processes[p]
      BY <1>1, <3>1, LaunchAdds DEF Single, Fresh
    <3> QED
      BY <2>1, <2>2, <2>3, <3>1, <3>2 DEF LiveProcesses, Running, Leased, ProcessesHold, Held
  <2> QED BY <2>4, <2>5
<1> SUFFICES ASSUME ~Launch
             PROVE  /\ dbAllocations'[processes'[p].job] # NoAllocation
                    /\ processes'[p].keys = RM!AllocationKeys(dbAllocations'[processes'[p].job])
  BY <1>1
<1> DEFINE j == processes[p].job
<1>2. /\ p \in LiveProcesses /\ p \in Launched(j)
      /\ processes'[p].job = j /\ processes'[p].keys = processes[p].keys
  BY RunningBefore DEF Single, Fresh, LiveProcesses, Launched
<1>3. j \in Jobs
  <2>1. processes[p] \in Process
    BY <1>2 DEF LiveProcesses, Single, Fresh, Inv, Handles
  <2> QED BY <2>1 DEF Process
<1>4. dbAllocations[j] # NoAllocation /\ processes[p].keys = RM!AllocationKeys(dbAllocations[j])
  BY <1>2 DEF Leased, ProcessesHold, Held
<1> HIDE DEF j
<1>5. dbAllocations'[j] = dbAllocations[j]
  <2>1. CASE Reserve
    <3>1. Entry.job \in Jobs
      BY <2>1 DEF Reserve, Single, Fresh, Inv, AtEntry
    <3>2. /\ dbAllocations[Entry.job] = NoAllocation
          /\ \E r : dbAllocations' = [dbAllocations EXCEPT ![Entry.job] = r]
      BY <2>1, <3>1, AllocateRow DEF Reserve, Single, Fresh, Inv
    <3> QED BY <1>4, <3>2
  <2>2. CASE ReleaseFailed
    <3>1. Entry.job \in Jobs /\ Entry.job # j
      BY <1>2, <2>2 DEF ReleaseFailed, Single, Fresh, Inv, AtEntry, Leased, FailedUnlaunched
    <3> QED
      BY <1>3, <2>2, <3>1, DeallocateRow
         DEF ReleaseFailed, Single, Fresh, Inv, RM!Inv, RM!TypeOK
  <2>3. CASE Finish \/ CancelRelease
    <3>1. target \in Jobs /\ target # j
      BY <1>2, <2>3 DEF Finish, CancelRelease, Single, Fresh, Inv, AtTarget, Leased,
                        EndedStopped, LiveProcesses
    <3> QED
      BY <1>3, <2>3, <3>1, DeallocateRow
         DEF Finish, CancelRelease, Single, Fresh, Inv, RM!Inv, RM!TypeOK
  <2>4. ~RescheduleRelease
    BY DEF Leased, RescheduleRelease
  <2> QED BY <2>1, <2>2, <2>3, <2>4, RowsUntouched
<1> QED BY <1>2, <1>4, <1>5

LEMMA NeverRecovering ==
    ASSUME reschedules' = 0, reschedules = 0, Single, Leased, [Next]_vars PROVE recoveryPc' = "idle"
<1>1. recoveryPc = "idle"
  BY DEF Leased
<1>2. \A j \in Jobs : ~RescheduleBegin(j)
  BY DEF RescheduleBegin
<1>3. ~RescheduleRelease /\ ~RescheduleMark /\ ~RescheduleRequeue
  BY <1>1 DEF RescheduleRelease, RescheduleMark, RescheduleRequeue, RescheduleUpdate
<1> QED
  BY <1>1, <1>2, <1>3
     DEF Next, Step, Cancel, Reschedule, Environment, vars, recoveryVars,
         StepBegin, MarkScheduled, Reserve, ReserveRefused, Launch, LaunchFails, MarkRunning,
         MarkFailed, ReleaseFailed, MonitorBegin, PollRunning, PollEnded, Finish, StepEnd,
         CancelStop, CancelNoHandle, CancelRelease, CancelCheck, CancelMark,
         Submit, Unregister, Register, ProcessExit, CrashAndRestart

LEMMA ReschedulesOnlyGrow ==
    ASSUME Inv, [Next]_vars, reschedules' = 0 PROVE reschedules = 0
<1>1. reschedules \in Nat
  BY BoundsAssumption DEF Inv, Control
<1>2. reschedules' = reschedules \/ reschedules' = reschedules + 1
  BY DEF Next, Step, Cancel, Reschedule, Environment, vars, recoveryVars,
         StepBegin, MarkScheduled, Reserve, ReserveRefused, Launch, LaunchFails, MarkRunning,
         MarkFailed, ReleaseFailed, MonitorBegin, PollRunning, PollEnded, Finish, StepEnd,
         CancelStop, CancelNoHandle, CancelRelease, CancelCheck, CancelMark,
         RescheduleBegin, RescheduleRelease, RescheduleMark, RescheduleRequeue,
         RescheduleUpdate, Submit, Unregister, Register, ProcessExit, CrashAndRestart
<1> QED BY <1>1, <1>2

LEMMA LeasedInvariance ==
    ASSUME ~GangScheduling PROVE Spec => [](Single /\ (reschedules = 0 => Leased))
<1>1. Init => (reschedules = 0 => Leased)
  BY DEF Init, Leased, RowOfEntry, FailedUnlaunched, EndedStopped, ProcessesHold, LiveProcesses
<1>2. Single /\ (reschedules = 0 => Leased) /\ [Next]_vars => (reschedules = 0 => Leased)'
  <2> SUFFICES ASSUME Single, reschedules = 0 => Leased, [Next]_vars, reschedules' = 0
               PROVE  Leased'
    OBVIOUS
  <2>1. reschedules = 0
    BY ReschedulesOnlyGrow DEF Single, Fresh, Inv, Control
  <2> QED BY <2>1, RowOfEntryKept, FailedUnlaunchedKept, EndedStoppedKept, ProcessesHoldKept,
             NeverRecovering DEF Leased
<1>3. Spec => []Single
  BY BudgetInvariance DEF Single
<1> QED BY <1>1, <1>2, <1>3, PTL DEF Spec

\* What is leased to a job, in the words of the manager.
LEMMA LeaseOfHolder ==
    ASSUME RM!Inv, NEW j \in Jobs, Held(j)
    PROVE  RM!HasAllocation(j) /\ RM!LeaseOf[j] = RM!AllocationKeys(dbAllocations[j])
<1>1. RM!HasAllocation(j)
  BY HeldIsStored
<1>2. RMP!LeaseOf[j] = RMP!AllocationKeys(dbAllocations[j])
  BY ManagerBooks, ManagerConstants, RMP!LeaseIsStored DEF RMP!StoredLease, Held
<1>3. RM!LeaseOf[j] = RMP!LeaseOf[j]
  BY DEF RM!LeaseOf, RMP!LeaseOf, RM!Live, RMP!Live, RM!AllocationKeys, RMP!AllocationKeys,
         RM!KeysOf, RMP!KeysOf
<1>4. RM!AllocationKeys(dbAllocations[j]) = RMP!AllocationKeys(dbAllocations[j])
  BY DEF RM!AllocationKeys, RMP!AllocationKeys, RM!KeysOf, RMP!KeysOf
<1> QED BY <1>1, <1>2, <1>3, <1>4

\* The devices of a running process are leased to its job as long as it runs:
\* through restarts of the controller, cancellations, failed launches and
\* workers that leave, until reschedule_job is called.
THEOREM DevicesStayLeased ==
    ASSUME ~GangScheduling PROVE Spec => []RunsOnItsLease
<1>1. ASSUME Single, reschedules = 0 => Leased PROVE RunsOnItsLease
  <2> SUFFICES ASSUME reschedules = 0, NEW p \in LiveProcesses
               PROVE  /\ RM!HasAllocation(processes[p].job)
                      /\ processes[p].keys = RM!LeaseOf[processes[p].job]
    BY DEF RunsOnItsLease
  <2>1. processes[p] \in Process
    BY <1>1 DEF LiveProcesses, Single, Fresh, Inv, Handles
  <2>2. processes[p].job \in Jobs /\ Held(processes[p].job)
        /\ processes[p].keys = RM!AllocationKeys(dbAllocations[processes[p].job])
    BY <1>1, <2>1 DEF Process, Leased, ProcessesHold
  <2> QED BY <1>1, <2>2, LeaseOfHolder DEF Single, Fresh, Inv
<1> QED BY <1>1, LeasedInvariance, PTL

\* What two jobs hold has no device in common.
LEMMA RowsDisjoint ==
    ASSUME RM!Inv, NEW i \in Jobs, NEW j \in Jobs, i # j, Held(i), Held(j)
    PROVE  RM!AllocationKeys(dbAllocations[i]) \cap RM!AllocationKeys(dbAllocations[j]) = {}
<1>1. RM!HasAllocation(i) /\ RM!HasAllocation(j)
  BY HeldIsStored
<1>2. /\ jobAllocations[i] \in RM!Live /\ jobAllocations[j] \in RM!Live
      /\ dbAllocations[i] = allocations[jobAllocations[i]] /\ dbAllocations[i].job = i
      /\ dbAllocations[j] = allocations[jobAllocations[j]] /\ dbAllocations[j].job = j
  BY <1>1 DEF RM!Inv, RM!StoreMirrors, RM!HasAllocation
<1> QED BY <1>2 DEF RM!Inv, RM!DeviceExclusive

\* No two running processes have a device in common, whatever workers come and
\* go and whenever the controller dies, until reschedule_job is called.
THEOREM DevicesAreNotShared ==
    ASSUME ~GangScheduling PROVE Spec => []NoSharedDevice
<1>1. ASSUME Single, reschedules = 0 => Leased PROVE NoSharedDevice
  <2> SUFFICES ASSUME reschedules = 0, NEW p \in LiveProcesses, NEW q \in LiveProcesses, p # q
               PROVE  processes[p].keys \cap processes[q].keys = {}
    BY DEF NoSharedDevice
  <2>1. processes[p] \in Process /\ processes[q] \in Process
    BY <1>1 DEF LiveProcesses, Single, Fresh, Inv, Handles
  <2>2. processes[p].job \in Jobs /\ processes[q].job \in Jobs
    BY <2>1 DEF Process
  <2>3. processes[p].job # processes[q].job
    <3>1. p \in Launched(processes[p].job) /\ q \in Launched(processes[q].job)
      BY DEF LiveProcesses, Launched
    <3> QED BY <1>1, <2>2, <3>1, OneProcess
  <2>4. /\ Held(processes[p].job) /\ Held(processes[q].job)
        /\ processes[p].keys = RM!AllocationKeys(dbAllocations[processes[p].job])
        /\ processes[q].keys = RM!AllocationKeys(dbAllocations[processes[q].job])
    BY <1>1 DEF Leased, ProcessesHold
  <2> QED BY <1>1, <2>2, <2>3, <2>4, RowsDisjoint DEF Single, Fresh, Inv
<1> QED BY <1>1, LeasedInvariance, PTL
=============================================================================
