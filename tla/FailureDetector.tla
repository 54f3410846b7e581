-------------------------- MODULE FailureDetector --------------------------
(***************************************************************************)
(* drigs/recovery/detector.py over drigs/workers/registry.py: workers fall *)
(* silent, processes end, and the loop of the detector tells the           *)
(* rescheduler, once for each job.                                         *)
(*                                                                         *)
(* check_failures holds the detector's lock throughout and calls the       *)
(* registry once, at its start, so it is one action.  What it calls back,  *)
(* Rescheduler.reschedule_job, is part of ControlPlane; here a call is     *)
(* counted.                                                                *)
(***************************************************************************)
EXTENDS WorkerRegistry, Naturals

CONSTANTS
    Jobs,           \* job ids
    NotTracked,     \* worker of a job that is not in _monitored_jobs
    MaxRestarts     \* bound: restarts of the process

VARIABLES
    monitored,      \* monitored[j]: worker of j in _monitored_jobs
    process,        \* process[j]: status of the handle that j is tracked with
    failedWorkers,  \* _failed_workers
    failedJobs,     \* _failed_jobs
    calls,          \* calls[j]: job failure callbacks made for j by this process
    restarts        \* counter of the bound

detectorVars == <<monitored, process, failedWorkers, failedJobs, calls>>
vars == <<registryVars, detectorVars, restarts>>

ProcessStates == {"RUNNING", "COMPLETED", "FAILED", "CANCELLED"}

Tracked == {j \in Jobs : monitored[j] # NotTracked}

MaxCalls == 3   \* bound of the counter calls

-----------------------------------------------------------------------------
(* The methods *)

Init ==
    /\ RegistryInit
    /\ monitored = [j \in Jobs |-> NotTracked]
    /\ process = [j \in Jobs |-> "RUNNING"]
    /\ failedWorkers = {} /\ failedJobs = {}
    /\ calls = [j \in Jobs |-> 0]
    /\ restarts = 0

\* Whether the registry knows the worker is not asked.  A job that is launched
\* again is tracked again, with its new handle.
TrackJob(j, w) ==
    /\ monitored' = [monitored EXCEPT ![j] = w]
    /\ process' = [process EXCEPT ![j] = "RUNNING"]
    /\ UNCHANGED <<registryVars, failedWorkers, failedJobs, calls, restarts>>

UntrackJob(j) ==
    /\ j \in Tracked
    /\ monitored' = [monitored EXCEPT ![j] = NotTracked]
    /\ UNCHANGED <<registryVars, process, failedWorkers, failedJobs, calls, restarts>>

ProcessEnds(j, outcome) ==
    /\ j \in Tracked /\ process[j] = "RUNNING"
    /\ process' = [process EXCEPT ![j] = outcome]
    /\ UNCHANGED <<registryVars, monitored, failedWorkers, failedJobs, calls, restarts>>

\* Mutant: only the workers that failed just now count.
LostJobsNow(failed) == {j \in Tracked \ failedJobs : monitored[j] \in failed \ failedWorkers}

\* Step 2: the tracked jobs of every worker that ever failed.
LostJobs(failed) == {j \in Tracked \ failedJobs : monitored[j] \in failed}

\* Mutants: jobs already declared failed are polled; a killed process counts as
\* a failure and a crashed one does not.
CrashedAgain(lost) == {j \in Tracked : process[j] = "FAILED"}

KilledJobs(lost) == {j \in Tracked \ (failedJobs \cup lost) : process[j] = "CANCELLED"}

\* Step 3: the other tracked jobs whose process ended badly.
CrashedJobs(lost) == {j \in Tracked \ (failedJobs \cup lost) : process[j] = "FAILED"}

CountCalls(called) ==
    calls' = [j \in Jobs |-> IF j \in called /\ calls[j] < MaxCalls THEN calls[j] + 1
                             ELSE calls[j]]

\* A backend that raises when it is polled, for a job of raised, has the job
\* entered as failed and nobody called.
CheckFailures(raised) ==
    /\ CheckTimeouts /\ UNCHANGED active
    /\ failedWorkers' = failedWorkers \cup TimedOut
    /\ LET lost == LostJobs(failedWorkers')
       IN  /\ failedJobs' = failedJobs \cup lost \cup CrashedJobs(lost) \cup raised
           /\ CountCalls(lost \cup (CrashedJobs(lost) \ raised))
    /\ UNCHANGED <<monitored, process, restarts>>

\* What others do to the registry.
RegistryCall ==
    /\ \/ \E w \in Workers, s \in Reported, inTime \in BOOLEAN : Register(w, s, inTime)
       \/ \E w \in Workers, s \in Reported : Heartbeat(w, s)
       \/ \E w \in Workers : Deregister(w) \/ Expire(w)
       \/ GetActiveWorkers
    /\ UNCHANGED <<detectorVars, restarts>>

\* The process dies; a new one has a new detector, which tracks no job.
Restart ==
    /\ restarts < MaxRestarts
    /\ restarts' = restarts + 1
    /\ RegistryRestart
    /\ monitored' = [j \in Jobs |-> NotTracked]
    /\ failedWorkers' = {} /\ failedJobs' = {}
    /\ calls' = [j \in Jobs |-> 0]
    /\ UNCHANGED process

Next ==
    \/ \E j \in Jobs, w \in Workers : TrackJob(j, w)
    \/ \E j \in Jobs : UntrackJob(j)
    \/ \E j \in Jobs, outcome \in ProcessStates \ {"RUNNING"} : ProcessEnds(j, outcome)
    \/ \E raised \in SUBSET Tracked : CheckFailures(raised)
    \/ RegistryCall
    \/ Restart

Spec == Init /\ [][Next]_vars

\* The loop of the detector runs on.  No backend is bound to raise.
FairSpec == Spec /\ WF_vars(CheckFailures({}))

-----------------------------------------------------------------------------
(* Properties *)

\* The rescheduler is called at most once for a job, whatever its worker and its
\* process do at the same time and however often a worker comes and goes.
RecoveredOnce == \A j \in Jobs : calls[j] <= 1

\* Somebody else's check of the timeouts came before the detector's: the worker
\* is OFFLINE, no later check returns it, and the detector does not know.
Swallowed(w) == health[w] = "OFFLINE" /\ w \notin failedWorkers

\* A job tracked on a worker that falls silent, or that was silent when it was
\* tracked, is declared failed, unless the worker is heard from again or leaves,
\* the job is untracked, or the timeout is swallowed.
SilentIsDeclared ==
    \A j \in Jobs, w \in Workers :
        (monitored[j] = w /\ Registered(w) /\ ~recent[w])
            ~> (\/ j \in failedJobs \/ monitored[j] # w
                \/ recent[w] \/ ~Registered(w) \/ Swallowed(w))

\* A tracked job whose process ended badly is declared failed, unless it is
\* untracked or launched again.
CrashIsDeclared ==
    \A j \in Jobs :
        (j \in Tracked /\ process[j] = "FAILED")
            ~> (j \in failedJobs \/ j \notin Tracked \/ process[j] # "FAILED")

-----------------------------------------------------------------------------
(* What the documents promise and the code does not keep *)

\* "the central registry transitions the node to OFFLINE and triggers automated
\* job rescheduling" (architecture.tex:48): a job on a node that went OFFLINE is
\* given to the rescheduler, unless the node comes back or the job is untracked.
OfflineReschedules ==
    \A j \in Jobs, w \in Workers :
        (monitored[j] = w /\ health[w] = "OFFLINE")
            ~> (j \in failedJobs \/ monitored[j] # w \/ health[w] # "OFFLINE")
=============================================================================
