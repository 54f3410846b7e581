------------------------------ MODULE JobQueue ------------------------------
(***************************************************************************)
(* drigs/core/queue.py: the job table and the priority queue, with the     *)
(* rows of table jobs that every change of status is written through to.   *)
(*                                                                         *)
(* Jobs are numbered in the order of their submitted_at, which is set when *)
(* a Job object is built; they may be enqueued in another order.  _queue   *)
(* is kept sorted by (-priority, submitted_at) by every method that adds   *)
(* to it, so it is modelled as the set of its members, read in that order. *)
(* Every method runs under one RLock and is one action.                    *)
(***************************************************************************)
EXTENDS Orders, SequencesExt

CONSTANTS
    Jobs,           \* job ids, numbered by submitted_at
    Priority,       \* Priority[j]: job.priority
    MaxCapacity,    \* max_capacity; at least Cardinality(Jobs) when it is None
    Unknown         \* status of a job that is not in _jobs, or has no row

ASSUME JobsAssumption == Jobs \subseteq Nat /\ Priority \in [Jobs -> Nat]

Terminal == {"COMPLETED", "FAILED", "CANCELLED"}

Statuses == {"QUEUED", "SCHEDULED", "RUNNING", "RECOVERING"} \cup Terminal

ASSUME UnknownAssumption == Unknown \notin Statuses

VARIABLES
    status,     \* status[j]: status of the Job object in _jobs
    queue,      \* the jobs in _queue, whatever their status
    dbStatus    \* dbStatus[j]: status in the job's row

vars == <<status, queue, dbStatus>>

-----------------------------------------------------------------------------
(* Statuses *)

\* Mutant: a failed job may be queued again.
TransitionsWithRetry(s) ==
    CASE s = "QUEUED"     -> {"SCHEDULED", "CANCELLED", "FAILED"}
      [] s = "SCHEDULED"  -> {"RUNNING", "CANCELLED", "FAILED"}
      [] s = "RUNNING"    -> {"COMPLETED", "FAILED", "CANCELLED", "RECOVERING"}
      [] s = "RECOVERING" -> {"QUEUED", "SCHEDULED", "RUNNING", "FAILED", "CANCELLED"}
      [] s = "FAILED"     -> {"QUEUED"}
      [] OTHER            -> {}

\* VALID_TRANSITIONS.  A job is known to the queue only once it is QUEUED:
\* admit_job takes PENDING to QUEUED before enqueue stores the job.
ValidTransitions(s) ==
    CASE s = "QUEUED"     -> {"SCHEDULED", "CANCELLED", "FAILED"}
      [] s = "SCHEDULED"  -> {"RUNNING", "CANCELLED", "FAILED"}
      [] s = "RUNNING"    -> {"COMPLETED", "FAILED", "CANCELLED", "RECOVERING"}
      [] s = "RECOVERING" -> {"QUEUED", "SCHEDULED", "RUNNING", "FAILED", "CANCELLED"}
      [] OTHER            -> {}

Known == {j \in Jobs : status[j] # Unknown}

\* The job is found and validate_status_transition does not raise; a status may
\* be set again.
MayBecome(j, s) == j \in Known /\ (s = status[j] \/ s \in ValidTransitions(status[j]))

-----------------------------------------------------------------------------
(* Order and reads *)

Before(i, j) == Priority[i] > Priority[j] \/ (Priority[i] = Priority[j] /\ i < j)

Pending == {j \in queue : status[j] = "QUEUED"}

\* get_pending_jobs
PendingJobs == InOrder(Pending, Before)

-----------------------------------------------------------------------------
(* Table jobs of the store; a job without a row is Unknown *)

\* An upsert: a row that is there gets the new status and keeps its priority and
\* its submitted_at, which are those of the job.
SaveJob(j, s) == dbStatus' = [dbStatus EXCEPT ![j] = s]

DeleteJob(j) == dbStatus' = [dbStatus EXCEPT ![j] = Unknown]

\* The jobs and their statuses, as the next process reads them.
LoadAllJobs == [j \in {i \in Jobs : dbStatus[i] # Unknown} |-> dbStatus[j]]

-----------------------------------------------------------------------------
(* The methods *)

Init ==
    /\ status = [j \in Jobs |-> Unknown]
    /\ queue = {}
    /\ dbStatus = [j \in Jobs |-> Unknown]

\* The statuses of the jobs that are handed over: new ones are PENDING, and those
\* that admit_job let through QUEUED.
NewStatuses == {"PENDING", "QUEUED"}

\* The status a job has in _queue: only PENDING is replaced.
EnqueuedAs(given) == IF given = "PENDING" THEN "QUEUED" ELSE given

\* Mutant: the job is not entered in _jobs.
EnqueueForgets(j, given) ==
    /\ status[j] = Unknown
    /\ Cardinality(queue) < MaxCapacity
    /\ queue' = queue \cup {j}
    /\ SaveJob(j, EnqueuedAs(given))
    /\ UNCHANGED status

\* _queue holds jobs of every status until they are removed: the capacity check
\* counts all of them.
Enqueue(j, given) ==
    /\ status[j] = Unknown
    /\ Cardinality(queue) < MaxCapacity
    /\ status' = [status EXCEPT ![j] = EnqueuedAs(given)]
    /\ queue' = queue \cup {j}
    /\ SaveJob(j, EnqueuedAs(given))

\* Mutant: the oldest job first, whatever its priority.
DequeueOldest ==
    /\ Pending # {}
    /\ queue' = queue \ {CHOOSE i \in Pending : \A j \in Pending : i <= j}
    /\ UNCHANGED <<status, dbStatus>>

\* The job leaves _queue and stays in _jobs, QUEUED.
Dequeue ==
    /\ PendingJobs # <<>>
    /\ queue' = queue \ {Head(PendingJobs)}
    /\ UNCHANGED <<status, dbStatus>>

\* Mutants: the job stays in _queue; the row stays.
RemoveKeepsQueued(j) ==
    /\ status[j] # Unknown
    /\ status' = [status EXCEPT ![j] = Unknown]
    /\ DeleteJob(j)
    /\ UNCHANGED queue

RemoveKeepsRow(j) ==
    /\ status[j] # Unknown
    /\ status' = [status EXCEPT ![j] = Unknown]
    /\ queue' = queue \ {j}
    /\ UNCHANGED dbStatus

RemoveJob(j) ==
    /\ status[j] # Unknown
    /\ status' = [status EXCEPT ![j] = Unknown]
    /\ queue' = queue \ {j}
    /\ DeleteJob(j)

\* Mutant: the row keeps the old status.
UpdateUnsaved(j, s) ==
    /\ MayBecome(j, s)
    /\ status' = [status EXCEPT ![j] = s]
    /\ UNCHANGED <<queue, dbStatus>>

\* _queue is left as it is: a job that becomes QUEUED again is not added to it.
UpdateStatus(j, s) ==
    /\ MayBecome(j, s)
    /\ status' = [status EXCEPT ![j] = s]
    /\ SaveJob(j, s)
    /\ UNCHANGED queue

\* A new process: __init__ and load_from_storage.
Restart ==
    /\ status' = [j \in Jobs |-> IF j \in DOMAIN LoadAllJobs THEN LoadAllJobs[j] ELSE Unknown]
    /\ queue' = {j \in DOMAIN LoadAllJobs : LoadAllJobs[j] = "QUEUED"}
    /\ UNCHANGED dbStatus

Next ==
    \/ \E j \in Jobs, given \in NewStatuses : Enqueue(j, given)
    \/ Dequeue
    \/ \E j \in Jobs : RemoveJob(j)
    \/ \E j \in Jobs, s \in Statuses : UpdateStatus(j, s)
    \/ Restart

Spec == Init /\ [][Next]_vars

-----------------------------------------------------------------------------
(* Properties *)

TypeOK ==
    /\ status \in [Jobs -> Statuses \cup {Unknown}]
    /\ queue \subseteq Known
    /\ dbStatus \in [Jobs -> Statuses \cup {Unknown}]

\* The rows are the job table: a process that dies at any point between two
\* methods comes back with the statuses it had.
RowsAgree == dbStatus = status

\* A job leaves _queue still QUEUED only by being handed out (dequeue), and is
\* then the first of the pending jobs by priority and age; no update, restart or
\* removal of another job drops a job that waits.
HandedOutInOrder ==
    [][\A j \in Pending \ queue' :
          status'[j] = "QUEUED" => \A i \in Pending \ {j} : Before(j, i)]_vars

\* The stage of life that a status stands for.
Stage(s) ==
    CASE s = Unknown                -> "absent"
      [] s = "QUEUED"               -> "waiting"
      [] s \in Terminal             -> s
      [] s \in Statuses \ (Terminal \cup {"QUEUED"}) -> "active"

StageOf == [j \in Jobs |-> Stage(status[j])]

Lifecycle == INSTANCE JobLifecycle WITH stage <- StageOf

\* The queue implements JobLifecycle: whatever updates are called in whatever
\* order, and wherever the process restarts, a job that ended stays as it ended,
\* nothing completes that was not started, and no restart moves a job.
LifecycleSpec == Lifecycle!Spec
=============================================================================
