# DRIGS in TLA+

TLA+ modules, TLC configurations and TLAPS proofs for DRIGS (`src/drigs`): the
control plane with its books of jobs and devices and the store they are written
to, the schedulers and the harness that benchmarks them, the execution backends,
the worker nodes, and the recovery subsystem.

## 1. The system

| Component | Source | State | Operations | Interacts with |
| --- | --- | --- | --- | --- |
| Control plane | `core/controller.py` | `_handles`, the loop | `step`, `submit_job`, `cancel_job`, `load_persisted_state`, `start`/`stop` | everything below |
| Job queue | `core/queue.py` | `_jobs`, `_queue` | `enqueue`, `dequeue`, `remove`, `update_job_status`, `load_from_storage` | store |
| Resource manager | `core/resource_manager.py` | `_workers`, device states and memory, allocations and their index | register/unregister, health reports, `allocate_resources`, `deallocate_resources`, `load_from_storage` | store |
| Store | `core/storage.py` | tables `jobs`, `workers`, `allocations` | save, load, delete | called under the callers' locks |
| Schedulers | `scheduler/*.py` | none | `schedule(pending, cluster)` | called by `step` |
| Execution backends | `execution/*.py` | process records | `launch`, `get_status`, `stop`, orphan sweep | operating system |
| Rescheduler | `recovery/rescheduler.py` | none | `reschedule_job` | queue, manager, checkpoints; called back by the detector |
| Failure detector | `recovery/detector.py` | tracked jobs, failed workers, failed jobs | `check_failures`, track, untrack | registry, backends |
| Worker registry | `workers/registry.py` | health and last heartbeat of the workers | register, heartbeat, deregister, `check_timeouts`, reads | store |
| Agents, dispatcher, bootstrap | `workers/*.py` | handles, last heartbeat | heartbeat loop, dispatch | registry, backends |
| Checkpoints | `recovery/checkpoint.py` | manifest files | save, list, latest, cleanup | rescheduler |
| API server | `api/server.py` | none | HTTP handlers | controller, manager, registry |
| GPU isolation | `execution/isolation.py` | reservations by job and by GPU | `reserve_gpus`, `release_gpus` | nobody calls it |
| Diagnostics | `diagnostics/analyzer.py` | none | `analyze_job` | queue, manager, registry |
| Experiments | `experiments/harness.py` | the books of a trial | traces, trials, comparisons | schedulers |
| CLI, specs, auth, hardware, metrics | | none or read-only | | |

### How they interact, and what is hard

The controller's `step` and `cancel_job` run under the controller's lock, and
the queue, the manager, the registry, the detector and the rescheduler each
have a lock of their own. So `step` is atomic against `cancel_job` only.
Between two of its calls an API thread may submit a job or unregister a
worker, a process may exit, and the rescheduler may take the resources of a
job away. Every change of a job, worker or allocation is written to SQLite
inside the method that makes it; the handles are not. A controller that dies
leaves its job processes running (`start_new_session=True`), and a new one
starts from the rows. The hard behaviours are therefore

* the interleavings of a pass with the other threads, call by call;
* the death of the controller between any two calls;
* the difference between what is stored (statuses, allocations, workers) and
  what is not (handles, OFFLINE marks, the detector's sets);
* errors raised in the middle of a pass;
* heartbeats that come late, and reads of the registry that change it;
* handlers of the API server that await a thread between two tables, and clients
  that give up on a request that is still handled;
* loops that are stopped by who holds the lock they need.

`PROJECT.json` lists each of these as a hazard at its line, with the properties
that would catch it, or a note why none does.

### What makes each component correct

* Resource manager: a device has one holder; it is offered only when it has
  none; rows and dictionaries agree, so that a restart changes no lease.
* Job queue: statuses follow the life of a job, restarts included; jobs are
  handed out by priority and age; nothing that waits is dropped.
* Control plane: processes that run own their devices; a job is launched once;
  its outcome is final; each queued job gets an outcome.
* Recovery: a job is not left half way; the rescheduler is called once.
* Registry and detector: OFFLINE means silent; silent workers are not offered;
  jobs on dead workers and dead processes are declared failed.
* Membership: manager and registry have the same workers; a worker that is heard
  comes back.
* Backends: what is said of a job is so; nothing of an ended job runs on.
* GPU isolation: no GPU is reserved, or visible, twice.
* Checkpoints: a job that is recovered never steps back.
* Schedulers: a plan gives nothing away twice, and nothing that fits is left.
* Harness: the memory account of a trial closes; jobs that fit complete.
* Loops: stopping them comes to an end, and so do they.

## 2. The modules

| Module | What it is |
| --- | --- |
| `DeviceLease` | abstract: jobs hold leases, taken and released as a whole, never overlapping |
| `ResourceManager` | `core/resource_manager.py` with its two tables; implements `DeviceLease` |
| `ResourceManagerProofs` | its inductive invariant, proved |
| `JobLifecycle` | abstract: a job waits, is worked on, may be put back, ends once |
| `JobQueue` | `core/queue.py` with its table; implements `JobLifecycle` |
| `JobQueueProofs` | its invariant, the refinement and the order in which jobs are handed out, proved |
| `Orders` | lists sorted by a key, as sets are read in an order |
| `Schedulers` | what all schedulers share, and the FIFO and the gang scheduler, as functions |
| `PlacementPolicies` | the priority, best-fit, bin-pack, memory-aware and topology-aware schedulers |
| `SchedulingPass` | calls of `schedule` by each of the eight schedulers and the random one of the experiments, one job at a time |
| `BenchmarkTrial` | `experiments/harness.py`: traces and trials over `SchedulingPass` |
| `Diagnostics` | `analyze_job` as a function, used by `BenchmarkTrial` |
| `ControlPlane` | `core/controller.py` and `recovery/rescheduler.py` over `JobQueue`, `ResourceManager`, `Schedulers` and the processes of the native backend |
| `ControlLoop` | the thread and the asyncio task that drive the controller, `start` and `stop` |
| `Execution` | `execution/native.py` with its orphan sweeper and `execution/distributed.py`, over the processes of one machine |
| `WorkerRegistry` | `workers/registry.py` |
| `FailureDetector` | `recovery/detector.py` over `WorkerRegistry` |
| `Membership` | `workers/agent.py`, the client in `workers/bootstrap.py` and the handlers of `/v1/workers`, over `WorkerRegistry` and the manager's table |
| `Dispatcher` | `workers/dispatcher.py` over `WorkerRegistry` |
| `DockerBackend` | `execution/docker.py` over a daemon, its containers and the clients |
| `GPUIsolation` | `execution/isolation.py`; implements `DeviceLease` |
| `CheckpointManager` | `recovery/checkpoint.py` over the files of a job |
| `NodeServices` | the last five and `ControlLoop`, of which a behaviour drives one |
| `ControlPlaneProofs` | for every scheduler, that the control plane implements `DeviceLease` and `JobLifecycle`, the finality of outcomes and the release of devices; with the FIFO scheduler, what it launches on which devices |
| `SchedulingProofs` | what each scheduler promises of a call, and the accounts of a trial |
| `ExecutionProofs` | what the backends say of their jobs, and what the sweeper spares |
| `NodeServicesProofs` | the invariants of the services in `NodeServices`, and the refinement of `GPUIsolation` |
| `FailureDetectorProofs` | that the rescheduler is called once |
| `SetLemmas` | facts about numbers and finite sets that several proofs rest on |
| `MCResourceManager`, `MCBenchmarkTrial`, `MCControlPlane`, `MCNodeServices` | values of the constants for TLC |
| `MCRecovery` | for TLC, `JobQueue` by itself, `ControlPlane` with a rescheduler, and `FailureDetector`, of which a behaviour drives one |

Definitions whose comment says *Mutant* are deliberately wrong variants of the
definition that follows them. Nothing uses them; they show that each property
can be broken by a plausible bug (`mutants` in `PROJECT.json`).

### ResourceManager

The five dictionaries are five functions; "key not in the dictionary" is a
value of its own (`Absent`, `NoAllocation`, `NoId`, `NoWorker`). The rows of
`workers` and `allocations` are two more, the second with key `job_id`, as in
the schema. A method is one action, because it holds the RLock from end to
end. A method that raises does nothing, since all checks of
`allocate_resources` come before its first assignment; `AllocationRefused` is
the disjunction of the checks. `deallocate_resources` takes a job id or an
allocation id, which have different effects on the index, hence
`DeallocateJob` and `DeallocateById`. `Restart` is `__init__` and
`load_from_storage`. Allocation ids are uuids in the code and a finite set
here; `FreshIds` is the set of those not referred to any more. What the methods
write goes through `SaveWorker`, `DeleteWorker`, `SaveAllocation` and
`DeleteAllocation`, the operations of the store on these two tables; `JobQueue`
and `WorkerRegistry` have those of theirs.

CPU cores and RAM do not appear: `allocate_resources` checks and books neither.

Two plausible properties are not true of the code and are not stated: the index
`_job_allocations` need not name a live allocation (deallocation by allocation
id leaves the entry, line 170), and a device of an unregistered worker need not
stay UNAVAILABLE (deallocation makes it AVAILABLE, line 178).

### JobQueue

Jobs are numbered by `submitted_at`, so `Before` is the sort key
`(-priority, submitted_at)` as an order. `_queue` is kept sorted by every
method that adds to it, so it is a set read in that order. It keeps jobs of
every status: `update_job_status` never touches it, and the capacity test counts
all of them. A job that a restart did not put into `_queue` because it was not
QUEUED is not added later when the rescheduler makes it QUEUED. `enqueue` makes a
PENDING job QUEUED and leaves any other status alone (line 137): `Enqueue(j, given)`
takes the status the caller's job has, PENDING or, from the admission, QUEUED.

### Schedulers, PlacementPolicies, SchedulingPass

A scheduler is an order of the pending jobs and a placement of the next one,
given what the call has taken so far: the plan, the busy devices, and CPUs and
RAM per worker (`taken`). `ControlPlane` folds the FIFO or the gang scheduler
over the pending jobs; `SchedulingPass` makes one step per job, so that each
intermediate state of the loop is a state. A worker of the snapshot is a record
of its health, CPU and RAM totals, devices, the free memory per device and the
weight of each link; floating point scores are scaled to integers, which keeps
their order. Where the code takes the first of equals in the order of a
dictionary, `MemoryAwareNext` takes any of them; the others sort by worker id
or by the order of the list, which the sets keep.

`WithinCapacity` leaves the CPU and RAM of the GangScheduler out: for a gang on
several workers it tests only that a worker has one CPU and a MiB left, and then
books `max(1, req_cpus // workers)` there, which may be more than is left, and in
sum less than the job asks for. The `inner_scheduler` of the GangScheduler is
stored and never called; nothing of it is modelled.

`NothingFittingLeft` is what the code does under every policy, and not what the
paper says of two of them. A FIFO pass that meets a job for which there is no room
goes on to the next, where the paper has arrival order with head-of-line blocking;
the memory-aware scheduler looks at the free memory of each device and at no
utilisation, where the paper has it throttle above 90 %. Both sentences are stated
as properties, `ArrivalFairness` and `ThrottledWhenFull`, and both are violated.

### BenchmarkTrial and Diagnostics

A behaviour of `BenchmarkTrial` is either a sequence of calls of a scheduler on
arbitrary jobs and clusters, or a sequence of trials. A trial goes through the
phases of a step of `run_single_trial`: `Arrive`, `Release`, `Call`, `PlaceNext`
(the pass of `SchedulingPass`), `Book`, `Advance`. `GenerateTrace` is the set of
the traces that the four arrival patterns can draw; time is counted in steps.
The harness shows the scheduler the free memory it keeps in `worker_gpu_vram`
and whole CPUs and RAM (line 347), which is what `ClusterView` does; the account
of CPUs in use is written and never read, and left out. `Diagnostics` gives the
findings of `analyze_job` and their score; `DiagnosisIsRight` compares what it
says of a job with what the schedulers then do.

### ControlPlane

One program counter `pc` follows the thread that holds the controller's lock,
in `step` or in `cancel_job`; `recoveryPc` follows the one in
`reschedule_job`. There is one action per call that those methods make:

| Action | Code |
| --- | --- |
| `StepBegin` | snapshot, pending jobs, `schedule` (134-139) |
| `MarkScheduled`, `Reserve`/`ReserveRefused`, `Launch`/`LaunchFails`, `MarkRunning` | the `try` block (148-167) |
| `MarkFailed`, `ReleaseFailed` | the `except` clause (169-172) |
| `MonitorBegin`, `PollRunning`, `PollEnded`, `Finish`, `StepEnd` | monitoring (175-189) |
| `CancelStop`, `CancelRelease`, `CancelNoHandle`, `CancelCheck`, `CancelMark` | `cancel_job` (259-272) |
| `RescheduleBegin`, `RescheduleRelease`, `RescheduleMark`, `RescheduleRequeue` | `reschedule_job` (33-57) |
| `CrashAndRestart` | death of the process; `__init__`, `load_persisted_state` |

`UpdateOr` is a call of `update_job_status` that raises `StateTransitionError`
when the transition is not in `VALID_TRANSITIONS`; where the error goes depends
on the caller: from the `try` block to the `except` clause, from the `except`
clause out of `step` (the rest of the pass is skipped), from the poll to the log.
`StepBegin` joins three reads: a submission that falls between them commutes
with the read of the workers. The processes survive a crash, the handles do not.

`reschedule_job` takes any job the queue knows, whatever its status: it releases
the resources first, and its two updates then raise or not. So does
`RescheduleBegin`.

`Submit` is guarded by `ValidateJob`, the admission controller; a job it rejects
raises `AdmissionError` and changes nothing.

### ControlLoop

`step`, `start`, `stop` and `start_async` take the controller's lock, whose
holder is `holder`. `stop` clears the event and joins the thread for two seconds
while it holds the lock that the thread may be waiting for: `StopEnds` may
happen at any time after `StopBegins`. `stop_async` takes no lock; it cancels
the task, awaits it, and then forgets whichever task is there
(`StopAsyncBegins`, `TaskCancelled`, `StopAsyncEnds`), while the pass that the
cancelled task began goes on in its pool thread (`pass`). One caller of
`stop_async` at a time is modelled. The loop's `_running_event.wait` returns at
once while the event is set, so that the loop does not pause between passes;
since time is not modelled this is only visible as `LoopWaits` being enabled.

### Execution

`ControlPlane` abstracts a backend to processes that start, run and end;
`Execution` is what happens inside. `procs` is the process table: a process has
a parent, which becomes pid 1 when the parent ends, and a session leader, which
it keeps (`start_new_session=True`; workloads are assumed not to start sessions
themselves). Workloads fork and end as they like, and inherit the environment
variables by which the sweeper knows them. `handles` holds the records of both
backends; a native job has one root process, a distributed one a root per rank.
The backends use different means, which is where they differ in what they miss:
`terminate_process_tree` lists the descendants of a process and then kills the
listed (`StopBegin`, `StopKill`), so that what is forked in between, or has lost
its parent before, gets away; the DistributedBackend signals sessions, but only of
the ranks that still run, first with SIGTERM and then, if the rank itself has not
ended in two seconds, with SIGKILL: a child that ignores SIGTERM outlives a rank
that does not (`spared` in `StopRanks`). The sweeper reads the active pids under the lock
(`SweepBegin`, of the descendants of each root), scans the processes and the GPUs (`SweepScan`) and kills one tree
after the other (`SweepKill`, in which listing and killing are one step).
`Restart` is the death of the server: its processes are left to pid 1.

Two sentences one might expect are not true. A distributed job is FAILED with its
first failed rank while the other ranks run (the exception in `EndedIsDead`, and no
strays in the sense of `StraysAreSwept`); and
the sweeper kills some processes of jobs that run: a job launched between
snapshot and scan, a process whose parent within the job has ended, and every
rank of a distributed job, which its native snapshot does not know.
`SweepSparesJobs` states what is left: the processes of native jobs that are
still connected to their root and were there when the sweep began.

### WorkerRegistry and FailureDetector

Time is abstracted to `recent[w]`: whether `last_heartbeat` is younger than
`timeout_seconds`. `Expire` is the passing of that time without word from the
worker, for whatever reason. A registration may carry an old
`last_heartbeat` (registry.py:49 takes it over). The heartbeat of the API would
hand on OFFLINE (server.py:166), but agents send their own state, which never is
(agent.py:71), so `Reported` leaves it out. `check_failures` is one action: it holds the
detector's lock and reads the registry once, at its start. A job may be tracked on
any worker, known to the registry or not. Nothing is ever taken out of `_failed_jobs`
and `_failed_workers`: a job that was declared failed, was rescheduled and is
tracked again is not declared a second time, and in `RecoveredOnce`,
`SilentIsDeclared` and `CrashIsDeclared` it counts as declared.

### Membership

A request is a record that goes through the awaits of its handler: `sent`, then
the table it changes next. `RegisterInManager`, `RegisterInRegistry`,
`BeatInRegistry`, `BeatReadsManager`, `BeatInManager`, `DeregisterInManager` and
`DeregisterInRegistry` are the pieces between awaits; any number of handlers are
under way together. The client blocks the agent's event loop until it has an
answer or gives up (`GivesUp`), and the handler it gave up on goes on; the agent
looks at no result. The server may be built with a registry or without one, as
`drigs serve` does (`hasRegistry`). `ServerRestart` leaves an
empty registry, to which nothing gives a store, and a manager that has its workers
back only if its controller has one.

What is not true, and not stated: that both tables agree after a deregistration
met another request of the worker (a heartbeat that read the worker before it was
removed registers it again, in the manager alone), or after a restart
(heartbeats of unknown workers are ignored, and agents register once).
`TablesAgreeAtRest` names both exceptions.

### Dispatcher, DockerBackend, GPUIsolation, CheckpointManager

The dispatcher holds its lock in every method. `Answer` is what the agent says;
before it is asked, the state of the worker decides. In `DockerBackend` a job is
a container and the client attached to it, which fail apart: the daemon may
hang or die, `docker stop` may come before the container exists or not come
through, and the client is terminated all the same. `trouble` remembers the
containers this happened to. Its launch raises when there is no docker and no
native backend to fall back to (`FallbackToNative`), and names GPUs by PCIe bus id or,
where a device has none, by id (`GpuName`). `GPUIsolation` names GPUs as the code does, by
cleaned id or by PCIe bus id. A checkpoint is a manifest, rewritten in place
(`SaveBegins` truncates, `SaveEnds` writes, `Crash` between them leaves it
unreadable), that names a file: itself or one of the workload's, which several
manifests may name. `ResumePointKept` says that a torn save costs no other manifest
than its own, and a cleanup nothing of the latest checkpoint. It promises less than
one would like, because the code does: a step that is saved again may be lost with
the crash, the job then resumes from the manifest before it, whose file may be gone, and a
file that an old manifest shares with the latest is deleted with the old one.

## 3. The runs

| Run | Module, configuration | States | Result |
| --- | --- | --- | --- |
| `resource_manager` | `MCResourceManager` | 41,744 | passes |
| `control_plane` | `MCControlPlane` | 651,882 | passes |
| `recovery` | `MCRecovery` | 55,728 | passes, with liveness |
| `scheduling_pass` | `MCBenchmarkTrial` | 346,121 | passes |
| `execution` | `Execution`, `MCExecution.cfg` | 622,826 | passes, with liveness |
| `node_services` | `MCNodeServices` | 99,285 | passes, with liveness |
| `restart_drops_running_jobs` | `MCControlPlane`, `RestartResumes.cfg` | | `RestartResumes` violated |
| `busy_gpu_is_not_deferred` | `MCControlPlane`, `BusyStaysQueued.cfg` | | `BusyStaysQueued` violated |
| `gang_launches_part_of_a_gang` | `MCControlPlane`, `GangAllOrNothing.cfg` | | `GangAllOrNothing` violated |
| `offline_seen_by_a_reader` | `FailureDetector`, `OfflineReschedules.cfg` | | `OfflineReschedules` violated |
| `fifo_passes_over` | `MCBenchmarkTrial`, `ArrivalFairness.cfg` | | `ArrivalFairness` violated |
| `memory_aware_never_throttles` | `MCBenchmarkTrial`, `ThrottledWhenFull.cfg` | | `ThrottledWhenFull` violated |

What the passing runs show:

* `resource_manager`: 2 jobs, 2 workers with 2 devices each, allocations of any
  subset of a worker's devices, every call in any order and restarts at any
  time. Two jobs are enough for a conflict, two workers for device ids that
  repeat, two devices for a partly overlapping allocation. `TotalMemory` is 2
  and a request 1, so that the memory test alone would let two jobs on a
  device. `AvailableIsUnheld`, `StoreMirrors`, and the refinement `LeaseSpec`.
  Jobs, workers, devices and ids are interchangeable, hence the symmetry; no
  liveness is checked under it.
* `scheduling_pass`: all sets of 4 jobs, all pairs of five kinds of workers (small
  and large memory, few CPUs, linked devices, unhealthy), two times of the call
  between which aging changes the order: `WithinCapacity`, `WholeOrNothing`,
  `NothingFittingLeft`, `BestOfAll`. Two workers are enough for a choice between
  workers and for a gang, three devices for a choice between sets of two. And
  trials of those 4 jobs on two fleets, with every trace of gaps up to 2 and
  durations 1 and 3, so that jobs overlap, wait and come together:
  `VramConserved`, `FeasibleJobsComplete`, `DiagnosisIsRight`. 16 steps are more
  than the jobs need one after the other. Of the 4 jobs one fits nowhere on one
  of the fleets.
* `control_plane`: 2 jobs, 2 workers with one GPU, workers that come and go, and either
  1 death of the controller at any point or 1 call of `reschedule_job` racing both
  methods (`CrashOrRecovery`). `NoSharedDevice` and `RunsOnItsLease`, until a reschedule;
  `LaunchedOnce`, `OutcomeIsFinal`, `NoLaunchAfterEnd`, always; `FinishedHoldsNothing`,
  until a crash. Two jobs compete for a device, a second worker lets one that was
  unregistered matter, and one crash or recovery covers each point of a pass.
* `recovery`: three questions about what brings jobs back, of which a behaviour
  takes one (`driven`). The queue, with any of its methods in any order and restarts,
  over 3 jobs, the last one urgent, and a capacity of 2: `RowsAgree`,
  `HandedOutInOrder`, the refinement `LifecycleSpec`. The control plane over that
  queue with one GPU and one call of `reschedule_job` racing both methods:
  `EveryJobEnds`. There the third job asks for more than the
  admission allows and is turned away, so that two compete. Registry and detector with 2 workers,
  one job and a restart: `RecoveredOnce`, `SilentIsDeclared`, `CrashIsDeclared`. Jobs do
  not influence each other there; two workers let a job be tracked on one after the
  other failed.
* `execution`: 3 processes ever, ranks in pairs, a restart: a job with a child and
  a grandchild, two ranks of which one has a child, or jobs one after the other.
  `EndedIsDead`, `OutcomeIsTrue`, `SweepSparesJobs`, `StraysAreSwept`. Chains of three
  processes are the shortest in which a process in the middle can end. A stray never
  belongs to a job again, so that not to be one for ever is to be terminated.
* `node_services`: one worker, as the tables of workers are read and written by
  key, with one lost or late answer, any number of operators and one restart of
  the server: `TablesAgreeAtRest`, `OfflineComesBack`; one worker and two jobs at the
  dispatcher: `ToldIsTrue`; two launches of the docker backend: `ContainerEndIsTrue`;
  three jobs and three GPUs, one without a bus id: `IsolationLease`; three steps,
  two files of the workload and `keep_last_n` from 0 to 2: `ResumePointKept`; two
  threads and two tasks, so that an old loop meets a new one: `StoppedLoopsEnd`.

What the violated ones show, each a sentence of the documentation that the code
does not keep:

* `RestartResumes`: after a restart nobody polls a job that was RUNNING. It keeps
  its status and its devices for ever (architecture.tex:45).
* `BusyStaysQueued`: the gang scheduler sees the devices of the workers, not
  their states. With the GPU taken, the next job leaves QUEUED, and the
  allocation is refused, which makes it FAILED (scheduling.tex:47).
* `GangAllOrNothing`: a gang on two workers is two entries of one job. After the
  first has been launched the job is RUNNING, and for the second the update to
  SCHEDULED raises (controller.py:148, queue.py:30) before anything is reserved: the job
  runs on a part of its GPUs and is then marked FAILED (README.md:156).
* `OfflineReschedules`: any reader of the registry that comes first takes the
  OFFLINE transition away from the detector (architecture.tex:48).
* `ArrivalFairness`: the FIFO scheduler passes over a job that needs two GPUs of which
  one is free, and places the one submitted after it (scheduling.tex:11).
* `ThrottledWhenFull`: 19 of 20 MiB are in use, and the memory-aware scheduler places
  a job on the GPU that has the last one (scheduling.tex:35).

More that was met on the way, listed as hazards without a run:
`reschedule_job` releases the devices of a job whose process still runs, so
`NoSharedDevice` and `RunsOnItsLease` are about the time before it is called; a crash
between the storing of FAILED or COMPLETED and the deallocation leaves the
allocation for ever, so `FinishedHoldsNothing` is about the time before one; a job rescheduled after a restart is QUEUED and in no
queue; a job that fails, is rescheduled and fails again is not declared failed a
second time; a deregistration that overlaps a heartbeat leaves the worker in one of
the two tables; a container that `docker stop` did not reach runs on; a process killed
by SIGTERM or SIGKILL counts as CANCELLED, so that the detector does not see a job the
kernel killed.

### Bounds

`MaxPid` bounds the processes of `Execution`, `MaxLosses` the requests that fail
or are answered late (one after which the agent goes on to the next), `MaxLaunches` the
containers, `MaxStep` the checkpoints, `Threads` and `Tasks` the loops that are
started, `MaxSteps` the steps of a trial (`max_simulation_steps`), `LongestGap`
the gaps of the Poisson pattern. The admission limits `MaxGpuLimit` and
`MaxCpuLimit` are parameters of the code, set to 2, so that of all jobs they reject
only the third one of `recovery`.
`CrashOrRecovery` keeps `control_plane` to a crash or a recovery, the latter with no
worker away. `MaxCrashes`, `MaxReschedules`, `MaxRestarts` bound the counters `crashes`,
`reschedules`, `restarts` in the guards; `NobodyAiling` lets the agents of `recovery`
report HEALTHY only, since the detector asks for nothing but OFFLINE; `MaxCalls` stops
the counter `calls`.
The sets of ids are the other bounds. `processes` grows with each launch, which
the jobs and `MaxReschedules` limit.

### Fairness

`ControlPlane!Fairness`: the loop thread takes its next step whenever it can
(`_loop` runs until it is stopped, and catches what `step` raises); a call of
`cancel_job` or `reschedule_job` that has begun goes on; workloads terminate.
Nothing is assumed about submissions, cancellations, workers or crashes. Without
the last of the assumptions a job could run for ever, which is its right.
`Execution!FairSpec`: the sweeper's loop goes on, and a `stop` that holds the lock
ends; nothing is assumed about workloads, which may run for ever.
`FailureDetector!FairSpec`: the loop calls `check_failures` again and again; the
assumption is on the call in which no backend raises, so that an error of a
backend is never what makes a property hold. `MCRecovery!MCFairness` states these two
again, each for the behaviours that drive its part.

`NodeSpec`: an agent's loop goes on and a request that is awaited is handled (or
given up); requests nobody awaits may stay where they are. A `stop` ends, as its
join has a timeout, the loops run, and who waits for the controller's lock gets
it some time (strong fairness of the steps of each thread and task): Python's locks
promise no order, but a thread that never gets a lock others keep releasing is
not what any of this code could do something about. `FeasibleJobsComplete` needs
no fairness, since a trial is bounded by its steps.

## 4. The proofs

`ResourceManagerProofs` proves, for all values of the constants that satisfy the
assumptions in `ResourceManager`, `Spec => []Inv`, where

    Inv == TypeOK /\ DeviceExclusive /\ AvailableIsUnheld /\ AvailableIsClean
           /\ StoreMirrors /\ RegisteredIsKnown

None of the parts is inductive without others: that `Allocate` keeps
`DeviceExclusive` needs `AvailableIsUnheld` (a device that reads AVAILABLE has no
holder) and `RegisteredIsKnown`; that `Restart` keeps both needs `StoreMirrors`
(the rows are the leases that were exclusive before) ; that `Free` keeps
`AvailableIsUnheld` needs `DeviceExclusive` (the freed devices had no second
holder). There is one lemma per action. The theorems `TypeCorrect`, `Exclusive`,
`OfferedIsUnheld` and `RowsMirrorAllocations` follow from it, and so does
`ImplementsLease`: `Spec => LeaseSpec`. There `Allocate` is `Acquire`, for which
`AvailableIsUnheld` supplies that the devices are in no other lease;
`DeallocateJob` and `DeallocateById` are `Release` or a stutter, and `Restart`
is a stutter because of `StoreMirrors`.

`JobQueueProofs` proves `TypeOK` (`TypeCorrect`) and `RowsAgree`, and `Spec => LifecycleSpec`:
each method is a step of `JobLifecycle` or a stutter. `RowsAgree` is what makes
`Restart` a stutter. `UpdateRefines` goes through `VALID_TRANSITIONS`.
`InOrderHanded` (`HandedOutInOrder`) needs that the jobs known are finitely many
at any time (`FewKnown`, which is inductive: `Enqueue` adds one, `Restart` none), so
that of the pending ones `Before` has a first, and that the element of `InOrder`
with none before it is that one (`HeadIsFirst`).

`ControlPlaneProofs` is about `ControlPlane` with any scheduler. Its

    Inv == RM!Inv /\ QueueInv /\ Handles /\ Control /\ AtEntry /\ AtTarget

takes the invariants of the manager and of the queue from their own modules:
`ManagerSteps` and `QueueSteps` show that each step of the control plane is one of
theirs or leaves them alone, so that `ManagerKept` and `QueueKept` are
`NextInv` and `NextKeeps` of the instances. `Handles` says that a handle is of a
process of its job; `AtEntry` and `AtTarget` say what a method knows between two
of its calls: the job it is about exists, is SCHEDULED until it is marked RUNNING,
and its devices are keys of the manager. From it follow `TypeCorrect`;
`ImplementsLease` and `ImplementsLifecycle`, the two abstract specifications for the
whole control plane, crashes and recoveries included, by `StepImplementsLease` and
`StepRefines` of the parts;
`OutcomesAreFinal`, which also needs that a terminal status has no transition and
that a restart loads the rows it wrote (`RowsAgree`); and `NoLateLaunch`.
`NothingLeftBehind` (`FinishedHoldsNothing`) has an invariant of its own, `Tidy`:
what a job holds is held by its handle or is about to be dealt with
(`HeldByHandle`), and that of a job that is over is about to be released
(`OverReleases`). Both hold until the controller dies: after a
death between the outcome and the deallocation (controller.py:182) the row stays.

The rest of the module is about the scheduler of the default configuration, which
names a job once: `~GangScheduling` is the hypothesis, as a gang on two workers is two
entries of one job (`GangAllOrNothing` is violated). That `FIFOSchedule` is such a plan
is proved through the recursive function it is defined by (`AfterExists`,
`AfterIsPlan`): the largest number up to which the statement holds is the last,
which takes the place of induction. `NoSecondLaunch`
(`LaunchedOnce`) then rests on `PlanIsFresh` (every entry still to come is of a job
that waits), and on a count, for any number of crashes: the launches of a job, one
more if it may still be launched (`MayLaunch`), and one more if a call of
`reschedule_job` that has begun may still put it back (`MayReturn`), are at most one
plus the calls of `reschedule_job` (`WithinBudget`). `DevicesStayLeased` (`RunsOnItsLease`)
and `DevicesAreNotShared` (`NoSharedDevice`) are about the time before the first call
of `reschedule_job`, which gives back the devices of a process it does
not stop (rescheduler.py:39), so that both may fail from then on. Crashes, cancellations,
failed launches and workers that leave are not restricted.

`ExecutionProofs` follows the root processes. `Rooted`: while one runs it is a
child of the server and leads its own session, so that its end has a code and a
stop reaches it. `EndedIsDead` and `OutcomeIsTrue` are not inductive without it:
what is killed elsewhere (`SweepKill`, `StopKill` of another tree) must change the end of a root
only as its parent sees it. `TypeCorrect`, `EndedJobsAreDead` and
`OutcomesAreTrue` follow. `SweepSpares` (`SweepSparesJobs`) needs the families. `Ordered`
(a parent that is one of our processes lives and is older) makes the recursive
function `Ancestors` well defined (`AncestorsAre`), and gives that ancestors are older
(`AncestorsAreOlder`), that a process gets no new ones (`AncestorsShrink`), and that of two
ancestors the one without any is an ancestor of the other (`Topmost`). `SparesInv` says
that between scan and kill no orphan that was there when the sweep began descends
from a native root. An orphan may well have been forked in such a tree since; but then
what it takes with it is younger still, which is why the property
is about processes that were there when the sweep began.

`NodeServicesProofs` has one invariant per service and one lemma per action, and
`NodeStep` puts them together: a step of one service leaves the variables of the
others alone. `RequestsInv` and `MemberInv` say where a request can be while the two tables
differ, from which `TablesAgree` follows for the state without requests. For `DockerBackend` the
client of a container that has ended has ended as well, or the container is one of `trouble`
(`ContainersAreTold`). `AnswersAreTrue` needs that a worker is OFFLINE only while it
is silent (`RegistryInv`); `ResumePointIsKept` that `Cleanup` leaves the greatest
number of a finite set, and that only the manifest being written is torn
(`NoneFallsBelow`); it has the exceptions of `ResumePointKept`. `IsolationInv`: the two tables of reservations
tell the same and a job sees what it reserved; from it `NoSharedGpu`, which
also needs that no two names of two GPUs are the same (`NamesAreUnique`, from the assumption
`GpuIdsAssumption`), and `IsolationImplementsLease`: a reservation is an
`Acquire`, since the owners it checks are all there are, and a release is a `Release`.

`FailureDetectorProofs` proves `CalledOnce` (`RecoveredOnce`): at most one call is
not inductive; that the job of a call stays in `_failed_jobs` is.

`SchedulingProofs` is about calls of any of the schedulers on any jobs and any
cluster, and about trials of any length. Its invariant of a call is

    CallInv == /\ Setting /\ InLine /\ Planned
               /\ policy # "GANG" => Counted(taken, cluster)
               /\ PlacedWhole /\ RestLeftOut

`WithinCapacity` counts the CPUs of a worker from the plan, and the schedulers
from an account of theirs. That the two agree is `Counted`, which holds as each job
has one entry and is false of the GangScheduler. `Planned` says that what is in the plan is busy,
fits its GPU, and is of no job that still waits; without the last a job could be
placed twice. `RestLeftOut` says that a job that had its turn in vain has no
place *now*: it had none with less taken, and a call only takes (`TakeGrows`, `GrownFits`).
There is one lemma per kind of placement, each of which shows what the turn of a
job may be (`Turned`): it is left out, or it is placed whole. For the gang on several workers
`GangShares` is shown to give what is needed by an argument over the greatest
number up to which the account is right, as for `FIFOSchedule`. From `CallInv` follow
`CapacityKept` (`WithinCapacity`), `PlannedWhole` (`WholeOrNothing`),
`NoPlaceLeft` (`NothingFittingLeft`) and `BestFound` (`BestOfAll`).

A trial adds

    TrialInv == /\ CallInv /\ Timed /\ Accounted
                /\ FreeTyped /\ VramConserved
                /\ Hosted /\ Shown

`VramAccount` (`VramConserved`) rests on `Accounted` (a running job runs once,
so that what it gives back is what it took) and on `Shown` (what was free when the
scheduler was called is free when its plan is booked), by which the subtraction in
`Book`, cut off at 0, is never cut. `BenchTypeCorrect` says that an arrived job is in one of three places.
`DiagnosisAgrees` (`DiagnosisIsRight`) needs `Hosted`, that a worker could host
each job that ran, for the GPUs were free then; it assumes that
a job without GPUs asks for no GPU memory. The jobs of the harness have GPUs unless its
caller lists other counts (harness.py:84); the data model does not demand it
(models.py:113-114), and `analyze_job` may call such a job too large while every
scheduler, which looks at GPUs only for jobs that have some, places it.

The assumptions say that the values standing for "absent" are not among the
values they are absent from, that requests and bounds are numbers, and that registrations
are worker records; for the schedulers that a cluster is finite and has
a record for each worker, with a natural number of MiB per device (`SnapshotsAssumption`,
`FleetsAssumption`), that requests are naturals (the fields are declared with `ge=0` or `ge=1`), and
for the harness that traces have jobs to draw from and at least one step
(`TraceAssumption`). TLC evaluates them in the runs.

Some definitions have the form they have because of the proofs: recursion is by
recursive functions (`FIFOSchedule`, `GangShares`, `Ancestors`), whose existence the
proofs establish, an element of `InOrder` is found by the number of those before it,
sums are those of `SumFunction`, `Candidates` is a set of which `Lowest` takes the
first, and `Cleanup` deletes any subset of what is beyond `keep_last_n`, which is what a crash or an error of `unlink` may leave.

Only model-checked:

* all liveness (`EveryJobEnds`, `SilentIsDeclared`, `CrashIsDeclared`, `OfflineComesBack`,
  `StoppedLoopsEnd`, `StraysAreSwept`): it depends on fairness and ENABLED, which
  the prover does not know;
* `FeasibleJobsComplete`: that a trial ends with the jobs done and not at `MaxSteps`
  depends on `MaxSteps`, the trace and the cluster together, and is false for some of their values;
* what a definition by recursion computes in general (`FIFOSchedule`, `GangSchedule`, the
  aging and the cliques of the topology-aware scheduler) beyond what the theorems say
  of it: that needs induction over data.

## 5. Not modelled

Authentication, CLI, parsing of workload specifications, hardware discovery,
metrics and log streaming are stateless or read-only. Wording of errors,
timestamps other than the order of submission and the age of a heartbeat, CPU core
numbers and environment variables are data nothing here depends on. Writes to
SQLite are atomic with their method and do not fail. The statistics and reports
of the harness, and the scripts that host a notebook or draw the paper's figures,
compute from what the trials give and keep no state. The seeds of the workload
generator are not modelled: `compare_schedulers` says that it runs all schedulers
on identical traces (harness.py:517) while each multi-trial leaves the generator with
another seed for the next (475-478), which a model of arbitrary traces cannot show.
Start and stop of the loops of the sweeper and the detector are those of
`ControlLoop` without a lock held during the join.

## 6. Plan

Done: `ResourceManager` and `JobQueue` with their abstract specifications and
proofs; `ControlPlane` with crashes, cancellation, recovery and admission, and its
safety properties proved; its loops; `WorkerRegistry` and `FailureDetector`; all
schedulers and the harness; the native, distributed and docker backends with the proofs
of what they say and of what the sweeper spares; membership, dispatcher, GPU
isolation, checkpoints, with proofs; diagnostics; the promises of the
schedulers and the accounts of the harness proved; the control plane proved to implement the
abstract specifications of its parts.

Left:

1. Writes to the store that fail.
2. `ControlPlane` over the dispatcher, with more than one node.
