---------------------------- MODULE DockerBackend ----------------------------
(***************************************************************************)
(* drigs/execution/docker.py.  A job is a container, which the daemon      *)
(* runs, and the docker client attached to it, which is the process the    *)
(* backend watches: what get_status says of the job is how the client      *)
(* ended.  Without a daemon the job is launched by the                     *)
(* NativeProcessBackend, which Execution models; here such a job is its    *)
(* process alone.                                                          *)
(***************************************************************************)
EXTENDS Naturals, Sequences, FiniteSets

CONSTANTS
    MaxLaunches,        \* bound on the launches
    ContainerJobs,      \* [devices, cpus, memory] of the jobs launched
    NoPcieBusId,        \* pcie_bus_id of a device without one
    FallbackToNative    \* fallback_to_native

VARIABLES
    daemon,         \* "up", "hung" (answers nobody), "down"
    launched,       \* the jobs: backend, cmd, client, container, outcome
    stopped,        \* the jobs in stop, which holds the lock: docker stop is over
    trouble         \* (history) jobs whose container the daemon may have lost sight of

dockerVars == <<daemon, launched, stopped, trouble>>

Over == {"ok", "error", "killed"}   \* exit code 0, another one, a signal

Live == {"starting", "running"}

IsDockerAvailable == daemon = "up"

\* A GPU goes by its bus id, or without one by its device id.  The allocations of
\* the ResourceManager list ids alone, so that none of their GPUs has a bus id here.
GpuName(d) == IF d.bus # NoPcieBusId THEN d.bus ELSE d.id

\* build_docker_cmd: the GPUs of the allocation; a limit of 0 is no limit.
\* Environment, volumes, image and arguments are handed on.
BuildDockerCmd(job) ==
    [gpus   |-> {GpuName(d) : d \in {e \in job.devices : e.type = "gpu"}},
     cpus   |-> job.cpus,
     memory |-> job.memory]

Launched(backend, job) ==
    [backend |-> backend, cmd |-> BuildDockerCmd(job), client |-> "running",
     container |-> IF backend = "docker" THEN "starting" ELSE "none", outcome |-> "RUNNING"]

DockerInit == daemon = "up" /\ launched = <<>> /\ stopped = {} /\ trouble = {}

-----------------------------------------------------------------------------
(* docker *)

SetJob(h, field, value) == launched' = [launched EXCEPT ![h][field] = value]

\* The daemon has the container run; it does not matter any more if the client
\* that asked for it was terminated meanwhile.
ContainerStarts(h) ==
    /\ daemon = "up" /\ launched[h].container = "starting"
    /\ SetJob(h, "container", "running")
    /\ UNCHANGED <<daemon, stopped, trouble>>

\* No image, no such GPU, no daemon.
ContainerNeverStarts(h) ==
    /\ launched[h].container = "starting"
    /\ launched' = [launched EXCEPT ![h].container = "none",
                                    ![h].client = IF @ = "running" THEN "error" ELSE @]
    /\ UNCHANGED <<daemon, stopped, trouble>>

ContainerEnds(h) ==
    /\ launched[h].container = "running"
    /\ \E how \in Over : SetJob(h, "container", how)
    /\ UNCHANGED <<daemon, stopped, trouble>>

\* The client ends with the exit code of its container.
ClientEnds(h) ==
    /\ daemon = "up"
    /\ launched[h].client = "running" /\ launched[h].container \in Over
    /\ SetJob(h, "client", IF launched[h].container = "ok" THEN "ok" ELSE "error")
    /\ UNCHANGED <<daemon, stopped, trouble>>

NativeProcessEnds(h) ==
    /\ launched[h].backend = "native" /\ launched[h].client = "running"
    /\ \E how \in Over : SetJob(h, "client", how)
    /\ UNCHANGED <<daemon, stopped, trouble>>

WithContainer == {h \in DOMAIN launched : launched[h].container \in Live}

\* The jobs whose container, or the end of it, is not known to their client yet.
Attached == {h \in DOMAIN launched : launched[h].backend = "docker" /\ launched[h].client = "running"}

DaemonHangs ==
    /\ daemon = "up"
    /\ daemon' = "hung"
    /\ trouble' = trouble \cup WithContainer \cup Attached
    /\ UNCHANGED <<launched, stopped>>

\* The clients lose their connection; the containers may outlive the daemon.
DaemonDies ==
    /\ daemon # "down"
    /\ daemon' = "down"
    /\ trouble' = trouble \cup WithContainer \cup Attached
    /\ \E survive \in SUBSET WithContainer :
          launched' = [h \in DOMAIN launched |->
              IF launched[h].backend = "native" THEN launched[h]
              ELSE [launched[h] EXCEPT
                       !.client = IF @ = "running" THEN "error" ELSE @,
                       !.container = IF @ \in Live /\ h \notin survive THEN "killed" ELSE @]]
    /\ UNCHANGED stopped

DaemonReturns ==
    /\ daemon # "up"
    /\ daemon' = "up"
    /\ UNCHANGED <<launched, stopped, trouble>>

-----------------------------------------------------------------------------
(* DockerBackend *)

LockFree == stopped = {}

\* The daemon is asked before the lock is taken; it may be gone when the client
\* gets to it.  A launch that raises, as there is no daemon and no fallback or as
\* the client cannot be started, changes nothing.
Launch ==
    /\ Len(launched) < MaxLaunches
    /\ IsDockerAvailable \/ FallbackToNative
    /\ IsDockerAvailable => LockFree
    /\ \E job \in ContainerJobs :
          launched' = Append(launched, Launched(IF IsDockerAvailable THEN "docker" ELSE "native", job))
    /\ UNCHANGED <<daemon, stopped, trouble>>

StatusOf(j) ==
    CASE j.client = "running" -> "RUNNING"
      [] j.client = "ok"      -> "COMPLETED"
      [] j.client = "killed"  -> IF j.backend = "native" THEN "CANCELLED" ELSE "FAILED"
      [] OTHER                -> "FAILED"

\* get_status: the first end it sees stays.
GetStatus(h) ==
    /\ launched[h].backend = "docker" => LockFree
    /\ launched[h].outcome = "RUNNING"
    /\ SetJob(h, "outcome", StatusOf(launched[h]))
    /\ UNCHANGED <<daemon, stopped, trouble>>

\* Mutant: docker stop is left out.
DockerStopSkipped(h) ==
    /\ LockFree
    /\ launched[h].backend = "docker"
    /\ stopped' = {h}
    /\ trouble' = trouble \cup {g \in {h} : launched[g].container = "starting"}
    /\ UNCHANGED <<daemon, launched>>

\* stop: docker stop ends the container if the daemon answers and the container
\* is there by now; that it could not is only logged,
DockerStop(h) ==
    /\ LockFree
    /\ launched[h].backend = "docker"
    /\ stopped' = {h}
    /\ trouble' = trouble \cup {g \in {h} : launched[g].container = "starting"}
    /\ IF daemon = "up" /\ launched[h].container = "running"
       THEN SetJob(h, "container", "killed")
       ELSE UNCHANGED launched
    /\ UNCHANGED daemon

\* then a client that still runs is terminated; CANCELLED replaces any outcome.
ClientStop ==
    \E h \in stopped :
        /\ launched' = [launched EXCEPT ![h].outcome = "CANCELLED",
                                        ![h].client = IF @ = "running" THEN "killed" ELSE @]
        /\ stopped' = {}
        /\ UNCHANGED <<daemon, trouble>>

NativeStop(h) ==
    /\ launched[h].backend = "native" /\ launched[h].client = "running"
    /\ launched' = [launched EXCEPT ![h].outcome = "CANCELLED", ![h].client = "killed"]
    /\ UNCHANGED <<daemon, stopped, trouble>>

DockerNext ==
    \/ \E h \in DOMAIN launched :
          \/ ContainerStarts(h) \/ ContainerNeverStarts(h) \/ ContainerEnds(h) \/ ClientEnds(h)
          \/ NativeProcessEnds(h)
          \/ GetStatus(h) \/ DockerStop(h) \/ NativeStop(h)
    \/ DaemonHangs \/ DaemonDies \/ DaemonReturns
    \/ Launch \/ ClientStop

DockerTypeOK ==
    /\ daemon \in {"up", "hung", "down"}
    /\ \A h \in DOMAIN launched :
          /\ launched[h].backend \in {"docker", "native"}
          /\ launched[h].client \in Over \cup {"running"}
          /\ launched[h].container \in Over \cup Live \cup {"none"}
          /\ launched[h].outcome \in {"RUNNING", "COMPLETED", "FAILED", "CANCELLED"}
    /\ stopped \cup trouble \subseteq DOMAIN launched

\* What the backend says of a job is true of its container, although it watches
\* only the client: an ended job has no container any more and a COMPLETED one
\* has ended well.  What was running when the daemon hung or died may be reported
\* FAILED though it ended well or runs on, and a job that is stopped before its
\* container is there may run on.
ContainerEndIsTrue ==
    \A h \in DOMAIN launched :
        launched[h].backend = "docker" =>
            /\ launched[h].outcome # "RUNNING" => launched[h].container \notin Live \/ h \in trouble
            /\ launched[h].outcome = "COMPLETED" => launched[h].container = "ok"
            /\ launched[h].outcome = "FAILED" => launched[h].container # "ok" \/ h \in trouble
=============================================================================
