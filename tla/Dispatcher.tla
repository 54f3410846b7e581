----------------------------- MODULE Dispatcher -----------------------------
(***************************************************************************)
(* RemoteDispatcher: jobs are launched, polled and stopped through the     *)
(* agents that were registered with it, if the WorkerRegistry says that    *)
(* the worker is there.  Each method holds the dispatcher's lock and is    *)
(* one action; the agents' heartbeats and the workloads go on beside it.   *)
(***************************************************************************)
EXTENDS WorkerRegistry, Naturals

CONSTANTS
    DispatchJobs,   \* job ids
    Nowhere         \* worker of a job that is not in _job_worker_map

VARIABLES
    connected,  \* _agents
    worker,     \* _job_worker_map (and _handles)
    knows,      \* knows[w]: the jobs in _active_handles of the agent of w
    process,    \* process[j]: status of the process launched for j
    told        \* told[j]: what get_job_status said last; "None" also at first

dispatchVars == <<connected, worker, knows, process, told>>

DispatchInit ==
    /\ RegistryInit
    /\ connected = {}
    /\ worker = [j \in DispatchJobs |-> Nowhere]
    /\ knows = [w \in Workers |-> {}]
    /\ process = [j \in DispatchJobs |-> "PENDING"]
    /\ told = [j \in DispatchJobs |-> "None"]

\* An agent object comes with the handles it has; a new one under the same id has
\* none.
RegisterAgent(w) ==
    /\ connected' = connected \cup {w}
    /\ \E inTime \in BOOLEAN : Register(w, "HEALTHY", inTime)
    /\ \E kept \in {knows[w], {}} : knows' = [knows EXCEPT ![w] = kept]
    /\ UNCHANGED <<worker, process, told>>

\* The jobs stay in the map.
UnregisterAgent(w) ==
    /\ Registered(w)
    /\ connected' = connected \ {w}
    /\ Deregister(w)
    /\ UNCHANGED <<worker, knows, process, told>>

\* Others use the same registry.
RegistryMoves ==
    /\ \E w \in Workers : \/ \E s \in Reported : Heartbeat(w, s)
                          \/ Expire(w)
                          \/ Deregister(w)
    /\ UNCHANGED dispatchVars

Reachable(w) == Checked[w] \notin {"OFFLINE", "UNAVAILABLE"}

\* A job is dispatched once.
Dispatch(j, w) ==
    /\ process[j] = "PENDING"
    /\ CheckTimeouts /\ UNCHANGED active
    /\ IF Registered(w) /\ Reachable(w) /\ w \in connected
       THEN /\ worker' = [worker EXCEPT ![j] = w]
            /\ knows' = [knows EXCEPT ![w] = @ \cup {j}]
            /\ process' = [process EXCEPT ![j] = "RUNNING"]
       ELSE UNCHANGED <<worker, knows, process>>    \* ValueError, RuntimeError
    /\ UNCHANGED <<connected, told>>

ProcessEnds(j) ==
    /\ process[j] = "RUNNING"
    /\ \E s \in {"COMPLETED", "FAILED"} : process' = [process EXCEPT ![j] = s]
    /\ UNCHANGED <<registryVars, connected, worker, knows, told>>

\* False, and nothing done, for a job whose agent is gone or does not know it; a
\* process that has ended keeps its status.
StopJob(j) ==
    /\ worker[j] # Nowhere
    /\ worker[j] \in connected
    /\ j \in knows[worker[j]]
    /\ process' = [process EXCEPT ![j] = IF @ = "RUNNING" THEN "CANCELLED" ELSE @]
    /\ worker' = [worker EXCEPT ![j] = Nowhere]
    /\ UNCHANGED <<registryVars, connected, knows, told>>

\* Mutant: the status of the worker is not checked first.
AnswerUnchecked(j) ==
    IF j \in knows[worker[j]] THEN process[j] ELSE "None"

\* What the agent says, unless the worker is not heard from.
Answer(j) ==
    LET w == worker[j]
    IN  IF Registered(w) /\ ~Reachable(w)          THEN "FAILED"
        ELSE IF w \in connected /\ j \in knows[w]  THEN process[j]
        ELSE "None"

GetJobStatus(j) ==
    /\ worker[j] # Nowhere
    /\ CheckTimeouts /\ UNCHANGED active
    /\ told' = [told EXCEPT ![j] = Answer(j)]
    /\ UNCHANGED <<connected, worker, knows, process>>

ActiveWorkerIds == GetActiveWorkers /\ UNCHANGED dispatchVars

DispatchNext ==
    \/ \E w \in Workers : RegisterAgent(w) \/ UnregisterAgent(w)
    \/ \E j \in DispatchJobs, w \in Workers : Dispatch(j, w)
    \/ \E j \in DispatchJobs : ProcessEnds(j) \/ StopJob(j) \/ GetJobStatus(j)
    \/ RegistryMoves \/ ActiveWorkerIds

DispatchTypeOK ==
    /\ RegistryTypeOK
    /\ connected \subseteq Workers
    /\ worker \in [DispatchJobs -> Workers \cup {Nowhere}]
    /\ knows \in [Workers -> SUBSET DispatchJobs]
    /\ process \in [DispatchJobs -> {"PENDING", "RUNNING", "COMPLETED", "FAILED", "CANCELLED"}]
    /\ told \in [DispatchJobs -> {"None", "RUNNING", "COMPLETED", "FAILED", "CANCELLED"}]

\* What a caller is told of a job is so: it runs only if it does and its worker,
\* if registered, was heard from in time, it is COMPLETED only if it is, and it is
\* FAILED only if its process failed or its worker is silent or reported
\* UNAVAILABLE.
ToldIsTrue ==
    [][\A j \in DispatchJobs : GetJobStatus(j) =>
          /\ told'[j] = "RUNNING" => /\ process[j] = "RUNNING"
                                     /\ Registered(worker[j]) => recent[worker[j]]
          /\ told'[j] = "COMPLETED" => process[j] = "COMPLETED"
          /\ told'[j] = "FAILED" => \/ process[j] = "FAILED"
                                    \/ ~recent[worker[j]]
                                    \/ health[worker[j]] = "UNAVAILABLE"
      ]_<<registryVars, dispatchVars>>
=============================================================================
