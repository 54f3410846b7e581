--------------------------- MODULE BenchmarkTrial ---------------------------
(***************************************************************************)
(* BenchmarkHarness: a trial runs a synthetic trace against one scheduler  *)
(* in simulated time.  Each step lets jobs arrive, gives back what the     *)
(* finished ones held, calls the scheduler on all pending jobs and books   *)
(* its allocations.  The calls themselves are those of SchedulingPass; a   *)
(* behaviour is either a sequence of calls made by anyone (phase "IDLE")   *)
(* or a sequence of trials.                                                *)
(*                                                                         *)
(* The unit of time is time_step.                                          *)
(***************************************************************************)
EXTENDS SchedulingPass

CONSTANTS
    Fleets,     \* cluster_workers of the harness
    Counts,     \* lengths of the traces
    Intervals,  \* min_arrival_interval .. max_arrival_interval
    LongestGap, \* bound on what expovariate() returns
    BurstSize,
    Durations,
    MaxSteps    \* max_simulation_steps

ASSUME FleetsAssumption == Fleets # {} /\ \A f \in Fleets : IsSnapshot(f)

ASSUME TraceAssumption ==
    /\ Counts \subseteq Nat \ {0} /\ \A n \in Counts : 1..n \subseteq DOMAIN Req
    /\ Intervals \subseteq Nat /\ IsFiniteSet(Intervals) /\ LongestGap \in Nat
    /\ MaxSteps \in Nat \ {0}

VARIABLES
    phase,      \* the part of the step the trial is in; "IDLE": no trial
    fleet,      \* cluster_workers
    trace,      \* the trace, sorted by arrival: [arrival, duration] of each job
    simTime,
    arrived,    \* trace_idx
    queue,      \* pending_jobs
    running,    \* active_running_jobs: [job, worker, devices, finish]
    completed,  \* completed_job_ids
    free        \* worker_gpu_vram

trialVars == <<phase, fleet, trace, simTime, arrived, queue, running, completed, free>>

D == INSTANCE Diagnostics WITH NoWorker <- 0

-----------------------------------------------------------------------------
(* WorkloadGenerator *)

ArrivalPatterns == {"uniform", "poisson", "burst", "constant"}

\* The intervals that may come before item i, i # 1.
GapsOf(pattern, i) ==
    CASE pattern = "poisson"  -> 0..LongestGap
      [] pattern = "burst"    -> IF (i - 1) % BurstSize # 0 THEN {0} ELSE Intervals
      [] pattern = "constant" -> {Min(Intervals)}
      [] OTHER                -> Intervals

\* generate_trace.  The jobs themselves are drawn at random, too: Req and
\* Priority stand for what was drawn.
GenerateTrace(count) ==
    LET gaps == {g \in [1..count -> 0..Max(Intervals \cup {LongestGap})] :
                    /\ g[1] = 0
                    /\ \E pattern \in ArrivalPatterns : \A i \in 2..count : g[i] \in GapsOf(pattern, i)}
    IN  {[i \in 1..count |-> [arrival |-> SumFunction([k \in 1..i |-> g[k]]), duration |-> d[i]]] :
            g \in gaps, d \in [1..count -> Durations]}

-----------------------------------------------------------------------------
(* run_single_trial *)

FreeOf(f) == [w \in DOMAIN f |-> f[w].free]

\* The state of the workers shown to the scheduler: the memory in use is taken
\* off the devices, the CPUs and the RAM in use are not taken off the workers.
ClusterView == [w \in DOMAIN fleet |-> [fleet[w] EXCEPT !.free = free[w], !.healthy = TRUE]]

TrialStarts(f, t) ==
    /\ phase = "ARRIVE" /\ fleet = f /\ trace = t /\ simTime = 0 /\ arrived = 0
    /\ queue = {} /\ running = {} /\ completed = {} /\ free = FreeOf(f)

NoTrial(f) ==
    /\ phase = "IDLE" /\ fleet = f /\ trace = <<>> /\ simTime = 0 /\ arrived = 0
    /\ queue = {} /\ running = {} /\ completed = {} /\ free = FreeOf(f)

BenchInit ==
    \/ Init /\ NoTrial(CHOOSE f \in Fleets : TRUE)
    \/ \E f \in Fleets, n \in Counts :
          /\ \E t \in GenerateTrace(n) : TrialStarts(f, t)
          /\ \E p \in Policies : Begun(p, {}, f, 0)

\* The items that are due become pending jobs.
Arrive ==
    /\ phase = "ARRIVE"
    /\ LET due == {j \in DOMAIN trace : j > arrived /\ trace[j].arrival <= simTime}
       IN  queue' = queue \cup due /\ arrived' = arrived + Cardinality(due)
    /\ phase' = "RELEASE"
    /\ UNCHANGED <<vars, fleet, trace, simTime, running, completed, free>>

Finished == {r \in running : r.finish <= simTime}

\* The memory of device d of worker w that the allocations in A hold.
HeldOf(A, w, d) ==
    SumFunction([a \in {b \in A : b.worker = w /\ d \in b.devices} |-> Req[a.job].vram])

\* Mutant: the memory of a finished job is given back on its first device only.
ReleaseFirstDevice ==
    /\ phase = "RELEASE"
    /\ running' = running \ Finished
    /\ completed' = completed \cup {r.job : r \in Finished}
    /\ free' = [w \in DOMAIN free |-> [d \in DOMAIN free[w] |->
                   free[w][d] + HeldOf({r \in Finished : r.devices # {} /\ d = Min(r.devices)}, w, d)]]
    /\ phase' = "CALL"
    /\ UNCHANGED <<vars, fleet, trace, simTime, arrived, queue>>

\* Finished jobs give back the memory they hold.
Release ==
    /\ phase = "RELEASE"
    /\ running' = running \ Finished
    /\ completed' = completed \cup {r.job : r \in Finished}
    /\ free' = [w \in DOMAIN free |-> [d \in DOMAIN free[w] |->
                   free[w][d] + HeldOf(Finished, w, d)]]
    /\ phase' = "CALL"
    /\ UNCHANGED <<vars, fleet, trace, simTime, arrived, queue>>

\* The scheduler is called if a job is pending.  submitted_at is the wall clock,
\* which hardly moves in a trial: no job ages.
Call ==
    /\ phase = "CALL"
    /\ IF queue = {}
       THEN phase' = "ADVANCE" /\ UNCHANGED vars
       ELSE /\ phase' = "PLACE"
            /\ pending' = queue /\ cluster' = ClusterView
            /\ waiting' = Order(policy, queue, 0)
            /\ taken' = NothingTaken(fleet)
            /\ UNCHANGED policy
    /\ UNCHANGED <<fleet, trace, simTime, arrived, queue, running, completed, free>>

\* The loop of the scheduler.
PlaceNext == phase = "PLACE" /\ Place /\ UNCHANGED trialVars

\* The first allocation of each job; a job is no longer pending when its second
\* one comes, which is skipped.
Booked == {taken.plan[n] : n \in {m \in DOMAIN taken.plan :
              \A l \in 1..(m - 1) : taken.plan[l].job # taken.plan[m].job}}

\* Each allocation is booked and its job runs until simTime + duration_seconds.
Book ==
    /\ phase = "PLACE"
    /\ waiting = <<>>
    /\ queue' = queue \ {e.job : e \in Booked}
    /\ running' = running \cup {[job |-> e.job, worker |-> e.worker, devices |-> e.devices,
                                 finish |-> simTime + trace[e.job].duration] : e \in Booked}
    /\ free' = [w \in DOMAIN free |-> [d \in DOMAIN free[w] |->
                   LessMonus(free[w][d], HeldOf(Booked, w, d))]]
    /\ pending' = {} /\ taken' = NothingTaken(fleet)
    /\ phase' = "ADVANCE"
    /\ UNCHANGED <<policy, cluster, waiting, fleet, trace, simTime, arrived, completed>>

AllProcessed == arrived = Len(trace) /\ queue = {} /\ running = {}

\* The end of a step, and of the trial if all jobs are through or the steps are.
Advance ==
    /\ phase = "ADVANCE"
    /\ phase' = IF AllProcessed \/ simTime + 1 = MaxSteps THEN "DONE" ELSE "ARRIVE"
    /\ simTime' = IF AllProcessed THEN simTime ELSE simTime + 1
    /\ UNCHANGED <<vars, fleet, trace, arrived, queue, running, completed, free>>

\* run_multi_trial: the next trial has a trace of its own and the same scheduler.
NextTrial ==
    /\ phase = "DONE"
    /\ \E t \in GenerateTrace(Len(trace)) :
          /\ phase' = "ARRIVE" /\ trace' = t /\ simTime' = 0 /\ arrived' = 0
          /\ queue' = {} /\ running' = {} /\ completed' = {} /\ free' = FreeOf(fleet)
    /\ UNCHANGED <<vars, fleet>>

AnyCall == phase = "IDLE" /\ Next /\ UNCHANGED trialVars

BenchNext ==
    AnyCall \/ Arrive \/ Release \/ Call \/ PlaceNext \/ Book \/ Advance \/ NextTrial

BenchSpec == BenchInit /\ [][BenchNext]_<<vars, trialVars>>

-----------------------------------------------------------------------------
(* Properties *)

\* The type invariant, of the calls and of the trials: an arrived job is pending,
\* running or completed, and no job is two of these.
BenchTypeOK ==
    /\ TypeOK
    /\ phase \in {"IDLE", "ARRIVE", "RELEASE", "CALL", "PLACE", "ADVANCE", "DONE"}
    /\ fleet \in Fleets
    /\ simTime \in 0..MaxSteps
    /\ arrived \in 0..Len(trace)
    /\ queue \cup completed \cup {r.job : r \in running} = 1..arrived
    /\ Cardinality(queue) + Cardinality(completed) + Cardinality(running) = arrived
    /\ \A w \in DOMAIN fleet : free[w] \in [fleet[w].devices -> Nat]

\* The memory account of a trial: what is free on a GPU and what the running jobs
\* hold of it is what the GPU had at first, after any sequence of arrivals, calls
\* and completions, so that jobs share a GPU but never its memory.
VramConserved ==
    \A w \in DOMAIN fleet : \A d \in fleet[w].devices :
        free[w][d] + HeldOf(running, w, d) = fleet[w].free[d]

\* One worker could host the job if it did nothing else.
Feasible(j) == Fitting(j, fleet, NothingTaken(fleet)) # {}

\* No job starves in a trial: when a trial ends, each job that some empty worker
\* can host has been completed, whatever was ahead of it, and the trial did not
\* end because it ran out of steps unless a job is left that fits nowhere.
FeasibleJobsComplete ==
    phase = "DONE" =>
        /\ {j \in DOMAIN trace : Feasible(j)} \subseteq completed
        /\ simTime = MaxSteps => \E j \in DOMAIN trace : ~Feasible(j)

\* All memory of the GPUs of a fleet, given what is free on each of them.
MemoryIn(amounts) ==
    SumFunction([w \in DOMAIN amounts |-> SumFunction(amounts[w])])

\* More than 90 % of the memory of the GPUs is in use.
Saturated ==
    10 * (MemoryIn(FreeOf(fleet)) - MemoryIn(free)) > 9 * MemoryIn(FreeOf(fleet))

\* docs/paper/scheduling.tex:35: "When memory utilization exceeds 90%,
\* MemoryAwareScheduler throttles new allocations, re-queueing workloads that
\* exceed free VRAM margins."  While the memory is saturated a call places no job
\* that asks for some.  Not true: what is free on each device is all it looks at.
ThrottledWhenFull ==
    phase = "PLACE" /\ policy = "MEMORY_AWARE" /\ Saturated =>
        \A j \in Placed : Req[j].vram = 0

\* All GPUs of the workers, as the ResourceManager of an idle cluster lists them.
DevicesOf(f) == UNION {{[gpu |-> TRUE, total |-> f[w].free[d]] : d \in f[w].devices} : w \in DOMAIN f}

\* The diagnosis of a queued job and the schedulers agree: a job that is reported
\* to ask for more GPU memory or CPUs than the cluster has is never placed.  The
\* GangScheduler, which splits the CPUs of a job, may place it.
DiagnosisIsRight ==
    policy # "GANG" =>
        \A j \in completed \cup {r.job : r \in running} :
            D!AnalyzeJob([known |-> TRUE, status |-> "QUEUED", worker |-> 0, req |-> Req[j]],
                         fleet, DevicesOf(fleet)).findings = {"Healthy"}
=============================================================================
