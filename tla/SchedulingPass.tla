--------------------------- MODULE SchedulingPass ---------------------------
(***************************************************************************)
(* Calls of Scheduler.schedule(pending_jobs, cluster_state), one job at a  *)
(* time: each algorithm goes through the pending jobs in an order of its   *)
(* own and places each or leaves it out.  Nothing but the plan survives    *)
(* the call.                                                               *)
(***************************************************************************)
EXTENDS PlacementPolicies

CONSTANTS
    Clusters,   \* the snapshots a call may get
    Times       \* the times a call may be made at

\* cluster_state.workers: numbered workers that have numbered devices.
IsSnapshot(c) ==
    /\ DOMAIN c \subseteq Nat \ {0} /\ IsFiniteSet(DOMAIN c)
    /\ \A w \in DOMAIN c :
          /\ DOMAIN c[w] = {"healthy", "devices", "free", "tags", "cpus", "ram"}
          /\ c[w].healthy \in BOOLEAN
          /\ c[w].devices \subseteq Nat /\ IsFiniteSet(c[w].devices)
          /\ c[w].free \in [c[w].devices -> Nat]
          /\ c[w].cpus \in Nat /\ c[w].ram \in Nat

ASSUME SnapshotsAssumption == \A c \in Clusters : IsSnapshot(c)

ASSUME TimesAssumption == Times \subseteq Nat

VARIABLES
    policy,     \* the scheduler that was called
    cluster,    \* cluster_state.workers
    pending,    \* pending_jobs
    waiting,    \* the sorted jobs the loop has not reached
    taken       \* allocations, busy_devices, allocated_cpus, allocated_memory

vars == <<policy, cluster, pending, waiting, taken>>

Jobs == DOMAIN Req

Policies == {"FIFO", "FIRST_FIT", "PRIORITY", "BEST_FIT", "BIN_PACK", "MEMORY_AWARE",
             "TOPOLOGY_AWARE", "GANG", "RANDOM"}

Order(p, jobs, now) ==
    CASE p = "FIFO"         -> FIFOOrder(jobs)
      [] p = "RANDOM"       -> FIFOOrder(jobs)
      [] p = "PRIORITY"     -> AgedOrder(jobs, now)
      [] p = "MEMORY_AWARE" -> MemoryOrder(jobs)
      [] OTHER              -> PriorityOrder(jobs)

-----------------------------------------------------------------------------

Begun(p, jobs, c, now) ==
    /\ policy = p /\ pending = jobs /\ cluster = c
    /\ waiting = Order(p, jobs, now)
    /\ taken = NothingTaken(c)

Init ==
    \E p \in Policies, jobs \in SUBSET Jobs, c \in Clusters, now \in Times : Begun(p, jobs, c, now)

\* The next call, of the same scheduler.
Schedule ==
    /\ waiting = <<>>
    /\ \E jobs \in SUBSET Jobs, c \in Clusters, now \in Times :
          /\ pending' = jobs /\ cluster' = c
          /\ waiting' = Order(policy, jobs, now)
          /\ taken' = NothingTaken(c)
    /\ UNCHANGED policy

\* Mutant: a job is taken up again later.
ConsiderAgain(p) ==
    /\ policy = p
    /\ waiting # <<>>
    /\ waiting' = Append(Tail(waiting), Head(waiting))
    /\ UNCHANGED <<policy, cluster, pending>>

\* The loop gets to the next job.
Consider(p) ==
    /\ policy = p
    /\ waiting # <<>>
    /\ waiting' = Tail(waiting)
    /\ UNCHANGED <<policy, cluster, pending>>

FirstFitNext ==
    /\ \E p \in {"FIFO", "FIRST_FIT", "PRIORITY"} : Consider(p)
    /\ taken' = FIFOPlace(taken, Head(waiting), cluster)

BestFitNext == Consider("BEST_FIT") /\ taken' = BestFitPlace(taken, Head(waiting), cluster)

BinPackNext == Consider("BIN_PACK") /\ taken' = BinPackPlace(taken, Head(waiting), cluster)

MemoryAwareNext ==
    /\ Consider("MEMORY_AWARE")
    /\ IF Fitting(Head(waiting), cluster, taken) = {}
       THEN taken' = taken
       ELSE \E w \in MostMemory(Head(waiting), cluster, taken) :
               taken' = MemoryAwarePlace(taken, Head(waiting), w, cluster)

TopologyNext ==
    Consider("TOPOLOGY_AWARE") /\ taken' = TopologyPlace(taken, Head(waiting), cluster)

GangNext == Consider("GANG") /\ taken' = GangPlace(taken, Head(waiting), cluster)

\* The baseline of experiment B: any worker the job fits on, any of its devices.
RandomNext ==
    /\ Consider("RANDOM")
    /\ LET j == Head(waiting)
       IN  IF Fitting(j, cluster, taken) = {}
           THEN taken' = taken
           ELSE \E w \in Fitting(j, cluster, taken) :
                   \E D \in kSubset(Req[j].gpus, Candidates(j, w, cluster, taken)) :
                      taken' = Take(j, w, D, Req[j].cpus, Req[j].ram, taken)

Place ==
    \/ FirstFitNext \/ BestFitNext \/ BinPackNext
    \/ MemoryAwareNext \/ TopologyNext \/ GangNext \/ RandomNext

Next == Schedule \/ Place

Spec == Init /\ [][Next]_vars

-----------------------------------------------------------------------------
(* Properties *)

Plan == taken.plan

EntriesOf(j) == {n \in DOMAIN Plan : Plan[n].job = j}

EntriesOn(w) == {n \in DOMAIN Plan : Plan[n].worker = w}

Placed == {j \in Jobs : EntriesOf(j) # {}}

TypeOK ==
    /\ policy \in Policies
    /\ \A w \in DOMAIN cluster : cluster[w].free \in [cluster[w].devices -> Nat]
    /\ pending \subseteq Jobs
    /\ ToSet(waiting) \subseteq pending
    /\ taken.busy \subseteq UNION {{w} \X cluster[w].devices : w \in DOMAIN cluster}
    /\ taken.cpus \in [DOMAIN cluster -> Nat]
    /\ taken.ram \in [DOMAIN cluster -> Nat]
    /\ \A n \in DOMAIN Plan : Plan[n].job \in pending \ ToSet(waiting)

\* What the allocations of one call give away of a worker, read off the
\* allocations themselves, is there: no GPU twice, none that is too small for the
\* job, none of an unhealthy worker, and, for all schedulers but the
\* GangScheduler, not more CPUs and RAM than the worker has.
WithinCapacity ==
    \A w \in DOMAIN cluster :
        /\ \A m, n \in EntriesOn(w) : m # n => Plan[m].devices \cap Plan[n].devices = {}
        /\ \A n \in EntriesOn(w) :
              /\ cluster[w].healthy
              /\ Plan[n].devices \subseteq cluster[w].devices
              /\ \A d \in Plan[n].devices : Req[Plan[n].job].vram <= cluster[w].free[d]
        /\ policy # "GANG" =>
              /\ SumFunction([n \in EntriesOn(w) |-> Req[Plan[n].job].cpus]) <= cluster[w].cpus
              /\ SumFunction([n \in EntriesOn(w) |-> Req[Plan[n].job].ram]) <= cluster[w].ram

\* A job is planned whole or not at all: the allocations of one call that name it
\* hold as many GPUs as it asked for, on different workers if they are several,
\* and they are several only under the GangScheduler.
WholeOrNothing ==
    \A j \in Placed :
        /\ SumFunction([n \in EntriesOf(j) |-> Cardinality(Plan[n].devices)]) = Req[j].gpus
        /\ \A m, n \in EntriesOf(j) : m # n => Plan[m].worker # Plan[n].worker
        /\ policy # "GANG" => Cardinality(EntriesOf(j)) = 1

\* A call leaves out only jobs for which nothing is left when it returns: no
\* worker they fit on and, under the GangScheduler, not enough GPUs on all the
\* workers together.  This is what the code does under each policy; the documents
\* say otherwise of two of them, see ArrivalFairness below and ThrottledWhenFull.
NothingFittingLeft ==
    waiting = <<>> =>
        \A j \in pending \ Placed :
            /\ Fitting(j, cluster, taken) = {}
            /\ policy = "GANG" =>
                  Req[j].gpus = 0 \/ GangTotal(j, cluster, taken) < Req[j].gpus

\* docs/paper/scheduling.tex:11 of the FIFOScheduler: "While FIFO enforces strict
\* arrival fairness, it suffers from head-of-line (HoL) blocking under
\* heterogeneous arrival streams, as large multi-GPU training jobs stall small,
\* low-resource inference tasks."  No job is placed in a call that leaves out one
\* submitted before it.  Not true: the loop goes on to the next job.
ArrivalFairness ==
    policy = "FIFO" => \A i, j \in pending : i < j /\ j \in Placed => i \in Placed

\* All ways to give job j its devices on one worker.
Placements(j) ==
    UNION {{w} \X kSubset(Req[j].gpus, Candidates(j, w, cluster, taken)) :
              w \in Fitting(j, cluster, taken)}

\* The entries that a step adds to the plan are the best of all placements.
NewEntriesBest ==
    \A n \in DOMAIN taken'.plan \ DOMAIN Plan :
        LET e == taken'.plan[n]
        IN  /\ policy = "MEMORY_AWARE" =>
                  \A p \in Placements(e.job) :
                      MemoryOf(p[1], p[2], cluster) <= MemoryOf(e.worker, e.devices, cluster)
            /\ policy = "TOPOLOGY_AWARE" =>
                  \A p \in Placements(e.job) :
                      GroupScore(p[1], p[2], cluster) <= GroupScore(e.worker, e.devices, cluster)

\* The MemoryAwareScheduler gives the devices with the most memory, and the
\* TopologyAwareScheduler those with the best links, of all sets of devices on
\* all workers, not only of those it compares.
BestOfAll == [][NewEntriesBest]_vars
=============================================================================
