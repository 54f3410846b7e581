------------------------- MODULE PlacementPolicies -------------------------
(***************************************************************************)
(* The other algorithms of drigs/scheduler.  They differ from FIFO in the  *)
(* order in which they take the jobs and in the worker, or the devices,    *)
(* they prefer; what fits, and how it is booked, is the same.              *)
(***************************************************************************)
EXTENDS Schedulers

CONSTANTS
    Priority,       \* Priority[j]: the base priority of job j
    Submitted,      \* Submitted[j]: submitted_at, in seconds
    AgingPeriod,    \* 1 / aging_factor: the wait worth one step of priority
    CpuWeight       \* what a CPU counts in a score, in memory (1e9 bytes)

ASSUME PoliciesAssumption ==
    /\ \A j \in DOMAIN Req : Priority[j] \in Int /\ Submitted[j] \in Nat
    /\ AgingPeriod \in Nat /\ CpuWeight \in Nat

\* (-priority, submitted_at), the key of all policies but three.
PriorityOrder(pending) ==
    InOrder(pending, LAMBDA i, j : \/ Priority[i] > Priority[j]
                                   \/ Priority[i] = Priority[j] /\ i < j)

-----------------------------------------------------------------------------
(* PriorityScheduler: first fit, in the order of the priorities as they     *)
(* have grown with the time the jobs have waited                            *)

\* compute_effective_priority, times AgingPeriod.
EffectivePriority(j, now) == Priority[j] * AgingPeriod + LessMonus(now, Submitted[j])

AgedOrder(pending, now) ==
    InOrder(pending, LAMBDA i, j :
        \/ EffectivePriority(i, now) > EffectivePriority(j, now)
        \/ EffectivePriority(i, now) = EffectivePriority(j, now) /\ i < j)

-----------------------------------------------------------------------------
(* BestFitScheduler, BinPackScheduler: the worker with the least surplus    *)

MemoryOf(w, devices, cluster) == SumFunction([d \in devices |-> cluster[w].free[d]])

\* The memory of the devices that will do; 0 for a job without GPUs.
CandidateMemory(j, w, cluster, taken) ==
    IF Req[j].gpus = 0 THEN 0 ELSE MemoryOf(w, Candidates(j, w, cluster, taken), cluster)

CpuAndRamLeft(j, w, cluster, taken) ==
    (FreeCpus(w, cluster, taken) - Req[j].cpus) * CpuWeight
        + (FreeRam(w, cluster, taken) - Req[j].ram)

\* BestFit counts the memory of the devices it is about to give away, too.
BestFitScore(j, w, cluster, taken) ==
    CpuAndRamLeft(j, w, cluster, taken) + CandidateMemory(j, w, cluster, taken)

BinPackScore(j, w, cluster, taken) ==
    CpuAndRamLeft(j, w, cluster, taken)
        + LessMonus(CandidateMemory(j, w, cluster, taken), Req[j].vram * Req[j].gpus)

\* The first of the workers with the least score.
Tightest(score) == Min({w \in DOMAIN score : \A v \in DOMAIN score : score[w] <= score[v]})

BestFitPlace(taken, j, cluster) ==
    LET score == [w \in Fitting(j, cluster, taken) |-> BestFitScore(j, w, cluster, taken)]
    IN  IF DOMAIN score = {} THEN taken ELSE PlaceOn(j, Tightest(score), cluster, taken)

BinPackPlace(taken, j, cluster) ==
    LET score == [w \in Fitting(j, cluster, taken) |-> BinPackScore(j, w, cluster, taken)]
    IN  IF DOMAIN score = {} THEN taken ELSE PlaceOn(j, Tightest(score), cluster, taken)

-----------------------------------------------------------------------------
(* MemoryAwareScheduler: most available memory, and the jobs that ask for  *)
(* most of it first                                                        *)

MemoryOrder(pending) ==
    InOrder(pending, LAMBDA i, j :
        \/ Req[i].vram > Req[j].vram
        \/ /\ Req[i].vram = Req[j].vram
           /\ \/ Priority[i] > Priority[j]
              \/ Priority[i] = Priority[j] /\ i < j)

\* The devices with most memory, of those that will do; sort is stable.
LargestDevices(j, w, cluster, taken) ==
    Foremost(Req[j].gpus, Candidates(j, w, cluster, taken),
             LAMBDA c, d : \/ cluster[w].free[c] > cluster[w].free[d]
                           \/ cluster[w].free[c] = cluster[w].free[d] /\ c < d)

\* The average over the devices in the code; all workers give equally many.
MemoryScore(j, w, cluster, taken) ==
    IF Req[j].gpus = 0 THEN FreeRam(w, cluster, taken)
    ELSE MemoryOf(w, LargestDevices(j, w, cluster, taken), cluster)

\* The workers are gone through in the order of the dictionary, so that any of
\* the best may be the first of them.
MostMemory(j, cluster, taken) ==
    {w \in Fitting(j, cluster, taken) :
        \A v \in Fitting(j, cluster, taken) :
            MemoryScore(j, v, cluster, taken) <= MemoryScore(j, w, cluster, taken)}

MemoryAwarePlace(taken, j, w, cluster) ==
    Take(j, w, LargestDevices(j, w, cluster, taken), Req[j].cpus, Req[j].ram, taken)

-----------------------------------------------------------------------------
(* TopologyAwareScheduler: the devices with the best links between them     *)

\* LINK_TYPE_SCORES
LinkScores == [NVLINK |-> 90, PCIE_SWITCH |-> 70, PCIE |-> 50, NUMA |-> 30, UNKNOWN |-> 0]

\* _infer_link_type takes the first that applies, which has the highest score.
\* A tag of 0 is one the device does not have.
LinkScore(a, b) ==
    LET applies == [NVLINK      |-> a.nvlink # 0 /\ a.nvlink = b.nvlink,
                    PCIE_SWITCH |-> a.bus # 0 /\ a.bus = b.bus,
                    PCIE        |-> a.numa # 0 /\ a.numa = b.numa,
                    NUMA        |-> a.numa # 0 /\ b.numa # 0,
                    UNKNOWN     |-> TRUE]
    IN  Max({LinkScores[t] : t \in {u \in DOMAIN LinkScores : applies[u]}})

\* get_group_topology_score, times the number of pairs; one device or none
\* score the same on each worker.
GroupScore(w, devices, cluster) ==
    SumFunction([pair \in kSubset(2, devices) |->
                    LinkScore(cluster[w].tags[Min(pair)], cluster[w].tags[Max(pair)])])

\* Of two sets of devices of one size, itertools.combinations has S first.
CombinationBefore(S, T) == Min(S \ T) < Min(T \ S)

\* Mutant: the first devices, whatever their links.
FirstClique(j, w, cluster, taken) ==
    Lowest(Req[j].gpus, Candidates(j, w, cluster, taken))

\* find_best_clique: the first of the combinations with the highest score.
BestClique(j, w, cluster, taken) ==
    LET all  == kSubset(Req[j].gpus, Candidates(j, w, cluster, taken))
        best == {S \in all : \A T \in all : GroupScore(w, T, cluster) <= GroupScore(w, S, cluster)}
    IN  CHOOSE S \in best : \A T \in best \ {S} : CombinationBefore(S, T)

BestConnected(j, cluster, taken) ==
    LET Score(w) == GroupScore(w, BestClique(j, w, cluster, taken), cluster)
    IN  Min({w \in Fitting(j, cluster, taken) :
                \A v \in Fitting(j, cluster, taken) : Score(v) <= Score(w)})

TopologyPlace(taken, j, cluster) ==
    LET w == BestConnected(j, cluster, taken)
    IN  IF Fitting(j, cluster, taken) = {} THEN taken
        ELSE Take(j, w, BestClique(j, w, cluster, taken), Req[j].cpus, Req[j].ram, taken)
=============================================================================
