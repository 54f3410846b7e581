----------------------------- MODULE Schedulers -----------------------------
(***************************************************************************)
(* drigs/scheduler: the placement algorithms, as functions of the pending  *)
(* jobs and of a snapshot of the registered workers.  A scheduler keeps    *)
(* its own account of what the pass has handed out so far and knows        *)
(* nothing of the allocations of earlier passes: the snapshot holds the    *)
(* workers, not the device states of the ResourceManager.                  *)
(*                                                                         *)
(* A worker of the snapshot is a record: healthy, devices, free (memory    *)
(* available on each device), tags (interconnect of each device; only the  *)
(* TopologyAwareScheduler looks), cpus, ram.  Worker ids, and device ids   *)
(* in the order a worker lists them, are numbers.  Memory is in MiB.       *)
(***************************************************************************)
EXTENDS Orders, FiniteSetsExt, SequencesExt

CONSTANTS
    Req     \* Req[j]: the resources of job j, [gpus, vram, cpus, ram]

\* The fields of ResourceRequirements are declared with ge=0, cpus with ge=1.
ASSUME RequestsAssumption ==
    /\ DOMAIN Req \subseteq Nat /\ IsFiniteSet(DOMAIN Req)
    /\ \A j \in DOMAIN Req : Req[j] \in [gpus : Nat, vram : Nat, cpus : Nat, ram : Nat]

\* What a pass has handed out: the plan so far, devices, CPUs and RAM taken.
NothingTaken(cluster) ==
    [plan |-> <<>>,
     busy |-> {},
     cpus |-> [w \in DOMAIN cluster |-> 0],
     ram  |-> [w \in DOMAIN cluster |-> 0]]

LessMonus(a, b) == IF a > b THEN a - b ELSE 0    \* max(0, a - b)

\* Mutant: CPUs given to earlier jobs are given again.
AllCpus(w, cluster, taken) == cluster[w].cpus

FreeCpus(w, cluster, taken) == LessMonus(cluster[w].cpus, taken.cpus[w])

FreeRam(w, cluster, taken) == LessMonus(cluster[w].ram, taken.ram[w])

\* The GPUs of a worker that the pass may still give to job j.
Candidates(j, w, cluster, taken) ==
    {d \in cluster[w].devices : /\ <<w, d>> \notin taken.busy
                                /\ Req[j].vram > 0 => Req[j].vram <= cluster[w].free[d]}

FitsOn(j, w, cluster, taken) ==
    /\ cluster[w].healthy
    /\ FreeCpus(w, cluster, taken) >= Req[j].cpus
    /\ FreeRam(w, cluster, taken) >= Req[j].ram
    /\ Cardinality(Candidates(j, w, cluster, taken)) >= Req[j].gpus

Take(j, w, devices, cpus, ram, taken) ==
    [plan |-> Append(taken.plan, [job |-> j, worker |-> w, devices |-> devices]),
     busy |-> taken.busy \cup ({w} \X devices),
     cpus |-> [taken.cpus EXCEPT ![w] = @ + cpus],
     ram  |-> [taken.ram EXCEPT ![w] = @ + ram]]

Fitting(j, cluster, taken) == {w \in DOMAIN cluster : FitsOn(j, w, cluster, taken)}

\* The first n of a list of devices, candidates[:n].
Lowest(n, devices) == Foremost(n, devices, LAMBDA c, d : c < d)

\* Job j gets the first devices of worker w that will do.
PlaceOn(j, w, cluster, taken) ==
    Take(j, w, Lowest(Req[j].gpus, Candidates(j, w, cluster, taken)),
         Req[j].cpus, Req[j].ram, taken)

\* The job goes to the first worker it fits on.
PlaceOnFirst(j, cluster, taken) == PlaceOn(j, Min(Fitting(j, cluster, taken)), cluster, taken)

-----------------------------------------------------------------------------
(* FIFOScheduler: by submission time; a job that fits nowhere is skipped *)

FIFOOrder(pending) == InOrder(pending, LAMBDA i, j : i < j)

\* Mutant: the search ends at a worker the job does not fit on.
FIFOTryFirst(taken, j, cluster) ==
    IF Min(DOMAIN cluster) \notin Fitting(j, cluster, taken)
    THEN taken ELSE PlaceOnFirst(j, cluster, taken)

FIFOPlace(taken, j, cluster) ==
    IF Fitting(j, cluster, taken) = {} THEN taken ELSE PlaceOnFirst(j, cluster, taken)

\* after[n]: what is handed out when the jobs up to number n had their turn.
FIFOSchedule(pending, cluster) ==
    LET last == Max(pending)
        after[n \in 0..last] ==
            IF n = 0 THEN NothingTaken(cluster)
            ELSE IF n \in pending THEN FIFOPlace(after[n - 1], n, cluster) ELSE after[n - 1]
    IN  after[last].plan

-----------------------------------------------------------------------------
(* GangScheduler: one worker if possible, else the GPUs of several workers *)

GangWorkers(j, cluster, taken) ==
    {w \in DOMAIN cluster : /\ cluster[w].healthy
                            /\ FreeCpus(w, cluster, taken) >= 1
                            /\ FreeRam(w, cluster, taken) >= 1
                            /\ Candidates(j, w, cluster, taken) # {}}

AtLeastOne(n) == IF n > 1 THEN n ELSE 1    \* max(1, n)

\* One worker gives what is still needed of its GPUs; the job's CPUs and RAM
\* are split evenly over all gang workers, the unused ones included.
GangShare(acc, j, w, workers, cluster) ==
    LET candidates == Candidates(j, w, cluster, acc.taken)
        count == Min({Cardinality(candidates), acc.needed})
        n == Cardinality(workers)
    IN  IF acc.needed = 0 THEN acc
        ELSE [needed |-> acc.needed - count,
              taken  |-> Take(j, w, Lowest(count, candidates),
                              AtLeastOne(Req[j].cpus \div n), AtLeastOne(Req[j].ram \div n),
                              acc.taken)]

\* The workers give in turn; shared[n]: when those up to number n have given.
GangShares(j, cluster, taken) ==
    LET workers == GangWorkers(j, cluster, taken)
        shared[n \in 0..Max(workers)] ==
            IF n = 0 THEN [needed |-> Req[j].gpus, taken |-> taken]
            ELSE IF n \in workers THEN GangShare(shared[n - 1], j, n, workers, cluster)
            ELSE shared[n - 1]
    IN  shared[Max(workers)].taken

\* The GPUs that all gang workers have together.
GangTotal(j, cluster, taken) ==
    SumFunction([w \in GangWorkers(j, cluster, taken) |->
                    Cardinality(Candidates(j, w, cluster, taken))])

\* Mutant: the GPUs are not counted first.
GangSpreadPartly(j, cluster, taken) ==
    IF Req[j].gpus = 0 \/ GangWorkers(j, cluster, taken) = {} THEN taken
    ELSE GangShares(j, cluster, taken)

GangSpread(j, cluster, taken) ==
    IF Req[j].gpus = 0 \/ GangTotal(j, cluster, taken) < Req[j].gpus THEN taken
    ELSE GangShares(j, cluster, taken)

GangPlace(taken, j, cluster) ==
    IF Fitting(j, cluster, taken) # {}
    THEN PlaceOnFirst(j, cluster, taken)
    ELSE GangSpread(j, cluster, taken)

\* The jobs come in the order of the queue: by priority, then by age.
GangSchedule(pendingJobs, cluster) ==
    FoldLeft(LAMBDA taken, j : GangPlace(taken, j, cluster),
             NothingTaken(cluster), pendingJobs).plan
=============================================================================
