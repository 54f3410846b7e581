----------------------------- MODULE Diagnostics -----------------------------
(***************************************************************************)
(* DiagnosticAnalyzer.analyze_job: what the diagnosis of a job says, its   *)
(* health score, as a function of the job, of the registered workers and   *)
(* of the devices the ResourceManager calls available.                     *)
(*                                                                         *)
(* A job is a record: known, status, worker (NoWorker without an           *)
(* allocation), req.  A device is a record: gpu, total (memory).           *)
(***************************************************************************)
EXTENDS Integers, FiniteSets, FiniteSetsExt, Functions

CONSTANTS
    NoWorker    \* allocation = None

\* What each finding takes off the health score.
Penalties == [JobNotFound        |-> 100, ExecutionFailed |-> 50,
              NoAvailableGPU     |-> 30,  VramExceeded    |-> 40,
              CpuExceeded        |-> 30,  WorkerDegraded  |-> 30,
              Healthy            |-> 0]

Gpus(available) == {d \in available : d.gpu}

\* Mutant: a job that needs all of the largest GPU is said to exceed it.
VramPressureAtLimit(req, available) ==
    /\ req.vram > 0
    /\ Gpus(available) # {}
    /\ req.vram >= Max({d.total : d \in Gpus(available)})

\* The memory of the largest device is asked for only if there is one.
VramPressure(req, available) ==
    /\ req.vram > 0
    /\ Gpus(available) # {}
    /\ req.vram > Max({d.total : d \in Gpus(available)})

\* A queue bottleneck; without workers nothing is said about the CPUs.
Bottlenecks(req, workers, available) ==
    LET cpus == SumFunction([w \in DOMAIN workers |-> workers[w].cpus])
    IN  {f \in {"NoAvailableGPU", "VramExceeded", "CpuExceeded"} :
            CASE f = "NoAvailableGPU" -> req.gpus > 0 /\ Gpus(available) = {}
              [] f = "VramExceeded"   -> VramPressure(req, available)
              [] f = "CpuExceeded"    -> cpus > 0 /\ req.cpus > cpus}

Findings(job, workers, available) ==
    LET found == {f \in {"ExecutionFailed"} : job.status = "FAILED"}
                 \cup (IF job.status = "QUEUED" THEN Bottlenecks(job.req, workers, available) ELSE {})
                 \cup {f \in {"WorkerDegraded"} : /\ job.worker \in DOMAIN workers
                                                  /\ ~workers[job.worker].healthy}
    IN  CASE ~job.known -> {"JobNotFound"}
          [] found = {} -> {"Healthy"}
          [] OTHER      -> found

\* analyze_job
AnalyzeJob(job, workers, available) ==
    LET findings == Findings(job, workers, available)
        lost     == MapThenSumSet(LAMBDA f : Penalties[f], findings)
    IN  [findings |-> findings, score |-> Max({0, 100 - lost})]
=============================================================================
