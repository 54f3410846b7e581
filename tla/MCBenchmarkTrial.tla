-------------------------- MODULE MCBenchmarkTrial --------------------------
(***************************************************************************)
(* BenchmarkTrial for TLC.                                                 *)
(***************************************************************************)
EXTENDS BenchmarkTrial

FourJobs ==
    <<[gpus |-> 1, vram |-> 8, cpus |-> 1, ram |-> 1],
      [gpus |-> 2, vram |-> 0, cpus |-> 2, ram |-> 2],
      [gpus |-> 0, vram |-> 0, cpus |-> 1, ram |-> 4],
      [gpus |-> 3, vram |-> 4, cpus |-> 3, ram |-> 3]>>

Priorities == <<0, 2, 1, 1>>

\* The first job has waited long enough to make up for one step of priority, not two.
SubmissionTimes == <<0, 6, 11, 12>>

Tag(nvlink, bus, numa) == [nvlink |-> nvlink, bus |-> bus, numa |-> numa]

OneLarge == [healthy |-> TRUE, devices |-> {1}, free |-> <<24>>, tags |-> <<Tag(0, 0, 0)>>,
             cpus |-> 1, ram |-> 6]
Linked   == [healthy |-> TRUE, devices |-> 1..2, free |-> <<8, 8>>,
             tags |-> <<Tag(1, 1, 1), Tag(1, 2, 1)>>, cpus |-> 4, ram |-> 8]
Mixed    == [healthy |-> TRUE, devices |-> 1..3, free |-> <<8, 4, 16>>,
             tags |-> <<Tag(0, 1, 1), Tag(0, 2, 2), Tag(0, 2, 0)>>, cpus |-> 4, ram |-> 5]
Thin     == [Linked EXCEPT !.cpus = 1, !.ram = 1, !.tags = <<Tag(0, 0, 1), Tag(0, 0, 2)>>]
Sick     == [Linked EXCEPT !.healthy = FALSE]

TwoWorkers == [1..2 -> {OneLarge, Linked, Mixed, Thin, Sick}]

\* Small: the last job fits nowhere unless it is spread.  Large: all jobs fit.
TrialFleets == {<<Linked, Thin>>, <<Thin, Mixed>>}

\* ArrivalFairness and ThrottledWhenFull: the first job takes nearly all the
\* memory, the second waits for two GPUs, the third needs little.
LargeBeforeSmall ==
    <<[gpus |-> 1, vram |-> 19, cpus |-> 1, ram |-> 1],
      [gpus |-> 2, vram |-> 1, cpus |-> 1, ram |-> 1],
      [gpus |-> 1, vram |-> 1, cpus |-> 1, ram |-> 1]>>

NoPriorities == <<0, 0, 0>>

InOrderOfArrival == <<0, 1, 2>>

Lopsided == [Linked EXCEPT !.free = <<19, 1>>]

LopsidedFleet == {<<Lopsided>>}
=============================================================================
