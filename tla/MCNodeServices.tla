--------------------------- MODULE MCNodeServices ---------------------------
(***************************************************************************)
(* NodeServices for TLC.                                                   *)
(***************************************************************************)
EXTENDS NodeServices

\* The second GPU has no bus id.
Indexes == [g0 |-> 0, g1 |-> 1, g2 |-> 2]
BusIds  == [g0 |-> 100, g1 |-> NoBusId, g2 |-> 102]

GpuIds == {"g0", "g1", "g2"}

\* One GPU with a bus id, one without, and a CPU.
OneContainer ==
    {[devices |-> {[type |-> "gpu", bus |-> 100, id |-> 0], [type |-> "gpu", bus |-> NoPcieBusId, id |-> 1],
                   [type |-> "cpu", bus |-> NoPcieBusId, id |-> 2]},
      cpus |-> 1, memory |-> 0]}
=============================================================================
