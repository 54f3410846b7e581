------------------------- MODULE MCResourceManager -------------------------
(***************************************************************************)
(* ResourceManager for TLC.                                                *)
(***************************************************************************)
EXTENDS ResourceManager, TLC

\* Every worker has all the devices, which share their ids across workers.
AllDevices == {[devices |-> Devices, healthy |-> TRUE]}

Symmetry == Permutations(Jobs) \cup Permutations(Workers) \cup Permutations(Devices)
            \cup Permutations(AllocIds)
=============================================================================
