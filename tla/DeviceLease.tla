---------------------------- MODULE DeviceLease ----------------------------
(***************************************************************************)
(* What DRIGS promises about devices, independently of how it keeps its    *)
(* books: a job holds at most one lease, a lease is taken and given back   *)
(* as a whole, and a device is never in the leases of two jobs.  Crashes,  *)
(* restarts, worker registrations and health reports do not show here: a   *)
(* lease only changes when its job acquires or releases it.                *)
(***************************************************************************)

CONSTANTS
    Jobs,       \* the job ids
    Keys,       \* the devices of the cluster (worker:device keys in the code)
    NoLease     \* the lease of a job that holds nothing

VARIABLE lease  \* lease[j]: the devices that job j holds, or NoLease

LeaseTypeOK == lease \in [Jobs -> {NoLease} \cup SUBSET Keys]

Holds(j) == lease[j] # NoLease

Init == lease = [j \in Jobs |-> NoLease]

\* All the devices of K at once, and only when no other job holds one of them.
Acquire(j, K) ==
    /\ ~Holds(j)
    /\ \A i \in Jobs : Holds(i) => lease[i] \cap K = {}
    /\ lease' = [lease EXCEPT ![j] = K]

Release(j) ==
    /\ Holds(j)
    /\ lease' = [lease EXCEPT ![j] = NoLease]

Next == \E j \in Jobs : Release(j) \/ \E K \in SUBSET Keys : Acquire(j, K)

Spec == Init /\ [][Next]_lease

\* No device is leased to two jobs (the promise behind allocate_resources).
LeaseExclusive ==
    \A i, j \in Jobs : i # j /\ Holds(i) /\ Holds(j) => lease[i] \cap lease[j] = {}
=============================================================================
