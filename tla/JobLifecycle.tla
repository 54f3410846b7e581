---------------------------- MODULE JobLifecycle ----------------------------
(***************************************************************************)
(* The life of a job as its owner sees it: it waits, it is worked on, it   *)
(* may be put back to wait, and it ends once, with one outcome.  Restarts  *)
(* of the control plane do not show here, and neither do the order in      *)
(* which jobs are served nor the steps by which a job is set to work.      *)
(***************************************************************************)

CONSTANT Jobs   \* the job ids

VARIABLE stage  \* stage[j]: where job j is in its life

Outcomes == {"COMPLETED", "FAILED", "CANCELLED"}

StageTypeOK == stage \in [Jobs -> {"absent", "waiting", "active"} \cup Outcomes]

Init == stage = [j \in Jobs |-> "absent"]

Move(j, from, to) == stage[j] = from /\ stage' = [stage EXCEPT ![j] = to]

Admit(j) == Move(j, "absent", "waiting")

Start(j) == Move(j, "waiting", "active")

PutBack(j) == Move(j, "active", "waiting")

\* Nothing completes without having been worked on.
End(j, outcome) ==
    \/ Move(j, "active", outcome)
    \/ outcome # "COMPLETED" /\ Move(j, "waiting", outcome)

Forget(j) ==
    /\ stage[j] # "absent"
    /\ stage' = [stage EXCEPT ![j] = "absent"]

Next ==
    \E j \in Jobs :
        \/ Admit(j) \/ Start(j) \/ PutBack(j) \/ Forget(j)
        \/ \E outcome \in Outcomes : End(j, outcome)

Spec == Init /\ [][Next]_stage
=============================================================================
