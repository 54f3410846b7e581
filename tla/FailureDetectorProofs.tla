----------------------- MODULE FailureDetectorProofs -----------------------
(***************************************************************************)
(* FailureDetector calls the rescheduler at most once for a job, for every *)
(* set of jobs and workers and any number of restarts.                     *)
(*                                                                         *)
(* That at most one call was made does not survive a step by itself: what  *)
(* makes the next check pass over a job is its entry in _failed_jobs.      *)
(***************************************************************************)
EXTENDS FailureDetector, TLAPS

\* A job that the rescheduler was called for is entered as failed, and stays so
\* until the process ends, which forgets both.
Inv ==
    /\ calls \in [Jobs -> Nat]
    /\ failedJobs \subseteq Jobs
    /\ \A j \in Jobs : calls[j] = 0 \/ (calls[j] = 1 /\ j \in failedJobs)

LEMMA StartsRight == Init => Inv
  BY DEF Init, Inv

\* Whom check_failures calls the rescheduler for was not entered as failed, and
\* is from then on: the jobs of failed workers are entered before the others are
\* polled.
LEMMA CalledIsEntered ==
    ASSUME NEW raised \in SUBSET Tracked, CheckFailures(raised)
    PROVE  \E called \in SUBSET (Jobs \ failedJobs) :
              CountCalls(called) /\ failedJobs \cup called \subseteq failedJobs' /\ failedJobs' \subseteq failedJobs \cup Jobs
<1> DEFINE lost == LostJobs(failedWorkers')
           called == lost \cup (CrashedJobs(lost) \ raised)
<1>1. /\ failedJobs' = failedJobs \cup lost \cup CrashedJobs(lost) \cup raised
      /\ CountCalls(called)
  BY DEF CheckFailures
<1>2. called \subseteq Jobs \ failedJobs /\ lost \cup CrashedJobs(lost) \cup raised \subseteq Jobs
  BY DEF LostJobs, CrashedJobs, Tracked
<1> HIDE DEF lost, called
<1>3. called \subseteq lost \cup CrashedJobs(lost)
  BY DEF called
<1> QED BY <1>1, <1>2, <1>3

LEMMA NextKeeps == ASSUME Inv, [Next]_vars PROVE Inv'
<1> USE DEF Inv
<1>1. ASSUME NEW raised \in SUBSET Tracked, CheckFailures(raised) PROVE Inv'
  <2>1. PICK called \in SUBSET (Jobs \ failedJobs) :
           /\ CountCalls(called) /\ failedJobs \cup called \subseteq failedJobs'
           /\ failedJobs' \subseteq failedJobs \cup Jobs
    BY <1>1, CalledIsEntered
  <2> QED BY <2>1 DEF CountCalls, MaxCalls
<1>2. CASE Restart
  BY <1>2 DEF Restart
<1>3. CASE UNCHANGED <<failedJobs, calls>>
  BY <1>3
<1> QED
  BY <1>1, <1>2, <1>3
     DEF Next, vars, detectorVars, TrackJob, UntrackJob, ProcessEnds, RegistryCall

\* The rescheduler is called at most once for a job by one process, although a job
\* may be lost with its worker and crash at the same time, be tracked again, and
\* its worker come and go.
THEOREM CalledOnce == Spec => []RecoveredOnce
<1>1. Inv => RecoveredOnce
  BY DEF Inv, RecoveredOnce
<1> QED BY <1>1, StartsRight, NextKeeps, PTL DEF Spec
=============================================================================
