--------------------------- MODULE JobQueueProofs ---------------------------
(***************************************************************************)
(* JobQueue keeps its rows in step with its table, and implements          *)
(* JobLifecycle, for every set of jobs, priorities and capacity.           *)
(*                                                                         *)
(* Inv is inductive.  RowsAgree is what a restart needs: the table that    *)
(* load_from_storage rebuilds is the one that was lost.                    *)
(***************************************************************************)
EXTENDS JobQueue, SetLemmas, TLAPS

\* What the methods do to the rows is visible to every proof below.
USE DEF SaveJob, DeleteJob, LoadAllJobs, NewStatuses, EnqueuedAs

Inv == TypeOK /\ RowsAgree

LEMMA StartsRight == Init => Inv
  BY DEF Init, Inv, TypeOK, RowsAgree, Known

\* The job that Dequeue takes out is gone from a smaller queue.
LEMMA DequeueKeeps == ASSUME Inv, Dequeue PROVE Inv'
  BY DEF Inv, Dequeue, TypeOK, RowsAgree, Known

LEMMA NextKeeps == ASSUME Inv, [Next]_vars PROVE Inv'
<1> USE DEF Inv, TypeOK, RowsAgree, Known
<1>1. ASSUME NEW j \in Jobs, NEW given \in NewStatuses, Enqueue(j, given) PROVE Inv'
  <2>1. status'[j] = "QUEUED" /\ "QUEUED" # Unknown
    BY <1>1, UnknownAssumption DEF Enqueue, Statuses
  <2>2. \A i \in Jobs : status[i] # Unknown => status'[i] # Unknown
    BY <1>1, <2>1 DEF Enqueue
  <2> QED BY <1>1, <2>1, <2>2 DEF Enqueue, Statuses
<1>2. CASE Dequeue
  BY <1>2, DequeueKeeps
<1>3. ASSUME NEW j \in Jobs, RemoveJob(j) PROVE Inv'
  BY <1>3 DEF RemoveJob
<1>4. ASSUME NEW j \in Jobs, NEW s \in Statuses, UpdateStatus(j, s) PROVE Inv'
  <2>1. \A i \in Jobs : status[i] # Unknown => status'[i] # Unknown
    BY <1>4, UnknownAssumption DEF UpdateStatus
  <2> QED BY <1>4, <2>1 DEF UpdateStatus
<1>5. CASE Restart
  <2>1. "QUEUED" # Unknown
    BY UnknownAssumption DEF Statuses
  <2> QED BY <1>5, <2>1 DEF Restart
<1>6. CASE UNCHANGED vars
  BY <1>6 DEF vars
<1> QED BY <1>1, <1>2, <1>3, <1>4, <1>5, <1>6 DEF Next

\* At any moment the rows are the table and every variable has its shape, for
\* every interleaving of the methods with restarts (queue.py, storage.py).
THEOREM Invariance == Spec => []Inv
  BY StartsRight, NextKeeps, PTL DEF Spec

\* Every variable keeps its shape, and _queue holds only jobs of _jobs: dequeue
\* and get_pending_jobs never look up a job that was removed.
THEOREM TypeCorrect == Spec => []TypeOK
  <1>1. Inv => TypeOK
    BY DEF Inv
  <1> QED BY <1>1, Invariance, PTL

\* The rows of table jobs are the table of jobs in memory.
THEOREM RowsAreTheTable == Spec => []RowsAgree
  <1>1. Inv => RowsAgree
    BY DEF Inv
  <1> QED BY <1>1, Invariance, PTL

-----------------------------------------------------------------------------
(* The order of the queue *)

\* Only finitely many jobs are known at any moment, however many there may be.
FewKnown == IsFiniteSet(Known)

LEMMA KnownStaysFinite == ASSUME Inv, FewKnown, [Next]_vars PROVE FewKnown'
<1>1. ASSUME NEW j \in Jobs, Known' \subseteq Known \cup {j} PROVE FewKnown'
  <2>1. IsFiniteSet(Known \cup {j})
    BY FS_AddElement DEF FewKnown
  <2>2. IsFiniteSet(Known')
    BY <1>1, <2>1, FS_Subset
  <2> QED BY <2>2 DEF FewKnown
<1>2. ASSUME Known' \subseteq Known PROVE FewKnown'
  <2>1. IsFiniteSet(Known')
    BY <1>2, FS_Subset DEF FewKnown
  <2> QED BY <2>1 DEF FewKnown
<1>3. ASSUME NEW j \in Jobs, NEW s, status' = [status EXCEPT ![j] = s] PROVE FewKnown'
  BY <1>1, <1>3 DEF Known, Inv, TypeOK
<1>4. CASE Restart \/ Dequeue \/ UNCHANGED vars
  BY <1>2, <1>4 DEF Restart, Dequeue, vars, Known, Inv, TypeOK, RowsAgree
<1> QED BY <1>3, <1>4 DEF Next, Enqueue, RemoveJob, UpdateStatus

\* The job table is finite, whatever has been enqueued, removed or reloaded, so
\* that the pending jobs have a first.
THEOREM AlwaysFewKnown == Spec => []FewKnown
<1>1. Init => FewKnown
  <2> SUFFICES ASSUME Init PROVE FewKnown
    OBVIOUS
  <2>1. Known = {}
    BY DEF Init, Known
  <2> QED BY <2>1, FS_EmptySet DEF FewKnown
<1>2. Inv /\ FewKnown /\ [Next]_vars => FewKnown'
  BY KnownStaysFinite
<1> QED BY <1>1, <1>2, Invariance, PTL DEF Spec

\* The head of the pending jobs is before all others.
LEMMA HeadIsFirst ==
    ASSUME Inv, FewKnown, Pending # {}
    PROVE  /\ Head(PendingJobs) \in Pending
           /\ \A i \in Pending \ {Head(PendingJobs)} : Before(Head(PendingJobs), i)
<1> DEFINE S == Pending
           R == {p \in S \X S : Before(p[1], p[2])}
           h == CHOOSE s \in S : Cardinality({r \in S : Before(r, s)}) = 0
<1>1. S \in SUBSET Known /\ S \in SUBSET Jobs
  BY DEF Pending, Inv, TypeOK, Known
<1>2. IsFiniteSet(S) /\ Cardinality(S) \in Nat \ {0}
  <2> HIDE DEF S
  <2>1. IsFiniteSet(S)
    BY <1>1, FS_Subset DEF FewKnown
  <2>2. S # {}
    BY DEF S
  <2> QED BY <2>1, <2>2, FS_EmptySet, FS_CardinalityType
<1>3. \A i, j \in S : <<i, j>> \in R <=> Before(i, j)
  OBVIOUS
<1>4. \A j \in S : j \in Nat /\ Priority[j] \in Nat
  BY <1>1, JobsAssumption
<1> HIDE DEF S
<1>5. IsOrder(R, S)
  BY <1>3, <1>4 DEF IsOrder, Before
<1>6. \A s \in S : Below(R, S, s) = {r \in S : Before(r, s)}
  BY <1>3 DEF Below
<1> HIDE DEF R
<1>7. \E s \in S : Cardinality(Below(R, S, s)) = 0
  <2>1. 0 \in 0..(Cardinality(S) - 1)
    BY <1>2
  <2> QED BY <1>2, <1>5, <2>1, Ranking
<1>8. h \in S /\ Cardinality({r \in S : Before(r, h)}) = 0
  BY <1>6, <1>7
<1>9. Head(PendingJobs) = h
  <2> DEFINE at(n) == CHOOSE s \in S : Cardinality({r \in S : Before(r, s)}) = n - 1
             last == Cardinality(S)
             all == {at(n) : n \in 1..last}
  <2>1. PendingJobs = [n \in 1..last |-> at(n)]
    BY DEF PendingJobs, InOrder, S
  <2>2. at(1) = h
    <3>1. 1 - 1 = 0
      OBVIOUS
    <3> QED BY <3>1, Zenon
  <2>3. last \in Nat \ {0}
    BY <1>2
  <2> HIDE DEF at, last
  <2>4. PendingJobs \in [1..last -> all] /\ PendingJobs[1] = at(1)
    BY <2>1, <2>3
  <2> HIDE DEF all
  <2>5. PendingJobs \in Seq(all) /\ Len(PendingJobs) = last
    BY <2>3, <2>4
  <2>6. PendingJobs # <<>>
    BY <2>3, <2>5
  <2>7. Head(PendingJobs) = PendingJobs[1]
    BY <2>5, <2>6
  <2> QED BY <2>2, <2>4, <2>7
<1> HIDE DEF h
<1>10. {r \in S : Before(r, h)} = {}
  <2> DEFINE T == {r \in S : Before(r, h)}
  <2>1. T \in SUBSET S
    OBVIOUS
  <2> HIDE DEF T
  <2>2. IsFiniteSet(T)
    BY <1>2, <2>1, FS_Subset
  <2> QED BY <1>8, <2>2, FS_EmptySet DEF T
<1>11. \A i \in S \ {h} : Before(h, i)
  BY <1>4, <1>8, <1>10 DEF Before
<1> QED BY <1>8, <1>9, <1>11 DEF S

\* dequeue hands out the first of the pending jobs, and nothing else drops a job
\* that waits: not an update, nor a restart, nor the removal of another job.
THEOREM InOrderHanded == Spec => HandedOutInOrder
<1> DEFINE Handed == \A j \in Pending \ queue' :
                        status'[j] = "QUEUED" => \A i \in Pending \ {j} : Before(j, i)
<1>1. Inv /\ FewKnown /\ [Next]_vars => [Handed]_vars
  <2> SUFFICES ASSUME Inv, FewKnown, Next, NEW j \in Pending, j \notin queue',
                      status'[j] = "QUEUED"
               PROVE  \A i \in Pending \ {j} : Before(j, i)
    OBVIOUS
  <2>1. j \in queue /\ j \in Jobs /\ status[j] = "QUEUED" /\ "QUEUED" # Unknown
    BY UnknownAssumption DEF Pending, Inv, TypeOK, Known, Statuses
  <2>2. CASE Dequeue
    <3>1. j = Head(PendingJobs)
      BY <2>1, <2>2 DEF Dequeue
    <3> QED BY <3>1, HeadIsFirst
  <2>3. CASE Restart
    BY <2>1, <2>3 DEF Restart, Inv, RowsAgree
  <2>4. ASSUME NEW i \in Jobs, RemoveJob(i) PROVE FALSE
    BY <2>1, <2>4 DEF RemoveJob, Inv, TypeOK
  <2>5. ASSUME NEW i \in Jobs, NEW given \in NewStatuses, Enqueue(i, given) PROVE FALSE
    BY <2>1, <2>5 DEF Enqueue
  <2>6. ASSUME NEW i \in Jobs, NEW s \in Statuses, UpdateStatus(i, s) PROVE FALSE
    BY <2>1, <2>6 DEF UpdateStatus
  <2> QED BY <2>2, <2>3, <2>4, <2>5, <2>6 DEF Next
<1> QED BY <1>1, Invariance, AlwaysFewKnown, PTL DEF Spec, HandedOutInOrder

-----------------------------------------------------------------------------
(* The refinement *)

\* The two modules name the same outcomes.
LEMMA SameOutcomes == Lifecycle!Outcomes = Terminal
  BY DEF Lifecycle!Outcomes, Terminal

LEMMA StageValues ==
    /\ Stage(Unknown) = "absent"
    /\ Stage("QUEUED") = "waiting"
    /\ \A s \in {"SCHEDULED", "RUNNING", "RECOVERING"} : Stage(s) = "active"
    /\ \A s \in Terminal : Stage(s) = s
  BY UnknownAssumption DEF Stage, Statuses, Terminal

\* A change of one job's status is a change of its stage alone.
LEMMA StageUpdate ==
    ASSUME TypeOK, NEW j \in Jobs, NEW s,
           status' = [status EXCEPT ![j] = s]
    PROVE  /\ StageOf[j] = Stage(status[j])
           /\ StageOf' = [StageOf EXCEPT ![j] = Stage(s)]
<1>1. \A i \in Jobs : status'[i] = IF i = j THEN s ELSE status[i]
  BY DEF TypeOK
<1>2. StageOf' = [i \in Jobs |-> Stage(status'[i])]
  BY DEF StageOf
<1>3. StageOf = [i \in Jobs |-> Stage(status[i])]
  BY DEF StageOf
<1>4. \A i \in Jobs : Stage(status'[i]) = IF i = j THEN Stage(s) ELSE Stage(status[i])
  BY <1>1
<1> QED BY <1>2, <1>3, <1>4

\* What update_job_status may do is a move of the job's life, or none.
LEMMA UpdateRefines ==
    ASSUME Inv, NEW j \in Jobs, NEW s \in Statuses, UpdateStatus(j, s)
    PROVE  [Lifecycle!Next]_StageOf
<1>1. status' = [status EXCEPT ![j] = s] /\ TypeOK
  BY DEF UpdateStatus, Inv
<1>2. StageOf[j] = Stage(status[j]) /\ StageOf' = [StageOf EXCEPT ![j] = Stage(s)]
  BY <1>1, StageUpdate
<1>3. CASE Stage(s) = Stage(status[j])
  <2>1. StageOf' = StageOf
    BY <1>2, <1>3 DEF StageOf
  <2> QED BY <2>1
<1>4. CASE s = "QUEUED" /\ Stage(status[j]) = "active"
  BY <1>2, <1>4, StageValues DEF Lifecycle!Next, Lifecycle!PutBack, Lifecycle!Move
<1>5. CASE Stage(s) = "active" /\ status[j] = "QUEUED"
  BY <1>2, <1>5, StageValues DEF Lifecycle!Next, Lifecycle!Start, Lifecycle!Move
<1>6. CASE s \in Terminal /\ Stage(status[j]) = "active"
  BY <1>2, <1>6, StageValues, SameOutcomes
     DEF Lifecycle!Next, Lifecycle!End, Lifecycle!Move
<1>7. CASE s \in Terminal \ {"COMPLETED"} /\ status[j] = "QUEUED"
  BY <1>2, <1>7, StageValues, SameOutcomes
     DEF Lifecycle!Next, Lifecycle!End, Lifecycle!Move
<1>8. \/ s = status[j]
      \/ s \in ValidTransitions(status[j])
  BY DEF UpdateStatus, MayBecome
<1>9. status[j] \in Statuses
  BY DEF UpdateStatus, MayBecome, Known, Inv, TypeOK
<1> QED
  BY <1>3, <1>4, <1>5, <1>6, <1>7, <1>8, <1>9, StageValues
     DEF ValidTransitions, Statuses, Terminal

LEMMA StepRefines == ASSUME Inv, [Next]_vars PROVE [Lifecycle!Next]_StageOf
<1>1. ASSUME NEW j \in Jobs, NEW given \in NewStatuses, Enqueue(j, given) PROVE Lifecycle!Next
  <2>1. TypeOK /\ status' = [status EXCEPT ![j] = "QUEUED"] /\ status[j] = Unknown
    BY <1>1 DEF Enqueue, Inv
  <2>2. StageOf[j] = Stage(status[j]) /\ StageOf' = [StageOf EXCEPT ![j] = Stage("QUEUED")]
    BY <2>1, StageUpdate
  <2> QED
    BY <2>1, <2>2, StageValues DEF Lifecycle!Next, Lifecycle!Admit, Lifecycle!Move
<1>2. CASE Dequeue
  BY <1>2 DEF Dequeue, StageOf
<1>3. ASSUME NEW j \in Jobs, RemoveJob(j) PROVE Lifecycle!Next
  <2>1. TypeOK /\ status' = [status EXCEPT ![j] = Unknown] /\ status[j] # Unknown
    BY <1>3 DEF RemoveJob, Inv
  <2>2. StageOf[j] = Stage(status[j]) /\ StageOf' = [StageOf EXCEPT ![j] = Stage(Unknown)]
    BY <2>1, StageUpdate
  <2>3. Stage(status[j]) # "absent"
    BY <2>1, StageValues DEF TypeOK, Statuses, Terminal
  <2> QED BY <2>2, <2>3, StageValues DEF Lifecycle!Next, Lifecycle!Forget
<1>4. ASSUME NEW j \in Jobs, NEW s \in Statuses, UpdateStatus(j, s)
      PROVE  [Lifecycle!Next]_StageOf
  BY <1>4, UpdateRefines
<1>5. CASE Restart
  BY <1>5 DEF Restart, Inv, RowsAgree, StageOf
<1>6. CASE UNCHANGED vars
  BY <1>6 DEF vars, StageOf
<1> QED BY <1>1, <1>2, <1>3, <1>4, <1>5, <1>6 DEF Next

\* The queue implements JobLifecycle: no order of updates, and no restart,
\* revives a job that ended or completes one that was not started.
THEOREM ImplementsLifecycle == Spec => LifecycleSpec
<1>1. Init => Lifecycle!Init
  BY StageValues DEF Init, StageOf, Lifecycle!Init
<1>2. Inv /\ [Next]_vars => [Lifecycle!Next]_StageOf
  BY StepRefines
<1> QED BY <1>1, <1>2, Invariance, PTL DEF Spec, LifecycleSpec, Lifecycle!Spec
=============================================================================
