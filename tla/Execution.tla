------------------------------ MODULE Execution ------------------------------
(***************************************************************************)
(* The NativeProcessBackend with its orphan sweeper, and the               *)
(* DistributedBackend, on the processes of one machine.  Each backend has  *)
(* a lock of its own; the sweeper holds the native one only while it takes *)
(* its snapshot, and the workloads hold none.                              *)
(***************************************************************************)
EXTENDS Naturals, Sequences, FiniteSets, SequencesExt

CONSTANTS
    MaxPid,       \* bound on the processes ever started; pids are not reused
    MaxRestarts,  \* bound on the restarts of the server
    WorldSize,    \* world_size: the ranks of a distributed job
    Init1,        \* the process with pid 1
    Server        \* the process the backends live in

ASSUME ExecutionAssumption ==
    /\ MaxPid \in Nat /\ MaxRestarts \in Nat
    /\ WorldSize \in Nat \ {0}
    /\ Init1 # Server
    /\ Init1 \notin Nat /\ Server \notin Nat

VARIABLES
    procs,      \* procs[p]: status, parent and session leader of process p
    handles,    \* _processes and _records: backend, root processes, completed_status
    launching,  \* the ranks spawned by the DistributedBackend.launch under way
    stopping,   \* the handles stop holds the native lock for, and their trees
    sweep,      \* where sweep_orphan_processes is
    active,     \* active_pids
    orphans,    \* orphan_pids not yet terminated
    born,       \* (history) the processes there were when the sweep began
    restarts    \* (bound)

backends == <<handles, launching, stopping>>

sweeper == <<sweep, active, orphans, born>>

vars == <<procs, backends, sweeper, restarts>>

-----------------------------------------------------------------------------
(* The operating system *)

Ends == {"ok", "error", "killed"}    \* exit code 0, another one, SIGTERM or SIGKILL

Alive == {p \in DOMAIN procs : procs[p].status = "running"}

Process(parent, leader) == [status |-> "running", parent |-> parent, leader |-> leader]

NextPid == Len(procs) + 1

\* The processes in S end; their children are left to pid 1.  How one ended is
\* kept for the children of the server: nobody asks for others.
Ended(S, how) ==
    [p \in DOMAIN procs |->
        [procs[p] EXCEPT
            !.status = IF p \notin S \/ @ # "running" THEN @
                       ELSE IF procs[p].parent = Server THEN how ELSE "gone",
            !.parent = IF p \in S \/ @ \in S THEN Init1 ELSE @]]

\* The live processes of the session that leader started (os.killpg).
Session(leader) == {p \in Alive : procs[p].leader = leader}

\* The processes that started process q, and those that started them, as far as
\* they live.
Ancestors[q \in DOMAIN procs] ==
    LET parent == procs[q].parent
    IN  IF parent \in DOMAIN procs THEN {parent} \cup Ancestors[parent] ELSE {}

\* children(recursive=True)
Descendants(p) == {q \in Alive : p \in Ancestors[q]}

\* Mutant: the children alone.
ChildrenOnly(p) == Descendants(p)

\* children(recursive=True) + [parent]; nothing if p is gone.
Tree(p) == Descendants(p) \cup ({p} \cap Alive)

\* A workload starts a process; environment and session are inherited.
Fork(p) ==
    /\ p \in Alive
    /\ NextPid <= MaxPid
    /\ procs' = Append(procs, Process(p, procs[p].leader))
    /\ UNCHANGED <<backends, sweeper, restarts>>

\* A process ends by itself, or the kernel ends it.
Exit(p) ==
    /\ p \in Alive
    /\ \E how \in Ends : procs' = Ended({p}, how)
    /\ UNCHANGED <<backends, sweeper, restarts>>

-----------------------------------------------------------------------------
(* NativeProcessBackend *)

Of(backend) == {h \in DOMAIN handles : handles[h].backend = backend}

Root(h) == Head(handles[h].roots)

NativeLockFree == stopping = {}

Handle(backend, roots) == [backend |-> backend, roots |-> roots, outcome |-> "RUNNING"]

LaunchNative ==
    /\ NativeLockFree
    /\ NextPid <= MaxPid
    /\ procs' = Append(procs, Process(Server, NextPid))
    /\ handles' = Append(handles, Handle("native", <<NextPid>>))
    /\ UNCHANGED <<launching, stopping, sweeper, restarts>>

NativeOutcome(how) ==
    CASE how = "running" -> "RUNNING"
      [] how = "ok"      -> "COMPLETED"
      [] how = "error"   -> "FAILED"
      [] how = "killed"  -> "CANCELLED"

\* get_status, and stop when the process has ended: completed_status is set once.
GetStatusNative(h) ==
    /\ h \in Of("native")
    /\ NativeLockFree
    /\ handles[h].outcome = "RUNNING"
    /\ handles' = [handles EXCEPT ![h].outcome = NativeOutcome(procs[Root(h)].status)]
    /\ UNCHANGED <<procs, launching, stopping, sweeper, restarts>>

\* stop lists the tree of a process that runs,
StopBegin(h) ==
    /\ h \in Of("native")
    /\ NativeLockFree
    /\ Root(h) \in Alive
    /\ stopping' = {[handle |-> h, tree |-> Tree(Root(h))]}
    /\ UNCHANGED <<procs, handles, launching, sweeper, restarts>>

\* and terminates what it has listed.
StopKill ==
    \E s \in stopping :
        /\ stopping' = {}
        /\ procs' = Ended(s.tree, "killed")
        /\ handles' = [handles EXCEPT ![s.handle].outcome = "CANCELLED"]
        /\ UNCHANGED <<launching, sweeper, restarts>>

-----------------------------------------------------------------------------
(* DistributedBackend *)

Ranks == ToSet(launching)

LaunchRank ==
    /\ Len(launching) < WorldSize
    /\ NextPid <= MaxPid
    /\ procs' = Append(procs, Process(Server, NextPid))
    /\ launching' = Append(launching, NextPid)
    /\ UNCHANGED <<handles, stopping, sweeper, restarts>>

\* Popen raises for the next rank: the ranks before it are killed, launch raises.
LaunchRankFails ==
    /\ launching # <<>> /\ Len(launching) < WorldSize
    /\ procs' = Ended(UNION {Session(r) : r \in Ranks}, "killed")
    /\ launching' = <<>>
    /\ UNCHANGED <<handles, stopping, sweeper, restarts>>

\* Mutant: one rank too few.
LaunchDoneEarly ==
    /\ launching # <<>>
    /\ handles' = Append(handles, Handle("distributed", launching))
    /\ launching' = <<>>
    /\ UNCHANGED <<procs, stopping, sweeper, restarts>>

LaunchDone ==
    /\ Len(launching) = WorldSize
    /\ handles' = Append(handles, Handle("distributed", launching))
    /\ launching' = <<>>
    /\ UNCHANGED <<procs, stopping, sweeper, restarts>>

\* Mutant: the job is complete with its first rank.
AnyRankOutcome(ends) ==
    IF ends \cap {"error", "killed"} # {} THEN "FAILED"
    ELSE IF "ok" \in ends THEN "COMPLETED" ELSE "RUNNING"

RanksOutcome(ends) ==
    IF ends \cap {"error", "killed"} # {} THEN "FAILED"
    ELSE IF ends = {"ok"} THEN "COMPLETED" ELSE "RUNNING"

\* One rank that has failed is enough; the others go on.
GetStatusRanks(h) ==
    /\ h \in Of("distributed")
    /\ launching = <<>>
    /\ handles[h].outcome = "RUNNING"
    /\ handles' = [handles EXCEPT ![h].outcome =
                       RanksOutcome({procs[r].status : r \in ToSet(handles[h].roots)})]
    /\ UNCHANGED <<procs, launching, stopping, sweeper, restarts>>

Running(h) == ToSet(handles[h].roots) \cap Alive

Reached(h) == UNION {Session(r) : r \in Running(h)}

\* The sessions of the ranks that run get SIGTERM, and those whose rank lasts two
\* seconds more SIGKILL: what ignores the first and outlives its rank is spared.
\* CANCELLED replaces any outcome.
StopRanks(h) ==
    /\ h \in Of("distributed")
    /\ launching = <<>>
    /\ \E spared \in SUBSET (Reached(h) \ Running(h)) :
          procs' = Ended(Reached(h) \ spared, "killed")
    /\ handles' = [handles EXCEPT ![h].outcome = "CANCELLED"]
    /\ UNCHANGED <<launching, stopping, sweeper, restarts>>

-----------------------------------------------------------------------------
(* sweep_orphan_processes *)

\* The processes of the native handles that run.
ManagedTrees ==
    UNION {Tree(Root(h)) : h \in {n \in Of("native") : handles[n].outcome = "RUNNING"}}

\* get_active_process_pids, under the lock.
SweepBegin ==
    /\ sweep = "idle"
    /\ NativeLockFree
    /\ sweep' = "scan"
    /\ active' = ManagedTrees
    /\ born' = DOMAIN procs
    /\ UNCHANGED <<procs, backends, orphans, restarts>>

\* Mutant: the snapshot is asked about the parents only.
OrphansByParent == {p \in Alive : procs[p].parent \notin active}

\* Tagged processes that are not active, nor children of active ones; workloads
\* inherit the tag.
Orphans == {p \in Alive \ active : procs[p].parent \notin active}

\* The process table, and after it the processes on the GPUs, whoever their
\* parents are; any may be on one.
SweepScan ==
    /\ sweep = "scan"
    /\ sweep' = "kill" /\ active' = {}      \* it is not looked at again
    /\ \E onGpu \in SUBSET (Alive \ active) : orphans' = Orphans \cup onGpu
    /\ UNCHANGED <<procs, backends, born, restarts>>

\* terminate_process_tree of the next orphan, with what descends from it by now.
SweepKill(p) ==
    /\ sweep = "kill"
    /\ p \in orphans
    /\ orphans' = orphans \ {p}
    /\ procs' = Ended(Tree(p), "killed")
    /\ UNCHANGED <<backends, sweep, active, born, restarts>>

SweepEnd ==
    /\ sweep = "kill" /\ orphans = {}
    /\ sweep' = "idle" /\ born' = {}
    /\ UNCHANGED <<procs, backends, active, orphans, restarts>>

-----------------------------------------------------------------------------

\* The server dies, its processes do not; its successor has no handles.
Restart ==
    /\ restarts < MaxRestarts
    /\ restarts' = restarts + 1
    /\ procs' = [p \in DOMAIN procs |->
                    [procs[p] EXCEPT !.status = IF @ = "running" THEN @ ELSE "gone",
                                     !.parent = IF @ = Server THEN Init1 ELSE @]]
    /\ handles' = <<>> /\ launching' = <<>> /\ stopping' = {}
    /\ sweep' = "idle" /\ active' = {} /\ orphans' = {} /\ born' = {}

Init ==
    /\ procs = <<>>
    /\ handles = <<>> /\ launching = <<>> /\ stopping = {}
    /\ sweep = "idle" /\ active = {} /\ orphans = {} /\ born = {}
    /\ restarts = 0

Sweep ==
    \/ SweepBegin \/ SweepScan \/ SweepEnd
    \/ \E p \in 1..MaxPid : SweepKill(p)

Next ==
    \/ \E p \in 1..MaxPid : Fork(p) \/ Exit(p)
    \/ \E h \in DOMAIN handles : \/ GetStatusNative(h) \/ StopBegin(h)
                                 \/ GetStatusRanks(h) \/ StopRanks(h)
    \/ LaunchNative \/ StopKill
    \/ LaunchRank \/ LaunchRankFails \/ LaunchDone
    \/ Sweep
    \/ Restart

Spec == Init /\ [][Next]_vars

\* The sweeper's loop goes on, and a stop that has begun ends.
FairSpec == Spec /\ WF_vars(Sweep) /\ WF_vars(StopKill)

-----------------------------------------------------------------------------
(* Properties *)

Pids == 1..MaxPid

TypeOK ==
    /\ DOMAIN procs \subseteq Pids
    /\ \A p \in DOMAIN procs :
          /\ procs[p].status \in Ends \cup {"running", "gone"}
          /\ procs[p].parent \in Pids \cup {Init1, Server}
          /\ procs[p].leader \in 1..p
    /\ \A h \in DOMAIN handles :
          /\ handles[h].outcome \in {"RUNNING", "COMPLETED", "FAILED", "CANCELLED"}
          /\ ToSet(handles[h].roots) \subseteq DOMAIN procs
          /\ Len(handles[h].roots) = IF handles[h].backend = "native" THEN 1 ELSE WorldSize
    /\ Ranks \subseteq DOMAIN procs
    /\ \A s \in stopping : s.handle \in Of("native") /\ s.tree \subseteq DOMAIN procs
    /\ sweep \in {"idle", "scan", "kill"}
    /\ active \cup orphans \cup born \subseteq DOMAIN procs
    /\ restarts \in 0..MaxRestarts

\* Whoever reports a job as ended gives its devices to the next one: no root
\* process of such a handle runs.  The one exception is a distributed job of which
\* a rank failed (distributed.py:200): the other ranks run on.
EndedIsDead ==
    \A h \in DOMAIN handles :
        handles[h].outcome # "RUNNING" =>
            \/ ToSet(handles[h].roots) \cap Alive = {}
            \/ handles[h].backend = "distributed" /\ handles[h].outcome = "FAILED"

\* What get_status says of a job agrees with how its processes ended, whatever
\* stop, the sweeper and the kernel did to them in the meantime.
OutcomeIsTrue ==
    \A h \in DOMAIN handles :
        LET ends == {procs[r].status : r \in ToSet(handles[h].roots)}
        IN  /\ handles[h].outcome = "COMPLETED" => ends = {"ok"}
            /\ handles[h].outcome = "FAILED" =>
                  \/ "error" \in ends
                  \/ "killed" \in ends /\ handles[h].backend = "distributed"

\* The sweeper, whose snapshot is old when it kills, spares the processes of the
\* native jobs that run and were there when it took it: launches, forks, exits and
\* stops since then do not mislead it.
SweepSparesJobs ==
    [][(sweep' = "kill" /\ orphans' # orphans) =>
          \A p \in born \cap ManagedTrees : procs'[p].status = "running"]_vars

\* The leader of p's session has ended, or no handle knows it: the server that
\* started it is gone.  The ranks that run on when their job has FAILED still have
\* themselves as leaders and a handle, and are no strays.
Stray(p) ==
    /\ p \in Alive
    /\ \/ procs[p].leader \notin Alive
       \/ /\ procs[p].leader \notin Ranks
          /\ \A h \in DOMAIN handles : procs[p].leader \notin ToSet(handles[h].roots)

\* No process is a stray for ever: what outlives the root of its job, when that
\* ends or is stopped, because it slipped through terminate_process_tree or ignored
\* a signal, and the processes of a dead server, are terminated by the sweeper in
\* the end.
StraysAreSwept == \A p \in Pids : []<>~Stray(p)
=============================================================================
