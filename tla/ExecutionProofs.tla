--------------------------- MODULE ExecutionProofs ---------------------------
(***************************************************************************)
(* What the NativeProcessBackend and the DistributedBackend say of a job   *)
(* is true of its processes, for any number of processes, ranks and        *)
(* restarts, whatever the sweeper and the kernel do beside them.           *)
(*                                                                         *)
(* The invariant follows a root process from its start: as long as it runs *)
(* it is a child of the server and leads its own session, so that its end  *)
(* is reported to the backend and a stop reaches it.  What the sweeper     *)
(* spares follows from the families: a process is younger than those it    *)
(* descends from, and gets no new ones.                                    *)
(***************************************************************************)
EXTENDS Execution, SetLemmas

ProcType ==
    [status : Ends \cup {"running", "gone"}, parent : Pids \cup {Init1, Server}, leader : Pids]

HandleType ==
    [backend : {"native", "distributed"}, roots : Seq(Pids),
     outcome : {"RUNNING", "COMPLETED", "FAILED", "CANCELLED"}]

ProcsInv ==
    /\ procs \in Seq(ProcType) /\ Len(procs) <= MaxPid
    /\ \A p \in DOMAIN procs : procs[p].leader <= p

\* A process that a backend of this server has started.
Rooted(r) ==
    /\ r \in DOMAIN procs /\ procs[r].leader = r
    /\ procs[r].status # "gone"
    /\ procs[r].status = "running" => procs[r].parent = Server

Roots(h) == ToSet(handles[h].roots)

\* The outcome of a handle is true of its root processes.
Truthful(h) ==
    LET hd == handles[h]
    IN  /\ hd.outcome \in {"COMPLETED", "CANCELLED"} => \A r \in Roots(h) : procs[r].status # "running"
        /\ hd.outcome = "COMPLETED" => \A r \in Roots(h) : procs[r].status = "ok"
        /\ hd.outcome = "FAILED" =>
              \E r \in Roots(h) : \/ procs[r].status = "error"
                                  \/ procs[r].status = "killed" /\ hd.backend = "distributed"

HandleInv(h) ==
    /\ Len(handles[h].roots) = IF handles[h].backend = "native" THEN 1 ELSE WorldSize
    /\ \A r \in Roots(h) : Rooted(r)
    /\ Truthful(h)

\* stop has listed the root process of its handle among what it will terminate.
StopInv ==
    \A s \in stopping :
        /\ s.handle \in Of("native") /\ s.tree \subseteq DOMAIN procs
        /\ Root(s.handle) \in s.tree

SweepInv ==
    /\ sweep \in {"idle", "scan", "kill"}
    /\ active \cup orphans \cup born \subseteq DOMAIN procs

Inv ==
    /\ ProcsInv
    /\ handles \in Seq(HandleType) /\ \A h \in DOMAIN handles : HandleInv(h)
    /\ launching \in Seq(Pids) /\ Len(launching) <= WorldSize /\ \A r \in Ranks : Rooted(r)
    /\ StopInv /\ SweepInv
    /\ restarts \in 0..MaxRestarts

-----------------------------------------------------------------------------
(* Processes *)

\* What no step but a restart does: a process is not forgotten, does not live
\* again and changes neither its end nor its session.
Persists ==
    /\ ProcsInv' /\ DOMAIN procs \subseteq DOMAIN procs'
    /\ \A p \in DOMAIN procs :
          /\ procs'[p].leader = procs[p].leader
          /\ procs[p].status # "running" => procs'[p].status = procs[p].status
          /\ Rooted(p) => Rooted(p)'

LEMMA DomainIsPids == ProcsInv => DOMAIN procs = 1..Len(procs) /\ DOMAIN procs \subseteq Pids /\ Len(procs) \in Nat
BY ExecutionAssumption DEF ProcsInv, Pids

LEMMA OneEnds ==
    ASSUME ProcsInv, NEW S \in SUBSET Nat, NEW how \in Ends, NEW p \in DOMAIN procs
    PROVE  /\ Ended(S, how)[p] \in ProcType /\ Ended(S, how)[p].leader = procs[p].leader
           /\ Ended(S, how)[p].status =
                 IF p \notin S \cap Alive THEN procs[p].status
                 ELSE IF procs[p].parent = Server THEN how ELSE "gone"
           /\ Ended(S, how)[p].parent = IF p \in S \/ procs[p].parent \in S THEN Init1 ELSE procs[p].parent
<1>1. procs[p] \in ProcType
  BY DEF ProcsInv
<1>2. Ended(S, how)[p] =
        [procs[p] EXCEPT
            !.status = IF p \notin S \/ @ # "running" THEN @
                       ELSE IF procs[p].parent = Server THEN how ELSE "gone",
            !.parent = IF p \in S \/ @ \in S THEN Init1 ELSE @]
  BY DEF Ended
<1> QED BY <1>1, <1>2 DEF ProcType, Alive

LEMMA EndedPersists ==
    ASSUME ProcsInv, NEW S \in SUBSET Nat, NEW how \in Ends, procs' = Ended(S, how)
    PROVE  /\ Persists
           /\ \A p \in S \cap DOMAIN procs : procs'[p].status # "running"
<1>1. DOMAIN procs' = DOMAIN procs
  BY DEF Ended
<1>2. ASSUME NEW p \in DOMAIN procs
      PROVE  /\ procs'[p] \in ProcType /\ procs'[p].leader = procs[p].leader
             /\ procs[p].status # "running" => procs'[p].status = procs[p].status
             /\ p \in S => procs'[p].status # "running"
             /\ Rooted(p) => Rooted(p)'
  <2>1. how \in {"ok", "error", "killed"} /\ Server \notin S
    BY ExecutionAssumption DEF Ends
  <2> QED BY <1>1, <2>1, OneEnds DEF Rooted, Alive
<1>3. procs' \in Seq(ProcType) /\ Len(procs') = Len(procs)
  <2> DEFINE n == Len(procs)
  <2>1. n \in Nat /\ DOMAIN procs = 1..n
    BY DomainIsPids
  <2>2. procs' = [p \in 1..n |-> procs'[p]]
    BY <1>1, <2>1 DEF Ended
  <2>3. procs' \in [1..n -> ProcType]
    BY <1>2, <2>1, <2>2
  <2> HIDE DEF n
  <2>4. procs' \in Seq(ProcType) /\ Len(procs') = n
    BY <1>1, <2>1, <2>3
  <2> QED BY <2>4 DEF n
<1> QED BY <1>1, <1>2, <1>3 DEF Persists, ProcsInv

LEMMA StartPersists ==
    ASSUME ProcsInv, NextPid <= MaxPid,
           NEW parent \in Pids \cup {Init1, Server}, NEW leader \in 1..NextPid,
           procs' = Append(procs, Process(parent, leader))
    PROVE  /\ Persists
           /\ NextPid \in Pids /\ NextPid \notin DOMAIN procs
           /\ DOMAIN procs' = DOMAIN procs \cup {NextPid}
           /\ procs'[NextPid] = Process(parent, leader)
<1> DEFINE new == Process(parent, leader)
<1>1. /\ Len(procs) \in Nat /\ NextPid = Len(procs) + 1 /\ NextPid \in Pids
      /\ DOMAIN procs = 1..Len(procs) /\ procs \in Seq(ProcType)
  BY DomainIsPids, ExecutionAssumption DEF NextPid, Pids, ProcsInv
<1>2. new \in ProcType /\ new.leader = leader
  BY <1>1, ExecutionAssumption DEF Process, ProcType, Pids
<1> HIDE DEF new
<1>3. /\ procs' \in Seq(ProcType) /\ Len(procs') = Len(procs) + 1 /\ procs'[NextPid] = new
      /\ DOMAIN procs' = DOMAIN procs \cup {NextPid}
      /\ \A p \in DOMAIN procs : procs'[p] = procs[p]
  <2>1. procs' = Append(procs, new)
    BY DEF new
  <2> QED BY <1>1, <1>2, <2>1
<1>4. ProcsInv'
  BY <1>1, <1>2, <1>3 DEF ProcsInv
<1> QED BY <1>1, <1>3, <1>4 DEF Persists, Rooted, new

LEMMA SamePersists == ASSUME ProcsInv, UNCHANGED procs PROVE Persists
BY DEF ProcsInv, Persists, Rooted

-----------------------------------------------------------------------------
(* Handles *)

\* What is known of a handle stays so while nobody changes it.
LEMMA HandleKept ==
    ASSUME Persists, NEW h, HandleInv(h), handles'[h] = handles[h]
    PROVE  HandleInv(h)'
<1>1. Roots(h)' = Roots(h) /\ \A r \in Roots(h) : r \in DOMAIN procs
  BY DEF Roots, HandleInv, Rooted
<1>2. \A r \in Roots(h) : /\ Rooted(r) /\ Rooted(r)'
                          /\ procs[r].status # "running" => procs'[r].status = procs[r].status
  BY <1>1 DEF HandleInv, Persists
<1>3. Truthful(h)'
  BY <1>1, <1>2 DEF HandleInv, Truthful
<1> QED BY <1>1, <1>2, <1>3 DEF HandleInv

LEMMA RanksKept ==
    ASSUME Persists, \A r \in Ranks : Rooted(r), UNCHANGED launching
    PROVE  \A r \in Ranks' : Rooted(r)'
BY DEF Persists, Rooted, Ranks

\* get_status and stop change the outcome of one handle.
LEMMA OutcomeSet ==
    ASSUME Inv, Persists, NEW h \in DOMAIN handles,
           NEW o \in {"RUNNING", "COMPLETED", "FAILED", "CANCELLED"},
           handles' = [handles EXCEPT ![h].outcome = o],
           o \in {"COMPLETED", "CANCELLED"} => \A r \in Roots(h) : procs'[r].status # "running",
           o = "COMPLETED" => \A r \in Roots(h) : procs'[r].status = "ok",
           o = "FAILED" =>
              \E r \in Roots(h) : \/ procs'[r].status = "error"
                                  \/ procs'[r].status = "killed" /\ handles[h].backend = "distributed"
    PROVE  /\ handles' \in Seq(HandleType) /\ \A g \in DOMAIN handles' : HandleInv(g)'
           /\ DOMAIN handles \subseteq DOMAIN handles'
           /\ \A g \in DOMAIN handles : /\ handles'[g].backend = handles[g].backend
                                        /\ handles'[g].roots = handles[g].roots
<1> DEFINE hd == [handles[h] EXCEPT !.outcome = o]
<1>1. handles \in Seq(HandleType) /\ handles[h] \in HandleType /\ HandleInv(h)
  BY DEF Inv
<1>2. /\ hd \in HandleType /\ hd.backend = handles[h].backend /\ hd.roots = handles[h].roots
      /\ hd.outcome = o
  BY <1>1 DEF HandleType
<1>3. handles' = [handles EXCEPT ![h] = hd]
  OBVIOUS
<1> HIDE DEF hd
<1>4. /\ handles' \in Seq(HandleType) /\ DOMAIN handles' = DOMAIN handles
      /\ handles'[h] = hd /\ \A g \in DOMAIN handles \ {h} : handles'[g] = handles[g]
  BY <1>1, <1>2, <1>3
<1>5. HandleInv(h)'
  <2>1. Roots(h)' = Roots(h)
    BY <1>2, <1>4 DEF Roots
  <2>2. \A r \in Roots(h) : Rooted(r)'
    BY <1>1 DEF HandleInv, Persists, Rooted
  <2>3. Truthful(h)'
    BY <1>2, <1>4, <2>1 DEF Truthful
  <2> QED BY <1>1, <1>2, <1>4, <2>1, <2>2, <2>3 DEF HandleInv
<1>6. \A g \in DOMAIN handles \ {h} : HandleInv(g)'
  BY <1>4, HandleKept DEF Inv
<1> QED BY <1>2, <1>4, <1>5, <1>6

\* launch enters a handle whose processes have been started.
LEMMA HandleAdded ==
    ASSUME Inv, Persists, NEW backend \in {"native", "distributed"}, NEW roots \in Seq(Pids),
           Len(roots) = IF backend = "native" THEN 1 ELSE WorldSize,
           \A r \in ToSet(roots) : Rooted(r)',
           handles' = Append(handles, Handle(backend, roots))
    PROVE  /\ handles' \in Seq(HandleType) /\ \A g \in DOMAIN handles' : HandleInv(g)'
           /\ DOMAIN handles \subseteq DOMAIN handles'
           /\ \A g \in DOMAIN handles : /\ handles'[g].backend = handles[g].backend
                                        /\ handles'[g].roots = handles[g].roots
<1> DEFINE hd == Handle(backend, roots)
<1>1. hd \in HandleType /\ hd.backend = backend /\ hd.roots = roots /\ hd.outcome = "RUNNING"
  BY DEF Handle, HandleType
<1>2. handles' = Append(handles, hd) /\ handles \in Seq(HandleType)
  BY DEF Inv
<1> HIDE DEF hd
<1>3. /\ handles' \in Seq(HandleType) /\ DOMAIN handles \subseteq DOMAIN handles'
      /\ \A g \in DOMAIN handles : handles'[g] = handles[g]
      /\ \A g \in DOMAIN handles' \ DOMAIN handles : handles'[g] = hd
  BY <1>1, <1>2
<1>4. \A g \in DOMAIN handles : HandleInv(g)'
  BY <1>3, HandleKept DEF Inv
<1>5. ASSUME NEW g \in DOMAIN handles' \ DOMAIN handles PROVE HandleInv(g)'
  <2>1. handles'[g] = hd
    BY <1>3
  <2>2. Roots(g)' = ToSet(roots)
    BY <1>1, <2>1 DEF Roots
  <2>3. Truthful(g)'
    BY <1>1, <2>1 DEF Truthful
  <2> QED BY <1>1, <2>1, <2>2, <2>3 DEF HandleInv
<1> QED BY <1>3, <1>4, <1>5

LEMMA HandlesSame ==
    ASSUME Inv, Persists, UNCHANGED handles
    PROVE  /\ handles' \in Seq(HandleType) /\ \A g \in DOMAIN handles' : HandleInv(g)'
           /\ DOMAIN handles \subseteq DOMAIN handles'
           /\ \A g \in DOMAIN handles : /\ handles'[g].backend = handles[g].backend
                                        /\ handles'[g].roots = handles[g].roots
BY HandleKept DEF Inv

\* The handles are right and those that were there have their processes.
HandlesFollow ==
    /\ handles' \in Seq(HandleType) /\ \A g \in DOMAIN handles' : HandleInv(g)'
    /\ DOMAIN handles \subseteq DOMAIN handles'
    /\ \A g \in DOMAIN handles : /\ handles'[g].backend = handles[g].backend
                                 /\ handles'[g].roots = handles[g].roots

LEMMA StopKept ==
    ASSUME Inv, Persists, HandlesFollow, stopping' \subseteq stopping PROVE StopInv'
<1> SUFFICES ASSUME NEW s \in stopping' PROVE (s.handle \in Of("native"))' /\ s.tree \subseteq DOMAIN procs'
                                              /\ Root(s.handle)' \in s.tree
  BY DEF StopInv
<1>1. s.handle \in Of("native") /\ s.tree \subseteq DOMAIN procs /\ Root(s.handle) \in s.tree
  BY DEF Inv, StopInv
<1> QED BY <1>1 DEF Of, Root, HandlesFollow, Persists

LEMMA SweepKept == ASSUME SweepInv, Persists, UNCHANGED sweeper PROVE SweepInv'
BY DEF SweepInv, Persists, sweeper

\* The only process of a native job is its root.
LEMMA NativeRoot ==
    ASSUME Inv, NEW h \in Of("native")
    PROVE  h \in DOMAIN handles /\ handles[h].backend = "native" /\ Roots(h) = {Root(h)} /\ Rooted(Root(h))
<1>1. h \in DOMAIN handles /\ handles[h].backend = "native" /\ HandleInv(h) /\ handles[h] \in HandleType
  BY DEF Of, Inv
<1>2. handles[h].roots \in Seq(Pids) /\ Len(handles[h].roots) = 1
  BY <1>1 DEF HandleInv, HandleType
<1>3. Roots(h) = {Root(h)}
  BY <1>2 DEF Roots, Root, ToSet
<1> QED BY <1>1, <1>3 DEF HandleInv

LEMMA TreeIsAlive ==
    ASSUME NEW p
    PROVE  Tree(p) \subseteq Alive /\ (p \in Alive => p \in Tree(p))
BY DEF Tree, Descendants

LEMMA AliveIsPids == ProcsInv => Alive \subseteq DOMAIN procs /\ Alive \subseteq Pids /\ Alive \in SUBSET Nat
BY DomainIsPids, ExecutionAssumption DEF Alive, Pids

-----------------------------------------------------------------------------
(* Steps *)

\* What a step of a backend, a workload or the sweeper leaves to show.
LEMMA StepKeeps ==
    ASSUME Inv, Persists, HandlesFollow, UNCHANGED restarts,
           launching' \in Seq(Pids), Len(launching') <= WorldSize, \A r \in Ranks' : Rooted(r)',
           StopInv', SweepInv'
    PROVE  Inv'
BY DEF Inv, Persists, HandlesFollow

LEMMA LaunchingSame ==
    ASSUME Inv, Persists, UNCHANGED launching
    PROVE  launching' \in Seq(Pids) /\ Len(launching') <= WorldSize /\ \A r \in Ranks' : Rooted(r)'
BY RanksKept DEF Inv

LEMMA LaunchingEmpty ==
    ASSUME launching' = <<>>
    PROVE  launching' \in Seq(Pids) /\ Len(launching') <= WorldSize /\ \A r \in Ranks' : Rooted(r)'
BY ExecutionAssumption DEF Ranks, ToSet

\* Steps that leave the backends and the sweeper alone.
LEMMA OnlyProcesses ==
    ASSUME Inv, Persists, UNCHANGED <<backends, sweeper, restarts>> PROVE Inv'
<1>1. UNCHANGED <<handles, launching, stopping>>
  BY DEF backends
<1>2. HandlesFollow
  BY <1>1, HandlesSame DEF HandlesFollow
<1> QED BY <1>1, <1>2, LaunchingSame, StopKept, SweepKept, StepKeeps DEF Inv

LEMMA WorkloadKeeps ==
    ASSUME Inv, NEW p \in 1..MaxPid, Fork(p) \/ Exit(p) PROVE Inv'
<1>0. ProcsInv /\ Alive \subseteq DOMAIN procs /\ DOMAIN procs \subseteq Pids /\ Len(procs) \in Nat
  BY DomainIsPids, AliveIsPids DEF Inv
<1>1. CASE Fork(p)
  <2>1. /\ NextPid <= MaxPid /\ procs' = Append(procs, Process(p, procs[p].leader))
        /\ UNCHANGED <<backends, sweeper, restarts>> /\ p \in DOMAIN procs
    BY <1>0, <1>1 DEF Fork
  <2>2. procs[p] \in ProcType /\ procs[p].leader <= p /\ p \in 1..Len(procs)
    BY <1>0, <2>1, DomainIsPids DEF ProcsInv
  <2>3. procs[p].leader \in 1..NextPid
    BY <1>0, <2>2, ExecutionAssumption DEF ProcType, Pids, NextPid
  <2>4. Persists
    BY <1>0, <2>1, <2>3, StartPersists DEF Pids
  <2> QED BY <2>1, <2>4, OnlyProcesses
<1>2. CASE Exit(p)
  <2>1. PICK how \in Ends : procs' = Ended({p}, how)
    BY <1>2 DEF Exit
  <2>2. UNCHANGED <<backends, sweeper, restarts>>
    BY <1>2 DEF Exit
  <2>3. Persists
    BY <1>0, <2>1, EndedPersists
  <2> QED BY <2>2, <2>3, OnlyProcesses
<1> QED BY <1>1, <1>2

LEMMA NativeKeeps ==
    ASSUME Inv, LaunchNative \/ StopKill \/ \E h \in DOMAIN handles : GetStatusNative(h) \/ StopBegin(h)
    PROVE  Inv'
<1>0. ProcsInv /\ Alive \subseteq DOMAIN procs /\ SweepInv
  BY AliveIsPids DEF Inv
<1>1. CASE LaunchNative
  <2>1. /\ NextPid <= MaxPid /\ procs' = Append(procs, Process(Server, NextPid))
        /\ handles' = Append(handles, Handle("native", <<NextPid>>))
        /\ UNCHANGED <<launching, stopping, sweeper, restarts>>
    BY <1>1 DEF LaunchNative
  <2>2. NextPid \in 1..NextPid
    BY <1>0, DomainIsPids DEF NextPid
  <2>3. /\ Persists /\ NextPid \in Pids /\ DOMAIN procs' = DOMAIN procs \cup {NextPid}
        /\ procs'[NextPid] = Process(Server, NextPid)
    BY <1>0, <2>1, <2>2, StartPersists
  <2>4. \A r \in ToSet(<<NextPid>>) : Rooted(r)'
    BY <2>3 DEF ToSet, Rooted, Process
  <2>5. <<NextPid>> \in Seq(Pids) /\ Len(<<NextPid>>) = 1
    BY <2>3
  <2>6. HandlesFollow
    BY <2>1, <2>3, <2>4, <2>5, HandleAdded DEF HandlesFollow
  <2> QED BY <1>0, <2>1, <2>3, <2>6, LaunchingSame, StopKept, SweepKept, StepKeeps
<1>2. ASSUME NEW h \in DOMAIN handles, GetStatusNative(h) PROVE Inv'
  <2> DEFINE o == NativeOutcome(procs[Root(h)].status)
  <2>1. /\ h \in Of("native") /\ handles' = [handles EXCEPT ![h].outcome = o]
        /\ UNCHANGED <<procs, launching, stopping, sweeper, restarts>>
    BY <1>2 DEF GetStatusNative
  <2>2. Persists
    BY <1>0, <2>1, SamePersists
  <2>3. Roots(h) = {Root(h)} /\ Rooted(Root(h))
    BY <2>1, NativeRoot
  <2>4. procs[Root(h)].status \in {"running", "ok", "error", "killed"}
    <3> DEFINE r == Root(h)
    <3>1. procs[r] \in ProcType /\ procs[r].status # "gone"
      BY <1>0, <2>3 DEF Rooted, ProcsInv
    <3> QED BY <3>1 DEF ProcType, Ends
  <2>5. /\ o \in {"RUNNING", "COMPLETED", "FAILED", "CANCELLED"}
        /\ o \in {"COMPLETED", "CANCELLED"} => procs[Root(h)].status # "running"
        /\ o = "COMPLETED" => procs[Root(h)].status = "ok"
        /\ o = "FAILED" => procs[Root(h)].status = "error"
    BY <2>4 DEF NativeOutcome
  <2> HIDE DEF o
  <2>6. HandlesFollow
    BY <2>1, <2>2, <2>3, <2>5, OutcomeSet DEF HandlesFollow
  <2> QED BY <1>0, <2>1, <2>2, <2>6, LaunchingSame, StopKept, SweepKept, StepKeeps
<1>3. ASSUME NEW h \in DOMAIN handles, StopBegin(h) PROVE Inv'
  <2> DEFINE s == [handle |-> h, tree |-> Tree(Root(h))]
  <2>1. /\ h \in Of("native") /\ Root(h) \in Alive /\ stopping' = {s}
        /\ UNCHANGED <<procs, handles, launching, sweeper, restarts>>
    BY <1>3 DEF StopBegin
  <2>2. Persists /\ HandlesFollow
    BY <1>0, <2>1, SamePersists, HandlesSame DEF HandlesFollow
  <2>3. s.handle = h /\ s.tree \subseteq DOMAIN procs /\ Root(h) \in s.tree
    BY <1>0, <2>1, TreeIsAlive
  <2> HIDE DEF s
  <2>4. StopInv'
    BY <2>1, <2>3 DEF StopInv, Of, Root
  <2> QED BY <1>0, <2>1, <2>2, <2>4, LaunchingSame, SweepKept, StepKeeps
<1>4. CASE StopKill
  <2>1. PICK s \in stopping : /\ procs' = Ended(s.tree, "killed")
                              /\ handles' = [handles EXCEPT ![s.handle].outcome = "CANCELLED"]
    BY <1>4 DEF StopKill
  <2>2. stopping' = {} /\ UNCHANGED <<launching, sweeper, restarts>>
    BY <1>4 DEF StopKill
  <2>3. s.handle \in Of("native") /\ s.tree \subseteq DOMAIN procs /\ Root(s.handle) \in s.tree
    BY DEF Inv, StopInv
  <2>4. s.tree \in SUBSET Nat /\ "killed" \in Ends
    BY <1>0, <2>3, DomainIsPids, ExecutionAssumption DEF Pids, Ends
  <2>5. Persists /\ \A p \in s.tree \cap DOMAIN procs : procs'[p].status # "running"
    BY <1>0, <2>1, <2>4, EndedPersists
  <2>6. s.handle \in DOMAIN handles /\ Roots(s.handle) = {Root(s.handle)}
    BY <2>3, NativeRoot
  <2>7. HandlesFollow
    BY <2>1, <2>3, <2>5, <2>6, OutcomeSet DEF HandlesFollow
  <2>8. StopInv'
    BY <2>2 DEF StopInv
  <2> QED BY <1>0, <2>2, <2>5, <2>7, <2>8, LaunchingSame, SweepKept, StepKeeps
<1> QED BY <1>1, <1>2, <1>3, <1>4

\* The sessions of some ranks, and that a rank is of its own.
LEMMA Sessions ==
    ASSUME ProcsInv, NEW R, \A r \in R : Rooted(r)
    PROVE  /\ UNION {Session(r) : r \in R} \in SUBSET Nat
           /\ \A r \in R : r \in Alive => r \in UNION {Session(q) : q \in R}
BY AliveIsPids DEF Session, Rooted

LEMMA DistributedKeeps ==
    ASSUME Inv, \/ LaunchRank \/ LaunchRankFails \/ LaunchDone
                \/ \E h \in DOMAIN handles : GetStatusRanks(h) \/ StopRanks(h)
    PROVE  Inv'
<1>0. /\ ProcsInv /\ Alive \subseteq DOMAIN procs /\ SweepInv
      /\ launching \in Seq(Pids) /\ \A r \in Ranks : Rooted(r)
  BY AliveIsPids DEF Inv
<1>1. CASE LaunchRank
  <2>1. /\ Len(launching) < WorldSize /\ NextPid <= MaxPid
        /\ procs' = Append(procs, Process(Server, NextPid)) /\ launching' = Append(launching, NextPid)
        /\ UNCHANGED <<handles, stopping, sweeper, restarts>>
    BY <1>1 DEF LaunchRank
  <2>2. NextPid \in 1..NextPid
    BY <1>0, DomainIsPids DEF NextPid
  <2>3. /\ Persists /\ NextPid \in Pids /\ DOMAIN procs' = DOMAIN procs \cup {NextPid}
        /\ procs'[NextPid] = Process(Server, NextPid)
    BY <1>0, <2>1, <2>2, StartPersists
  <2>4. PICK pid \in Pids : /\ pid \in DOMAIN procs' /\ procs'[pid] = Process(Server, pid)
                            /\ launching' = Append(launching, pid)
    BY <2>1, <2>3
  <2>5. Rooted(pid)'
    BY <2>4 DEF Rooted, Process
  <2>6. /\ launching' \in Seq(Pids) /\ Len(launching') <= WorldSize
        /\ Ranks' = Ranks \cup {pid}
    <3>1. /\ launching' \in Seq(Pids) /\ Len(launching') = Len(launching) + 1
          /\ DOMAIN launching = 1..Len(launching) /\ Len(launching) \in Nat
          /\ DOMAIN launching' = 1..(Len(launching) + 1)
          /\ launching'[Len(launching) + 1] = pid
          /\ \A i \in DOMAIN launching : launching'[i] = launching[i]
      BY <1>0, <2>4
    <3>2. Len(launching') <= WorldSize
      BY <2>1, <3>1, ExecutionAssumption
    <3>3. DOMAIN launching' = DOMAIN launching \cup {Len(launching) + 1}
      BY <3>1
    <3>4. Ranks' = Ranks \cup {pid}
      BY <3>1, <3>3 DEF Ranks, ToSet
    <3> QED BY <3>1, <3>2, <3>4
  <2>7. \A r \in Ranks' : Rooted(r)'
    BY <1>0, <2>3, <2>5, <2>6 DEF Persists, Rooted
  <2>8. HandlesFollow
    BY <2>1, <2>3, HandlesSame DEF HandlesFollow
  <2> QED BY <1>0, <2>1, <2>3, <2>6, <2>7, <2>8, StopKept, SweepKept, StepKeeps
<1>2. CASE LaunchRankFails
  <2> DEFINE S == UNION {Session(r) : r \in Ranks}
  <2>1. /\ procs' = Ended(S, "killed") /\ launching' = <<>>
        /\ UNCHANGED <<handles, stopping, sweeper, restarts>>
    BY <1>2 DEF LaunchRankFails
  <2>2. S \in SUBSET Nat /\ "killed" \in Ends
    BY <1>0, Sessions DEF Ends
  <2> HIDE DEF S
  <2>3. Persists
    BY <1>0, <2>1, <2>2, EndedPersists
  <2>4. HandlesFollow
    BY <2>1, <2>3, HandlesSame DEF HandlesFollow
  <2> QED BY <1>0, <2>1, <2>3, <2>4, LaunchingEmpty, StopKept, SweepKept, StepKeeps
<1>3. CASE LaunchDone
  <2>1. /\ Len(launching) = WorldSize /\ handles' = Append(handles, Handle("distributed", launching))
        /\ launching' = <<>> /\ UNCHANGED <<procs, stopping, sweeper, restarts>>
    BY <1>3 DEF LaunchDone
  <2>2. Persists
    BY <1>0, <2>1, SamePersists
  <2>3. \A r \in ToSet(launching) : Rooted(r)'
    BY <1>0, <2>2 DEF Ranks, Persists, Rooted
  <2>4. HandlesFollow
    BY <1>0, <2>1, <2>2, <2>3, HandleAdded DEF HandlesFollow
  <2> QED BY <1>0, <2>1, <2>2, <2>4, LaunchingEmpty, StopKept, SweepKept, StepKeeps
<1>4. ASSUME NEW h \in DOMAIN handles, GetStatusRanks(h) PROVE Inv'
  <2> DEFINE ends == {procs[r].status : r \in Roots(h)}
             o    == RanksOutcome(ends)
  <2>1. /\ handles[h].backend = "distributed" /\ handles' = [handles EXCEPT ![h].outcome = o]
        /\ UNCHANGED <<procs, launching, stopping, sweeper, restarts>>
    BY <1>4 DEF GetStatusRanks, Of, Roots
  <2>2. Persists
    BY <1>0, <2>1, SamePersists
  <2>3. /\ o \in {"RUNNING", "COMPLETED", "FAILED"}
        /\ o = "COMPLETED" => ends = {"ok"}
        /\ o = "FAILED" => ends \cap {"error", "killed"} # {}
    BY DEF RanksOutcome
  <2> HIDE DEF o
  <2>4. /\ o = "COMPLETED" => \A r \in Roots(h) : procs[r].status = "ok"
        /\ o = "FAILED" => \E r \in Roots(h) : procs[r].status \in {"error", "killed"}
    BY <2>3
  <2>5. HandlesFollow
    BY <2>1, <2>2, <2>3, <2>4, OutcomeSet DEF HandlesFollow
  <2> QED BY <1>0, <2>1, <2>2, <2>5, LaunchingSame, StopKept, SweepKept, StepKeeps
<1>5. ASSUME NEW h \in DOMAIN handles, StopRanks(h) PROVE Inv'
  <2> DEFINE R == Roots(h) \cap Alive
             reached == UNION {Session(r) : r \in R}
  <2>0. PICK spared \in SUBSET (reached \ R) : procs' = Ended(reached \ spared, "killed")
    BY <1>5 DEF StopRanks, Running, Reached, Roots
  <2> DEFINE S == reached \ spared
  <2>1. /\ procs' = Ended(S, "killed") /\ handles' = [handles EXCEPT ![h].outcome = "CANCELLED"]
        /\ UNCHANGED <<launching, stopping, sweeper, restarts>>
    BY <1>5, <2>0 DEF StopRanks
  <2>2. \A r \in Roots(h) : Rooted(r)
    BY DEF Inv, HandleInv
  <2>3. S \in SUBSET Nat /\ "killed" \in Ends /\ R \subseteq S
    BY <1>0, <2>2, Sessions DEF Ends
  <2> HIDE DEF S
  <2>4. Persists /\ \A p \in S \cap DOMAIN procs : procs'[p].status # "running"
    BY <1>0, <2>1, <2>3, EndedPersists
  <2>5. \A r \in Roots(h) : procs'[r].status # "running"
    BY <2>2, <2>3, <2>4 DEF Persists, Rooted, Alive
  <2>6. HandlesFollow
    BY <2>1, <2>4, <2>5, OutcomeSet DEF HandlesFollow
  <2> QED BY <1>0, <2>1, <2>4, <2>6, LaunchingSame, StopKept, SweepKept, StepKeeps
<1> QED BY <1>1, <1>2, <1>3, <1>4, <1>5

LEMMA SweepKeeps == ASSUME Inv, Sweep PROVE Inv'
<1>0. /\ ProcsInv /\ Alive \subseteq DOMAIN procs /\ Alive \in SUBSET Nat /\ SweepInv
      /\ DOMAIN procs \subseteq Nat
  BY AliveIsPids DEF Inv, ProcsInv
<1>1. ASSUME Persists, UNCHANGED <<backends, restarts>>, SweepInv' PROVE Inv'
  <2>1. UNCHANGED <<handles, launching, stopping>>
    BY <1>1 DEF backends
  <2>2. HandlesFollow
    BY <1>1, <2>1, HandlesSame DEF HandlesFollow
  <2> QED BY <1>1, <2>1, <2>2, LaunchingSame, StopKept, StepKeeps
<1>2. CASE SweepBegin
  <2>1. ManagedTrees \subseteq Alive
    BY TreeIsAlive DEF ManagedTrees
  <2>2. SweepInv' /\ Persists /\ UNCHANGED <<backends, restarts>>
    BY <1>0, <1>2, <2>1, SamePersists DEF SweepBegin, SweepInv
  <2> QED BY <1>1, <2>2
<1>3. CASE SweepScan
  <2>1. Persists /\ UNCHANGED <<backends, restarts, procs, born>>
    BY <1>0, <1>3, SamePersists DEF SweepScan
  <2>2. PICK onGpu \in SUBSET (Alive \ active) : orphans' = Orphans \cup onGpu
    BY <1>3 DEF SweepScan
  <2>3. sweep' = "kill" /\ active' = {} /\ Orphans \subseteq Alive
    BY <1>3 DEF SweepScan, Orphans
  <2>4. SweepInv'
    BY <1>0, <2>1, <2>2, <2>3 DEF SweepInv
  <2> QED BY <1>1, <2>1, <2>4
<1>4. CASE SweepEnd
  <2>1. Persists /\ UNCHANGED <<backends, restarts>>
    BY <1>0, <1>4, SamePersists DEF SweepEnd
  <2>2. SweepInv'
    BY <1>0, <1>4 DEF SweepEnd, SweepInv
  <2> QED BY <1>1, <2>1, <2>2
<1>5. ASSUME NEW p \in 1..MaxPid, SweepKill(p) PROVE Inv'
  <2>1. /\ procs' = Ended(Tree(p), "killed") /\ orphans' = orphans \ {p}
        /\ UNCHANGED <<backends, sweep, active, born, restarts>>
    BY <1>5 DEF SweepKill
  <2>2. Tree(p) \in SUBSET Nat /\ "killed" \in Ends
    BY <1>0, TreeIsAlive DEF Ends
  <2>3. Persists
    BY <1>0, <2>1, <2>2, EndedPersists
  <2>4. SweepInv'
    BY <1>0, <2>1, <2>3 DEF SweepInv, Persists
  <2> QED BY <1>1, <2>1, <2>3, <2>4
<1> QED BY <1>2, <1>3, <1>4, <1>5 DEF Sweep

\* A new server has no handle; the processes go on without it.
LEMMA RestartKeeps == ASSUME Inv, Restart PROVE Inv'
<1>1. ProcsInv'
  <2> DEFINE n == Len(procs)
  <2>1. n \in Nat /\ DOMAIN procs = 1..n /\ n <= MaxPid
    BY DomainIsPids DEF Inv, ProcsInv
  <2>2. procs' = [p \in DOMAIN procs |->
                    [procs[p] EXCEPT !.status = IF @ = "running" THEN @ ELSE "gone",
                                     !.parent = IF @ = Server THEN Init1 ELSE @]]
    BY DEF Restart
  <2>3. ASSUME NEW p \in DOMAIN procs
        PROVE  procs'[p] \in ProcType /\ procs'[p].leader = procs[p].leader
    <3>1. procs[p] \in ProcType
      BY DEF Inv, ProcsInv
    <3> QED BY <2>2, <3>1 DEF ProcType
  <2>4. procs' \in [1..n -> ProcType]
    BY <2>1, <2>2, <2>3
  <2>5. DOMAIN procs' = DOMAIN procs
    BY <2>2
  <2> HIDE DEF n
  <2>6. procs' \in Seq(ProcType) /\ Len(procs') = n
    BY <2>1, <2>4
  <2> QED BY <2>1, <2>3, <2>5, <2>6 DEF Inv, ProcsInv
<1>2. /\ handles' = <<>> /\ launching' = <<>> /\ stopping' = {}
      /\ sweep' = "idle" /\ active' = {} /\ orphans' = {} /\ born' = {}
      /\ restarts < MaxRestarts /\ restarts' = restarts + 1
  BY DEF Restart
<1>3. restarts' \in 0..MaxRestarts
  BY <1>2, ExecutionAssumption DEF Inv
<1>4. StopInv' /\ SweepInv'
  BY <1>2 DEF StopInv, SweepInv
<1> QED BY <1>1, <1>2, <1>3, <1>4, LaunchingEmpty DEF Inv

LEMMA NextKeeps == Inv /\ [Next]_vars => Inv'
<1> SUFFICES ASSUME Inv, [Next]_vars PROVE Inv'
  OBVIOUS
<1>1. CASE UNCHANGED vars
  <2>1. UNCHANGED <<procs, backends, sweeper, restarts>>
    BY <1>1 DEF vars
  <2>2. Persists
    BY <2>1, SamePersists DEF Inv
  <2> QED BY <2>1, <2>2, OnlyProcesses
<1> QED
  BY <1>1, WorkloadKeeps, NativeKeeps, DistributedKeeps, SweepKeeps, RestartKeeps DEF Next

LEMMA StartsRight == Init => Inv
BY ExecutionAssumption
   DEF Init, Inv, ProcsInv, Ranks, ToSet, StopInv, SweepInv

-----------------------------------------------------------------------------
(* What the backends say *)

\* The inductive invariant holds for any number of processes, ranks and restarts.
THEOREM Invariance == Spec => []Inv
  BY StartsRight, NextKeeps, PTL DEF Spec

\* Every variable keeps its shape: a handle has as many root processes as its
\* launch was to start, and what is being stopped is a native job.
THEOREM TypeCorrect == Spec => []TypeOK
<1>1. Inv => TypeOK
  <2> SUFFICES ASSUME Inv PROVE TypeOK
    OBVIOUS
  <2>1. DOMAIN procs \subseteq Pids
    BY DomainIsPids DEF Inv
  <2>2. ASSUME NEW p \in DOMAIN procs
        PROVE  /\ procs[p].status \in Ends \cup {"running", "gone"}
               /\ procs[p].parent \in Pids \cup {Init1, Server}
               /\ procs[p].leader \in 1..p
    <3>1. procs[p] \in ProcType /\ procs[p].leader <= p /\ p \in Pids
      BY <2>1 DEF Inv, ProcsInv
    <3> QED BY <3>1, ExecutionAssumption DEF ProcType, Pids
  <2>3. ASSUME NEW h \in DOMAIN handles
        PROVE  /\ handles[h].outcome \in {"RUNNING", "COMPLETED", "FAILED", "CANCELLED"}
               /\ ToSet(handles[h].roots) \subseteq DOMAIN procs
               /\ Len(handles[h].roots) = IF handles[h].backend = "native" THEN 1 ELSE WorldSize
    <3>1. handles[h] \in HandleType /\ HandleInv(h)
      BY DEF Inv
    <3> QED BY <3>1 DEF HandleType, HandleInv, Roots, Rooted
  <2>4. Ranks \subseteq DOMAIN procs
    BY DEF Inv, Rooted
  <2> QED BY <2>1, <2>2, <2>3, <2>4 DEF Inv, StopInv, SweepInv, TypeOK
<1> QED BY <1>1, Invariance, PTL

\* No root process of a job that is reported as ended runs, so that its devices
\* can be given to the next one; but for a distributed job of which a rank failed.
THEOREM EndedJobsAreDead == Spec => []EndedIsDead
<1>1. Inv => EndedIsDead
  <2> SUFFICES ASSUME Inv, NEW h \in DOMAIN handles, handles[h].outcome # "RUNNING"
               PROVE  \/ Roots(h) \cap Alive = {}
                      \/ handles[h].backend = "distributed" /\ handles[h].outcome = "FAILED"
    BY DEF EndedIsDead, Roots
  <2>1. handles[h] \in HandleType /\ HandleInv(h)
    BY DEF Inv
  <2>2. CASE handles[h].outcome = "FAILED" /\ handles[h].backend = "native"
    <3>1. h \in Of("native")
      BY <2>2 DEF Of
    <3>2. Roots(h) = {Root(h)}
      BY <3>1, NativeRoot
    <3> QED BY <2>1, <2>2, <3>2 DEF HandleInv, Truthful, Alive
  <2>3. CASE handles[h].outcome \in {"COMPLETED", "CANCELLED"}
    BY <2>1, <2>3 DEF HandleInv, Truthful, Alive
  <2> QED BY <2>1, <2>2, <2>3 DEF HandleType
<1> QED BY <1>1, Invariance, PTL

\* What get_status says of a job agrees with how its processes ended.
THEOREM OutcomesAreTrue == Spec => []OutcomeIsTrue
<1>1. Inv => OutcomeIsTrue
  <2> SUFFICES ASSUME Inv, NEW h \in DOMAIN handles
               PROVE  LET ends == {procs[r].status : r \in Roots(h)}
                      IN  /\ handles[h].outcome = "COMPLETED" => ends = {"ok"}
                          /\ handles[h].outcome = "FAILED" =>
                                \/ "error" \in ends
                                \/ "killed" \in ends /\ handles[h].backend = "distributed"
    BY DEF OutcomeIsTrue, Roots
  <2>1. handles[h] \in HandleType /\ HandleInv(h)
    BY DEF Inv
  <2>2. Roots(h) # {}
    <3>1. Len(handles[h].roots) \in Nat \ {0} /\ handles[h].roots \in Seq(Pids)
      BY <2>1, ExecutionAssumption DEF HandleInv, HandleType
    <3>2. handles[h].roots[1] \in Roots(h)
      BY <3>1 DEF Roots, ToSet
    <3> QED BY <3>2
  <2> QED BY <2>1, <2>2 DEF HandleInv, Truthful
<1> QED BY <1>1, Invariance, PTL

-----------------------------------------------------------------------------
(* The families of processes *)

\* A parent that is a process of ours lives and is older: the children of one that
\* ends are left to pid 1.
Ordered ==
    \A p \in DOMAIN procs : procs[p].parent \in Pids => procs[p].parent \in Alive /\ procs[p].parent < p

\* What Ancestors is, by its own values.
AncestorsBy(f, q) ==
    IF procs[q].parent \in DOMAIN procs THEN {procs[q].parent} \cup f[procs[q].parent] ELSE {}

Lineage == \A q \in DOMAIN procs : Ancestors[q] = AncestorsBy(Ancestors, q)

\* The recursive function exists, since a parent is older.
LEMMA AncestorsAre == ProcsInv /\ Ordered => Lineage
<1> SUFFICES ASSUME ProcsInv, Ordered PROVE Lineage
  OBVIOUS
<1> DEFINE Line(f, k) == f = [q \in 1..k |-> AncestorsBy(f, q)]
           last == Len(procs)
           G == {k \in 0..last : \E f : Line(f, k)}
<1>0. last \in Nat /\ DOMAIN procs = 1..last /\ DOMAIN procs \subseteq Pids
  BY DomainIsPids
<1> HIDE DEF last
<1>1. 0 \in G
  <2> DEFINE f == [q \in 1..0 |-> {}]
  <2>1. Line(f, 0)
    OBVIOUS
  <2> HIDE DEF f, Line
  <2> QED BY <1>0, <2>1
<1>2. IsFiniteSet(G) /\ G \in SUBSET Nat
  <2>1. IsFiniteSet(0..last) /\ 0..last \in SUBSET Nat /\ G \in SUBSET (0..last)
    BY <1>0, FS_Interval
  <2> HIDE DEF G
  <2> QED BY <2>1, FS_Subset
<1>3. PICK m \in G : \A k \in G : m >= k
  <2> HIDE DEF G
  <2> QED BY <1>1, <1>2, GreatestNumber
<1>4. ASSUME m # last PROVE FALSE
  <2>1. PICK f : Line(f, m)
    BY <1>3
  <2>2. m \in Nat /\ m + 1 \in 0..last /\ m + 1 \in DOMAIN procs
    BY <1>0, <1>3, <1>4
  <2> DEFINE g == [q \in 1..(m + 1) |-> IF q = m + 1 THEN AncestorsBy(f, q) ELSE f[q]]
  <2>3. \A q \in 1..(m + 1) : g[q] = AncestorsBy(g, q)
    <3> TAKE q \in 1..(m + 1)
    <3>1. g[q] = AncestorsBy(f, q)
      <4>1. q \in 1..m => f[q] = AncestorsBy(f, q)
        BY <2>1
      <4> QED BY <2>2, <4>1
    <3>2. procs[q].parent \in DOMAIN procs => g[procs[q].parent] = f[procs[q].parent]
      <4> SUFFICES ASSUME procs[q].parent \in DOMAIN procs PROVE g[procs[q].parent] = f[procs[q].parent]
        OBVIOUS
      <4>1. q \in DOMAIN procs /\ procs[q].parent \in Pids
        BY <1>0, <2>2
      <4>2. procs[q].parent < q
        BY <4>1 DEF Ordered
      <4>3. procs[q].parent \in 1..m
        BY <1>0, <2>2, <4>2
      <4> QED BY <2>2, <4>3
    <3> HIDE DEF g
    <3> QED BY <3>1, <3>2 DEF AncestorsBy
  <2>4. Line(g, m + 1)
    <3>1. g = [q \in 1..(m + 1) |-> g[q]]
      OBVIOUS
    <3> HIDE DEF g
    <3> QED BY <2>3, <3>1
  <2>5. m + 1 \in G
    <3> HIDE DEF g, Line
    <3> QED BY <2>2, <2>4
  <2> QED BY <1>3, <2>2, <2>5
<1>5. \E f : f = [q \in DOMAIN procs |-> AncestorsBy(f, q)]
  BY <1>0, <1>3, <1>4
<1>6. Ancestors = [q \in DOMAIN procs |-> AncestorsBy(Ancestors, q)]
  BY <1>5 DEF Ancestors, AncestorsBy
<1> QED BY <1>6 DEF Lineage

LEMMA NoPid == Init1 \notin Pids /\ Server \notin Pids
BY ExecutionAssumption DEF Pids

\* Ancestors live and are older than what descends from them.
LEMMA AncestorsAreOlder ==
    ASSUME ProcsInv, Ordered, NEW q \in DOMAIN procs
    PROVE  Ancestors[q] \subseteq {a \in Alive : a < q}
<1> DEFINE Bad == {x \in DOMAIN procs : ~(Ancestors[x] \subseteq {a \in Alive : a < x})}
<1>0. DOMAIN procs \subseteq Pids /\ DOMAIN procs \in SUBSET Nat /\ Alive \in SUBSET Nat
  BY DomainIsPids, AliveIsPids
<1>1. CASE Bad # {}
  <2>1. Bad \in SUBSET Nat
    BY <1>0
  <2>2. PICK x \in Bad : \A y \in Bad : x <= y
    <3> HIDE DEF Bad
    <3> QED BY <1>1, <2>1, LeastNumber
  <2> DEFINE y == procs[x].parent
  <2>3. Ancestors[x] = IF y \in DOMAIN procs THEN {y} \cup Ancestors[y] ELSE {}
    BY AncestorsAre DEF AncestorsBy, Lineage
  <2>4. y \in DOMAIN procs
    BY <2>2, <2>3
  <2>5. y \in Alive /\ y < x
    BY <1>0, <2>2, <2>4 DEF Ordered
  <2>6. y \notin Bad
    BY <1>0, <2>2, <2>4, <2>5
  <2>7. Ancestors[y] \subseteq {a \in Alive : a < y}
    BY <2>4, <2>6
  <2>8. Ancestors[x] \subseteq {a \in Alive : a < x}
    <3>1. Ancestors[x] = {y} \cup Ancestors[y] /\ x \in Nat /\ y \in Nat
      BY <1>0, <2>2, <2>3, <2>4
    <3>2. \A a \in Ancestors[y] : a \in Alive /\ a < y /\ a \in Nat
      BY <1>0, <2>7
    <3>3. y \in Alive /\ y < x
      BY <2>5
    <3> HIDE DEF y, Bad
    <3>4. ASSUME NEW a \in Ancestors[x] PROVE a \in Alive /\ a < x
      BY <3>1, <3>2, <3>3
    <3> QED BY <3>4
  <2> QED BY <2>2, <2>8
<1> QED BY <1>1

\* Of two ancestors of a process, the one that has none is an ancestor of the other.
LEMMA Topmost ==
    ASSUME ProcsInv, Ordered, NEW q \in DOMAIN procs,
           NEW r \in Ancestors[q], NEW o \in Ancestors[q], Ancestors[r] = {}
    PROVE  o = r \/ r \in Ancestors[o]
<1> DEFINE Bad == {x \in DOMAIN procs : r \in Ancestors[x] /\ o \in Ancestors[x]}
<1> SUFFICES ASSUME o # r, r \notin Ancestors[o] PROVE FALSE
  OBVIOUS
<1>0. DOMAIN procs \subseteq Pids /\ DOMAIN procs \in SUBSET Nat
  BY DomainIsPids, AliveIsPids
<1>1. Bad \in SUBSET Nat /\ Bad # {}
  BY <1>0
<1>2. PICK x \in Bad : \A y \in Bad : x <= y
  <2> HIDE DEF Bad
  <2> QED BY <1>1, LeastNumber
<1> DEFINE y == procs[x].parent
<1>3. Ancestors[x] = IF y \in DOMAIN procs THEN {y} \cup Ancestors[y] ELSE {}
  BY <1>2, AncestorsAre DEF AncestorsBy, Lineage
<1>4. y \in DOMAIN procs
  BY <1>2, <1>3
<1>5. y < x
  BY <1>0, <1>2, <1>4 DEF Ordered
<1>6. r \in {y} \cup Ancestors[y] /\ o \in {y} \cup Ancestors[y]
  BY <1>2, <1>3, <1>4
<1>7. y \notin Bad
  BY <1>0, <1>2, <1>4, <1>5
<1> HIDE DEF y
<1> QED BY <1>4, <1>6, <1>7

\* What a step of one server does to the families: a process may lose its parent to
\* pid 1, and gets no other; none comes to life again.
FamiliesFollow ==
    /\ DOMAIN procs \subseteq DOMAIN procs'
    /\ \A p \in DOMAIN procs :
          /\ procs'[p].parent \in {procs[p].parent, Init1}
          /\ p \in Alive' => p \in Alive

\* A process gets no new ancestors.
LEMMA AncestorsShrink ==
    ASSUME ProcsInv, Ordered, ProcsInv', Ordered', FamiliesFollow, NEW q \in DOMAIN procs
    PROVE  Ancestors'[q] \subseteq Ancestors[q]
<1> DEFINE Bad == {x \in DOMAIN procs : ~(Ancestors'[x] \subseteq Ancestors[x])}
<1>0. /\ DOMAIN procs \subseteq Pids /\ DOMAIN procs \in SUBSET Nat /\ Alive \subseteq DOMAIN procs
      /\ DOMAIN procs' \subseteq Pids
  <2>1. (DOMAIN procs \subseteq Pids)'
    BY DomainIsPids, PTL
  <2> QED BY <2>1, DomainIsPids, AliveIsPids DEF Pids
<1>1. CASE Bad # {}
  <2>1. Bad \in SUBSET Nat
    BY <1>0
  <2>2. PICK x \in Bad : \A y \in Bad : x <= y
    <3> HIDE DEF Bad
    <3> QED BY <1>1, <2>1, LeastNumber
  <2>3. PICK z : z = procs'[x].parent
    OBVIOUS
  <2>4. x \in DOMAIN procs'
    BY <2>2 DEF FamiliesFollow
  <2>5. Lineage'
    BY AncestorsAre, PTL
  <2>6. Ancestors'[x] = IF z \in DOMAIN procs' THEN {z} \cup Ancestors'[z] ELSE {}
    BY <2>3, <2>4, <2>5 DEF AncestorsBy, Lineage
  <2>7. z \in DOMAIN procs'
    BY <2>2, <2>6
  <2>8. z = procs[x].parent /\ z \in Pids
    <3>1. z \in Pids /\ x \in DOMAIN procs
      BY <1>0, <2>2, <2>7
    <3>2. z \in {procs[x].parent, Init1}
      BY <2>3, <3>1 DEF FamiliesFollow
    <3> QED BY <3>1, <3>2, NoPid
  <2>9. z \in DOMAIN procs /\ z < x
    BY <1>0, <2>2, <2>8 DEF Ordered
  <2>10. Ancestors[x] = {z} \cup Ancestors[z]
    BY <2>2, <2>8, <2>9, AncestorsAre DEF AncestorsBy, Lineage
  <2>11. Ancestors'[z] \subseteq Ancestors[z]
    <3>1. ~(x <= z)
      BY <1>0, <2>2, <2>9
    <3> QED BY <2>2, <2>9, <3>1
  <2> QED BY <2>2, <2>6, <2>7, <2>10, <2>11
<1> QED BY <1>1

\* Nor does a tree get processes that were there before,
LEMMA TreesShrink ==
    ASSUME ProcsInv, Ordered, ProcsInv', Ordered', FamiliesFollow, NEW r
    PROVE  Tree(r)' \cap DOMAIN procs \subseteq Tree(r)
<1> SUFFICES ASSUME NEW q \in DOMAIN procs, q \in Tree(r)' PROVE q \in Tree(r)
  OBVIOUS
<1>1. q \in Alive' /\ (q = r \/ r \in Ancestors'[q])
  BY DEF Tree, Descendants
<1>2. q \in Alive /\ (q = r \/ r \in Ancestors[q])
  <2>1. Ancestors'[q] \subseteq Ancestors[q]
    BY AncestorsShrink
  <2>2. q \in Alive
    BY <1>1 DEF FamiliesFollow
  <2> QED BY <1>1, <2>1, <2>2
<1> QED BY <1>2 DEF Tree, Descendants

\* and a tree whose root is new has none.
LEMMA NewTreesAreNew ==
    ASSUME ProcsInv, Ordered, ProcsInv', Ordered', FamiliesFollow, NEW r, r \notin DOMAIN procs
    PROVE  Tree(r)' \cap DOMAIN procs = {}
<1>1. Alive \subseteq DOMAIN procs
  BY DEF Alive
<1> QED BY <1>1, AncestorsShrink, AncestorsAreOlder DEF Tree, Descendants

\* The steps, by what they do to the processes.
ProcessStep ==
    \/ UNCHANGED procs
    \/ /\ NextPid <= MaxPid
       /\ \E parent \in Alive \cup {Server}, leader \in 1..NextPid :
              procs' = Append(procs, Process(parent, leader))
    \/ \E S \in SUBSET Nat, how \in Ends : procs' = Ended(S, how)
    \/ Restart

LEMMA NextIsProcessStep == ASSUME Inv, [Next]_vars PROVE ProcessStep
<1>0. /\ ProcsInv /\ Alive \in SUBSET Nat /\ DOMAIN procs \in SUBSET Nat /\ NextPid \in 1..NextPid
      /\ StopInv /\ \A r \in Ranks : Rooted(r)
  BY AliveIsPids, DomainIsPids, ExecutionAssumption DEF Inv, Pids, NextPid
<1>1. CASE UNCHANGED procs
  BY <1>1 DEF ProcessStep
<1>2. ASSUME NEW p \in 1..MaxPid, Fork(p) PROVE ProcessStep
  <2>1. p \in DOMAIN procs /\ DOMAIN procs = 1..Len(procs) /\ Len(procs) \in Nat
    BY <1>0, <1>2, DomainIsPids DEF Fork, Alive
  <2>2. procs[p].leader \in Pids /\ procs[p].leader <= p
    <3>1. procs[p] \in ProcType /\ procs[p].leader <= p
      BY <1>0, <2>1 DEF ProcsInv
    <3> QED BY <3>1 DEF ProcType
  <2>3. procs[p].leader \in 1..NextPid
    BY <2>1, <2>2, ExecutionAssumption DEF NextPid, Pids
  <2> QED BY <1>2, <2>3 DEF Fork, ProcessStep
<1>3. ASSUME NEW p \in 1..MaxPid, Exit(p) PROVE ProcessStep
  <2>1. PICK how \in Ends : procs' = Ended({p}, how)
    BY <1>3 DEF Exit
  <2>2. {p} \in SUBSET Nat
    OBVIOUS
  <2> QED BY <2>1, <2>2 DEF ProcessStep
<1>4. CASE LaunchNative \/ LaunchRank
  <2>1. NextPid <= MaxPid /\ procs' = Append(procs, Process(Server, NextPid))
    BY <1>4 DEF LaunchNative, LaunchRank
  <2> QED BY <1>0, <2>1 DEF ProcessStep
<1>5. CASE StopKill
  <2>1. PICK s \in stopping : procs' = Ended(s.tree, "killed")
    BY <1>5 DEF StopKill
  <2>2. s.tree \in SUBSET Nat /\ "killed" \in Ends
    BY <1>0, <2>1 DEF StopInv, Ends
  <2> QED BY <2>1, <2>2 DEF ProcessStep
<1>6. CASE LaunchRankFails
  <2>1. UNION {Session(r) : r \in Ranks} \in SUBSET Nat /\ "killed" \in Ends
    BY <1>0 DEF Session, Ends
  <2> QED BY <1>6, <2>1 DEF LaunchRankFails, ProcessStep
<1>7. ASSUME NEW h \in DOMAIN handles, StopRanks(h) PROVE ProcessStep
  <2>0. PICK spared \in SUBSET (Reached(h) \ Running(h)) :
           procs' = Ended(Reached(h) \ spared, "killed")
    BY <1>7 DEF StopRanks
  <2> DEFINE S == Reached(h) \ spared
  <2>1. S \in SUBSET Nat /\ "killed" \in Ends
    BY <1>0 DEF Reached, Session, Ends
  <2>2. procs' = Ended(S, "killed")
    BY <2>0
  <2> HIDE DEF S
  <2> QED BY <2>1, <2>2 DEF ProcessStep
<1>8. ASSUME NEW p \in 1..MaxPid, SweepKill(p) PROVE ProcessStep
  <2>1. Tree(p) \in SUBSET Nat /\ "killed" \in Ends
    BY <1>0, TreeIsAlive DEF Ends
  <2> QED BY <1>8, <2>1 DEF SweepKill, ProcessStep
<1>9. CASE Restart
  BY <1>9 DEF ProcessStep
<1>10. ASSUME NEW h \in DOMAIN handles, GetStatusNative(h) \/ StopBegin(h) \/ GetStatusRanks(h)
       PROVE  UNCHANGED procs
  BY <1>10 DEF GetStatusNative, StopBegin, GetStatusRanks
<1>11. LaunchDone \/ SweepBegin \/ SweepScan \/ SweepEnd \/ UNCHANGED vars => UNCHANGED procs
  BY DEF LaunchDone, SweepBegin, SweepScan, SweepEnd, vars
<1> QED
  BY <1>1, <1>2, <1>3, <1>4, <1>5, <1>6, <1>7, <1>8, <1>9, <1>10, <1>11 DEF Next, Sweep

\* Every step keeps the order of the families, and but for a restart they follow.
LEMMA FamiliesKept ==
    ASSUME ProcsInv, Ordered, ProcessStep
    PROVE  Ordered' /\ (Restart \/ FamiliesFollow)
<1>0. /\ Len(procs) \in Nat /\ DOMAIN procs = 1..Len(procs) /\ DOMAIN procs \subseteq Pids
      /\ DOMAIN procs \in SUBSET Nat /\ procs \in Seq(ProcType)
      /\ Alive \subseteq Pids /\ Alive \in SUBSET Nat
  BY DomainIsPids, AliveIsPids DEF ProcsInv, Pids
<1>1. CASE UNCHANGED procs
  BY <1>1 DEF Ordered, FamiliesFollow, Alive
<1>2. ASSUME NextPid <= MaxPid, NEW parent \in Alive \cup {Server}, NEW leader \in 1..NextPid,
             procs' = Append(procs, Process(parent, leader))
      PROVE  Ordered' /\ FamiliesFollow
  <2>1. /\ NextPid = Len(procs) + 1 /\ DOMAIN procs' = DOMAIN procs \cup {NextPid}
        /\ procs'[NextPid] = Process(parent, leader)
    BY <1>0, <1>2, StartPersists DEF NextPid
  <2>2. \A p \in DOMAIN procs : procs'[p] = procs[p]
    BY <1>0, <1>2
  <2>3. FamiliesFollow /\ Alive \subseteq Alive'
    BY <2>1, <2>2 DEF FamiliesFollow, Alive
  <2>4. procs'[NextPid].parent = parent
    BY <2>1 DEF Process
  <2>5. ASSUME NEW p \in DOMAIN procs', procs'[p].parent \in Pids
        PROVE  procs'[p].parent \in Alive' /\ procs'[p].parent < p
    <3>1. CASE p = NextPid
      <4>1. parent \in Alive
        BY <2>4, <2>5, <3>1, ExecutionAssumption DEF Pids
      <4>2. parent < NextPid
        BY <1>0, <2>1, <4>1 DEF Alive
      <4> QED BY <2>3, <2>4, <3>1, <4>1, <4>2
    <3>2. CASE p \in DOMAIN procs
      BY <2>2, <2>3, <2>5, <3>2 DEF Ordered
    <3> QED BY <2>1, <2>5, <3>1, <3>2
  <2> QED BY <2>3, <2>5 DEF Ordered
<1>3. ASSUME NEW S \in SUBSET Nat, NEW how \in Ends, procs' = Ended(S, how)
      PROVE  Ordered' /\ FamiliesFollow
  <2>1. DOMAIN procs' = DOMAIN procs
    BY <1>3 DEF Ended
  <2>2. ASSUME NEW p \in DOMAIN procs
        PROVE  /\ procs'[p].parent = IF p \in S \/ procs[p].parent \in S THEN Init1 ELSE procs[p].parent
               /\ p \in Alive' <=> p \in Alive \ S
    <3>1. how # "running"
      BY DEF Ends
    <3> QED BY <1>3, <2>1, <3>1, OneEnds DEF Alive
  <2>3. FamiliesFollow
    BY <2>1, <2>2 DEF FamiliesFollow
  <2>4. ASSUME NEW p \in DOMAIN procs', procs'[p].parent \in Pids
        PROVE  procs'[p].parent \in Alive' /\ procs'[p].parent < p
    <3>1. p \in DOMAIN procs /\ procs'[p].parent = procs[p].parent /\ procs[p].parent \notin S
      BY <2>1, <2>2, <2>4, ExecutionAssumption DEF Pids
    <3>2. procs[p].parent \in Alive /\ procs[p].parent < p
      BY <2>4, <3>1 DEF Ordered
    <3> QED BY <2>2, <3>1, <3>2 DEF Alive
  <2> QED BY <2>3, <2>4 DEF Ordered
<1>4. CASE Restart
  <2>1. /\ DOMAIN procs' = DOMAIN procs
        /\ procs' = [p \in DOMAIN procs |->
                        [procs[p] EXCEPT !.status = IF @ = "running" THEN @ ELSE "gone",
                                         !.parent = IF @ = Server THEN Init1 ELSE @]]
    BY <1>4 DEF Restart
  <2>2. ASSUME NEW p \in DOMAIN procs
        PROVE  /\ procs'[p].parent = IF procs[p].parent = Server THEN Init1 ELSE procs[p].parent
               /\ procs[p].status = "running" => procs'[p].status = "running"
    <3>1. procs[p] \in ProcType
      BY <1>0
    <3> QED BY <2>1, <3>1 DEF ProcType
  <2>3. Alive \subseteq Alive'
    BY <2>1, <2>2 DEF Alive
  <2>4. ASSUME NEW p \in DOMAIN procs', procs'[p].parent \in Pids
        PROVE  procs'[p].parent \in Alive' /\ procs'[p].parent < p
    <3>1. p \in DOMAIN procs /\ procs'[p].parent = procs[p].parent
      <4>1. p \in DOMAIN procs
        BY <2>1
      <4> QED BY <2>2, <2>4, <4>1, NoPid
    <3> QED BY <2>3, <2>4, <3>1 DEF Ordered
  <2> QED BY <1>4, <2>4 DEF Ordered
<1> QED BY <1>1, <1>2, <1>3, <1>4 DEF ProcessStep

-----------------------------------------------------------------------------
(* What the sweeper spares *)

\* The snapshot has the processes that native jobs had when the sweep began; what
\* a native job had then is no orphan, though it may have forked orphans since.
SparesInv ==
    /\ \A p \in born : 1..p \subseteq born
    /\ \A h \in Of("native") :
          /\ sweep = "scan" => born \cap Tree(Root(h)) \subseteq active
          /\ sweep = "kill" => orphans \cap born \cap Tree(Root(h)) = {}

\* A native job keeps its root process; that of a new one is new.
RootsFollow ==
    \A h \in Of("native")' : \/ h \in Of("native") /\ Root(h)' = Root(h)
                            \/ Root(h)' \notin DOMAIN procs

LEMMA RootsKept == ASSUME Inv, [Next]_vars, ~Restart PROVE RootsFollow
<1>0. /\ handles \in Seq(HandleType) /\ DOMAIN procs = 1..Len(procs) /\ Len(procs) \in Nat
  BY DomainIsPids DEF Inv
<1>1. CASE UNCHANGED handles
  BY <1>1 DEF RootsFollow, Of, Root
<1>2. ASSUME NEW g, NEW o, handles' = [handles EXCEPT ![g].outcome = o]
      PROVE  RootsFollow
  <2>1. ASSUME NEW h \in DOMAIN handles'
        PROVE  /\ h \in DOMAIN handles /\ handles'[h].backend = handles[h].backend
               /\ handles'[h].roots = handles[h].roots
    <3>1. h \in DOMAIN handles
      BY <1>2, <2>1
    <3>2. handles[h] \in HandleType
      BY <1>0, <3>1
    <3>3. handles'[h] = IF h = g THEN [handles[h] EXCEPT !.outcome = o] ELSE handles[h]
      BY <1>2, <3>1
    <3> QED BY <3>1, <3>2, <3>3 DEF HandleType
  <2> QED BY <2>1 DEF RootsFollow, Of, Root
<1>3. ASSUME NEW backend, NEW roots, handles' = Append(handles, Handle(backend, roots)),
             backend = "native" => Head(roots) \notin DOMAIN procs
      PROVE  RootsFollow
  <2> DEFINE hd == Handle(backend, roots)
  <2>1. hd.backend = backend /\ hd.roots = roots
    BY DEF Handle
  <2> HIDE DEF hd
  <2>2. \A h \in DOMAIN handles' : \/ h \in DOMAIN handles /\ handles'[h] = handles[h]
                                  \/ handles'[h] = hd
    BY <1>0, <1>3 DEF hd
  <2> QED BY <1>3, <2>1, <2>2 DEF RootsFollow, Of, Root
<1>4. CASE LaunchNative
  <2>1. Head(<<NextPid>>) \notin DOMAIN procs
    BY <1>0 DEF NextPid
  <2> QED BY <1>3, <1>4, <2>1 DEF LaunchNative
<1>5. CASE LaunchDone
  BY <1>3, <1>5 DEF LaunchDone
<1>6. ASSUME NEW h \in DOMAIN handles, GetStatusNative(h) \/ GetStatusRanks(h) \/ StopRanks(h)
      PROVE  RootsFollow
  BY <1>2, <1>6 DEF GetStatusNative, GetStatusRanks, StopRanks
<1>7. CASE StopKill
  BY <1>2, <1>7 DEF StopKill
<1>8. ASSUME NEW h \in DOMAIN handles, StopBegin(h) PROVE UNCHANGED handles
  BY <1>8 DEF StopBegin
<1>9. ASSUME NEW p \in 1..MaxPid, Fork(p) \/ Exit(p) \/ SweepKill(p) PROVE UNCHANGED handles
  BY <1>9 DEF Fork, Exit, SweepKill, backends
<1>10. LaunchRank \/ LaunchRankFails \/ SweepBegin \/ SweepScan \/ SweepEnd \/ UNCHANGED vars
         => UNCHANGED handles
  BY DEF LaunchRank, LaunchRankFails, SweepBegin, SweepScan, SweepEnd, vars, backends
<1> QED BY <1>1, <1>4, <1>5, <1>6, <1>7, <1>8, <1>9, <1>10 DEF Next, Sweep

LEMMA OthersLeaveTheSweeper ==
    ASSUME [Next]_vars, ~Sweep, ~Restart PROVE UNCHANGED sweeper
BY DEF Next, Fork, Exit, GetStatusNative, StopBegin, GetStatusRanks, StopRanks, LaunchNative,
       StopKill, LaunchRank, LaunchRankFails, LaunchDone, vars

\* A native job whose outcome is known has no processes; the others are managed.
LEMMA NativeTreesAreManaged ==
    ASSUME Inv, Ordered, NEW h \in Of("native")
    PROVE  Tree(Root(h)) \subseteq ManagedTrees
<1>1. Rooted(Root(h)) /\ Roots(h) = {Root(h)} /\ h \in DOMAIN handles /\ handles[h].backend = "native"
  BY NativeRoot
<1>2. CASE handles[h].outcome = "RUNNING"
  BY <1>2 DEF ManagedTrees
<1>3. CASE handles[h].outcome # "RUNNING"
  <2>1. handles[h] \in HandleType /\ HandleInv(h)
    BY <1>1 DEF Inv
  <2>2. procs[Root(h)].status # "running"
    BY <1>1, <1>3, <2>1 DEF HandleInv, Truthful, HandleType
  <2>3. Root(h) \notin Alive
    BY <2>2 DEF Alive
  <2>4. \A q \in Alive : Root(h) \notin Ancestors[q]
    BY <2>3, AncestorsAreOlder DEF Inv, Alive
  <2> QED BY <2>3, <2>4 DEF Tree, Descendants
<1> QED BY <1>2, <1>3

LEMMA SparesKept ==
    ASSUME Inv, Ordered, SparesInv, [Next]_vars, Inv', Ordered'
    PROVE  SparesInv'
<1>0. ProcsInv /\ ProcsInv' /\ SweepInv
  BY DEF Inv
<1>1. CASE Restart
  BY <1>1 DEF Restart, SparesInv
<1>2. CASE ~Restart
  <2>1. FamiliesFollow /\ RootsFollow
    BY <1>0, <1>2, NextIsProcessStep, FamiliesKept, RootsKept
  <2>2. ASSUME NEW h \in Of("native")'
        PROVE  \/ h \in Of("native") /\ Tree(Root(h))' \cap DOMAIN procs \subseteq Tree(Root(h))
               \/ Tree(Root(h))' \cap DOMAIN procs = {}
    <3>1. PICK r : r = Root(h)'
      OBVIOUS
    <3>2. Tree(Root(h))' = Tree(r)'
      BY <3>1 DEF Tree, Descendants
    <3>3. CASE h \in Of("native") /\ r = Root(h)
      BY <1>0, <2>1, <3>2, <3>3, TreesShrink
    <3>4. CASE r \notin DOMAIN procs
      BY <1>0, <2>1, <3>2, <3>4, NewTreesAreNew
    <3> QED BY <2>1, <3>1, <3>3, <3>4 DEF RootsFollow
  <2>3. CASE UNCHANGED sweeper
    BY <1>0, <2>2, <2>3 DEF SparesInv, SweepInv, sweeper
  <2>4. CASE SweepBegin
    <3>1. sweep' = "scan" /\ active' = ManagedTrees /\ born' = DOMAIN procs
      BY <2>4 DEF SweepBegin
    <3>2. \A p \in born' : 1..p \subseteq born'
      BY <1>0, <3>1, DomainIsPids
    <3>3. \A h \in Of("native")' : born' \cap Tree(Root(h))' \subseteq active'
      BY <2>2, <3>1, NativeTreesAreManaged
    <3> QED BY <3>1, <3>2, <3>3 DEF SparesInv
  <2>5. CASE SweepScan
    <3>1. sweep = "scan" /\ sweep' = "kill" /\ UNCHANGED born /\ orphans' \cap active = {}
      BY <2>5 DEF SweepScan, Orphans
    <3> QED BY <1>0, <2>2, <3>1 DEF SparesInv, SweepInv
  <2>6. CASE SweepEnd
    BY <2>6 DEF SweepEnd, SparesInv
  <2>7. ASSUME NEW p \in 1..MaxPid, SweepKill(p) PROVE SparesInv'
    <3>1. sweep = "kill" /\ sweep' = "kill" /\ UNCHANGED born /\ orphans' \subseteq orphans
      BY <2>7 DEF SweepKill
    <3> QED BY <1>0, <2>2, <3>1 DEF SparesInv, SweepInv
  <2> QED BY <1>2, <2>3, <2>4, <2>5, <2>6, <2>7, OthersLeaveTheSweeper DEF Sweep
<1> QED BY <1>1, <1>2

\* No managed process that was there when the sweep began descends from an orphan:
\* the orphan would be older, hence there as well, and descend from the same root.
LEMMA OrphansHaveNoManaged ==
    ASSUME Inv, Ordered, SparesInv, sweep = "kill", NEW o \in orphans
    PROVE  born \cap ManagedTrees \cap Tree(o) = {}
<1> SUFFICES ASSUME NEW p \in born, p \in ManagedTrees, p \in Tree(o) PROVE FALSE
  OBVIOUS
<1>0. ProcsInv /\ SweepInv /\ DOMAIN procs \subseteq Pids /\ Alive \subseteq DOMAIN procs /\ DOMAIN procs \in SUBSET Nat
  BY DomainIsPids, AliveIsPids DEF Inv
<1>1. PICK h \in Of("native") : p \in Tree(Root(h))
  BY DEF ManagedTrees
<1>2. PICK r : r = Root(h)
  OBVIOUS
<1>3. p \in Alive /\ (p = r \/ r \in Ancestors[p]) /\ (p = o \/ o \in Ancestors[p])
  BY <1>1, <1>2 DEF Tree, Descendants
<1>4. Ancestors[p] \subseteq {a \in Alive : a < p}
  BY <1>0, <1>3, AncestorsAreOlder
<1>5. r \in Alive /\ o \in Alive /\ o <= p
  BY <1>0, <1>3, <1>4
<1>6. Ancestors[r] = {}
  <2>1. Rooted(r)
    BY <1>2, NativeRoot
  <2>2. procs[r].parent = Server
    BY <1>5, <2>1 DEF Rooted, Alive
  <2>3. procs[r].parent \notin DOMAIN procs
    BY <1>0, <2>2, NoPid
  <2> QED BY <1>0, <1>5, <2>3, AncestorsAre DEF Lineage, AncestorsBy
<1>7. o = r \/ r \in Ancestors[o]
  BY <1>0, <1>3, <1>6, Topmost
<1>8. o \in Tree(r)
  BY <1>5, <1>7 DEF Tree, Descendants
<1>9. o \in born
  <2>1. o \in 1..p
    BY <1>0, <1>5 DEF Pids
  <2> QED BY <2>1 DEF SparesInv
<1> QED BY <1>1, <1>2, <1>8, <1>9 DEF SparesInv

\* The sweeper spares the processes of the native jobs that run and were there when
\* it took its snapshot, whatever is launched, forked, stopped or ends meanwhile.
THEOREM SweepSpares == Spec => SweepSparesJobs
<1>1. Init => Ordered /\ SparesInv
  BY DEF Init, Ordered, SparesInv, Of
<1>2. Inv /\ Ordered /\ SparesInv /\ [Next]_vars /\ Inv' => (Ordered /\ SparesInv)'
  <2> SUFFICES ASSUME Inv, Ordered, SparesInv, [Next]_vars, Inv' PROVE Ordered' /\ SparesInv'
    OBVIOUS
  <2>1. Ordered'
    BY NextIsProcessStep, FamiliesKept DEF Inv
  <2> QED BY <2>1, SparesKept
<1>3. Inv /\ Ordered /\ SparesInv /\ [Next]_vars
         => [(sweep' = "kill" /\ orphans' # orphans) =>
                \A p \in born \cap ManagedTrees : procs'[p].status = "running"]_vars
  <2> SUFFICES ASSUME Inv, Ordered, SparesInv, [Next]_vars, sweep' = "kill", orphans' # orphans,
                      NEW p \in born \cap ManagedTrees
               PROVE  procs'[p].status = "running"
    OBVIOUS
  <2>0. p \in Alive
    BY TreeIsAlive DEF ManagedTrees
  <2>1. SweepScan \/ \E o \in 1..MaxPid : SweepKill(o)
    <3>1. ~Restart /\ ~SweepBegin /\ ~SweepEnd
      BY DEF Restart, SweepBegin, SweepEnd
    <3>2. orphans' = orphans => FALSE
      OBVIOUS
    <3> QED BY <3>1, <3>2, OthersLeaveTheSweeper DEF Sweep, sweeper
  <2>2. CASE SweepScan
    BY <2>0, <2>2 DEF SweepScan, Alive
  <2>3. ASSUME NEW o \in 1..MaxPid, SweepKill(o) PROVE procs'[p].status = "running"
    <3>1. sweep = "kill" /\ o \in orphans /\ procs' = Ended(Tree(o), "killed")
      BY <2>3 DEF SweepKill
    <3>2. p \notin Tree(o)
      BY <3>1, OrphansHaveNoManaged
    <3>3. Tree(o) \in SUBSET Nat /\ "killed" \in Ends /\ p \in DOMAIN procs /\ ProcsInv
      BY <2>0, TreeIsAlive, AliveIsPids DEF Inv, Ends, Alive
    <3>4. Ended(Tree(o), "killed")[p].status = procs[p].status
      BY <3>2, <3>3, OneEnds
    <3> QED BY <2>0, <3>1, <3>4 DEF Alive
  <2> QED BY <2>1, <2>2, <2>3
<1> QED BY <1>1, <1>2, <1>3, Invariance, PTL DEF Spec, SweepSparesJobs
=============================================================================
