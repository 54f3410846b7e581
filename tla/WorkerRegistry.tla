--------------------------- MODULE WorkerRegistry ---------------------------
(***************************************************************************)
(* drigs/workers/registry.py: which worker nodes are known, their health,  *)
(* and whether they were heard from lately, with the rows of table workers *)
(* that registrations and heartbeats are written through to.               *)
(*                                                                         *)
(* Time is abstracted to what check_timeouts asks of it: recent[w] is true *)
(* while last_heartbeat of w is at most timeout_seconds old.  The row of a *)
(* worker always has the last_heartbeat of the WorkerInfo in memory, so    *)
(* recent serves for both.  Every method runs under one RLock and is one   *)
(* action.                                                                 *)
(***************************************************************************)
EXTENDS FiniteSets

CONSTANTS
    Workers,        \* worker ids
    NotRegistered   \* health of a worker that is not in _workers, or has no row

\* The states that are reported of a worker.  The API would hand on OFFLINE as well
\* (server.py:166), but its clients are agents, which send their own status
\* (agent.py:71): OFFLINE is given by the registry alone.
Reported == {"HEALTHY", "DEGRADED", "UNAVAILABLE"}

Healths == Reported \cup {"OFFLINE"}

ASSUME NotRegisteredAssumption == NotRegistered \notin Healths

VARIABLES
    health,     \* health[w]: status of the WorkerInfo of w
    recent,     \* recent[w]: its last_heartbeat has not timed out
    dbHealth,   \* health[w] in the row of w
    active      \* what the last call of get_active_workers returned

registryVars == <<health, recent, dbHealth, active>>

Registered(w) == health[w] # NotRegistered

\* What check_timeouts returns: the workers it finds timed out that are not
\* OFFLINE yet.
TimedOut == {w \in Workers : Registered(w) /\ ~recent[w] /\ health[w] # "OFFLINE"}

\* The table once check_timeouts has gone over it.
Checked == [w \in Workers |-> IF w \in TimedOut THEN "OFFLINE" ELSE health[w]]

\* The row of w in table workers.
SaveWorker(w, s) == dbHealth' = [dbHealth EXCEPT ![w] = s]

DeleteWorker(w) == dbHealth' = [dbHealth EXCEPT ![w] = NotRegistered]

RegistryInit ==
    /\ health = [w \in Workers |-> NotRegistered]
    /\ recent = [w \in Workers |-> FALSE]
    /\ dbHealth = health
    /\ active = {}

\* The last_heartbeat of the WorkerInfo is taken over: an agent that registers
\* again sends the time of the last heartbeat it sent, however long ago.
Register(w, s, inTime) ==
    /\ health' = [health EXCEPT ![w] = s]
    /\ recent' = [recent EXCEPT ![w] = inTime]
    /\ SaveWorker(w, s)
    /\ UNCHANGED active

Heartbeat(w, s) ==
    /\ Registered(w)
    /\ health' = [health EXCEPT ![w] = s]
    /\ recent' = [recent EXCEPT ![w] = TRUE]
    /\ SaveWorker(w, s)
    /\ UNCHANGED active

Deregister(w) ==
    /\ Registered(w)
    /\ health' = [health EXCEPT ![w] = NotRegistered]
    /\ recent' = [recent EXCEPT ![w] = FALSE]
    /\ DeleteWorker(w)
    /\ UNCHANGED active

\* timeout_seconds pass without a heartbeat.
Expire(w) ==
    /\ recent[w]
    /\ recent' = [recent EXCEPT ![w] = FALSE]
    /\ UNCHANGED <<health, dbHealth, active>>

\* Mutant: the row gets the mark.
CheckTimeoutsSaved ==
    /\ health' = Checked
    /\ dbHealth' = Checked
    /\ UNCHANGED recent

\* OFFLINE is not written to the row.
CheckTimeouts ==
    /\ health' = Checked
    /\ UNCHANGED <<recent, dbHealth>>

\* get_active_workers, for the API, the dispatcher and the metrics.  Like
\* get_worker and get_all_workers it checks the timeouts first, and drops the
\* list of those it found.
GetActiveWorkers ==
    /\ CheckTimeouts
    /\ active' = {w \in Workers : Checked[w] \in {"HEALTHY", "DEGRADED"}}

\* A new process: __init__ and load_from_storage.
RegistryRestart ==
    /\ health' = dbHealth
    /\ active' = {}
    /\ UNCHANGED <<recent, dbHealth>>

RegistryTypeOK ==
    /\ health \in [Workers -> Healths \cup {NotRegistered}]
    /\ recent \in [Workers -> BOOLEAN]
    /\ dbHealth \in [Workers -> Reported \cup {NotRegistered}]
    /\ active \subseteq Workers
=============================================================================
