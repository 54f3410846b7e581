----------------------------- MODULE Membership -----------------------------
(***************************************************************************)
(* How worker nodes join and leave: the WorkerAgent, the HTTP client it    *)
(* registers and sends its heartbeats with, and the handlers of the        *)
(* APIServer, which keep two tables of workers, the one of the             *)
(* ResourceManager and the WorkerRegistry.                                 *)
(*                                                                         *)
(* A handler awaits a thread for each table, so that two handlers          *)
(* interleave between the tables.  The client gives up after its timeout   *)
(* and the handler goes on.  An agent runs on one event loop, blocks in    *)
(* its calls, and looks at none of their results.                          *)
(***************************************************************************)
EXTENDS WorkerRegistry, Naturals

CONSTANTS
    MaxLosses,          \* bound: requests that fail or time out
    MaxServerRestarts   \* bound: restarts of the server

ASSUME MemberBounds == MaxLosses \in Nat /\ MaxServerRestarts \in Nat

VARIABLES
    hasRegistry,    \* APIServer was given a worker_registry (drigs server gives none)
    manager,        \* status of w in ResourceManager._workers
    agent,          \* agent[w]: where the agent of w is
    requests,       \* HTTP requests on their way or in a handler
    losses,         \* (bound) requests given up so far
    overlapped,     \* (history) a deregistration was under way with another request of its worker
    serverRestarts  \* (bound)

memberVars == <<hasRegistry, manager, agent, requests, losses, overlapped, serverRestarts>>

AgentStates == {"down", "registering", "first beat", "asleep", "beating"}

Request(kind, w) == [kind |-> kind, worker |-> w, at |-> "sent", awaited |-> kind # "deregister", n |-> 0]

MemberInit ==
    /\ RegistryInit
    /\ hasRegistry \in BOOLEAN
    /\ manager = [w \in Workers |-> NotRegistered]
    /\ agent = [w \in Workers |-> "down"]
    /\ requests = {} /\ losses = 0 /\ overlapped = FALSE /\ serverRestarts = 0

-----------------------------------------------------------------------------
(* WorkerAgent and RemoteHTTPWorkerRegistryClient *)

Send(r) ==
    /\ requests' = requests \cup {r}
    /\ overlapped' = (overlapped \/ \E q \in requests : /\ q.worker = r.worker
                                                        /\ "deregister" \in {q.kind, r.kind})

Awaited(w) == {r \in requests : r.worker = w /\ r.awaited}

\* start() registers the worker,
AgentStart(w) ==
    /\ agent[w] = "down"
    /\ agent' = [agent EXCEPT ![w] = "registering"]
    /\ Send(Request("register", w))
    /\ UNCHANGED <<registryVars, hasRegistry, manager, losses, serverRestarts>>

\* sends a first heartbeat whether that worked or not,
AgentFirstBeat(w) ==
    /\ agent[w] = "registering" /\ Awaited(w) = {}
    /\ agent' = [agent EXCEPT ![w] = "first beat"]
    /\ Send(Request("heartbeat", w))
    /\ UNCHANGED <<registryVars, hasRegistry, manager, losses, serverRestarts>>

\* Mutant: an answer that did not come ends the loop.
AgentSleepsIfHeard(w) ==
    /\ agent[w] \in {"first beat", "beating"} /\ Awaited(w) = {} /\ losses = 0
    /\ agent' = [agent EXCEPT ![w] = "asleep"]
    /\ UNCHANGED <<registryVars, hasRegistry, manager, requests, losses, overlapped, serverRestarts>>

\* and goes on to the heartbeat loop, which sleeps
AgentSleeps(w) ==
    /\ agent[w] \in {"first beat", "beating"} /\ Awaited(w) = {}
    /\ agent' = [agent EXCEPT ![w] = "asleep"]
    /\ UNCHANGED <<registryVars, hasRegistry, manager, requests, losses, overlapped, serverRestarts>>

\* and sends the next heartbeat.
AgentBeats(w) ==
    /\ agent[w] = "asleep"
    /\ agent' = [agent EXCEPT ![w] = "beating"]
    /\ Send(Request("heartbeat", w))
    /\ UNCHANGED <<registryVars, hasRegistry, manager, losses, serverRestarts>>

\* stop(), or the end of the process: nobody is told.
AgentStops(w) ==
    /\ agent[w] = "asleep"
    /\ agent' = [agent EXCEPT ![w] = "down"]
    /\ UNCHANGED <<registryVars, hasRegistry, manager, requests, losses, overlapped, serverRestarts>>

\* The agent's process ends while it waits for an answer.
AgentDies(w) ==
    /\ agent[w] \in {"registering", "first beat", "beating"}
    /\ losses < MaxLosses
    /\ losses' = losses + 1
    /\ agent' = [agent EXCEPT ![w] = "down"]
    /\ requests' = (requests \ Awaited(w)) \cup
                       {[r EXCEPT !.awaited = FALSE, !.n = losses + 1] : r \in Awaited(w)}
    /\ UNCHANGED <<registryVars, hasRegistry, manager, overlapped, serverRestarts>>

\* An operator has a worker deregistered.
OperatorDeregisters(w) ==
    /\ \A r \in requests : ~(r.kind = "deregister" /\ r.worker = w)
    /\ Send(Request("deregister", w))
    /\ UNCHANGED <<registryVars, hasRegistry, manager, agent, losses, serverRestarts>>

\* The client gets an error or a timeout and reports False: the request never
\* arrived, or its handler is still to come or to end.
GivesUp(r) ==
    /\ r \in requests /\ r.awaited
    /\ losses < MaxLosses
    /\ losses' = losses + 1
    /\ \/ r.at = "sent" /\ requests' = requests \ {r}
       \/ requests' = (requests \ {r}) \cup {[r EXCEPT !.awaited = FALSE, !.n = losses + 1]}
    /\ UNCHANGED <<registryVars, hasRegistry, manager, agent, overlapped, serverRestarts>>

-----------------------------------------------------------------------------
(* The handlers of APIServer *)

Goes(r, at) == requests' = (requests \ {r}) \cup {[r EXCEPT !.at = at]}

Answered(r) == requests' = requests \ {r}

Handles(r, kind, at) ==
    /\ r \in requests /\ r.kind = kind /\ r.at = at
    /\ UNCHANGED <<hasRegistry, agent, losses, overlapped, serverRestarts>>

\* The registry is asked only if there is one.
IfRegistry(A) == IF hasRegistry THEN A ELSE UNCHANGED registryVars

\* register_worker: the manager first,
RegisterInManager(r) ==
    /\ Handles(r, "register", "sent")
    /\ manager' = [manager EXCEPT ![r.worker] = "HEALTHY"]
    /\ Goes(r, "registry")
    /\ UNCHANGED registryVars

\* then the registry; last_heartbeat is the agent's, and may be old by now.
RegisterInRegistry(r) ==
    /\ Handles(r, "register", "registry")
    /\ IfRegistry(\E inTime \in BOOLEAN : Register(r.worker, "HEALTHY", inTime))
    /\ Answered(r)
    /\ UNCHANGED manager

\* worker_heartbeat: the registry first, which ignores a worker it does not know,
BeatInRegistry(r) ==
    /\ Handles(r, "heartbeat", "sent")
    /\ IfRegistry(IF Registered(r.worker) THEN Heartbeat(r.worker, "HEALTHY") ELSE UNCHANGED registryVars)
    /\ Goes(r, "read")
    /\ UNCHANGED manager

\* then the manager's table is read without its lock,
BeatReadsManager(r) ==
    /\ Handles(r, "heartbeat", "read")
    /\ IF manager[r.worker] = NotRegistered THEN Answered(r) ELSE Goes(r, "write")
    /\ UNCHANGED <<registryVars, manager>>

\* and what was read is registered again with the new status.
BeatInManager(r) ==
    /\ Handles(r, "heartbeat", "write")
    /\ manager' = [manager EXCEPT ![r.worker] = "HEALTHY"]
    /\ Answered(r)
    /\ UNCHANGED registryVars

DeregisterInManager(r) ==
    /\ Handles(r, "deregister", "sent")
    /\ manager' = [manager EXCEPT ![r.worker] = NotRegistered]
    /\ Goes(r, "registry")
    /\ UNCHANGED registryVars

\* Mutant: the registry keeps the worker.
DeregisterInManagerOnly(r) ==
    /\ Handles(r, "deregister", "registry")
    /\ Answered(r)
    /\ UNCHANGED <<registryVars, manager>>

DeregisterInRegistry(r) ==
    /\ Handles(r, "deregister", "registry")
    /\ IfRegistry(IF Registered(r.worker) THEN Deregister(r.worker) ELSE UNCHANGED registryVars)
    /\ Answered(r)
    /\ UNCHANGED manager

\* GET /v1/workers.  Without a registry the manager's table is the answer,
\* whatever the workers' state.
ListWorkers ==
    /\ IF hasRegistry THEN GetActiveWorkers
       ELSE /\ active' = {w \in Workers : manager[w] # NotRegistered}
            /\ UNCHANGED <<health, recent, dbHealth>>
    /\ UNCHANGED memberVars

HeartbeatExpires == (\E w \in Workers : Expire(w)) /\ UNCHANGED memberVars

\* A new server: nothing gives the registry a storage_backend, so it is empty;
\* the manager has its workers back if its controller has a store.  Requests that
\* were being handled fail.
ServerRestart ==
    /\ serverRestarts < MaxServerRestarts
    /\ serverRestarts' = serverRestarts + 1
    /\ health' = [w \in Workers |-> NotRegistered]
    /\ dbHealth' = health'
    /\ recent' = [w \in Workers |-> FALSE]
    /\ active' = {}
    /\ manager' \in {manager, [w \in Workers |-> NotRegistered]}
    /\ requests' = {r \in requests : r.at = "sent"}
    /\ UNCHANGED <<hasRegistry, agent, losses, overlapped>>

-----------------------------------------------------------------------------

Handler(r) ==
    \/ RegisterInManager(r) \/ RegisterInRegistry(r)
    \/ BeatInRegistry(r) \/ BeatReadsManager(r) \/ BeatInManager(r)
    \/ DeregisterInManager(r) \/ DeregisterInRegistry(r)

AgentSteps(w) == AgentFirstBeat(w) \/ AgentSleeps(w) \/ AgentBeats(w)

MemberNext ==
    \/ \E w \in Workers : \/ AgentStart(w) \/ AgentSteps(w) \/ AgentStops(w) \/ AgentDies(w)
                          \/ OperatorDeregisters(w)
    \/ \E r \in requests : GivesUp(r) \/ Handler(r)
    \/ ListWorkers \/ HeartbeatExpires \/ ServerRestart

\* The handler that the agent of w waits for.
AwaitedHandler(w) == \E r \in Awaited(w) : Handler(r)

MemberTypeOK ==
    /\ RegistryTypeOK
    /\ manager \in [Workers -> {NotRegistered, "HEALTHY"}]
    /\ agent \in [Workers -> AgentStates]
    /\ \A w \in Workers : Cardinality(Awaited(w)) <= 1
    /\ losses \in 0..MaxLosses
    /\ serverRestarts \in 0..MaxServerRestarts

\* The two tables of workers have the same members whenever no request is being
\* handled, although no lock spans them, requests time out and are repeated, and
\* heartbeats rewrite what they have read before: unless a deregistration met
\* another request of its worker, or the server has restarted.
TablesAgreeAtRest ==
    (requests = {} /\ hasRegistry /\ ~overlapped /\ serverRestarts = 0) =>
        \A w \in Workers : Registered(w) <=> manager[w] # NotRegistered

\* A worker that was marked OFFLINE is not lost while its agent runs: requests
\* that fail, time out or are answered late do not end the agent's loop, and the
\* next heartbeat that arrives takes the mark away, unless the worker is
\* deregistered or the agent stops.
OfflineComesBack ==
    \A w \in Workers :
        (health[w] = "OFFLINE" /\ agent[w] # "down")
            ~> (health[w] # "OFFLINE" \/ agent[w] = "down")
=============================================================================
