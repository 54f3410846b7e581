------------------------- MODULE NodeServicesProofs -------------------------
(***************************************************************************)
(* Theorems about the services around the scheduling of jobs, for every    *)
(* set of workers, jobs, files, GPUs, threads and tasks, and every bound   *)
(* on losses, restarts, launches and steps.  Each service has an invariant *)
(* of its own; a step of one leaves the variables of the others alone.     *)
(***************************************************************************)
EXTENDS NodeServices, SetLemmas

-----------------------------------------------------------------------------
(* The WorkerRegistry *)

\* A worker is marked OFFLINE only while it is silent: what is heard from it
\* takes the mark away.
RegistryInv ==
    /\ RegistryTypeOK
    /\ \A w \in Workers : health[w] = "OFFLINE" => ~recent[w]

\* The methods of the registry, and the registry of a new server.
RegistryStep ==
    \/ \E w \in Workers, s \in Reported, inTime \in BOOLEAN : Register(w, s, inTime)
    \/ \E w \in Workers, s \in Reported : Heartbeat(w, s)
    \/ \E w \in Workers : Deregister(w) \/ Expire(w)
    \/ CheckTimeouts /\ UNCHANGED active
    \/ GetActiveWorkers
    \/ /\ health' = [w \in Workers |-> NotRegistered] /\ dbHealth' = health'
       /\ recent' = [w \in Workers |-> FALSE] /\ active' = {}
    \/ active' \subseteq Workers /\ UNCHANGED <<health, recent, dbHealth>>

LEMMA RegistryKept == ASSUME RegistryInv, RegistryStep PROVE RegistryInv'
<1> USE DEF RegistryInv, RegistryTypeOK, Healths, Reported
<1>1. ASSUME NEW w \in Workers, NEW s \in Reported, NEW inTime \in BOOLEAN, Register(w, s, inTime)
      PROVE  RegistryInv'
  BY <1>1 DEF Register, SaveWorker
<1>2. ASSUME NEW w \in Workers, NEW s \in Reported, Heartbeat(w, s) PROVE RegistryInv'
  BY <1>2 DEF Heartbeat, SaveWorker
<1>3. ASSUME NEW w \in Workers, Deregister(w) \/ Expire(w) PROVE RegistryInv'
  BY <1>3 DEF Deregister, Expire, DeleteWorker
<1>4. CASE CheckTimeouts /\ active' \subseteq Workers
  BY <1>4 DEF CheckTimeouts, Checked, TimedOut
<1>5. GetActiveWorkers => active' \subseteq Workers /\ CheckTimeouts
  BY DEF GetActiveWorkers
<1>6. CASE /\ health' = [w \in Workers |-> NotRegistered] /\ dbHealth' = health'
           /\ recent' = [w \in Workers |-> FALSE] /\ active' = {}
  BY <1>6
<1>7. CASE active' \subseteq Workers /\ UNCHANGED <<health, recent, dbHealth>>
  BY <1>7
<1> QED
  BY <1>1, <1>2, <1>3, <1>4, <1>5, <1>6, <1>7 DEF RegistryStep

-----------------------------------------------------------------------------
(* Membership *)

RequestType ==
    [kind : {"register", "heartbeat", "deregister"}, worker : Workers,
     at : {"sent", "registry", "read", "write"}, awaited : BOOLEAN, n : Nat]

\* An agent waits for one answer at a time, and for none while it sleeps.
RequestsInv ==
    /\ requests \subseteq RequestType
    /\ \A q, r \in requests : q.worker = r.worker /\ q.awaited /\ r.awaited => q = r
    /\ \A r \in requests : r.awaited => agent[r.worker] \notin {"down", "asleep"}

Joining(w) == \E r \in requests : r.worker = w /\ r.kind = "register" /\ r.at = "registry"

Leaving(w) == \E r \in requests : r.worker = w /\ r.kind = "deregister" /\ r.at = "registry"

Rewriting(w) == \E r \in requests : r.worker = w /\ r.kind = "heartbeat" /\ r.at = "write"

\* Where the two tables differ on w, a handler is between them.
Agree(w) ==
    /\ Registered(w) /\ ~Leaving(w) => manager[w] # NotRegistered
    /\ manager[w] # NotRegistered /\ ~Joining(w) => Registered(w)
    /\ Leaving(w) => manager[w] = NotRegistered
    /\ Joining(w) \/ Rewriting(w) => manager[w] # NotRegistered

\* A deregistration is alone with its worker.
Apart ==
    ~overlapped =>
        \A q, r \in requests : q # r /\ q.worker = r.worker => q.kind # "deregister"

MemberInv ==
    /\ manager \in [Workers -> {NotRegistered, "HEALTHY"}]
    /\ agent \in [Workers -> AgentStates]
    /\ losses \in 0..MaxLosses /\ serverRestarts \in 0..MaxServerRestarts
    /\ hasRegistry \in BOOLEAN /\ overlapped \in BOOLEAN
    /\ RequestsInv /\ Apart
    /\ hasRegistry /\ ~overlapped /\ serverRestarts = 0 => \A w \in Workers : Agree(w)

\* The registry as the handlers and the readers of the API use it.
LEMMA MemberRegistrySteps ==
    ASSUME RegistryTypeOK, MemberInv, MemberNext PROVE RegistryStep
<1>0. UNCHANGED registryVars => RegistryStep
  BY DEF registryVars, RegistryStep, RegistryTypeOK
<1>1. ASSUME NEW r \in requests, Handler(r) PROVE RegistryStep
  <2>1. r.worker \in Workers
    BY DEF MemberInv, RequestsInv, RequestType
  <2> QED
    BY <1>0, <1>1, <2>1
       DEF Handler, RegisterInManager, RegisterInRegistry, BeatInRegistry, BeatReadsManager,
           BeatInManager, DeregisterInManager, DeregisterInRegistry, IfRegistry, RegistryStep,
           Reported
<1>2. CASE ListWorkers /\ ~hasRegistry
  BY <1>2 DEF ListWorkers, RegistryStep
<1>3. CASE HeartbeatExpires \/ (ListWorkers /\ hasRegistry) \/ ServerRestart
  BY <1>3 DEF HeartbeatExpires, ListWorkers, ServerRestart, RegistryStep
<1> QED
  BY <1>0, <1>1, <1>2, <1>3
     DEF MemberNext, AgentSteps, AgentStart, AgentFirstBeat, AgentSleeps, AgentBeats,
         AgentStops, AgentDies, OperatorDeregisters, GivesUp

\* A new request, and what becomes of one that its client gave up.
LEMMA NewRequest ==
    ASSUME NEW kind \in {"register", "heartbeat", "deregister"}, NEW w \in Workers
    PROVE  /\ Request(kind, w) \in RequestType
           /\ Request(kind, w).kind = kind /\ Request(kind, w).worker = w
           /\ Request(kind, w).at = "sent" /\ Request(kind, w).awaited = (kind # "deregister")
  BY DEF Request, RequestType

OneGivenUp(r) == [r EXCEPT !.awaited = FALSE, !.n = losses + 1]

LEMMA GivenUp ==
    ASSUME NEW r \in RequestType, losses \in Nat
    PROVE  /\ OneGivenUp(r) \in RequestType /\ OneGivenUp(r).awaited = FALSE
           /\ OneGivenUp(r).kind = r.kind /\ OneGivenUp(r).worker = r.worker
           /\ OneGivenUp(r).at = r.at
<1>1. losses + 1 \in Nat
  OBVIOUS
<1> QED BY <1>1 DEF RequestType, OneGivenUp

OneMoved(r, at) == [r EXCEPT !.at = at]

LEMMA Moved ==
    ASSUME NEW r \in RequestType, NEW at \in {"sent", "registry", "read", "write"}
    PROVE  /\ OneMoved(r, at) \in RequestType /\ OneMoved(r, at).at = at
           /\ OneMoved(r, at).kind = r.kind /\ OneMoved(r, at).worker = r.worker
           /\ OneMoved(r, at).awaited = r.awaited
  BY DEF RequestType, OneMoved

\* A handler answers its request, or takes it to its next place.
LEMMA HandlerMoves ==
    ASSUME NEW r \in requests, Handler(r)
    PROVE  /\ UNCHANGED <<hasRegistry, agent, losses, overlapped, serverRestarts>>
           /\ \/ requests' = requests \ {r}
              \/ \E at \in {"registry", "read", "write"} :
                    requests' = (requests \ {r}) \cup {OneMoved(r, at)}
  BY DEF Handler, RegisterInManager, RegisterInRegistry, BeatInRegistry, BeatReadsManager,
         BeatInManager, DeregisterInManager, DeregisterInRegistry, Handles, Goes, Answered, OneMoved

LEMMA GivesUpMoves ==
    ASSUME NEW r \in requests, GivesUp(r)
    PROVE  \/ requests' = requests \ {r}
           \/ requests' = (requests \ {r}) \cup {OneGivenUp(r)}
  BY DEF GivesUp, OneGivenUp

\* What is left of the requests of an agent whose process ends.
LEMMA DiesMoves ==
    ASSUME requests \subseteq RequestType, losses \in Nat, NEW w \in Workers, AgentDies(w),
           NEW q \in requests'
    PROVE  \E o \in requests :
              /\ q \in RequestType /\ q.kind = o.kind /\ q.worker = o.worker /\ q.at = o.at
              /\ q = IF o \in Awaited(w) THEN OneGivenUp(o) ELSE o
              /\ o \in Awaited(w) => ~q.awaited
<1>1. requests' = (requests \ Awaited(w)) \cup {OneGivenUp(r) : r \in Awaited(w)}
  BY DEF AgentDies, OneGivenUp
<1>2. CASE q \in requests \ Awaited(w)
  BY <1>2
<1>3. CASE q \in {OneGivenUp(r) : r \in Awaited(w)}
  <2>1. PICK o \in Awaited(w) : q = OneGivenUp(o)
    BY <1>3
  <2>2. o \in requests /\ o \in RequestType
    BY DEF Awaited
  <2>3. /\ q \in RequestType /\ q.awaited = FALSE
        /\ q.kind = o.kind /\ q.worker = o.worker /\ q.at = o.at
    BY <2>1, <2>2, GivenUp
  <2> QED BY <2>1, <2>2, <2>3
<1> QED BY <1>1, <1>2, <1>3

LEMMA RequestsInvKept == ASSUME MemberInv, MemberNext PROVE RequestsInv'
<1> USE DEF MemberInv, RequestsInv
<1>0. losses \in Nat
  BY MemberBounds
<1>1. ASSUME NEW kind \in {"register", "heartbeat"}, NEW w \in Workers, Send(Request(kind, w)),
             Awaited(w) = {}, agent'[w] \notin {"down", "asleep"},
             \A v \in Workers \ {w} : agent'[v] = agent[v]
      PROVE  RequestsInv'
  <2> DEFINE new == Request(kind, w)
  <2>1. requests' = requests \cup {new} /\ new \in RequestType /\ new.worker = w
    BY <1>1, NewRequest DEF Send
  <2> HIDE DEF new
  <2>2. \A r \in requests : r.worker = w => ~r.awaited
    BY <1>1 DEF Awaited
  <2>3. \A r \in requests : r.worker \in Workers
    BY DEF RequestType
  <2> QED BY <1>1, <2>1, <2>2, <2>3
<1>2. ASSUME NEW w \in Workers, AgentSleeps(w) \/ AgentStops(w) PROVE RequestsInv'
  <2>1. UNCHANGED requests
    BY <1>2 DEF AgentSleeps, AgentStops
  <2>2. \A r \in requests : r.worker = w => ~r.awaited
    BY <1>2 DEF AgentSleeps, AgentStops, Awaited
  <2>3. \A v \in Workers \ {w} : agent'[v] = agent[v]
    BY <1>2 DEF AgentSleeps, AgentStops
  <2>4. \A r \in requests : r.worker \in Workers
    BY DEF RequestType
  <2> QED BY <2>1, <2>2, <2>3, <2>4
<1>3. ASSUME NEW w \in Workers, AgentDies(w) PROVE RequestsInv'
  <2>2. ASSUME NEW q \in requests'
        PROVE  /\ q \in RequestType
               /\ q.awaited => q \in requests /\ q.worker # w
    <3>1. PICK o \in requests :
             /\ q \in RequestType /\ q.kind = o.kind /\ q.worker = o.worker /\ q.at = o.at
             /\ q = IF o \in Awaited(w) THEN OneGivenUp(o) ELSE o
             /\ o \in Awaited(w) => ~q.awaited
      BY <1>0, <1>3, DiesMoves
    <3>2. CASE o \in Awaited(w)
      BY <3>1, <3>2
    <3>3. CASE o \notin Awaited(w)
      <4>1. q = o
        BY <3>1, <3>3
      <4> QED BY <3>1, <3>3, <4>1 DEF Awaited
    <3> QED BY <3>2, <3>3
  <2>3. \A v \in Workers \ {w} : agent'[v] = agent[v]
    BY <1>3 DEF AgentDies
  <2>4. \A r \in requests' : r.worker \in Workers
    BY <2>2 DEF RequestType
  <2> QED BY <2>2, <2>3, <2>4
<1>4. ASSUME NEW w \in Workers, OperatorDeregisters(w) PROVE RequestsInv'
  <2> DEFINE new == Request("deregister", w)
  <2>1. /\ requests' = requests \cup {new} /\ UNCHANGED agent
        /\ new \in RequestType /\ ~new.awaited
    BY <1>4, NewRequest DEF OperatorDeregisters, Send
  <2> HIDE DEF new
  <2> QED BY <2>1
<1>5. ASSUME NEW r \in requests, GivesUp(r) PROVE RequestsInv'
  <2> DEFINE new == OneGivenUp(r)
  <2>1. UNCHANGED agent
    BY <1>5 DEF GivesUp
  <2>2. new \in RequestType /\ ~new.awaited
    BY <1>0, GivenUp
  <2>3. requests' \subseteq requests \cup {new}
    BY <1>5, GivesUpMoves
  <2> HIDE DEF new
  <2> QED BY <2>1, <2>2, <2>3
<1>6. ASSUME NEW r \in requests, Handler(r) PROVE RequestsInv'
  BY <1>6, HandlerMoves, Moved
<1>7. CASE requests' \subseteq requests /\ UNCHANGED agent
  BY <1>7
<1>8. ASSUME NEW w \in Workers, AgentStart(w) \/ AgentFirstBeat(w) \/ AgentBeats(w)
      PROVE  RequestsInv'
  <2>1. /\ \E kind \in {"register", "heartbeat"} : Send(Request(kind, w))
        /\ Awaited(w) = {} /\ agent'[w] \notin {"down", "asleep"}
        /\ \A v \in Workers \ {w} : agent'[v] = agent[v]
    BY <1>8 DEF AgentStart, AgentFirstBeat, AgentBeats, Awaited
  <2> QED BY <1>1, <2>1
<1> QED
  BY <1>2, <1>3, <1>4, <1>5, <1>6, <1>7, <1>8
     DEF MemberNext, AgentSteps, memberVars, ListWorkers, HeartbeatExpires, ServerRestart

LEMMA ApartKept == ASSUME MemberInv, MemberNext PROVE Apart'
<1> USE DEF MemberInv, RequestsInv, Apart
<1>0. losses \in Nat
  BY MemberBounds
<1>1. ASSUME NEW kind \in {"register", "heartbeat", "deregister"}, NEW w \in Workers,
             Send(Request(kind, w))
      PROVE  Apart'
  <2> DEFINE new == Request(kind, w)
  <2>1. /\ requests' = requests \cup {new} /\ new.worker = w /\ new.kind = kind
        /\ overlapped' = (overlapped \/ \E q \in requests : q.worker = new.worker
                                                            /\ "deregister" \in {q.kind, new.kind})
    BY <1>1, NewRequest DEF Send
  <2> HIDE DEF new
  <2> QED BY <2>1
<1>2. ASSUME NEW w \in Workers, AgentDies(w) PROVE Apart'
  <2>1. UNCHANGED overlapped
    BY <1>2 DEF AgentDies
  <2> SUFFICES ASSUME ~overlapped, NEW q \in requests', NEW r \in requests', q # r,
                      q.worker = r.worker
               PROVE  q.kind # "deregister"
    BY <2>1
  <2>3. PICK o \in requests : /\ q.kind = o.kind /\ q.worker = o.worker
                              /\ q = IF o \in Awaited(w) THEN OneGivenUp(o) ELSE o
    BY <1>0, <1>2, DiesMoves
  <2>4. PICK p \in requests : /\ r.kind = p.kind /\ r.worker = p.worker
                              /\ r = IF p \in Awaited(w) THEN OneGivenUp(p) ELSE p
    BY <1>0, <1>2, DiesMoves
  <2>5. o # p
    BY <2>3, <2>4
  <2> QED BY <2>3, <2>4, <2>5
<1>3. ASSUME NEW r \in requests, GivesUp(r) PROVE Apart'
  <2> DEFINE new == OneGivenUp(r)
  <2>1. UNCHANGED overlapped
    BY <1>3 DEF GivesUp
  <2>2. new.kind = r.kind /\ new.worker = r.worker
    BY <1>0, GivenUp
  <2>3. requests' \subseteq (requests \ {r}) \cup {new}
    BY <1>3, GivesUpMoves
  <2> HIDE DEF new
  <2> QED BY <2>1, <2>2, <2>3
<1>4. ASSUME NEW r \in requests, Handler(r) PROVE Apart'
  BY <1>4, HandlerMoves, Moved
<1>5. CASE requests' \subseteq requests /\ UNCHANGED overlapped
  BY <1>5
<1> QED
  BY <1>1, <1>2, <1>3, <1>4, <1>5
     DEF MemberNext, AgentSteps, AgentStart, AgentFirstBeat, AgentSleeps, AgentBeats, AgentStops,
         OperatorDeregisters, memberVars, ListWorkers, HeartbeatExpires, ServerRestart

\* A request that moves or ends changes where the handlers are for its worker only.
LEMMA Stages ==
    ASSUME requests \subseteq RequestType, NEW r \in requests, NEW v \in Workers,
           \/ requests' = requests \ {r}
           \/ \E at \in {"registry", "read", "write"} :
                 requests' = (requests \ {r}) \cup {OneMoved(r, at)}
    PROVE  v # r.worker => /\ Joining(v)' <=> Joining(v)
                           /\ Leaving(v)' <=> Leaving(v)
                           /\ Rewriting(v)' <=> Rewriting(v)
<1>1. CASE requests' = requests \ {r}
  BY <1>1 DEF Joining, Leaving, Rewriting
<1>2. ASSUME NEW at \in {"registry", "read", "write"}, requests' = (requests \ {r}) \cup {OneMoved(r, at)}
      PROVE  v # r.worker => /\ Joining(v)' <=> Joining(v)
                             /\ Leaving(v)' <=> Leaving(v)
                             /\ Rewriting(v)' <=> Rewriting(v)
  <2> DEFINE new == OneMoved(r, at)
  <2>1. new.worker = r.worker
    BY Moved
  <2>2. requests' = (requests \ {r}) \cup {new}
    BY <1>2
  <2> HIDE DEF new
  <2> QED BY <2>1, <2>2 DEF Joining, Leaving, Rewriting
<1> QED BY <1>1, <1>2

\* Where no request changes its place and no table its members, all stays as it is.
LEMMA NothingJoins ==
    ASSUME NEW w \in Workers, Agree(w), manager' = manager, Registered(w)' <=> Registered(w),
           \A q \in requests' :
              q.at # "sent" => \E o \in requests : q.kind = o.kind /\ q.worker = o.worker /\ q.at = o.at,
           \A o \in requests :
              o.at # "sent" => \E q \in requests' : q.kind = o.kind /\ q.worker = o.worker /\ q.at = o.at
    PROVE  Agree(w)'
<1>1. /\ Joining(w)' <=> Joining(w)
      /\ Leaving(w)' <=> Leaving(w)
      /\ Rewriting(w)' <=> Rewriting(w)
  BY DEF Joining, Leaving, Rewriting
<1> QED BY <1>1 DEF Agree

LEMMA AgreeKept ==
    ASSUME RegistryTypeOK, MemberInv, MemberNext, (hasRegistry /\ ~overlapped /\ serverRestarts = 0)',
           NEW w \in Workers
    PROVE  Agree(w)'
<1>1. hasRegistry /\ ~overlapped /\ serverRestarts = 0 /\ losses \in Nat /\ requests \subseteq RequestType
  <2>1. \A r \in requests : GivesUp(r) \/ Handler(r) => UNCHANGED <<hasRegistry, overlapped, serverRestarts>>
    BY HandlerMoves DEF GivesUp
  <2>0. hasRegistry' /\ ~overlapped' /\ serverRestarts' = 0
    OBVIOUS
  <2>2. ASSUME NEW v \in Workers,
               AgentStart(v) \/ AgentSteps(v) \/ AgentStops(v) \/ AgentDies(v) \/ OperatorDeregisters(v)
        PROVE  UNCHANGED <<hasRegistry, serverRestarts>> /\ ~overlapped
    <3>1. \A r : Send(r) => ~overlapped
      BY <2>0 DEF Send
    <3>2. CASE AgentStart(v) \/ AgentFirstBeat(v) \/ AgentBeats(v) \/ OperatorDeregisters(v)
      BY <3>1, <3>2 DEF AgentStart, AgentFirstBeat, AgentBeats, OperatorDeregisters
    <3>3. CASE AgentSleeps(v) \/ AgentStops(v) \/ AgentDies(v)
      <4>1. UNCHANGED <<hasRegistry, overlapped, serverRestarts>>
        BY <3>3 DEF AgentSleeps, AgentStops, AgentDies
      <4> QED BY <2>0, <4>1
    <3> QED BY <2>2, <3>2, <3>3 DEF AgentSteps
  <2>3. ListWorkers \/ HeartbeatExpires => UNCHANGED <<hasRegistry, overlapped, serverRestarts>>
    BY DEF ListWorkers, HeartbeatExpires, memberVars
  <2>4. serverRestarts \in Nat /\ losses \in Nat /\ requests \subseteq RequestType
        /\ overlapped \in BOOLEAN
    BY MemberBounds DEF MemberInv, RequestsInv
  <2>5. ~ServerRestart
    <3>1. ServerRestart => serverRestarts' = serverRestarts + 1
      BY DEF ServerRestart
    <3> QED BY <2>0, <2>4, <3>1
  <2> QED BY <2>0, <2>1, <2>2, <2>3, <2>4, <2>5 DEF MemberNext
<1>2. Agree(w) /\ \A q, r \in requests : q # r /\ q.worker = r.worker => q.kind # "deregister"
  BY <1>1 DEF MemberInv, Apart
<1>3. ASSUME NEW v \in Workers, NEW kind \in {"register", "heartbeat", "deregister"},
             Send(Request(kind, v)), UNCHANGED <<registryVars, manager>>
      PROVE  Agree(w)'
  <2> DEFINE new == Request(kind, v)
  <2>1. requests' = requests \cup {new} /\ new.at = "sent"
    BY <1>3, NewRequest DEF Send
  <2> HIDE DEF new
  <2> QED BY <1>2, <1>3, <2>1, NothingJoins DEF registryVars, Registered
<1>4. ASSUME NEW v \in Workers, AgentDies(v) PROVE Agree(w)'
  <2>1. \A q \in requests' :
           \E o \in requests : q.kind = o.kind /\ q.worker = o.worker /\ q.at = o.at
    BY <1>1, <1>4, DiesMoves
  <2>2. ASSUME NEW o \in requests
        PROVE  \E q \in requests' : q.kind = o.kind /\ q.worker = o.worker /\ q.at = o.at
    <3>1. requests' = (requests \ Awaited(v)) \cup {OneGivenUp(r) : r \in Awaited(v)}
      BY <1>4 DEF AgentDies, OneGivenUp
    <3>2. CASE o \in Awaited(v)
      <4>1. OneGivenUp(o) \in requests'
        BY <3>1, <3>2
      <4>2. /\ OneGivenUp(o).kind = o.kind /\ OneGivenUp(o).worker = o.worker
            /\ OneGivenUp(o).at = o.at
        BY <1>1, GivenUp
      <4> QED BY <4>1, <4>2
    <3> QED BY <3>1, <3>2
  <2>3. UNCHANGED manager /\ (Registered(w)' <=> Registered(w))
    BY <1>4 DEF AgentDies, registryVars, Registered
  <2> QED BY <1>2, <2>1, <2>2, <2>3, NothingJoins
<1>5. ASSUME NEW r \in requests, GivesUp(r) PROVE Agree(w)'
  <2> DEFINE new == OneGivenUp(r)
  <2>1. UNCHANGED manager /\ (Registered(w)' <=> Registered(w))
    BY <1>5 DEF GivesUp, registryVars, Registered
  <2>2. new.kind = r.kind /\ new.worker = r.worker /\ new.at = r.at
    BY <1>1, GivenUp
  <2>3. \/ r.at = "sent" /\ requests' = requests \ {r}
        \/ requests' = (requests \ {r}) \cup {new}
    BY <1>5 DEF GivesUp, OneGivenUp
  <2> HIDE DEF new
  <2> QED BY <1>2, <2>1, <2>2, <2>3, NothingJoins
<1>6. CASE UNCHANGED memberVars /\ \A v \in Workers : Registered(v)' <=> Registered(v)
  BY <1>2, <1>6, NothingJoins DEF memberVars
<1>7. ASSUME NEW r \in requests, Handler(r) PROVE Agree(w)'
  <2> DEFINE at == r.at
  <2>1. r.worker \in Workers
    BY <1>1 DEF RequestType
  <2>2. w # r.worker => /\ Joining(w)' <=> Joining(w)
                        /\ Leaving(w)' <=> Leaving(w)
                        /\ Rewriting(w)' <=> Rewriting(w)
    BY <1>1, <1>7, HandlerMoves, Stages
  <2>3. CASE w # r.worker
    <3>1. manager'[w] = manager[w] /\ (Registered(w)' <=> Registered(w))
      BY <1>7, <2>3
         DEF Handler, RegisterInManager, RegisterInRegistry, BeatInRegistry, BeatReadsManager,
             BeatInManager, DeregisterInManager, DeregisterInRegistry, IfRegistry, registryVars,
             Register, Heartbeat, Deregister, Registered, RegistryTypeOK, MemberInv
    <3> QED BY <1>2, <2>2, <2>3, <3>1 DEF Agree
  <2>4. CASE w = r.worker
    <3>1. \A q \in requests : q # r /\ q.worker = w => q.kind # "deregister" /\ r.kind # "deregister"
      BY <1>2, <2>4
    <3>2. r \in RequestType /\ NotRegistered # "HEALTHY"
      BY <1>1, NotRegisteredAssumption DEF Healths, Reported
    <3>3. CASE RegisterInManager(r)
      <4> DEFINE new == OneMoved(r, "registry")
      <4>1. /\ requests' = (requests \ {r}) \cup {new} /\ r.kind = "register"
            /\ manager'[w] = "HEALTHY"
        BY <2>4, <3>3 DEF RegisterInManager, Handles, Goes, OneMoved, MemberInv
      <4>2. new.kind = "register" /\ new.worker = w /\ new.at = "registry"
        BY <2>4, <3>2, <4>1, Moved
      <4> HIDE DEF new
      <4> QED BY <3>1, <3>2, <4>1, <4>2 DEF Agree, Joining, Leaving, Rewriting
    <3>4. CASE RegisterInRegistry(r)
      <4>1. /\ requests' = requests \ {r} /\ r.kind = "register" /\ r.at = "registry"
            /\ manager' = manager /\ Registered(w)'
        BY <1>1, <2>4, <3>4, NotRegisteredAssumption
           DEF RegisterInRegistry, Handles, Answered, IfRegistry, Register, Registered,
               RegistryTypeOK, Healths, Reported
      <4> QED BY <1>2, <2>4, <3>1, <4>1 DEF Agree, Joining, Leaving, Rewriting
    <3>5. CASE BeatInRegistry(r) \/ BeatReadsManager(r)
      <4>1. /\ r.kind = "heartbeat" /\ r.at \in {"sent", "read"}
            /\ manager' = manager /\ (Registered(w)' <=> Registered(w))
        BY <1>1, <2>4, <3>5, NotRegisteredAssumption
           DEF BeatInRegistry, BeatReadsManager, Handles, IfRegistry, Heartbeat, Registered,
               registryVars, RegistryTypeOK, Healths, Reported
      <4>2. CASE requests' = requests \ {r}
        BY <1>2, <4>1, <4>2 DEF Agree, Joining, Leaving, Rewriting
      <4>3. ASSUME NEW to \in {"read", "write"}, requests' = (requests \ {r}) \cup {OneMoved(r, to)},
                   to = "write" => manager[w] # NotRegistered
            PROVE  Agree(w)'
        <5> DEFINE new == OneMoved(r, to)
        <5>1. new.kind = "heartbeat" /\ new.worker = w /\ new.at = to
          BY <2>4, <3>2, <4>1, Moved
        <5>2. requests' = (requests \ {r}) \cup {new}
          BY <4>3
        <5> HIDE DEF new
        <5> QED BY <1>2, <4>1, <4>3, <5>1, <5>2 DEF Agree, Joining, Leaving, Rewriting
      <4> QED BY <2>4, <3>5, <4>2, <4>3
              DEF BeatInRegistry, BeatReadsManager, Goes, Answered, OneMoved
    <3>6. CASE BeatInManager(r)
      <4>1. /\ requests' = requests \ {r} /\ r.kind = "heartbeat" /\ r.at = "write"
            /\ manager'[w] = "HEALTHY" /\ (Registered(w)' <=> Registered(w))
        BY <2>4, <3>6 DEF BeatInManager, Handles, Answered, registryVars, Registered, MemberInv
      <4> QED BY <1>2, <2>4, <3>1, <3>2, <4>1 DEF Agree, Joining, Leaving, Rewriting
    <3>7. CASE DeregisterInManager(r)
      <4> DEFINE new == OneMoved(r, "registry")
      <4>1. /\ requests' = (requests \ {r}) \cup {new} /\ r.kind = "deregister"
            /\ manager'[w] = NotRegistered
        BY <2>4, <3>7 DEF DeregisterInManager, Handles, Goes, OneMoved, MemberInv
      <4>2. new.kind = "deregister" /\ new.worker = w /\ new.at = "registry"
        BY <2>4, <3>2, <4>1, Moved
      <4> HIDE DEF new
      <4> QED BY <3>1, <4>1, <4>2 DEF Agree, Joining, Leaving, Rewriting
    <3>8. CASE DeregisterInRegistry(r)
      <4>1. /\ requests' = requests \ {r} /\ r.kind = "deregister" /\ r.at = "registry"
            /\ manager' = manager /\ ~Registered(w)'
        BY <1>1, <2>4, <3>8
           DEF DeregisterInRegistry, Handles, Answered, IfRegistry, Deregister, Registered,
               RegistryTypeOK, registryVars
      <4> QED BY <1>2, <2>4, <3>1, <4>1 DEF Agree, Joining, Leaving, Rewriting
    <3> QED BY <1>7, <3>3, <3>4, <3>5, <3>6, <3>7, <3>8 DEF Handler
  <2> QED BY <2>3, <2>4
<1>8. ~ServerRestart
  BY <1>1 DEF ServerRestart
<1>9. ListWorkers \/ HeartbeatExpires => UNCHANGED memberVars /\ \A v \in Workers : Registered(v)' <=> Registered(v)
  BY NotRegisteredAssumption
     DEF ListWorkers, HeartbeatExpires, GetActiveWorkers, CheckTimeouts, Checked, TimedOut, Expire,
         Registered, RegistryTypeOK, Healths
<1>10. ASSUME NEW v \in Workers, AgentSteps(v) \/ AgentStart(v) \/ AgentStops(v) \/ OperatorDeregisters(v)
       PROVE  Agree(w)'
  <2>1. CASE AgentSleeps(v) \/ AgentStops(v)
    BY <1>2, <2>1, NothingJoins DEF AgentSleeps, AgentStops, registryVars, Registered
  <2> QED BY <1>3, <1>10, <2>1 DEF AgentSteps, AgentStart, AgentFirstBeat, AgentBeats, OperatorDeregisters
<1> QED
  BY <1>4, <1>5, <1>6, <1>7, <1>8, <1>9, <1>10 DEF MemberNext

LEMMA MemberInvKept ==
    ASSUME RegistryTypeOK, MemberInv, MemberNext PROVE MemberInv'
<1>1. ASSUME NEW w \in Workers,
             AgentStart(w) \/ AgentSteps(w) \/ AgentStops(w) \/ AgentDies(w) \/ OperatorDeregisters(w)
      PROVE  /\ UNCHANGED <<manager, hasRegistry, serverRestarts>>
             /\ agent' \in [Workers -> AgentStates] /\ losses' \in 0..MaxLosses
             /\ overlapped' \in BOOLEAN
  <2> USE DEF MemberInv, AgentStates
  <2>1. UNCHANGED <<manager, hasRegistry, serverRestarts>>
    BY <1>1 DEF AgentSteps, AgentStart, AgentFirstBeat, AgentSleeps, AgentBeats, AgentStops, AgentDies,
                OperatorDeregisters
  <2>2. agent' \in [Workers -> AgentStates]
    BY <1>1 DEF AgentSteps, AgentStart, AgentFirstBeat, AgentSleeps, AgentBeats, AgentStops, AgentDies,
                OperatorDeregisters
  <2>3. losses' \in 0..MaxLosses
    <3>1. UNCHANGED losses \/ (losses < MaxLosses /\ losses' = losses + 1)
      BY <1>1 DEF AgentSteps, AgentStart, AgentFirstBeat, AgentSleeps, AgentBeats, AgentStops, AgentDies,
                  OperatorDeregisters
    <3>2. losses \in 0..MaxLosses
      OBVIOUS
    <3> HIDE DEF MemberInv
    <3>3. CASE UNCHANGED losses
      BY <3>2, <3>3
    <3>4. CASE losses < MaxLosses /\ losses' = losses + 1
      BY <3>2, <3>4, MemberBounds
    <3> QED BY <3>1, <3>3, <3>4
  <2>4. \A r : Send(r) => overlapped' \in BOOLEAN
    BY DEF Send
  <2>5. UNCHANGED overlapped => overlapped' \in BOOLEAN
    OBVIOUS
  <2>6. (\E r : Send(r)) \/ UNCHANGED overlapped
    BY <1>1 DEF AgentSteps, AgentStart, AgentFirstBeat, AgentSleeps, AgentBeats, AgentStops, AgentDies,
                OperatorDeregisters
  <2> QED BY <2>1, <2>2, <2>3, <2>4, <2>5, <2>6
<1>2. ASSUME NEW r \in requests, Handler(r)
      PROVE  /\ UNCHANGED <<hasRegistry, agent, losses, overlapped, serverRestarts>>
             /\ manager' \in [Workers -> {NotRegistered, "HEALTHY"}]
  <2>1. UNCHANGED <<hasRegistry, agent, losses, overlapped, serverRestarts>>
    BY <1>2, HandlerMoves
  <2>2. manager' \in [Workers -> {NotRegistered, "HEALTHY"}]
    BY <1>2
       DEF MemberInv, Handler, RegisterInManager, RegisterInRegistry, BeatInRegistry, BeatReadsManager,
           BeatInManager, DeregisterInManager, DeregisterInRegistry
  <2> QED BY <2>1, <2>2
<1>3. ASSUME NEW r \in requests, GivesUp(r)
      PROVE  /\ UNCHANGED <<hasRegistry, manager, agent, overlapped, serverRestarts>>
             /\ losses' \in 0..MaxLosses
  BY <1>3, MemberBounds DEF GivesUp, MemberInv
<1>4. CASE ServerRestart
  <2>1. /\ serverRestarts' = serverRestarts + 1 /\ serverRestarts < MaxServerRestarts
        /\ manager' \in {manager, [w \in Workers |-> NotRegistered]}
        /\ UNCHANGED <<hasRegistry, agent, losses, overlapped>>
    BY <1>4 DEF ServerRestart
  <2>2. serverRestarts' \in 0..MaxServerRestarts
    BY <2>1, MemberBounds DEF MemberInv
  <2>3. manager' \in [Workers -> {NotRegistered, "HEALTHY"}]
    BY <2>1 DEF MemberInv
  <2> QED BY <2>1, <2>2, <2>3, RequestsInvKept, ApartKept, AgreeKept DEF MemberInv
<1>5. ListWorkers \/ HeartbeatExpires => UNCHANGED memberVars
  BY DEF ListWorkers, HeartbeatExpires
<1>6. UNCHANGED memberVars => UNCHANGED <<hasRegistry, manager, agent, losses, overlapped, serverRestarts>>
  BY DEF memberVars
<1>7. /\ manager' \in [Workers -> {NotRegistered, "HEALTHY"}]
      /\ agent' \in [Workers -> AgentStates]
      /\ losses' \in 0..MaxLosses /\ serverRestarts' \in 0..MaxServerRestarts
      /\ hasRegistry' \in BOOLEAN /\ overlapped' \in BOOLEAN
  BY <1>1, <1>2, <1>3, <1>4, <1>5, <1>6 DEF MemberNext, MemberInv
<1> QED BY <1>7, RequestsInvKept, ApartKept, AgreeKept DEF MemberInv

LEMMA MemberInitially == MemberInit => RegistryInv /\ MemberInv
<1> SUFFICES ASSUME MemberInit PROVE RegistryInv /\ MemberInv
  OBVIOUS
<1>1. RegistryInv
  BY NotRegisteredAssumption
     DEF MemberInit, RegistryInit, RegistryInv, RegistryTypeOK, Healths, Reported
<1>2. RequestsInv /\ Apart
  BY DEF MemberInit, RequestsInv, Apart
<1>3. \A w \in Workers : Agree(w)
  BY DEF MemberInit, RegistryInit, Agree, Joining, Leaving, Rewriting, Registered
<1>4. /\ manager \in [Workers -> {NotRegistered, "HEALTHY"}]
      /\ agent \in [Workers -> AgentStates]
      /\ hasRegistry \in BOOLEAN /\ overlapped \in BOOLEAN
  BY DEF MemberInit, AgentStates
<1>5. losses \in 0..MaxLosses /\ serverRestarts \in 0..MaxServerRestarts
  BY MemberBounds DEF MemberInit
<1> QED BY <1>1, <1>2, <1>3, <1>4, <1>5 DEF MemberInv

LEMMA MemberTypes == ASSUME RegistryTypeOK, MemberInv PROVE MemberTypeOK
<1>1. ASSUME NEW w \in Workers PROVE Cardinality(Awaited(w)) <= 1
  <2>1. CASE Awaited(w) = {}
    BY <2>1, FS_EmptySet
  <2>2. CASE Awaited(w) # {}
    <3>1. PICK r : r \in Awaited(w)
      BY <2>2
    <3>2. Awaited(w) = {r}
      BY <3>1 DEF Awaited, MemberInv, RequestsInv
    <3> QED BY <3>2, FS_Singleton
  <2> QED BY <2>1, <2>2
<1> QED BY <1>1 DEF MemberTypeOK, MemberInv

LEMMA MembersAgree == ASSUME MemberInv PROVE TablesAgreeAtRest
BY DEF MemberInv, TablesAgreeAtRest, Agree, Joining, Leaving

-----------------------------------------------------------------------------
(* The dispatcher *)

\* An agent knows only jobs that were launched.
DispatchInv ==
    /\ connected \subseteq Workers
    /\ worker \in [DispatchJobs -> Workers \cup {Nowhere}]
    /\ knows \in [Workers -> SUBSET DispatchJobs]
    /\ process \in [DispatchJobs -> {"PENDING", "RUNNING", "COMPLETED", "FAILED", "CANCELLED"}]
    /\ told \in [DispatchJobs -> {"None", "RUNNING", "COMPLETED", "FAILED", "CANCELLED"}]
    /\ \A w \in Workers : \A j \in knows[w] : process[j] # "PENDING"

LEMMA DispatchRegistrySteps ==
    ASSUME RegistryTypeOK, DispatchNext PROVE RegistryStep
<1>1. UNCHANGED registryVars => RegistryStep
  BY DEF registryVars, RegistryStep, RegistryTypeOK
<1> QED
  BY <1>1
     DEF DispatchNext, RegisterAgent, UnregisterAgent, Dispatch, ProcessEnds, StopJob, GetJobStatus,
         RegistryMoves, ActiveWorkerIds, RegistryStep, Reported

\* The answer of get_job_status is the status of a process that was launched,
\* FAILED or None.
LEMMA Answers ==
    ASSUME DispatchInv, NEW j \in DispatchJobs, worker[j] # Nowhere
    PROVE  Answer(j) \in {"None", "RUNNING", "COMPLETED", "FAILED", "CANCELLED"}
BY DEF DispatchInv, Answer

LEMMA DispatchInvKept == ASSUME DispatchInv, DispatchNext PROVE DispatchInv'
<1> USE DEF DispatchInv
<1>1. ASSUME NEW w \in Workers, RegisterAgent(w) PROVE DispatchInv'
  BY <1>1 DEF RegisterAgent
<1>2. ASSUME NEW w \in Workers, UnregisterAgent(w) PROVE DispatchInv'
  BY <1>2 DEF UnregisterAgent
<1>3. ASSUME NEW j \in DispatchJobs, NEW w \in Workers, Dispatch(j, w) PROVE DispatchInv'
  <2>1. CASE UNCHANGED <<worker, knows, process>>
    BY <1>3, <2>1 DEF Dispatch
  <2>2. CASE /\ worker' = [worker EXCEPT ![j] = w]
             /\ knows' = [knows EXCEPT ![w] = @ \cup {j}]
             /\ process' = [process EXCEPT ![j] = "RUNNING"]
    BY <1>3, <2>2 DEF Dispatch
  <2> QED BY <1>3, <2>1, <2>2 DEF Dispatch
<1>4. ASSUME NEW j \in DispatchJobs, ProcessEnds(j) PROVE DispatchInv'
  BY <1>4 DEF ProcessEnds
<1>5. ASSUME NEW j \in DispatchJobs, StopJob(j) PROVE DispatchInv'
  BY <1>5 DEF StopJob
<1>6. ASSUME NEW j \in DispatchJobs, GetJobStatus(j) PROVE DispatchInv'
  <2>1. /\ told' = [told EXCEPT ![j] = Answer(j)] /\ worker[j] # Nowhere
        /\ UNCHANGED <<connected, worker, knows, process>>
    BY <1>6 DEF GetJobStatus
  <2>2. Answer(j) \in {"None", "RUNNING", "COMPLETED", "FAILED", "CANCELLED"}
    BY <2>1, Answers
  <2> QED BY <2>1, <2>2
<1>7. CASE UNCHANGED dispatchVars
  BY <1>7 DEF dispatchVars
<1> QED
  BY <1>1, <1>2, <1>3, <1>4, <1>5, <1>6, <1>7 DEF DispatchNext, RegistryMoves, ActiveWorkerIds

LEMMA DispatchInitially == DispatchInit => DispatchInv
BY DEF DispatchInit, DispatchInv

\* What check_timeouts finds out of a worker that is registered.
LEMMA ReachableIsRecent ==
    ASSUME RegistryInv, NEW w \in Workers, Registered(w)
    PROVE  /\ Reachable(w) => recent[w]
           /\ ~Reachable(w) => ~recent[w] \/ health[w] = "UNAVAILABLE"
BY DEF RegistryInv, RegistryTypeOK, Reachable, Checked, TimedOut, Registered

LEMMA TellsTheTruth ==
    ASSUME RegistryInv, DispatchInv, NEW j \in DispatchJobs, GetJobStatus(j)
    PROVE  /\ told'[j] = "RUNNING" => /\ process[j] = "RUNNING"
                                      /\ Registered(worker[j]) => recent[worker[j]]
           /\ told'[j] = "COMPLETED" => process[j] = "COMPLETED"
           /\ told'[j] = "FAILED" => \/ process[j] = "FAILED"
                                     \/ ~recent[worker[j]]
                                     \/ health[worker[j]] = "UNAVAILABLE"
<1>1. told'[j] = Answer(j) /\ worker[j] \in Workers
  BY DEF GetJobStatus, DispatchInv
<1>2. CASE Registered(worker[j]) /\ ~Reachable(worker[j])
  BY <1>1, <1>2, ReachableIsRecent DEF Answer
<1>3. CASE ~(Registered(worker[j]) /\ ~Reachable(worker[j]))
  BY <1>1, <1>3, ReachableIsRecent DEF Answer
<1> QED BY <1>2, <1>3

-----------------------------------------------------------------------------
(* The checkpoint manager *)

CheckpointInv ==
    /\ manifest \in [Steps -> [state : {"absent", "torn", "whole"}, file : Files \cup {Own}]]
    /\ written \subseteq Files
    /\ saving \subseteq [step : Steps, file : Files \cup {Own}]
    /\ Cardinality(saving) <= 1
    /\ IsFiniteSet(saving)
    /\ \A c \in saving : c.file \in written \cup {Own}

\* get_latest_checkpoint returns the greatest step listed.
LEMMA LatestIsGreatest ==
    /\ Listed \subseteq Nat
    /\ \A s \in Listed : Latest \in Listed /\ Latest >= s
    /\ Latest # 0 => Latest \in Listed
<1>1. Listed \in SUBSET Nat /\ IsFiniteSet(Listed)
  <2>1. IsFiniteSet(Steps) /\ Listed \in SUBSET Steps /\ Steps \in SUBSET Nat
    BY CheckpointAssumption, FS_Interval DEF Steps, Listed
  <2>2. IsFiniteSet(Listed)
    BY <2>1, FS_Subset
  <2> QED BY <2>1, <2>2
<1>2. Listed # {} => \E n \in Listed : \A m \in Listed : n >= m
  BY <1>1, GreatestNumber
<1>3. Listed # {} => Latest = Max(Listed)
  BY DEF Latest
<1>4. Listed # {} => Latest \in Listed /\ \A s \in Listed : Latest >= s
  BY <1>2, <1>3 DEF Max
<1> QED BY <1>1, <1>4 DEF Latest

\* cleanup_checkpoints leaves the latest checkpoint alone: nothing is newer.
LEMMA LatestIsKept == ASSUME NEW n \in Keeps PROVE Latest \notin BeyondKept(n)
<1> SUFFICES ASSUME Latest \in BeyondKept(n) PROVE FALSE
  OBVIOUS
<1>1. n \in Nat /\ n > 0 /\ Cardinality(Newer(Latest)) >= n
  BY CheckpointAssumption DEF BeyondKept
<1>2. Newer(Latest) = {}
  <2> SUFFICES ASSUME NEW t \in Listed, t > Latest PROVE FALSE
    BY DEF Newer
  <2>1. Latest \in Nat /\ t \in Nat /\ Latest >= t
    BY LatestIsGreatest
  <2> QED BY <2>1
<1> QED BY <1>1, <1>2, FS_EmptySet

LEMMA CheckpointInitially == CheckpointInit => CheckpointInv
BY FS_EmptySet DEF CheckpointInit, CheckpointInv

LEMMA CheckpointInvKept == ASSUME CheckpointInv, CheckpointNext PROVE CheckpointInv'
<1> USE DEF CheckpointInv
<1>1. ASSUME NEW f \in Files, WorkloadWrites(f) PROVE CheckpointInv'
  BY <1>1 DEF WorkloadWrites
<1>2. ASSUME NEW s \in Steps, NEW f \in Files \cup {Own}, SaveBegins(s, f) PROVE CheckpointInv'
  <2> DEFINE c == [step |-> s, file |-> f]
  <2>1. saving' = {c} /\ c \in [step : Steps, file : Files \cup {Own}] /\ c.file = f
    BY <1>2 DEF SaveBegins
  <2>2. /\ manifest' = [manifest EXCEPT ![s].state = "torn"]
        /\ written' = written /\ f \in written \cup {Own}
    BY <1>2 DEF SaveBegins
  <2>3. manifest' \in [Steps -> [state : {"absent", "torn", "whole"}, file : Files \cup {Own}]]
    BY <2>2
  <2> HIDE DEF c
  <2>4. Cardinality({c}) = 1 /\ IsFiniteSet({c})
    BY FS_Singleton
  <2> QED BY <2>1, <2>2, <2>3, <2>4
<1>3. CASE SaveEnds
  BY <1>3, FS_EmptySet DEF SaveEnds
<1>4. CASE Crash
  BY <1>4, FS_EmptySet DEF Crash
<1>5. ASSUME NEW n \in Keeps, Cleanup(n) PROVE CheckpointInv'
  BY <1>5 DEF Cleanup
<1> QED BY <1>1, <1>2, <1>3, <1>4, <1>5 DEF CheckpointNext

\* A step of the manager, or of the workload, that leaves the latest checkpoint
\* listed and puts no file in its place.
LEMMA LatestStays ==
    ASSUME Latest # 0, Latest \in Listed', Listed' \subseteq Listed,
           manifest'[Latest] = manifest[Latest],
           HasData(Latest) => manifest[Latest].file \in written' \cup {Own}
    PROVE  Latest' >= Latest /\ (HasData(Latest) => HasData(Latest)')
<1>1. Latest \in Nat /\ \A s \in Listed : Latest >= s
  BY LatestIsGreatest
<1>2. (\A s \in Listed : Latest \in Listed /\ Latest >= s)'
  BY LatestIsGreatest, PTL
<1>3. Latest' \in Listed /\ Latest' >= Latest
  BY <1>2
<1>4. Latest' \in Nat
  BY <1>3, LatestIsGreatest
<1>5. Latest' = Latest
  BY <1>1, <1>3, <1>4
<1> QED BY <1>1, <1>5 DEF HasData

\* Only the manifest that is being written is torn, and a cleanup leaves one that
\* is no older than those it deletes.
LEMMA NoneFallsBelow == ASSUME CheckpointInv, CheckpointNext PROVE NoneBelow
<1>0. (\A s \in Listed : Latest \in Listed /\ Latest >= s)'
  BY LatestIsGreatest, PTL
<1> SUFFICES ASSUME NEW s \in Listed, manifest'[s].state # "torn" PROVE Latest' >= s
  BY DEF NoneBelow
<1> USE DEF CheckpointInv
<1>1. ASSUME NEW f \in Files, WorkloadWrites(f) PROVE Latest' >= s
  BY <1>0, <1>1 DEF WorkloadWrites, Listed
<1>2. ASSUME NEW t \in Steps, NEW f \in Files \cup {Own}, SaveBegins(t, f) PROVE Latest' >= s
  <2>1. s \in Listed'
    BY <1>2 DEF SaveBegins, Listed
  <2> QED BY <1>0, <2>1
<1>3. CASE SaveEnds
  <2>1. s \in Listed'
    BY <1>3 DEF SaveEnds, Listed
  <2> QED BY <1>0, <2>1
<1>4. CASE Crash
  BY <1>0, <1>4 DEF Crash, Listed
<1>5. ASSUME NEW n \in Keeps, Cleanup(n) PROVE Latest' >= s
  <2>1. Latest \notin BeyondKept(n) /\ Latest \in Listed /\ Latest >= s /\ s \in Nat /\ Latest \in Nat
    BY LatestIsKept, LatestIsGreatest
  <2>2. Latest \in Listed'
    BY <1>5, <2>1 DEF Cleanup, Listed
  <2>3. Latest' >= Latest /\ Latest' \in Listed'
    BY <1>0, <2>2
  <2>4. Latest' \in Nat
    BY <1>5, <2>3, CheckpointAssumption DEF Listed, Steps
  <2> QED BY <2>1, <2>3, <2>4
<1> QED BY <1>1, <1>2, <1>3, <1>4, <1>5 DEF CheckpointNext

LEMMA CheckpointStep ==
    ASSUME CheckpointInv, CheckpointNext,
           Latest # 0, ~Shared, manifest'[Latest].state # "torn"
    PROVE  Latest' >= Latest /\ (HasData(Latest) => HasData(Latest)')
<1> USE DEF CheckpointInv
<1>0. Latest \in Listed /\ Listed \subseteq Steps
  BY LatestIsGreatest DEF Listed
<1>1. ASSUME NEW f \in Files, WorkloadWrites(f)
      PROVE  Latest' >= Latest /\ (HasData(Latest) => HasData(Latest)')
  BY <1>0, <1>1, LatestStays DEF WorkloadWrites, Listed, HasData
<1>2. ASSUME NEW s \in Steps, NEW f \in Files \cup {Own}, SaveBegins(s, f)
      PROVE  Latest' >= Latest /\ (HasData(Latest) => HasData(Latest)')
  <2>1. s # Latest
    BY <1>2 DEF SaveBegins
  <2>2. manifest'[Latest] = manifest[Latest] /\ written' = written
    BY <1>0, <1>2, <2>1 DEF SaveBegins
  <2>3. Latest \in Listed' /\ Listed' \subseteq Listed
    BY <1>0, <1>2, <2>1 DEF SaveBegins, Listed
  <2> QED BY <2>2, <2>3, LatestStays DEF HasData
<1>3. CASE SaveEnds
  <2>1. PICK c \in saving : /\ manifest' = [manifest EXCEPT ![c.step] = [state |-> "whole", file |-> c.file]]
                             /\ written' = written
    BY <1>3 DEF SaveEnds
  <2>2. c.step \in Steps /\ c.file \in written \cup {Own}
    OBVIOUS
  <2>3. Listed' = Listed \cup {c.step}
    BY <2>1, <2>2 DEF Listed
  <2>4. (\A s \in Listed : Latest \in Listed /\ Latest >= s)'
    BY LatestIsGreatest, PTL
  <2>5. Latest' \in Listed' /\ Latest' >= Latest
    BY <1>0, <2>3, <2>4
  <2>6. CASE Latest' = c.step
    BY <2>1, <2>2, <2>5, <2>6 DEF HasData
  <2>7. CASE Latest' # c.step
    <3>1. Latest' \in Listed
      BY <2>3, <2>5, <2>7
    <3>2. Latest' = Latest
      BY <1>0, <2>5, <3>1, LatestIsGreatest
    <3>3. manifest'[Latest] = manifest[Latest]
      BY <1>0, <2>1, <2>7, <3>2
    <3> QED BY <2>1, <2>5, <3>2, <3>3 DEF HasData
  <2> QED BY <2>6, <2>7
<1>4. CASE Crash
  BY <1>0, <1>4, LatestStays DEF Crash, Listed, HasData
<1>5. ASSUME NEW n \in Keeps, Cleanup(n)
      PROVE  Latest' >= Latest /\ (HasData(Latest) => HasData(Latest)')
  <2>1. PICK gone \in SUBSET BeyondKept(n) :
           /\ manifest' = [s \in Steps |->
                  IF s \in gone /\ manifest[s].file = Own
                  THEN [state |-> "absent", file |-> Own] ELSE manifest[s]]
           /\ written' = written \ {manifest[s].file : s \in gone}
    BY <1>5 DEF Cleanup
  <2>2. Latest \notin gone
    BY LatestIsKept
  <2>3. manifest'[Latest] = manifest[Latest]
    BY <1>0, <2>1, <2>2
  <2>4. Latest \in Listed' /\ Listed' \subseteq Listed
    BY <1>0, <2>1, <2>2 DEF Listed
  <2>5. \A s \in gone : manifest[s].file = manifest[Latest].file => manifest[Latest].file = Own
    BY <2>2 DEF Shared, BeyondKept
  <2>6. HasData(Latest) => manifest[Latest].file \in written' \cup {Own}
    BY <2>1, <2>5 DEF HasData
  <2> QED BY <2>3, <2>4, <2>6, LatestStays
<1> QED BY <1>1, <1>2, <1>3, <1>4, <1>5 DEF CheckpointNext

-----------------------------------------------------------------------------
(* The loops of the controller *)

LEMMA LoopInitially == LoopInit => LoopTypeOK
BY DEF LoopInit, LoopTypeOK

LEMMA LoopStep == ASSUME LoopTypeOK, LoopNext PROVE LoopTypeOK'
<1> USE DEF LoopTypeOK, threadVars, asyncVars
<1>1. CASE Start
  BY <1>1 DEF Start
<1>2. CASE StopBegins \/ StopEnds
  BY <1>2 DEF StopBegins, StopEnds
<1>3. ASSUME NEW t \in Threads, ThreadSteps(t) PROVE LoopTypeOK'
  BY <1>3 DEF ThreadSteps, LoopTests, LoopEnters, LoopSteps, LoopWaits, LoopMoves
<1>4. CASE StartAsync \/ StopAsyncBegins
  BY <1>4 DEF StartAsync, StopAsyncBegins
<1>5. CASE StopsAsync
  BY <1>5 DEF StopsAsync, TaskCancelled, StopAsyncEnds
<1>6. ASSUME NEW k \in Tasks, TaskStepsOn(k) PROVE LoopTypeOK'
  BY <1>6 DEF TaskStepsOn, TaskSteps, TaskEnds, TaskSleeps, TaskWakes, PassEnters, PassEnds,
              TaskMoves, PassMoves
<1> QED BY <1>1, <1>2, <1>3, <1>4, <1>5, <1>6 DEF LoopNext

-----------------------------------------------------------------------------
(* The docker backend *)

JobType ==
    [backend : {"docker", "native"}, cmd : {BuildDockerCmd(job) : job \in ContainerJobs},
     client : Over \cup {"running"}, container : Over \cup Live \cup {"none"},
     outcome : {"RUNNING", "COMPLETED", "FAILED", "CANCELLED"}]

\* What is known of a container, h, from its client's end, from what the backend
\* said of it and from a stop that is under way.
Truthful(h) ==
    LET job  == launched[h]
        lost == h \in trouble
    IN  job.backend = "docker" =>
            /\ job.client = "ok" => job.container = "ok"
            /\ job.client = "error" => job.container \notin Live \cup {"ok"} \/ lost
            /\ job.client = "killed" => job.outcome = "CANCELLED"
            /\ job.outcome = "COMPLETED" => job.container = "ok"
            /\ job.outcome = "FAILED" => job.container # "ok" \/ lost
            /\ job.outcome # "RUNNING" \/ h \in stopped => job.container \notin Live \/ lost
            /\ daemon # "up" /\ job.container \in Live => lost

DockerInv ==
    /\ daemon \in {"up", "hung", "down"}
    /\ launched \in Seq(JobType)
    /\ stopped \cup trouble \subseteq DOMAIN launched
    /\ \A h \in DOMAIN launched : Truthful(h)

LEMMA DockerInitially == DockerInit => DockerInv
BY DEF DockerInit, DockerInv

\* One job changes, in its client, its container or its outcome.
Becomes(h, job) ==
    /\ DOMAIN launched' = DOMAIN launched
    /\ launched'[h] = job /\ \A g \in DOMAIN launched \ {h} : launched'[g] = launched[g]
    /\ launched' \in Seq(JobType)

LEMMA JobBecomes ==
    ASSUME launched \in Seq(JobType), NEW h \in DOMAIN launched, NEW job \in JobType,
           launched' = [launched EXCEPT ![h] = job]
    PROVE  Becomes(h, job)
BY DEF Becomes

LEMMA SetJobBecomes ==
    ASSUME launched \in Seq(JobType), NEW h \in DOMAIN launched
    PROVE  /\ \A how \in Over \cup Live \cup {"none"} :
                 SetJob(h, "container", how) => Becomes(h, [launched[h] EXCEPT !.container = how])
           /\ \A how \in Over :
                 SetJob(h, "client", how) => Becomes(h, [launched[h] EXCEPT !.client = how])
           /\ \A how \in {"RUNNING", "COMPLETED", "FAILED", "CANCELLED"} :
                 SetJob(h, "outcome", how) => Becomes(h, [launched[h] EXCEPT !.outcome = how])
<1>0. launched[h] \in JobType
  OBVIOUS
<1>1. ASSUME NEW how \in Over \cup Live \cup {"none"}, SetJob(h, "container", how)
      PROVE  Becomes(h, [launched[h] EXCEPT !.container = how])
  BY <1>0, <1>1, JobBecomes DEF SetJob, JobType
<1>2. ASSUME NEW how \in Over, SetJob(h, "client", how)
      PROVE  Becomes(h, [launched[h] EXCEPT !.client = how])
  BY <1>0, <1>2, JobBecomes DEF SetJob, JobType
<1>3. ASSUME NEW how \in {"RUNNING", "COMPLETED", "FAILED", "CANCELLED"}, SetJob(h, "outcome", how)
      PROVE  Becomes(h, [launched[h] EXCEPT !.outcome = how])
  BY <1>0, <1>3, JobBecomes DEF SetJob, JobType
<1> QED BY <1>1, <1>2, <1>3

\* A step that leaves the other jobs alone keeps what is known of them.
LEMMA OthersStayTruthful ==
    ASSUME DockerInv, NEW h \in DOMAIN launched, NEW job, Becomes(h, job),
           daemon' = daemon, trouble' \subseteq DOMAIN launched, trouble \subseteq trouble',
           stopped' \subseteq stopped \cup {h}, Truthful(h)'
    PROVE  DockerInv'
<1>1. \A g \in DOMAIN launched \ {h} : Truthful(g)'
  BY DEF DockerInv, Truthful, Becomes
<1> QED BY <1>1 DEF DockerInv, Becomes

LEMMA ContainerMoves ==
    ASSUME DockerInv, NEW h \in DOMAIN launched,
           ContainerStarts(h) \/ ContainerNeverStarts(h) \/ ContainerEnds(h)
    PROVE  DockerInv'
<1> USE DEF Over, Live
<1>0. launched \in Seq(JobType) /\ launched[h] \in JobType /\ Truthful(h)
  BY DEF DockerInv
<1>1. CASE ContainerStarts(h)
  <2>1. /\ Becomes(h, [launched[h] EXCEPT !.container = "running"])
        /\ launched[h].container = "starting" /\ daemon = "up" /\ UNCHANGED <<daemon, stopped, trouble>>
    BY <1>0, <1>1, SetJobBecomes DEF ContainerStarts
  <2>2. Truthful(h)'
    BY <1>0, <2>1 DEF Truthful, Becomes, JobType
  <2> QED BY <2>1, <2>2, OthersStayTruthful DEF DockerInv
<1>2. CASE ContainerNeverStarts(h)
  <2> DEFINE job == [launched[h] EXCEPT !.container = "none",
                                        !.client = IF @ = "running" THEN "error" ELSE @]
  <2>1. /\ launched' = [launched EXCEPT ![h] = job] /\ launched[h].container = "starting"
        /\ UNCHANGED <<daemon, stopped, trouble>>
    BY <1>2 DEF ContainerNeverStarts
  <2>2. /\ job \in JobType /\ job.container = "none" /\ job.backend = launched[h].backend
        /\ job.client = IF launched[h].client = "running" THEN "error" ELSE launched[h].client
        /\ job.outcome = launched[h].outcome
    BY <1>0 DEF JobType
  <2> HIDE DEF job
  <2>3. Becomes(h, job)
    BY <1>0, <2>1, <2>2, JobBecomes
  <2>4. Truthful(h)'
    BY <1>0, <2>1, <2>2, <2>3 DEF Truthful, Becomes
  <2> QED BY <2>1, <2>3, <2>4, OthersStayTruthful DEF DockerInv
<1>3. CASE ContainerEnds(h)
  <2>1. PICK how \in Over : SetJob(h, "container", how)
    BY <1>3 DEF ContainerEnds
  <2>2. /\ Becomes(h, [launched[h] EXCEPT !.container = how])
        /\ launched[h].container = "running" /\ UNCHANGED <<daemon, stopped, trouble>>
    BY <1>0, <1>3, <2>1, SetJobBecomes DEF ContainerEnds
  <2>3. Truthful(h)'
    BY <1>0, <2>2 DEF Truthful, Becomes, JobType
  <2> QED BY <2>2, <2>3, OthersStayTruthful DEF DockerInv
<1> QED BY <1>1, <1>2, <1>3

LEMMA ClientMoves ==
    ASSUME DockerInv, NEW h \in DOMAIN launched,
           ClientEnds(h) \/ NativeProcessEnds(h) \/ NativeStop(h) \/ GetStatus(h)
    PROVE  DockerInv'
<1> USE DEF Over, Live
<1>0. launched \in Seq(JobType) /\ launched[h] \in JobType /\ Truthful(h)
  BY DEF DockerInv
<1>1. CASE ClientEnds(h)
  <2> DEFINE how == IF launched[h].container = "ok" THEN "ok" ELSE "error"
  <2>1. /\ Becomes(h, [launched[h] EXCEPT !.client = how])
        /\ launched[h].container \in Over /\ launched[h].client = "running"
        /\ UNCHANGED <<daemon, stopped, trouble>>
    BY <1>0, <1>1, SetJobBecomes DEF ClientEnds
  <2>2. Truthful(h)'
    BY <1>0, <2>1 DEF Truthful, Becomes, JobType
  <2> QED BY <2>1, <2>2, OthersStayTruthful DEF DockerInv
<1>2. CASE NativeProcessEnds(h)
  <2>1. PICK how \in Over : SetJob(h, "client", how)
    BY <1>2 DEF NativeProcessEnds
  <2>2. /\ Becomes(h, [launched[h] EXCEPT !.client = how])
        /\ launched[h].backend = "native" /\ UNCHANGED <<daemon, stopped, trouble>>
    BY <1>0, <1>2, <2>1, SetJobBecomes DEF NativeProcessEnds
  <2>3. Truthful(h)'
    BY <1>0, <2>2 DEF Truthful, Becomes, JobType
  <2> QED BY <2>2, <2>3, OthersStayTruthful DEF DockerInv
<1>3. CASE NativeStop(h)
  <2> DEFINE job == [launched[h] EXCEPT !.outcome = "CANCELLED", !.client = "killed"]
  <2>1. /\ launched' = [launched EXCEPT ![h] = job] /\ launched[h].backend = "native"
        /\ UNCHANGED <<daemon, stopped, trouble>>
    BY <1>3 DEF NativeStop
  <2>2. job \in JobType /\ job.backend = launched[h].backend
    BY <1>0 DEF JobType
  <2> HIDE DEF job
  <2>3. Becomes(h, job)
    BY <1>0, <2>1, <2>2, JobBecomes
  <2>4. Truthful(h)'
    BY <2>1, <2>2, <2>3 DEF Truthful, Becomes
  <2> QED BY <2>1, <2>3, <2>4, OthersStayTruthful DEF DockerInv
<1>4. CASE GetStatus(h)
  <2> DEFINE how == StatusOf(launched[h])
  <2>1. /\ how \in {"RUNNING", "COMPLETED", "FAILED", "CANCELLED"}
        /\ launched[h].backend = "docker" =>
              /\ how # "CANCELLED"
              /\ how = "COMPLETED" <=> launched[h].client = "ok"
              /\ how = "FAILED" <=> launched[h].client \in {"error", "killed"}
    BY <1>0 DEF StatusOf, JobType
  <2>2. /\ SetJob(h, "outcome", how) /\ launched[h].outcome = "RUNNING"
        /\ UNCHANGED <<daemon, stopped, trouble>>
    BY <1>4 DEF GetStatus
  <2> HIDE DEF how
  <2>3. Becomes(h, [launched[h] EXCEPT !.outcome = how])
    BY <1>0, <2>1, <2>2, SetJobBecomes
  <2>4. Truthful(h)'
    BY <1>0, <2>1, <2>2, <2>3 DEF Truthful, Becomes, JobType
  <2> QED BY <2>2, <2>3, <2>4, OthersStayTruthful DEF DockerInv
<1> QED BY <1>1, <1>2, <1>3, <1>4

\* docker stop leaves a container only if it was not there yet or the daemon does
\* not answer: then it is in trouble.
LEMMA DockerStopMoves ==
    ASSUME DockerInv, NEW h \in DOMAIN launched, DockerStop(h) PROVE DockerInv'
<1> USE DEF Over, Live
<1>0. launched \in Seq(JobType) /\ launched[h] \in JobType /\ Truthful(h)
  BY DEF DockerInv
<1>1. /\ launched[h].backend = "docker" /\ stopped' = {h} /\ UNCHANGED daemon
      /\ trouble' = trouble \cup {g \in {h} : launched[g].container = "starting"}
  BY DEF DockerStop
<1>2. CASE daemon = "up" /\ launched[h].container = "running"
  <2>1. Becomes(h, [launched[h] EXCEPT !.container = "killed"])
    BY <1>0, <1>2, SetJobBecomes DEF DockerStop
  <2>2. Truthful(h)'
    BY <1>0, <1>1, <1>2, <2>1 DEF Truthful, Becomes, JobType
  <2> QED BY <1>1, <2>1, <2>2, OthersStayTruthful DEF DockerInv
<1>3. CASE ~(daemon = "up" /\ launched[h].container = "running")
  <2>1. UNCHANGED launched
    BY <1>3 DEF DockerStop
  <2>2. Truthful(h)'
    BY <1>0, <1>1, <1>3, <2>1 DEF Truthful, JobType
  <2>3. Becomes(h, launched[h])
    BY <1>0, <2>1 DEF Becomes
  <2> QED BY <1>1, <2>2, <2>3, OthersStayTruthful DEF DockerInv
<1> QED BY <1>2, <1>3

LEMMA ClientStopMoves == ASSUME DockerInv, ClientStop PROVE DockerInv'
<1> USE DEF Over, Live
<1>1. PICK h \in stopped :
         /\ launched' = [launched EXCEPT ![h].outcome = "CANCELLED",
                                         ![h].client = IF @ = "running" THEN "killed" ELSE @]
         /\ stopped' = {} /\ UNCHANGED <<daemon, trouble>>
  BY DEF ClientStop
<1>0. h \in DOMAIN launched /\ launched \in Seq(JobType) /\ launched[h] \in JobType /\ Truthful(h)
  BY DEF DockerInv
<1> DEFINE job == [launched[h] EXCEPT !.outcome = "CANCELLED",
                                      !.client = IF @ = "running" THEN "killed" ELSE @]
<1>2. /\ job \in JobType /\ job.backend = launched[h].backend /\ job.outcome = "CANCELLED"
      /\ job.container = launched[h].container
      /\ job.client = IF launched[h].client = "running" THEN "killed" ELSE launched[h].client
  BY <1>0 DEF JobType
<1>3. launched' = [launched EXCEPT ![h] = job]
  BY <1>1
<1> HIDE DEF job
<1>4. Becomes(h, job)
  BY <1>0, <1>2, <1>3, JobBecomes
<1>5. Truthful(h)'
  BY <1>0, <1>1, <1>2, <1>4 DEF Truthful, Becomes
<1> QED BY <1>0, <1>1, <1>4, <1>5, OthersStayTruthful DEF DockerInv

LEMMA LaunchMoves == ASSUME DockerInv, Launch PROVE DockerInv'
<1> USE DEF Over, Live
<1>0. launched \in Seq(JobType) /\ Len(launched) \in Nat
  BY DEF DockerInv
<1>1. PICK backend \in {"docker", "native"}, job \in ContainerJobs :
         /\ launched' = Append(launched, Launched(backend, job))
         /\ backend = "docker" <=> daemon = "up"
         /\ UNCHANGED <<daemon, stopped, trouble>>
  BY DEF Launch, IsDockerAvailable
<1> DEFINE new == Launched(backend, job)
<1>2. /\ new \in JobType /\ new.backend = backend /\ new.client = "running" /\ new.outcome = "RUNNING"
  BY DEF Launched, JobType
<1> HIDE DEF new
<1>3. launched' = Append(launched, new)
  BY <1>1 DEF new
<1>4. /\ launched' \in Seq(JobType) /\ DOMAIN launched \subseteq DOMAIN launched'
      /\ \A g \in DOMAIN launched : launched'[g] = launched[g]
      /\ \A g \in DOMAIN launched' : g \notin DOMAIN launched => launched'[g] = new
  BY <1>0, <1>2, <1>3
<1>5. ASSUME NEW g \in DOMAIN launched' PROVE Truthful(g)'
  <2>1. CASE g \in DOMAIN launched
    BY <1>1, <1>4, <2>1 DEF DockerInv, Truthful
  <2>2. CASE g \notin DOMAIN launched
    BY <1>1, <1>2, <1>4, <2>2 DEF DockerInv, Truthful
  <2> QED BY <2>1, <2>2
<1> QED BY <1>1, <1>4, <1>5 DEF DockerInv

\* The daemon loses sight of what runs, and of the clients that are attached.
LEMMA DaemonMoves ==
    ASSUME DockerInv, DaemonHangs \/ DaemonDies \/ DaemonReturns PROVE DockerInv'
<1> USE DEF Over, Live
<1>0. launched \in Seq(JobType) /\ \A h \in DOMAIN launched : launched[h] \in JobType
  BY DEF DockerInv
<1>1. CASE DaemonReturns
  BY <1>1 DEF DaemonReturns, DockerInv, Truthful
<1>2. CASE DaemonHangs
  BY <1>2 DEF DaemonHangs, DockerInv, Truthful, WithContainer, Attached
<1>3. CASE DaemonDies
  <2>1. PICK survive \in SUBSET WithContainer :
           launched' = [h \in DOMAIN launched |->
              IF launched[h].backend = "native" THEN launched[h]
              ELSE [launched[h] EXCEPT
                       !.client = IF @ = "running" THEN "error" ELSE @,
                       !.container = IF @ \in Live /\ h \notin survive THEN "killed" ELSE @]]
    BY <1>3 DEF DaemonDies
  <2>2. /\ daemon' = "down" /\ stopped' = stopped
        /\ trouble' = trouble \cup WithContainer \cup Attached
    BY <1>3 DEF DaemonDies
  <2>3. ASSUME NEW h \in DOMAIN launched
        PROVE  /\ launched'[h] \in JobType /\ launched'[h].backend = launched[h].backend
               /\ launched'[h].outcome = launched[h].outcome
               /\ launched[h].backend # "native" =>
                     /\ launched'[h].client = IF launched[h].client = "running" THEN "error"
                                              ELSE launched[h].client
                     /\ launched'[h].container = IF launched[h].container \in Live /\ h \notin survive
                                                 THEN "killed" ELSE launched[h].container
    BY <1>0, <2>1 DEF JobType
  <2>4. DOMAIN launched' = DOMAIN launched /\ launched' \in Seq(JobType)
    <3> DEFINE n == Len(launched)
    <3>1. n \in Nat /\ DOMAIN launched = 1..n
      BY <1>0
    <3>2. launched' \in [1..n -> JobType]
      <4>1. launched' = [h \in 1..n |-> launched'[h]]
        BY <2>1, <3>1
      <4> QED BY <2>3, <3>1, <4>1
    <3> HIDE DEF n
    <3> QED BY <3>1, <3>2
  <2>5. ASSUME NEW h \in DOMAIN launched PROVE Truthful(h)'
    <3>1. Truthful(h)
      BY DEF DockerInv
    <3> QED BY <1>0, <2>2, <2>3, <3>1 DEF Truthful, WithContainer, Attached, JobType
  <2> QED BY <2>2, <2>4, <2>5 DEF DockerInv, WithContainer, Attached
<1> QED BY <1>1, <1>2, <1>3

LEMMA DockerStep == ASSUME DockerInv, DockerNext PROVE DockerInv'
BY ContainerMoves, ClientMoves, DockerStopMoves, ClientStopMoves, LaunchMoves, DaemonMoves DEF DockerNext

LEMMA DockerTells == ASSUME DockerInv PROVE DockerTypeOK /\ ContainerEndIsTrue
<1>1. \A h \in DOMAIN launched : launched[h] \in JobType
  BY DEF DockerInv
<1> QED BY <1>1 DEF DockerInv, DockerTypeOK, ContainerEndIsTrue, Truthful, JobType

-----------------------------------------------------------------------------
(* The GPU isolation manager: no GPU is visible to two jobs, under whichever of *)
(* its names, and the manager implements DeviceLease                            *)

\* The inductive invariant: exclusivity follows from the agreement of the two
\* indexes, and what is visible from what is reserved.
IsolationInv ==
    /\ IsolationTypeOK
    /\ OwnersAgree
    /\ VisibleIsReserved

\* Two devices share no name: a value of CUDA_VISIBLE_DEVICES that names both is
\* the name of one device.
LEMMA NamesAreUnique ==
    ASSUME NEW d \in Gpus, NEW e \in Gpus, NEW v,
           v # NoBusId,
           v \in {CleanGpuId[d], PcieBusId[d]},
           v \in {CleanGpuId[e], PcieBusId[e]}
    PROVE  d = e
<1>1. CASE v = CleanGpuId[d]
    BY <1>1, GpuIdsAssumption
<1>2. CASE v = PcieBusId[d]
    BY <1>2, GpuIdsAssumption
<1> QED
    BY <1>1, <1>2

\* format_cuda_visible_devices gives each device one of its names.
LEMMA FormatNames ==
    ASSUME NEW D \in SUBSET Gpus, NEW devices, NEW v \in FormatCudaVisibleDevices(D, devices)
    PROVE  /\ v # NoBusId
           /\ \E d \in D : v \in {CleanGpuId[d], PcieBusId[d]}
<1>1. PICK d \in D : v = Format(d, devices)
    BY DEF FormatCudaVisibleDevices
<1>2. CASE UsePcieBusId /\ d \in devices /\ PcieBusId[d] # NoBusId
    BY <1>1, <1>2 DEF Format
<1>3. CASE ~(UsePcieBusId /\ d \in devices /\ PcieBusId[d] # NoBusId)
    <2>1. v = CleanGpuId[d]
        BY <1>1, <1>3 DEF Format
    <2> QED
        BY <1>1, <2>1, GpuIdsAssumption
<1> QED
    BY <1>2, <1>3

LEMMA IsolationInitially == IsolationInit => IsolationInv
BY GpuIdsAssumption
   DEF IsolationInit, IsolationInv, IsolationTypeOK, OwnersAgree, VisibleIsReserved, HasReservation

\* reserve_gpus: both indexes are written for the same devices, which had no
\* owner.
LEMMA ReservePreserves ==
    ASSUME IsolationInv, NEW j \in IsoJobs, NEW D \in SUBSET Gpus, ReserveGpus(j, D)
    PROVE  IsolationInv'
<1> USE DEF IsolationInv
<1>1. /\ reserved' = [reserved EXCEPT ![j] = D]
      /\ owner' = [d \in Gpus |-> IF d \in D THEN j ELSE owner[d]]
      /\ visible' = [visible EXCEPT ![j] = FormatCudaVisibleDevices(D, known)]
      /\ known' = known
      /\ reserved[j] = NoReservation
      /\ \A d \in D : owner[d] = Nobody
    BY DEF ReserveGpus, HasReservation
<1>2. D # NoReservation
    BY GpuIdsAssumption
<1>3. IsolationTypeOK'
    BY <1>1, FormatNames DEF IsolationTypeOK
<1>4. OwnersAgree'
    <2> SUFFICES ASSUME NEW i \in IsoJobs, NEW d \in Gpus
                 PROVE  owner'[d] = i <=> (reserved'[i] # NoReservation /\ d \in reserved'[i])
        BY DEF OwnersAgree, HasReservation
    <2>1. owner[d] = i <=> (reserved[i] # NoReservation /\ d \in reserved[i])
        BY DEF OwnersAgree, HasReservation
    <2>2. CASE i = j
        <3>1. reserved'[i] = D
            BY <1>1, <2>2 DEF IsolationTypeOK
        <3>2. owner[d] # j
            BY <1>1, <2>1, <2>2
        <3> QED
            BY <1>1, <1>2, <2>2, <3>1, <3>2
    <2>3. CASE i # j
        <3>1. reserved'[i] = reserved[i]
            BY <1>1, <2>3 DEF IsolationTypeOK
        <3>2. CASE d \in D
            BY <1>1, <2>1, <2>3, <3>1, <3>2, GpuIdsAssumption
        <3>3. CASE d \notin D
            BY <1>1, <2>1, <3>1, <3>3
        <3> QED
            BY <3>2, <3>3
    <2> QED
        BY <2>2, <2>3
<1>5. VisibleIsReserved'
    <2> SUFFICES ASSUME NEW i \in IsoJobs, reserved'[i] # NoReservation, NEW v \in visible'[i]
                 PROVE  \E d \in reserved'[i] : v \in {CleanGpuId[d], PcieBusId[d]} /\ v # NoBusId
        BY DEF VisibleIsReserved, HasReservation
    <2>1. CASE i = j
        <3>1. reserved'[i] = D
            BY <1>1, <2>1 DEF IsolationTypeOK
        <3>2. v \in FormatCudaVisibleDevices(D, known)
            BY <1>1, <2>1 DEF IsolationTypeOK
        <3> QED
            BY <3>1, <3>2, FormatNames
    <2>2. CASE i # j
        <3>1. reserved'[i] = reserved[i] /\ visible'[i] = visible[i]
            BY <1>1, <2>2 DEF IsolationTypeOK
        <3> QED
            BY <3>1 DEF VisibleIsReserved, HasReservation
    <2> QED
        BY <2>1, <2>2
<1> QED
    BY <1>3, <1>4, <1>5

\* release_gpus: the devices of the reservation, and no others, lose their owner.
LEMMA ReleasePreserves ==
    ASSUME IsolationInv, NEW j \in IsoJobs, ReleaseGpus(j)
    PROVE  IsolationInv'
<1> USE DEF IsolationInv
<1>1. /\ reserved' = [reserved EXCEPT ![j] = NoReservation]
      /\ owner' = [d \in Gpus |-> IF d \in reserved[j] THEN Nobody ELSE owner[d]]
      /\ visible' = [visible EXCEPT ![j] = {}]
      /\ known' = known
      /\ reserved[j] # NoReservation
    BY DEF ReleaseGpus, HasReservation
<1>2. IsolationTypeOK'
    BY <1>1 DEF IsolationTypeOK
<1>3. OwnersAgree'
    <2> SUFFICES ASSUME NEW i \in IsoJobs, NEW d \in Gpus
                 PROVE  owner'[d] = i <=> (reserved'[i] # NoReservation /\ d \in reserved'[i])
        BY DEF OwnersAgree, HasReservation
    <2>1. /\ owner[d] = i <=> (reserved[i] # NoReservation /\ d \in reserved[i])
          /\ owner[d] = j <=> d \in reserved[j]
        BY <1>1 DEF OwnersAgree, HasReservation
    <2>2. CASE i = j
        <3>1. reserved'[i] = NoReservation
            BY <1>1, <2>2 DEF IsolationTypeOK
        <3> QED
            BY <1>1, <2>1, <2>2, <3>1, GpuIdsAssumption
    <2>3. CASE i # j
        <3>1. reserved'[i] = reserved[i]
            BY <1>1, <2>3 DEF IsolationTypeOK
        <3> QED
            BY <1>1, <2>1, <2>3, <3>1, GpuIdsAssumption
    <2> QED
        BY <2>2, <2>3
<1>4. VisibleIsReserved'
    BY <1>1 DEF VisibleIsReserved, HasReservation, IsolationTypeOK
<1> QED
    BY <1>2, <1>3, <1>4

\* Every step of the manager.
LEMMA IsolationStep == IsolationInv /\ [IsolationNext]_isolationVars => IsolationInv'
<1> SUFFICES ASSUME IsolationInv, [IsolationNext]_isolationVars
             PROVE  IsolationInv'
    OBVIOUS
<1>1. ASSUME NEW D \in SUBSET Gpus, RegisterDevices(D)
      PROVE  IsolationInv'
    BY <1>1 DEF IsolationInv, RegisterDevices, IsolationTypeOK, OwnersAgree, VisibleIsReserved,
                HasReservation
<1>2. ASSUME UNCHANGED isolationVars
      PROVE  IsolationInv'
    BY <1>2 DEF IsolationInv, isolationVars, IsolationTypeOK, OwnersAgree, VisibleIsReserved,
                HasReservation
<1> QED
    BY <1>1, <1>2, ReservePreserves, ReleasePreserves DEF IsolationNext

\* The inductive invariant holds for every set of jobs and devices, however the
\* devices are named.
THEOREM IsolationInvariance == IsolationSpec => []IsolationInv
BY IsolationInitially, IsolationStep, PTL DEF IsolationSpec

\* No GPU is visible to two jobs that hold reservations, although one may know it
\* by its index and the other by its bus id.
THEOREM NoSharedGpu == IsolationSpec => []VisibleIsDisjoint
<1>1. IsolationInv => VisibleIsDisjoint
    <2> SUFFICES ASSUME IsolationInv,
                        NEW i \in IsoJobs, NEW j \in IsoJobs, i # j,
                        HasReservation(i), HasReservation(j),
                        NEW d \in Gpus,
                        NEW u \in {CleanGpuId[d], PcieBusId[d]}, u # NoBusId, u \in visible[i],
                        NEW v \in {CleanGpuId[d], PcieBusId[d]}, v # NoBusId, v \in visible[j]
                 PROVE  FALSE
        BY DEF VisibleIsDisjoint
    <2>1. /\ reserved[i] \in SUBSET Gpus
          /\ reserved[j] \in SUBSET Gpus
        BY DEF IsolationInv, IsolationTypeOK, HasReservation
    <2>2. d \in reserved[i]
        <3>1. PICK e \in reserved[i] : u \in {CleanGpuId[e], PcieBusId[e]}
            BY DEF IsolationInv, VisibleIsReserved
        <3> QED
            BY <2>1, <3>1, NamesAreUnique
    <2>3. d \in reserved[j]
        <3>1. PICK e \in reserved[j] : v \in {CleanGpuId[e], PcieBusId[e]}
            BY DEF IsolationInv, VisibleIsReserved
        <3> QED
            BY <2>1, <3>1, NamesAreUnique
    <2> QED
        BY <2>2, <2>3 DEF IsolationInv, OwnersAgree
<1> QED
    BY <1>1, IsolationInvariance, PTL

\* The manager keeps the promise of DeviceLease: reservations are taken and given
\* back whole, and no device is in two of them.
THEOREM IsolationImplementsLease == IsolationSpec => IsolationLease
<1>1. IsolationInit => Lease!Init
    BY DEF IsolationInit, Lease!Init
<1>2. IsolationInv /\ [IsolationNext]_isolationVars => [Lease!Next]_reserved
    <2> SUFFICES ASSUME IsolationInv, [IsolationNext]_isolationVars
                 PROVE  [Lease!Next]_reserved
        OBVIOUS
    <2>1. ASSUME NEW D \in SUBSET Gpus, RegisterDevices(D)
          PROVE  UNCHANGED reserved
        BY <2>1 DEF RegisterDevices
    <2>2. ASSUME NEW j \in IsoJobs, NEW D \in SUBSET Gpus, ReserveGpus(j, D)
          PROVE  Lease!Acquire(j, D)
        <3>1. \A i \in IsoJobs : reserved[i] # NoReservation => reserved[i] \cap D = {}
            BY <2>2, GpuIdsAssumption DEF IsolationInv, OwnersAgree, HasReservation, ReserveGpus
        <3> QED
            BY <2>2, <3>1 DEF ReserveGpus, HasReservation, Lease!Acquire, Lease!Holds
    <2>3. ASSUME NEW j \in IsoJobs, ReleaseGpus(j)
          PROVE  Lease!Release(j)
        BY <2>3 DEF ReleaseGpus, HasReservation, Lease!Release, Lease!Holds
    <2> QED
        BY <2>1, <2>2, <2>3 DEF IsolationNext, isolationVars, Lease!Next
<1> QED
    BY <1>1, <1>2, IsolationInvariance, PTL DEF IsolationSpec, IsolationLease, Lease!Spec

-----------------------------------------------------------------------------
(* All services *)

\* The dispatcher works on a registry of its own.
NodeInv ==
    /\ service \in Services /\ (hasRegistry => service = "membership")
    /\ RegistryInv /\ MemberInv /\ DispatchInv /\ DockerInv /\ IsolationInv /\ CheckpointInv
    /\ LoopTypeOK

LEMMA NodeInitially == NodeInit => NodeInv
BY MemberInitially, DispatchInitially, DockerInitially, IsolationInitially, CheckpointInitially,
   LoopInitially DEF NodeInit, NodeInv

\* What a service knows of its own variables stays so while they do.
LEMMA MemberUnmoved ==
    ASSUME MemberInv, UNCHANGED memberVars, hasRegistry => UNCHANGED registryVars PROVE MemberInv'
BY DEF MemberInv, memberVars, registryVars, RequestsInv, Apart, Agree, Joining, Leaving, Rewriting,
       Registered

LEMMA RegistryUnmoved == ASSUME RegistryInv, UNCHANGED registryVars PROVE RegistryInv'
BY DEF RegistryInv, RegistryTypeOK, registryVars

LEMMA DispatchUnmoved == ASSUME DispatchInv, UNCHANGED dispatchVars PROVE DispatchInv'
BY DEF DispatchInv, dispatchVars

LEMMA DockerUnmoved == ASSUME DockerInv, UNCHANGED dockerVars PROVE DockerInv'
BY DEF DockerInv, Truthful, dockerVars

LEMMA CheckpointUnmoved == ASSUME CheckpointInv, UNCHANGED checkpointVars PROVE CheckpointInv'
BY DEF CheckpointInv, checkpointVars

LEMMA LoopUnmoved == ASSUME LoopTypeOK, UNCHANGED loopVars PROVE LoopTypeOK'
BY DEF LoopTypeOK, loopVars, threadVars, asyncVars

LEMMA NodeStep == NodeInv /\ [NodeNext]_nodeVars => NodeInv'
<1> SUFFICES ASSUME NodeInv, [NodeNext]_nodeVars PROVE NodeInv'
  OBVIOUS
<1> USE MemberUnmoved, RegistryUnmoved, DispatchUnmoved, DockerUnmoved, IsolationStep, CheckpointUnmoved,
        LoopUnmoved
<1>0. /\ service \in Services /\ (hasRegistry => service = "membership")
      /\ RegistryInv /\ RegistryTypeOK /\ MemberInv /\ DispatchInv /\ DockerInv /\ IsolationInv
      /\ CheckpointInv /\ LoopTypeOK
  BY DEF NodeInv, RegistryInv
<1>1. CASE Membership_Next
  <2>1. RegistryInv' /\ MemberInv'
    BY <1>0, <1>1, MemberRegistrySteps, RegistryKept, MemberInvKept DEF Membership_Next
  <2> QED BY <1>0, <1>1, <2>1 DEF Membership_Next, NodeInv
<1>2. CASE Dispatcher_Next
  <2>1. RegistryInv' /\ DispatchInv'
    BY <1>0, <1>2, DispatchRegistrySteps, RegistryKept, DispatchInvKept DEF Dispatcher_Next
  <2>2. ~hasRegistry /\ UNCHANGED hasRegistry
    BY <1>0, <1>2 DEF Dispatcher_Next, memberVars
  <2> QED BY <1>0, <1>2, <2>1, <2>2 DEF Dispatcher_Next, NodeInv
<1>3. CASE Docker_Next
  <2>1. DockerInv' /\ UNCHANGED hasRegistry
    BY <1>0, <1>3, DockerStep DEF Docker_Next, memberVars
  <2> QED BY <1>0, <1>3, <2>1 DEF Docker_Next, NodeInv
<1>4. CASE Isolation_Next
  <2>1. IsolationInv' /\ UNCHANGED hasRegistry
    BY <1>0, <1>4 DEF Isolation_Next, memberVars
  <2> QED BY <1>0, <1>4, <2>1 DEF Isolation_Next, NodeInv
<1>5. CASE Checkpoint_Next
  <2>1. CheckpointInv' /\ UNCHANGED hasRegistry
    BY <1>0, <1>5, CheckpointInvKept DEF Checkpoint_Next, memberVars
  <2> QED BY <1>0, <1>5, <2>1 DEF Checkpoint_Next, NodeInv
<1>6. CASE Loop_Next
  <2>1. LoopTypeOK' /\ UNCHANGED hasRegistry
    BY <1>0, <1>6, LoopStep DEF Loop_Next, memberVars
  <2> QED BY <1>0, <1>6, <2>1 DEF Loop_Next, NodeInv
<1>7. CASE UNCHANGED nodeVars
  <2>1. UNCHANGED hasRegistry
    BY <1>7 DEF nodeVars, memberVars
  <2> QED BY <1>0, <1>7, <2>1 DEF nodeVars, NodeInv
<1> QED BY <1>1, <1>2, <1>3, <1>4, <1>5, <1>6, <1>7 DEF NodeNext

\* The services keep their invariants, for every set of workers, jobs, files,
\* GPUs, threads and tasks.
THEOREM NodeInvariance == NodeSpec => []NodeInv
BY NodeInitially, NodeStep, PTL DEF NodeSpec, NodeSteps

\* Every variable of every service keeps its shape: in particular an agent never
\* waits for two answers, and at most one checkpoint is being written.
THEOREM ServicesTypeCorrect == NodeSpec => []NodeTypeOK
<1>1. NodeInv => NodeTypeOK
  <2> SUFFICES ASSUME NodeInv PROVE NodeTypeOK
    OBVIOUS
  <2>1. MemberTypeOK
    BY MemberTypes DEF NodeInv, RegistryInv
  <2>2. DispatchTypeOK
    BY DEF NodeInv, RegistryInv, DispatchInv, DispatchTypeOK
  <2>3. DockerTypeOK
    BY DockerTells DEF NodeInv
  <2>4. IsolationTypeOK /\ CheckpointTypeOK /\ LoopTypeOK
    BY DEF NodeInv, IsolationInv, CheckpointInv, CheckpointTypeOK
  <2> QED BY <2>1, <2>2, <2>3, <2>4 DEF NodeTypeOK
<1> QED BY <1>1, NodeInvariance, PTL

\* The two tables of workers that the APIServer keeps have the same members
\* whenever no request is on its way, however many workers join, leave, time out
\* and are heard from at once, unless a deregistration met another request of its
\* worker or the server was restarted.
THEOREM TablesAgree == NodeSpec => []TablesAgreeAtRest
<1>1. NodeInv => TablesAgreeAtRest
  BY MembersAgree DEF NodeInv
<1> QED BY <1>1, NodeInvariance, PTL

\* What the docker backend says of any number of jobs is true of their containers,
\* save those the daemon lost sight of.
THEOREM ContainersAreTold == NodeSpec => []ContainerEndIsTrue
<1>1. NodeInv => ContainerEndIsTrue
  BY DockerTells DEF NodeInv
<1> QED BY <1>1, NodeInvariance, PTL

\* What get_job_status of the dispatcher answers is so.
THEOREM AnswersAreTrue == NodeSpec => ToldIsTrue
<1>1. NodeInv /\ [NodeNext]_nodeVars =>
        [\A j \in DispatchJobs : GetJobStatus(j) =>
            /\ told'[j] = "RUNNING" => /\ process[j] = "RUNNING"
                                       /\ Registered(worker[j]) => recent[worker[j]]
            /\ told'[j] = "COMPLETED" => process[j] = "COMPLETED"
            /\ told'[j] = "FAILED" => \/ process[j] = "FAILED"
                                      \/ ~recent[worker[j]]
                                      \/ health[worker[j]] = "UNAVAILABLE"
        ]_<<registryVars, dispatchVars>>
  BY TellsTheTruth DEF NodeInv
<1> QED BY <1>1, NodeInvariance, PTL DEF NodeSpec, NodeSteps, ToldIsTrue

\* A crash while a manifest is written costs that manifest alone, and a cleanup
\* costs the resume point neither its manifest nor its data.  Not covered: what a
\* job loses when the latest step is saved again and torn in place, and a file that
\* the latest manifest shares with an older one.
THEOREM ResumePointIsKept == NodeSpec => ResumePointKept
<1>1. NodeInv /\ [NodeNext]_nodeVars => [NoneBelow /\ DataStays]_checkpointVars
  <2> SUFFICES ASSUME NodeInv, [NodeNext]_nodeVars, ~UNCHANGED checkpointVars
               PROVE  NoneBelow /\ DataStays
    OBVIOUS
  <2>1. CheckpointNext
    BY DEF NodeNext, Membership_Next, Dispatcher_Next, Docker_Next, Isolation_Next, Checkpoint_Next,
           Loop_Next, nodeVars
  <2>2. CheckpointInv
    BY DEF NodeInv
  <2>3. DataStays
    BY <2>1, <2>2, CheckpointStep DEF DataStays
  <2> QED BY <2>1, <2>2, <2>3, NoneFallsBelow
<1> QED BY <1>1, NodeInvariance, PTL DEF NodeSpec, NodeSteps, ResumePointKept
=============================================================================
