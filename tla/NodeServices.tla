---------------------------- MODULE NodeServices ----------------------------
(***************************************************************************)
(* The parts of DRIGS around the scheduling of jobs: membership of the     *)
(* worker nodes, the dispatcher, the docker backend, the GPU isolation     *)
(* manager, the checkpoint manager and the loops that drive the            *)
(* controller.  Membership and dispatcher work on a WorkerRegistry each;   *)
(* otherwise they share nothing, so that a behaviour of all is one of      *)
(* each, and here a behaviour drives one of them.                          *)
(***************************************************************************)
EXTENDS Membership, Dispatcher, DockerBackend, GPUIsolation, CheckpointManager, ControlLoop

VARIABLE service    \* the part that is driven

nodeVars == <<registryVars, memberVars, dispatchVars, dockerVars, isolationVars, checkpointVars, loopVars, service>>

Services == {"membership", "dispatcher", "docker", "isolation", "checkpoints", "loop"}

NodeInit ==
    /\ service \in Services
    /\ MemberInit /\ DispatchInit /\ DockerInit /\ IsolationInit /\ CheckpointInit /\ LoopInit
    /\ hasRegistry => service = "membership"

Membership_Next ==
    /\ service = "membership" /\ MemberNext
    /\ UNCHANGED <<dispatchVars, dockerVars, isolationVars, checkpointVars, loopVars, service>>

Dispatcher_Next ==
    /\ service = "dispatcher" /\ DispatchNext
    /\ UNCHANGED <<memberVars, dockerVars, isolationVars, checkpointVars, loopVars, service>>

Docker_Next ==
    /\ service = "docker" /\ DockerNext
    /\ UNCHANGED <<registryVars, memberVars, dispatchVars, isolationVars, checkpointVars, loopVars, service>>

Isolation_Next ==
    /\ service = "isolation" /\ IsolationNext
    /\ UNCHANGED <<registryVars, memberVars, dispatchVars, dockerVars, checkpointVars, loopVars, service>>

Checkpoint_Next ==
    /\ service = "checkpoints" /\ CheckpointNext
    /\ UNCHANGED <<registryVars, memberVars, dispatchVars, dockerVars, isolationVars, loopVars, service>>

Loop_Next ==
    /\ service = "loop" /\ LoopNext
    /\ UNCHANGED <<registryVars, memberVars, dispatchVars, dockerVars, isolationVars, checkpointVars, service>>

NodeNext ==
    \/ Membership_Next \/ Dispatcher_Next \/ Docker_Next
    \/ Isolation_Next \/ Checkpoint_Next \/ Loop_Next

NodeSteps == NodeInit /\ [][NodeNext]_nodeVars

\* The loop of an agent goes on, and a request that is waited for is handled.
\* A call of stop or stop_async comes to its end, the controller's loops run, and
\* who waits for the controller's lock gets it some time.
NodeFairness ==
    /\ \A w \in Workers :
          /\ WF_nodeVars(service = "membership" /\ AgentSteps(w) /\ Membership_Next)
          /\ WF_nodeVars(service = "membership" /\ AwaitedHandler(w) /\ Membership_Next)
    /\ WF_nodeVars(service = "loop" /\ StopEnds /\ Loop_Next)
    /\ WF_nodeVars(service = "loop" /\ StopsAsync /\ Loop_Next)
    /\ \A t \in Threads : SF_nodeVars(service = "loop" /\ ThreadSteps(t) /\ Loop_Next)
    /\ \A k \in Tasks : SF_nodeVars(service = "loop" /\ TaskStepsOn(k) /\ Loop_Next)

NodeSpec == NodeSteps /\ NodeFairness

\* Every variable keeps its shape.
NodeTypeOK == MemberTypeOK /\ DispatchTypeOK /\ DockerTypeOK /\ IsolationTypeOK /\ CheckpointTypeOK /\ LoopTypeOK
=============================================================================
