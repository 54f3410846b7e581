----------------------------- MODULE ControlLoop -----------------------------
(***************************************************************************)
(* The loops that drive LocalController: start() and stop() with a thread, *)
(* start_async() and stop_async() with a task of the event loop whose      *)
(* passes run in threads of a pool.  (FailureDetector and the orphan       *)
(* sweeper have the same loop thread.)  All passes, and start, stop and    *)
(* start_async, take the controller's lock.                                *)
(***************************************************************************)
CONSTANTS
    Threads,    \* bound: the loop threads ever started
    Tasks,      \* bound: the tasks ever created
    NoLoop      \* no thread, no task, no holder of the lock

ASSUME LoopAssumption ==
    /\ Threads \cap Tasks = {}
    /\ {NoLoop, "stop"} \cap (Threads \cup Tasks) = {}

VARIABLES
    holder,         \* who holds _lock: a thread, the pass of a task, "stop" or NoLoop
    runningEvent,   \* _running_event
    loopThread,     \* _loop_thread
    loop,           \* loop[t]: where _loop is in thread t
    asyncRunning,   \* _async_running
    asyncTask,      \* _async_task
    async,          \* async[k]: where _async_loop is in task k
    pass,           \* pass[k]: where the step of task k is in its pool thread
    cancelled       \* the task that stop_async has cancelled and awaits, if any

threadVars == <<runningEvent, loopThread, loop>>
asyncVars  == <<asyncRunning, asyncTask, async, pass, cancelled>>
loopVars   == <<holder, threadVars, asyncVars>>

LoopInit ==
    /\ holder = NoLoop
    /\ runningEvent = FALSE /\ loopThread = NoLoop /\ loop = [t \in Threads |-> "new"]
    /\ asyncRunning = FALSE /\ asyncTask = NoLoop /\ async = [k \in Tasks |-> "new"]
    /\ pass = [k \in Tasks |-> "none"]
    /\ cancelled = NoLoop

ControllerFree == holder = NoLoop

-----------------------------------------------------------------------------
(* The loop thread *)

Start ==
    /\ ControllerFree /\ ~runningEvent
    /\ \E t \in Threads :
          /\ loop[t] = "new"
          /\ loop' = [loop EXCEPT ![t] = "test"]
          /\ loopThread' = t
    /\ runningEvent' = TRUE
    /\ UNCHANGED <<holder, asyncVars>>

\* The thread is joined with the lock held.
StopBegins ==
    /\ ControllerFree /\ runningEvent
    /\ runningEvent' = FALSE
    /\ holder' = "stop"
    /\ UNCHANGED <<loopThread, loop, asyncVars>>

\* Mutant: the join has no timeout.
StopWaits ==
    /\ holder = "stop" /\ loop[loopThread] = "ended"
    /\ holder' = NoLoop
    /\ UNCHANGED <<threadVars, asyncVars>>

\* The join ends with the thread or after its timeout; stop does not ask which.
StopEnds ==
    /\ holder = "stop"
    /\ holder' = NoLoop
    /\ UNCHANGED <<threadVars, asyncVars>>

LoopMoves(t, from, to) ==
    /\ loop[t] = from
    /\ loop' = [loop EXCEPT ![t] = to]
    /\ UNCHANGED <<runningEvent, loopThread, asyncVars>>

\* while self._running_event.is_set().
LoopTests(t) == LoopMoves(t, "test", IF runningEvent THEN "enter" ELSE "ended") /\ UNCHANGED holder

LoopEnters(t) == ControllerFree /\ LoopMoves(t, "enter", "step") /\ holder' = t

LoopSteps(t) == LoopMoves(t, "step", "wait") /\ holder' = NoLoop

\* _running_event.wait() returns at once while the event is set, and otherwise
\* when it is set or after the poll interval.
LoopWaits(t) == LoopMoves(t, "wait", "test") /\ UNCHANGED holder

-----------------------------------------------------------------------------
(* The asyncio loop *)

StartAsync ==
    /\ ControllerFree
    /\ asyncTask # NoLoop => async[asyncTask] = "ended"
    /\ \E k \in Tasks :
          /\ async[k] = "new"
          /\ async' = [async EXCEPT ![k] = "test"]
          /\ asyncTask' = k
    /\ asyncRunning' = TRUE
    /\ UNCHANGED <<holder, threadVars, pass, cancelled>>

\* Takes no lock.  One caller at a time.
StopAsyncBegins ==
    /\ cancelled = NoLoop
    /\ asyncRunning' = FALSE
    /\ IF asyncTask # NoLoop /\ async[asyncTask] # "ended"
       THEN cancelled' = asyncTask /\ UNCHANGED asyncTask
       ELSE asyncTask' = NoLoop /\ UNCHANGED cancelled
    /\ UNCHANGED <<holder, threadVars, async, pass>>

\* A pass that has begun goes on in its thread.
TaskCancelled ==
    /\ cancelled # NoLoop /\ async[cancelled] # "ended"
    /\ async' = [async EXCEPT ![cancelled] = "ended"]
    /\ \/ UNCHANGED pass
       \/ pass[cancelled] = "enter" /\ pass' = [pass EXCEPT ![cancelled] = "none"]
    /\ UNCHANGED <<holder, threadVars, asyncRunning, asyncTask, cancelled>>

\* A task that was started meanwhile is forgotten.
StopAsyncEnds ==
    /\ cancelled # NoLoop /\ async[cancelled] = "ended"
    /\ asyncTask' = NoLoop /\ cancelled' = NoLoop
    /\ UNCHANGED <<holder, threadVars, asyncRunning, async, pass>>

TaskMoves(k, from, to) ==
    /\ async[k] = from /\ k # cancelled
    /\ async' = [async EXCEPT ![k] = to]
    /\ UNCHANGED <<holder, threadVars, asyncRunning, asyncTask, cancelled>>

TaskSteps(k) ==
    /\ asyncRunning
    /\ TaskMoves(k, "test", "step")
    /\ pass' = [pass EXCEPT ![k] = "enter"]

TaskEnds(k) == ~asyncRunning /\ TaskMoves(k, "test", "ended") /\ UNCHANGED pass

TaskSleeps(k) == pass[k] = "none" /\ TaskMoves(k, "step", "sleep") /\ UNCHANGED pass

TaskWakes(k) == TaskMoves(k, "sleep", "test") /\ UNCHANGED pass

PassMoves(k, from, to) ==
    /\ pass[k] = from
    /\ pass' = [pass EXCEPT ![k] = to]
    /\ UNCHANGED <<threadVars, asyncRunning, asyncTask, async, cancelled>>

PassEnters(k) == ControllerFree /\ PassMoves(k, "enter", "step") /\ holder' = k

PassEnds(k) == PassMoves(k, "step", "none") /\ holder' = NoLoop

-----------------------------------------------------------------------------

ThreadSteps(t) == LoopTests(t) \/ LoopEnters(t) \/ LoopSteps(t) \/ LoopWaits(t)

TaskStepsOn(k) ==
    TaskSteps(k) \/ TaskEnds(k) \/ TaskSleeps(k) \/ TaskWakes(k) \/ PassEnters(k) \/ PassEnds(k)

StopsAsync == TaskCancelled \/ StopAsyncEnds

LoopNext ==
    \/ Start \/ StopBegins \/ StopEnds
    \/ \E t \in Threads : ThreadSteps(t)
    \/ StartAsync \/ StopAsyncBegins \/ StopsAsync
    \/ \E k \in Tasks : TaskStepsOn(k)

LoopTypeOK ==
    /\ holder \in Threads \cup Tasks \cup {"stop", NoLoop}
    /\ runningEvent \in BOOLEAN /\ loopThread \in Threads \cup {NoLoop}
    /\ loop \in [Threads -> {"new", "test", "enter", "step", "wait", "ended"}]
    /\ asyncRunning \in BOOLEAN
    /\ {asyncTask, cancelled} \subseteq Tasks \cup {NoLoop}
    /\ async \in [Tasks -> {"new", "test", "step", "sleep", "ended"}]
    /\ pass \in [Tasks -> {"none", "enter", "step"}]

\* stop() and stop_async() do what they say although the one holds the lock that
\* the loop's pass needs and the other does not wait for the pass: each stop
\* comes to its end, and unless somebody starts a loop again no loop and no pass
\* is left, those that an interleaved stop and start lost track of included.
StoppedLoopsEnd ==
    /\ ~runningEvent ~>
          \/ runningEvent
          \/ ControllerFree /\ \A t \in Threads : loop[t] \in {"new", "ended"}
    /\ ~asyncRunning ~>
          \/ asyncRunning
          \/ cancelled = NoLoop /\ \A k \in Tasks : async[k] \in {"new", "ended"} /\ pass[k] = "none"
=============================================================================
