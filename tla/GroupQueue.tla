----------------------------- MODULE GroupQueue -----------------------------
(***************************************************************************)
(* The per-group queue with a global concurrency limit of                  *)
(* src/group-queue.ts, and the pause gate of src/lifecycle.ts it reads.    *)
(*                                                                         *)
(* The host is one Node process: a callback runs to its end, or to its     *)
(* next await, without interruption.  An action below is such a stretch of *)
(* code.  releaseSlot ends by calling drainGroup, which may call           *)
(* drainWaiting, whose loop may start several runs; these calls are steps  *)
(* of their own, and while one is outstanding (toDrain, draining) no other *)
(* action is enabled, so they are as atomic as they are in the code.       *)
(*                                                                         *)
(* A "run" is one call of runForGroup or runTask that has not returned: it *)
(* owns a slot and, once registered, a container.                          *)
(***************************************************************************)
EXTENDS Integers, Sequences, FiniteSets

CONSTANTS
  Groups,         \* chat JIDs, the keys of the queue
  Tasks,          \* ids of scheduled tasks
  TaskGroup,      \* the group (chat_jid) a task runs for
  Folders,        \* agent group folders, each with one ipc input directory
  FolderOf,       \* the folder a group's container works in
  Runs,           \* identities for the runs in flight, one more than the limit
  MaxConcurrent,  \* MAX_CONCURRENT_CONTAINERS
  MaxRetries,     \* MAX_RETRIES
  MaxTimers,      \* bound of the model: retry timers outstanding per group
  Null            \* null

ASSUME LimitAssumption   == MaxConcurrent \in Nat \ {0}  \* config.ts:60 clamps it to 1
ASSUME RetryAssumption   == MaxRetries \in Nat /\ MaxTimers \in Nat
ASSUME RunsAssumption    == IsFiniteSet(Runs) /\ Cardinality(Runs) > MaxConcurrent
ASSUME MappingAssumption == /\ TaskGroup \in [Tasks -> Groups]
                            /\ FolderOf \in [Groups -> Folders]
ASSUME NullAssumption    ==
  /\ Null \notin Tasks \cup Groups \cup Runs
  /\ Null \notin [group : Groups, task : Tasks \cup {Null},
                  at : {"starting", "registered", "up", "idle"}]

VARIABLES
  active,           \* GroupState.active
  idleWaiting,      \* GroupState.idleWaiting
  pendingMessages,  \* GroupState.pendingMessages
  pendingTasks,     \* GroupState.pendingTasks, task ids in order
  runningTaskId,    \* GroupState.runningTaskId
  process,          \* the run whose process/containerName/groupFolder are registered
  retryCount,       \* GroupState.retryCount
  timers,           \* retry timeouts armed by scheduleRetry and not yet fired
  waitingGroups,    \* the insertion-ordered Set of groups that wait for a slot
  activeCount,      \* the slots in use
  run,              \* the runs in flight
  shuttingDown,     \* GroupQueue.shuttingDown
  paused,           \* pausedGate of lifecycle.ts
  closeSentinel,    \* folders with a _close file in ipc/<folder>/input
  late,             \* groups with output callbacks of an ended run still under way
  restarting,       \* groups for which restartGroup awaits containerRuntime.stop
  toDrain,          \* the group whose drainGroup call comes next, or Null
  draining          \* drainWaiting's loop is under way

work    == <<pendingMessages, pendingTasks, waitingGroups>>
slots   == <<active, runningTaskId, activeCount, run>>
box     == <<idleWaiting, process, closeSentinel, late>>
retries == <<retryCount, timers>>
gates   == <<shuttingDown, paused, restarting>>
calls   == <<toDrain, draining>>
vars    == <<work, slots, box, retries, gates, calls>>

\* A run begins without a container ("starting"); its container is spawned and
\* registered, comes up, and idles once it has reported the end of a query and
\* been given nothing since.
Stages == {"starting", "registered", "up", "idle"}

Run  == [group : Groups, task : Tasks \cup {Null}, at : Stages]
Live == {r \in Runs : run[r] # Null}
Waiting == {waitingGroups[i] : i \in DOMAIN waitingGroups}
Queued(j) == {pendingTasks[j][i] : i \in DOMAIN pendingTasks[j]}

\* The event loop is between two callbacks.
Quiet == toDrain = Null /\ ~draining

TypeOK ==
  /\ active \in [Groups -> BOOLEAN]
  /\ idleWaiting \in [Groups -> BOOLEAN]
  /\ pendingMessages \in [Groups -> BOOLEAN]
  /\ pendingTasks \in [Groups -> Seq(Tasks)]
  /\ runningTaskId \in [Groups -> Tasks \cup {Null}]
  /\ process \in [Groups -> Runs \cup {Null}]
  /\ retryCount \in [Groups -> 0 .. MaxRetries]
  /\ timers \in [Groups -> 0 .. MaxTimers]
  /\ waitingGroups \in Seq(Groups)
  /\ activeCount \in Int
  /\ run \in [Runs -> Run \cup {Null}]
  /\ shuttingDown \in BOOLEAN /\ paused \in BOOLEAN
  /\ closeSentinel \subseteq Folders
  /\ late \subseteq Groups
  /\ restarting \subseteq Groups
  /\ toDrain \in Groups \cup {Null}
  /\ draining \in BOOLEAN

Init ==
  /\ active = [j \in Groups |-> FALSE]
  /\ idleWaiting = [j \in Groups |-> FALSE]
  /\ pendingMessages = [j \in Groups |-> FALSE]
  /\ pendingTasks = [j \in Groups |-> <<>>]
  /\ runningTaskId = [j \in Groups |-> Null]
  /\ process = [j \in Groups |-> Null]
  /\ retryCount = [j \in Groups |-> 0]
  /\ timers = [j \in Groups |-> 0]
  /\ waitingGroups = <<>>
  /\ activeCount = 0
  /\ run = [r \in Runs |-> Null]
  /\ shuttingDown = FALSE
  /\ paused = FALSE
  /\ closeSentinel = {}
  /\ late = {}
  /\ restarting = {}
  /\ toDrain = Null
  /\ draining = FALSE

-----------------------------------------------------------------------------
(* Starting a run: the part of runForGroup and runTask before their await. *)

\* Mutant: the limit is off by one.
AtLimitOffByOne == activeCount > MaxConcurrent

AtLimit == activeCount >= MaxConcurrent

FreeRun == CHOOSE r \in Runs : run[r] = Null

\* Mutant: the slot is not counted.
TakeSlotUncounted(j, t) ==
  /\ active' = [active EXCEPT ![j] = TRUE]
  /\ run' = [run EXCEPT ![FreeRun] = [group |-> j, task |-> t, at |-> "starting"]]
  /\ UNCHANGED activeCount

TakeSlot(j, t) ==
  /\ active' = [active EXCEPT ![j] = TRUE]
  /\ activeCount' = activeCount + 1
  /\ run' = [run EXCEPT ![FreeRun] = [group |-> j, task |-> t, at |-> "starting"]]

RunForGroup(j) ==
  /\ TakeSlot(j, Null)
  /\ pendingMessages' = [pendingMessages EXCEPT ![j] = FALSE]
  /\ UNCHANGED runningTaskId

\* Mutant: runTask clears pendingMessages, as runForGroup does.
RunTaskClearsMessages(j, t) ==
  /\ TakeSlot(j, t)
  /\ runningTaskId' = [runningTaskId EXCEPT ![j] = t]
  /\ pendingMessages' = [pendingMessages EXCEPT ![j] = FALSE]

RunTask(j, t) ==
  /\ TakeSlot(j, t)
  /\ runningTaskId' = [runningTaskId EXCEPT ![j] = t]
  /\ UNCHANGED pendingMessages

\* waitingGroups.add: a Set keeps the place of a member it already has.
AddWaiting(j) ==
  waitingGroups' = IF j \in Waiting THEN waitingGroups ELSE Append(waitingGroups, j)

CloseStdin(j) ==
  closeSentinel' = IF active[j] /\ process[j] # Null
                   THEN closeSentinel \cup {FolderOf[j]}
                   ELSE closeSentinel

-----------------------------------------------------------------------------
(* Callers: the orchestrator's loop, its recovery at startup and the retry  *)
(* timers ask for messages to be processed; the scheduler queues tasks.     *)

\* Mutant: no look at `active`.
MessageCheckIgnoresActive(j) ==
  /\ ~shuttingDown /\ ~paused
  /\ \/ /\ AtLimit
        /\ pendingMessages' = [pendingMessages EXCEPT ![j] = TRUE]
        /\ AddWaiting(j)
        /\ UNCHANGED <<pendingTasks, slots>>
     \/ /\ ~AtLimit
        /\ RunForGroup(j)
        /\ UNCHANGED <<pendingTasks, waitingGroups>>

EnqueueMessageCheck(j) ==
  /\ ~shuttingDown
  /\ \/ /\ paused
        /\ pendingMessages' = [pendingMessages EXCEPT ![j] = TRUE]
        /\ AddWaiting(j)
        /\ UNCHANGED <<pendingTasks, slots>>
     \/ /\ ~paused /\ active[j]
        /\ pendingMessages' = [pendingMessages EXCEPT ![j] = TRUE]
        /\ UNCHANGED <<pendingTasks, waitingGroups, slots>>
     \/ /\ ~paused /\ ~active[j] /\ AtLimit
        /\ pendingMessages' = [pendingMessages EXCEPT ![j] = TRUE]
        /\ AddWaiting(j)
        /\ UNCHANGED <<pendingTasks, slots>>
     \/ /\ ~paused /\ ~active[j] /\ ~AtLimit
        /\ RunForGroup(j)
        /\ UNCHANGED <<pendingTasks, waitingGroups>>

MessageArrives(j) ==
  /\ Quiet
  /\ EnqueueMessageCheck(j)
  /\ UNCHANGED <<box, retries, gates, calls>>

PushTask(t) ==
  pendingTasks' = [pendingTasks EXCEPT ![TaskGroup[t]] = Append(@, t)]

AlreadyQueued(t) == t \in Queued(TaskGroup[t])

EnqueueTask(t) ==
  LET j == TaskGroup[t] IN
  /\ Quiet
  /\ ~shuttingDown
  /\ ~AlreadyQueued(t)
  /\ \/ /\ paused
        /\ PushTask(t)
        /\ AddWaiting(j)
        /\ UNCHANGED <<pendingMessages, slots, closeSentinel>>
     \/ /\ ~paused /\ runningTaskId[j] # t /\ active[j]
        /\ PushTask(t)
        /\ IF idleWaiting[j] THEN CloseStdin(j) ELSE UNCHANGED closeSentinel
        /\ UNCHANGED <<pendingMessages, waitingGroups, slots>>
     \/ /\ ~paused /\ runningTaskId[j] # t /\ ~active[j] /\ AtLimit
        /\ PushTask(t)
        /\ AddWaiting(j)
        /\ UNCHANGED <<pendingMessages, slots, closeSentinel>>
     \/ /\ ~paused /\ runningTaskId[j] # t /\ ~active[j] /\ ~AtLimit
        /\ RunTask(j, t)
        /\ UNCHANGED <<pendingTasks, waitingGroups, closeSentinel>>
  /\ UNCHANGED <<idleWaiting, process, late, retries, gates, calls>>

\* The timeout of scheduleRetry.
RetryFires(j) ==
  /\ Quiet
  /\ timers[j] > 0
  /\ timers' = [timers EXCEPT ![j] = @ - 1]
  /\ \/ shuttingDown /\ UNCHANGED <<work, slots>>
     \/ EnqueueMessageCheck(j)
  /\ UNCHANGED <<box, retryCount, gates, calls>>

-----------------------------------------------------------------------------
(* The life of a run's container, as the queue sees it.                     *)

\* runContainerAgent has spawned the container of run r.
RegisterProcess(r) ==
  /\ Quiet
  /\ r \in Live /\ run[r].at = "starting"
  /\ run' = [run EXCEPT ![r].at = "registered"]
  /\ process' = [process EXCEPT ![run[r].group] = r]
  /\ UNCHANGED <<work, active, runningTaskId, activeCount, idleWaiting, closeSentinel,
                 late, retries, gates, calls>>

\* The agent-runner in the container deletes a stale _close file when it starts.
Boot(r) ==
  /\ Quiet
  /\ r \in Live /\ run[r].at = "registered"
  /\ run' = [run EXCEPT ![r].at = "up"]
  /\ closeSentinel' = closeSentinel \ {FolderOf[run[r].group]}
  /\ UNCHANGED <<work, active, runningTaskId, activeCount, idleWaiting, process, late,
                 retries, gates, calls>>

\* Mutant: an idle container is left alone.
KeepIdling(j) == UNCHANGED closeSentinel

\* An idle container is closed for the task that waits.
MakeWayForTask(j) ==
  IF pendingTasks[j] # <<>> THEN CloseStdin(j) ELSE UNCHANGED closeSentinel

\* The container of run r has reported a finished query.
NotifyIdle(r) ==
  LET j == run[r].group IN
  /\ Quiet
  /\ r \in Live /\ run[r].at \in {"up", "idle"} /\ active[j]
  /\ run' = [run EXCEPT ![r].at = "idle"]
  /\ idleWaiting' = [idleWaiting EXCEPT ![j] = TRUE]
  /\ MakeWayForTask(j)
  /\ UNCHANGED <<work, active, runningTaskId, activeCount, process, late,
                 retries, gates, calls>>

\* An output callback of an ended run of group j gets through.  notifyIdle knows
\* the group only: what it marks idle is the group's next run, if there is one.
LateIdle(j) ==
  /\ Quiet
  /\ j \in late
  /\ late' \in {late, late \ {j}}
  /\ \/ /\ active[j]
        /\ idleWaiting' = [idleWaiting EXCEPT ![j] = TRUE]
        /\ MakeWayForTask(j)
     \/ ~active[j] /\ UNCHANGED <<idleWaiting, closeSentinel>>
  /\ UNCHANGED <<work, slots, process, retries, gates, calls>>

\* A message is piped into the running container: it is no longer idle.
SendMessage(j) ==
  /\ Quiet
  /\ active[j] /\ process[j] # Null
  /\ idleWaiting' = [idleWaiting EXCEPT ![j] = FALSE]
  /\ run' = [r \in Runs |-> IF r \in Live /\ run[r].group = j /\ run[r].at = "idle"
                            THEN [run[r] EXCEPT !.at = "up"] ELSE run[r]]
  /\ UNCHANGED <<work, active, runningTaskId, activeCount, process, closeSentinel, late,
                 retries, gates, calls>>

\* The idle timers of processGroupMessages and of the scheduler's runTask.  A late
\* callback arms the timer of its ended run anew, so it may close a later run.
IdleTimeout(j) ==
  /\ Quiet
  /\ active[j] /\ process[j] # Null
  /\ CloseStdin(j)
  /\ UNCHANGED <<work, slots, idleWaiting, process, late, retries, gates, calls>>

\* Mutant: one retry too many.
RetriesExhaustedLate(j) == retryCount[j] > MaxRetries

RetriesExhausted(j) == retryCount[j] + 1 > MaxRetries

\* Mutant: the count is reset but the retry still scheduled.
ScheduleRetryForever(j) ==
  /\ timers[j] < MaxTimers
  /\ retryCount' = [retryCount EXCEPT ![j] = (@ + 1) % (MaxRetries + 1)]
  /\ timers' = [timers EXCEPT ![j] = @ + 1]

ScheduleRetry(j) ==
  IF RetriesExhausted(j)
  THEN /\ retryCount' = [retryCount EXCEPT ![j] = 0]
       /\ UNCHANGED timers
  ELSE /\ timers[j] < MaxTimers
       /\ retryCount' = [retryCount EXCEPT ![j] = @ + 1]
       /\ timers' = [timers EXCEPT ![j] = @ + 1]

\* The await of run r returns.  Only the outcome of a message run counts for
\* the retries; an exception and a false result are treated alike.
Outcome(r, ok) ==
  LET j == run[r].group IN
  IF run[r].task # Null THEN UNCHANGED retries
  ELSE IF ok THEN /\ retryCount' = [retryCount EXCEPT ![j] = 0]
                  /\ UNCHANGED timers
  ELSE ScheduleRetry(j)

ReleaseSlot(r) ==
  LET j == run[r].group IN
  /\ active' = [active EXCEPT ![j] = FALSE]
  /\ idleWaiting' = [idleWaiting EXCEPT ![j] = FALSE]
  /\ runningTaskId' = [runningTaskId EXCEPT ![j] = Null]
  /\ process' = [process EXCEPT ![j] = Null]
  /\ activeCount' = activeCount - 1
  /\ run' = [run EXCEPT ![r] = Null]
  /\ toDrain' = j

\* The run ends because its container exited (having consumed the _close file,
\* or for another reason) or because there was nothing to start a container for.
\* A container that failed does not wait for its output callbacks to end.
EndRun(r, ok) ==
  /\ Quiet
  /\ r \in Live
  /\ Outcome(r, ok)
  /\ ReleaseSlot(r)
  /\ LET j == run[r].group IN
     \/ UNCHANGED <<closeSentinel, late>>
     \/ /\ run[r].at \in {"up", "idle"}
        /\ closeSentinel' \in {closeSentinel, closeSentinel \ {FolderOf[j]}}
        /\ late' \in {late, late \cup {j}}
  /\ UNCHANGED <<work, gates, draining>>

-----------------------------------------------------------------------------
(* Handing on the freed slot.                                               *)

\* Mutant: messages before tasks.
RunNextMessagesFirst(j) ==
  \/ /\ pendingMessages[j]
     /\ RunForGroup(j)
     /\ UNCHANGED pendingTasks
  \/ /\ pendingTasks[j] # <<>> /\ ~pendingMessages[j]
     /\ RunTask(j, Head(pendingTasks[j]))
     /\ pendingTasks' = [pendingTasks EXCEPT ![j] = Tail(@)]

\* What a group wants to run next: its oldest task before its messages.
RunNext(j) ==
  \/ /\ pendingTasks[j] # <<>>
     /\ RunTask(j, Head(pendingTasks[j]))
     /\ pendingTasks' = [pendingTasks EXCEPT ![j] = Tail(@)]
  \/ /\ pendingTasks[j] = <<>> /\ pendingMessages[j]
     /\ RunForGroup(j)
     /\ UNCHANGED pendingTasks

NothingPending(j) == pendingTasks[j] = <<>> /\ ~pendingMessages[j]

\* Mutant: the drain after a stop goes on.
DrainGroupWhileStopped ==
  /\ toDrain # Null
  /\ toDrain' = Null
  /\ \/ RunNext(toDrain) /\ UNCHANGED <<waitingGroups, draining>>
     \/ NothingPending(toDrain) /\ draining' = TRUE /\ UNCHANGED <<work, slots>>
  /\ UNCHANGED <<box, retries, gates>>

\* Mutant: the freed slot is offered to its own group only.
DrainGroupKeepsSlot ==
  /\ toDrain # Null
  /\ toDrain' = Null
  /\ \/ ~shuttingDown /\ RunNext(toDrain) /\ UNCHANGED <<waitingGroups, draining>>
     \/ /\ shuttingDown \/ NothingPending(toDrain)
        /\ UNCHANGED <<work, slots, draining>>
  /\ UNCHANGED <<box, retries, gates>>

DrainGroup ==
  /\ toDrain # Null
  /\ toDrain' = Null
  /\ \/ /\ shuttingDown
        /\ UNCHANGED <<work, slots, draining>>
     \/ /\ ~shuttingDown /\ RunNext(toDrain)
        /\ UNCHANGED <<waitingGroups, draining>>
     \/ /\ ~shuttingDown /\ NothingPending(toDrain)
        /\ draining' = TRUE
        /\ UNCHANGED <<work, slots>>
  /\ UNCHANGED <<box, retries, gates>>

\* Mutant: the loop does not look at the limit.
DrainWaitingUnlimited ==
  /\ draining
  /\ IF waitingGroups # <<>>
     THEN LET j == Head(waitingGroups) IN
          /\ waitingGroups' = Tail(waitingGroups)
          /\ \/ RunNext(j)
             \/ NothingPending(j) /\ UNCHANGED <<pendingMessages, pendingTasks, slots>>
          /\ UNCHANGED draining
     ELSE /\ draining' = FALSE
          /\ UNCHANGED <<work, slots>>
  /\ UNCHANGED <<box, retries, gates, toDrain>>

\* One turn of drainWaiting's loop, and its end.
DrainWaiting ==
  /\ draining
  /\ IF waitingGroups # <<>> /\ ~AtLimit
     THEN LET j == Head(waitingGroups) IN
          /\ waitingGroups' = Tail(waitingGroups)
          /\ \/ RunNext(j)
             \/ NothingPending(j) /\ UNCHANGED <<pendingMessages, pendingTasks, slots>>
          /\ UNCHANGED draining
     ELSE /\ draining' = FALSE
          /\ UNCHANGED <<work, slots>>
  /\ UNCHANGED <<box, retries, gates, toDrain>>

-----------------------------------------------------------------------------
(* Operator actions.                                                        *)

\* emergencyStop and shutdown: every container is told to stop, so the runs end.
EmergencyStop ==
  /\ Quiet
  /\ shuttingDown' = TRUE
  /\ UNCHANGED <<work, slots, box, retries, paused, restarting, calls>>

ResumeProcessing ==
  /\ Quiet
  /\ shuttingDown' = FALSE
  /\ draining' = TRUE
  /\ UNCHANGED <<work, slots, box, retries, paused, restarting, toDrain>>

Pause ==
  /\ Quiet
  /\ paused' = TRUE
  /\ UNCHANGED <<work, slots, box, retries, shuttingDown, restarting, calls>>

Resume ==
  /\ Quiet
  /\ paused' = FALSE
  /\ UNCHANGED <<work, slots, box, retries, shuttingDown, restarting, calls>>

\* restartGroup up to its await: the container of group j is told to stop.  The
\* group is the first of the folder with a live process; any such group is
\* allowed here, and one restart of a group is under way at a time.
RestartGroup(j) ==
  /\ Quiet
  /\ process[j] # Null
  /\ j \notin restarting
  /\ restarting' = restarting \cup {j}
  /\ UNCHANGED <<work, slots, box, retries, shuttingDown, paused, calls>>

\* The callback of containerRuntime.stop, which may come before or after the
\* exit of the container ends the run.
RestartStopped(j) ==
  /\ Quiet
  /\ j \in restarting
  /\ restarting' = restarting \ {j}
  /\ pendingMessages' = [pendingMessages EXCEPT ![j] = TRUE]
  /\ AddWaiting(j)
  /\ UNCHANGED <<pendingTasks, slots, box, retries, shuttingDown, paused, calls>>

-----------------------------------------------------------------------------
Arrival == (\E j \in Groups : MessageArrives(j)) \/ (\E t \in Tasks : EnqueueTask(t))

Serve ==
  \/ \E j \in Groups : RetryFires(j) \/ SendMessage(j) \/ IdleTimeout(j) \/ LateIdle(j)
  \/ \E r \in Runs : RegisterProcess(r) \/ Boot(r) \/ NotifyIdle(r)
  \/ \E r \in Runs, ok \in BOOLEAN : EndRun(r, ok)
  \/ DrainGroup
  \/ DrainWaiting

Gate == Pause \/ Resume \/ \E j \in Groups : RestartGroup(j) \/ RestartStopped(j)

\* The queue as long as neither the pause gate nor restartGroup is used.
UngatedNext == Arrival \/ Serve \/ EmergencyStop \/ ResumeProcessing

\* The queue as the host drives it today: index.ts wires emergencyStop and
\* resumeProcessing, but ipc/tasks.ts:365-369 no longer calls them.
GatedNext == Arrival \/ Serve \/ Gate

Next == UngatedNext \/ Gate

\* Synchronous calls return.  A run ends, because the idle timer closes an idle
\* container and the hard timeout of runContainerAgent stops a silent one; an
\* armed timer fires; docker stop returns.  The callback of each is ready from then
\* on and only waits for the event loop to come round to it, again and again not
\* enabled while synchronous calls of others are under way: strong fairness.
Fairness ==
  /\ WF_vars(DrainGroup)
  /\ WF_vars(DrainWaiting)
  /\ \A r \in Runs : SF_vars(\E ok \in BOOLEAN : EndRun(r, ok))
  /\ \A j \in Groups : SF_vars(RetryFires(j)) /\ SF_vars(RestartStopped(j))

UngatedSpec == Init /\ [][UngatedNext]_vars /\ Fairness
GatedSpec   == Init /\ [][GatedNext]_vars /\ Fairness
Spec        == Init /\ [][Next]_vars /\ Fairness
-----------------------------------------------------------------------------
(* What holds under every action.                                           *)

\* activeCount is the number of runForGroup and runTask calls in flight, however
\* starts, failures, releases and drains interleave (group-queue.ts:244, 272, 297).
SlotAccounting == activeCount = Cardinality(Live)

\* At no time are more containers up than MAX_CONCURRENT_CONTAINERS, whichever of
\* the five places that start a run started them (group-queue.ts:107, 165, 332,
\* 340, 362-366), even when one group gets two runs.
ConcurrencyLimit == Cardinality(Live) <= MaxConcurrent

Started == {r \in Runs : run[r] = Null /\ run'[r] # Null}

\* From emergencyStop or shutdown until resumeProcessing no run starts: not by an
\* arrival, a retry timer, or the drain of a run that ends late
\* (group-queue.ts:80, 113, 318, 325).
NoStartWhileStopped == [][shuttingDown /\ shuttingDown' => Started = {}]_vars

\* Work leaves the queue only by being run: a pending message check is cleared,
\* and a task id removed, in the step that starts that run (group-queue.ts:243,
\* 331, 361), not by a stop, a failure, a restart or another group's drain.
QueuedWorkOnlyStarts ==
  [][\A j \in Groups :
       /\ pendingMessages[j] /\ ~pendingMessages'[j] =>
            \E r \in Started : run'[r].group = j /\ run'[r].task = Null
       /\ \A t \in Queued(j) \ Queued(j)' :
            \E r \in Started : run'[r].group = j /\ run'[r].task = t]_vars

-----------------------------------------------------------------------------
(* What holds as long as neither the pause gate nor restartGroup is used.   *)

\* A group never has two runs, and `active` says whether it has one
\* (group-queue.ts:91, 136, 350-372).
OneRunPerGroup ==
  /\ \A r, s \in Live : run[r].group = run[s].group => r = s
  /\ \A j \in Groups : active[j] <=> \E r \in Live : run[r].group = j

\* No slot stays free while a group waits for one, except during a stop: every
\* release hands its slot on (group-queue.ts:324-372).
NoIdleSlot == Quiet /\ ~shuttingDown /\ waitingGroups # <<>> => AtLimit

\* A container that has ended its query while a task waits behind it has been told
\* to close (group-queue.ts:138-140, 183-185), whichever of the two came first and
\* whatever a late callback of an earlier run said in between, unless a message
\* gave it new work.
PreemptionSignalled ==
  \A r \in Live : run[r].at = "idle" /\ pendingTasks[run[r].group] # <<>> =>
    FolderOf[run[r].group] \in closeSentinel

Settled == Live = {} /\ \A j \in Groups : NothingPending(j) /\ timers[j] = 0

\* Once nothing new arrives, all that was queued is run, the retries of a failing
\* group give out (group-queue.ts:303), and the queue comes to rest.
Settles == [](~shuttingDown) /\ <>[][~Arrival]_vars => <>[]Settled

\* The groups whose tasks nothing leads to: no run, no place in line, no drain.
Forgotten ==
  {j \in Groups : pendingTasks[j] # <<>> /\ ~active[j] /\ j \notin Waiting /\ toDrain # j}

Containers == INSTANCE ContainerSlots WITH
  slot      <- [r \in Live |-> [group |-> run[r].group, task |-> run[r].task]],
  tasks     <- pendingTasks,
  owed      <- {j \in Groups : pendingMessages[j]},
  stopped   <- shuttingDown,
  forgotten <- Forgotten

\* The queue implements ContainerSlots: what a group asked for is run in the order
\* asked, one run at a time, its tasks before a message check that is owed, unless
\* a stop left the group without a place in line (group-queue.ts:324-372).
ImplementsContainerSlots == Containers!Spec

-----------------------------------------------------------------------------
(* What the comments and tests say, and the code does not do.               *)

\* group-queue.test.ts:370: "resume drains waiting groups".  With the gate open
\* for good, no stop and no restart, a waiting group gets its turn.
ResumeDrainsWaiting ==
  [](~shuttingDown /\ restarting = {}) /\ <>[]~paused =>
    \A j \in Groups : j \in Waiting ~> j \notin Waiting
=============================================================================
