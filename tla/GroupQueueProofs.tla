-------------------------- MODULE GroupQueueProofs --------------------------
(***************************************************************************)
(* Theorems about GroupQueue, for every number of groups, tasks and slots. *)
(***************************************************************************)
EXTENDS GroupQueue, TLAPS, FiniteSetTheorems

LEMMA TailType ==
  ASSUME NEW S, NEW s \in Seq(S), s # <<>>
  PROVE  Head(s) \in S /\ Tail(s) \in Seq(S)
  OBVIOUS

-----------------------------------------------------------------------------
(* Type correctness. *)

LEMMA TakeSlotType ==
  ASSUME TypeOK, NEW j \in Groups, NEW t \in Tasks \cup {Null}, TakeSlot(j, t)
  PROVE  /\ active' \in [Groups -> BOOLEAN]
         /\ activeCount' \in Int
         /\ run' \in [Runs -> Run \cup {Null}]
  <1>1. [group |-> j, task |-> t, at |-> "starting"] \in Run \cup {Null}
    BY DEF Run, Stages
  <1>2. run' \in [Runs -> Run \cup {Null}]
    BY <1>1 DEF TypeOK, TakeSlot
  <1>3. QED
    BY <1>2 DEF TypeOK, TakeSlot

\* The same runs are in flight, for the same work.
SameRuns ==
  /\ Live' = Live
  /\ \A r \in Live : run'[r].group = run[r].group /\ run'[r].task = run[r].task

LEMMA RunNotNull == \A x \in Run : x # Null
  BY NullAssumption DEF Run, Stages

\* A run moves on to another stage.
LEMMA StageLive ==
  ASSUME TypeOK, NEW r \in Live, NEW s \in Stages, run' = [run EXCEPT ![r].at = s]
  PROVE  /\ SameRuns
         /\ run' \in [Runs -> Run \cup {Null}]
         /\ run'[r].at = s
         /\ \A q \in Live : q # r => run'[q] = run[q]
  <1>1. r \in Runs /\ run[r] \in Run
    BY DEF TypeOK, Live
  <1>2. run'[r] = [run[r] EXCEPT !.at = s] /\ \A q \in Runs : q # r => run'[q] = run[q]
    BY <1>1 DEF TypeOK
  <1>3. /\ run'[r] \in Run /\ run'[r].at = s
        /\ run'[r].group = run[r].group /\ run'[r].task = run[r].task
    BY <1>1, <1>2 DEF Run
  <1>4. Live' = Live
    BY <1>1, <1>2, <1>3, RunNotNull DEF Live
  <1>5. run' \in [Runs -> Run \cup {Null}]
    BY <1>1, <1>3 DEF TypeOK
  <1>6. QED
    BY <1>2, <1>3, <1>4, <1>5 DEF SameRuns, Live

\* A message goes to a container that idles: it does not any longer.
LEMMA WakeLive ==
  ASSUME TypeOK, NEW j \in Groups, SendMessage(j)
  PROVE  /\ SameRuns
         /\ run' \in [Runs -> Run \cup {Null}]
         /\ \A q \in Live :
              /\ run'[q].at = "idle" => run[q].at = "idle" /\ run[q].group # j
              /\ run'[q].at # "starting" => run[q].at # "starting"
  <1>1. ASSUME NEW q \in Live
        PROVE  /\ run'[q] \in Run
               /\ run'[q].group = run[q].group /\ run'[q].task = run[q].task
               /\ run'[q].at = "idle" => run[q].at = "idle" /\ run[q].group # j
               /\ run'[q].at # "starting" => run[q].at # "starting"
    <2>1. q \in Runs /\ run[q] \in Run
      BY DEF TypeOK, Live
    <2>2. CASE run[q].group = j /\ run[q].at = "idle"
      <3>1. run'[q] = [run[q] EXCEPT !.at = "up"]
        BY <2>1, <2>2 DEF SendMessage
      <3>2. QED
        BY <2>1, <2>2, <3>1 DEF Run, Stages
    <2>3. CASE ~(run[q].group = j /\ run[q].at = "idle")
      <3>1. run'[q] = run[q]
        BY <2>1, <2>3 DEF SendMessage
      <3>2. QED
        BY <2>1, <2>3, <3>1
    <2>4. QED
      BY <2>2, <2>3
  <1>2. \A q \in Runs \ Live : run'[q] = Null
    BY DEF SendMessage, Live
  <1>3. Live' = Live
    BY <1>1, <1>2, RunNotNull DEF Live
  <1>4. run' \in [Runs -> Run \cup {Null}]
    BY <1>1, <1>2 DEF SendMessage, Live
  <1>5. QED
    BY <1>1, <1>3, <1>4 DEF SameRuns

LEMMA AddWaitingType ==
  ASSUME TypeOK, NEW j \in Groups, AddWaiting(j)
  PROVE  waitingGroups' \in Seq(Groups)
  BY DEF TypeOK, AddWaiting

LEMMA CloseStdinType ==
  ASSUME TypeOK, NEW j \in Groups, CloseStdin(j)
  PROVE  closeSentinel' \subseteq Folders
  BY MappingAssumption DEF TypeOK, CloseStdin

LEMMA RunForGroupType ==
  ASSUME TypeOK, NEW j \in Groups, RunForGroup(j)
  PROVE  /\ active' \in [Groups -> BOOLEAN]
         /\ activeCount' \in Int
         /\ run' \in [Runs -> Run \cup {Null}]
         /\ runningTaskId' \in [Groups -> Tasks \cup {Null}]
         /\ pendingMessages' \in [Groups -> BOOLEAN]
  <1>1. TakeSlot(j, Null)
    BY DEF RunForGroup
  <1>2. QED
    BY <1>1, TakeSlotType DEF RunForGroup, TypeOK

LEMMA RunTaskType ==
  ASSUME TypeOK, NEW j \in Groups, NEW t \in Tasks, RunTask(j, t)
  PROVE  /\ active' \in [Groups -> BOOLEAN]
         /\ activeCount' \in Int
         /\ run' \in [Runs -> Run \cup {Null}]
         /\ runningTaskId' \in [Groups -> Tasks \cup {Null}]
         /\ pendingMessages' \in [Groups -> BOOLEAN]
  <1>1. TakeSlot(j, t)
    BY DEF RunTask
  <1>2. QED
    BY <1>1, TakeSlotType DEF RunTask, TypeOK

LEMMA MessageCheckType ==
  ASSUME TypeOK, NEW j \in Groups, EnqueueMessageCheck(j)
  PROVE  /\ active' \in [Groups -> BOOLEAN]
         /\ activeCount' \in Int
         /\ run' \in [Runs -> Run \cup {Null}]
         /\ runningTaskId' \in [Groups -> Tasks \cup {Null}]
         /\ pendingMessages' \in [Groups -> BOOLEAN]
         /\ pendingTasks' \in [Groups -> Seq(Tasks)]
         /\ waitingGroups' \in Seq(Groups)
  <1>1. CASE RunForGroup(j) /\ UNCHANGED <<pendingTasks, waitingGroups>>
    BY <1>1, RunForGroupType DEF TypeOK
  <1>2. CASE /\ pendingMessages' = [pendingMessages EXCEPT ![j] = TRUE]
             /\ AddWaiting(j)
             /\ UNCHANGED <<pendingTasks, slots>>
    BY <1>2, AddWaitingType DEF TypeOK, slots
  <1>3. CASE /\ pendingMessages' = [pendingMessages EXCEPT ![j] = TRUE]
             /\ UNCHANGED <<pendingTasks, waitingGroups, slots>>
    BY <1>3 DEF TypeOK, slots
  <1>4. QED
    BY <1>1, <1>2, <1>3 DEF EnqueueMessageCheck

LEMMA RunNextType ==
  ASSUME TypeOK, NEW j \in Groups, RunNext(j)
  PROVE  /\ active' \in [Groups -> BOOLEAN]
         /\ activeCount' \in Int
         /\ run' \in [Runs -> Run \cup {Null}]
         /\ runningTaskId' \in [Groups -> Tasks \cup {Null}]
         /\ pendingMessages' \in [Groups -> BOOLEAN]
         /\ pendingTasks' \in [Groups -> Seq(Tasks)]
  <1>1. CASE /\ pendingTasks[j] # <<>>
             /\ RunTask(j, Head(pendingTasks[j]))
             /\ pendingTasks' = [pendingTasks EXCEPT ![j] = Tail(@)]
    <2>1. pendingTasks[j] \in Seq(Tasks)
      BY DEF TypeOK
    <2>2. Head(pendingTasks[j]) \in Tasks /\ Tail(pendingTasks[j]) \in Seq(Tasks)
      BY <1>1, <2>1, TailType
    <2>3. QED
      BY <1>1, <2>2, RunTaskType DEF TypeOK
  <1>2. CASE RunForGroup(j) /\ UNCHANGED pendingTasks
    BY <1>2, RunForGroupType DEF TypeOK
  <1>3. QED
    BY <1>1, <1>2 DEF RunNext

LEMMA EndRunType ==
  ASSUME TypeOK, NEW r \in Runs, NEW ok \in BOOLEAN, EndRun(r, ok)
  PROVE  TypeOK'
  <1>1. run[r] \in Run /\ run[r].group \in Groups
    BY DEF TypeOK, EndRun, Live, Run
  <1>2. retryCount' \in [Groups -> 0 .. MaxRetries] /\ timers' \in [Groups -> 0 .. MaxTimers]
    <2>1. CASE UNCHANGED retries
      BY <2>1 DEF TypeOK, retries
    <2>2. CASE retryCount' = [retryCount EXCEPT ![run[r].group] = 0] /\ UNCHANGED timers
      BY <1>1, <2>2, RetryAssumption DEF TypeOK
    <2>3. CASE ScheduleRetry(run[r].group)
      <3> DEFINE j == run[r].group
      <3>1. retryCount[j] \in 0 .. MaxRetries /\ timers[j] \in 0 .. MaxTimers
        BY <1>1 DEF TypeOK
      <3>2. CASE retryCount[j] + 1 > MaxRetries
        <4>1. retryCount' = [retryCount EXCEPT ![j] = 0] /\ timers' = timers
          BY <2>3, <3>2 DEF ScheduleRetry, RetriesExhausted
        <4>2. QED
          BY <1>1, <4>1, RetryAssumption DEF TypeOK
      <3>3. CASE ~(retryCount[j] + 1 > MaxRetries)
        <4>1. retryCount[j] + 1 \in 0 .. MaxRetries /\ timers[j] + 1 \in 0 .. MaxTimers
          BY <2>3, <3>1, <3>3, RetryAssumption DEF ScheduleRetry, RetriesExhausted
        <4>2. QED
          BY <1>1, <2>3, <3>3, <4>1 DEF TypeOK, ScheduleRetry, RetriesExhausted
      <3>4. QED
        BY <3>2, <3>3
    <2>4. QED
      BY <2>1, <2>2, <2>3 DEF EndRun, Outcome
  <1>3. ReleaseSlot(r)
    BY DEF EndRun
  <1>4. /\ active' \in [Groups -> BOOLEAN] /\ idleWaiting' \in [Groups -> BOOLEAN]
        /\ runningTaskId' \in [Groups -> Tasks \cup {Null}]
        /\ process' \in [Groups -> Runs \cup {Null}]
        /\ activeCount' \in Int
        /\ run' \in [Runs -> Run \cup {Null}]
        /\ toDrain' \in Groups \cup {Null}
    BY <1>1, <1>3 DEF TypeOK, ReleaseSlot
  <1>5. closeSentinel' \subseteq Folders /\ late' \subseteq Groups
    BY <1>1 DEF TypeOK, EndRun
  <1>6. QED
    BY <1>2, <1>4, <1>5 DEF TypeOK, EndRun, work, gates

LEMMA DrainGroupType ==
  ASSUME TypeOK, DrainGroup
  PROVE  TypeOK'
  <1>1. CASE shuttingDown /\ UNCHANGED <<work, slots, draining>>
    BY <1>1 DEF TypeOK, DrainGroup, work, slots, box, retries, gates
  <1>2. CASE RunNext(toDrain) /\ UNCHANGED <<waitingGroups, draining>>
    <2>1. toDrain \in Groups
      BY DEF TypeOK, DrainGroup
    <2>2. QED
      BY <1>2, <2>1, RunNextType DEF TypeOK, DrainGroup, box, retries, gates
  <1>3. CASE draining' = TRUE /\ UNCHANGED <<work, slots>>
    BY <1>3 DEF TypeOK, DrainGroup, work, slots, box, retries, gates
  <1>4. QED
    BY <1>1, <1>2, <1>3 DEF DrainGroup

LEMMA DrainWaitingType ==
  ASSUME TypeOK, DrainWaiting
  PROVE  TypeOK'
  <1>1. CASE waitingGroups # <<>> /\ ~AtLimit
    <2> DEFINE j == Head(waitingGroups)
    <2>1. j \in Groups /\ Tail(waitingGroups) \in Seq(Groups)
      BY <1>1, TailType DEF TypeOK
    <2>2. /\ waitingGroups' = Tail(waitingGroups)
          /\ UNCHANGED <<box, retries, gates, toDrain, draining>>
          /\ RunNext(j) \/ UNCHANGED <<pendingMessages, pendingTasks, slots>>
      BY <1>1 DEF DrainWaiting
    <2>3. CASE RunNext(j)
      BY <2>1, <2>2, <2>3, RunNextType DEF TypeOK, box, retries, gates
    <2>4. CASE UNCHANGED <<pendingMessages, pendingTasks, slots>>
      BY <2>1, <2>2, <2>4 DEF TypeOK, slots, box, retries, gates
    <2>5. QED
      BY <2>2, <2>3, <2>4
  <1>2. CASE ~(waitingGroups # <<>> /\ ~AtLimit)
    BY <1>2 DEF TypeOK, DrainWaiting, work, slots, box, retries, gates
  <1>3. QED
    BY <1>1, <1>2

LEMMA EnqueueTaskType ==
  ASSUME TypeOK, NEW t \in Tasks, EnqueueTask(t)
  PROVE  TypeOK'
  <1> DEFINE j == TaskGroup[t]
  <1>1. j \in Groups
    BY MappingAssumption
  <1>2. CASE PushTask(t) /\ UNCHANGED <<pendingMessages, slots>>
    <2>1. pendingTasks' \in [Groups -> Seq(Tasks)]
      BY <1>1, <1>2 DEF TypeOK, PushTask
    <2>2. closeSentinel' \subseteq Folders
      BY <1>1, CloseStdinType DEF TypeOK, EnqueueTask
    <2>3. waitingGroups' \in Seq(Groups)
      BY <1>1, <1>2, AddWaitingType DEF TypeOK, EnqueueTask
    <2>4. QED
      BY <1>2, <2>1, <2>2, <2>3 DEF TypeOK, EnqueueTask, slots, retries, gates, calls
  <1>3. CASE RunTask(j, t) /\ UNCHANGED <<pendingTasks, waitingGroups, closeSentinel>>
    BY <1>1, <1>3, RunTaskType DEF TypeOK, EnqueueTask, retries, gates, calls
  <1>4. QED
    BY <1>2, <1>3 DEF EnqueueTask

LEMMA InitType == Init => TypeOK
  <1> SUFFICES ASSUME Init
               PROVE  TypeOK
    OBVIOUS
  <1>1. pendingTasks \in [Groups -> Seq(Tasks)] /\ waitingGroups \in Seq(Groups)
    BY DEF Init
  <1>2. retryCount \in [Groups -> 0 .. MaxRetries] /\ timers \in [Groups -> 0 .. MaxTimers]
    BY RetryAssumption DEF Init
  <1>3. run \in [Runs -> Run \cup {Null}] /\ process \in [Groups -> Runs \cup {Null}]
    BY DEF Init
  <1>4. /\ active \in [Groups -> BOOLEAN] /\ idleWaiting \in [Groups -> BOOLEAN]
        /\ pendingMessages \in [Groups -> BOOLEAN]
        /\ runningTaskId \in [Groups -> Tasks \cup {Null}]
    BY DEF Init
  <1>5. shuttingDown \in BOOLEAN /\ paused \in BOOLEAN /\ draining \in BOOLEAN
    BY Zenon DEF Init
  <1>6. /\ activeCount \in Int /\ late \subseteq Groups
        /\ closeSentinel \subseteq Folders /\ restarting \subseteq Groups
        /\ toDrain \in Groups \cup {Null}
    BY DEF Init
  <1>7. QED
    BY <1>1, <1>2, <1>3, <1>4, <1>5, <1>6 DEF TypeOK

LEMMA NextType == TypeOK /\ [Next]_vars => TypeOK'
  <1> SUFFICES ASSUME TypeOK, [Next]_vars
               PROVE  TypeOK'
    OBVIOUS
  <1>1. ASSUME NEW j \in Groups, MessageArrives(j)
        PROVE  TypeOK'
    BY <1>1, MessageCheckType DEF TypeOK, MessageArrives, box, retries, gates, calls
  <1>2. ASSUME NEW t \in Tasks, EnqueueTask(t)
        PROVE  TypeOK'
    BY <1>2, EnqueueTaskType
  <1>3. ASSUME NEW j \in Groups, RetryFires(j)
        PROVE  TypeOK'
    <2>1. timers' \in [Groups -> 0 .. MaxTimers]
      BY <1>3, RetryAssumption DEF TypeOK, RetryFires
    <2>2. CASE UNCHANGED <<work, slots>>
      BY <1>3, <2>1, <2>2 DEF TypeOK, RetryFires, work, slots, box, gates, calls
    <2>3. CASE EnqueueMessageCheck(j)
      BY <1>3, <2>1, <2>3, MessageCheckType DEF TypeOK, RetryFires, box, gates, calls
    <2>4. QED
      BY <1>3, <2>2, <2>3 DEF RetryFires
  <1>4. ASSUME NEW j \in Groups, SendMessage(j)
        PROVE  TypeOK'
    BY <1>4, WakeLive DEF TypeOK, SendMessage, work, retries, gates, calls
  <1>5. ASSUME NEW j \in Groups, IdleTimeout(j) \/ LateIdle(j)
        PROVE  TypeOK'
    <2>1. closeSentinel' \subseteq Folders
      BY <1>5, CloseStdinType DEF TypeOK, IdleTimeout, LateIdle, MakeWayForTask
    <2>2. QED
      BY <1>5, <2>1 DEF TypeOK, IdleTimeout, LateIdle, work, slots, retries, gates, calls
  <1>6. ASSUME NEW r \in Runs, RegisterProcess(r) \/ Boot(r)
        PROVE  TypeOK'
    <2>1. run[r].group \in Groups /\ r \in Live
      BY <1>6 DEF TypeOK, RegisterProcess, Boot, Live, Run
    <2>2. run' \in [Runs -> Run \cup {Null}]
      BY <1>6, <2>1, StageLive DEF RegisterProcess, Boot, Stages
    <2>3. CASE RegisterProcess(r)
      BY <2>1, <2>2, <2>3 DEF TypeOK, RegisterProcess, work, retries, gates, calls
    <2>4. CASE Boot(r)
      BY <2>1, <2>2, <2>4 DEF TypeOK, Boot, work, retries, gates, calls
    <2>5. QED
      BY <1>6, <2>3, <2>4
  <1>7. ASSUME NEW r \in Runs, NotifyIdle(r)
        PROVE  TypeOK'
    <2>1. run[r].group \in Groups /\ r \in Live
      BY <1>7 DEF TypeOK, NotifyIdle, Live, Run
    <2>2. closeSentinel' \subseteq Folders
      BY <1>7, <2>1, CloseStdinType DEF TypeOK, NotifyIdle, MakeWayForTask
    <2>3. run' \in [Runs -> Run \cup {Null}]
      BY <1>7, <2>1, StageLive DEF NotifyIdle, Stages
    <2>4. QED
      BY <1>7, <2>1, <2>2, <2>3 DEF TypeOK, NotifyIdle, work, retries, gates, calls
  <1>8. ASSUME NEW r \in Runs, NEW ok \in BOOLEAN, EndRun(r, ok)
        PROVE  TypeOK'
    BY <1>8, EndRunType
  <1>9. CASE DrainGroup
    BY <1>9, DrainGroupType
  <1>10. CASE DrainWaiting
    BY <1>10, DrainWaitingType
  <1>11. CASE EmergencyStop \/ ResumeProcessing \/ Pause \/ Resume
    BY <1>11 DEF TypeOK, EmergencyStop, ResumeProcessing, Pause, Resume,
                 work, slots, box, retries, calls
  <1>12. ASSUME NEW j \in Groups, RestartGroup(j)
         PROVE  TypeOK'
    BY <1>12 DEF TypeOK, RestartGroup, work, slots, box, retries, calls
  <1>13. ASSUME NEW j \in Groups, RestartStopped(j)
         PROVE  TypeOK'
    BY <1>13, AddWaitingType DEF TypeOK, RestartStopped, slots, box, retries, calls
  <1>14. CASE UNCHANGED vars
    BY <1>14 DEF TypeOK, vars, work, slots, box, retries, gates, calls
  <1>15. QED
    BY <1>1, <1>2, <1>3, <1>4, <1>5, <1>6, <1>7, <1>8, <1>9, <1>10, <1>11, <1>12,
       <1>13, <1>14
    DEF Next, UngatedNext, Arrival, Serve, Gate

\* Every variable of the queue keeps its type: retryCount stays within MAX_RETRIES,
\* the waiting set and the task queues hold groups and tasks only.
THEOREM TypeCorrect == Spec => []TypeOK
  BY InitType, NextType, PTL DEF Spec

-----------------------------------------------------------------------------
(* Slots: activeCount counts the runs in flight and stays within the limit. *)
(* What makes this inductive is that a release leaves a slot for the drain  *)
(* of its own group, which takes it without looking at the limit.           *)

SlotInv ==
  /\ SlotAccounting
  /\ activeCount <= MaxConcurrent
  /\ toDrain # Null => activeCount < MaxConcurrent
  /\ toDrain # Null => ~draining
  /\ shuttingDown => ~draining

LEMMA LiveFinite == IsFiniteSet(Live) /\ Cardinality(Live) \in Nat
  <1>1. Live \in SUBSET Runs
    BY DEF Live
  <1>2. QED
    BY <1>1, RunsAssumption, FS_Subset, FS_CardinalityType

\* There is always a run identity to give to a new run.
LEMMA FreeRunExists ==
  ASSUME TypeOK, Cardinality(Live) <= MaxConcurrent
  PROVE  FreeRun \in Runs /\ run[FreeRun] = Null
  <1>1. Live # Runs
    <2>1. Cardinality(Live) \in Nat /\ Cardinality(Runs) \in Nat
      BY RunsAssumption, LiveFinite, FS_CardinalityType
    <2>2. Cardinality(Live) < Cardinality(Runs)
      BY <2>1, RunsAssumption, LimitAssumption
    <2>3. QED
      BY <2>1, <2>2
  <1>2. \E r \in Runs : run[r] = Null
    BY <1>1 DEF Live
  <1>3. QED
    BY <1>2 DEF FreeRun

LEMMA TakeSlotLive ==
  ASSUME TypeOK, Cardinality(Live) <= MaxConcurrent,
         NEW j \in Groups, NEW t \in Tasks \cup {Null}, TakeSlot(j, t)
  PROVE  /\ FreeRun \in Runs \ Live
         /\ Live' = Live \cup {FreeRun}
         /\ Cardinality(Live') = Cardinality(Live) + 1
         /\ activeCount' = activeCount + 1
         /\ run'[FreeRun] = [group |-> j, task |-> t, at |-> "starting"]
         /\ \A r \in Live : run'[r] = run[r]
  <1>1. FreeRun \in Runs /\ run[FreeRun] = Null
    BY FreeRunExists
  <1>2. [group |-> j, task |-> t, at |-> "starting"] # Null
    <2>1. [group |-> j, task |-> t, at |-> "starting"] \in
            [group : Groups, task : Tasks \cup {Null},
             at : {"starting", "registered", "up", "idle"}]
      OBVIOUS
    <2>2. QED
      BY <2>1, NullAssumption
  <1>3. /\ run'[FreeRun] = [group |-> j, task |-> t, at |-> "starting"]
        /\ \A r \in Runs : r # FreeRun => run'[r] = run[r]
    BY <1>1 DEF TypeOK, TakeSlot
  <1>4. Live' = Live \cup {FreeRun} /\ FreeRun \in Runs \ Live
    BY <1>1, <1>2, <1>3 DEF Live
  <1>5. Cardinality(Live') = Cardinality(Live) + 1
    BY <1>4, LiveFinite, FS_AddElement
  <1>6. QED
    BY <1>3, <1>4, <1>5 DEF TakeSlot, Live

\* A step that starts a run from a state with a free slot keeps the accounts.
LEMMA StartKeepsSlots ==
  ASSUME TypeOK, SlotInv, activeCount < MaxConcurrent,
         NEW j \in Groups, NEW t \in Tasks \cup {Null}, TakeSlot(j, t)
  PROVE  /\ SlotAccounting'
         /\ activeCount' <= MaxConcurrent
  <1>1. Cardinality(Live) <= MaxConcurrent
    BY DEF SlotInv, SlotAccounting
  <1>2. /\ Cardinality(Live') = Cardinality(Live) + 1
        /\ activeCount' = activeCount + 1
    BY <1>1, TakeSlotLive
  <1>3. SlotAccounting'
    BY <1>2 DEF SlotInv, SlotAccounting
  <1>4. activeCount' <= MaxConcurrent
    BY <1>2, LimitAssumption DEF TypeOK
  <1>5. QED
    BY <1>3, <1>4

LEMMA ReleaseLive ==
  ASSUME TypeOK, NEW r \in Live, ReleaseSlot(r)
  PROVE  /\ Live' = Live \ {r}
         /\ Cardinality(Live') = Cardinality(Live) - 1
         /\ \A s \in Live : s # r => run'[s] = run[s]
  <1>1. r \in Runs
    BY DEF Live
  <1>2. run'[r] = Null /\ \A s \in Runs : s # r => run'[s] = run[s]
    BY <1>1 DEF TypeOK, ReleaseSlot
  <1>3. Live' = Live \ {r}
    BY <1>2 DEF Live
  <1>4. QED
    BY <1>2, <1>3, LiveFinite, FS_RemoveElement DEF Live

\* The steps that move a run to another stage.
StageStep ==
  \/ \E r \in Runs : RegisterProcess(r) \/ Boot(r) \/ NotifyIdle(r)
  \/ \E j \in Groups : SendMessage(j)

LEMMA StageStepLive ==
  ASSUME TypeOK, StageStep
  PROVE  SameRuns /\ UNCHANGED <<work, active, runningTaskId, activeCount, retries, gates, calls>>
  <1>1. ASSUME NEW r \in Runs, RegisterProcess(r) \/ Boot(r) \/ NotifyIdle(r)
        PROVE  /\ SameRuns
               /\ UNCHANGED <<work, active, runningTaskId, activeCount, retries, gates, calls>>
    BY <1>1, StageLive DEF RegisterProcess, Boot, NotifyIdle, Stages
  <1>2. ASSUME NEW j \in Groups, SendMessage(j)
        PROVE  /\ SameRuns
               /\ UNCHANGED <<work, active, runningTaskId, activeCount, retries, gates, calls>>
    BY <1>2, WakeLive DEF SendMessage
  <1>3. QED
    BY <1>1, <1>2 DEF StageStep

LEMMA SameLive ==
  ASSUME UNCHANGED run
  PROVE  Live' = Live
  BY DEF Live

LEMMA RunNextStarts ==
  ASSUME TypeOK, NEW j \in Groups, RunNext(j)
  PROVE  \E t \in Tasks \cup {Null} : TakeSlot(j, t)
  <1>1. CASE pendingTasks[j] # <<>> /\ RunTask(j, Head(pendingTasks[j]))
    <2>1. Head(pendingTasks[j]) \in Tasks
      BY <1>1, TailType DEF TypeOK
    <2>2. QED
      BY <1>1, <2>1 DEF RunTask
  <1>2. CASE RunForGroup(j)
    BY <1>2 DEF RunForGroup
  <1>3. QED
    BY <1>1, <1>2 DEF RunNext

LEMMA SlotsUnchanged ==
  ASSUME SlotInv, UNCHANGED slots
  PROVE  SlotAccounting' /\ activeCount' <= MaxConcurrent
  BY SameLive DEF SlotInv, SlotAccounting, slots

LEMMA MessageCheckSlots ==
  ASSUME TypeOK, SlotInv, NEW j \in Groups, EnqueueMessageCheck(j)
  PROVE  SlotAccounting' /\ activeCount' <= MaxConcurrent
  <1>1. CASE UNCHANGED slots
    BY <1>1, SlotsUnchanged
  <1>2. CASE ~AtLimit /\ RunForGroup(j)
    <2>1. activeCount < MaxConcurrent
      BY <1>2, LimitAssumption DEF AtLimit, TypeOK
    <2>2. TakeSlot(j, Null)
      BY <1>2 DEF RunForGroup
    <2>3. QED
      BY <2>1, <2>2, StartKeepsSlots
  <1>3. QED
    BY <1>1, <1>2 DEF EnqueueMessageCheck

LEMMA EnqueueTaskSlots ==
  ASSUME TypeOK, SlotInv, NEW t \in Tasks, EnqueueTask(t)
  PROVE  SlotAccounting' /\ activeCount' <= MaxConcurrent
  <1>1. CASE UNCHANGED slots
    BY <1>1, SlotsUnchanged
  <1>2. CASE ~AtLimit /\ RunTask(TaskGroup[t], t)
    <2>1. activeCount < MaxConcurrent
      BY <1>2, LimitAssumption DEF AtLimit, TypeOK
    <2>2. TakeSlot(TaskGroup[t], t) /\ TaskGroup[t] \in Groups
      BY <1>2, MappingAssumption DEF RunTask
    <2>3. QED
      BY <2>1, <2>2, StartKeepsSlots
  <1>3. QED
    BY <1>1, <1>2 DEF EnqueueTask

LEMMA RunNextSlots ==
  ASSUME TypeOK, SlotInv, activeCount < MaxConcurrent, NEW j \in Groups, RunNext(j)
  PROVE  SlotAccounting' /\ activeCount' <= MaxConcurrent
  BY RunNextStarts, StartKeepsSlots

LEMMA EndRunSlots ==
  ASSUME TypeOK, SlotInv, NEW r \in Runs, NEW ok \in BOOLEAN, EndRun(r, ok)
  PROVE  SlotInv'
  <1>1. r \in Live /\ ReleaseSlot(r) /\ Quiet /\ UNCHANGED <<gates, draining>>
    BY DEF EndRun
  <1>2. /\ Cardinality(Live') = Cardinality(Live) - 1
        /\ activeCount' = activeCount - 1
    BY <1>1, ReleaseLive DEF ReleaseSlot
  <1>3. SlotAccounting'
    BY <1>2 DEF SlotInv, SlotAccounting
  <1>4. activeCount' < MaxConcurrent /\ activeCount' <= MaxConcurrent
    BY <1>2, LimitAssumption DEF SlotInv, TypeOK
  <1>5. ~draining'
    BY <1>1 DEF Quiet
  <1>6. QED
    BY <1>3, <1>4, <1>5 DEF SlotInv

LEMMA DrainGroupSlots ==
  ASSUME TypeOK, SlotInv, DrainGroup
  PROVE  SlotInv'
  <1>1. toDrain \in Groups /\ activeCount < MaxConcurrent /\ ~draining /\ toDrain' = Null
        /\ shuttingDown' = shuttingDown
    BY DEF TypeOK, SlotInv, DrainGroup, gates
  <1>2. SlotAccounting' /\ activeCount' <= MaxConcurrent
    <2>1. CASE UNCHANGED slots
      BY <2>1, SlotsUnchanged
    <2>2. CASE RunNext(toDrain)
      BY <1>1, <2>2, RunNextSlots
    <2>3. QED
      BY <2>1, <2>2 DEF DrainGroup
  <1>3. shuttingDown' => ~draining'
    BY <1>1 DEF DrainGroup
  <1>4. QED
    BY <1>1, <1>2, <1>3 DEF SlotInv

LEMMA DrainWaitingSlots ==
  ASSUME TypeOK, SlotInv, DrainWaiting
  PROVE  SlotInv'
  <1>1. toDrain' = Null /\ ~shuttingDown'
    BY DEF SlotInv, DrainWaiting, gates
  <1>2. CASE UNCHANGED slots
    BY <1>1, <1>2, SlotsUnchanged DEF SlotInv
  <1>3. CASE waitingGroups # <<>> /\ ~AtLimit /\ RunNext(Head(waitingGroups))
    <2>1. activeCount < MaxConcurrent
      BY <1>3, LimitAssumption DEF AtLimit, TypeOK
    <2>2. Head(waitingGroups) \in Groups
      BY <1>3, TailType DEF TypeOK
    <2>3. SlotAccounting' /\ activeCount' <= MaxConcurrent
      BY <1>3, <2>1, <2>2, RunNextSlots
    <2>4. QED
      BY <1>1, <2>3 DEF SlotInv
  <1>4. QED
    BY <1>2, <1>3 DEF DrainWaiting

LEMMA InitSlots == Init => SlotInv
  <1> SUFFICES ASSUME Init
               PROVE  SlotInv
    OBVIOUS
  <1>1. Live = {}
    BY DEF Init, Live
  <1>2. activeCount = Cardinality(Live) /\ activeCount <= MaxConcurrent
    BY <1>1, FS_EmptySet, LimitAssumption DEF Init
  <1>3. QED
    BY <1>2 DEF Init, SlotInv, SlotAccounting

LEMMA NextSlots == TypeOK /\ SlotInv /\ [Next]_vars => SlotInv'
  <1> SUFFICES ASSUME TypeOK, SlotInv, [Next]_vars
               PROVE  SlotInv'
    OBVIOUS
  <1>1. ASSUME NEW j \in Groups, MessageArrives(j)
        PROVE  SlotInv'
    <2>1. SlotAccounting' /\ activeCount' <= MaxConcurrent
      BY <1>1, MessageCheckSlots DEF MessageArrives
    <2>2. QED
      BY <1>1, <2>1 DEF SlotInv, MessageArrives, Quiet, gates, calls
  <1>2. ASSUME NEW t \in Tasks, EnqueueTask(t)
        PROVE  SlotInv'
    <2>1. SlotAccounting' /\ activeCount' <= MaxConcurrent
      BY <1>2, EnqueueTaskSlots
    <2>2. QED
      BY <1>2, <2>1 DEF SlotInv, EnqueueTask, Quiet, gates, calls
  <1>3. ASSUME NEW j \in Groups, RetryFires(j)
        PROVE  SlotInv'
    <2>1. SlotAccounting' /\ activeCount' <= MaxConcurrent
      BY <1>3, MessageCheckSlots, SlotsUnchanged DEF RetryFires
    <2>2. QED
      BY <1>3, <2>1 DEF SlotInv, RetryFires, Quiet, gates, calls
  <1>4. CASE StageStep
    BY <1>4, StageStepLive DEF SlotInv, SlotAccounting, SameRuns, gates, calls
  <1>5. ASSUME NEW r \in Runs, NEW ok \in BOOLEAN, EndRun(r, ok)
        PROVE  SlotInv'
    BY <1>5, EndRunSlots
  <1>6. CASE DrainGroup
    BY <1>6, DrainGroupSlots
  <1>7. CASE DrainWaiting
    BY <1>7, DrainWaitingSlots
  <1>8. ASSUME UNCHANGED slots, UNCHANGED calls, shuttingDown' => ~draining'
        PROVE  SlotInv'
    BY <1>8, SlotsUnchanged DEF SlotInv, calls, slots
  <1>9. ASSUME NEW j \in Groups, IdleTimeout(j) \/ LateIdle(j) \/ RestartGroup(j)
                                  \/ RestartStopped(j)
        PROVE  SlotInv'
    BY <1>8, <1>9 DEF SlotInv, IdleTimeout, LateIdle, RestartGroup, RestartStopped,
                      gates, calls
  <1>11. CASE EmergencyStop \/ Pause \/ Resume
    BY <1>8, <1>11 DEF SlotInv, EmergencyStop, Pause, Resume, Quiet, calls
  <1>12. CASE ResumeProcessing
    BY <1>12, SlotsUnchanged DEF SlotInv, ResumeProcessing, Quiet
  <1>13. CASE UNCHANGED vars
    BY <1>8, <1>13 DEF SlotInv, vars, gates, calls
  <1>14. QED
    BY <1>1, <1>2, <1>3, <1>4, <1>5, <1>6, <1>7, <1>9, <1>11, <1>12, <1>13
    DEF Next, UngatedNext, Arrival, Serve, Gate, StageStep

LEMMA SlotInvariance == Spec => [](TypeOK /\ SlotInv)
  <1>1. Init => TypeOK /\ SlotInv
    BY InitType, InitSlots
  <1>2. TypeOK /\ SlotInv /\ [Next]_vars => (TypeOK /\ SlotInv)'
    BY NextType, NextSlots
  <1>3. QED
    BY <1>1, <1>2, PTL DEF Spec

\* activeCount is the number of runs in flight.
THEOREM SlotsAccounted == Spec => []SlotAccounting
  <1>1. TypeOK /\ SlotInv => SlotAccounting
    BY DEF SlotInv
  <1>2. QED
    BY <1>1, SlotInvariance, PTL

\* However the queue is used, no more runs are in flight than the limit allows.
THEOREM LimitKept == Spec => []ConcurrencyLimit
  <1>1. TypeOK /\ SlotInv => ConcurrencyLimit
    BY DEF SlotInv, SlotAccounting, ConcurrencyLimit
  <1>2. QED
    BY <1>1, SlotInvariance, PTL

-----------------------------------------------------------------------------
(* A stopped queue starts nothing. *)

LEMMA NothingStarted ==
  ASSUME Live' \subseteq Live
  PROVE  Started = {}
  BY DEF Started, Live

LEMMA StoppedStep ==
  ASSUME TypeOK, SlotInv, [Next]_vars, shuttingDown
  PROVE  Started = {}
  <1>1. SUFFICES Live' \subseteq Live
    BY NothingStarted
  <1>2. CASE UNCHANGED run
    BY <1>2, SameLive
  <1>3. CASE StageStep
    BY <1>3, StageStepLive DEF SameRuns
  <1>4. ASSUME NEW r \in Runs, NEW ok \in BOOLEAN, EndRun(r, ok)
        PROVE  Live' \subseteq Live
    BY <1>4, ReleaseLive DEF EndRun
  <1>5. ~draining
    BY DEF SlotInv
  <1>6. CASE Gate \/ UNCHANGED vars
    BY <1>2, <1>6 DEF Gate, Pause, Resume, RestartGroup, RestartStopped, vars, slots
  <1>7. CASE UngatedNext
    BY <1>2, <1>3, <1>4, <1>5, <1>7
    DEF UngatedNext, Arrival, Serve, MessageArrives, EnqueueMessageCheck, EnqueueTask,
        RetryFires, IdleTimeout, LateIdle, StageStep, DrainGroup, DrainWaiting,
        EmergencyStop, ResumeProcessing, slots
  <1>8. QED
    BY <1>6, <1>7 DEF Next

\* Between a stop and the resume no run starts, whatever timers fire or runs end.
THEOREM StoppedStartsNothing == Spec => NoStartWhileStopped
  <1>1. TypeOK /\ SlotInv /\ [Next]_vars => [shuttingDown /\ shuttingDown' => Started = {}]_vars
    BY StoppedStep
  <1>2. QED
    BY <1>1, SlotInvariance, PTL DEF Spec, NoStartWhileStopped

-----------------------------------------------------------------------------
(* Without the pause gate and restarts a group has one run, and no slot is  *)
(* free while a group waits.  The two need each other: a group that waits   *)
(* can be started on the spot by an arrival only if a slot is free, and     *)
(* then none waits; so drainWaiting, which does not look at `active`, finds *)
(* no group that has a run.                                                 *)

NoRepeat    == \A i, k \in DOMAIN waitingGroups : waitingGroups[i] = waitingGroups[k] => i = k
WaitersIdle == \A j \in Waiting : ~active[j]

\* Between the end of a run and the drain of its group.
Handover ==
  toDrain # Null =>
    /\ ~active[toDrain] /\ toDrain \notin Waiting
    /\ ~shuttingDown /\ waitingGroups # <<>> => activeCount + 1 >= MaxConcurrent

WaitInv ==
  /\ ~paused
  /\ OneRunPerGroup
  /\ NoRepeat
  /\ WaitersIdle
  /\ NoIdleSlot
  /\ Handover

LEMMA TakeSlotOneRun ==
  ASSUME TypeOK, SlotInv, OneRunPerGroup, NEW j \in Groups, ~active[j],
         NEW t \in Tasks \cup {Null}, TakeSlot(j, t)
  PROVE  OneRunPerGroup'
  <1>1. Cardinality(Live) <= MaxConcurrent
    BY DEF SlotInv, SlotAccounting
  <1>2. /\ FreeRun \in Runs \ Live
        /\ Live' = Live \cup {FreeRun}
        /\ run'[FreeRun] = [group |-> j, task |-> t, at |-> "starting"]
        /\ \A r \in Live : run'[r] = run[r]
    BY <1>1, TakeSlotLive
  <1>3. /\ run'[FreeRun].group = j
        /\ \A r \in Live : run'[r].group = run[r].group /\ run[r].group # j
    BY <1>2 DEF OneRunPerGroup
  <1>4. ASSUME NEW r \in Live', NEW s \in Live', run'[r].group = run'[s].group
        PROVE  r = s
    BY <1>2, <1>3, <1>4 DEF OneRunPerGroup
  <1>5. ASSUME NEW k \in Groups
        PROVE  active'[k] <=> \E r \in Live' : run'[r].group = k
    <2>1. active'[j] /\ \A i \in Groups : i # j => active'[i] = active[i]
      BY DEF TypeOK, TakeSlot
    <2>2. CASE k = j
      BY <1>2, <1>3, <2>1, <2>2
    <2>3. CASE k # j
      <3>1. active'[k] <=> \E r \in Live : run[r].group = k
        BY <2>1, <2>3 DEF OneRunPerGroup
      <3>2. QED
        BY <1>2, <1>3, <2>3, <3>1
    <2>4. QED
      BY <2>2, <2>3
  <1>6. QED
    BY <1>4, <1>5 DEF OneRunPerGroup

LEMMA ReleaseOneRun ==
  ASSUME TypeOK, OneRunPerGroup, NEW r \in Live, ReleaseSlot(r)
  PROVE  OneRunPerGroup'
  <1>1. /\ Live' = Live \ {r}
        /\ \A s \in Live' : s \in Live /\ s # r /\ run'[s] = run[s]
    BY ReleaseLive
  <1>2. run[r].group \in Groups
    BY DEF TypeOK, Live, Run
  <1>3. ASSUME NEW k \in Groups
        PROVE  active'[k] <=> \E s \in Live' : run'[s].group = k
    <2>1. ~active'[run[r].group] /\ \A i \in Groups : i # run[r].group => active'[i] = active[i]
      BY <1>2 DEF TypeOK, ReleaseSlot
    <2>2. CASE k = run[r].group
      BY <1>1, <2>1, <2>2 DEF OneRunPerGroup
    <2>3. CASE k # run[r].group
      BY <1>1, <2>1, <2>3 DEF OneRunPerGroup
    <2>4. QED
      BY <2>2, <2>3
  <1>4. QED
    BY <1>1, <1>3 DEF OneRunPerGroup

LEMMA SameOneRun ==
  ASSUME OneRunPerGroup, UNCHANGED <<run, active>>
  PROVE  OneRunPerGroup'
  BY SameLive DEF OneRunPerGroup

LEMMA AddWaitingFacts ==
  ASSUME TypeOK, NoRepeat, NEW j \in Groups, AddWaiting(j)
  PROVE  NoRepeat' /\ Waiting' = Waiting \cup {j}
  <1>1. waitingGroups \in Seq(Groups)
    BY DEF TypeOK
  <1>2. CASE j \in Waiting
    BY <1>2 DEF AddWaiting, NoRepeat, Waiting
  <1>3. CASE j \notin Waiting
    <2>1. waitingGroups' = Append(waitingGroups, j)
      BY <1>3 DEF AddWaiting
    <2>2. /\ DOMAIN waitingGroups = 1 .. Len(waitingGroups)
          /\ Len(waitingGroups) \in Nat
          /\ DOMAIN waitingGroups' = 1 .. Len(waitingGroups) + 1
          /\ \A i \in 1 .. Len(waitingGroups) : waitingGroups'[i] = waitingGroups[i]
          /\ waitingGroups'[Len(waitingGroups) + 1] = j
      BY <1>1, <2>1
    <2>3. QED
      BY <1>3, <2>2 DEF NoRepeat, Waiting
  <1>4. QED
    BY <1>2, <1>3

LEMMA TailWaitingFacts ==
  ASSUME TypeOK, NoRepeat, waitingGroups # <<>>, waitingGroups' = Tail(waitingGroups)
  PROVE  NoRepeat' /\ Waiting' = Waiting \ {Head(waitingGroups)}
                   /\ Head(waitingGroups) \in Waiting
  <1>1. /\ waitingGroups \in Seq(Groups) /\ Len(waitingGroups) \in Nat \ {0}
        /\ DOMAIN waitingGroups = 1 .. Len(waitingGroups)
    BY DEF TypeOK
  <1>2. /\ DOMAIN waitingGroups' = 1 .. Len(waitingGroups) - 1
        /\ \A i \in 1 .. Len(waitingGroups) - 1 : waitingGroups'[i] = waitingGroups[i + 1]
        /\ Head(waitingGroups) = waitingGroups[1]
    BY <1>1
  <1>3. NoRepeat'
    BY <1>1, <1>2 DEF NoRepeat
  <1>4. Head(waitingGroups) \in Waiting
    BY <1>1, <1>2 DEF Waiting
  <1>5. ASSUME NEW j \in Waiting'
        PROVE  j \in Waiting \ {Head(waitingGroups)}
    <2>1. PICK i \in 1 .. Len(waitingGroups) - 1 : waitingGroups[i + 1] = j
      BY <1>2, <1>5 DEF Waiting
    <2>2. i + 1 \in DOMAIN waitingGroups /\ 1 \in DOMAIN waitingGroups /\ i + 1 # 1
      BY <1>1, <2>1
    <2>3. QED
      BY <1>2, <2>1, <2>2 DEF NoRepeat, Waiting
  <1>6. ASSUME NEW j \in Waiting, j # Head(waitingGroups)
        PROVE  j \in Waiting'
    <2>1. PICK i \in 1 .. Len(waitingGroups) : waitingGroups[i] = j
      BY <1>1, <1>6 DEF Waiting
    <2>2. i - 1 \in 1 .. Len(waitingGroups) - 1 /\ (i - 1) + 1 = i
      BY <1>1, <1>2, <1>6, <2>1
    <2>3. waitingGroups'[i - 1] = j
      BY <1>2, <2>1, <2>2
    <2>4. QED
      BY <1>2, <2>2, <2>3 DEF Waiting
  <1>7. QED
    BY <1>3, <1>4, <1>5, <1>6

\* The three ways in which an arrival is taken in: it changes nothing here, its
\* group waits, or its group starts.
LEMMA SameWait ==
  ASSUME WaitInv, UNCHANGED <<active, run, activeCount, waitingGroups, gates, calls>>
  PROVE  WaitInv'
  <1>1. OneRunPerGroup'
    BY SameOneRun DEF WaitInv
  <1>2. NoRepeat' /\ WaitersIdle' /\ NoIdleSlot' /\ Handover'
    BY DEF WaitInv, NoRepeat, WaitersIdle, NoIdleSlot, Handover, Waiting, Quiet, AtLimit,
           gates, calls
  <1>3. QED
    BY <1>1, <1>2 DEF WaitInv, gates

LEMMA StageWait ==
  ASSUME TypeOK, WaitInv, StageStep
  PROVE  WaitInv'
  <1>1. SameRuns /\ UNCHANGED <<active, activeCount, waitingGroups, gates, calls>>
    BY StageStepLive DEF work
  <1>2. OneRunPerGroup'
    BY <1>1 DEF WaitInv, OneRunPerGroup, SameRuns
  <1>3. NoRepeat' /\ WaitersIdle' /\ NoIdleSlot' /\ Handover'
    BY <1>1 DEF WaitInv, NoRepeat, WaitersIdle, NoIdleSlot, Handover, Waiting, Quiet, AtLimit,
           gates, calls
  <1>4. QED
    BY <1>1, <1>2, <1>3 DEF WaitInv, gates

LEMMA JoinWait ==
  ASSUME TypeOK, WaitInv, Quiet, NEW j \in Groups, ~active[j], AtLimit, AddWaiting(j),
         UNCHANGED <<slots, gates, calls>>
  PROVE  WaitInv'
  <1>1. OneRunPerGroup'
    BY SameOneRun DEF WaitInv, slots
  <1>2. NoRepeat' /\ Waiting' = Waiting \cup {j}
    BY AddWaitingFacts DEF WaitInv
  <1>3. WaitersIdle'
    BY <1>2 DEF WaitInv, WaitersIdle, slots
  <1>4. NoIdleSlot'
    BY DEF NoIdleSlot, AtLimit, slots
  <1>5. Handover'
    BY DEF Handover, Quiet, calls
  <1>6. QED
    BY <1>1, <1>2, <1>3, <1>4, <1>5 DEF WaitInv, gates

LEMMA StartNow ==
  ASSUME TypeOK, SlotInv, WaitInv, Quiet, ~shuttingDown, ~AtLimit,
         NEW j \in Groups, ~active[j], NEW t \in Tasks \cup {Null}, TakeSlot(j, t),
         UNCHANGED <<waitingGroups, gates, calls>>
  PROVE  WaitInv'
  <1>1. OneRunPerGroup'
    BY TakeSlotOneRun DEF WaitInv
  <1>2. waitingGroups = <<>> /\ waitingGroups' = <<>>
    BY DEF WaitInv, NoIdleSlot
  <1>3. NoRepeat' /\ WaitersIdle'
    BY <1>2 DEF NoRepeat, WaitersIdle, Waiting
  <1>4. NoIdleSlot' /\ Handover'
    BY <1>2 DEF NoIdleSlot, Handover, Quiet, calls
  <1>5. QED
    BY <1>1, <1>3, <1>4 DEF WaitInv, gates

LEMMA MessageCheckWait ==
  ASSUME TypeOK, SlotInv, WaitInv, Quiet, NEW j \in Groups, EnqueueMessageCheck(j),
         UNCHANGED <<gates, calls>>
  PROVE  WaitInv'
  <1>1. CASE UNCHANGED <<waitingGroups, slots>>
    BY <1>1, SameWait DEF slots
  <1>2. CASE ~active[j] /\ AtLimit /\ AddWaiting(j) /\ UNCHANGED slots
    BY <1>2, JoinWait
  <1>3. CASE ~active[j] /\ ~AtLimit /\ RunForGroup(j) /\ UNCHANGED waitingGroups
    <2>1. TakeSlot(j, Null) /\ ~shuttingDown
      BY <1>3 DEF RunForGroup, EnqueueMessageCheck
    <2>2. QED
      BY <1>3, <2>1, StartNow
  <1>4. QED
    BY <1>1, <1>2, <1>3 DEF EnqueueMessageCheck, WaitInv

LEMMA EnqueueTaskWait ==
  ASSUME TypeOK, SlotInv, WaitInv, NEW t \in Tasks, EnqueueTask(t)
  PROVE  WaitInv'
  <1> DEFINE j == TaskGroup[t]
  <1>0. /\ j \in Groups /\ Quiet /\ ~shuttingDown /\ ~paused
        /\ UNCHANGED <<gates, calls>>
    BY MappingAssumption DEF EnqueueTask, WaitInv
  <1>1. CASE UNCHANGED <<waitingGroups, slots>>
    BY <1>0, <1>1, SameWait DEF slots
  <1>2. CASE ~active[j] /\ AtLimit /\ AddWaiting(j) /\ UNCHANGED slots
    BY <1>0, <1>2, JoinWait
  <1>3. CASE ~active[j] /\ ~AtLimit /\ RunTask(j, t) /\ UNCHANGED waitingGroups
    <2>1. TakeSlot(j, t)
      BY <1>3 DEF RunTask
    <2>2. QED
      BY <1>0, <1>3, <2>1, StartNow
  <1>4. QED
    BY <1>0, <1>1, <1>2, <1>3 DEF EnqueueTask

LEMMA EndRunWait ==
  ASSUME TypeOK, SlotInv, WaitInv, NEW r \in Runs, NEW ok \in BOOLEAN, EndRun(r, ok)
  PROVE  WaitInv'
  <1> DEFINE j == run[r].group
  <1>1. /\ r \in Live /\ ReleaseSlot(r) /\ Quiet
        /\ UNCHANGED <<work, gates, draining>>
    BY DEF EndRun
  <1>2. j \in Groups /\ active[j]
    BY <1>1 DEF TypeOK, Live, Run, WaitInv, OneRunPerGroup
  <1>3. /\ toDrain' = j /\ activeCount' = activeCount - 1
        /\ active' = [active EXCEPT ![j] = FALSE]
        /\ waitingGroups' = waitingGroups /\ shuttingDown' = shuttingDown /\ paused' = paused
    BY <1>1 DEF ReleaseSlot, work, gates
  <1>4. ~active'[j] /\ \A k \in Groups : active'[k] => active[k]
    BY <1>2, <1>3 DEF TypeOK
  <1>5. Waiting \subseteq Groups /\ Waiting' = Waiting
    BY <1>3 DEF TypeOK, Waiting
  <1>6. OneRunPerGroup'
    BY <1>1, ReleaseOneRun DEF WaitInv
  <1>7. NoRepeat' /\ WaitersIdle'
    BY <1>3, <1>4, <1>5 DEF WaitInv, NoRepeat, WaitersIdle
  <1>8. NoIdleSlot'
    BY <1>2, <1>3, NullAssumption DEF NoIdleSlot, Quiet
  <1>9. Handover'
    <2>1. toDrain' \notin Waiting'
      BY <1>2, <1>3, <1>5 DEF WaitInv, WaitersIdle
    <2>2. ~shuttingDown' /\ waitingGroups' # <<>> => activeCount' + 1 >= MaxConcurrent
      BY <1>1, <1>3, LimitAssumption DEF WaitInv, NoIdleSlot, AtLimit, TypeOK
    <2>3. QED
      BY <1>3, <1>4, <2>1, <2>2 DEF Handover
  <1>10. QED
    BY <1>3, <1>6, <1>7, <1>8, <1>9 DEF WaitInv

LEMMA DrainGroupWait ==
  ASSUME TypeOK, SlotInv, WaitInv, DrainGroup
  PROVE  WaitInv'
  <1>1. /\ toDrain \in Groups /\ ~active[toDrain] /\ toDrain \notin Waiting
        /\ toDrain' = Null /\ waitingGroups' = waitingGroups
        /\ shuttingDown' = shuttingDown /\ paused' = paused
    BY DEF TypeOK, WaitInv, Handover, DrainGroup, gates, work
  <1>2. NoRepeat' /\ Waiting' = Waiting /\ Handover'
    BY <1>1 DEF WaitInv, NoRepeat, Waiting, Handover
  <1>3. OneRunPerGroup' /\ WaitersIdle' /\ NoIdleSlot'
    <2>1. CASE shuttingDown /\ UNCHANGED slots
      BY <1>1, <1>2, <2>1, SameOneRun DEF WaitInv, WaitersIdle, NoIdleSlot, slots
    <2>2. CASE ~shuttingDown /\ RunNext(toDrain)
      <3>1. PICK t \in Tasks \cup {Null} : TakeSlot(toDrain, t)
        BY <1>1, <2>2, RunNextStarts
      <3>2. OneRunPerGroup'
        BY <1>1, <3>1, TakeSlotOneRun DEF WaitInv
      <3>3. \A k \in Groups : k # toDrain => active'[k] = active[k]
        BY <3>1 DEF TypeOK, TakeSlot
      <3>4. WaitersIdle'
        <4>1. Waiting \subseteq Groups
          BY DEF TypeOK, Waiting
        <4>2. QED
          BY <1>1, <1>2, <3>3, <4>1 DEF WaitInv, WaitersIdle
      <3>5. NoIdleSlot'
        <4>1. activeCount' = activeCount + 1
          BY <3>1 DEF TakeSlot
        <4>2. QED
          BY <1>1, <2>2, <4>1 DEF WaitInv, Handover, NoIdleSlot, AtLimit, DrainGroup
      <3>6. QED
        BY <3>2, <3>4, <3>5
    <2>3. CASE draining' = TRUE /\ UNCHANGED slots
      BY <1>2, <2>3, SameOneRun DEF WaitInv, WaitersIdle, NoIdleSlot, Quiet, slots
    <2>4. QED
      BY <2>1, <2>2, <2>3 DEF DrainGroup
  <1>4. QED
    BY <1>1, <1>2, <1>3 DEF WaitInv

LEMMA DrainWaitingWait ==
  ASSUME TypeOK, SlotInv, WaitInv, DrainWaiting
  PROVE  WaitInv'
  <1>1. /\ toDrain = Null /\ toDrain' = Null
        /\ shuttingDown' = shuttingDown /\ paused' = paused
    BY DEF SlotInv, DrainWaiting, gates
  <1>2. Handover'
    BY <1>1 DEF Handover
  <1>3. CASE waitingGroups # <<>> /\ ~AtLimit
    <2> DEFINE j == Head(waitingGroups)
    <2>1. /\ waitingGroups' = Tail(waitingGroups) /\ draining'
          /\ RunNext(j) \/ UNCHANGED slots
      BY <1>3 DEF DrainWaiting
    <2>2. NoRepeat' /\ Waiting' = Waiting \ {j} /\ j \in Waiting
      BY <1>3, <2>1, TailWaitingFacts DEF WaitInv
    <2>3. Waiting \subseteq Groups /\ ~active[j]
      BY <2>2 DEF TypeOK, Waiting, WaitInv, WaitersIdle
    <2>4. NoIdleSlot'
      BY <2>1 DEF NoIdleSlot, Quiet
    <2>5. OneRunPerGroup' /\ WaitersIdle'
      <3>1. CASE UNCHANGED slots
        BY <2>2, <3>1, SameOneRun DEF WaitInv, WaitersIdle, slots
      <3>2. CASE RunNext(j)
        <4>1. PICK t \in Tasks \cup {Null} : TakeSlot(j, t)
          BY <2>2, <2>3, <3>2, RunNextStarts
        <4>2. OneRunPerGroup'
          BY <2>2, <2>3, <4>1, TakeSlotOneRun DEF WaitInv
        <4>3. \A k \in Groups : k # j => active'[k] = active[k]
          BY <4>1 DEF TypeOK, TakeSlot
        <4>4. QED
          BY <2>2, <2>3, <4>2, <4>3 DEF WaitInv, WaitersIdle
      <3>3. QED
        BY <2>1, <3>1, <3>2
    <2>6. QED
      BY <1>1, <1>2, <2>2, <2>4, <2>5 DEF WaitInv
  <1>4. CASE ~(waitingGroups # <<>> /\ ~AtLimit)
    <2>1. UNCHANGED <<work, slots>>
      BY <1>4 DEF DrainWaiting
    <2>2. OneRunPerGroup' /\ NoRepeat' /\ WaitersIdle'
      BY <2>1, SameOneRun DEF WaitInv, NoRepeat, WaitersIdle, Waiting, work, slots
    <2>3. NoIdleSlot'
      BY <1>4, <2>1 DEF NoIdleSlot, AtLimit, work, slots
    <2>4. QED
      BY <1>1, <1>2, <2>2, <2>3 DEF WaitInv
  <1>5. QED
    BY <1>3, <1>4

LEMMA InitWait == Init => WaitInv
  <1> SUFFICES ASSUME Init
               PROVE  WaitInv
    OBVIOUS
  <1>1. Live = {} /\ Waiting = {} /\ DOMAIN waitingGroups = {}
    BY DEF Init, Live, Waiting
  <1>2. OneRunPerGroup
    BY <1>1 DEF Init, OneRunPerGroup
  <1>3. NoRepeat /\ WaitersIdle /\ NoIdleSlot /\ Handover
    BY <1>1 DEF Init, NoRepeat, WaitersIdle, NoIdleSlot, Handover
  <1>4. QED
    BY <1>2, <1>3 DEF Init, WaitInv

LEMMA NextWait == TypeOK /\ SlotInv /\ WaitInv /\ [UngatedNext]_vars => WaitInv'
  <1> SUFFICES ASSUME TypeOK, SlotInv, WaitInv, [UngatedNext]_vars
               PROVE  WaitInv'
    OBVIOUS
  <1>1. ASSUME NEW j \in Groups, MessageArrives(j)
        PROVE  WaitInv'
    BY <1>1, MessageCheckWait DEF MessageArrives
  <1>2. ASSUME NEW t \in Tasks, EnqueueTask(t)
        PROVE  WaitInv'
    BY <1>2, EnqueueTaskWait
  <1>3. ASSUME NEW j \in Groups, RetryFires(j)
        PROVE  WaitInv'
    <2>1. CASE UNCHANGED <<work, slots>>
      BY <1>3, <2>1, SameWait DEF RetryFires, work, slots
    <2>2. CASE EnqueueMessageCheck(j)
      BY <1>3, <2>2, MessageCheckWait DEF RetryFires
    <2>3. QED
      BY <1>3, <2>1, <2>2 DEF RetryFires
  <1>4. ASSUME NEW j \in Groups, IdleTimeout(j) \/ LateIdle(j)
        PROVE  WaitInv'
    BY <1>4, SameWait DEF IdleTimeout, LateIdle, work, slots
  <1>5. CASE StageStep
    BY <1>5, StageWait
  <1>7. ASSUME NEW r \in Runs, NEW ok \in BOOLEAN, EndRun(r, ok)
        PROVE  WaitInv'
    BY <1>7, EndRunWait
  <1>8. CASE DrainGroup
    BY <1>8, DrainGroupWait
  <1>9. CASE DrainWaiting
    BY <1>9, DrainWaitingWait
  <1>10. CASE EmergencyStop \/ ResumeProcessing
    <2>1. /\ UNCHANGED <<work, slots, paused, toDrain>> /\ toDrain = Null
          /\ shuttingDown' \/ draining'
      BY <1>10 DEF EmergencyStop, ResumeProcessing, Quiet, calls
    <2>2. OneRunPerGroup' /\ NoRepeat' /\ WaitersIdle'
      BY <2>1, SameOneRun DEF WaitInv, NoRepeat, WaitersIdle, Waiting, work, slots
    <2>3. NoIdleSlot' /\ Handover'
      BY <2>1 DEF NoIdleSlot, Handover, Quiet
    <2>4. QED
      BY <2>1, <2>2, <2>3 DEF WaitInv
  <1>11. CASE UNCHANGED vars
    BY <1>11, SameWait DEF vars, work, slots
  <1>12. QED
    BY <1>1, <1>2, <1>3, <1>4, <1>5, <1>7, <1>8, <1>9, <1>10, <1>11
    DEF UngatedNext, Arrival, Serve, StageStep

LEMMA UngatedInvariance == UngatedSpec => [](TypeOK /\ SlotInv /\ WaitInv)
  <1>1. Init => TypeOK /\ SlotInv /\ WaitInv
    BY InitType, InitSlots, InitWait
  <1>2. [UngatedNext]_vars => [Next]_vars
    BY DEF Next
  <1>3. TypeOK /\ SlotInv /\ WaitInv /\ [UngatedNext]_vars => (TypeOK /\ SlotInv /\ WaitInv)'
    BY <1>2, NextType, NextSlots, NextWait
  <1>4. QED
    BY <1>1, <1>3, PTL DEF UngatedSpec

\* Without pause and restart no group is given a second container.
THEOREM GroupsRunOnce == UngatedSpec => []OneRunPerGroup
  <1>1. TypeOK /\ SlotInv /\ WaitInv => OneRunPerGroup
    BY DEF WaitInv
  <1>2. QED
    BY <1>1, UngatedInvariance, PTL

\* Without pause and restart no slot is left idle while a group waits for one.
THEOREM SlotsHandedOn == UngatedSpec => []NoIdleSlot
  <1>1. TypeOK /\ SlotInv /\ WaitInv => NoIdleSlot
    BY DEF WaitInv
  <1>2. QED
    BY <1>1, UngatedInvariance, PTL

-----------------------------------------------------------------------------
(* The queue implements ContainerSlots.  What makes an arrival that starts   *)
(* at once fit: a group that has a task waiting has a run, or waits for a    *)
(* slot, or is about to be drained, so nobody overtakes, unless it is one    *)
(* that a stop has left behind; and only a stop leaves one behind.           *)

TaskInv ==
  /\ \A j \in Groups : \A t \in Queued(j) : TaskGroup[t] = j
  /\ \A r \in Live : run[r].task # Null =>
       TaskGroup[run[r].task] = run[r].group /\ runningTaskId[run[r].group] = run[r].task

\* Of the groups with tasks, only those of F may be left behind.
Placed(F) ==
  \A j \in Groups \ F : pendingTasks[j] # <<>> =>
    active[j] \/ j \in Waiting \/ toDrain = j

LEMMA HeadWaits ==
  ASSUME TypeOK, waitingGroups # <<>>
  PROVE  Head(waitingGroups) \in Waiting /\ Head(waitingGroups) \in Groups
  <1>1. waitingGroups \in Seq(Groups)
    BY DEF TypeOK
  <1>2. 1 \in DOMAIN waitingGroups /\ Head(waitingGroups) = waitingGroups[1]
    BY <1>1
  <1>3. QED
    BY <1>1, <1>2, TailType DEF Waiting

\* A step that starts nothing, ends nothing and takes nothing from a list.
LEMMA TasksKept ==
  ASSUME TypeOK, TaskInv, NEW F, Placed(F), SameRuns,
         UNCHANGED <<pendingTasks, active, runningTaskId, toDrain>>, Waiting \subseteq Waiting'
  PROVE  TaskInv' /\ (shuttingDown \/ Placed(F)')
  <1>1. \A j \in Groups : Queued(j)' = Queued(j)
    BY DEF Queued
  <1>2. QED
    BY <1>1 DEF TaskInv, Placed, SameRuns

LEMMA StartTasks ==
  ASSUME TypeOK, SlotInv, OneRunPerGroup, TaskInv, NEW j \in Groups, ~active[j],
         NEW t \in Tasks \cup {Null}, TakeSlot(j, t),
         t # Null => TaskGroup[t] = j /\ runningTaskId'[j] = t,
         \A k \in Groups : k # j => runningTaskId'[k] = runningTaskId[k]
  PROVE  /\ \A r \in Live' : run'[r].task # Null =>
              /\ TaskGroup[run'[r].task] = run'[r].group
              /\ runningTaskId'[run'[r].group] = run'[r].task
         /\ active'[j] /\ \A k \in Groups : active[k] => active'[k]
  <1>1. /\ Live' = Live \cup {FreeRun}
        /\ run'[FreeRun] = [group |-> j, task |-> t, at |-> "starting"]
        /\ \A r \in Live : run'[r] = run[r]
    BY TakeSlotLive DEF SlotInv, SlotAccounting
  <1>2. run'[FreeRun].group = j /\ run'[FreeRun].task = t
    BY <1>1
  <1>3. \A r \in Live : run[r].group \in Groups /\ run[r].group # j
    BY DEF TypeOK, Live, Run, OneRunPerGroup
  <1>4. active'[j] /\ \A k \in Groups : active[k] => active'[k]
    BY DEF TypeOK, TakeSlot
  <1>5. QED
    BY <1>1, <1>2, <1>3, <1>4 DEF TaskInv

LEMMA TailIn ==
  ASSUME NEW S, NEW s \in Seq(S), s # <<>>, NEW i \in DOMAIN Tail(s)
  PROVE  \E k \in DOMAIN s : s[k] = Tail(s)[i]
  <1>1. i \in 1 .. Len(s) - 1 /\ Len(s) \in Nat
    OBVIOUS
  <1>2. i + 1 \in DOMAIN s /\ s[i + 1] = Tail(s)[i]
    BY <1>1
  <1>3. QED
    BY <1>2

LEMMA HeadQueued ==
  ASSUME TypeOK, TaskInv, NEW j \in Groups, pendingTasks[j] # <<>>
  PROVE  Head(pendingTasks[j]) \in Tasks /\ TaskGroup[Head(pendingTasks[j])] = j
  <1>1. pendingTasks[j] \in Seq(Tasks)
    BY DEF TypeOK
  <1>2. 1 \in DOMAIN pendingTasks[j] /\ Head(pendingTasks[j]) = pendingTasks[j][1]
    BY <1>1
  <1>3. Head(pendingTasks[j]) \in Queued(j)
    BY <1>2 DEF Queued
  <1>4. QED
    BY <1>1, <1>3, TailType DEF TaskInv

\* A group that starts what it wants next keeps the lists as they should be.
LEMMA RunNextTasks ==
  ASSUME TypeOK, SlotInv, OneRunPerGroup, TaskInv, NEW j \in Groups, ~active[j], RunNext(j)
  PROVE  /\ \A k \in Groups : \A t \in Queued(k)' : TaskGroup[t] = k
         /\ \A r \in Live' : run'[r].task # Null =>
              /\ TaskGroup[run'[r].task] = run'[r].group
              /\ runningTaskId'[run'[r].group] = run'[r].task
         /\ active'[j] /\ \A k \in Groups : active[k] => active'[k]
         /\ \A k \in Groups : k # j => pendingTasks'[k] = pendingTasks[k]
  <1>1. CASE /\ pendingTasks[j] # <<>>
             /\ RunTask(j, Head(pendingTasks[j]))
             /\ pendingTasks' = [pendingTasks EXCEPT ![j] = Tail(@)]
    <2> DEFINE t == Head(pendingTasks[j])
    <2>1. t \in Tasks /\ TaskGroup[t] = j /\ pendingTasks[j] \in Seq(Tasks)
      BY <1>1, HeadQueued DEF TypeOK
    <2>2. /\ TakeSlot(j, t) /\ runningTaskId'[j] = t
          /\ \A k \in Groups : k # j => runningTaskId'[k] = runningTaskId[k]
      BY <1>1 DEF RunTask, TypeOK
    <2>3. /\ pendingTasks'[j] = Tail(pendingTasks[j])
          /\ \A k \in Groups : k # j => pendingTasks'[k] = pendingTasks[k]
      BY <1>1 DEF TypeOK
    <2>4. Queued(j)' \subseteq Queued(j)
      BY <1>1, <2>1, <2>3, TailIn DEF Queued
    <2>5. \A k \in Groups : k # j => Queued(k)' = Queued(k)
      BY <2>3 DEF Queued
    <2>6. \A k \in Groups : \A u \in Queued(k)' : TaskGroup[u] = k
      BY <2>4, <2>5 DEF TaskInv
    <2>7. QED
      BY <2>1, <2>2, <2>3, <2>6, StartTasks
  <1>2. CASE RunForGroup(j) /\ UNCHANGED pendingTasks
    <2>1. TakeSlot(j, Null) /\ runningTaskId' = runningTaskId
      BY <1>2 DEF RunForGroup
    <2>2. \A k \in Groups : Queued(k)' = Queued(k)
      BY <1>2 DEF Queued
    <2>3. QED
      BY <1>2, <2>1, <2>2, StartTasks DEF TaskInv
  <1>3. QED
    BY <1>1, <1>2 DEF RunNext

LEMMA MessageCheckTasks ==
  ASSUME TypeOK, SlotInv, WaitInv, TaskInv, NEW F, Placed(F), NEW j \in Groups,
         EnqueueMessageCheck(j), UNCHANGED <<gates, calls>>
  PROVE  TaskInv' /\ (shuttingDown \/ Placed(F)')
  <1>1. \A k \in Groups : Queued(k)' = Queued(k)
    BY DEF EnqueueMessageCheck, Queued
  <1>2. CASE UNCHANGED slots /\ (AddWaiting(j) \/ UNCHANGED waitingGroups)
    <2>1. Waiting \subseteq Waiting'
      BY <1>2, AddWaitingFacts DEF WaitInv, Waiting
    <2>2. QED
      BY <1>2, <2>1, SameLive, TasksKept
      DEF slots, gates, calls, SameRuns, EnqueueMessageCheck
  <1>3. CASE ~active[j] /\ RunForGroup(j) /\ UNCHANGED <<pendingTasks, waitingGroups>>
    <2>1. TakeSlot(j, Null) /\ runningTaskId' = runningTaskId
      BY <1>3 DEF RunForGroup
    <2>2. /\ \A r \in Live' : run'[r].task # Null =>
                 /\ TaskGroup[run'[r].task] = run'[r].group
                 /\ runningTaskId'[run'[r].group] = run'[r].task
          /\ \A k \in Groups : active[k] => active'[k]
      BY <1>3, <2>1, StartTasks DEF WaitInv
    <2>3. UNCHANGED <<pendingTasks, shuttingDown, toDrain>> /\ Waiting' = Waiting
      BY <1>3 DEF Waiting, gates, calls
    <2>4. QED
      BY <1>1, <2>2, <2>3 DEF TaskInv, Placed
  <1>4. QED
    BY <1>2, <1>3 DEF EnqueueMessageCheck, WaitInv

LEMMA PushQueued ==
  ASSUME TypeOK, NEW t \in Tasks, PushTask(t), NEW k \in Groups
  PROVE  Queued(k)' \subseteq Queued(k) \cup (IF k = TaskGroup[t] THEN {t} ELSE {})
  <1>1. pendingTasks[k] \in Seq(Tasks) /\ TaskGroup[t] \in Groups
    BY MappingAssumption DEF TypeOK
  <1>2. CASE k = TaskGroup[t]
    <2>1. pendingTasks'[k] = Append(pendingTasks[k], t)
      BY <1>1, <1>2 DEF TypeOK, PushTask
    <2>2. \A i \in DOMAIN pendingTasks'[k] :
            \/ pendingTasks'[k][i] = t
            \/ i \in DOMAIN pendingTasks[k] /\ pendingTasks'[k][i] = pendingTasks[k][i]
      BY <1>1, <2>1
    <2>3. QED
      BY <1>2, <2>2 DEF Queued
  <1>3. CASE k # TaskGroup[t]
    BY <1>1, <1>3 DEF TypeOK, PushTask, Queued
  <1>4. QED
    BY <1>2, <1>3

LEMMA EnqueueTaskTasks ==
  ASSUME TypeOK, SlotInv, WaitInv, TaskInv, NEW F, Placed(F), NEW t \in Tasks, EnqueueTask(t)
  PROVE  TaskInv' /\ (shuttingDown \/ Placed(F)')
  <1> DEFINE j == TaskGroup[t]
  <1>1. j \in Groups /\ ~paused /\ UNCHANGED <<shuttingDown, toDrain>>
    BY MappingAssumption DEF EnqueueTask, WaitInv, gates, calls
  <1>2. CASE /\ PushTask(t) /\ UNCHANGED slots
             /\ AddWaiting(j) \/ (active[j] /\ UNCHANGED waitingGroups)
    <2>1. \A k \in Groups : \A u \in Queued(k)' : TaskGroup[u] = k
      BY <1>2, PushQueued DEF TaskInv, Placed
    <2>2. Waiting \subseteq Waiting' /\ (active'[j] \/ j \in Waiting')
      BY <1>1, <1>2, AddWaitingFacts DEF WaitInv, Waiting, slots
    <2>3. \A k \in Groups : k # j => pendingTasks'[k] = pendingTasks[k]
      BY <1>2 DEF PushTask, TypeOK
    <2>4. UNCHANGED <<run, active, runningTaskId>> /\ Live' = Live
      BY <1>2, SameLive DEF slots
    <2>5. QED
      BY <1>1, <2>1, <2>2, <2>3, <2>4 DEF TaskInv, Placed
  <1>3. CASE ~active[j] /\ RunTask(j, t) /\ UNCHANGED <<pendingTasks, waitingGroups>>
    <2>1. /\ TakeSlot(j, t) /\ runningTaskId'[j] = t
          /\ \A k \in Groups : k # j => runningTaskId'[k] = runningTaskId[k]
      BY <1>1, <1>3 DEF RunTask, TypeOK
    <2>2. /\ \A r \in Live' : run'[r].task # Null =>
                 /\ TaskGroup[run'[r].task] = run'[r].group
                 /\ runningTaskId'[run'[r].group] = run'[r].task
          /\ \A k \in Groups : active[k] => active'[k]
      BY <1>1, <1>3, <2>1, StartTasks DEF WaitInv
    <2>3. Waiting' = Waiting /\ \A k \in Groups : Queued(k)' = Queued(k)
      BY <1>3 DEF Waiting, Queued
    <2>4. QED
      BY <1>1, <1>3, <2>2, <2>3 DEF TaskInv, Placed
  <1>4. QED
    BY <1>1, <1>2, <1>3 DEF EnqueueTask

LEMMA EndRunTasks ==
  ASSUME TypeOK, WaitInv, TaskInv, NEW F, Placed(F), NEW r \in Runs, NEW ok \in BOOLEAN,
         EndRun(r, ok)
  PROVE  TaskInv' /\ Placed(F)'
  <1> DEFINE j == run[r].group
  <1>1. /\ r \in Live /\ ReleaseSlot(r) /\ j \in Groups /\ toDrain = Null /\ toDrain' = j
        /\ UNCHANGED <<pendingTasks, waitingGroups, shuttingDown>>
        /\ \A k \in Groups : k # j => runningTaskId'[k] = runningTaskId[k]
                                      /\ active'[k] = active[k]
    BY DEF EndRun, ReleaseSlot, TypeOK, Live, Run, Quiet, work, gates
  <1>2. Live' = Live \ {r} /\ \A q \in Live : q # r => run'[q] = run[q]
    BY <1>1, ReleaseLive
  <1>3. \A q \in Live : q # r => run[q].group \in Groups /\ run[q].group # j
    BY <1>1 DEF TypeOK, Live, Run, WaitInv, OneRunPerGroup
  <1>4. Waiting' = Waiting /\ \A k \in Groups : Queued(k)' = Queued(k)
    BY <1>1 DEF Waiting, Queued
  <1>5. j # Null
    BY <1>1, NullAssumption
  <1>6. QED
    BY <1>1, <1>2, <1>3, <1>4, <1>5, NullAssumption DEF TaskInv, Placed

LEMMA DrainGroupTasks ==
  ASSUME TypeOK, SlotInv, WaitInv, TaskInv, NEW F, Placed(F), DrainGroup
  PROVE  TaskInv' /\ (shuttingDown \/ Placed(F)')
  <1>1. /\ toDrain \in Groups /\ ~active[toDrain] /\ OneRunPerGroup
        /\ UNCHANGED <<waitingGroups, shuttingDown>>
    BY DEF TypeOK, WaitInv, Handover, DrainGroup, gates, work
  <1>2. Waiting' = Waiting
    BY <1>1 DEF Waiting
  <1>3. CASE RunNext(toDrain)
    BY <1>1, <1>2, <1>3, RunNextTasks DEF TaskInv, Placed
  <1>4. CASE UNCHANGED <<work, slots>> /\ (shuttingDown \/ NothingPending(toDrain))
    <2>1. UNCHANGED <<pendingTasks, run, active, runningTaskId>> /\ Live' = Live
      BY <1>4, SameLive DEF work, slots
    <2>2. \A k \in Groups : Queued(k)' = Queued(k)
      BY <2>1 DEF Queued
    <2>3. QED
      BY <1>1, <1>2, <1>4, <2>1, <2>2 DEF TaskInv, Placed, NothingPending
  <1>5. QED
    BY <1>3, <1>4 DEF DrainGroup

LEMMA DrainWaitingTasks ==
  ASSUME TypeOK, SlotInv, WaitInv, TaskInv, NEW F, Placed(F), DrainWaiting
  PROVE  TaskInv' /\ (shuttingDown \/ Placed(F)')
  <1>1. UNCHANGED <<shuttingDown, toDrain>>
    BY DEF DrainWaiting, gates
  <1>2. CASE UNCHANGED <<work, slots>>
    <2>1. UNCHANGED <<pendingTasks, run, active, runningTaskId>> /\ Waiting' = Waiting
      BY <1>2 DEF work, slots, Waiting
    <2>2. QED
      BY <1>1, <2>1, SameLive, TasksKept DEF SameRuns
  <1>3. CASE waitingGroups # <<>> /\ waitingGroups' = Tail(waitingGroups)
    <2> DEFINE j == Head(waitingGroups)
    <2>1. Waiting' = Waiting \ {j} /\ j \in Groups /\ ~active[j]
      BY <1>3, HeadWaits, TailWaitingFacts DEF WaitInv, WaitersIdle
    <2>2. CASE RunNext(j)
      BY <1>1, <2>1, <2>2, RunNextTasks DEF TaskInv, Placed, WaitInv
    <2>3. CASE NothingPending(j) /\ UNCHANGED <<pendingTasks, slots>>
      <3>1. UNCHANGED <<run, active, runningTaskId>> /\ Live' = Live
        BY <2>3, SameLive DEF slots
      <3>2. \A k \in Groups : Queued(k)' = Queued(k)
        BY <2>3 DEF Queued
      <3>3. QED
        BY <1>1, <2>1, <2>3, <3>1, <3>2 DEF TaskInv, Placed, NothingPending
    <2>4. QED
      BY <1>2, <1>3, <2>2, <2>3 DEF DrainWaiting
  <1>4. QED
    BY <1>2, <1>3 DEF DrainWaiting

LEMMA InitTasks == Init => TaskInv
  <1> SUFFICES ASSUME Init
               PROVE  TaskInv
    OBVIOUS
  <1>1. Live = {} /\ \A j \in Groups : Queued(j) = {}
    BY DEF Init, Live, Queued
  <1>2. QED
    BY <1>1 DEF TaskInv

LEMMA NextTasks ==
  ASSUME TypeOK, SlotInv, WaitInv, TaskInv, NEW F, Placed(F), [UngatedNext]_vars
  PROVE  TaskInv' /\ (shuttingDown \/ Placed(F)')
  <1> DEFINE Kept == TaskInv' /\ (shuttingDown \/ Placed(F)')
  <1>1. ASSUME UNCHANGED <<work, slots, toDrain>>
        PROVE  Kept
    BY <1>1, SameLive, TasksKept DEF work, slots, SameRuns, Waiting
  <1>2. ASSUME NEW j \in Groups, MessageArrives(j) \/ RetryFires(j)
        PROVE  Kept
    BY <1>1, <1>2, MessageCheckTasks DEF MessageArrives, RetryFires, gates, calls
  <1>3. ASSUME NEW t \in Tasks, EnqueueTask(t)
        PROVE  Kept
    BY <1>3, EnqueueTaskTasks
  <1>4. ASSUME NEW r \in Runs, NEW ok \in BOOLEAN, EndRun(r, ok)
        PROVE  Kept
    BY <1>4, EndRunTasks
  <1>5. CASE StageStep
    BY <1>5, StageStepLive, TasksKept DEF work, calls, Waiting
  <1>6. CASE DrainGroup \/ DrainWaiting
    BY <1>6, DrainGroupTasks, DrainWaitingTasks
  <1>7. CASE \/ EmergencyStop \/ ResumeProcessing \/ UNCHANGED vars
             \/ \E j \in Groups : IdleTimeout(j) \/ LateIdle(j)
    BY <1>1, <1>7 DEF EmergencyStop, ResumeProcessing, IdleTimeout, LateIdle, vars, calls
  <1>8. QED
    BY <1>2, <1>3, <1>4, <1>5, <1>6, <1>7 DEF UngatedNext, Arrival, Serve, StageStep

\* Only a stop leaves a group behind.
LEMMA StepForgetsNone ==
  ASSUME TypeOK, SlotInv, WaitInv, TaskInv, [UngatedNext]_vars,
         ~shuttingDown \/ \E r \in Runs, ok \in BOOLEAN : EndRun(r, ok)
  PROVE  Forgotten' \subseteq Forgotten
  <1>1. PICK F : F = Forgotten
    OBVIOUS
  <1>2. Placed(F)
    BY <1>1 DEF Placed, Forgotten
  <1>3. Placed(F)'
    BY <1>2, NextTasks, EndRunTasks
  <1>4. Forgotten' \subseteq F
    BY <1>3 DEF Placed, Forgotten
  <1>5. QED
    BY <1>1, <1>4

\* The mapping.
Slot == [r \in Live |-> [group |-> run[r].group, task |-> run[r].task]]
Owed == {j \in Groups : pendingMessages[j]}

\* ContainerSlots takes Cardinality from FiniteSets, as this module does.
LEMMA SameCardinality == \A S : Containers!Cardinality(S) = Cardinality(S)
  BY Zenon DEF Containers!Cardinality, Cardinality

\* A step that forgets nobody and does not stop or resume the queue.
Frame == Forgotten' \subseteq Forgotten /\ UNCHANGED shuttingDown

LEMMA BeginImplements ==
  ASSUME TypeOK, SlotInv, activeCount < MaxConcurrent, ~shuttingDown, Frame,
         OneRunPerGroup, NEW j \in Groups, ~active[j],
         NEW t \in Tasks \cup {Null}, TakeSlot(j, t)
  PROVE  Containers!Begin(j, t)
  <1>1. Cardinality(Live) <= MaxConcurrent /\ Cardinality(Live) < MaxConcurrent
    BY DEF SlotInv, SlotAccounting
  <1>2. /\ FreeRun \in Runs \ Live /\ Live' = Live \cup {FreeRun}
        /\ run'[FreeRun] = [group |-> j, task |-> t, at |-> "starting"]
        /\ \A r \in Live : run'[r] = run[r]
    BY <1>1, TakeSlotLive
  <1>3. run'[FreeRun].group = j /\ run'[FreeRun].task = t
    BY <1>2
  <1>4. DOMAIN Slot = Live /\ \A r \in DOMAIN Slot : Slot[r].group # j
    BY DEF Slot, OneRunPerGroup
  <1>5. Slot' = [i \in DOMAIN Slot \cup {FreeRun} |->
                   IF i = FreeRun THEN [group |-> j, task |-> t] ELSE Slot[i]]
    BY <1>2, <1>3, <1>4 DEF Slot
  <1>6. Cardinality(DOMAIN Slot) < MaxConcurrent
    BY <1>1, <1>4
  <1>7. Containers!NoneForgotten
    BY DEF Frame, Containers!NoneForgotten
  <1>8. QED
    BY <1>2, <1>4, <1>5, <1>6, <1>7, SameCardinality DEF Containers!Begin, Slot

LEMMA FinishImplements ==
  ASSUME TypeOK, NEW r \in Live, ReleaseSlot(r), UNCHANGED <<pendingTasks, pendingMessages>>,
         Frame
  PROVE  Containers!Finish(r)
  <1>1. Live' = Live \ {r} /\ \A s \in Live : s # r => run'[s] = run[s]
    BY ReleaseLive
  <1>2. DOMAIN Slot = Live
    BY DEF Slot
  <1>3. Slot' = [i \in DOMAIN Slot \ {r} |-> Slot[i]]
    BY <1>1, <1>2 DEF Slot
  <1>4. QED
    BY <1>2, <1>3 DEF Containers!Finish, Containers!NoneForgotten, Slot, Frame

LEMMA CheckImplements ==
  ASSUME TypeOK, SlotInv, activeCount < MaxConcurrent, OneRunPerGroup, ~shuttingDown, Frame,
         NEW j \in Groups, ~active[j], pendingTasks[j] = <<>> \/ j \in Forgotten,
         RunForGroup(j), UNCHANGED pendingTasks
  PROVE  Containers!BeginCheck(j)
  <1>1. Containers!Begin(j, Null)
    BY BeginImplements DEF RunForGroup
  <1>2. Owed' = Owed \ {j}
    BY DEF RunForGroup, TypeOK, Owed
  <1>3. QED
    BY <1>1, <1>2 DEF Containers!BeginCheck, Containers!OvertakesNothing, Owed

LEMMA RunNextImplements ==
  ASSUME TypeOK, SlotInv, activeCount < MaxConcurrent, OneRunPerGroup, ~shuttingDown, Frame,
         NEW j \in Groups, ~active[j], RunNext(j)
  PROVE  Containers!BeginCheck(j) \/ \E t \in Tasks : Containers!BeginOldest(j, t)
  <1>1. CASE /\ pendingTasks[j] # <<>>
             /\ RunTask(j, Head(pendingTasks[j]))
             /\ pendingTasks' = [pendingTasks EXCEPT ![j] = Tail(@)]
    <2>1. Head(pendingTasks[j]) \in Tasks
      BY <1>1, TailType DEF TypeOK
    <2>2. PICK t \in Tasks : t = Head(pendingTasks[j])
      BY <2>1
    <2>3. Containers!Begin(j, t)
      BY <1>1, <2>2, BeginImplements DEF RunTask
    <2>4. Owed' = Owed
      BY <1>1 DEF RunTask, Owed
    <2>5. Containers!BeginOldest(j, t)
      BY <1>1, <2>2, <2>3, <2>4 DEF Containers!BeginOldest, Owed
    <2>6. QED
      BY <2>5
  <1>2. CASE pendingTasks[j] = <<>> /\ RunForGroup(j) /\ UNCHANGED pendingTasks
    BY <1>2, CheckImplements
  <1>3. QED
    BY <1>1, <1>2 DEF RunNext

\* What is asked of an idle group while a slot is free finds no task before it,
\* except a forgotten one.
LEMMA NothingOvertaken ==
  ASSUME TypeOK, WaitInv, Quiet, ~shuttingDown, ~AtLimit, NEW j \in Groups, ~active[j]
  PROVE  /\ pendingTasks[j] = <<>> \/ j \in Forgotten
         /\ activeCount < MaxConcurrent
  <1>1. Waiting = {}
    BY DEF WaitInv, NoIdleSlot, Waiting
  <1>2. toDrain # j
    BY NullAssumption DEF Quiet
  <1>3. QED
    BY <1>1, <1>2, LimitAssumption DEF Forgotten, AtLimit, TypeOK

LEMMA MessageCheckImplements ==
  ASSUME TypeOK, SlotInv, WaitInv, Quiet, NEW j \in Groups, EnqueueMessageCheck(j), Frame
  PROVE  Containers!AskCheck(j) \/ Containers!BeginCheck(j)
  <1>1. ~shuttingDown
    BY DEF EnqueueMessageCheck
  <1>2. CASE /\ pendingMessages' = [pendingMessages EXCEPT ![j] = TRUE]
             /\ UNCHANGED <<pendingTasks, slots>>
    <2>1. Owed' = Owed \cup {j}
      BY <1>2 DEF TypeOK, Owed
    <2>2. Slot' = Slot
      BY <1>2, SameLive DEF Slot, slots
    <2>3. QED
      BY <1>1, <1>2, <2>1, <2>2
      DEF Containers!AskCheck, Containers!NoneForgotten, Slot, Owed, Frame
  <1>3. CASE ~active[j] /\ ~AtLimit /\ RunForGroup(j) /\ UNCHANGED pendingTasks
    BY <1>1, <1>3, NothingOvertaken, CheckImplements DEF WaitInv
  <1>4. QED
    BY <1>2, <1>3 DEF EnqueueMessageCheck

LEMMA EnqueueTaskImplements ==
  ASSUME TypeOK, SlotInv, WaitInv, TaskInv, NEW t \in Tasks, EnqueueTask(t), Frame
  PROVE  Containers!AskTask(t) \/ Containers!BeginAtOnce(t)
  <1> DEFINE j == TaskGroup[t]
  <1>1. j \in Groups /\ Quiet /\ ~shuttingDown /\ ~paused /\ runningTaskId[j] # t
        /\ t \notin Queued(j)
    BY MappingAssumption DEF EnqueueTask, WaitInv, AlreadyQueued
  <1>2. CASE PushTask(t) /\ UNCHANGED <<pendingMessages, slots>>
    <2>1. ~Containers!Asked(t)
      BY <1>1 DEF Containers!Asked, Queued
    <2>2. ~Containers!Running(t)
      <3>1. SUFFICES ASSUME NEW r \in Live, run[r].task = t
                     PROVE  FALSE
        BY DEF Containers!Running
      <3>2. t # Null
        BY NullAssumption
      <3>3. QED
        BY <1>1, <3>1, <3>2 DEF TaskInv
    <2>3. Slot' = Slot /\ Owed' = Owed
      BY <1>2, SameLive DEF Slot, Owed, slots
    <2>4. QED
      BY <1>1, <1>2, <2>1, <2>2, <2>3
      DEF Containers!AskTask, Containers!NoneForgotten, PushTask, Slot, Owed, Frame
  <1>3. CASE ~active[j] /\ ~AtLimit /\ RunTask(j, t) /\ UNCHANGED pendingTasks
    <2>1. (pendingTasks[j] = <<>> \/ j \in Forgotten) /\ activeCount < MaxConcurrent
      BY <1>1, <1>3, NothingOvertaken
    <2>2. Containers!Begin(j, t)
      BY <1>1, <1>3, <2>1, BeginImplements DEF RunTask, WaitInv
    <2>3. Owed' = Owed
      BY <1>3 DEF RunTask, Owed
    <2>4. QED
      BY <1>3, <2>1, <2>2, <2>3
      DEF Containers!BeginAtOnce, Containers!OvertakesNothing, Owed
  <1>4. QED
    BY <1>1, <1>2, <1>3 DEF EnqueueTask

\* A drain that finds the queue stopped does nothing, and the group is forgotten
\* if it has tasks and no place in line.
LEMMA StoppedDrainImplements ==
  ASSUME TypeOK, WaitInv, DrainGroup, shuttingDown
  PROVE  \/ Containers!Forget(toDrain)
         \/ UNCHANGED <<Slot, pendingTasks, Owed, shuttingDown, Forgotten>>
  <1>1. /\ toDrain \in Groups /\ toDrain' = Null /\ UNCHANGED <<work, slots, shuttingDown>>
    BY DEF TypeOK, DrainGroup, gates
  <1>2. UNCHANGED <<pendingTasks, pendingMessages, run, active>> /\ Waiting' = Waiting
    BY <1>1 DEF work, slots, Waiting
  <1>3. UNCHANGED <<Slot, Owed>>
    BY <1>2, SameLive DEF Slot, Owed
  <1>4. Forgotten' = Forgotten \/ Forgotten' = Forgotten \cup {toDrain}
    BY <1>1, <1>2, NullAssumption DEF Forgotten
  <1>5. QED
    BY <1>1, <1>2, <1>3, <1>4 DEF Containers!Forget, Slot, Owed

LEMMA StepImplements ==
  ASSUME TypeOK, SlotInv, WaitInv, TaskInv, [UngatedNext]_vars
  PROVE  [Containers!Next]_<<Slot, pendingTasks, Owed, shuttingDown, Forgotten>>
  <1> DEFINE Maps == [Containers!Next]_<<Slot, pendingTasks, Owed, shuttingDown, Forgotten>>
  <1>1. ASSUME UNCHANGED <<run, pendingTasks, pendingMessages, active, toDrain, waitingGroups>>
        PROVE  UNCHANGED <<Slot, pendingTasks, Owed, Forgotten>>
    BY <1>1, SameLive DEF Slot, Owed, Forgotten, Waiting
  <1>2. ASSUME NEW j \in Groups, MessageArrives(j) \/ RetryFires(j)
        PROVE  Maps
    <2>1. UNCHANGED <<shuttingDown, toDrain>> /\ Quiet
      BY <1>2 DEF MessageArrives, RetryFires, gates, calls
    <2>2. CASE EnqueueMessageCheck(j)
      <3>1. Frame
        BY <2>1, <2>2, StepForgetsNone DEF Frame, EnqueueMessageCheck
      <3>2. QED
        BY <2>1, <2>2, <3>1, MessageCheckImplements DEF Containers!Next
    <2>3. CASE UNCHANGED <<work, slots>>
      BY <1>1, <2>1, <2>3 DEF work, slots
    <2>4. QED
      BY <1>2, <2>2, <2>3 DEF MessageArrives, RetryFires
  <1>3. ASSUME NEW t \in Tasks, EnqueueTask(t)
        PROVE  Maps
    <2>1. Frame
      BY <1>3, StepForgetsNone DEF Frame, EnqueueTask, gates
    <2>2. QED
      BY <1>3, <2>1, EnqueueTaskImplements DEF Containers!Next
  <1>4. ASSUME NEW r \in Runs, NEW ok \in BOOLEAN, EndRun(r, ok)
        PROVE  Maps
    <2>1. r \in Live /\ ReleaseSlot(r) /\ UNCHANGED <<pendingTasks, pendingMessages>>
      BY <1>4 DEF EndRun, work
    <2>2. Frame
      BY <1>4, StepForgetsNone DEF Frame, EndRun, gates
    <2>3. QED
      BY <2>1, <2>2, FinishImplements DEF Containers!Next
  <1>5. CASE StageStep
    <2>1. SameRuns /\ UNCHANGED <<work, active, shuttingDown, toDrain>>
      BY <1>5, StageStepLive DEF gates, calls
    <2>2. UNCHANGED <<pendingTasks, Owed, Forgotten, shuttingDown>>
      BY <2>1 DEF work, Owed, Forgotten, Waiting
    <2>3. UNCHANGED Slot
      BY <2>1 DEF SameRuns, Slot
    <2>4. QED
      BY <2>2, <2>3
  <1>6. CASE DrainGroup
    <2>1. UNCHANGED shuttingDown
      BY <1>6 DEF DrainGroup, gates
    <2>2. CASE shuttingDown
      BY <1>6, <2>2, StoppedDrainImplements DEF TypeOK, DrainGroup, Containers!Next
    <2>3. CASE ~shuttingDown /\ RunNext(toDrain)
      <3>1. toDrain \in Groups /\ ~active[toDrain] /\ activeCount < MaxConcurrent
        BY <1>6 DEF DrainGroup, TypeOK, SlotInv, WaitInv, Handover
      <3>2. Frame
        BY <2>1, <2>3, StepForgetsNone DEF Frame
      <3>3. QED
        BY <2>3, <3>1, <3>2, RunNextImplements DEF WaitInv, Containers!Next
    <2>4. CASE ~shuttingDown /\ NothingPending(toDrain) /\ UNCHANGED <<work, slots>>
      <3>1. UNCHANGED <<pendingTasks, pendingMessages, run, active>> /\ Waiting' = Waiting
        BY <2>4 DEF work, slots, Waiting
      <3>2. UNCHANGED <<Slot, Owed>>
        BY <3>1, SameLive DEF Slot, Owed
      <3>3. Forgotten' = Forgotten
        BY <1>6, <2>4, <3>1, NullAssumption DEF Forgotten, NothingPending, DrainGroup, TypeOK
      <3>4. QED
        BY <2>1, <3>1, <3>2, <3>3
    <2>5. QED
      BY <1>6, <2>2, <2>3, <2>4 DEF DrainGroup
  <1>7. CASE DrainWaiting
    <2>1. UNCHANGED <<shuttingDown, toDrain>> /\ ~shuttingDown
      BY <1>7 DEF DrainWaiting, gates, SlotInv
    <2>2. CASE waitingGroups # <<>> /\ ~AtLimit /\ RunNext(Head(waitingGroups))
      <3>1. /\ Head(waitingGroups) \in Groups /\ ~active[Head(waitingGroups)]
            /\ activeCount < MaxConcurrent
        BY <2>2, HeadWaits, LimitAssumption DEF TypeOK, AtLimit, WaitInv, WaitersIdle
      <3>2. Frame
        BY <2>1, StepForgetsNone DEF Frame
      <3>3. QED
        BY <2>1, <2>2, <3>1, <3>2, RunNextImplements DEF WaitInv, Containers!Next
    <2>3. CASE /\ waitingGroups # <<>> /\ waitingGroups' = Tail(waitingGroups)
               /\ NothingPending(Head(waitingGroups))
               /\ UNCHANGED <<pendingMessages, pendingTasks, slots>>
      <3>1. Waiting' = Waiting \ {Head(waitingGroups)}
        BY <2>3, TailWaitingFacts DEF WaitInv
      <3>2. UNCHANGED <<run, active>>
        BY <2>3 DEF slots
      <3>3. UNCHANGED <<Slot, Owed>>
        BY <2>3, <3>2, SameLive DEF Slot, Owed
      <3>4. Forgotten' = Forgotten
        BY <2>1, <2>3, <3>1, <3>2 DEF Forgotten, NothingPending
      <3>5. QED
        BY <2>1, <2>3, <3>3, <3>4
    <2>4. CASE UNCHANGED <<work, slots>>
      BY <1>1, <2>1, <2>4 DEF work, slots
    <2>5. QED
      BY <1>7, <2>2, <2>3, <2>4 DEF DrainWaiting
  <1>8. CASE EmergencyStop \/ ResumeProcessing
    <2>1. UNCHANGED <<work, slots, toDrain>>
      BY <1>8 DEF EmergencyStop, ResumeProcessing, calls
    <2>2. UNCHANGED <<Slot, pendingTasks, Owed, Forgotten>>
      BY <1>1, <2>1 DEF work, slots
    <2>3. shuttingDown' = TRUE \/ shuttingDown' = FALSE
      BY <1>8 DEF EmergencyStop, ResumeProcessing
    <2>4. QED
      BY <2>2, <2>3 DEF Containers!Next, Containers!Stop, Containers!Resume, Slot, Owed
  <1>9. CASE UNCHANGED vars \/ \E j \in Groups : IdleTimeout(j) \/ LateIdle(j)
    BY <1>1, <1>9 DEF IdleTimeout, LateIdle, vars, work, slots, gates, calls
  <1>10. QED
    BY <1>2, <1>3, <1>4, <1>5, <1>6, <1>7, <1>8, <1>9
    DEF UngatedNext, Arrival, Serve, StageStep

LEMMA TaskInvariance == UngatedSpec => [](TypeOK /\ SlotInv /\ WaitInv /\ TaskInv)
  <1>1. Init => TypeOK /\ SlotInv /\ WaitInv /\ TaskInv
    BY InitType, InitSlots, InitWait, InitTasks
  <1>2. ASSUME TypeOK, SlotInv, WaitInv, TaskInv, [UngatedNext]_vars
        PROVE  TaskInv'
    <2>1. PICK F : F = Groups
      OBVIOUS
    <2>2. Placed(F)
      BY <2>1 DEF Placed
    <2>3. QED
      BY <1>2, <2>2, NextTasks
  <1>3. TypeOK /\ SlotInv /\ WaitInv /\ TaskInv /\ [UngatedNext]_vars =>
          (TypeOK /\ SlotInv /\ WaitInv /\ TaskInv)'
    BY <1>2, NextType, NextSlots, NextWait DEF Next
  <1>4. QED
    BY <1>1, <1>3, PTL DEF UngatedSpec

\* Without pause and restart the queue is an implementation of ContainerSlots: what a
\* group asked for is run one at a time, within the limit and not during a stop, its
\* tasks once and in the order asked, before an owed check; only a stop forgets.
THEOREM QueueImplementsSlots == UngatedSpec => ImplementsContainerSlots
  <1>1. Init => Containers!Init
    <2> SUFFICES ASSUME Init
                 PROVE  Containers!Init
      OBVIOUS
    <2>1. Live = {}
      BY DEF Init, Live
    <2>2. Slot = [r \in {} |-> Null]
      BY <2>1 DEF Slot
    <2>3. Owed = {} /\ pendingTasks = [j \in Groups |-> <<>>] /\ shuttingDown = FALSE
      BY DEF Init, Owed
    <2>4. Forgotten = {}
      BY <2>3 DEF Forgotten
    <2>5. QED
      BY <2>2, <2>3, <2>4 DEF Containers!Init, Slot, Owed
  <1>2. TypeOK /\ SlotInv /\ WaitInv /\ TaskInv /\ [UngatedNext]_vars =>
          [Containers!Next]_<<[r \in Live |-> [group |-> run[r].group, task |-> run[r].task]],
                              pendingTasks, {j \in Groups : pendingMessages[j]},
                              shuttingDown, Forgotten>>
    BY StepImplements DEF Slot, Owed
  <1>3. QED
    BY <1>1, <1>2, TaskInvariance, PTL
    DEF UngatedSpec, ImplementsContainerSlots, Containers!Spec

-----------------------------------------------------------------------------
(* Queued work leaves the queue only by being run.                          *)

\* The body of QueuedWorkOnlyStarts for one group.
Kept(j) ==
  /\ pendingMessages[j] /\ ~pendingMessages'[j] =>
       \E r \in Started : run'[r].group = j /\ run'[r].task = Null
  /\ \A t \in Queued(j) \ Queued(j)' :
       \E r \in Started : run'[r].group = j /\ run'[r].task = t

LEMMA QueueGrows ==
  ASSUME NEW j \in Groups, pendingMessages[j] => pendingMessages'[j], Queued(j) \subseteq Queued(j)'
  PROVE  Kept(j)
  BY DEF Kept

LEMMA SameWork ==
  ASSUME UNCHANGED <<pendingMessages, pendingTasks>>, NEW j \in Groups
  PROVE  Kept(j)
  BY DEF Kept, Queued

LEMMA AppendQueued ==
  ASSUME TypeOK, NEW t \in Tasks, PushTask(t), NEW j \in Groups
  PROVE  Queued(j) \subseteq Queued(j)'
  <1>1. pendingTasks[j] \in Seq(Tasks) /\ TaskGroup[t] \in Groups
    BY MappingAssumption DEF TypeOK
  <1>2. CASE j = TaskGroup[t]
    <2>1. pendingTasks'[j] = Append(pendingTasks[j], t)
      BY <1>1, <1>2 DEF TypeOK, PushTask
    <2>2. \A i \in DOMAIN pendingTasks[j] :
            i \in DOMAIN pendingTasks'[j] /\ pendingTasks'[j][i] = pendingTasks[j][i]
      BY <1>1, <2>1
    <2>3. QED
      BY <2>2 DEF Queued
  <1>3. CASE j # TaskGroup[t]
    BY <1>1, <1>3 DEF TypeOK, PushTask, Queued
  <1>4. QED
    BY <1>2, <1>3

\* All but the first of a list are in its tail.
LEMMA TailQueued ==
  ASSUME NEW S, NEW s \in Seq(S), s # <<>>, NEW i \in DOMAIN s, s[i] # Head(s)
  PROVE  \E k \in DOMAIN Tail(s) : Tail(s)[k] = s[i]
  <1>1. i \in 1 .. Len(s) /\ i # 1 /\ Len(s) \in Nat
    OBVIOUS
  <1>2. i - 1 \in DOMAIN Tail(s) /\ Tail(s)[i - 1] = s[i]
    BY <1>1
  <1>3. QED
    BY <1>2

LEMMA TakeSlotStarted ==
  ASSUME TypeOK, SlotInv, NEW j \in Groups, NEW t \in Tasks \cup {Null}, TakeSlot(j, t)
  PROVE  \E r \in Started : run'[r].group = j /\ run'[r].task = t
  <1>1. /\ FreeRun \in Runs \ Live /\ Live' = Live \cup {FreeRun}
        /\ run'[FreeRun] = [group |-> j, task |-> t, at |-> "starting"]
    BY TakeSlotLive DEF SlotInv, SlotAccounting
  <1>2. FreeRun \in Started
    BY <1>1 DEF Started, Live
  <1>3. QED
    BY <1>1, <1>2

LEMMA RunForGroupKeeps ==
  ASSUME TypeOK, SlotInv, NEW j \in Groups, RunForGroup(j), UNCHANGED pendingTasks, NEW k \in Groups
  PROVE  Kept(k)
  <1>1. \E r \in Started : run'[r].group = j /\ run'[r].task = Null
    BY TakeSlotStarted DEF RunForGroup
  <1>2. k # j => pendingMessages'[k] = pendingMessages[k]
    BY DEF TypeOK, RunForGroup
  <1>3. Queued(k)' = Queued(k)
    BY DEF Queued
  <1>4. QED
    BY <1>1, <1>2, <1>3 DEF Kept

LEMMA RunNextKeeps ==
  ASSUME TypeOK, SlotInv, NEW j \in Groups, RunNext(j), NEW k \in Groups
  PROVE  Kept(k)
  <1>1. CASE /\ pendingTasks[j] # <<>>
             /\ RunTask(j, Head(pendingTasks[j]))
             /\ pendingTasks' = [pendingTasks EXCEPT ![j] = Tail(@)]
    <2> DEFINE t == Head(pendingTasks[j])
    <2>1. pendingTasks[j] \in Seq(Tasks) /\ t \in Tasks
      BY <1>1, TailType DEF TypeOK
    <2>2. \E r \in Started : run'[r].group = j /\ run'[r].task = t
      BY <1>1, <2>1, TakeSlotStarted DEF RunTask
    <2>3. pendingMessages' = pendingMessages
      BY <1>1 DEF RunTask
    <2>4. pendingTasks'[j] = Tail(pendingTasks[j]) /\ (k # j => pendingTasks'[k] = pendingTasks[k])
      BY <1>1 DEF TypeOK
    <2>5. ASSUME NEW u \in Queued(k), u \notin Queued(k)'
          PROVE  k = j /\ u = t
      <3>1. k = j
        BY <2>4, <2>5 DEF Queued
      <3>2. PICK i \in DOMAIN pendingTasks[j] : pendingTasks[j][i] = u
        BY <2>5, <3>1 DEF Queued
      <3>3. ~ \E l \in DOMAIN Tail(pendingTasks[j]) : Tail(pendingTasks[j])[l] = u
        BY <2>4, <2>5, <3>1 DEF Queued
      <3>4. u = t
        BY <1>1, <2>1, <3>2, <3>3, TailQueued
      <3>5. QED
        BY <3>1, <3>4
    <2>6. QED
      BY <2>2, <2>3, <2>5 DEF Kept
  <1>2. CASE RunForGroup(j) /\ UNCHANGED pendingTasks
    BY <1>2, RunForGroupKeeps
  <1>3. QED
    BY <1>1, <1>2 DEF RunNext

LEMMA MessageCheckKeeps ==
  ASSUME TypeOK, SlotInv, NEW j \in Groups, EnqueueMessageCheck(j), NEW k \in Groups
  PROVE  Kept(k)
  <1>1. CASE pendingMessages' = [pendingMessages EXCEPT ![j] = TRUE] /\ UNCHANGED pendingTasks
    <2>1. pendingMessages[k] => pendingMessages'[k]
      BY <1>1 DEF TypeOK
    <2>2. Queued(k) \subseteq Queued(k)'
      BY <1>1 DEF Queued
    <2>3. QED
      BY <2>1, <2>2, QueueGrows
  <1>2. CASE RunForGroup(j) /\ UNCHANGED pendingTasks
    BY <1>2, RunForGroupKeeps
  <1>3. QED
    BY <1>1, <1>2 DEF EnqueueMessageCheck

LEMMA EnqueueTaskKeeps ==
  ASSUME TypeOK, SlotInv, NEW t \in Tasks, EnqueueTask(t), NEW k \in Groups
  PROVE  Kept(k)
  <1>1. CASE PushTask(t) /\ UNCHANGED pendingMessages
    BY <1>1, AppendQueued, QueueGrows
  <1>2. CASE RunTask(TaskGroup[t], t) /\ UNCHANGED pendingTasks
    BY <1>2, SameWork DEF RunTask
  <1>3. QED
    BY <1>1, <1>2 DEF EnqueueTask

LEMMA NextKeeps ==
  ASSUME TypeOK, SlotInv, Next, NEW k \in Groups
  PROVE  Kept(k)
  <1>1. ASSUME NEW j \in Groups, MessageArrives(j) \/ RetryFires(j)
        PROVE  Kept(k)
    <2>1. EnqueueMessageCheck(j) \/ UNCHANGED work
      BY <1>1 DEF MessageArrives, RetryFires
    <2>2. QED
      BY <2>1, MessageCheckKeeps, SameWork DEF work
  <1>2. ASSUME NEW t \in Tasks, EnqueueTask(t)
        PROVE  Kept(k)
    BY <1>2, EnqueueTaskKeeps
  <1>3. CASE DrainGroup
    <2>1. toDrain \in Groups
      BY <1>3 DEF TypeOK, DrainGroup
    <2>2. RunNext(toDrain) \/ UNCHANGED work
      BY <1>3 DEF DrainGroup
    <2>3. QED
      BY <2>1, <2>2, RunNextKeeps, SameWork DEF work
  <1>4. CASE DrainWaiting
    <2>1. CASE waitingGroups # <<>>
      <3>1. Head(waitingGroups) \in Groups
        BY <2>1, TailType DEF TypeOK
      <3>2. RunNext(Head(waitingGroups)) \/ UNCHANGED <<pendingMessages, pendingTasks>>
        BY <1>4 DEF DrainWaiting, work
      <3>3. QED
        BY <3>1, <3>2, RunNextKeeps, SameWork
    <2>2. CASE waitingGroups = <<>>
      BY <1>4, <2>2, SameWork DEF DrainWaiting, work
    <2>3. QED
      BY <2>1, <2>2
  <1>5. ASSUME NEW j \in Groups, RestartStopped(j)
        PROVE  Kept(k)
    <2>1. pendingMessages[k] => pendingMessages'[k]
      BY <1>5 DEF TypeOK, RestartStopped
    <2>2. Queued(k) \subseteq Queued(k)'
      BY <1>5 DEF Queued, RestartStopped
    <2>3. QED
      BY <2>1, <2>2, QueueGrows
  <1>6. CASE UNCHANGED work
    BY <1>6, SameWork DEF work
  <1>7. QED
    BY <1>1, <1>2, <1>3, <1>4, <1>5, <1>6
    DEF Next, UngatedNext, Gate, Arrival, Serve, SendMessage, IdleTimeout, RegisterProcess,
        Boot, LateIdle, NotifyIdle, EndRun, EmergencyStop, ResumeProcessing, Pause, Resume, RestartGroup

\* A message check owed to a group, and a task in its list, are given up only by
\* the step that runs them: no stop, failure, restart or drain drops any.
THEOREM WorkLeavesByRunning == Spec => QueuedWorkOnlyStarts
  <1>1. TypeOK /\ SlotInv /\ [Next]_vars => [\A j \in Groups : Kept(j)]_vars
    BY NextKeeps
  <1>2. QED
    BY <1>1, SlotInvariance, PTL DEF Spec, QueuedWorkOnlyStarts, Kept

-----------------------------------------------------------------------------
(* A task queued behind an idle container makes it close.                   *)

\* No two groups share a folder, hence the _close file in it.
OwnFolders == \A j, k \in Groups : FolderOf[j] = FolderOf[k] => j = k

\* Who idles is known to; who has a container is registered.
BoxInv ==
  /\ \A r \in Live : run[r].at = "idle" => idleWaiting[run[r].group]
  /\ \A r \in Live : run[r].at # "starting" => process[run[r].group] # Null
  /\ PreemptionSignalled

\* Runs come, and nothing else changes of who idles or is told to close.
LEMMA BoxKept ==
  ASSUME TypeOK, BoxInv, UNCHANGED process, Live \subseteq Live',
         \A j \in Groups : idleWaiting[j] => idleWaiting'[j],
         \A r \in Live : run'[r] = run[r], \A r \in Live' \ Live : run'[r].at = "starting",
         closeSentinel \subseteq closeSentinel',
         \A r \in Live : run[r].at = "idle" =>
           \/ pendingTasks'[run[r].group] = pendingTasks[run[r].group]
           \/ FolderOf[run[r].group] \in closeSentinel'
  PROVE  BoxInv'
  <1>1. \A r \in Live : run[r].group \in Groups
    BY DEF TypeOK, Live, Run
  <1>2. \A r \in Live' : run'[r].at = "idle" => idleWaiting'[run'[r].group]
    BY <1>1 DEF BoxInv
  <1>3. \A r \in Live' : run'[r].at # "starting" => process'[run'[r].group] # Null
    BY DEF BoxInv
  <1>4. PreemptionSignalled'
    BY DEF BoxInv, PreemptionSignalled
  <1>5. QED
    BY <1>2, <1>3, <1>4 DEF BoxInv

LEMMA SameBox ==
  ASSUME TypeOK, BoxInv, UNCHANGED <<box, run, pendingTasks>>
  PROVE  BoxInv'
  BY BoxKept, SameLive DEF box

LEMMA StartBox ==
  ASSUME TypeOK, SlotInv, WaitInv, BoxInv, NEW j \in Groups, ~active[j],
         NEW t \in Tasks \cup {Null}, TakeSlot(j, t), UNCHANGED <<idleWaiting, process>>,
         closeSentinel' = closeSentinel,
         \A k \in Groups : k # j => pendingTasks'[k] = pendingTasks[k]
  PROVE  BoxInv'
  <1>1. /\ FreeRun \in Runs \ Live /\ Live' = Live \cup {FreeRun}
        /\ run'[FreeRun] = [group |-> j, task |-> t, at |-> "starting"]
        /\ \A r \in Live : run'[r] = run[r]
    BY TakeSlotLive DEF SlotInv, SlotAccounting
  <1>2. run'[FreeRun].at = "starting"
    BY <1>1
  <1>3. \A r \in Live : run[r].group \in Groups /\ run[r].group # j
    BY DEF TypeOK, Live, Run, WaitInv, OneRunPerGroup
  <1>4. QED
    BY <1>1, <1>2, <1>3, BoxKept

LEMMA RunNextBox ==
  ASSUME TypeOK, SlotInv, WaitInv, BoxInv, NEW j \in Groups, ~active[j], RunNext(j), UNCHANGED box
  PROVE  BoxInv'
  <1>1. PICK t \in Tasks \cup {Null} : TakeSlot(j, t)
    BY RunNextStarts
  <1>2. \A k \in Groups : k # j => pendingTasks'[k] = pendingTasks[k]
    BY DEF RunNext, TypeOK
  <1>3. QED
    BY <1>1, <1>2, StartBox DEF box

LEMMA MessageCheckBox ==
  ASSUME TypeOK, SlotInv, WaitInv, BoxInv, NEW j \in Groups, EnqueueMessageCheck(j), UNCHANGED box
  PROVE  BoxInv'
  <1>1. CASE UNCHANGED <<pendingTasks, slots>>
    BY <1>1, SameBox DEF slots
  <1>2. CASE ~active[j] /\ RunForGroup(j) /\ UNCHANGED pendingTasks
    <2>1. TakeSlot(j, Null)
      BY <1>2 DEF RunForGroup
    <2>2. QED
      BY <1>2, <2>1, StartBox DEF box
  <1>3. QED
    BY <1>1, <1>2 DEF EnqueueMessageCheck

LEMMA EnqueueTaskBox ==
  ASSUME TypeOK, SlotInv, WaitInv, BoxInv, NEW t \in Tasks, EnqueueTask(t)
  PROVE  BoxInv'
  <1> DEFINE j == TaskGroup[t]
  <1>1. j \in Groups /\ UNCHANGED <<idleWaiting, process>> /\ ~paused
    BY MappingAssumption DEF EnqueueTask, WaitInv
  <1>2. CASE PushTask(t) /\ UNCHANGED slots
    <2>1. Live' = Live /\ \A r \in Live : run'[r] = run[r]
      BY <1>2 DEF slots, Live
    <2>2. closeSentinel \subseteq closeSentinel'
      BY DEF EnqueueTask, CloseStdin
    <2>3. \A r \in Live : run[r].group \in Groups /\ active[run[r].group]
      BY DEF TypeOK, Live, Run, WaitInv, OneRunPerGroup
    <2>4. \A k \in Groups : k # j => pendingTasks'[k] = pendingTasks[k]
      BY <1>2 DEF PushTask, TypeOK
    <2>5. ASSUME NEW r \in Live, run[r].at = "idle", run[r].group = j
          PROVE  FolderOf[j] \in closeSentinel'
      <3>1. active[j] /\ idleWaiting[j] /\ process[j] # Null
        BY <2>3, <2>5 DEF BoxInv
      <3>2. active'[j]
        BY <1>2, <3>1 DEF slots
      <3>3. CloseStdin(j) \/ RunTask(j, t)
        BY <1>1, <3>1 DEF EnqueueTask
      <3>4. ~RunTask(j, t)
        <4>1. SUFFICES ASSUME TakeSlot(j, t)
                       PROVE  FALSE
          BY DEF RunTask
        <4>2. activeCount' = activeCount + 1 /\ activeCount' = activeCount
          BY <1>2, <4>1 DEF TakeSlot, slots
        <4>3. QED
          BY <4>2 DEF TypeOK
      <3>5. QED
        BY <3>1, <3>3, <3>4 DEF CloseStdin
    <2>6. QED
      BY <1>1, <2>1, <2>2, <2>3, <2>4, <2>5, BoxKept
  <1>3. CASE ~active[j] /\ RunTask(j, t) /\ UNCHANGED <<pendingTasks, closeSentinel>>
    BY <1>1, <1>3, StartBox DEF RunTask
  <1>4. QED
    BY <1>1, <1>2, <1>3 DEF EnqueueTask

LEMMA RegisterBox ==
  ASSUME TypeOK, BoxInv, NEW r \in Runs, RegisterProcess(r)
  PROVE  BoxInv'
  <1> DEFINE j == run[r].group
  <1>1. /\ r \in Live /\ j \in Groups
        /\ process' = [process EXCEPT ![j] = r]
        /\ UNCHANGED <<pendingTasks, idleWaiting, closeSentinel>>
    BY DEF RegisterProcess, TypeOK, Live, Run, work
  <1>2. /\ SameRuns /\ run'[r].at = "registered"
        /\ \A q \in Live : q # r => run'[q] = run[q]
    BY <1>1, StageLive DEF RegisterProcess, Stages
  <1>3. r # Null /\ \A k \in Groups : process'[k] = process[k] \/ process'[k] = r
    BY <1>1, NullAssumption DEF TypeOK
  <1>4. \A q \in Live : run[q].group \in Groups
    BY DEF TypeOK, Live, Run
  <1>5. \A q \in Live' : run'[q].at # "starting" => process'[run'[q].group] # Null
    <2>1. process'[j] = r
      BY <1>1 DEF TypeOK
    <2>2. QED
      BY <1>2, <1>3, <1>4, <2>1 DEF BoxInv, SameRuns
  <1>6. \A q \in Live' : run'[q].at = "idle" => q # r
    BY <1>2
  <1>7. QED
    BY <1>1, <1>2, <1>5, <1>6 DEF BoxInv, PreemptionSignalled, SameRuns

\* The agent-runner that comes up takes away a _close file nobody waits for: the
\* run it belongs to is the only one of its group, and does not idle yet.
LEMMA BootBox ==
  ASSUME OwnFolders, TypeOK, WaitInv, BoxInv, NEW r \in Runs, Boot(r)
  PROVE  BoxInv'
  <1> DEFINE j == run[r].group
  <1>1. /\ r \in Live /\ j \in Groups /\ run[r].at = "registered"
        /\ closeSentinel' = closeSentinel \ {FolderOf[j]}
        /\ UNCHANGED <<pendingTasks, idleWaiting, process>>
    BY DEF Boot, TypeOK, Live, Run, work
  <1>2. /\ SameRuns /\ run'[r].at = "up"
        /\ \A q \in Live : q # r => run'[q] = run[q]
    BY <1>1, StageLive DEF Boot, Stages
  <1>3. \A q \in Live : q # r => run[q].group \in Groups /\ run[q].group # j
    BY <1>1 DEF TypeOK, WaitInv, OneRunPerGroup, Live, Run
  <1>4. /\ \A q \in Live' : run'[q].at = "idle" => idleWaiting'[run'[q].group]
        /\ \A q \in Live' : run'[q].at # "starting" => process'[run'[q].group] # Null
    BY <1>1, <1>2 DEF BoxInv, SameRuns
  <1>5. PreemptionSignalled'
    BY <1>1, <1>2, <1>3 DEF BoxInv, PreemptionSignalled, SameRuns, OwnFolders
  <1>6. QED
    BY <1>4, <1>5 DEF BoxInv

LEMMA NotifyIdleBox ==
  ASSUME TypeOK, WaitInv, BoxInv, NEW r \in Runs, NotifyIdle(r)
  PROVE  BoxInv'
  <1> DEFINE j == run[r].group
  <1>1. /\ r \in Live /\ run[r].at # "starting" /\ active[j] /\ j \in Groups
        /\ UNCHANGED <<pendingTasks, process>> /\ idleWaiting' = [idleWaiting EXCEPT ![j] = TRUE]
    BY DEF NotifyIdle, TypeOK, Live, Run, work
  <1>2. SameRuns /\ \A q \in Live : q # r => run'[q] = run[q]
    BY <1>1, StageLive DEF NotifyIdle, Stages
  <1>3. /\ closeSentinel \subseteq closeSentinel'
        /\ pendingTasks[j] # <<>> => FolderOf[j] \in closeSentinel'
    BY <1>1 DEF NotifyIdle, MakeWayForTask, CloseStdin, BoxInv
  <1>4. idleWaiting'[j] /\ \A k \in Groups : idleWaiting[k] => idleWaiting'[k]
    BY <1>1 DEF TypeOK
  <1>5. \A q \in Live : run[q].group \in Groups
    BY DEF TypeOK, Live, Run
  <1>6. \A q \in Live' : run'[q].at = "idle" => idleWaiting'[run'[q].group]
    BY <1>2, <1>4, <1>5 DEF BoxInv, SameRuns
  <1>7. \A q \in Live' : run'[q].at # "starting" => process'[run'[q].group] # Null
    BY <1>1, <1>2 DEF BoxInv, SameRuns
  <1>8. PreemptionSignalled'
    BY <1>1, <1>2, <1>3 DEF BoxInv, PreemptionSignalled, SameRuns
  <1>9. QED
    BY <1>6, <1>7, <1>8 DEF BoxInv

LEMMA SendMessageBox ==
  ASSUME TypeOK, BoxInv, NEW j \in Groups, SendMessage(j)
  PROVE  BoxInv'
  <1>1. /\ SameRuns
        /\ \A q \in Live :
             /\ run'[q].at = "idle" => run[q].at = "idle" /\ run[q].group # j
             /\ run'[q].at # "starting" => run[q].at # "starting"
    BY WakeLive
  <1>2. /\ UNCHANGED <<pendingTasks, process, closeSentinel>>
        /\ \A k \in Groups : k # j => idleWaiting'[k] = idleWaiting[k]
    BY DEF SendMessage, TypeOK, work
  <1>3. \A q \in Live : run[q].group \in Groups
    BY DEF TypeOK, Live, Run
  <1>4. QED
    BY <1>1, <1>2, <1>3 DEF BoxInv, PreemptionSignalled, SameRuns

LEMMA EndRunBox ==
  ASSUME OwnFolders, TypeOK, WaitInv, BoxInv, NEW r \in Runs, NEW ok \in BOOLEAN, EndRun(r, ok)
  PROVE  BoxInv'
  <1> DEFINE j == run[r].group
  <1>1. /\ r \in Live /\ ReleaseSlot(r) /\ j \in Groups /\ pendingTasks' = pendingTasks
        /\ idleWaiting' = [idleWaiting EXCEPT ![j] = FALSE]
        /\ process' = [process EXCEPT ![j] = Null]
        /\ closeSentinel \ {FolderOf[j]} \subseteq closeSentinel'
    BY DEF EndRun, ReleaseSlot, TypeOK, Live, Run, work
  <1>2. Live' = Live \ {r} /\ \A q \in Live : q # r => run'[q] = run[q]
    BY <1>1, ReleaseLive
  <1>3. \A q \in Live : q # r => run[q].group \in Groups /\ run[q].group # j
    BY <1>1 DEF TypeOK, Live, Run, WaitInv, OneRunPerGroup
  <1>4. \A k \in Groups : k # j => idleWaiting'[k] = idleWaiting[k] /\ process'[k] = process[k]
    BY <1>1 DEF TypeOK
  <1>5. /\ \A q \in Live' : run'[q].at = "idle" => idleWaiting'[run'[q].group]
        /\ \A q \in Live' : run'[q].at # "starting" => process'[run'[q].group] # Null
    BY <1>2, <1>3, <1>4 DEF BoxInv
  <1>6. PreemptionSignalled'
    BY <1>1, <1>2, <1>3 DEF BoxInv, PreemptionSignalled, OwnFolders
  <1>7. QED
    BY <1>5, <1>6 DEF BoxInv

LEMMA NextBox ==
  ASSUME OwnFolders, TypeOK, SlotInv, WaitInv, BoxInv, [UngatedNext]_vars
  PROVE  BoxInv'
  <1>1. ASSUME NEW j \in Groups, MessageArrives(j) \/ RetryFires(j)
        PROVE  BoxInv'
    <2>1. (EnqueueMessageCheck(j) \/ UNCHANGED <<work, slots>>) /\ UNCHANGED box
      BY <1>1 DEF MessageArrives, RetryFires
    <2>2. QED
      BY <2>1, MessageCheckBox, SameBox DEF work, slots
  <1>2. ASSUME NEW t \in Tasks, EnqueueTask(t)
        PROVE  BoxInv'
    BY <1>2, EnqueueTaskBox
  <1>3. ASSUME NEW j \in Groups, SendMessage(j)
        PROVE  BoxInv'
    BY <1>3, SendMessageBox
  <1>4. ASSUME NEW j \in Groups, IdleTimeout(j) \/ LateIdle(j)
        PROVE  BoxInv'
    <2>1. /\ UNCHANGED <<run, pendingTasks, process>>
          /\ closeSentinel \subseteq closeSentinel'
          /\ \A k \in Groups : idleWaiting[k] => idleWaiting'[k]
      BY <1>4 DEF IdleTimeout, LateIdle, MakeWayForTask, CloseStdin, work, slots, TypeOK
    <2>2. QED
      BY <2>1, SameLive, BoxKept
  <1>5. ASSUME NEW r \in Runs, RegisterProcess(r) \/ Boot(r)
        PROVE  BoxInv'
    BY <1>5, RegisterBox, BootBox
  <1>6. ASSUME NEW r \in Runs, NotifyIdle(r)
        PROVE  BoxInv'
    BY <1>6, NotifyIdleBox
  <1>7. ASSUME NEW r \in Runs, NEW ok \in BOOLEAN, EndRun(r, ok)
        PROVE  BoxInv'
    BY <1>7, EndRunBox
  <1>8. CASE DrainGroup
    <2>1. toDrain \in Groups /\ ~active[toDrain]
      BY <1>8 DEF TypeOK, DrainGroup, WaitInv, Handover
    <2>2. (RunNext(toDrain) \/ UNCHANGED <<work, slots>>) /\ UNCHANGED box
      BY <1>8 DEF DrainGroup
    <2>3. QED
      BY <2>1, <2>2, RunNextBox, SameBox DEF work, slots
  <1>9. CASE DrainWaiting
    <2>1. CASE waitingGroups # <<>>
      <3>1. Head(waitingGroups) \in Groups /\ ~active[Head(waitingGroups)]
        BY <2>1, HeadWaits DEF WaitInv, WaitersIdle
      <3>2. /\ RunNext(Head(waitingGroups)) \/ UNCHANGED <<pendingMessages, pendingTasks, slots>>
            /\ UNCHANGED box
        BY <1>9 DEF DrainWaiting, work
      <3>3. QED
        BY <3>1, <3>2, RunNextBox, SameBox DEF slots
    <2>2. CASE waitingGroups = <<>>
      <3>1. UNCHANGED <<box, run, pendingTasks>>
        BY <1>9, <2>2 DEF DrainWaiting, work, slots
      <3>2. QED
        BY <3>1, SameBox
    <2>3. QED
      BY <2>1, <2>2
  <1>10. CASE EmergencyStop \/ ResumeProcessing \/ UNCHANGED vars
    <2>1. UNCHANGED <<box, run, pendingTasks>>
      BY <1>10 DEF EmergencyStop, ResumeProcessing, vars, work, slots
    <2>2. QED
      BY <2>1, SameBox
  <1>11. QED
    BY <1>1, <1>2, <1>3, <1>4, <1>5, <1>6, <1>7, <1>8, <1>9, <1>10
    DEF UngatedNext, Arrival, Serve

LEMMA InitBox == Init => BoxInv
  <1> SUFFICES ASSUME Init
               PROVE  BoxInv
    OBVIOUS
  <1>1. Live = {}
    BY DEF Init, Live
  <1>2. QED
    BY <1>1 DEF BoxInv, PreemptionSignalled

\* Without pause and restart, and as long as no two groups share a folder, a task
\* never waits behind a container that idles and was not told to close: whichever
\* of the two came first, and whatever containers came up or went in between.
THEOREM IdleMakesWay == ASSUME OwnFolders PROVE UngatedSpec => []PreemptionSignalled
  <1>1. Init => BoxInv
    BY InitBox
  <1>2. TypeOK /\ SlotInv /\ WaitInv /\ BoxInv /\ [UngatedNext]_vars => BoxInv'
    BY NextBox
  <1>3. BoxInv => PreemptionSignalled
    BY DEF BoxInv
  <1>4. QED
    BY <1>1, <1>2, <1>3, UngatedInvariance, PTL DEF UngatedSpec
=============================================================================
