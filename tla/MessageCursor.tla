---------------------------- MODULE MessageCursor ----------------------------
(***************************************************************************)
(* How the orchestrator (src/orchestrator.ts) gets every stored message to *)
(* an agent: the message loop with its global cursor lastTimestamp, the    *)
(* per-chat cursor lastAgentTimestamp with its rollback on errors, and what *)
(* is left of both after a crash (src/db/messages.ts, src/db/state.ts).    *)
(*                                                                         *)
(* The group queue is here what module GroupQueue shows it to be while the *)
(* pause gate is not used: a chat has one run at a time, and a check asked *)
(* for is eventually run.  A message is its row number in the table.       *)
(***************************************************************************)
EXTENDS Integers, Sequences, FiniteSets, FiniteSetsExt

CONSTANTS
  Chats,         \* chats with a wired agent group
  Always,        \* those engaged by every message: engage_mode 'always', or main
  Contents,      \* what arrives: is it a trigger, a command for the host, admitted
  StampSteps,    \* how far a new message's timestamp is from the newest one
  MaxErrors,     \* MAX_CONSECUTIVE_ERRORS
  MaxRetries,    \* MAX_RETRIES of the group queue
  MaxIds,        \* the cap on processedIds
  MaxMessages,   \* bound of the model: messages stored
  MaxTasks,      \* bound of the model: scheduled tasks run
  MaxCrashes,    \* bound of the model: crashes of the host
  Null           \* no run

ASSUME ChatsAssumption    == IsFiniteSet(Chats) /\ Always \subseteq Chats
ASSUME ContentsAssumption ==
  Contents \subseteq [trigger : BOOLEAN, command : BOOLEAN, admitted : BOOLEAN]
ASSUME StampsAssumption   == StampSteps \subseteq Int
ASSUME BoundsAssumption   ==
  {MaxErrors, MaxRetries, MaxIds, MaxMessages, MaxTasks, MaxCrashes} \subseteq Nat /\ MaxErrors > 0

\* batch: the messages it was given; prev: the cursor before it; up: its container
\* can be piped to; out: its output is being sent to the chat, or was refused
\* there, which ends the chain of its callbacks; sent: outputSentToUser.
Run == [phase : {"host", "agent", "failed", "task"}, batch : SUBSET (1 .. MaxMessages),
        prev : Nat, up : BOOLEAN, out : {"idle", "sending", "broken"}, sent : BOOLEAN]
ASSUME NullAssumption     == Null \notin Run

VARIABLES
  log,                    \* the messages table, bot messages left out
  lastTimestamp,          \* the loop's cursor
  processedIds,           \* messages at that cursor the loop has dealt with
  processedIdsTimestamp,
  lastAgentTimestamp,     \* per chat, up to where an agent has been given messages
  saved,                  \* the two cursors in the table router_state
  consecutiveErrors,
  run,                    \* per chat, what holds its slot in the queue: a call of
                          \* processGroupMessages or a scheduled task
  pendingMessages,        \* the queue owes the chat a call
  retryCount,             \* GroupState.retryCount
  retryTimers,            \* the queue's retry timers running
  woken,                  \* the loop has been signalled and has not yet gone round
  tasks, crashes,         \* how many there have been
  handed,                 \* history: messages given to an agent or a host command
  answered,               \* history: messages in a turn that succeeded or had output
  disowned                \* history: those of them in a turn that failed with its
                          \* output still under way, or refused

loop    == <<lastTimestamp, processedIds, processedIdsTimestamp>>
cursor  == <<lastAgentTimestamp, saved>>
queue   == <<pendingMessages, retryCount, retryTimers>>
history == <<handed, answered, disowned>>
bounds  == <<tasks, crashes>>
vars    == <<log, loop, cursor, consecutiveErrors, run, queue, woken, bounds, history>>

Ids    == 1 .. Len(log)
Newest == IF log = <<>> THEN 0 ELSE Max({log[m].stamp : m \in Ids})

\* ORDER BY timestamp: the last of a batch of rows.
Last(S) == CHOOSE m \in S : \A k \in S :
             log[k].stamp < log[m].stamp \/ (log[k].stamp = log[m].stamp /\ k <= m)

MessagesSince(c, t) == {m \in Ids : log[m].chat = c /\ log[m].stamp > t}
Up(c)          == run[c] # Null /\ run[c].up
InPhase(c, ph) == run[c] # Null /\ run[c].phase = ph

NewRun(ph, batch, since) ==
  [phase |-> ph, batch |-> batch, prev |-> since, up |-> FALSE, out |-> "idle", sent |-> FALSE]

TypeOK ==
  /\ DOMAIN log \subseteq 1 .. MaxMessages
  /\ lastTimestamp \in Nat /\ processedIdsTimestamp \in Nat
  /\ processedIds \subseteq Ids
  /\ lastAgentTimestamp \in [Chats -> Nat]
  /\ saved.last \in Nat /\ saved.agent \in [Chats -> Nat]
  /\ consecutiveErrors \in [Chats -> 0 .. MaxErrors]
  /\ \A c \in Chats : run[c] = Null \/
       /\ run[c].phase \in {"host", "agent", "failed", "task"} /\ run[c].batch \subseteq Ids
       /\ run[c].prev \in Nat /\ {run[c].up, run[c].sent} \subseteq BOOLEAN
       /\ run[c].out \in {"idle", "sending", "broken"}
  /\ pendingMessages \in [Chats -> BOOLEAN] /\ retryTimers \in [Chats -> Nat]
  /\ retryCount \in [Chats -> 0 .. MaxRetries]
  /\ handed \subseteq Ids /\ answered \subseteq handed /\ disowned \subseteq answered

Init ==
  /\ log = <<>>
  /\ lastTimestamp = 0 /\ processedIds = {} /\ processedIdsTimestamp = 0
  /\ lastAgentTimestamp = [c \in Chats |-> 0]
  /\ saved = [last |-> 0, agent |-> [c \in Chats |-> 0]]
  /\ consecutiveErrors = [c \in Chats |-> 0]
  /\ run = [c \in Chats |-> Null]
  /\ pendingMessages = [c \in Chats |-> FALSE]
  /\ retryCount = [c \in Chats |-> 0]
  /\ retryTimers = [c \in Chats |-> 0]
  /\ woken = FALSE /\ tasks = 0 /\ crashes = 0
  /\ handed = {} /\ answered = {} /\ disowned = {}

-----------------------------------------------------------------------------
(* The gates both paths put a batch through. *)

\* The sender of the last message decides for the whole batch.
Admitted(S)     == log[Last(S)].admitted
Triggered(c, S) == c \in Always \/ \E m \in S : log[m].trigger
Engages(c, S)   == S # {} /\ Admitted(S) /\ Triggered(c, S)

\* A lone slash command or approval reply is dealt with on the host.
ForHost(S) == Cardinality(S) = 1 /\ \A m \in S : log[m].command

-----------------------------------------------------------------------------
(* The message loop. *)

\* A channel or a plugin stores a message; the event wakes the loop.
StoreMessage(c, what, d) ==
  /\ Len(log) < MaxMessages
  /\ Newest + d > 0
  /\ log' = Append(log, [chat |-> c, stamp |-> Newest + d, trigger |-> what.trigger,
                         command |-> what.command, admitted |-> what.admitted])
  /\ woken' = TRUE
  /\ UNCHANGED <<loop, cursor, consecutiveErrors, run, queue, bounds, history>>

RawMessages == {m \in Ids : log[m].stamp >= lastTimestamp}
NewMessages == RawMessages \ processedIds
NewIn(c)    == {m \in NewMessages : log[m].chat = c}

RememberIds ==
  LET newTimestamp == Max({lastTimestamp} \cup {log[m].stamp : m \in RawMessages})
      ids == IF newTimestamp > processedIdsTimestamp
             THEN RawMessages ELSE processedIds \cup RawMessages
  IN /\ lastTimestamp' = newTimestamp
     /\ processedIdsTimestamp' = Max({newTimestamp, processedIdsTimestamp})
     /\ processedIds' = IF Cardinality(ids) > MaxIds THEN {} ELSE ids

Wanted(c)    == Engages(c, NewIn(c))

\* Mutant: what the loop has seen before is left out.
ToSendNewOnly(c) == NewIn(c)

ToSend(c) == LET pending == MessagesSince(c, lastAgentTimestamp[c])
             IN IF pending # {} THEN pending ELSE NewIn(c)

\* One turn of the loop, on a new-message event or on the poll timer: the new
\* messages of a chat are piped to its container, or the queue is asked for a run.
MessageLoop ==
  LET piped == {c \in Chats : Wanted(c) /\ Up(c)} IN
  /\ woken' = FALSE
  /\ \/ NewMessages = {} /\ UNCHANGED <<loop, cursor, run, pendingMessages, handed>>
     \/ /\ NewMessages # {}
        /\ RememberIds
        /\ lastAgentTimestamp' = [c \in Chats |->
             IF c \in piped THEN log[Last(ToSend(c))].stamp ELSE lastAgentTimestamp[c]]
        /\ saved' = [last |-> lastTimestamp', agent |-> lastAgentTimestamp']
        /\ run' = [c \in Chats |->
             IF c \in piped THEN [run[c] EXCEPT !.batch = @ \cup ToSend(c)] ELSE run[c]]
        /\ pendingMessages' = [c \in Chats |->
             pendingMessages[c] \/ (Wanted(c) /\ ~Up(c))]
        /\ handed' = handed \cup UNION {ToSend(c) : c \in piped}
  /\ UNCHANGED <<log, consecutiveErrors, retryCount, retryTimers, bounds, answered, disowned>>

-----------------------------------------------------------------------------
(* processGroupMessages. *)

\* Mutant: the cursor is saved at the end of the run instead.
LaunchUnsaved(c, batch) ==
  /\ lastAgentTimestamp' = [lastAgentTimestamp EXCEPT ![c] = log[Last(batch)].stamp]
  /\ run' = [run EXCEPT ![c] = NewRun("agent", batch, lastAgentTimestamp[c])]
  /\ handed' = handed \cup batch
  /\ UNCHANGED saved

\* The agent is given the batch: the cursor moves first, and is saved.
Launch(c, batch) ==
  /\ lastAgentTimestamp' = [lastAgentTimestamp EXCEPT ![c] = log[Last(batch)].stamp]
  /\ saved' = [last |-> lastTimestamp, agent |-> lastAgentTimestamp']
  /\ run' = [run EXCEPT ![c] = NewRun("agent", batch, lastAgentTimestamp[c])]
  /\ handed' = handed \cup batch

\* The queue makes the call it owes; up to its first await.
ProcessGroupMessages(c) ==
  LET missed == MessagesSince(c, lastAgentTimestamp[c]) IN
  /\ pendingMessages[c] /\ run[c] = Null
  /\ pendingMessages' = [pendingMessages EXCEPT ![c] = FALSE]
  /\ \/ /\ ~Engages(c, missed)
        /\ retryCount' = [retryCount EXCEPT ![c] = 0]
        /\ UNCHANGED <<cursor, run, handed>>
     \/ /\ Engages(c, missed)
        /\ UNCHANGED retryCount
        /\ IF Cardinality(missed) = 1
           THEN /\ run' = [run EXCEPT ![c] = NewRun("host", missed, lastAgentTimestamp[c])]
                /\ UNCHANGED <<cursor, handed>>
           ELSE Launch(c, missed)
  /\ UNCHANGED <<log, loop, consecutiveErrors, retryTimers, woken, bounds, answered,
                 disowned>>

\* The admin command and approval reply handlers have looked at a lone message.
HostDone(c) ==
  LET batch == run[c].batch IN
  /\ InPhase(c, "host")
  /\ \/ /\ ForHost(batch)
        /\ lastAgentTimestamp' = [lastAgentTimestamp EXCEPT ![c] = log[Last(batch)].stamp]
        /\ run' = [run EXCEPT ![c] = Null]
        /\ retryCount' = [retryCount EXCEPT ![c] = 0]
        /\ handed' = handed \cup batch /\ answered' = answered \cup batch
        /\ UNCHANGED saved
     \/ ~ForHost(batch) /\ Launch(c, batch) /\ UNCHANGED <<retryCount, answered>>
  /\ UNCHANGED <<log, loop, consecutiveErrors, pendingMessages, retryTimers, woken, bounds,
                 disowned>>

\* The container is registered with the queue: messages can be piped to it.  The
\* loop, once woken, goes round before the event loop gets here.
ContainerUp(c) ==
  /\ ~woken
  /\ InPhase(c, "agent") \/ InPhase(c, "task")
  /\ ~run[c].up
  /\ run' = [run EXCEPT ![c].up = TRUE]
  /\ UNCHANGED <<log, loop, cursor, consecutiveErrors, queue, woken, bounds, history>>

\* A callback gives the agent's text to the channel: it reaches the chat from now
\* on. The callbacks of a run are a chain, one at a time.
Output(c) ==
  /\ Up(c) /\ run[c].out = "idle"
  /\ InPhase(c, "agent") \/ InPhase(c, "task")
  /\ run' = [run EXCEPT ![c].out = "sending"]
  /\ answered' = answered \cup run[c].batch
  /\ UNCHANGED <<log, loop, cursor, consecutiveErrors, queue, woken, bounds, handed, disowned>>

\* The channel has sent it, and the callback goes on, or it refuses, and the chain
\* is broken.
Sent(c, ok) ==
  /\ InPhase(c, "agent") \/ InPhase(c, "task")
  /\ run[c].out = "sending"
  /\ run' = IF ok THEN [run EXCEPT ![c].out = "idle", ![c].sent = TRUE]
            ELSE [run EXCEPT ![c].out = "broken"]
  /\ UNCHANGED <<log, loop, cursor, consecutiveErrors, queue, woken, bounds, history>>

\* Mutant: one retry too many.
ScheduleRetryLate(c) ==
  IF retryCount[c] > MaxRetries
  THEN retryCount' = [retryCount EXCEPT ![c] = 0] /\ UNCHANGED retryTimers
  ELSE /\ retryCount' = [retryCount EXCEPT ![c] = @ + 1]
       /\ retryTimers' = [retryTimers EXCEPT ![c] = @ + 1]

ScheduleRetry(c) ==
  IF retryCount[c] + 1 > MaxRetries
  THEN retryCount' = [retryCount EXCEPT ![c] = 0] /\ UNCHANGED retryTimers
  ELSE /\ retryCount' = [retryCount EXCEPT ![c] = @ + 1]
       /\ retryTimers' = [retryTimers EXCEPT ![c] = @ + 1]

\* The turn is over and counts as done: it succeeded, which the host learns when
\* the chain is through, or failed after output, which need not wait for it.
EndWell(c, ok) ==
  /\ InPhase(c, "agent")
  /\ IF ok THEN run[c].up /\ run[c].out = "idle" ELSE run[c].sent
  /\ consecutiveErrors' = [consecutiveErrors EXCEPT ![c] = 0]
  /\ retryCount' = [retryCount EXCEPT ![c] = 0]
  /\ run' = [run EXCEPT ![c] = Null]
  /\ answered' = IF ok THEN answered \cup run[c].batch ELSE answered
  /\ UNCHANGED <<log, loop, cursor, pendingMessages, retryTimers, woken, bounds, handed,
                 disowned>>

\* Mutant: the cursor is rolled back in memory only.
RollBackUnsaved(c) ==
  /\ lastAgentTimestamp' = [lastAgentTimestamp EXCEPT ![c] = run[c].prev]
  /\ UNCHANGED saved

RollBack(c) ==
  /\ lastAgentTimestamp' = [lastAgentTimestamp EXCEPT ![c] = run[c].prev]
  /\ saved' = [last |-> lastTimestamp, agent |-> lastAgentTimestamp']

\* The count-th failure in a row is back at the queue.  After MaxErrors the cursor
\* stays past the failing messages.
FinishFailed(c, count) ==
  /\ \/ /\ count >= MaxErrors
        /\ consecutiveErrors' = [consecutiveErrors EXCEPT ![c] = 0]
        /\ UNCHANGED cursor
     \/ /\ count < MaxErrors
        /\ consecutiveErrors' = [consecutiveErrors EXCEPT ![c] = count]
        /\ RollBack(c)
  /\ ScheduleRetry(c)
  /\ run' = [run EXCEPT ![c] = Null]
  /\ UNCHANGED <<log, loop, pendingMessages, woken, bounds, handed, answered>>

\* The turn failed with no output recorded: an error exit does not wait for what is
\* being sent.  The user is told of a first failure, unless it was an expired login;
\* meanwhile the run is still there to be piped to.
Fail(c) ==
  LET count == consecutiveErrors[c] + 1 IN
  /\ InPhase(c, "agent") /\ ~run[c].sent
  /\ disowned' = IF run[c].out = "idle" THEN disowned
                 ELSE disowned \cup (run[c].batch \cap answered)
  /\ \/ /\ count = 1
        /\ consecutiveErrors' = [consecutiveErrors EXCEPT ![c] = count]
        /\ run' = [run EXCEPT ![c].phase = "failed"]
        /\ UNCHANGED <<log, loop, cursor, queue, woken, bounds, handed, answered>>
     \/ FinishFailed(c, count)

AfterFailure(c) ==
  InPhase(c, "failed") /\ FinishFailed(c, consecutiveErrors[c]) /\ UNCHANGED disowned

\* A scheduled task's container holds the chat's slot, and is piped to like any.
TaskStarts(c) ==
  /\ run[c] = Null /\ tasks < MaxTasks
  /\ tasks' = tasks + 1
  /\ run' = [run EXCEPT ![c] = NewRun("task", {}, 0)]
  /\ UNCHANGED <<log, loop, cursor, consecutiveErrors, queue, woken, crashes, history>>

TaskEnds(c) ==
  /\ InPhase(c, "task")
  /\ run' = [run EXCEPT ![c] = Null]
  /\ UNCHANGED <<log, loop, cursor, consecutiveErrors, queue, woken, bounds, history>>

RetryFires(c) ==
  /\ retryTimers[c] > 0
  /\ retryTimers' = [retryTimers EXCEPT ![c] = @ - 1]
  /\ pendingMessages' = [pendingMessages EXCEPT ![c] = TRUE]
  /\ UNCHANGED <<log, loop, cursor, consecutiveErrors, run, retryCount, woken, bounds,
                 history>>

-----------------------------------------------------------------------------
\* Mutant: recoverPendingMessages is not called.
CrashWithoutRecovery ==
  /\ crashes < MaxCrashes
  /\ crashes' = crashes + 1
  /\ lastTimestamp' = saved.last
  /\ lastAgentTimestamp' = saved.agent
  /\ processedIds' = {} /\ processedIdsTimestamp' = 0
  /\ consecutiveErrors' = [c \in Chats |-> 0]
  /\ run' = [c \in Chats |-> Null]
  /\ pendingMessages' = [c \in Chats |-> FALSE]
  /\ retryCount' = [c \in Chats |-> 0]
  /\ retryTimers' = [c \in Chats |-> 0]
  /\ woken' = TRUE
  /\ UNCHANGED <<log, saved, tasks, history>>

\* The host stops without warning and is started again: loadState,
\* recoverPendingMessages and the first turn of the loop.
Crash ==
  /\ crashes < MaxCrashes
  /\ crashes' = crashes + 1
  /\ lastTimestamp' = saved.last
  /\ lastAgentTimestamp' = saved.agent
  /\ processedIds' = {} /\ processedIdsTimestamp' = 0
  /\ consecutiveErrors' = [c \in Chats |-> 0]
  /\ run' = [c \in Chats |-> Null]
  /\ pendingMessages' = [c \in Chats |-> MessagesSince(c, saved.agent[c]) # {}]
  /\ retryCount' = [c \in Chats |-> 0]
  /\ retryTimers' = [c \in Chats |-> 0]
  /\ woken' = TRUE
  /\ UNCHANGED <<log, saved, tasks, history>>

-----------------------------------------------------------------------------
\* The slot of a chat is taken for messages, or what holds it goes on to its end.
SlotMoves(c) ==
  \/ ProcessGroupMessages(c) \/ HostDone(c)
  \/ (\E ok \in BOOLEAN : EndWell(c, ok)) \/ Fail(c) \/ AfterFailure(c)
  \/ TaskEnds(c)

Turn(c) ==
  \/ SlotMoves(c) \/ RetryFires(c) \/ TaskStarts(c)
  \/ ContainerUp(c) \/ Output(c) \/ (\E ok \in BOOLEAN : Sent(c, ok))

Next ==
  \/ \E c \in Chats, what \in Contents, d \in StampSteps : StoreMessage(c, what, d)
  \/ MessageLoop
  \/ \E c \in Chats : Turn(c)
  \/ Crash

\* The loop's promise is resolved by the event or the timer; the queue makes the
\* calls it owes (module GroupQueue, Settles), handlers and runs end; timers fire.
Fairness ==
  /\ WF_vars(MessageLoop)
  /\ \A c \in Chats : WF_vars(SlotMoves(c)) /\ WF_vars(RetryFires(c))

Spec == Init /\ [][Next]_vars /\ Fairness

-----------------------------------------------------------------------------
\* The cursor never passes a message no agent and no host command was given: not
\* when a batch is piped, when a run starts, rolls back or is given up, nor when a
\* cursor is read back after a crash.  Both paths move it to the last message of
\* what they give, so each must give all that is past it.
NoneSkipped ==
  \A m \in Ids : log[m].stamp <= lastAgentTimestamp[log[m].chat] => m \in handed

Given(c) == IF run'[c] = Null THEN {}
            ELSE IF run[c] = Null THEN run'[c].batch ELSE run'[c].batch \ run[c].batch

\* A message is not given again once the chat has had output from its turn or the
\* turn has succeeded: the reason the cursor is saved before the container starts
\* and a failure after output is not rolled back.  The exceptions: a host command,
\* whose cursor is not saved, after a crash, and a turn that failed before the
\* sending of its output was through, or with it refused.
NothingAnsweredTwice ==
  [][\A c \in Chats : \A m \in Given(c) \cap answered :
       (log[m].command /\ crashes > 0) \/ m \in disowned]_vars

\* A turn that fails with no output recorded, and is not the last of MaxErrors in a row,
\* gives back all it was given: the batch it began with and what was piped to it
\* since, up to the moment its cursor is rolled back, and a crash keeps it so.
FailedBatchComesBack ==
  [][\A c \in Chats :
       (InPhase(c, "agent") \/ InPhase(c, "failed")) /\ run'[c] = Null /\ consecutiveErrors'[c] > 0
         => \A m \in run[c].batch :
              log[m].stamp > lastAgentTimestamp'[c] /\ log[m].stamp > saved'.agent[c]]_vars

AllAdmitted(c) == \A m \in Ids : log[m].chat = c => log[m].admitted

\* The messages that should engage an agent and have not been given to one.
Owing(c) ==
  {m \in Ids : log[m].chat = c /\ (log[m].trigger \/ c \in Always)} \ handed

\* A message that should engage an agent is given to one, whatever is running or
\* failing when it arrives and wherever the host crashes: time and again the chat
\* is owed nothing.  In a chat with senders who are not admitted one of them can
\* hold a batch back.
Delivered == \A c \in Chats : []<>(Owing(c) = {} \/ ~AllAdmitted(c))
=============================================================================
