# nanotars in TLA+

nanotars is a Node host process that connects chat channels to Claude agents
running in containers, one container per chat at a time. This directory holds
a formal model of the parts of the host whose correctness depends on the order
in which things happen: who gets a container and when, which messages an agent
is given, when a scheduled task runs, what passes between the host and a
container, who decides a request and what a decision does, which code pairs
which chat, and what becomes of the files in which agents make requests. The
modules are translated from the
TypeScript under `src/src/`; TLC checks small instances of them, and the TLA+
proof system (TLAPS) proves the most important results for every size.

Paths below are relative to `src/src/` of the repository unless they start with
`src/`.

## 1. The system

### 1.1 Components

| Component | Sources | State | Operations | Interacts with |
|---|---|---|---|---|
| Group queue | `group-queue.ts` | per group `active`, `idleWaiting`, `pendingMessages`, `pendingTasks`, `runningTaskId`, `process`, `retryCount`; `waitingGroups`, `activeCount`, `shuttingDown` | `enqueueMessageCheck`, `enqueueTask`, `registerProcess`, `notifyIdle`, `sendMessage`, `closeStdin`, `releaseSlot`, the drains, `scheduleRetry`, `restartGroup`, `emergencyStop`, `resumeProcessing`, `shutdown` | called by the message loop and the scheduler; calls them back to run; reads the gate; writes the containers' input directories |
| Pause gate | `lifecycle.ts` and the `/pause`, `/resume` handlers | one flag, in memory | `pause`, `resume` | read by the two enqueue calls of the queue |
| Message loop and cursors | `orchestrator.ts`, `db/messages.ts`, `db/state.ts` | the messages table; `lastTimestamp`, `processedIds`, `lastAgentTimestamp`, `consecutiveErrors`; their copy in `router_state` | store a message, one turn of the loop, `processGroupMessages`, `recoverPendingMessages` | channels store; the queue runs; containers answer |
| Task scheduler | `task-scheduler.ts`, `db/tasks.ts` | table `scheduled_tasks` | poll, `runTask`, create, pause, resume, update, cancel, run now | agents through IPC, the dashboard, the queue |
| Container runner | `container-runner.ts`, `output-parser.ts`, `container-runtime.ts`, `db/runtime.ts` | per run: hard timeout, `timedOut`, `hadOutput`, output chain, row of `runtime_containers` | spawn, output, kill, close | queue (process), orchestrator (output) |
| Agent runner | `src/container/agent-runner/src/index.ts`, `providers/claude.ts`, `ipc-mcp-stdio.ts` | input directory, `_close`, active query and its stream, session | script, poll, query loop, stale session, tools that write requests | host through files and stdout |
| IPC watcher | `ipc/*.ts`, `lifecycle-handlers.ts` | files per group, the map of registered groups of a pass | list, read, authorize, process, unlink, quarantine | scheduler, approvals, gate, orchestrator, channels |
| Approvals | `permissions/approval-*.ts` | tables `pending_approvals`, `user_dms` | request, deliver, click, text reply, sweep, replay | the handlers below, `user_roles`, channels |
| Approval handlers | `permissions/{sender,channel}-approval.ts`, `install-packages.ts`, `add-mcp-server.ts`, `create-*.ts`, `onecli-bridge.ts`, `pending-questions.ts` | a table or a map of waiters each | apply a decision | approvals, image builds, `restartGroup` |
| Pairing codes | `pending-codes.ts`, `channel-migration.ts`, `cli/pair-main.ts`, `cli/commands/inventory.ts` | a JSON file under a mutex of the host; wiring, tasks, direct chats | create, claim, expire, sweep, register, migrate, remove | registration, command line, scheduler's rows, approvals |
| Users and roles | `permissions/users.ts`, `user-roles.ts`, `access.ts`, `agent-group-members.ts`, ... | tables `user_roles`, `agent_group_members` | grant, revoke, add member, lookups | orchestrator, approvals |
| Database, plugins, admin commands, host start-up, command line, snapshots, secrets, prompts | see `PROJECT.json` | | synchronous calls, formatting, I/O | |

### 1.2 What is hard

The host is single threaded: a callback runs without interruption until it ends
or awaits. Everything hard comes from what is between two such stretches.

* **Interleaving.** Runs are started from five places of the queue and end at
  any time; between the start of a run and the registration of its container
  messages and tasks keep coming.
* **Cursors.** Two of them decide which messages an agent sees, moved from two
  places, saved at other moments than they move, rolled back on failure.
* **Failure.** Turns fail before or after output; the orchestrator counts
  errors, the queue counts retries, and the counts are reset by different
  events.
* **Crash.** The queue, the gate and all timers are in memory only; cursors and
  task rows are in SQLite.
* **Snapshots.** A task is read from its row when it is found due, then waits
  in a queue, runs for minutes, and is written back; the row can be changed at
  any of these points.
* **Timeouts.** Idle timers, hard timeouts, `docker stop` and the exit of the
  container itself race; so do the timer of a waiting gateway request, its
  expiry and the admin's click.
* **Two processes.** Host and container share a directory of files that both
  poll; host and command line share the file of pairing codes.
* **Decisions.** A request is decided by clicks of several admins, text replies
  or the sweep, and applied after awaits, with roles that change meanwhile.

`PROJECT.json` lists each hazard at its line with the property that covers it,
or why none does.

### 1.3 What makes each component correct

* Queue: the count of slots is right and the limit kept; a group has one
  container; a free slot goes to who waits; a queued task makes an idle
  container give way; queued work is done and nothing else removes it; a stop
  starts nothing; the gate does what its comment says.
* Cursors: no message that should reach an agent is skipped; none is given
  again once answered; a failed batch comes back; also across a crash.
* Scheduler: one due time gives one run; an active task has a next run; a due
  task is run; nothing runs that was paused or cancelled.
* Container runner and agent runner: messages are read in the order in which
  they were piped; a container obeys only its own `_close`; a run is a success
  only when every output was handled; row and resume position agree with the
  outcome.
* Approvals: a row is decided once; what was done and told agrees with it; a
  waiting gateway gets an answer.
* Admission: one open request per sender, which can still be decided; an
  approval lets the sender in.
* Codes: an issued code is claimed at most once; no row is left of a deleted
  group; tasks report to a chat of their group.
* IPC: requests of a directory are acted upon in order; a group's messages go
  out exactly to its own chats; no file stays for ever.

## 2. Modules

| Module | Models | Extends |
|---|---|---|
| `GroupQueue` | the group queue and the pause gate | |
| `ContainerSlots` | abstract specification: what a group asked for is run one at a time, its tasks in the order asked and before an owed check, in at most `MaxConcurrent` runs and none during a stop | |
| `GroupQueueProofs` | theorems about the queue | `GroupQueue` |
| `MessageCursor` | message loop, cursors, rollback, recovery | |
| `MessageCursorProofs` | theorems about the cursors | `MessageCursor` |
| `TaskScheduler` | task rows, poll, runs | |
| `TaskSchedulerProofs` | theorems about the scheduler | `TaskScheduler` |
| `AgentContainer` | one chat's containers: input directory, agent runner, outputs, timers, exit | |
| `AgentContainerProofs` | theorems about a chat's containers | `AgentContainer` |
| `Roles` | tables of roles and members, access, choice of approver and of delivery, as operators | |
| `Approvals` | requests of agents and of the gateway, their decision and application | `Roles` |
| `Decisions` | abstract specification: a request is asked once, decided once, and done in the step that approves it or never | |
| `ApprovalsProofs` | theorems about the approvals | `Approvals` |
| `Admission` | senders who are not known: gate, request, decision, replay | `Roles` |
| `AdmissionProofs` | theorems about the admission | `Admission` |
| `PairingCodes` | the store of codes, claiming, migration, removal of channels and groups | |
| `PairingCodesProofs` | theorems about codes and tables | `PairingCodes` |
| `IpcWatcher` | request files from the tool that writes them to their unlink or quarantine | |
| `IpcWatcherProofs` | theorems about the watcher | `IpcWatcher` |
| `MCGroupQueue`, `MCMessageCursor`, `MCTaskScheduler`, `MCAgentContainer`, `MCApprovals`, `MCAdmission`, `MCPairingCodes`, `MCIpcWatcher` | instances for TLC | the module they are named for |

The modules meet in the code's own interfaces. `MessageCursor` takes of the
queue what `GroupQueue` shows; `AgentContainer` is what `GroupQueue` and
`MessageCursor` abstract to the stages of a run and to `Output` and `Sent`;
`Admission` is what `MessageCursor` abstracts to "sender admitted"; `IpcWatcher`
has the effect of task requests on a row's status, `TaskScheduler` what follows
from it.

### 2.1 GroupQueue

Variables carry the names of the fields they model. A *run* is one call of
`runForGroup` or `runTask` that has not returned; it has an identity of its own
(`Runs`) because the point of several properties is that `active`, one flag per
group, may not say how many there are.

One action is one stretch of code between awaits. `releaseSlot` calls
`drainGroup`, that may call `drainWaiting`, whose loop may start several runs;
each of these calls is a step, and while one is outstanding (`toDrain`,
`draining`) `Quiet` is false and nothing else is enabled, so together they are
as atomic as the code.

The specification comes in three forms, which differ in who uses the queue:

* `UngatedSpec`: neither the pause gate nor `restartGroup` is used. Here the
  queue is right: this is where `OneRunPerGroup`, `NoIdleSlot`, `Settles` and
  the refinement of `ContainerSlots` hold.
* `GatedSpec`: gate and restarts, but no emergency stop, as the host is wired
  today (`ipc/tasks.ts:365-369` no longer calls `emergencyStop`).
* `Spec`: everything.

Of a run's container the model has what the queue acts upon: a run is
"starting" until its process is registered, "registered" until the agent runner
is up and has unlinked a stale `_close` (`Boot`), then "up", and "idle" from the
end of a query to the next message (`NotifyIdle`, `SendMessage`). What the queue
*believes* is separate: `idleWaiting` is a flag of the group. An error exit does
not wait for the output callbacks of its run, so such callbacks may be `late`:
`LateIdle` is one that gets through, and `notifyIdle`, which asks only whether
the group is active, marks whatever run the group has by then, with a container
or without one. Two groups may share a folder, and so a `_close` file.

### 2.2 MessageCursor

A message is its row number; what is kept of it is chat, timestamp and what the
gates ask: trigger, command for the host, sender admitted. `MessageLoop` is one
whole turn of `startMessageLoop`; `ProcessGroupMessages` is the call up to its
first await, `HostDone` the stretch after the command handlers, then come
`ContainerUp`, the outputs, and the end: `EndWell`, or `Fail` and `AfterFailure`
around the await of the error notice. An output is two steps, `Output` (the
callback calls `routeOutbound` and awaits it) and `Sent` (it returns, and only
then `outputSentToUser` is set, or it throws, and the chain of callbacks is
broken). `EndWell` waits for the chain, as a success does; `Fail` does not, as
an error exit does not (`container-runner.ts:556-581`). `Crash` throws away what
is in memory, reloads the cursors and does `recoverPendingMessages`.

The queue appears as what `GroupQueue` shows it to be while the gate is not
used: a chat has one run at a time (`OneRunPerGroup`), and a check asked for is
eventually made (`Settles`). Its retry counter and timers are here as well,
because they must be looked at together with `consecutiveErrors`.

Three history variables: `handed`, the messages an agent was given; `answered`,
those of a turn that succeeded or whose output was on its way to the chat;
`disowned`, those of the latter whose turn failed before its output was through,
or with the output refused, and was rolled back as one without output.

### 2.3 TaskScheduler

The tasks of one chat, its slot, and its `pendingTasks`. A row has kind, status
and whether `next_run` is null, still to come or past; the arithmetic of cron
and interval is abstracted to that. What the queue holds, and what a run
writes back from, is a snapshot. The history variable `rearmed` holds the tasks
someone gave a new `next_run` since they last started, `cutOff` those whose last
run ended without one: cut off by a crash or a missing group, or because
`computeNextRun` threw on a schedule nobody had validated (`RunEnds`).

### 2.4 AgentContainer

Both sides of a container, each single threaded, an action being a stretch of
one of them between awaits. In the container: `Boot` (the stale `_close` is
unlinked, what lies in the directory joins the prompt), the task's script, the
set-up of a query, `Attach` (from now on the poll has a query to push into),
`Poll`, the query itself (`QueryTakes`, `QueryEmits`, `QueryEnds`), its ways to
break, `WaitPoll` between two queries. `OrphanPoll` is the poll of a set-up that
threw: nothing stops it, and it pushes into nothing. On the host: `SendMessage`
and `CloseStdin` of the queue, the chain of output callbacks, one after another
and each with an await in the middle (`Callback`, `Sent`, `SendFails`), and the
ways a run resolves: `HardTimeout` then `HostClose`, `HostClose` by exit
code, `Settle` after the chain, `SpawnError`, `HostCrash`.

History variables: `read` and `dropped` say what became of a message, `failed`
which runs ended in an error, `late` that an output was handled after the end of
its run, `foreign` that a container consumed a `_close` not meant for it.

### 2.5 Roles, Approvals and Admission

`Roles` has no variables: each function of `user-roles.ts`, `access.ts`,
`agent-group-members.ts`, `command-gate.ts` and `approval-routing.ts` is an
operator over the tables it reads. Where the code picks one of several rows by
their age, `PickApprover` gives the set of what it may pick.

`Approvals`: a row per request. `HandleApprovalClick` is the whole of it up to
the handler's last synchronous statement, as every handler runs through (the
image is built by `execSync`); `Restarted` and `NotifyAfter` are what comes
after the await of `restartGroup`. `Timer` is the `setTimeout` of a waiting
gateway, `Sweep` the expiry poll, `Expires` the passing of `expires_at`. A text
reply is a message like any other (`Reply`), handled by `processGroupMessages`
if no container runs and it comes alone (`TryHandleApprovalTextReply`), else
given to the agent (`ReachesAgent`). `Decisions` is what all of it comes to:
the statuses of the rows, and the requests for which `Done` holds. That the
status is written before the handler runs is what makes the refinement work: a
second decision of any kind finds a row that is not pending any more.

`Admission`: the gate of the message loop (`Poll`) and that of
`processGroupMessages`, which look at the last sender only; the request
(`RequestSenderApproval`); and the case in which recovery and the first pass ask
in one tick (`Start`, `RequestTwice`), where both callers look before either has
inserted. `Decide` applies a decision with or without the row in flight.

### 2.6 PairingCodes

An operation on the store is two steps, `ReadStore` and the one that writes. The
host's operations wait for one another (`withLock`); the command line is another
process, has no part in that lock, and may come between the two. A *code* is
what is typed, an *issue* one creation of it, so that a code issued again is
another issue; the history `overlapped` holds the issues claimed while the
command line had the store read. Every database operation is one step;
`Restricted` is the foreign key that refers from a sender's request to its
approval, which decides whether a migration, a removal or a deletion happens at
all.

A task is active or not, whatever the reason. `ApplyChannelRemoval` completes
the tasks of the chats it removes and keeps their rows; `SetTaskStatus`, which
is the agents' `resume_task` and `pause_task` and the dashboard's buttons, looks
at neither status nor wiring, so a completed task can be active again; the
history `revived` holds those made active in a chat that is not their group's.

### 2.7 IpcWatcher

The tools of the agent runner write files whose names begin with the
millisecond; the watcher's pass takes the directories one by one, and each file
through `Handling`: read, act, and either `Handled` at once or `Waits` for a
delivery that `Returns` or `Throws`; then `Unlink` or quarantine. Each kind of
request is an action. `map` is `registeredGroups`, read once per pass. The
operator rewires chats and the host is killed between any two steps.

## 3. What is checked

TLC, one run each; bounds are constants of the module and named there.

| Run | Instance | Shows |
|---|---|---|
| `queue_ungated` | 2 groups, 1 task, 1 slot, 1 retry, late callbacks, stop and resume; `UngatedSpec` | `PreemptionSignalled`; `NoStartWhileStopped`; `Settles` |
| `queue_three` | 3 groups, 2 tasks of one group, 2 slots, no retry, no late callbacks, stop and resume; `UngatedSpec` | `OneRunPerGroup`; `NoIdleSlot`; `ImplementsContainerSlots` |
| `queue_full` | 2 groups, 1 task, 2 slots, no retry, containers that do not idle; `Spec`: gate, restarts and stops | types; `SlotAccounting`; `ConcurrencyLimit`; `QueuedWorkOnlyStarts` |
| `queue_resume_idle` | `GatedSpec` | **violation**: resume leaves a group waiting for ever |
| `cursor` | 1 chat, 3 messages of every kind, 1 task, 1 crash, 2 errors, 2 retries, distinct timestamps | types; `NoneSkipped`; `NothingAnsweredTwice`; `FailedBatchComesBack`; `Delivered` |
| `tasks` | 2 tasks, 3 changes by hand, 1 crash | types; `NoSecondRun`; `ActiveComesDue`; `DueTaskRuns` |
| `tasks_stale` | 2 tasks, 1 change, no crash | **violation**: a task paused or cancelled in the queue is run |
| `container` | 2 containers one after the other, 2 piped messages, 1 output each besides the last of a query, 1 crash | types; `ReadInOrder`; `CloseIsOwn`; `SuccessMeansHandled`; `RowAgrees`; `FailedPositionForgotten` |
| `approvals` | 2 requests of any kind, an owner and an admin, 1 text reply, 1 crash | types; `EffectsFollowRow`; `DecisionReachesGateway`; `ImplementsDecisions`; `WaiterAnswered` |
| `admission` | a member, 2 strangers, 3 messages besides replays, 3 rows, 1 crash | types; `OneOpenRequest`; `ApprovedIsMember` |
| `codes` | the main group, a direct chat and a group chat on 2 channels, 1 task, 2 codes, 2 issues, 2 records kept | types, with no row left of a deleted group; `ClaimedOnce`; `TasksReportToTheirGroup` |
| `ipc` | 2 groups, 2 chats, 2 requests in 2 milliseconds, 1 rewiring, 1 kill | types; `InOrder`; `OwnMessagesSent`; `Settles` |

Every property of a passing run is broken by a plausible bug in the code: the
definitions marked `Mutant` in the modules, listed in `PROJECT.json`.

**Why the bounds are enough.** One slot and two groups is the smallest instance
where a group waits for another. With one slot no group could have two runs
whatever the code did, so `OneRunPerGroup` and the hand-over of slots are
checked with two slots and a third group that waits. Two slots and two groups
are the smallest instance in which the limit is reached by one group that gets
two runs. Two tasks of one group have an order; their group is one of the three.
Late callbacks (`late`) matter to who is marked idle, and they and retries are
part of `queue_ungated`; the constraint `PromptOutputs` leaves them out of
`queue_three`, and `BusyOnly` of `queue_full` leaves out idle containers and
`_close` files as well: nothing the properties of these runs read is guarded by
them, since a run may end at any stage of its container. `MaxConcurrent`,
`MaxRetries` and `MaxErrors` of the code are 5 by default, 5 and 3; nothing
depends on more than "one left" and "none left", except that `MaxRetries >=
MaxErrors` keeps a rolled back batch alive, which the instance keeps. Three
messages give a batch, one that is piped while the batch runs, and one between
two turns; with two, `ToSend` never has a message to make up for. Three changes
by hand suffice for pause, run-now and gate in any order; one crash reaches
every action in the state after a restart, since a restart leaves only what is
saved. `MaxTimers` and `Runs` bound what the code leaves unbounded: timers of
one group (a run with a timer outstanding waits with its failure) and identities
of runs (one more than the limit, so a run too many would show). Two containers
show what one leaves to the next (a message, a `_close`, a late output); two
messages their order; `MaxBacklog` of two lets an output be parsed while another
is being sent. Two requests, of which one may be decided while the other is
applied, are the smallest case for packages that are built together and for "the
newest pending row". Three rows in `admission` are the two of one tick and one
more. Two issues of two codes allow a code to be issued again while its first
issue is consumed, expired or invalidated, and one to be claimed between the
command line's reading and writing of the other, which takes a store that keeps
both; that the sweep drops records is then left to the proofs, which have any
number of issues and of records kept. One task is active, completed, revived and
moved in turn; what happens to it does not depend on others. Two requests in
`ipc` are two of one directory, or one in each of two; the directories do not
share anything else.

**Fairness.** Only what the host schedules is fair. Calls under way return
(`DrainGroup`, `DrainWaiting`, `ReleaseSlot`). A run ends: the idle timer closes
an idle container (`orchestrator.ts:640`, `task-scheduler.ts` likewise) and the
hard timeout of `container-runner.ts:375` kills one that is silent; its callback
stays ready while other callbacks run, hence strong fairness in `GroupQueue`,
where `Quiet` disables it again and again. An armed timer fires. The loop and
the scheduler's poll re-arm themselves in every branch. Time passes
(`ComesDue`). The timer of a waiting gateway request fires (`Timer`). The IPC
watcher re-arms its own timer at the end of each pass, so some step of it is
taken as long as one is possible; that includes that the host is started again
after a kill, and that a delivery returns or throws: the code sets no timeout on
one, and a delivery that never settles stops the watcher for all groups. In
`MessageCursor` the slot of a chat goes on (`SlotMoves`): the queue makes the
calls it owes, handlers and runs end, one way or the other. Nothing makes
messages arrive, deliveries to a chat return, containers succeed, users click,
or a paused host resume: `Settles` and `ResumeDrainsWaiting` have such
conditions in their premise instead.

## 4. What is proved

`GroupQueueProofs`, for any finite set of runs larger than `MaxConcurrent`, any
`MaxConcurrent >= 1` (`config.ts:60` clamps it), any groups, tasks and folders:

* `TypeCorrect`: `TypeOK` is inductive.
* `SlotsAccounted`, `LimitKept`: the invariant `SlotInv` says that `activeCount`
  is the number of runs in flight *and* that between the release of a slot and
  the end of the drain one slot is reserved. Without the second part the limit
  is not inductive: `drainGroup` starts a run without looking at the limit,
  relying on the slot just released.
* `StoppedStartsNothing`: every step that keeps `shuttingDown` leaves the set of
  runs alone or shrinks it.
* `GroupsRunOnce`, `SlotsHandedOn`: under `UngatedSpec`. The invariant `WaitInv`
  adds that no group stands twice in `waitingGroups`, that whoever waits is not
  active, that `toDrain` is not active, and that a slot is free while somebody
  waits only during a stop or while a drain is under way. "Whoever waits is not
  active" is exactly what the gate and `restartGroup` break.
* `QueueImplementsSlots`, under `UngatedSpec`: the queue implements
  `ContainerSlots`. The mapping gives each run in flight with the group and the
  task (or message check) it is for, each group's tasks in order, and the groups
  that are owed a check; a second run of a group, a task run twice, in the wrong
  order or behind a check is a step the abstract specification does not have.
  What makes it hard is an arrival that starts at once, without a look at
  `pendingTasks` (`group-queue.ts:91-109`): it overtakes nothing because a group
  with a task waiting is active, or waits for a slot, or is about to be drained.
  A stop breaks that, since a drain that finds `shuttingDown` does nothing: the
  group is then `Forgotten`, resuming does not find it, and what arrives later
  may overtake its tasks. The abstract specification says so (`Forget`, only
  while stopped), and the proof shows that no other step adds to the forgotten
  groups (`StepForgetsNone`, by way of `Placed`). `TaskInv` says that a queued
  task is one of its group's and a running one is its group's `runningTaskId`,
  so that one that runs is not asked for again.
* `WorkLeavesByRunning` (`QueuedWorkOnlyStarts`), under `Spec`: each action is
  shown to keep a group's pending check and tasks or to start the run for what
  it takes; `SlotInv` provides the identity the new run takes.
* `IdleMakesWay` (`PreemptionSignalled`), under `UngatedSpec` and `OwnFolders`:
  no two groups share a folder. The invariant `BoxInv` adds that a run whose
  container idles is known to idle (`idleWaiting`; not the other way round,
  since a late callback may mark a run without a container), and that whoever
  has a container is registered, so that `closeStdin` is not in vain for one
  that idles; with `OneRunPerGroup` no other container of the group can come up
  and unlink its `_close`. The hypothesis is needed: chats wired to one agent
  group share its input directory, and there it is false (15 in section 5).

`TaskSchedulerProofs`, for any finite set of tasks and any number of changes and
crashes: `TypeCorrect`, `OneRunPerDueTime` (`NoSecondRun`) and
`NextRunAccounted` (`ActiveComesDue`). The invariant has three parts: no task is
twice in the queue and none that is not yet there; a task whose run is under way
and that nobody rescheduled is neither in the queue nor due, which is what
`claimTask` is for (a poll between start and end must not find it); a row
without a next run is that of a task under way or of one in `cutOff`, whatever
its status, so that a later `resume_task` cannot make an unexplained one active.

`ApprovalsProofs`, for any number of requests, any users, any initial tables of
roles and direct chats, any number of replies and crashes: `TypeCorrect`,
`EffectsAgree` (`EffectsFollowRow`), `DecisionsReachGateway`
(`DecisionReachesGateway`) and `ApprovalsImplementDecisions`. The invariant is
about one row at a time (`RowInv`). Packages are in the image from the moment
the restart begins, not only once it is announced. What a request left in
`config`, `server` or `plugin` is always accompanied by something its handler
told: without that a later server or plugin, which replaces an earlier one,
would undo what was done for a request. And a request whose waiter is in
memory is one of the gateway that nobody decided, so a decision always finds
it. `Applied` says what any handler may do, so that a click and a text reply,
the types, the invariant and the refinement share one lemma (`ApplyDoes`). In
the refinement an insertion is `Ask`, a decision `Approve` or `Reject`, the
sweep `Expire` of what is due, everything else a stutter.

`AdmissionProofs`, for any strangers, messages, requests, decisions and crashes:
`TypeCorrect`, `OneRequestOpen` (`OneOpenRequest`) and `ApprovedLetIn`
(`ApprovedIsMember`). The invariant says what each row of a sender may be: the
one in flight is his, pending and was sent to somebody; a pending row that has a
card is the one in flight, so a caller that lost the race has a row but no card;
and every approved row's sender is a member.

`AgentContainerProofs`, for any runs, messages, outputs and crashes:
`TypeCorrect`, `MessagesReadInOrder` (`ReadInOrder`), `EveryCloseIsOwn`
(`CloseIsOwn`), `SuccessIsHandled` (`SuccessMeansHandled`), `RowIsOutcome`
(`RowAgrees`) and `NoFailedPosition` (`FailedPositionForgotten`). The order
rests on an invariant about where every piped message is: read, dropped, in the
prompt of a query, in its stream, or in the directory, which holds the newest
ones and nothing older than what a query holds. The set of files that is read
in one go is put in order by a `CHOOSE` among its sequences (`InOrder`), so
that its properties are those of the definition.

`PairingCodesProofs`, for any groups, chats, codes, issues and records kept,
with the command line at work beside the host: `TypeCorrect`, which includes
that no row is left of a deleted group; `TasksFollowTheirGroup`
(`TasksReportToTheirGroup`); and `CodeClaimedOnce` (`ClaimedOnce`). Every store
that anybody holds, the file, what the host has read of it and what the command
line has read of it, is `Sound`: it has at most one record of an issue, and one
that is pending in it was not claimed, unless the issue is `overlapped`. That
exception, and that of `revived` tasks, are not conveniences: without them both
properties are false in the code (11 in section 5). One assumption came out of
the proof: `"any"`, the kind of channel a code may be for, is no channel's name.

`IpcWatcherProofs`, for any groups, chats, files, rewirings and kills:
`TypeCorrect`, `RequestsInOrder` (`InOrder`) and `MessagesOfTheGroup`
(`OwnMessagesSent`). The invariant relates the directory, the listing of the
pass and the last request acted upon: no file is older than that request, no
two have one name, and an older file of the directory comes before a listed one
in the listing; during a pass the map of groups differs from the wiring in the
chats that were rewired and in no other. That the sorted listing exists is
proved from a smallest set of files that could not be sorted, with the
library's theorem that the finite subsets of a set are well-founded: the form
in which an induction over data is within the prover's reach. (`MaxTicks > 0`
only says that there is a millisecond to write a request in.)

`MessageCursorProofs`, for any finite set of chats, any messages, tasks, errors,
retries and crashes: `TypeCorrect`; `NothingSkipped` (`NoneSkipped`);
`BatchComesBack` (`FailedBatchComesBack`); `AnsweredOnce`
(`NothingAnsweredTwice`). Besides the types there are two invariants. `PassInv`:
for each chat, the cursor, the saved cursor and the one a run would fall back to
are all values with nothing ungiven at or below them, and what the host looks at
is all there is after the cursor but for newer messages. `LoopOK` in `TurnInv`:
while a container can be piped to, what is new to the loop is new to that
container, which is why `ToSend` may take all that is past the cursor; it rests
on a container coming up only after the loop has gone round. The rest of
`TurnInv`: a batch lies between the cursor before it and both cursors now, and
an answered message is behind every cursor, and behind the one a run may fall
back to as long as that run has sent nothing; a host command may be an exception
after a crash, which the property excepts, too, and so may a message in
`disowned`: its turn was rolled back while its output was under way. The
hypotheses are named and are the ones the `cursor` run meets:

* `Later`: a message stored later has a later timestamp. Channels take the
  timestamp of the sender, so nothing in the code forces it; without it messages
  are lost (4 in section 5), and the hazards name it.
* `Remembered`: `processedIds` is not emptied, that is, not more messages than
  its cap (10,000 in the code) are ever looked at. It is used where a message
  at the loop's cursor would otherwise be new again and be piped a second time.
  `NothingSkipped` does without it.
* `MaxErrors > 0` and `Null \notin Run` are assumptions of the module
  (`MAX_CONSECUTIVE_ERRORS` is 3; no run looks like none).

The assumptions are those named in the modules (`LimitAssumption`,
`RunsAssumption`, `MappingAssumption`, `NullAssumption`, `TasksAssumption`,
`AbsentAssumption`, `ApprovalsAssumption`, ...); TLC evaluates them in the runs.
Every safety and action property of a passing run is stated by a theorem.

**Only model-checked**: the liveness properties (`Settles` of the queue and of
the watcher, `Delivered`, `DueTaskRuns`, `WaiterAnswered`), because the proof
system does not do fairness; and the violations.

## 5. Where code and words disagree

See "findings" in `PROJECT.json` for the quotes. In short:

Shown by a run:

1. Resume wakes nobody (`queue_resume_idle`).
2. A task paused or cancelled while it waits in the queue is run
   (`tasks_stale`).

Seen while modelling; a constant or a specification with which the module has
the behaviour is given in brackets where it is not in the passing run anyway:

3. A group queued by the closed gate, or by `restartGroup`, while its container
   runs gets a second run (`OneRunPerGroup` fails under `GatedSpec`); the end of
   the first then clears the flags of the second. While paused the end of a run
   starts others.
4. A message with the timestamp of the cursor is lost if it comes while the
   container of the first is starting (`Delivered` fails with `0 \in
   StampSteps`).
5. A task that is resumed, or whose run was cut off by a crash, may have no next
   run: it is active and never due (the exceptions of `ActiveComesDue`).
6. An output whose delivery is under way when its container fails is sent after
   the run was reported as failed with nothing sent, and its batch is given to
   an agent again (`NothingAnsweredTwice` fails without the exception of
   `disowned`).
7. Messages and a `_close` that the poll takes while there is no query go
   nowhere; those pushed into a query whose session is stale are lost. After a
   crash the runtime row of the run it cut off stays "running".
8. A text reply is read again after a crash and decides the next request; it
   reaches the agent instead while its container runs; it decides the newest
   pending row, whichever card the admin has read.
9. The gateway's timer denies and leaves the row to be approved. A plugin whose
   writing fails half-way leaves its directory, though "No files written." is
   told.
10. Messages of senders who are not admitted reach the agent behind those of one
    who is. A sender whose card could not be delivered is not asked about again.
    A message written while the request was open is given twice after approval
    (the original and the replay).
11. The sweep of pairing codes drops pending ones; a code consumed while the
    command line issues another is pending again and can be claimed twice
    (`ClaimedOnce` fails without the exception of `overlapped`); a task
    completed by the removal of its channel can be made active again and reports
    to a chat that is not wired (`TasksReportToTheirGroup` fails without that of
    `revived`); a migration of the owner's direct chat leaves him unreachable;
    `groups delete` fails on its own foreign keys.
12. A group's first messages to a chat wired during a pass are refused and
    unlinked; a question of an agent reaches no chat; a kill between action and
    unlink has the request done twice; a failed delivery is quarantined and not
    tried again; the directory of a group named `errors` is never looked at;
    `create_agent` leaves its row if the scaffold fails.
13. The lock file of a dead host can be taken by two hosts started together.
14. The branch of the message loop for unknown chats is never taken, so
    `channel-approval.ts` is not called by it.
15. Chats wired to one agent group share its input directory: a container that
    comes up unlinks the `_close` written for the other's, and a task waits
    behind an idle container until the idle timer (`PreemptionSignalled` fails
    when `FolderOf` is not injective).
16. A late output callback of a run that failed marks its group's next run idle;
    a task queued then has a working container told to close (`LateIdle`, then
    `EnqueueTask`).

`Delivered` excepts chats with senders who are not admitted, because only the
last sender of a batch is looked at (`orchestrator.ts:507-539`). It asks that a
message is given to an agent, not that the turn succeeds: after
`MAX_CONSECUTIVE_ERRORS` failures the cursor stays past the batch.

## 6. Not modelled, and why

* `channel-approval.ts`: nothing reaches it (14 above). `telegram-pairing.ts`:
  nothing imports it.
* Plugins and their loader, prompts, snapshots, secrets, mounts, container
  command lines, image builds: formatting, file writing and process calls.
* The schema and its migrations, the lookups in one table, the host's start-up
  order, the rest of the command line: sequential code with one actor.
* Sessions are in `AgentContainer` only as "there is one or not".
* Which fields of a request make it invalid: one choice per kind of request.
* Cron and interval arithmetic: time is abstract in `TaskScheduler`.
* `setTaskContainer` and `isTaskContainerActive` of the queue: nothing calls
  them.
* The host's own database and file operations are taken to succeed; a throw from
  one of them in the message loop (`orchestrator.ts:1050`) is not followed up.
* The plugins' own `createTask`: its tasks are rows like others in
  `TaskScheduler`, and not part of `PairingCodes`.
* Channels and Docker: external; what they do appears as actions that may
  happen at any time.

## 7. Plan

Done: all modules of section 2 and their proofs. Next, in this order:

1. That `Admission`, too, implements `Decisions`: what is done for a sender must
   there be told apart from what an earlier approval, or a role, has done.
2. Interval arithmetic as an operator, checked against a definition over bounded
   inputs.
