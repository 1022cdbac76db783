---------------------------- MODULE TaskScheduler ----------------------------
(***************************************************************************)
(* Scheduled tasks: their rows (src/db/tasks.ts), the scheduler's poll and *)
(* the run of a task (src/task-scheduler.ts), and the changes agents and   *)
(* the dashboard make to a row at any time (src/ipc/tasks.ts,              *)
(* src/dashboard/server.ts).                                               *)
(*                                                                         *)
(* All the tasks are of one chat.  Of the group queue this module has that *)
(* chat's slot and its pendingTasks, as enqueueTask and drainGroup use     *)
(* them below the concurrency limit; module GroupQueue has the rest.  What *)
(* the queue holds is a task as its row was when it was found due.  Time   *)
(* is whether next_run is null, still to come, or past.                    *)
(***************************************************************************)
EXTENDS Naturals, Sequences, FiniteSets, SequencesExt

CONSTANTS
  Tasks,
  MaxChanges,    \* bound of the model: changes of a row or of the gate by hand
  MaxCrashes,    \* bound of the model: crashes of the host
  Unborn, Gone,  \* a row not yet inserted, a row deleted
  Null, Messages \* nothing in the slot, a message run in it

ASSUME TasksAssumption  == IsFiniteSet(Tasks)
ASSUME BoundsAssumption == {MaxChanges, MaxCrashes} \subseteq Nat

VARIABLES
  row,           \* the table scheduled_tasks
  pendingTasks,  \* GroupState.pendingTasks
  slot,          \* what holds the chat's slot
  paused,        \* the pause gate
  changes, crashes,
  rearmed,       \* history: next_run set by someone else since the task last started
  cutOff         \* history: claimed, and left without a next_run when its run ended

vars == <<row, pendingTasks, slot, paused, changes, crashes, rearmed, cutOff>>

Kinds    == {"once", "repeat"}    \* schedule_type: cron and interval repeat
Rows     == [kind : Kinds, status : {"active", "paused", "completed"},
             next : {"none", "later", "past"}]
Snapshot == [id : Tasks, kind : Kinds]
Run      == [id : Tasks, kind : Kinds, over : BOOLEAN]

ASSUME AbsentAssumption ==
  /\ Unborn # Gone /\ {Unborn, Gone} \cap Rows = {}
  /\ Null # Messages /\ {Null, Messages} \cap Run = {}

Exists(t)  == row[t] \notin {Unborn, Gone}
Active(t)  == Exists(t) /\ row[t].status = "active"
IsDue(t)   == Active(t) /\ row[t].next = "past"
Queued(t)  == \E i \in DOMAIN pendingTasks : pendingTasks[i].id = t
IsTask     == slot \notin {Null, Messages}
Running(t) == IsTask /\ slot.id = t
IsOver     == IsTask /\ slot.over

TypeOK ==
  /\ row \in [Tasks -> Rows \cup {Unborn, Gone}]
  /\ pendingTasks \in Seq(Snapshot) /\ Len(pendingTasks) <= Cardinality(Tasks)
  /\ slot \in Run \cup {Null, Messages}
  /\ paused \in BOOLEAN
  /\ rearmed \subseteq Tasks /\ cutOff \subseteq Tasks

Init ==
  /\ row = [t \in Tasks |-> Unborn]
  /\ pendingTasks = <<>> /\ slot = Null /\ paused = FALSE
  /\ changes = 0 /\ crashes = 0 /\ rearmed = {} /\ cutOff = {}

-----------------------------------------------------------------------------
(* The rows. *)

Change == ~IsOver /\ changes < MaxChanges /\ changes' = changes + 1

Rearm(t) == rearmed' = rearmed \cup {t} /\ cutOff' = cutOff \ {t}

\* schedule_task
CreateTask(t, kind) ==
  /\ ~IsOver /\ row[t] = Unborn
  /\ row' = [row EXCEPT ![t] = [kind |-> kind, status |-> "active", next |-> "later"]]
  /\ UNCHANGED <<pendingTasks, slot, paused, changes, crashes, rearmed, cutOff>>

\* pause_task and resume_task, of the agent or the dashboard
SetStatus(t, status) ==
  /\ Change /\ Exists(t)
  /\ row' = [row EXCEPT ![t].status = status]
  /\ UNCHANGED <<pendingTasks, slot, paused, crashes, rearmed, cutOff>>

\* update_task with a schedule
Reschedule(t, kind) ==
  /\ Change /\ Exists(t)
  /\ row' = [row EXCEPT ![t].kind = kind, ![t].next = "later"]
  /\ Rearm(t)
  /\ UNCHANGED <<pendingTasks, slot, paused, crashes>>

\* run-now of the dashboard
RunNow(t) ==
  /\ Change /\ Exists(t)
  /\ row' = [row EXCEPT ![t].status = "active", ![t].next = "past"]
  /\ Rearm(t)
  /\ UNCHANGED <<pendingTasks, slot, paused, crashes>>

\* cancel_task, and delete of the dashboard
DeleteTask(t) ==
  /\ Change /\ Exists(t)
  /\ row' = [row EXCEPT ![t] = Gone]
  /\ UNCHANGED <<pendingTasks, slot, paused, crashes, rearmed, cutOff>>

ComesDue(t) ==
  /\ ~IsOver /\ Exists(t) /\ row[t].next = "later"
  /\ row' = [row EXCEPT ![t].next = "past"]
  /\ UNCHANGED <<pendingTasks, slot, paused, changes, crashes, rearmed, cutOff>>

-----------------------------------------------------------------------------
(* A run: runTask up to its first await, and its end. *)

\* An UPDATE of a row that is gone changes nothing.
Write(t, status, next) ==
  IF Exists(t)
  THEN [row EXCEPT ![t] = [kind |-> row[t].kind, status |-> status, next |-> next]]
  ELSE row

\* Mutant: the row is not claimed.
StartUnclaimed(s) ==
  /\ slot' = [id |-> s.id, kind |-> s.kind, over |-> FALSE]
  /\ rearmed' = rearmed \ {s.id}
  /\ cutOff' = cutOff \ {s.id}
  /\ UNCHANGED row

\* The task is claimed.  If its agent group is missing it is then paused; if its
\* folder name is not valid it is paused instead; either way its run is over.
Start(s) ==
  /\ rearmed' = rearmed \ {s.id}
  /\ \E over \in BOOLEAN : slot' = [id |-> s.id, kind |-> s.kind, over |-> over]
  /\ \/ /\ ~slot'.over
        /\ row' = Write(s.id, row[s.id].status, "none")
        /\ cutOff' = cutOff \ {s.id}
     \/ /\ slot'.over
        /\ row' = Write(s.id, "paused", "none")
        /\ cutOff' = cutOff \cup {s.id}
     \/ /\ slot'.over
        /\ row' = Write(s.id, "paused", row[s.id].next)
        /\ UNCHANGED cutOff

\* Mutant: the slot is freed and the chat's tasks left where they are.
DrainGroupForgets == slot' = Null /\ UNCHANGED <<row, pendingTasks, rearmed, cutOff>>

\* drainGroup: the slot goes to the chat's next task.  The row is not read again.
DrainGroup ==
  IF pendingTasks = <<>>
  THEN slot' = Null /\ UNCHANGED <<row, pendingTasks, rearmed, cutOff>>
  ELSE Start(Head(pendingTasks)) /\ pendingTasks' = Tail(pendingTasks)

\* Mutant: a run that failed returns before updateTaskAfterRun.
RunEndsEarlyOnError ==
  /\ IsTask /\ ~IsOver
  /\ \/ row' = Write(slot.id, row[slot.id].status, "later")
     \/ UNCHANGED row
  /\ cutOff' = cutOff \ {slot.id}
  /\ slot' = [slot EXCEPT !.over = TRUE]
  /\ UNCHANGED <<pendingTasks, paused, changes, crashes, rearmed>>

\* computeNextRun and updateTaskAfterRun, from the task as it was when found due, or
\* neither: a plugin may have stored a schedule that computeNextRun throws on.
\* The slot is released before the event loop turns to anything else.
RunEnds ==
  /\ IsTask /\ ~IsOver
  /\ \/ /\ slot.kind = "once"
        /\ row' = Write(slot.id, "completed", "none")
        /\ cutOff' = cutOff \cup {slot.id}
     \/ /\ slot.kind = "repeat"
        /\ row' = Write(slot.id, row[slot.id].status, "later")
        /\ cutOff' = cutOff \ {slot.id}
     \/ /\ slot.kind = "repeat"
        /\ cutOff' = cutOff \cup {t \in {slot.id} : Exists(t) /\ row[t].next = "none"}
        /\ UNCHANGED row
  /\ slot' = [slot EXCEPT !.over = TRUE]
  /\ UNCHANGED <<pendingTasks, paused, changes, crashes, rearmed>>

ReleaseSlot   == IsOver /\ DrainGroup /\ UNCHANGED <<paused, changes, crashes>>
MessagesEnd   == slot = Messages /\ DrainGroup /\ UNCHANGED <<paused, changes, crashes>>

\* A message run takes the free slot.
MessagesStart ==
  /\ slot = Null /\ ~paused
  /\ slot' = Messages
  /\ UNCHANGED <<row, pendingTasks, paused, changes, crashes, rearmed, cutOff>>

-----------------------------------------------------------------------------
(* The scheduler's poll. *)

\* Mutant: pendingTasks is not searched.
NotSkippedIfQueued(t) == paused \/ ~Running(t)

\* The tasks enqueueTask does not skip.  With the gate closed a running one is
\* queued again.
NotSkipped(t) == ~Queued(t) /\ (paused \/ ~Running(t))

\* One turn of the loop: every due task is handed to enqueueTask, in the order of
\* next_run.  The first takes the slot if it is free and the gate open.
Poll ==
  \E order \in SetToSeqs({t \in Tasks : IsDue(t) /\ NotSkipped(t)}) :
    LET found == [i \in DOMAIN order |-> [id |-> order[i], kind |-> row[order[i]].kind]]
    IN /\ ~IsOver /\ found # <<>>
       /\ IF slot = Null /\ ~paused
          THEN Start(Head(found)) /\ pendingTasks' = pendingTasks \o Tail(found)
          ELSE pendingTasks' = pendingTasks \o found /\ UNCHANGED <<row, slot, rearmed, cutOff>>
       /\ UNCHANGED <<paused, changes, crashes>>

TurnGate ==
  /\ Change
  /\ paused' = ~paused
  /\ UNCHANGED <<row, pendingTasks, slot, crashes, rearmed, cutOff>>

\* The queue and the gate are in memory only.
Crash ==
  /\ crashes < MaxCrashes
  /\ crashes' = crashes + 1
  /\ cutOff' = cutOff \cup {t \in Tasks : Running(t) /\ Exists(t) /\ row[t].next = "none"}
  /\ pendingTasks' = <<>> /\ slot' = Null /\ paused' = FALSE
  /\ UNCHANGED <<row, changes, rearmed>>

-----------------------------------------------------------------------------
Next ==
  \/ \E t \in Tasks :
       \/ \E kind \in Kinds : CreateTask(t, kind) \/ Reschedule(t, kind)
       \/ \E status \in {"active", "paused"} : SetStatus(t, status)
       \/ RunNow(t) \/ DeleteTask(t) \/ ComesDue(t)
  \/ RunEnds \/ ReleaseSlot \/ MessagesStart \/ MessagesEnd \/ Poll \/ TurnGate \/ Crash

\* Time passes, the poll's timer fires, and runs end: a container is closed when
\* idle and killed at its timeout.
Fairness ==
  /\ WF_vars(RunEnds) /\ WF_vars(ReleaseSlot) /\ WF_vars(MessagesEnd) /\ WF_vars(Poll)
  /\ \A t \in Tasks : WF_vars(ComesDue(t))

Spec == Init /\ [][Next]_vars /\ Fairness

-----------------------------------------------------------------------------
\* One due time, one run: while a task runs it is not in the queue as well, unless
\* someone gave it a new next_run meanwhile.  claimTask and the search of
\* pendingTasks see to it, as the gate lets a running task be queued again.
NoSecondRun ==
  \A t \in Tasks : Running(t) /\ ~IsOver /\ t \notin rearmed => ~Queued(t)

\* An active task is not forgotten: it has a next run, or is running, or its last
\* run ended without one, as that of a 'once' task does, or that of any task when
\* its group is missing, its schedule cannot be read or the host stops.
ActiveComesDue ==
  \A t \in Tasks :
    Active(t) /\ row[t].next = "none" => Running(t) \/ t \in cutOff

\* While nobody closes the gate, a due task is claimed by a run, or paused, or deleted, or given
\* another time, whatever else the slot is used for and wherever the host stops.
DueTaskRuns ==
  [](~paused) => \A t \in Tasks : IsDue(t) ~> ~IsDue(t)

\* A run starts only of a task that is there and active: the loop has a "re-check
\* task status in case it was paused/cancelled".
StartsActiveOnly ==
  [][\A t \in Tasks : Running(t)' /\ ~Running(t) => Active(t)]_vars
=============================================================================
