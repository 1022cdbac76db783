--------------------------- MODULE ContainerSlots ---------------------------
(***************************************************************************)
(* What the group queue promises, without waiting groups, retries, timers  *)
(* or drains: a group asks for its messages to be checked and for tasks to *)
(* be run; what it asked for is run one at a time, its tasks in the order  *)
(* asked and before a check that is owed, in at most MaxConcurrent runs.   *)
(* While the queue is stopped nothing is asked for and nothing begins; it  *)
(* may then forget that a group has tasks, and what is asked for after the *)
(* stop may begin before them.                                             *)
(***************************************************************************)
EXTENDS Integers, Sequences, FiniteSets

CONSTANTS Groups, Tasks, TaskGroup, Runs, MaxConcurrent, Null

VARIABLES
  slot,      \* the runs in flight: what each runs, a task or (Null) a check, for whom
  tasks,     \* the tasks each group asked for and that have not begun, oldest first
  owed,      \* the groups whose messages are still to be checked
  stopped,   \* the queue is stopped
  forgotten  \* the groups whose tasks a stop has left without a turn

Running(t) == \E r \in DOMAIN slot : slot[r].task = t
Asked(t)   == \E i \in DOMAIN tasks[TaskGroup[t]] : tasks[TaskGroup[t]][i] = t

Init ==
  /\ slot = [r \in {} |-> Null]
  /\ tasks = [j \in Groups |-> <<>>]
  /\ owed = {}
  /\ stopped = FALSE
  /\ forgotten = {}

\* Whatever else happens, no group is forgotten.
NoneForgotten == forgotten' \subseteq forgotten /\ UNCHANGED stopped

AskCheck(j) ==
  /\ ~stopped
  /\ owed' = owed \cup {j}
  /\ NoneForgotten /\ UNCHANGED <<slot, tasks>>

\* A task is asked for once: not while it runs, nor while it waits.
AskTask(t) ==
  /\ ~stopped
  /\ ~Asked(t) /\ ~Running(t)
  /\ tasks' = [tasks EXCEPT ![TaskGroup[t]] = Append(@, t)]
  /\ NoneForgotten /\ UNCHANGED <<slot, owed>>

Begin(j, t) ==
  /\ ~stopped
  /\ \A r \in DOMAIN slot : slot[r].group # j
  /\ Cardinality(DOMAIN slot) < MaxConcurrent
  /\ \E r \in Runs \ DOMAIN slot :
       slot' = [i \in DOMAIN slot \cup {r} |->
                  IF i = r THEN [group |-> j, task |-> t] ELSE slot[i]]
  /\ NoneForgotten

OvertakesNothing(j) == tasks[j] = <<>> \/ j \in forgotten

\* A check, owed or asked for now, does not overtake a task.
BeginCheck(j) ==
  /\ OvertakesNothing(j)
  /\ Begin(j, Null)
  /\ owed' = owed \ {j}
  /\ UNCHANGED tasks

BeginOldest(j, t) ==
  /\ tasks[j] # <<>> /\ t = Head(tasks[j])
  /\ Begin(j, t)
  /\ tasks' = [tasks EXCEPT ![j] = Tail(@)]
  /\ UNCHANGED owed

\* A task asked for now begins at once only if none waits before it.
BeginAtOnce(t) ==
  /\ OvertakesNothing(TaskGroup[t])
  /\ Begin(TaskGroup[t], t)
  /\ UNCHANGED <<tasks, owed>>

Finish(r) ==
  /\ r \in DOMAIN slot
  /\ slot' = [i \in DOMAIN slot \ {r} |-> slot[i]]
  /\ NoneForgotten /\ UNCHANGED <<tasks, owed>>

Stop   == stopped' = TRUE  /\ UNCHANGED <<slot, tasks, owed, forgotten>>
Resume == stopped' = FALSE /\ UNCHANGED <<slot, tasks, owed, forgotten>>

Forget(j) ==
  /\ stopped
  /\ forgotten' = forgotten \cup {j}
  /\ UNCHANGED <<slot, tasks, owed, stopped>>

Next ==
  \/ \E j \in Groups : AskCheck(j) \/ BeginCheck(j) \/ Forget(j)
  \/ \E j \in Groups, t \in Tasks : BeginOldest(j, t)
  \/ \E t \in Tasks : AskTask(t) \/ BeginAtOnce(t)
  \/ \E r \in Runs : Finish(r)
  \/ Stop \/ Resume

Spec == Init /\ [][Next]_<<slot, tasks, owed, stopped, forgotten>>
=============================================================================
