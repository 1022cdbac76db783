---------------------------- MODULE MCGroupQueue ----------------------------
(* Small instances of GroupQueue for TLC. *)
EXTENDS GroupQueue, TLC

CONSTANTS g1, g2, g3, t1, t2

\* Two groups with a task each; a third, in the larger instance, has none.
MCTaskGroup == [t \in Tasks |-> IF t = t1 THEN g1 ELSE g2]

\* One group has all the tasks.
MCOneTaskGroup == [t \in Tasks |-> g1]

\* Bound of an instance with three groups: the callbacks of a run end with it.
PromptOutputs == late = {}

\* Bound of the instance with every action: nor does a container idle, or get told
\* to close.  No guard but those of these actions asks for it, and a run may end at
\* any stage, so what the queue does with slots and work is all there.
BusyOnly == PromptOutputs /\ closeSentinel = {} /\ \A j \in Groups : ~idleWaiting[j]

\* Every group has a folder of its own.
MCFolderOf == [j \in Groups |-> j]
=============================================================================
