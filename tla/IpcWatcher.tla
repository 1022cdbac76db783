------------------------------ MODULE IpcWatcher ------------------------------
(***************************************************************************)
(* The requests agents make of the host. A container writes one file per   *)
(* request into its group's directory "messages" or "tasks"; the host goes *)
(* over all directories, handles each file and unlinks it afterwards. A    *)
(* pass awaits every read and every delivery, so agents, the operator and  *)
(* a kill of the host come between any two of its steps.                   *)
(*                                                                         *)
(* File names start with the millisecond of the writing; the rest is       *)
(* random. A directory is read in the order of the names.                  *)
(***************************************************************************)
EXTENDS Naturals, Sequences, FiniteSets, SequencesExt

CONSTANTS
  Groups,    \* agent groups that may exist, named by their folder
  Main,      \* the main group, there from the start
  Chats,     \* chats
  Home,      \* the one the main group is paired with
  Nobody,    \* no group
  MaxFiles,  \* bound: requests written
  MaxTicks,  \* bound: milliseconds in which requests are written
  MaxMoves,  \* bound: changes of a chat's wiring by the operator
  MaxKills   \* bound: crashes of the host

ASSUME IpcAssumption ==
  /\ Main \in Groups /\ Nobody \notin Groups /\ Home \in Chats
  /\ {MaxFiles, MaxTicks, MaxMoves, MaxKills} \subseteq Nat /\ MaxTicks > 0

Dirs == {"messages", "tasks"}
Statuses == {"active", "paused", "deleted"}

MessageKinds == {"send", "bad"}

\* "send" stands for a message, a file or a reaction, "request" for the three
\* requests that ask an admin for approval.
TaskKinds ==
  {"schedule", "pause", "resume", "update", "cancel", "refresh", "register",
   "stop", "continue", "request", "create", "ask", "bad"}

\* arg: the chat of a send, schedule or register, the task of a change of a
\* task, 0 for the others.
Files ==
  [kind : MessageKinds \cup TaskKinds, arg : Chats \cup Nat,
   tick : 1 .. MaxTicks, suffix : {0, 1}]

VARIABLES
  agents,    \* agent_groups
  wired,     \* the group that answers in a chat (of several the first)
  tasks,     \* scheduled_tasks: [group, status], in the order of creation
  paused,    \* pausedGate
  inbox,     \* the request files of a group
  now,       \* the current millisecond
  written,   \* requests written
  phase,     \* of the watcher: off, idle, pass, file, waiting, handled
  map,       \* registeredGroups as read at the start of the pass
  todo,      \* directories of the pass not yet read
  place,     \* the directory being gone over: <<group, dir>>
  listing,   \* its files not yet done with
  moved,     \* history: chats whose wiring changed since the pass began
  last,      \* history: tick of the newest file of a directory handled
  moves, kills

tableVars == <<agents, wired, tasks, paused>>
agentVars == <<inbox, now, written>>
passVars == <<phase, map, todo, place, listing>>
historyVars == <<moved, last, moves, kills>>
vars == <<tableVars, agentVars, passVars, historyVars>>

Places == Groups \X Dirs
NoMap == [c \in Chats |-> Nobody]

Init ==
  /\ agents = {Main}
  /\ wired = [c \in Chats |-> IF c = Home THEN Main ELSE Nobody]
  /\ tasks = << >> /\ paused = FALSE
  /\ inbox = [p \in Places |-> {}] /\ now = 1 /\ written = 0
  /\ phase = "off" /\ map = NoMap /\ todo = {}
  /\ place = <<Main, "messages">> /\ listing = << >>
  /\ moved = {} /\ last = [p \in Places |-> 0] /\ moves = 0 /\ kills = 0

(***************************************************************************)
(* The container: tools of ipc-mcp-stdio                                   *)
(***************************************************************************)
WriteIpcFile(g, dir, kind, arg) ==
  /\ written < MaxFiles
  /\ \E s \in {0, 1} :
       LET f == [kind |-> kind, arg |-> arg, tick |-> now, suffix |-> s]
       IN /\ \A o \in inbox[<<g, dir>>] : <<o.tick, o.suffix>> # <<now, s>>
          /\ inbox' = [inbox EXCEPT ![<<g, dir>>] = @ \cup {f}]
  /\ written' = written + 1
  /\ UNCHANGED <<tableVars, now, passVars, historyVars>>

\* An agent runs for a chat wired to its group and names that chat. Only the
\* main group's may name another one, for a task or a registration. A refused
\* call writes nothing.
RunsFor(g) == {c \in Chats : wired[c] = g}

\* send_message, send_file, react
MessageTool(g) ==
  \E c \in RunsFor(g), k \in MessageKinds : WriteIpcFile(g, "messages", k, c)

ScheduleTool(g) ==
  /\ RunsFor(g) # {}
  /\ \E c \in (IF g = Main THEN Chats ELSE RunsFor(g)) : WriteIpcFile(g, "tasks", "schedule", c)

\* pause_task, resume_task, update_task, cancel_task
ChangeTool(g) ==
  /\ RunsFor(g) # {}
  /\ \E t \in DOMAIN tasks, k \in {"pause", "resume", "update", "cancel"} :
       WriteIpcFile(g, "tasks", k, t)

RegisterTool(g) ==
  /\ g = Main /\ RunsFor(g) # {}
  /\ \E c \in Chats : WriteIpcFile(g, "tasks", "register", c)

\* The tools that name no chat and no task. create_agent is there for an admin
\* only; what the host does with it is decided by the directory again.
OtherTool(g) ==
  /\ RunsFor(g) # {}
  /\ \E k \in {"refresh", "stop", "continue", "request", "create", "ask", "bad"} :
       WriteIpcFile(g, "tasks", k, 0)

Tick ==
  /\ now < MaxTicks /\ now' = now + 1
  /\ UNCHANGED <<tableVars, inbox, written, passVars, historyVars>>

(***************************************************************************)
(* A pass of the watcher                                                   *)
(***************************************************************************)
\* Mutant: the pass knows the main group's chat only.
StartPassOldMap ==
  /\ phase = "idle" /\ phase' = "pass"
  /\ map' = [NoMap EXCEPT ![Home] = Main] /\ moved' = {}
  /\ todo' = {p \in Places : p[1] \in agents}
  /\ UNCHANGED <<tableVars, agentVars, place, listing, last, moves, kills>>

\* processIpcFiles: the directories there are and who answers in which chat.
StartPass ==
  /\ phase = "idle" /\ phase' = "pass"
  /\ map' = wired /\ moved' = {}
  /\ todo' = {p \in Places : p[1] \in agents}
  /\ UNCHANGED <<tableVars, agentVars, place, listing, last, moves, kills>>

ByName(f, o) == f.tick < o.tick \/ (f.tick = o.tick /\ f.suffix < o.suffix)

InNameOrder(S) ==
  CHOOSE s \in SetToSeqs(S) : \A i, j \in DOMAIN s : i < j => ByName(s[i], s[j])

\* Group by group, messages before tasks.
NextPlaces ==
  LET begun == {p \in todo : p[2] = "tasks" /\ <<p[1], "messages">> \notin todo}
  IN IF begun # {} THEN begun ELSE {p \in todo : p[2] = "messages"}

ListIpcJsonFiles ==
  /\ phase = "pass" /\ phase' = "file"
  /\ \E p \in NextPlaces :
       /\ place' = p /\ todo' = todo \ {p}
       /\ listing' = InNameOrder(inbox[p])
  /\ UNCHANGED <<tableVars, agentVars, map, historyVars>>

NextDirectory ==
  /\ phase = "file" /\ listing = << >> /\ todo # {}
  /\ phase' = "pass"
  /\ UNCHANGED <<tableVars, agentVars, map, todo, place, listing, historyVars>>

EndPass ==
  /\ phase = "file" /\ listing = << >> /\ todo = {}
  /\ phase' = "idle" /\ map' = NoMap /\ moved' = {}
  /\ place' = <<Main, "messages">>
  /\ UNCHANGED <<tableVars, agentVars, todo, listing, last, moves, kills>>

F == Head(listing)
G == place[1]
IsMain == G = Main

\* The file at hand is one of these kinds.
Handling(kinds) == phase = "file" /\ listing # << >> /\ F.kind \in kinds

\* Its handler does what it does, or refuses the request: both count as handled.
Handled ==
  /\ phase' = "handled"
  /\ last' = [last EXCEPT ![place] = F.tick]
  /\ UNCHANGED <<agentVars, map, todo, place, listing, moved, moves, kills>>

\* It waits for a channel or for an approval to be stored.
Waits ==
  /\ phase' = "waiting" /\ last' = [last EXCEPT ![place] = F.tick]
  /\ UNCHANGED <<tableVars, agentVars, map, todo, place, listing, moved, moves, kills>>

Gone ==
  /\ inbox' = [inbox EXCEPT ![place] = @ \ {F}]
  /\ listing' = Tail(listing) /\ phase' = "file"

\* Mutant: a file whose handler failed stays for the next pass.
LeftInPlace == inbox' = inbox /\ listing' = Tail(listing) /\ phase' = "file"

\* Moved to the directory of errors, where nothing reads it.
QuarantineFile == Gone

Unlink ==
  /\ phase = "handled" /\ Gone
  /\ UNCHANGED <<tableVars, now, written, map, todo, place, historyVars>>

Failed ==
  /\ QuarantineFile
  /\ UNCHANGED <<tableVars, now, written, map, todo, place, historyVars>>

\* Mutant: an unreadable file is passed over.
PassedOver ==
  /\ Handling({"bad"}) /\ LeftInPlace
  /\ UNCHANGED <<tableVars, now, written, map, todo, place, historyVars>>

\* Not JSON, or of no known type.
Unreadable == Handling({"bad"}) /\ Failed

(***************************************************************************)
(* Messages, files and reactions                                           *)
(***************************************************************************)
IsAuthorizedForJid(c) == IsMain \/ map[c] = G

Deny ==
  /\ Handling({"send"}) /\ ~ IsAuthorizedForJid(F.arg)
  /\ Handled /\ UNCHANGED tableVars

\* The message is given to the channel.
Send == Handling({"send"}) /\ IsAuthorizedForJid(F.arg) /\ Waits

\* A handler that waits for a channel or an approval: it returns, or throws.
Returns ==
  /\ phase = "waiting" /\ phase' = "handled"
  /\ UNCHANGED <<tableVars, agentVars, map, todo, place, listing, historyVars>>

Throws == phase = "waiting" /\ Failed

(***************************************************************************)
(* Tasks: who answers in which chat is read again for each                 *)
(***************************************************************************)
ScheduleTask ==
  /\ Handling({"schedule"})
  /\ LET target == wired[F.arg]
     IN tasks' = IF target # Nobody /\ (IsMain \/ target = G)
                 THEN Append(tasks, [group |-> target, status |-> "active"]) ELSE tasks
  /\ Handled /\ UNCHANGED <<agents, wired, paused>>

\* What a change leaves of a task; a task deleted is not found.
Changed(status) ==
  CASE F.kind = "pause"  -> "paused"
    [] F.kind = "resume" -> "active"
    [] F.kind = "cancel" -> "deleted"
    [] F.kind = "update" -> status

AuthorizedTaskAction ==
  /\ Handling({"pause", "resume", "update", "cancel"})
  /\ LET t == tasks[F.arg]
     IN tasks' = IF t.status # "deleted" /\ (IsMain \/ t.group = G)
                 THEN [tasks EXCEPT ![F.arg].status = Changed(t.status)] ELSE tasks
  /\ Handled /\ UNCHANGED <<agents, wired, paused>>

\* Mutant: the wiring is written without the group.
WiringOnly ==
  /\ Handling({"register"})
  /\ \E g \in Groups : wired' = [wired EXCEPT ![F.arg] = g]
  /\ moved' = moved \cup {F.arg}
  /\ phase' = "handled" /\ last' = [last EXCEPT ![place] = F.tick]
  /\ UNCHANGED <<agents, tasks, paused, agentVars, map, todo, place, listing, moves, kills>>

\* registerGroup: the wiring is added behind one the chat has; without a channel
\* for the chat it throws.
RegisterGroup ==
  /\ Handling({"register"})
  /\ \/ Failed
     \/ /\ \E g \in Groups :
             /\ agents' = agents \cup {g}
             /\ wired' = IF wired[F.arg] = Nobody THEN [wired EXCEPT ![F.arg] = g] ELSE wired
        /\ moved' = IF wired' = wired THEN moved ELSE moved \cup {F.arg}
        /\ phase' = "handled" /\ last' = [last EXCEPT ![place] = F.tick]
        /\ UNCHANGED <<tasks, paused, agentVars, map, todo, place, listing, moves, kills>>

\* handleEmergencyStop, handleResumeProcessing
Lifecycle ==
  /\ Handling({"stop", "continue"})
  /\ paused' = IF IsMain THEN F.kind = "stop" ELSE paused
  /\ Handled /\ UNCHANGED <<agents, wired, tasks>>

\* handleCreateAgent: a folder that is free; what fails after the row is
\* written is only reported.
CreateAgent ==
  /\ Handling({"create"})
  /\ agents' \in IF IsMain /\ agents # Groups THEN {agents \cup {g} : g \in Groups \ agents}
                 ELSE {agents}
  /\ Handled /\ UNCHANGED <<wired, tasks, paused>>

\* createPendingQuestion: one row for an id, which nothing reads yet.
AskQuestion == Handling({"ask"}) /\ Handled /\ UNCHANGED tableVars

\* refresh_groups: the channels read their groups again.
RefreshGroups ==
  /\ Handling({"refresh"})
  /\ \/ IsMain /\ Waits
     \/ ~ IsMain /\ Handled /\ UNCHANGED tableVars

\* install_packages, add_mcp_server, create_skill_plugin: an admin is asked.
RequestApproval == Handling({"request"}) /\ Waits

(***************************************************************************)
(* The operator, and a host that is killed                                 *)
(***************************************************************************)
Move(c, g) ==
  /\ moves < MaxMoves /\ moves' = moves + 1
  /\ g \in agents \cup {Nobody} /\ wired[c] # g
  /\ wired' = [wired EXCEPT ![c] = g] /\ moved' = moved \cup {c}
  /\ UNCHANGED <<agents, tasks, paused, agentVars, passVars, last, kills>>

Crash ==
  /\ kills < MaxKills /\ kills' = kills + 1
  /\ phase # "off" /\ phase' = "off"
  /\ paused' = FALSE /\ todo' = {} /\ listing' = << >>
  /\ map' = NoMap /\ moved' = {} /\ place' = <<Main, "messages">>
  /\ UNCHANGED <<agents, wired, tasks, agentVars, last, moves>>

StartIpcWatcher ==
  /\ phase = "off" /\ phase' = "idle"
  /\ UNCHANGED <<tableVars, agentVars, map, todo, place, listing, historyVars>>

Watcher ==
  \/ StartIpcWatcher \/ StartPass \/ ListIpcJsonFiles \/ NextDirectory \/ EndPass
  \/ Unlink \/ Unreadable \/ Deny \/ Send \/ Returns \/ Throws
  \/ ScheduleTask \/ AuthorizedTaskAction \/ RegisterGroup \/ Lifecycle
  \/ CreateAgent \/ AskQuestion \/ RefreshGroups \/ RequestApproval

Next ==
  \/ Watcher \/ Tick \/ Crash
  \/ \E g \in Groups :
       MessageTool(g) \/ ScheduleTool(g) \/ ChangeTool(g) \/ RegisterTool(g) \/ OtherTool(g)
  \/ \E c \in Chats, g \in Groups \cup {Nobody} : Move(c, g)

\* The host is started again after a crash, and what it waits for settles.
Spec == Init /\ [][Next]_vars /\ WF_vars(Watcher)

(***************************************************************************)
(* Properties                                                              *)
(***************************************************************************)
TypeOK ==
  /\ agents \subseteq Groups /\ Main \in agents
  /\ wired \in [Chats -> agents \cup {Nobody}] /\ map \in [Chats -> agents \cup {Nobody}]
  /\ tasks \in Seq([group : agents, status : Statuses])
  /\ paused \in BOOLEAN
  /\ DOMAIN inbox = Places /\ \A p \in Places : inbox[p] \subseteq Files
  /\ now \in 1 .. MaxTicks /\ written \in 0 .. MaxFiles
  /\ phase \in {"off", "idle", "pass", "file", "waiting", "handled"}
  /\ todo \subseteq Places /\ place \in Places
  /\ phase \in {"waiting", "handled"} => listing # << >>
  /\ moved \subseteq Chats /\ last \in [Places -> 0 .. MaxTicks]

\* The requests of one directory are acted upon in the order in which they were
\* written, at least those of different milliseconds: also when one fails, is
\* handled again after a crash, or comes while the directory is gone over.
InOrder == [][\A p \in Places : last'[p] >= last[p]]_vars

\* A message of a group other than the main one is delivered exactly when the
\* chat is the group's. The one exception is a chat whose wiring changed since
\* the pass began: messages are judged by the wiring of that moment.
OwnMessagesSent ==
  [][(Deny \/ Send) /\ ~ IsMain /\ F.arg \notin moved
       => (phase' = "waiting" <=> wired[F.arg] = G)]_vars

\* Every request file is handled or put aside at some time, whatever else is
\* in the directories and whenever the host was killed: no more than MaxFiles
\* are written, so the directories are empty in the end.
Settles == []<>(\A p \in Places : inbox[p] = {})
=============================================================================
