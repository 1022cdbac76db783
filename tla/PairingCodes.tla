---------------------------- MODULE PairingCodes ----------------------------
(***************************************************************************)
(* Pairing codes and the tables a claimed code changes: which chats are    *)
(* wired to which agent group, the scheduled tasks of a group, the owner   *)
(* and the direct chats in which approvals reach him.                      *)
(*                                                                         *)
(* The store is a JSON file that is read, changed and written back. The    *)
(* host does that under a mutex of its own; the command line is another    *)
(* process, which takes no part in it. Every database step is atomic.      *)
(*                                                                         *)
(* One person operates the host: he owns the direct chats, types the codes *)
(* and runs the commands.                                                  *)
(***************************************************************************)
EXTENDS Naturals, Sequences, FiniteSets, SequencesExt

CONSTANTS
  Groups,      \* agent groups that may exist
  Main,        \* the one with the folder of the main group
  Chats,       \* chats
  ChannelOf,   \* the channel of a chat
  Direct,      \* the chats that are the operator's direct chats
  Codes,       \* the codes there are
  Tasks,       \* ids of scheduled tasks
  MaxRetained, \* MAX_RETAINED_RECORDS
  MaxIssued    \* bound: codes issued

ASSUME PairingAssumption ==
  /\ Main \in Groups
  /\ ChannelOf \in [Chats -> {ChannelOf[c] : c \in Chats}]
  /\ "any" \notin {ChannelOf[c] : c \in Chats} /\ Direct \subseteq Chats
  /\ MaxRetained \in Nat \ {0} /\ MaxIssued \in Nat

Channels == {ChannelOf[c] : c \in Chats}
Processes == {"host", "cli"}
Issues == 1 .. MaxIssued

Intents ==
  [kind : {"main"}, target : {Main}, from : {"none"}]
    \cup [kind : {"group"}, target : Groups, from : {"none"}]
    \cup [kind : {"migrate"}, target : Groups, from : Channels]

\* What an operation on the store is for: the code it issues, none for a claim.
Wanted == [channel : Channels \cup {"any"}, intent : Intents]
Claim == {}

VARIABLES
  store,     \* pairings of pending-codes.json
  snapshot,  \* the operation of a process that has read the store and not yet
             \* written it back, if any: [pairings, for]
  issued,    \* codes issued
  old,       \* history of time: issues past their expires_at
  claims,    \* history: how often an issue was claimed
  overlapped, \* history: issues claimed while the command line had read the store
  groups,    \* agent_groups
  wired,     \* messaging_group_agents: <<chat, group>>
  tasks,     \* scheduled_tasks: [group, chat, active], active or not
  revived,   \* history: tasks set active while their chat was not their group's
  owned,     \* whether there is an owner
  dms,       \* user_dms of the operator: chats, one of a channel
  approvals, \* pending_approvals, decided or not: <<group, channel asked on>>
  asks       \* pending_sender_approvals: [chat, group, via], via the channel
             \* of the approval it refers to

storeVars == <<store, snapshot, issued, old, claims, overlapped>>
taskVars == <<tasks, revived>>
askVars == <<approvals, asks>>
tableVars == <<groups, wired, taskVars, owned, dms, askVars>>
vars == <<storeVars, tableVars>>

Init ==
  /\ store = << >>
  /\ snapshot = [p \in Processes |-> {}]
  /\ issued = 0 /\ old = {}
  /\ claims = [n \in Issues |-> 0] /\ overlapped = {}
  /\ groups = {} /\ wired = {}
  /\ tasks = << >> /\ revived = {}
  /\ owned = FALSE /\ dms = {}
  /\ approvals = {} /\ asks = {}

(***************************************************************************)
(* The store                                                               *)
(***************************************************************************)
ExpireAged(s) ==
  [n \in DOMAIN s |-> IF s[n].status = "pending" /\ s[n].issue \in old
                      THEN [s[n] EXCEPT !.status = "expired"] ELSE s[n]]

\* The newest records, whatever their status.
Sweep(s) ==
  IF Len(s) <= MaxRetained THEN s ELSE SubSeq(s, Len(s) - MaxRetained + 1, Len(s))

\* An operation reads the store; those of one process wait for one another.
ReadStore(p, want) ==
  /\ snapshot[p] = {}
  /\ snapshot' = [snapshot EXCEPT ![p] =
                    {[pairings |-> Sweep(ExpireAged(store)), for |-> want]}]
  /\ UNCHANGED <<store, issued, old, claims, overlapped>>

WriteStore(p, s) ==
  /\ store' = s
  /\ snapshot' = [snapshot EXCEPT ![p] = {}]

Pending(s) == {n \in DOMAIN s : s[n].status = "pending"}

\* createPendingCode: a code no pending record has, of those that were read.
CreatePendingCode(p, code) ==
  /\ issued < MaxIssued
  /\ issued' = issued + 1
  /\ \E o \in snapshot[p] : \E w \in o.for :
       /\ \A n \in Pending(o.pairings) : o.pairings[n].code # code
       /\ WriteStore(p, Append(o.pairings,
            [code |-> code, channel |-> w.channel, intent |-> w.intent,
             issue |-> issued', status |-> "pending"]))
  /\ UNCHANGED <<old, claims, overlapped, tableVars>>

\* PENDING_CODE_TTL_MS passes (0: it never does).
Age(n) ==
  /\ n \notin old /\ \E k \in Pending(store) : store[k].issue = n
  /\ old' = old \cup {n}
  /\ UNCHANGED <<store, snapshot, issued, claims, overlapped, tableVars>>

(***************************************************************************)
(* Who issues codes                                                        *)
(***************************************************************************)
CreateGroup(g) ==
  /\ groups' = groups \cup {g}
  /\ UNCHANGED <<wired, taskVars, owned, dms, askVars>>

Issue(p, channel, kind, target, from) ==
  /\ issued < MaxIssued
  /\ ReadStore(p, {[channel |-> channel,
                    intent |-> [kind |-> kind, target |-> target, from |-> from]]})

\* nanotars pair-main: the main group is created first if it is missing.
PairMain(channel) == CreateGroup(Main) /\ Issue("cli", channel, "main", Main, "none")

\* groups register-code on the command line, /register-group in a chat.
RegisterCode(p, g) == CreateGroup(g) /\ Issue(p, "any", "group", g, "none")

WiredOn(g, channel) == {c \in Chats : <<c, g>> \in wired /\ ChannelOf[c] = channel}

\* groups migrate-code: only off a channel on which the group has a chat.
MigrateCode(g, from, to) ==
  /\ g \in groups /\ from # to /\ WiredOn(g, from) # {}
  /\ Issue("cli", to, "migrate", g, from)
  /\ UNCHANGED tableVars

(***************************************************************************)
(* Claiming a code                                                         *)
(***************************************************************************)
ChannelMatches(r, chat) == r.channel \in {"any", ChannelOf[chat]}

\* Mutant: a consumed record of the code matches as well.
FoundAnyStatus(s, code, chat) ==
  {n \in DOMAIN s : s[n].code = code /\ ChannelMatches(s[n], chat)}

Found(s, code, chat) ==
  {n \in Pending(s) : s[n].code = code /\ ChannelMatches(s[n], chat)}

\* Mutant: a migrated group's tasks stay where they are.
TasksStay(g, sources, chat) == tasks

\* The tasks of the group in the old chats, active or not, for the new one.
MovedTasks(g, sources, chat) ==
  [t \in DOMAIN tasks |-> IF tasks[t].group = g /\ tasks[t].chat \in sources
                          THEN [tasks[t] EXCEPT !.chat = chat] ELSE tasks[t]]

\* A row of asks may not be left without the approval it refers to.
Restricted(rest, gone) == \E a \in rest : <<a.group, a.via>> \in gone

\* applyChannelMigration, one transaction: all of it or, where a sender asked
\* in another channel's chat still waits for the approval, nothing.
ApplyChannelMigration(g, from, chat) ==
  LET sources == WiredOn(g, from)
      rest == {a \in asks : a.chat \notin sources}
  IN IF sources = {} \/ Restricted(rest, {<<g, from>>})
     THEN wired' = wired \cup {<<chat, g>>} /\ UNCHANGED <<taskVars, dms, askVars>>
     ELSE /\ wired' = (wired \cup {<<chat, g>>}) \ (sources \X {g})
          /\ tasks' = MovedTasks(g, sources, chat) /\ UNCHANGED revived
          /\ dms' = dms \ sources
          /\ asks' = rest
          /\ approvals' = approvals \ {<<g, from>>}

\* The first chat paired as main makes its sender the owner.
BootstrapOwner(chat) ==
  IF owned THEN UNCHANGED <<owned, dms>>
  ELSE /\ owned' = TRUE
       /\ dms' = IF chat \in Direct /\ \A d \in dms : ChannelOf[d] # ChannelOf[chat]
                 THEN dms \cup {chat} ELSE dms

\* registerForIntent, and the owner for a chat paired as main. A group that was
\* deleted since is reported; the code is consumed all the same.
RegisterForIntent(i, chat) ==
  \/ i.target \notin groups /\ UNCHANGED <<wired, taskVars, owned, dms, askVars>>
  \/ /\ i.target \in groups
     /\ \/ /\ i.kind = "migrate"
           /\ ApplyChannelMigration(i.target, i.from, chat)
           /\ UNCHANGED owned
        \/ /\ i.kind # "migrate"
           /\ wired' = wired \cup {<<chat, i.target>>}
           /\ IF i.kind = "main" THEN BootstrapOwner(chat) ELSE UNCHANGED <<owned, dms>>
           /\ UNCHANGED <<taskVars, askVars>>

\* consumePendingCode reads the store.
ReadForClaim == ReadStore("host", Claim) /\ UNCHANGED tableVars

\* The code is written as consumed before the chat is registered.
ConsumePendingCode(code, chat) ==
  /\ \E o \in snapshot["host"] : \E n \in Found(o.pairings, code, chat) :
       /\ o.for = Claim
       /\ \A k \in Found(o.pairings, code, chat) : n <= k
       /\ WriteStore("host", [o.pairings EXCEPT ![n].status = "consumed"])
       /\ claims' = [claims EXCEPT ![o.pairings[n].issue] = @ + 1]
       /\ overlapped' = IF snapshot["cli"] = {} THEN overlapped
                        ELSE overlapped \cup {o.pairings[n].issue}
       /\ RegisterForIntent(o.pairings[n].intent, chat)
  /\ UNCHANGED <<issued, old, groups>>

\* A wrong code invalidates every pending code the chat could have claimed; if
\* there was none nothing is written.
Miss(code, chat) ==
  /\ \E o \in snapshot["host"] :
       LET s == o.pairings
           Hit == {n \in Pending(s) : ChannelMatches(s[n], chat)}
       IN /\ o.for = Claim /\ Found(s, code, chat) = {}
          /\ WriteStore("host",
               IF Hit = {} THEN store
               ELSE [n \in DOMAIN s |-> IF n \in Hit THEN [s[n] EXCEPT !.status = "invalidated"]
                                        ELSE s[n]])
  /\ UNCHANGED <<issued, old, claims, overlapped, tableVars>>

(***************************************************************************)
(* What else happens to the tables                                         *)
(***************************************************************************)
\* register_group of the main group's agent: group and wiring, without a code.
RegisterGroup(g, chat) ==
  /\ Main \in groups
  /\ groups' = groups \cup {g}
  /\ wired' = wired \cup {<<chat, g>>}
  /\ UNCHANGED <<storeVars, taskVars, owned, dms, askVars>>

Reports(t) == <<tasks[t].chat, tasks[t].group>> \in wired

\* schedule_task of an agent, for a chat that is wired.
ScheduleTask(t, g, chat) ==
  /\ t \in Tasks \ DOMAIN tasks /\ <<chat, g>> \in wired
  /\ tasks' = [u \in DOMAIN tasks \cup {t} |->
                 IF u = t THEN [group |-> g, chat |-> chat, active |-> TRUE] ELSE tasks[u]]
  /\ UNCHANGED <<storeVars, groups, wired, revived, owned, dms, askVars>>

\* pause_task and resume_task of an agent, pause, resume and run-now of the
\* dashboard, tasks cancel on the command line, the end of a task that runs once:
\* nobody looks at the status the row has, or at the wiring.
SetTaskStatus(t, active) ==
  /\ t \in DOMAIN tasks /\ tasks[t].active # active
  /\ tasks' = [tasks EXCEPT ![t].active = active]
  /\ revived' = IF active /\ ~ Reports(t) THEN revived \cup {t} ELSE revived \ {t}
  /\ UNCHANGED <<storeVars, groups, wired, owned, dms, askVars>>

KeepTasks(K) == tasks' = [t \in K |-> tasks[t]] /\ revived' = revived \cap K

\* cancel_task of an agent, delete of the dashboard.
DeleteTask(t) ==
  /\ t \in DOMAIN tasks
  /\ KeepTasks(DOMAIN tasks \ {t})
  /\ UNCHANGED <<storeVars, groups, wired, owned, dms, askVars>>

\* A stranger writes in a wired chat and the owner is asked, on the chat's
\* channel if he has a direct chat there.
Ask(g, chat) ==
  /\ <<chat, g>> \in wired /\ owned
  /\ \E d \in dms :
       /\ ChannelOf[d] = ChannelOf[chat]
            \/ \A e \in dms : ChannelOf[e] # ChannelOf[chat]
       /\ approvals' = approvals \cup {<<g, ChannelOf[d]>>}
       /\ asks' = asks \cup {[chat |-> chat, group |-> g, via |-> ChannelOf[d]]}
  /\ \A a \in asks : a.chat # chat
  /\ UNCHANGED <<storeVars, groups, wired, taskVars, owned, dms>>

\* The ask is over, the approval's row stays.
Answered(a) ==
  /\ a \in asks /\ asks' = asks \ {a}
  /\ UNCHANGED <<storeVars, groups, wired, taskVars, owned, dms, approvals>>

\* groups delete, one transaction: approvals go before the asks that refer to
\* them, chats without the direct chats that refer to them.
DeleteBlocked(g) ==
  \/ Restricted(asks, {<<g, ch>> : ch \in Channels})
  \/ \E c \in dms : <<c, g>> \in wired /\ \A h \in groups \ {g} : <<c, h>> \notin wired

\* Mutant: the tasks of the deleted group stay.
DeleteButTasks(g) ==
  /\ g \in groups /\ ~ DeleteBlocked(g)
  /\ groups' = groups \ {g}
  /\ wired' = {w \in wired : w[2] # g}
  /\ approvals' = {a \in approvals : a[1] # g}
  /\ UNCHANGED <<storeVars, taskVars, owned, dms, asks>>

DeleteGroup(g) ==
  /\ g \in groups /\ ~ DeleteBlocked(g)
  /\ groups' = groups \ {g}
  /\ wired' = {w \in wired : w[2] # g}
  /\ KeepTasks({t \in DOMAIN tasks : tasks[t].group # g})
  /\ approvals' = {a \in approvals : a[1] # g}
  /\ UNCHANGED <<storeVars, owned, dms, asks>>

\* Mutant: the tasks are left as they are.
TasksLeftActive(channel) == tasks

CompletedTasks(channel) ==
  [t \in DOMAIN tasks |->
     [tasks[t] EXCEPT !.active = @ /\ ChannelOf[tasks[t].chat] # channel]]

\* channels remove: every chat of the channel, for every group. The rows of its
\* tasks are completed, not deleted.
ApplyChannelRemoval(channel) ==
  LET rest == {a \in asks : ChannelOf[a.chat] # channel}
      gone == {a \in approvals : a[2] = channel}
  IN /\ ~ Restricted(rest, gone)
     /\ wired' = {w \in wired : ChannelOf[w[1]] # channel}
     /\ tasks' = CompletedTasks(channel)
     /\ dms' = {d \in dms : ChannelOf[d] # channel}
     /\ asks' = rest
     /\ approvals' = approvals \ gone
     /\ wired' # wired
  /\ UNCHANGED <<storeVars, groups, owned, revived>>

Next ==
  \/ \E ch \in Channels : PairMain(ch)
  \/ \E p \in Processes, g \in Groups : RegisterCode(p, g)
  \/ \E g \in Groups, from, to \in Channels : MigrateCode(g, from, to)
  \/ ReadForClaim
  \/ \E code \in Codes :
       \/ \E p \in Processes : CreatePendingCode(p, code)
       \/ \E c \in Chats : ConsumePendingCode(code, c) \/ Miss(code, c)
  \/ \E n \in Issues : Age(n)
  \/ \E t \in Tasks :
       \/ \E g \in Groups, c \in Chats : ScheduleTask(t, g, c)
       \/ \E active \in BOOLEAN : SetTaskStatus(t, active)
       \/ DeleteTask(t)
  \/ \E g \in Groups : DeleteGroup(g) \/ \E c \in Chats : RegisterGroup(g, c) \/ Ask(g, c)
  \/ \E a \in asks : Answered(a)
  \/ \E ch \in Channels : ApplyChannelRemoval(ch)

Spec == Init /\ [][Next]_vars

(***************************************************************************)
(* Properties                                                              *)
(***************************************************************************)
TypeOK ==
  /\ store \in Seq([code : Codes, channel : Channels \cup {"any"}, intent : Intents,
                    issue : Issues, status : {"pending", "consumed", "invalidated", "expired"}])
  /\ DOMAIN snapshot = Processes /\ issued \in 0 .. MaxIssued
  /\ old \subseteq Issues /\ claims \in [Issues -> Nat] /\ overlapped \subseteq Issues
  /\ groups \subseteq Groups
  /\ wired \subseteq Chats \X groups
  /\ DOMAIN tasks \subseteq Tasks /\ revived \subseteq DOMAIN tasks
  /\ \A t \in DOMAIN tasks : tasks[t] \in [group : groups, chat : Chats, active : BOOLEAN]
  /\ owned \in BOOLEAN /\ dms \subseteq Direct
  /\ approvals \subseteq groups \X Channels
  /\ asks \subseteq [chat : Chats, group : groups, via : Channels]

\* A code is good for one chat (pending-codes.ts:249-316): an issue is claimed at
\* most once, whatever codes were issued again, guessed, swept, expired or written
\* over. The one exception: the claim fell between the reading and the writing
\* of the store by the command line.
ClaimedOnce == \A n \in Issues : claims[n] <= 1 \/ n \in overlapped

\* A task that may run reports to a chat of its group, also after the group moved
\* to another channel, failed to, or lost a channel (channel-migration.ts:166-176,
\* inventory.ts:933-937). The one exception: it was made active again when it no
\* longer did.
TasksReportToTheirGroup ==
  \A t \in DOMAIN tasks \ revived : tasks[t].active => Reports(t)
=============================================================================
