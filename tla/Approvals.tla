----------------------------- MODULE Approvals ------------------------------
(***************************************************************************)
(* Approvals of one agent group: a request becomes a row of                *)
(* pending_approvals and a card in an admin's direct chat; a click, a text *)
(* reply or the expiry sweep decides it; the action's handler applies it.  *)
(*                                                                         *)
(* The requests are install_packages, add_mcp_server, create_skill_plugin  *)
(* (asked by the agent) and the credential requests of the OneCLI gateway, *)
(* which waits for an answer. Every request here asks for something of its *)
(* own: package i, version i of the one MCP server, version i of the one   *)
(* plugin.                                                                 *)
(*                                                                         *)
(* The host is single threaded: an action is what it does between two real *)
(* awaits. requestApproval awaits only settled promises (no channel adapter*)
(* is ever passed for the delivery target) and the image is built by       *)
(* execSync, so both belong to the step that starts them.                  *)
(***************************************************************************)
EXTENDS Roles, FiniteSets, SequencesExt

CONSTANTS
  Users,        \* people who may hold a role and be asked
  Group,        \* the agent group
  Channel,      \* the channel their direct chats are on
  Staff,        \* the tables of roles the host may start with
  Reachable,    \* the tables of direct chats it may start with
  None,         \* no user, no reply
  MaxRequests,  \* bound: rows of pending_approvals
  MaxReplies,   \* bound: text messages the admins write
  MaxCrashes    \* bound: crashes of the host

ASSUME ApprovalsAssumption ==
  /\ MaxRequests \in Nat \ {0}
  /\ MaxReplies \in Nat
  /\ MaxCrashes \in Nat
  /\ None \notin Users
  /\ Group # Global
  /\ \A R \in Staff : R \subseteq
       [user : Users, role : {"owner"}, scope : {Global}]
         \cup [user : Users, role : {"admin"}, scope : {Global, Group}]
  /\ Reachable \subseteq SUBSET (Users \X {Channel})

Ids == 1 .. MaxRequests
SelfMods == {"packages", "server", "plugin"}
Kinds == SelfMods \cup {"credential"}
Decisions == {"approved", "rejected"}

VARIABLES
  roles,     \* user_roles
  dms,       \* user_dms
  row,       \* pending_approvals: kind, status, the picked approver
  card,      \* where the row's card is
  apply,     \* how far the handler of a decided request came, and what it told
  config,    \* packages in container_config
  image,     \* packages in the image its imageTag names
  server,    \* whose command mcpServers holds, 0 if none
  plugin,    \* whose files plugins/<name> holds (0 if none), and if all of them
  waiting,   \* credential requests with a waiter in memory
  allowed,   \* credential requests the gateway was told to let through
  late,      \* rows past their expires_at
  replies,   \* text replies written
  inbox,     \* those of a user's chat after the saved lastAgentTimestamp
  seen,      \* how many of them the lastAgentTimestamp in memory is past
  crashes

rowVars == <<row, card>>
effectVars == <<config, image, server, plugin>>
gateVars == <<waiting, allowed, late>>
chatVars == <<replies, inbox, seen>>
vars == <<roles, dms, rowVars, apply, effectVars, gateVars,
          chatVars, crashes>>

Status(i) == row[i].status

TypeOK ==
  /\ roles \subseteq [user : Users, role : {"owner", "admin"}, scope : {Global, Group}]
  /\ dms \subseteq Users \X {Channel}
  /\ row \in [Ids -> [kind : Kinds \cup {None}, to : Users \cup {None},
                      status : Decisions \cup {"none", "pending", "expired"}]]
  /\ card \in [Ids -> {"plain", "sending", "visible", "ready", "edited"}]
  /\ apply \in [Ids -> {"none", "restarting", "restarted", "installed", "rejected",
                        "buildFailed", "noFiles", "lost"}]
  /\ config \subseteq Ids /\ image \subseteq config
  /\ server \in {0} \cup Ids
  /\ plugin \in [of : {0} \cup Ids, whole : BOOLEAN]
  /\ waiting \subseteq Ids
  /\ allowed \subseteq Ids /\ late \subseteq Ids
  /\ replies \in 0 .. MaxReplies
  /\ inbox \in [Users -> Seq(Decisions)] /\ seen \in [Users -> Nat]
  /\ \A u \in Users : seen[u] <= Len(inbox[u]) /\ Len(inbox[u]) <= replies
  /\ crashes \in 0 .. MaxCrashes

Init ==
  /\ roles \in Staff /\ dms \in Reachable
  /\ row = [i \in Ids |-> [kind |-> None, to |-> None, status |-> "none"]]
  /\ card = [i \in Ids |-> "plain"]
  /\ apply = [i \in Ids |-> "none"]
  /\ config = {} /\ image = {} /\ server = 0
  /\ plugin = [of |-> 0, whole |-> FALSE]
  /\ waiting = {}
  /\ allowed = {} /\ late = {}
  /\ replies = 0
  /\ inbox = [u \in Users |-> << >>]
  /\ seen = [u \in Users |-> 0]
  /\ crashes = 0

(***************************************************************************)
(* Asking                                                                  *)
(***************************************************************************)
Free == {i \in Ids : Status(i) = "none"}
IsNew(i) == i \in Free /\ \A j \in Free : i <= j

Targets == PickApprovalDelivery(roles, dms, Group, <<Channel>>)

\* requestApproval: the row, and the card on its way if somebody can be reached.
Insert(i, kind, to) ==
  /\ row' = [row EXCEPT ![i] = [kind |-> kind, to |-> to, status |-> "pending"]]
  /\ card' = [card EXCEPT ![i] = IF to = None THEN "plain" ELSE "sending"]

\* The agent's request: validated, then asked for, with or without somebody to
\* ask; none of the three passes an expiry.
Ask(i, kind) ==
  /\ IsNew(i)
  /\ \E to \in IF Targets = {} THEN {None} ELSE Targets : Insert(i, kind, to)
  /\ UNCHANGED <<roles, dms, apply, effectVars, gateVars, chatVars, crashes>>

HandleInstallPackagesRequest(i) == Ask(i, "packages")
HandleAddMcpServerRequest(i) == Ask(i, "server")

\* A plugin is refused while something of its name is on disk.
ValidPlugin == plugin.of = 0
HandleCreateSkillPluginRequest(i) == ValidPlugin /\ Ask(i, "plugin")

\* A credential request: denied at once if nobody can be asked (no row), else
\* the row and a waiter with a timer that ends just before the row expires.
RequestCredential(i) ==
  /\ IsNew(i) /\ Targets # {}
  /\ \E to \in Targets : Insert(i, "credential", to)
  /\ waiting' = waiting \cup {i}
  /\ UNCHANGED <<roles, dms, apply, effectVars, allowed, late, chatVars, crashes>>

(***************************************************************************)
(* The card. The adapter shows buttons before it reports the message id;   *)
(* the plain-text fallback reports none, like a card that cannot be sent.  *)
(***************************************************************************)
Deliver(i) ==
  /\ card[i] = "sending"
  /\ \E c \in {"visible", "plain"} : card' = [card EXCEPT ![i] = c]
  /\ UNCHANGED <<roles, dms, row, apply, effectVars,
                 gateVars, chatVars, crashes>>

PersistPlatformMessageId(i) ==
  /\ card[i] = "visible"
  /\ card' = [card EXCEPT ![i] = "ready"]
  /\ UNCHANGED <<roles, dms, row, apply, effectVars,
                 gateVars, chatVars, crashes>>

\* editApprovalCardOnDecision: only a card whose message id is known.
EditCard(i) ==
  card' = [card EXCEPT ![i] = IF card[i] = "ready" THEN "edited" ELSE @]

(***************************************************************************)
(* Deciding and applying                                                   *)
(***************************************************************************)
\* notifyAgent: a message of "system" in the group's first chat.
NotifyAgent(i, what) == apply' = [apply EXCEPT ![i] = what]

\* Mutant: the status is written after the handler has finished.
FlipAfterApply(i, d) ==
  row' = IF d = "approved" /\ row[i].kind \in SelfMods THEN row
         ELSE [row EXCEPT ![i].status = d]

\* The status first, so that a second click sees it; never rolled back.
Flip(i, d) == row' = [row EXCEPT ![i].status = d]

\* Mutant: the waiter is looked up under the gateway's id of the request.
ResolveNobody(i, d) == UNCHANGED <<waiting, allowed>>

\* applyDecision of the OneCLI handler: nothing without a waiter.
ResolveWaiter(i, d) ==
  /\ waiting' = waiting \ {i}
  /\ allowed' = IF i \in waiting /\ d = "approved" THEN allowed \cup {i} ELSE allowed

WithPackages(i) == config \cup {i}

\* Mutant: the packages are configured only by the next approval.
InstallUnmerged(i) ==
  /\ image' = WithPackages(i)
  /\ apply' = [apply EXCEPT ![i] = "restarting"]
  /\ UNCHANGED <<config, server, plugin>>

\* install_packages: the packages stay configured whether or not the image,
\* which is built from all of them, can be built.
InstallPackages(i) ==
  /\ config' = WithPackages(i)
  /\ \/ /\ image' = WithPackages(i)
        /\ apply' = [apply EXCEPT ![i] = "restarting"]
     \/ /\ NotifyAgent(i, "buildFailed")
        /\ UNCHANGED image
  /\ UNCHANGED <<server, plugin>>

AddMcpServer(i) ==
  /\ server' = i
  /\ apply' = [apply EXCEPT ![i] = "restarting"]
  /\ UNCHANGED <<config, image, plugin>>

\* writePluginFiles: an error while the plugin's directory is written leaves
\* what was written; a later one removes the directory, whoever filled it.
WritePlugin(i) ==
  /\ \/ /\ plugin' = [of |-> i, whole |-> TRUE]
        /\ apply' = [apply EXCEPT ![i] = "restarting"]
     \/ /\ plugin' \in {[of |-> i, whole |-> FALSE], [of |-> 0, whole |-> FALSE]}
        /\ NotifyAgent(i, "noFiles")
  /\ UNCHANGED <<config, image, server>>

Apply(i, d) ==
  \/ /\ row[i].kind = "credential"
     /\ ResolveWaiter(i, d)
     /\ EditCard(i)
     /\ UNCHANGED <<apply, effectVars>>
  \/ /\ row[i].kind \in SelfMods /\ d = "rejected"
     /\ NotifyAgent(i, "rejected")
     /\ EditCard(i)
     /\ UNCHANGED <<waiting, allowed, effectVars>>
  \/ /\ row[i].kind \in SelfMods /\ d = "approved"
     /\ \/ row[i].kind = "packages" /\ InstallPackages(i)
        \/ row[i].kind = "server" /\ AddMcpServer(i)
        \/ row[i].kind = "plugin" /\ WritePlugin(i)
     /\ IF apply'[i] = "restarting" THEN UNCHANGED card ELSE EditCard(i)
     /\ UNCHANGED <<waiting, allowed>>

\* Mutant: a click decides whatever the row says.
HandleAlways(i, u, d) ==
  /\ Status(i) # "none"
  /\ IsAuthorizedClicker(roles, u, row[i].to, Group)
  /\ Flip(i, d) /\ Apply(i, d)

\* handleApprovalClick: only a pending row, only an authorized clicker.
HandleApprovalClick(i, u, d) ==
  /\ Status(i) = "pending"
  /\ IsAuthorizedClicker(roles, u, row[i].to, Group)
  /\ Flip(i, d) /\ Apply(i, d)

\* A button of the card, as long as it is there.
RouteApprovalClick(i, u, d) ==
  /\ card[i] \in {"visible", "ready"}
  /\ HandleApprovalClick(i, u, d)
  /\ UNCHANGED <<roles, dms, late, chatVars, crashes>>

\* restartGroup returns (an error of the stop is only logged): the server or
\* plugin is announced, the verify message for packages is due in 5 s.
Restarted(i) ==
  /\ apply[i] = "restarting"
  /\ IF row[i].kind = "packages"
     THEN apply' = [apply EXCEPT ![i] = "restarted"] ELSE NotifyAgent(i, "installed")
  /\ EditCard(i)
  /\ UNCHANGED <<roles, dms, row, effectVars, gateVars, chatVars, crashes>>

NotifyAfter(i) ==
  /\ apply[i] = "restarted"
  /\ NotifyAgent(i, "installed")
  /\ UNCHANGED <<roles, dms, rowVars, effectVars, gateVars, chatVars, crashes>>

(***************************************************************************)
(* Time: the timer of a waiter, the sweep                                  *)
(***************************************************************************)
Expires(i) ==
  /\ row[i].kind = "credential" /\ i \notin late
  /\ late' = late \cup {i}
  /\ UNCHANGED <<roles, dms, rowVars, apply, effectVars, waiting, allowed, chatVars,
                 crashes>>

\* Mutant: the timer leaves a request alone that the sweep has expired.
TimerOfPending(i) ==
  /\ i \in waiting /\ Status(i) = "pending"
  /\ waiting' = waiting \ {i}
  /\ UNCHANGED <<roles, dms, rowVars, apply, effectVars, allowed, late, chatVars,
                 crashes>>

\* The waiter's timer, a second before expires_at or one second after the
\* request: it is answered deny, the row is left to the sweep.
Timer(i) ==
  /\ i \in waiting
  /\ waiting' = waiting \ {i}
  /\ UNCHANGED <<roles, dms, rowVars, apply, effectVars, allowed, late, chatVars,
                 crashes>>

\* Mutant: the sweep forgets to look at the status.
ExpirableAtAll == {i \in Ids : Status(i) # "none" /\ i \in late}

Expirable == {i \in Ids : Status(i) = "pending" /\ i \in late}

\* sweepExpiredApprovals: a status update and nothing else.
Sweep ==
  /\ Expirable # {}
  /\ row' = [i \in Ids |-> IF i \in Expirable THEN [row[i] EXCEPT !.status = "expired"]
                           ELSE row[i]]
  /\ UNCHANGED <<roles, dms, card, apply, effectVars, gateVars,
                 chatVars, crashes>>

(***************************************************************************)
(* Text replies in a user's direct chat                                    *)
(***************************************************************************)
Reply(u, d) ==
  /\ replies < MaxReplies
  /\ <<u, Channel>> \in dms
  /\ replies' = replies + 1
  /\ inbox' = [inbox EXCEPT ![u] = Append(@, d)]
  /\ UNCHANGED <<roles, dms, rowVars, apply, effectVars, gateVars, seen, crashes>>

\* The newest pending row of the chat, whichever card the reply answers.
PendingIn(u) == {i \in Ids : Status(i) = "pending" /\ row[i].to = u}
MostRecent(u, i) == i \in PendingIn(u) /\ \A j \in PendingIn(u) : j <= i

\* A batch of one reply, no container to pipe it to, a pending row: the reply
\* decides. The position moves in memory and is not saved.
TryHandleApprovalTextReply(u, i) ==
  /\ Len(inbox[u]) = seen[u] + 1
  /\ MostRecent(u, i)
  /\ HandleApprovalClick(i, u, Last(inbox[u]))
  /\ seen' = [seen EXCEPT ![u] = @ + 1]
  /\ UNCHANGED <<roles, dms, late, replies, inbox, crashes>>

\* saveState writes every chat's position: of a chat's replies only those
\* after it are left.
SavedBut(u, n) ==
  /\ inbox' = [v \in Users |-> IF v = u THEN SubSeq(inbox[v], n + 1, Len(inbox[v]))
                               ELSE SubSeq(inbox[v], seen[v] + 1, Len(inbox[v]))]
  /\ seen' = [v \in Users |-> 0]

\* Otherwise the batch goes to the agent, as a prompt or piped to its running
\* container, and the positions are saved.
ReachesAgent(u) ==
  /\ Len(inbox[u]) > seen[u]
  /\ SavedBut(u, Len(inbox[u]))
  /\ UNCHANGED <<roles, dms, rowVars, apply, effectVars, gateVars, replies, crashes>>

\* So they are when messages of another chat are handled.
SaveState ==
  /\ \E u \in Users : seen[u] > 0 /\ SavedBut(u, seen[u])
  /\ UNCHANGED <<roles, dms, rowVars, apply, effectVars, gateVars, replies, crashes>>

(***************************************************************************)
(* Roles change, the host crashes                                          *)
(***************************************************************************)
\* /revoke: any admin, any user, the global role of a name.
RevokeCommand(by, u, role) ==
  /\ CheckCommandPermission(roles, by, Group)
  /\ roles' = Revoked(roles, u, role, Global)
  /\ roles' # roles
  /\ UNCHANGED <<dms, rowVars, apply, effectVars, gateVars, chatVars, crashes>>

\* Waiters, timers and handlers are gone; a card on its way arrives as a text
\* or not at all.
Crash ==
  /\ crashes < MaxCrashes
  /\ crashes' = crashes + 1
  /\ waiting' = {}
  /\ apply' = [i \in Ids |-> IF apply[i] \in {"restarting", "restarted"} THEN "lost"
                             ELSE apply[i]]
  /\ card' = [i \in Ids |-> IF card[i] = "sending" THEN "plain" ELSE card[i]]
  /\ seen' = [u \in Users |-> 0]
  /\ UNCHANGED <<roles, dms, row, effectVars, allowed, late, replies, inbox>>

Next ==
  \/ \E i \in Ids :
       \/ HandleInstallPackagesRequest(i)
       \/ HandleAddMcpServerRequest(i) \/ HandleCreateSkillPluginRequest(i)
       \/ RequestCredential(i)
       \/ Deliver(i) \/ PersistPlatformMessageId(i)
       \/ \E u \in Users, d \in Decisions : RouteApprovalClick(i, u, d)
       \/ Restarted(i) \/ NotifyAfter(i)
       \/ Expires(i) \/ Timer(i)
       \/ \E u \in Users : TryHandleApprovalTextReply(u, i)
  \/ Sweep
  \/ \E u \in Users : (\E d \in Decisions : Reply(u, d)) \/ ReachesAgent(u)
  \/ SaveState
  \/ \E by, u \in Users, role \in {"owner", "admin"} : RevokeCommand(by, u, role)
  \/ Crash

\* The setTimeout of a waiter fires.
Fairness == \A i \in Ids : WF_vars(Timer(i))

Spec == Init /\ [][Next]_vars /\ Fairness

(***************************************************************************)
(* Properties                                                              *)
(***************************************************************************)
\* Something was installed, configured, allowed or announced for request i.
Done(i) ==
  i \in config \/ server = i \/ plugin.of = i \/ i \in allowed
    \/ apply[i] \notin {"none", "rejected"}

\* What happened agrees with the row: nothing is installed, configured, allowed
\* or announced for a request that is not approved, and nobody is told
\* "rejected" about an approved one; and packages announced as installed, or about
\* to be, are in the image the next container runs, whatever else was approved
\* or failed to build in between.
EffectsFollowRow ==
  \A i \in Ids :
    /\ Done(i) => Status(i) = "approved"
    /\ apply[i] = "rejected" => Status(i) = "rejected"
    /\ row[i].kind = "packages" /\ apply[i] \in {"restarted", "installed"} => i \in image

\* No decision leaves the gateway waiting: a decided credential request has no
\* waiter, and only one that timed out or was cut off by a crash got no answer
\* of the admin's.
DecisionReachesGateway ==
  \A i \in waiting : Status(i) \in {"pending", "expired"}

\* A waiting gateway request is answered, also when the sweep expires its row
\* before the timer fires (the sweep itself answers nobody).
WaiterAnswered == \A i \in Ids : i \in waiting ~> i \notin waiting

Abstract == INSTANCE Decisions WITH
  Requests <- Ids,
  status <- [i \in Ids |-> Status(i)],
  done <- {i \in Ids : Done(i)}

\* A row leaves "pending" once and for all, and what it asks for is done then or
\* never: clicks, text replies of several admins, the sweep, the gateway's timer
\* and a handler that is still applying cannot decide it again, and a crash has
\* nothing done that was not (the status is flipped before the handler runs).
ImplementsDecisions == Abstract!Spec
=============================================================================
