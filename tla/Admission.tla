----------------------------- MODULE Admission ------------------------------
(***************************************************************************)
(* Who is let into a chat wired with sender_scope = 'known': the gate of   *)
(* the message loop and of processGroupMessages, the requests it opens for *)
(* a sender it does not know, the admin's decision and the replay of the   *)
(* message after it.                                                       *)
(*                                                                         *)
(* The chat's own cursors are those of module MessageCursor, without the   *)
(* failures of a run. A message is its sender; position n of the log is    *)
(* the n-th row of messages of the chat.                                   *)
(***************************************************************************)
EXTENDS Roles, FiniteSets, SequencesExt

CONSTANTS
  Admin,       \* the owner, who is asked
  Member,      \* a member of the group from the beginning
  Strangers,   \* senders who are neither
  Group,       \* the agent group
  Channel,     \* the channel of the chat and of the admin's direct chat
  MaxMessages, \* bound: messages in the chat when another is written
  MaxRows,     \* bound: rows of pending_approvals
  MaxCrashes   \* bound: crashes of the host

ASSUME AdmissionAssumption ==
  /\ MaxMessages \in Nat /\ MaxRows \in Nat /\ MaxCrashes \in Nat
  /\ Admin # Member /\ {Admin, Member} \cap Strangers = {}
  /\ Group # Global

Senders == {Member} \cup Strangers
Users == Senders \cup {Admin}
Ids == 1 .. MaxRows
Decisions == {"approved", "rejected"}

VARIABLES
  roles,    \* user_roles
  members,  \* agent_group_members
  dms,      \* user_dms
  row,      \* pending_approvals: sender, status, whether there is a target
  inFlight, \* pending_sender_approvals: the approval of a sender, 0 if none
  card,     \* where the row's card is
  log,      \* messages of the chat
  polled,   \* lastTimestamp
  seen,     \* lastAgentTimestamp of the chat
  due,      \* the chat is queued for processGroupMessages
  starting, \* the host is between its start and the loop's first pass
  crashes

tableVars == <<roles, members, dms>>
askVars == <<row, inFlight, card>>
chatVars == <<log, polled, seen, due>>
vars == <<tableVars, askVars, chatVars, crashes, starting>>

Init ==
  /\ roles = Granted({}, Admin, "owner", Global)
  /\ members = {<<Member, Group>>}
  /\ dms \in {{}, {<<Admin, Channel>>}}
  /\ row = [i \in Ids |-> [from |-> Member, status |-> "none", target |-> FALSE]]
  /\ inFlight = [u \in Senders |-> 0]
  /\ card = [i \in Ids |-> "none"]
  /\ log = << >> /\ polled = 0 /\ seen = 0
  /\ due = FALSE
  /\ crashes = 0 /\ starting = FALSE

(***************************************************************************)
(* Asking                                                                  *)
(***************************************************************************)
Allowed(u) == CanAccessAgentGroup(roles, members, u, Group)

HasTarget == PickApprovalDelivery(roles, dms, Group, <<Channel>>) # {}

Free == {i \in Ids : row[i].status = "none"}
IsNew(i) == i \in Free /\ \A j \in Free : i <= j

\* Mutant: the caller that lost the race sends its card all the same.
AlwaysCard(i, u) == "sending"

\* Only the caller whose row was inserted sends a card.
CardOf(i, u) == IF inFlight'[u] = i THEN "sending" ELSE "none"

\* The second half of requestSenderApproval, after the caller found nothing in
\* flight: the row of pending_approvals; the row in flight (INSERT OR IGNORE)
\* and the card only if there is somebody to ask.
OpenRequest(i, u) ==
  /\ row' = [row EXCEPT ![i] = [from |-> u, status |-> "pending", target |-> HasTarget]]
  /\ inFlight' = [inFlight EXCEPT ![u] = IF HasTarget /\ @ = 0 THEN i ELSE @]
  /\ card' = [card EXCEPT ![i] = IF HasTarget THEN CardOf(i, u) ELSE "none"]

RequestSenderApproval(u) ==
  \/ inFlight[u] # 0 /\ UNCHANGED askVars
  \/ /\ inFlight[u] = 0
     /\ \E i \in Ids : IsNew(i) /\ OpenRequest(i, u)

\* Two callers of one tick: both look before either has written.
RequestTwice(u) ==
  \/ inFlight[u] # 0 /\ UNCHANGED askVars
  \/ /\ inFlight[u] = 0
     /\ \E i, j \in Ids :
          /\ IsNew(i) /\ j \in Free \ {i} /\ \A k \in Free \ {i} : j <= k
          /\ LET Pending == [from |-> u, status |-> "pending", target |-> HasTarget]
             IN row' = [row EXCEPT ![i] = Pending, ![j] = Pending]
          /\ inFlight' = [inFlight EXCEPT ![u] = IF HasTarget THEN i ELSE 0]
          /\ card' = [card EXCEPT ![i] = IF HasTarget THEN CardOf(i, u) ELSE "none",
                                  ![j] = IF HasTarget THEN CardOf(j, u) ELSE "none"]

\* deliverApprovalCard: shown, or lost (an error is only logged).
Deliver(i) ==
  /\ card[i] = "sending"
  /\ \E c \in {"shown", "none"} : card' = [card EXCEPT ![i] = c]
  /\ UNCHANGED <<tableVars, row, inFlight, chatVars, crashes, starting>>

(***************************************************************************)
(* The chat                                                                *)
(***************************************************************************)
Store(u) ==
  /\ Len(log) < MaxMessages
  /\ log' = Append(log, u)
  /\ UNCHANGED <<tableVars, askVars, polled, seen, due, crashes, starting>>

\* Everything after the chat's position reaches the agent.
ToAgent == seen' = Len(log)

\* One pass of the message loop: the sender of the last new message is looked
\* at. Behind the gate the backlog is piped to a running container or the
\* chat is queued.
Poll ==
  /\ ~ starting /\ polled < Len(log)
  /\ polled' = Len(log)
  /\ IF Allowed(Last(log))
     THEN /\ \/ ToAgent /\ UNCHANGED due
             \/ due' = TRUE /\ UNCHANGED seen
          /\ UNCHANGED askVars
     ELSE /\ RequestSenderApproval(Last(log))
          /\ UNCHANGED <<seen, due>>
  /\ UNCHANGED <<tableVars, log, crashes, starting>>

\* processGroupMessages: the sender of the last message of the backlog is
\* looked at. Denied, the cursor stays where it is.
ProcessGroupMessages ==
  /\ ~ starting /\ due /\ due' = FALSE
  /\ \/ seen = Len(log) /\ UNCHANGED <<askVars, seen>>
     \/ /\ seen < Len(log)
        /\ IF Allowed(Last(log)) THEN ToAgent /\ UNCHANGED askVars
           ELSE RequestSenderApproval(Last(log)) /\ UNCHANGED seen
  /\ UNCHANGED <<tableVars, log, polled, crashes, starting>>

Crash ==
  /\ crashes < MaxCrashes /\ ~ starting
  /\ crashes' = crashes + 1
  /\ starting' = TRUE /\ due' = FALSE
  /\ card' = [i \in Ids |-> IF card[i] = "sending" THEN "none" ELSE card[i]]
  /\ UNCHANGED <<tableVars, row, inFlight, log, polled, seen>>

\* The host starts: recoverPendingMessages queues the chat if it has a backlog
\* and, in the same tick, the loop makes its first pass. New messages behind
\* the gate queue the chat once more (its container is not registered yet).
Start ==
  /\ starting /\ starting' = FALSE
  /\ polled' = Len(log)
  /\ \/ /\ seen = Len(log)
        /\ UNCHANGED <<askVars, seen, due>>
     \/ /\ seen < Len(log) /\ Allowed(Last(log))
        /\ ToAgent
        /\ due' = (polled < Len(log))
        /\ UNCHANGED askVars
     \/ /\ seen < Len(log) /\ ~ Allowed(Last(log))
        /\ IF polled < Len(log) THEN RequestTwice(Last(log))
           ELSE RequestSenderApproval(Last(log))
        /\ UNCHANGED <<seen, due>>
  /\ UNCHANGED <<tableVars, log, crashes>>

(***************************************************************************)
(* Deciding                                                                *)
(***************************************************************************)
\* Mutant: the member is added to the chat, not to its agent group.
AddToChat(u) == members' = members \cup {<<u, Channel>>}

AddMember(u) == members' = members \cup {<<u, Group>>}

\* replayInboundMessage: a row of the log under an id of the approval.
Replay(u) == log' = Append(log, u)

DeletePendingSenderApproval(i, d) ==
  inFlight' = [u \in Senders |-> IF inFlight[u] = i THEN 0 ELSE inFlight[u]]

\* Mutant: a decision without a row in flight does nothing.
OnlyInFlight(i, d) ==
  IF inFlight[row[i].from] = i
  THEN /\ IF d = "approved" THEN AddMember(row[i].from) /\ Replay(row[i].from)
          ELSE UNCHANGED <<members, log>>
       /\ DeletePendingSenderApproval(i, d)
  ELSE UNCHANGED <<members, log, inFlight>>

\* With its row in flight an approval lets the sender in and replays the
\* message; without one (the request of the caller that lost the race) it
\* lets the sender in.
ApplySenderApprovalDecision(i, d) ==
  IF d = "approved"
  THEN /\ AddMember(row[i].from)
       /\ IF inFlight[row[i].from] = i THEN Replay(row[i].from) ELSE UNCHANGED log
       /\ DeletePendingSenderApproval(i, d)
  ELSE UNCHANGED <<members, log>> /\ DeletePendingSenderApproval(i, d)

Decide(i, d) ==
  /\ row[i].status = "pending"
  /\ row' = [row EXCEPT ![i].status = d]
  /\ ApplySenderApprovalDecision(i, d)
  /\ UNCHANGED <<roles, dms, card, polled, seen, due, crashes, starting>>

\* A button of the card.
Click(i, d) == ~ starting /\ card[i] = "shown" /\ Decide(i, d)

\* A text reply in the admin's direct chat: the newest pending row sent there.
InAdminsChat == {i \in Ids : row[i].status = "pending" /\ row[i].target}
TextReply(i, d) ==
  /\ ~ starting /\ i \in InAdminsChat /\ \A j \in InAdminsChat : j <= i
  /\ Decide(i, d)

(***************************************************************************)
(* The tables change                                                       *)
(***************************************************************************)
\* /grant admin, typed in another chat: a global role for one of the senders.
Grant(u) ==
  /\ ~ starting
  /\ roles' = Granted(roles, u, "admin", Global) /\ roles' # roles
  /\ UNCHANGED <<members, dms, askVars, chatVars, crashes, starting>>

\* The admin's direct chat becomes known (a pairing, a first message).
AdminReachable ==
  /\ dms' = dms \cup {<<Admin, Channel>>} /\ dms' # dms
  /\ UNCHANGED <<roles, members, askVars, chatVars, crashes, starting>>

Next ==
  \/ \E u \in Senders : Store(u) \/ Grant(u)
  \/ Poll \/ ProcessGroupMessages
  \/ Crash \/ Start
  \/ AdminReachable
  \/ \E i \in Ids :
       \/ Deliver(i)
       \/ \E d \in Decisions : Click(i, d) \/ TextReply(i, d)

Spec == Init /\ [][Next]_vars

(***************************************************************************)
(* Properties                                                              *)
(***************************************************************************)
TypeOK ==
  /\ roles \subseteq [user : Users, role : {"owner", "admin"}, scope : {Global}]
  /\ members \subseteq Senders \X {Group}
  /\ dms \subseteq {<<Admin, Channel>>}
  /\ row \in [Ids -> [from : Senders, status : Decisions \cup {"none", "pending"},
                      target : BOOLEAN]]
  /\ inFlight \in [Senders -> {0} \cup Ids]
  /\ card \in [Ids -> {"none", "sending", "shown"}]
  /\ log \in Seq(Senders) /\ polled \in 0 .. Len(log) /\ seen \in 0 .. Len(log)
  /\ due \in BOOLEAN /\ starting \in BOOLEAN
  /\ crashes \in 0 .. MaxCrashes

\* "a duplicate request for the same unknown sender returns alreadyPending
\* instead of double-prompting an admin" (sender-approval.ts:13-16), also when
\* the recovery and the loop ask in one tick; and the request in flight, which
\* holds back every later one of its sender, can still be decided, whichever of
\* his rows the admin decides first.
OneOpenRequest ==
  /\ \A i, j \in Ids :
       /\ row[i].status = "pending" /\ card[i] # "none"
       /\ row[j].status = "pending" /\ card[j] # "none"
       /\ row[i].from = row[j].from
       => i = j
  /\ \A u \in Senders : inFlight[u] # 0 =>
       row[inFlight[u]] = [from |-> u, status |-> "pending", target |-> TRUE]

\* Allowed means let in, whichever of a sender's requests was approved.
ApprovedIsMember ==
  \A i \in Ids : row[i].status = "approved" => <<row[i].from, Group>> \in members
=============================================================================
