-------------------------- MODULE ApprovalsProofs --------------------------
(* Types, agreement of rows and effects, and the refinement of Decisions,   *)
(* for any requests, users, tables of roles and direct chats, and crashes.  *)
EXTENDS Approvals, TLAPS

(***************************************************************************)
(* The inductive invariant                                                 *)
(***************************************************************************)
\* What holds of one request: what Done says happened only if it is approved;
\* what it left in config, server or plugin the handler has told of; announced
\* packages are in the image, also while the container restarts; and only an
\* undecided credential request has a waiter.
RowInv(i) ==
  /\ Done(i) => Status(i) = "approved"
  /\ apply[i] = "rejected" => Status(i) = "rejected"
  /\ row[i].kind = "packages" /\ apply[i] \in {"restarting", "restarted", "installed"}
       => i \in image
  /\ i \in config \/ server = i \/ plugin.of = i => apply[i] \notin {"none", "rejected"}
  /\ i \in waiting => row[i].kind = "credential" /\ Status(i) \in {"pending", "expired"}

Inv == TypeOK /\ \A i \in Ids : RowInv(i)

Row == [kind : Kinds \cup {None}, to : Users \cup {None},
        status : Decisions \cup {"none", "pending", "expired"}]

\* The parts of TypeOK, by who changes them.
PeopleOK ==
  /\ roles \subseteq [user : Users, role : {"owner", "admin"}, scope : {Global, Group}]
  /\ dms \subseteq Users \X {Channel}

RequestsOK ==
  /\ row \in [Ids -> Row]
  /\ card \in [Ids -> {"plain", "sending", "visible", "ready", "edited"}]
  /\ apply \in [Ids -> {"none", "restarting", "restarted", "installed", "rejected",
                        "buildFailed", "noFiles", "lost"}]
  /\ config \subseteq Ids /\ image \subseteq config
  /\ server \in {0} \cup Ids
  /\ plugin \in [of : {0} \cup Ids, whole : BOOLEAN]
  /\ waiting \subseteq Ids
  /\ allowed \subseteq Ids /\ late \subseteq Ids

ChatsOK ==
  /\ replies \in 0 .. MaxReplies
  /\ inbox \in [Users -> Seq(Decisions)] /\ seen \in [Users -> Nat]
  /\ \A u \in Users : seen[u] <= Len(inbox[u]) /\ Len(inbox[u]) <= replies

(***************************************************************************)
(* Lemmas                                                                  *)
(***************************************************************************)
\* The parts are the whole.
LEMMA TypeParts ==
  /\ TypeOK <=> PeopleOK /\ RequestsOK /\ ChatsOK /\ crashes \in 0 .. MaxCrashes
  /\ TypeOK' <=> PeopleOK' /\ RequestsOK' /\ ChatsOK' /\ crashes' \in 0 .. MaxCrashes
  BY DEF TypeOK, PeopleOK, RequestsOK, ChatsOK, Row

\* Request numbers are positive: 0 stands for no request.
LEMMA IdsPositive == Ids \subseteq Nat /\ 0 \notin Ids
  BY ApprovalsAssumption DEF Ids

\* pickApprovalDelivery picks users.
LEMMA TargetsAreUsers == TypeOK => Targets \subseteq Users
<1> SUFFICES ASSUME TypeOK, NEW u \in Targets PROVE u \in Users
  OBVIOUS
<1>1. u \in PickApprover(roles, Group)
  BY DEF Targets, PickApprovalDelivery
<1>2. PICK r \in roles : u = r.user
  BY <1>1 DEF PickApprover
<1> QED BY <1>2 DEF TypeOK

\* A row whose status is written keeps kind and approver.
LEMMA FlipRow ==
  ASSUME TypeOK, NEW i \in Ids, NEW d \in Decisions \cup {"expired"}, Flip(i, d)
  PROVE  /\ row' \in [Ids -> Row]
         /\ \A j \in Ids : /\ row'[j].kind = row[j].kind
                           /\ row'[j].to = row[j].to
                           /\ row'[j].status = IF j = i THEN d ELSE row[j].status
<1>1. row \in [Ids -> Row]
  BY DEF TypeOK, Row
<1>2. row' = [row EXCEPT ![i] = [row[i] EXCEPT !.status = d]]
  BY DEF Flip
<1>3. [row[i] EXCEPT !.status = d] = [kind |-> row[i].kind, to |-> row[i].to, status |-> d]
  BY <1>1 DEF Row
<1>4. [row[i] EXCEPT !.status = d] \in Row
  BY <1>1, <1>3 DEF Row
<1> QED BY <1>1, <1>2, <1>3, <1>4 DEF Row

\* A new row is pending and of the given kind; the others stay.
LEMMA InsertRow ==
  ASSUME TypeOK, NEW i \in Ids, NEW kind \in Kinds, NEW to \in Users \cup {None},
         Insert(i, kind, to)
  PROVE  /\ row' \in [Ids -> Row]
         /\ card' \in [Ids -> {"plain", "sending", "visible", "ready", "edited"}]
         /\ row'[i].kind = kind /\ row'[i].status = "pending"
         /\ \A j \in Ids \ {i} : row'[j] = row[j]
<1>1. row \in [Ids -> Row]
  BY DEF TypeOK, Row
<1>2. [kind |-> kind, to |-> to, status |-> "pending"] \in Row
  BY DEF Row
<1>3. row' = [row EXCEPT ![i] = [kind |-> kind, to |-> to, status |-> "pending"]]
  BY DEF Insert
<1>4. card' \in [Ids -> {"plain", "sending", "visible", "ready", "edited"}]
  BY DEF Insert, TypeOK
<1> QED BY <1>1, <1>2, <1>3, <1>4

\* The initial tables are of the types the rows are.
LEMMA InitInv == Init => Inv
<1> SUFFICES ASSUME Init PROVE Inv
  OBVIOUS
<1>1. roles \subseteq [user : Users, role : {"owner", "admin"}, scope : {Global, Group}]
  BY ApprovalsAssumption DEF Init
<1>2. dms \subseteq Users \X {Channel}
  BY ApprovalsAssumption DEF Init
<1>3. replies \in 0 .. MaxReplies /\ crashes \in 0 .. MaxCrashes
  BY ApprovalsAssumption DEF Init
<1>4. /\ inbox \in [Users -> Seq(Decisions)] /\ seen \in [Users -> Nat]
      /\ \A u \in Users : seen[u] <= Len(inbox[u]) /\ Len(inbox[u]) <= replies
  BY DEF Init
<1>5. TypeOK
  BY <1>1, <1>2, <1>3, <1>4 DEF Init, TypeOK, Kinds
<1>6. ASSUME NEW i \in Ids PROVE RowInv(i)
  BY IdsPositive DEF Init, RowInv, Done, Status
<1> QED BY <1>5, <1>6 DEF Inv

(***************************************************************************)
(* Asking and the card                                                     *)
(***************************************************************************)
\* A new row disturbs nothing: nothing was done for a request not yet asked.
LEMMA InsertInv ==
  ASSUME Inv, NEW i \in Ids, NEW kind \in Kinds, NEW to \in Users \cup {None},
         IsNew(i), Insert(i, kind, to), UNCHANGED <<apply, effectVars, allowed, late>>,
         \/ UNCHANGED waiting
         \/ kind = "credential" /\ waiting' = waiting \cup {i}
  PROVE  RequestsOK' /\ \A j \in Ids : RowInv(j)'
<1>1. Status(i) = "none"
  BY DEF IsNew, Free
<1>2. /\ row' \in [Ids -> Row]
      /\ card' \in [Ids -> {"plain", "sending", "visible", "ready", "edited"}]
      /\ row'[i].kind = kind /\ row'[i].status = "pending"
      /\ \A j \in Ids \ {i} : row'[j] = row[j]
  BY InsertRow DEF Inv
<1>3. RequestsOK'
  BY <1>2, TypeParts DEF Inv, RequestsOK, effectVars
<1>4. ~ Done(i) /\ apply[i] = "none" /\ i \notin waiting
  BY <1>1, TypeParts DEF Inv, RowInv, Done, RequestsOK
<1>5. RowInv(i)'
  BY <1>2, <1>4 DEF RowInv, Done, Status, effectVars
<1>6. ASSUME NEW j \in Ids \ {i} PROVE RowInv(j)'
  BY <1>2 DEF Inv, RowInv, Done, Status, effectVars
<1> QED BY <1>3, <1>5, <1>6

LEMMA AskInv ==
  ASSUME Inv, NEW i \in Ids, NEW kind \in Kinds, Ask(i, kind)
  PROVE  Inv'
<1>1. PICK to \in Users \cup {None} : Insert(i, kind, to)
  BY TargetsAreUsers DEF Ask, Inv
<1>2. RequestsOK' /\ \A j \in Ids : RowInv(j)'
  BY <1>1, InsertInv DEF Ask, gateVars
<1>3. PeopleOK' /\ ChatsOK' /\ crashes' \in 0 .. MaxCrashes
  BY TypeParts DEF Inv, Ask, PeopleOK, ChatsOK, chatVars
<1> QED BY <1>2, <1>3, TypeParts DEF Inv

LEMMA RequestCredentialInv ==
  ASSUME Inv, NEW i \in Ids, RequestCredential(i)
  PROVE  Inv'
<1>1. PICK to \in Users : Insert(i, "credential", to)
  BY TargetsAreUsers DEF RequestCredential, Inv
<1>2. RequestsOK' /\ \A j \in Ids : RowInv(j)'
  BY <1>1, InsertInv DEF RequestCredential, Kinds
<1>3. PeopleOK' /\ ChatsOK' /\ crashes' \in 0 .. MaxCrashes
  BY TypeParts DEF Inv, RequestCredential, PeopleOK, ChatsOK, chatVars
<1> QED BY <1>2, <1>3, TypeParts DEF Inv

\* The invariant of a row is about neither its card nor its lateness.
LEMMA FrameInv ==
  ASSUME Inv, UNCHANGED <<row, apply, effectVars, waiting, allowed>>
  PROVE  \A j \in Ids : RowInv(j)'
  BY DEF Inv, RowInv, Done, Status, effectVars

LEMMA CardInv ==
  ASSUME Inv, NEW i \in Ids, Deliver(i) \/ PersistPlatformMessageId(i)
  PROVE  Inv'
<1>1. UNCHANGED <<roles, dms, row, apply, effectVars, gateVars, chatVars, crashes>>
  BY DEF Deliver, PersistPlatformMessageId
<1>2. card' \in [Ids -> {"plain", "sending", "visible", "ready", "edited"}]
  BY TypeParts DEF Inv, RequestsOK, Deliver, PersistPlatformMessageId
<1>3. RequestsOK' /\ PeopleOK' /\ ChatsOK' /\ crashes' \in 0 .. MaxCrashes
  BY <1>1, <1>2, TypeParts
     DEF Inv, RequestsOK, PeopleOK, ChatsOK, effectVars, gateVars, chatVars
<1>4. \A j \in Ids : RowInv(j)'
  BY <1>1, FrameInv DEF gateVars
<1> QED BY <1>3, <1>4, TypeParts DEF Inv

(***************************************************************************)
(* Deciding and applying                                                   *)
(***************************************************************************)
\* A card edited or left alone keeps its type.
LEMMA EditedCard ==
  ASSUME RequestsOK, NEW i \in Ids, EditCard(i) \/ UNCHANGED card
  PROVE  card' \in [Ids -> {"plain", "sending", "visible", "ready", "edited"}]
  BY DEF RequestsOK, EditCard

\* What applying a decision of request i may do: another request's part of the
\* effects stays, except that its server or plugin may be replaced; something
\* is done for i only if it is approved.
Applied(i, d) ==
  /\ apply' \in [Ids -> {"none", "restarting", "restarted", "installed", "rejected",
                         "buildFailed", "noFiles", "lost"}]
  /\ config' \subseteq Ids /\ image' \subseteq config'
  /\ server' \in {0} \cup Ids
  /\ plugin' \in [of : {0} \cup Ids, whole : BOOLEAN]
  /\ \/ waiting' = waiting \ {i}
     \/ waiting' = waiting /\ row[i].kind # "credential"
  /\ allowed' \subseteq Ids
  /\ \A j \in Ids \ {i} :
       /\ apply'[j] = apply[j]
       /\ j \in config' <=> j \in config
       /\ j \in image => j \in image'
       /\ server' = j => server = j
       /\ plugin'.of = j => plugin.of = j
       /\ j \in allowed' <=> j \in allowed
  /\ Done(i)' => d = "approved"
  /\ apply'[i] = "rejected" => d = "rejected"
  /\ row[i].kind = "packages" /\ apply'[i] = "restarting" => i \in image'
  /\ apply'[i] \notin {"restarted", "installed"}
  /\ i \in config' \/ server' = i \/ plugin'.of = i => apply'[i] \notin {"none", "rejected"}

\* Each handler does no more than that for a request for which nothing was done.
LEMMA ApplyDoes ==
  ASSUME Inv, NEW i \in Ids, NEW d \in Decisions, Status(i) = "pending", Apply(i, d)
  PROVE  Applied(i, d) /\ (EditCard(i) \/ UNCHANGED card)
<1>1. ~ Done(i) /\ apply[i] = "none"
  BY TypeParts DEF Inv, RowInv, Done, RequestsOK
<1>2. RequestsOK
  BY TypeParts DEF Inv
<1>3. CASE row[i].kind = "credential" /\ ResolveWaiter(i, d) /\ EditCard(i)
           /\ UNCHANGED <<apply, effectVars>>
  <2>1. waiting' = waiting \ {i}
    BY <1>3 DEF ResolveWaiter
  <2>2. allowed' \subseteq Ids /\ (\A j \in Ids \ {i} : j \in allowed' <=> j \in allowed)
    BY <1>2, <1>3 DEF ResolveWaiter, RequestsOK
  <2>3. i \in allowed' => d = "approved"
    BY <1>1, <1>3 DEF ResolveWaiter, Done
  <2> QED BY <1>1, <1>2, <1>3, <2>1, <2>2, <2>3
          DEF Applied, Done, RequestsOK, effectVars
<1>4. CASE row[i].kind \in SelfMods /\ d = "rejected" /\ NotifyAgent(i, "rejected")
           /\ EditCard(i) /\ UNCHANGED <<waiting, allowed, effectVars>>
  BY <1>1, <1>2, <1>4 DEF Applied, Done, RequestsOK, effectVars, NotifyAgent, SelfMods
<1>5. CASE /\ row[i].kind \in SelfMods /\ d = "approved"
           /\ \/ row[i].kind = "packages" /\ InstallPackages(i)
              \/ row[i].kind = "server" /\ AddMcpServer(i)
              \/ row[i].kind = "plugin" /\ WritePlugin(i)
           /\ EditCard(i) \/ UNCHANGED card
           /\ UNCHANGED <<waiting, allowed>>
  <2>1. CASE row[i].kind = "packages" /\ InstallPackages(i)
    BY <1>1, <1>2, <1>5, <2>1
       DEF Applied, Done, RequestsOK, InstallPackages, WithPackages, NotifyAgent
  <2>2. CASE row[i].kind = "server" /\ AddMcpServer(i)
    BY <1>1, <1>2, <1>5, <2>2 DEF Applied, Done, RequestsOK, AddMcpServer
  <2>3. CASE row[i].kind = "plugin" /\ WritePlugin(i)
    <3>1. UNCHANGED <<config, image, server>>
      BY <2>3 DEF WritePlugin
    <3>2. /\ plugin' \in [of : {0} \cup Ids, whole : BOOLEAN]
          /\ plugin'.of \in {0, i}
      <4>1. PICK n \in {0, i}, b \in BOOLEAN : plugin' = [of |-> n, whole |-> b]
        BY <2>3 DEF WritePlugin
      <4> QED BY <4>1
    <3>3. PICK a \in {"restarting", "noFiles"} : apply' = [apply EXCEPT ![i] = a]
      BY <2>3 DEF WritePlugin, NotifyAgent
    <3>4. \A j \in Ids : plugin'.of = j => j = i
      BY <3>2, IdsPositive
    <3>5. apply'[i] = "restarting" \/ apply'[i] = "noFiles"
      BY <1>2, <3>3 DEF RequestsOK
    <3>6. row[i].kind # "packages" /\ row[i].kind # "credential"
      BY <2>3
    <3>7. /\ apply' \in [Ids -> {"none", "restarting", "restarted", "installed", "rejected",
                                 "buildFailed", "noFiles", "lost"}]
          /\ \A j \in Ids \ {i} : apply'[j] = apply[j]
      BY <1>2, <3>3 DEF RequestsOK
    <3>8. /\ config' \subseteq Ids /\ image' \subseteq config' /\ server' \in {0} \cup Ids
          /\ waiting' = waiting /\ allowed' = allowed /\ allowed' \subseteq Ids
          /\ config' = config /\ image' = image /\ server' = server
      BY <1>2, <1>5, <3>1 DEF RequestsOK
    <3>9. d = "approved"
      BY <1>5
    <3>10. \A j \in Ids \ {i} : plugin'.of # j
      BY <3>4
    <3> QED BY <1>5, <3>2, <3>5, <3>6, <3>7, <3>8, <3>9, <3>10 DEF Applied
  <2> QED BY <1>5, <2>1, <2>2, <2>3
<1> QED BY <1>3, <1>4, <1>5 DEF Apply

LEMMA ClickInv ==
  ASSUME Inv, NEW i \in Ids, NEW u \in Users, NEW d \in Decisions,
         HandleApprovalClick(i, u, d), UNCHANGED late
  PROVE  RequestsOK' /\ \A j \in Ids : RowInv(j)'
<1>1. Applied(i, d) /\ (EditCard(i) \/ UNCHANGED card)
  BY ApplyDoes DEF HandleApprovalClick
<1>2. /\ row' \in [Ids -> Row]
      /\ \A j \in Ids : /\ row'[j].kind = row[j].kind
                        /\ row'[j].status = IF j = i THEN d ELSE row[j].status
  BY FlipRow DEF HandleApprovalClick, Inv
<1>3. RequestsOK
  BY TypeParts DEF Inv
<1>4. card' \in [Ids -> {"plain", "sending", "visible", "ready", "edited"}]
  BY <1>1, <1>3, EditedCard
<1>5. RequestsOK'
  BY <1>1, <1>2, <1>3, <1>4 DEF RequestsOK, Applied
<1>6. RowInv(i)'
  BY <1>1, <1>2 DEF Inv, RowInv, Applied, Status
<1>7. ASSUME NEW j \in Ids \ {i} PROVE RowInv(j)'
  BY <1>1, <1>2, <1>7 DEF Inv, RowInv, Applied, Status, Done
<1> QED BY <1>5, <1>6, <1>7

LEMMA RouteInv ==
  ASSUME Inv, NEW i \in Ids, NEW u \in Users, NEW d \in Decisions,
         RouteApprovalClick(i, u, d)
  PROVE  Inv'
<1>1. RequestsOK' /\ \A j \in Ids : RowInv(j)'
  BY ClickInv DEF RouteApprovalClick
<1>2. PeopleOK' /\ ChatsOK' /\ crashes' \in 0 .. MaxCrashes
  BY TypeParts DEF Inv, RouteApprovalClick, PeopleOK, ChatsOK, chatVars
<1> QED BY <1>1, <1>2, TypeParts DEF Inv

LEMMA TextReplyInv ==
  ASSUME Inv, NEW i \in Ids, NEW u \in Users, TryHandleApprovalTextReply(u, i)
  PROVE  Inv'
<1>1. ChatsOK /\ PeopleOK /\ crashes \in 0 .. MaxCrashes
  BY TypeParts DEF Inv
<1>2. Last(inbox[u]) \in Decisions
  <2>1. inbox[u] \in Seq(Decisions) /\ seen[u] \in Nat /\ Len(inbox[u]) = seen[u] + 1
    BY <1>1 DEF ChatsOK, TryHandleApprovalTextReply
  <2> QED BY <2>1 DEF Last
<1>3. RequestsOK' /\ \A j \in Ids : RowInv(j)'
  BY <1>2, ClickInv DEF TryHandleApprovalTextReply
<1>4. ChatsOK'
  BY <1>1 DEF ChatsOK, TryHandleApprovalTextReply
<1>5. PeopleOK' /\ crashes' \in 0 .. MaxCrashes
  BY <1>1 DEF PeopleOK, TryHandleApprovalTextReply
<1> QED BY <1>3, <1>4, <1>5, TypeParts DEF Inv

\* What a restart of the group and the message after it change.
LEMMA AnnounceInv ==
  ASSUME Inv, NEW i \in Ids, Restarted(i) \/ NotifyAfter(i)
  PROVE  Inv'
<1>1. RequestsOK /\ PeopleOK /\ ChatsOK /\ crashes \in 0 .. MaxCrashes
  BY TypeParts DEF Inv
<1>2. UNCHANGED <<roles, dms, row, effectVars, gateVars, chatVars, crashes>>
  BY DEF Restarted, NotifyAfter, rowVars
<1>3. PICK a \in {"restarted", "installed"} :
        apply[i] \in {"restarting", "restarted"} /\ apply' = [apply EXCEPT ![i] = a]
  BY DEF Restarted, NotifyAfter, NotifyAgent
<1>4. card' \in [Ids -> {"plain", "sending", "visible", "ready", "edited"}]
  BY <1>1, EditedCard DEF Restarted, NotifyAfter, rowVars
<1>5. RequestsOK' /\ PeopleOK' /\ ChatsOK' /\ crashes' \in 0 .. MaxCrashes
  BY <1>1, <1>2, <1>3, <1>4
     DEF RequestsOK, PeopleOK, ChatsOK, effectVars, gateVars, chatVars
<1>6. ASSUME NEW j \in Ids PROVE RowInv(j)'
  BY <1>1, <1>2, <1>3, <1>6
     DEF Inv, RowInv, Done, Status, effectVars, gateVars, RequestsOK
<1> QED BY <1>5, <1>6, TypeParts DEF Inv

(***************************************************************************)
(* Time, chats, roles, crash                                               *)
(***************************************************************************)
LEMMA TimeInv ==
  ASSUME Inv, NEW i \in Ids, Expires(i) \/ Timer(i)
  PROVE  Inv'
<1>1. RequestsOK /\ PeopleOK /\ ChatsOK /\ crashes \in 0 .. MaxCrashes
  BY TypeParts DEF Inv
<1>2. UNCHANGED <<roles, dms, row, card, apply, effectVars, allowed, chatVars, crashes>>
  BY DEF Expires, Timer, rowVars
<1>3. waiting' \subseteq waiting /\ late' \subseteq Ids
  BY <1>1 DEF Expires, Timer, RequestsOK
<1>4. RequestsOK' /\ PeopleOK' /\ ChatsOK' /\ crashes' \in 0 .. MaxCrashes
  BY <1>1, <1>2, <1>3 DEF RequestsOK, PeopleOK, ChatsOK, effectVars, chatVars
<1>5. \A j \in Ids : RowInv(j)'
  BY <1>2, <1>3 DEF Inv, RowInv, Done, Status, effectVars
<1> QED BY <1>4, <1>5, TypeParts DEF Inv

\* What the sweep makes of a row: the same, expired if it was due.
LEMMA SweepRow ==
  ASSUME RequestsOK, Sweep
  PROVE  /\ row' \in [Ids -> Row]
         /\ \A j \in Ids : /\ row'[j].kind = row[j].kind
                           /\ row'[j].status = IF j \in Expirable THEN "expired"
                                              ELSE row[j].status
<1>1. ASSUME NEW j \in Ids
      PROVE  [row[j] EXCEPT !.status = "expired"]
               = [kind |-> row[j].kind, to |-> row[j].to, status |-> "expired"]
  BY DEF RequestsOK, Row
<1>2. ASSUME NEW j \in Ids
      PROVE  [kind |-> row[j].kind, to |-> row[j].to, status |-> "expired"] \in Row
  BY DEF RequestsOK, Row
<1>3. row' = [j \in Ids |-> IF j \in Expirable
                           THEN [kind |-> row[j].kind, to |-> row[j].to, status |-> "expired"]
                           ELSE row[j]]
  BY <1>1 DEF Sweep
<1> QED BY <1>2, <1>3 DEF RequestsOK

LEMMA SweepInv == ASSUME Inv, Sweep PROVE Inv'
<1>1. RequestsOK /\ PeopleOK /\ ChatsOK /\ crashes \in 0 .. MaxCrashes
  BY TypeParts DEF Inv
<1>2. UNCHANGED <<roles, dms, card, apply, effectVars, gateVars, chatVars, crashes>>
  BY DEF Sweep
<1>3. RequestsOK' /\ PeopleOK' /\ ChatsOK' /\ crashes' \in 0 .. MaxCrashes
  BY <1>1, <1>2, SweepRow
     DEF RequestsOK, PeopleOK, ChatsOK, effectVars, gateVars, chatVars
<1>4. ASSUME NEW j \in Ids PROVE RowInv(j)'
  <2>1. j \in Expirable => Status(j) = "pending" /\ ~ Done(j) /\ apply[j] # "rejected"
    BY <1>4 DEF Expirable, Inv, RowInv
  <2> QED BY <1>1, <1>2, <1>4, <2>1, SweepRow
          DEF Inv, RowInv, Done, Status, effectVars, gateVars
<1> QED BY <1>3, <1>4, TypeParts DEF Inv

\* saveState leaves of a chat's replies those after its position.
LEMMA SavedButChats ==
  ASSUME ChatsOK, NEW u \in Users, NEW n \in 0 .. Len(inbox[u]), SavedBut(u, n),
         UNCHANGED replies
  PROVE  ChatsOK'
<1>1. \A s \in Seq(Decisions), k \in Nat :
        k <= Len(s) => /\ SubSeq(s, k + 1, Len(s)) \in Seq(Decisions)
                       /\ Len(SubSeq(s, k + 1, Len(s))) = Len(s) - k
  OBVIOUS
<1>2. \A v \in Users : seen[v] \in Nat /\ seen[v] <= Len(inbox[v])
                       /\ inbox[v] \in Seq(Decisions) /\ Len(inbox[v]) \in Nat
  BY DEF ChatsOK
<1>3. ASSUME NEW v \in Users
      PROVE  inbox'[v] \in Seq(Decisions) /\ Len(inbox'[v]) <= Len(inbox[v])
  <2>1. CASE v = u
    BY <1>1, <1>2, <2>1 DEF SavedBut
  <2>2. CASE v # u
    BY <1>1, <1>2, <2>2 DEF SavedBut
  <2> QED BY <2>1, <2>2
<1>4. inbox' \in [Users -> Seq(Decisions)] /\ seen' = [v \in Users |-> 0]
  BY <1>3 DEF SavedBut
<1>5. ASSUME NEW v \in Users
      PROVE  seen'[v] <= Len(inbox'[v]) /\ Len(inbox'[v]) <= replies
  BY <1>3, <1>4 DEF ChatsOK
<1> QED BY <1>4, <1>5 DEF ChatsOK

LEMMA ChatInv ==
  ASSUME Inv,
         \/ \E u \in Users : ReachesAgent(u) \/ \E d \in Decisions : Reply(u, d)
         \/ SaveState
  PROVE  Inv'
<1>1. RequestsOK /\ PeopleOK /\ ChatsOK /\ crashes \in 0 .. MaxCrashes
  BY TypeParts DEF Inv
<1>2. UNCHANGED <<roles, dms, rowVars, apply, effectVars, gateVars, crashes>>
  BY DEF ReachesAgent, Reply, SaveState
<1>3. ChatsOK'
  <2>1. CASE \E u \in Users : ReachesAgent(u)
    BY <1>1, <2>1, SavedButChats DEF ReachesAgent, ChatsOK
  <2>2. CASE SaveState
    BY <1>1, <2>2, SavedButChats DEF SaveState, ChatsOK
  <2>3. ASSUME NEW u \in Users, NEW d \in Decisions, Reply(u, d) PROVE ChatsOK'
    <3>1. /\ Append(inbox[u], d) \in Seq(Decisions)
          /\ Len(Append(inbox[u], d)) = Len(inbox[u]) + 1
      BY <1>1 DEF ChatsOK
    <3>2. inbox' \in [Users -> Seq(Decisions)] /\ replies' \in 0 .. MaxReplies
      BY <1>1, <2>3, <3>1, ApprovalsAssumption DEF ChatsOK, Reply
    <3>3. \A v \in Users : seen[v] <= Len(inbox'[v]) /\ Len(inbox'[v]) <= replies'
      BY <1>1, <2>3, <3>1 DEF ChatsOK, Reply
    <3> QED BY <1>1, <2>3, <3>2, <3>3 DEF ChatsOK, Reply
  <2> QED BY <2>1, <2>2, <2>3
<1>4. RequestsOK' /\ PeopleOK' /\ crashes' \in 0 .. MaxCrashes
  BY <1>1, <1>2 DEF RequestsOK, PeopleOK, rowVars, effectVars, gateVars
<1>5. \A j \in Ids : RowInv(j)'
  BY <1>2, FrameInv DEF rowVars, gateVars
<1> QED BY <1>3, <1>4, <1>5, TypeParts DEF Inv

LEMMA RevokeInv ==
  ASSUME Inv, NEW by \in Users, NEW u \in Users, NEW role, RevokeCommand(by, u, role)
  PROVE  Inv'
<1>1. RequestsOK /\ PeopleOK /\ ChatsOK /\ crashes \in 0 .. MaxCrashes
  BY TypeParts DEF Inv
<1>2. PeopleOK'
  BY <1>1 DEF PeopleOK, RevokeCommand, Revoked
<1>3. RequestsOK' /\ ChatsOK' /\ crashes' \in 0 .. MaxCrashes
  BY <1>1 DEF RevokeCommand, RequestsOK, ChatsOK, rowVars, effectVars, gateVars, chatVars
<1>4. \A j \in Ids : RowInv(j)'
  BY FrameInv DEF RevokeCommand, rowVars, gateVars
<1> QED BY <1>2, <1>3, <1>4, TypeParts DEF Inv

LEMMA CrashInv == ASSUME Inv, Crash PROVE Inv'
<1>1. RequestsOK /\ PeopleOK /\ ChatsOK /\ crashes \in 0 .. MaxCrashes
  BY TypeParts DEF Inv
<1>2. RequestsOK'
  BY <1>1 DEF Crash, RequestsOK, effectVars
<1>3. PeopleOK' /\ ChatsOK' /\ crashes' \in 0 .. MaxCrashes
  BY <1>1, ApprovalsAssumption DEF Crash, PeopleOK, ChatsOK
<1>4. ASSUME NEW j \in Ids PROVE RowInv(j)'
  BY <1>1, <1>4 DEF Crash, RequestsOK, Inv, RowInv, Done, Status, effectVars
<1> QED BY <1>2, <1>3, <1>4, TypeParts DEF Inv

(***************************************************************************)
(* Every step keeps the invariant                                          *)
(***************************************************************************)
LEMMA NextInv == ASSUME Inv, [Next]_vars PROVE Inv'
<1>1. CASE UNCHANGED vars
  <2>1. UNCHANGED <<roles, dms, row, card, apply, effectVars, gateVars, chatVars, crashes>>
    BY <1>1 DEF vars, rowVars
  <2>2. RequestsOK' /\ PeopleOK' /\ ChatsOK' /\ crashes' \in 0 .. MaxCrashes
    BY <2>1, TypeParts
       DEF Inv, RequestsOK, PeopleOK, ChatsOK, effectVars, gateVars, chatVars
  <2> QED BY <2>1, <2>2, FrameInv, TypeParts DEF Inv, gateVars
<1>2. ASSUME NEW i \in Ids,
             \/ HandleInstallPackagesRequest(i) \/ HandleAddMcpServerRequest(i)
             \/ HandleCreateSkillPluginRequest(i)
      PROVE  Inv'
  BY <1>2, AskInv DEF HandleInstallPackagesRequest, HandleAddMcpServerRequest,
                      HandleCreateSkillPluginRequest, Kinds, SelfMods
<1>3. ASSUME NEW i \in Ids, RequestCredential(i) PROVE Inv'
  BY <1>3, RequestCredentialInv
<1>4. ASSUME NEW i \in Ids, Deliver(i) \/ PersistPlatformMessageId(i) PROVE Inv'
  BY <1>4, CardInv
<1>5. ASSUME NEW i \in Ids, NEW u \in Users, NEW d \in Decisions, RouteApprovalClick(i, u, d)
      PROVE  Inv'
  BY <1>5, RouteInv
<1>6. ASSUME NEW i \in Ids, Restarted(i) \/ NotifyAfter(i) PROVE Inv'
  BY <1>6, AnnounceInv
<1>7. ASSUME NEW i \in Ids, Expires(i) \/ Timer(i) PROVE Inv'
  BY <1>7, TimeInv
<1>8. ASSUME NEW i \in Ids, NEW u \in Users, TryHandleApprovalTextReply(u, i) PROVE Inv'
  BY <1>8, TextReplyInv
<1>9. CASE \/ \E u \in Users : ReachesAgent(u) \/ \E d \in Decisions : Reply(u, d)
           \/ SaveState
  BY <1>9, ChatInv
<1>10. ASSUME NEW by \in Users, NEW u \in Users, NEW role \in {"owner", "admin"},
              RevokeCommand(by, u, role)
       PROVE  Inv'
  BY <1>10, RevokeInv
<1>11. CASE Sweep \/ Crash
  BY <1>11, SweepInv, CrashInv
<1> QED BY <1>1, <1>2, <1>3, <1>4, <1>5, <1>6, <1>7, <1>8, <1>9, <1>10, <1>11 DEF Next

LEMMA Invariance == Spec => []Inv
<1>1. Init => Inv
  BY InitInv
<1>2. Inv /\ [Next]_vars => Inv'
  BY NextInv
<1> QED BY <1>1, <1>2, PTL DEF Spec

(***************************************************************************)
(* Theorems                                                                *)
(***************************************************************************)
\* Every variable keeps its type, under every request, click, reply, timer,
\* change of roles and crash.
THEOREM TypeCorrect == Spec => []TypeOK
<1>1. Inv => TypeOK
  BY DEF Inv
<1> QED BY <1>1, Invariance, PTL

\* For any number of requests, admins and crashes: nothing is done for a request
\* that is not approved, no one is told "rejected" about one that is not, and
\* announced packages are in the image.
THEOREM EffectsAgree == Spec => []EffectsFollowRow
<1>1. Inv => EffectsFollowRow
  BY DEF Inv, RowInv, EffectsFollowRow
<1> QED BY <1>1, Invariance, PTL

\* A decided credential request has no waiter left.
THEOREM DecisionsReachGateway == Spec => []DecisionReachesGateway
<1>1. Inv => DecisionReachesGateway
  BY TypeParts DEF Inv, RowInv, DecisionReachesGateway, RequestsOK
<1> QED BY <1>1, Invariance, PTL

(***************************************************************************)
(* Every step is a step of Decisions                                       *)
(***************************************************************************)
\* Rows and effects that stay are a stutter.
LEMMA Stutters ==
  ASSUME \A j \in Ids : Status(j)' = Status(j) /\ (Done(j)' <=> Done(j))
  PROVE  UNCHANGED Abstract!vars
<1>1. [j \in Ids |-> Status(j)]' = [j \in Ids |-> Status(j)]
  OBVIOUS
<1>2. {j \in Ids : Done(j)}' = {j \in Ids : Done(j)}
  OBVIOUS
<1> QED BY <1>1, <1>2 DEF Abstract!vars

\* The status of one row is written.
LEMMA WrittenStatus ==
  ASSUME NEW i \in Ids, NEW s, Status(i)' = s,
         \A j \in Ids \ {i} : Status(j)' = Status(j)
  PROVE  [j \in Ids |-> Status(j)]' = [[j \in Ids |-> Status(j)] EXCEPT ![i] = s]
  OBVIOUS

LEMMA AskMaps ==
  ASSUME NEW i \in Ids, Status(i) = "none", Status(i)' = "pending",
         \A j \in Ids \ {i} : Status(j)' = Status(j),
         \A j \in Ids : Done(j)' <=> Done(j)
  PROVE  Abstract!Ask(i)
<1>1. {j \in Ids : Done(j)}' = {j \in Ids : Done(j)}
  OBVIOUS
<1> QED BY <1>1, WrittenStatus DEF Abstract!Ask

LEMMA DecideMaps ==
  ASSUME NEW i \in Ids, NEW d \in Decisions, Status(i) = "pending", Status(i)' = d,
         \A j \in Ids \ {i} : Status(j)' = Status(j) /\ (Done(j)' <=> Done(j)),
         ~ Done(i), Done(i)' => d = "approved"
  PROVE  Abstract!Approve(i) \/ Abstract!Reject(i)
<1>1. [j \in Ids |-> Status(j)]' = [[j \in Ids |-> Status(j)] EXCEPT ![i] = d]
  BY WrittenStatus
<1>2. CASE Done(i)'
  <2>1. {j \in Ids : Done(j)}' = {j \in Ids : Done(j)} \cup {i}
    BY <1>2
  <2> QED BY <1>1, <1>2, <2>1 DEF Abstract!Approve
<1>3. CASE ~ Done(i)'
  <2>1. {j \in Ids : Done(j)}' = {j \in Ids : Done(j)}
    BY <1>3
  <2> QED BY <1>1, <2>1 DEF Abstract!Approve, Abstract!Reject, Decisions
<1> QED BY <1>2, <1>3

\* A click or a reply that decides request i: of the others nothing is undone,
\* since the handler has told of what a later server or plugin replaces.
LEMMA ClickMaps ==
  ASSUME Inv, NEW i \in Ids, NEW u \in Users, NEW d \in Decisions,
         HandleApprovalClick(i, u, d)
  PROVE  Abstract!Approve(i) \/ Abstract!Reject(i)
<1>1. Status(i) = "pending" /\ Applied(i, d)
  BY ApplyDoes DEF HandleApprovalClick
<1>2. \A j \in Ids : Status(j)' = IF j = i THEN d ELSE Status(j)
  BY FlipRow DEF HandleApprovalClick, Inv, Status
<1>3. ~ Done(i) /\ (Done(i)' => d = "approved")
  BY <1>1 DEF Inv, RowInv, Applied
<1>4. ASSUME NEW j \in Ids \ {i} PROVE Done(j)' <=> Done(j)
  BY <1>1, <1>4 DEF Inv, RowInv, Applied, Done
<1> QED BY <1>1, <1>2, <1>3, <1>4, DecideMaps

\* A new row.
LEMMA InsertMaps ==
  ASSUME Inv, NEW i \in Ids, NEW kind \in Kinds, NEW to \in Users \cup {None},
         IsNew(i), Insert(i, kind, to), UNCHANGED <<apply, effectVars, allowed>>
  PROVE  Abstract!Ask(i)
<1>1. Status(i) = "none"
  BY DEF IsNew, Free
<1>2. Status(i)' = "pending" /\ \A j \in Ids \ {i} : Status(j)' = Status(j)
  BY InsertRow DEF Inv, Status
<1>3. \A j \in Ids : Done(j)' <=> Done(j)
  BY DEF Done, effectVars
<1> QED BY <1>1, <1>2, <1>3, AskMaps

LEMMA SweepMaps == ASSUME Inv, Sweep PROVE Abstract!Expire(Expirable)
<1>1. \A j \in Ids : Status(j)' = IF j \in Expirable THEN "expired" ELSE Status(j)
  BY SweepRow, TypeParts DEF Inv, Status
<1>2. [j \in Ids |-> Status(j)]'
        = [j \in Ids |-> IF j \in Expirable THEN "expired"
                         ELSE [k \in Ids |-> Status(k)][j]]
  BY <1>1
<1>3. {j \in Ids : Done(j)}' = {j \in Ids : Done(j)}
  BY DEF Sweep, Done, effectVars, gateVars
<1>4. \A r \in Expirable : [j \in Ids |-> Status(j)][r] = "pending"
  BY DEF Expirable
<1> QED BY <1>2, <1>3, <1>4 DEF Abstract!Expire

\* What is done about a decided request: its announcement, a crash in between.
LEMMA ProgressMaps ==
  ASSUME Inv, Crash \/ \E i \in Ids : Restarted(i) \/ NotifyAfter(i)
  PROVE  UNCHANGED Abstract!vars
<1>1. apply \in [Ids -> {"none", "restarting", "restarted", "installed", "rejected",
                         "buildFailed", "noFiles", "lost"}]
  BY TypeParts DEF Inv, RequestsOK
<1>2. ASSUME NEW j \in Ids
      PROVE  apply'[j] = apply[j]
               \/ /\ apply[j] \in {"restarting", "restarted"}
                  /\ apply'[j] \in {"restarted", "installed", "lost"}
  <2>1. CASE Crash
    BY <1>1, <2>1 DEF Crash
  <2>2. ASSUME NEW i \in Ids, Restarted(i) \/ NotifyAfter(i)
        PROVE  apply'[j] = apply[j]
                 \/ /\ apply[j] \in {"restarting", "restarted"}
                    /\ apply'[j] \in {"restarted", "installed", "lost"}
    BY <1>1, <2>2 DEF Restarted, NotifyAfter, NotifyAgent
  <2> QED BY <2>1, <2>2
<1>3. UNCHANGED <<row, effectVars, allowed>>
  BY DEF Crash, Restarted, NotifyAfter, rowVars, gateVars
<1>4. \A j \in Ids : Status(j)' = Status(j) /\ (Done(j)' <=> Done(j))
  BY <1>2, <1>3 DEF Status, Done, effectVars
<1> QED BY <1>4, Stutters

LEMMA FrameMaps ==
  ASSUME UNCHANGED <<row, apply, effectVars, allowed>>
  PROVE  UNCHANGED Abstract!vars
<1>1. \A j \in Ids : Status(j)' = Status(j) /\ (Done(j)' <=> Done(j))
  BY DEF Status, Done, effectVars
<1> QED BY <1>1, Stutters

LEMMA StepMaps == ASSUME Inv, [Next]_vars PROVE [Abstract!Next]_(Abstract!vars)
<1>1. ASSUME NEW i \in Ids,
             \/ HandleInstallPackagesRequest(i) \/ HandleAddMcpServerRequest(i)
             \/ HandleCreateSkillPluginRequest(i)
      PROVE  Abstract!Ask(i)
  <2>1. PICK kind \in Kinds : Ask(i, kind)
    BY <1>1 DEF HandleInstallPackagesRequest, HandleAddMcpServerRequest,
                HandleCreateSkillPluginRequest, Kinds, SelfMods
  <2>2. PICK to \in Users \cup {None} : Insert(i, kind, to)
    BY <2>1, TargetsAreUsers DEF Ask, Inv
  <2> QED BY <2>1, <2>2, InsertMaps DEF Ask, gateVars
<1>2. ASSUME NEW i \in Ids, RequestCredential(i) PROVE Abstract!Ask(i)
  <2>1. PICK to \in Users : Insert(i, "credential", to)
    BY <1>2, TargetsAreUsers DEF RequestCredential, Inv
  <2> QED BY <1>2, <2>1, InsertMaps DEF RequestCredential, Kinds
<1>3. ASSUME NEW i \in Ids, NEW u \in Users, NEW d \in Decisions, RouteApprovalClick(i, u, d)
      PROVE  Abstract!Approve(i) \/ Abstract!Reject(i)
  BY <1>3, ClickMaps DEF RouteApprovalClick
<1>4. ASSUME NEW i \in Ids, NEW u \in Users, TryHandleApprovalTextReply(u, i)
      PROVE  Abstract!Approve(i) \/ Abstract!Reject(i)
  <2>1. inbox[u] \in Seq(Decisions) /\ seen[u] \in Nat /\ Len(inbox[u]) = seen[u] + 1
    BY <1>4, TypeParts DEF Inv, ChatsOK, TryHandleApprovalTextReply
  <2>2. Last(inbox[u]) \in Decisions
    BY <2>1 DEF Last
  <2> QED BY <1>4, <2>2, ClickMaps DEF TryHandleApprovalTextReply
<1>5. CASE Crash \/ \E i \in Ids : Restarted(i) \/ NotifyAfter(i)
  BY <1>5, ProgressMaps
<1>6. CASE Sweep
  <2>1. Expirable \in SUBSET Ids
    BY DEF Expirable
  <2> QED BY <1>6, <2>1, SweepMaps DEF Abstract!Next
<1>7. CASE \/ \E i \in Ids : \/ Deliver(i) \/ PersistPlatformMessageId(i)
                             \/ Expires(i) \/ Timer(i)
           \/ \E u \in Users : (\E d \in Decisions : Reply(u, d)) \/ ReachesAgent(u)
           \/ SaveState
           \/ \E by, u \in Users, role \in {"owner", "admin"} : RevokeCommand(by, u, role)
           \/ UNCHANGED vars
  <2>1. UNCHANGED <<row, apply, effectVars, allowed>>
    BY <1>7 DEF Deliver, PersistPlatformMessageId, Expires, Timer, Reply, ReachesAgent,
                SaveState, RevokeCommand, vars, rowVars, gateVars
  <2> QED BY <2>1, FrameMaps
<1> QED BY <1>1, <1>2, <1>3, <1>4, <1>5, <1>6, <1>7 DEF Next, Abstract!Next

\* Approvals implement Decisions: however clicks, replies, the sweep, timers and
\* crashes interleave, a request is decided once, and done when it is approved
\* or never.
THEOREM ApprovalsImplementDecisions == Spec => ImplementsDecisions
<1>1. Init => Abstract!Init
  BY IdsPositive DEF Init, Abstract!Init, Status, Done
<1>2. Inv /\ [Next]_vars => [Abstract!Next]_(Abstract!vars)
  BY StepMaps
<1> QED BY <1>1, <1>2, Invariance, PTL DEF Spec, ImplementsDecisions, Abstract!Spec
=============================================================================
