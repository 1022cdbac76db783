-------------------------- MODULE AdmissionProofs --------------------------
(* Types, the one open request of a sender and what an approval gives, for *)
(* any strangers, any number of messages, rows and crashes.                *)
EXTENDS Admission, TLAPS

(***************************************************************************)
(* The inductive invariant                                                 *)
(***************************************************************************)
Statuses == Decisions \cup {"none", "pending"}
Row == [from : Senders, status : Statuses, target : BOOLEAN]

\* The row in flight of a sender is his, undecided and sent to somebody.
FlightOK ==
  \A u \in Senders : inFlight[u] # 0 =>
    row[inFlight[u]] = [from |-> u, status |-> "pending", target |-> TRUE]

\* An undecided row with a card is the one in flight: the caller that lost the
\* race, and a row nobody could be asked about, have none. This is what makes
\* two cards impossible: a sender has one row in flight.
CardOK ==
  \A i \in Ids : row[i].status = "pending" /\ card[i] # "none" => inFlight[row[i].from] = i

Inv == TypeOK /\ FlightOK /\ CardOK /\ ApprovedIsMember

\* The parts of TypeOK, by who changes them.
TablesOK ==
  /\ roles \subseteq [user : Users, role : {"owner", "admin"}, scope : {Global}]
  /\ members \subseteq Senders \X {Group}
  /\ dms \subseteq {<<Admin, Channel>>}

AsksOK ==
  /\ row \in [Ids -> Row]
  /\ inFlight \in [Senders -> {0} \cup Ids]
  /\ card \in [Ids -> {"none", "sending", "shown"}]

LogOK == log \in Seq(Senders) /\ polled \in 0 .. Len(log) /\ seen \in 0 .. Len(log)
FlagsOK == due \in BOOLEAN /\ starting \in BOOLEAN
ChatOK == LogOK /\ FlagsOK /\ crashes \in 0 .. MaxCrashes

RequestsOK == AsksOK /\ FlightOK /\ CardOK /\ ApprovedIsMember

(***************************************************************************)
(* Lemmas                                                                  *)
(***************************************************************************)
\* The parts are the whole.
LEMMA InvParts ==
  /\ Inv <=> TablesOK /\ ChatOK /\ RequestsOK
  /\ Inv' <=> TablesOK' /\ ChatOK' /\ RequestsOK'
  BY DEF Inv, TypeOK, TablesOK, AsksOK, ChatOK, LogOK, FlagsOK, RequestsOK, Row, Statuses

\* Row numbers are positive: 0 stands for no row.
LEMMA IdsPositive == Ids \subseteq Nat \ {0}
  BY AdmissionAssumption DEF Ids

\* The sender of the last message is a sender.
LEMMA LastIsSender == ChatOK /\ log # << >> => Last(log) \in Senders
<1> SUFFICES ASSUME ChatOK, log # << >> PROVE Last(log) \in Senders
  OBVIOUS
<1>1. log \in Seq(Senders) /\ Len(log) \in 1 .. Len(log)
  BY DEF ChatOK, LogOK
<1> QED BY <1>1 DEF Last

\* An appended message leaves the positions where they are.
LEMMA AppendedLog ==
  ASSUME LogOK, NEW u \in Senders, log' = Append(log, u), UNCHANGED <<polled, seen>>
  PROVE  LogOK'
<1>1. log' \in Seq(Senders) /\ Len(log') = Len(log) + 1
  BY DEF LogOK
<1> QED BY <1>1 DEF LogOK

\* Positions left alone or moved to the end of the log.
LEMMA MovedPositions ==
  ASSUME LogOK, UNCHANGED log, polled' \in {polled, Len(log)}, seen' \in {seen, Len(log)}
  PROVE  LogOK'
<1>1. Len(log) \in Nat
  BY DEF LogOK
<1> QED BY <1>1 DEF LogOK

LEMMA InitInv == Init => Inv
<1> SUFFICES ASSUME Init PROVE Inv
  OBVIOUS
<1>1. TablesOK
  BY DEF Init, TablesOK, Granted, Users, Senders
<1>2. AsksOK
  BY DEF Init, AsksOK, Row, Statuses, Senders
<1>3. ChatOK
  <2>1. LogOK
    BY DEF Init, LogOK
  <2>2. FlagsOK
    BY Zenon DEF Init, FlagsOK
  <2>3. crashes \in 0 .. MaxCrashes
    BY AdmissionAssumption DEF Init
  <2> QED BY <2>1, <2>2, <2>3 DEF ChatOK
<1>4. FlightOK /\ CardOK /\ ApprovedIsMember
  BY DEF Init, FlightOK, CardOK, ApprovedIsMember
<1> QED BY <1>1, <1>2, <1>3, <1>4, InvParts DEF RequestsOK

(***************************************************************************)
(* Asking                                                                  *)
(***************************************************************************)
\* Rows that were free and now wait for a decision, of a sender with nothing in
\* flight: at most one of them comes into flight, and only that one has a card.
LEMMA OpenedRows ==
  ASSUME RequestsOK, NEW u \in Senders, inFlight[u] = 0,
         NEW S \in SUBSET Free, NEW t \in BOOLEAN, NEW i \in S,
         row' = [k \in Ids |-> IF k \in S THEN [from |-> u, status |-> "pending", target |-> t]
                               ELSE row[k]],
         inFlight' = [inFlight EXCEPT ![u] = IF t THEN i ELSE 0],
         card' \in [Ids -> {"none", "sending", "shown"}],
         \A k \in Ids \ S : card'[k] = card[k],
         \A k \in S : card'[k] # "none" => t /\ k = i,
         UNCHANGED members
  PROVE  RequestsOK'
<1>1. \A k \in S : k \in Ids /\ row[k].status = "none"
  BY DEF Free
<1>2. AsksOK'
  <2>1. [from |-> u, status |-> "pending", target |-> t] \in Row
    BY DEF Row, Statuses
  <2> QED BY <1>1, <2>1 DEF RequestsOK, AsksOK
<1>3. FlightOK'
  <2>1. ASSUME NEW v \in Senders, inFlight'[v] # 0
        PROVE  row'[inFlight'[v]] = [from |-> v, status |-> "pending", target |-> TRUE]
    <3>1. CASE v = u
      BY <1>1, <2>1, <3>1 DEF RequestsOK, AsksOK
    <3>2. CASE v # u
      <4>1. /\ inFlight'[v] = inFlight[v] /\ inFlight[v] \in Ids
            /\ row[inFlight[v]] = [from |-> v, status |-> "pending", target |-> TRUE]
        BY <2>1, <3>2 DEF RequestsOK, AsksOK, FlightOK
      <4> QED BY <1>1, <4>1
    <3> QED BY <3>1, <3>2
  <2> QED BY <2>1 DEF FlightOK
<1>4. CardOK'
  <2>1. ASSUME NEW k \in Ids, row'[k].status = "pending", card'[k] # "none"
        PROVE  inFlight'[row'[k].from] = k
    <3>1. CASE k \in S
      <4>1. row'[k].from = u
        BY <3>1
      <4> QED BY <2>1, <3>1, <4>1 DEF RequestsOK, AsksOK
    <3>2. CASE k \notin S
      <4>1. row'[k] = row[k] /\ card'[k] = card[k]
        BY <3>2
      <4>2. inFlight[row[k].from] = k /\ row[k].from \in Senders
        BY <2>1, <4>1 DEF RequestsOK, CardOK, AsksOK, Row
      <4>3. row[k].from # u
        BY <4>2, IdsPositive
      <4> QED BY <4>1, <4>2, <4>3 DEF RequestsOK, AsksOK
    <3> QED BY <3>1, <3>2
  <2> QED BY <2>1 DEF CardOK
<1>5. ApprovedIsMember'
  <2>1. ASSUME NEW k \in Ids, row'[k].status = "approved" PROVE k \notin S
    BY <2>1
  <2> QED BY <2>1 DEF RequestsOK, ApprovedIsMember
<1> QED BY <1>2, <1>3, <1>4, <1>5 DEF RequestsOK

\* Nothing asked, nothing disturbed.
LEMMA NothingAsked ==
  ASSUME RequestsOK, UNCHANGED <<members, askVars>>
  PROVE  RequestsOK'
  BY DEF RequestsOK, AsksOK, FlightOK, CardOK, ApprovedIsMember, askVars

LEMMA RequestInv ==
  ASSUME RequestsOK, NEW u \in Senders, RequestSenderApproval(u), UNCHANGED members
  PROVE  RequestsOK'
<1>1. CASE UNCHANGED askVars
  BY <1>1, NothingAsked
<1>2. ASSUME NEW i \in Ids, inFlight[u] = 0, IsNew(i), OpenRequest(i, u)
      PROVE  RequestsOK'
  <2> DEFINE t == HasTarget
  <2>1. t \in BOOLEAN /\ {i} \in SUBSET Free
    BY <1>2 DEF HasTarget, IsNew
  <2>2. row' = [k \in Ids |-> IF k \in {i}
                              THEN [from |-> u, status |-> "pending", target |-> t]
                              ELSE row[k]]
    BY <1>2 DEF OpenRequest, RequestsOK, AsksOK
  <2>3. inFlight' = [inFlight EXCEPT ![u] = IF t THEN i ELSE 0]
    BY <1>2 DEF OpenRequest, RequestsOK, AsksOK
  <2>4. /\ card' \in [Ids -> {"none", "sending", "shown"}]
        /\ \A k \in Ids \ {i} : card'[k] = card[k]
        /\ card'[i] # "none" => t
    BY <1>2 DEF OpenRequest, CardOf, RequestsOK, AsksOK
  <2> HIDE DEF t
  <2> QED BY <1>2, <2>1, <2>2, <2>3, <2>4, OpenedRows
<1> QED BY <1>1, <1>2 DEF RequestSenderApproval

LEMMA RequestTwiceInv ==
  ASSUME RequestsOK, NEW u \in Senders, RequestTwice(u), UNCHANGED members
  PROVE  RequestsOK'
<1>1. CASE UNCHANGED askVars
  BY <1>1, NothingAsked
<1>2. CASE inFlight[u] = 0 /\ ~ UNCHANGED askVars
  <2> DEFINE t == HasTarget
  <2>1. PICK i \in Ids, j \in Ids :
          /\ i \in Free /\ j \in Free \ {i}
          /\ row' = [row EXCEPT ![i] = [from |-> u, status |-> "pending", target |-> t],
                                ![j] = [from |-> u, status |-> "pending", target |-> t]]
          /\ inFlight' = [inFlight EXCEPT ![u] = IF t THEN i ELSE 0]
          /\ card' = [card EXCEPT ![i] = IF t THEN CardOf(i, u) ELSE "none",
                                  ![j] = IF t THEN CardOf(j, u) ELSE "none"]
    BY <1>2 DEF RequestTwice, IsNew
  <2>2. t \in BOOLEAN /\ {i, j} \in SUBSET Free /\ i \in {i, j}
    BY <2>1 DEF HasTarget
  <2> HIDE DEF t
  <2>3. row' = [k \in Ids |-> IF k \in {i, j}
                              THEN [from |-> u, status |-> "pending", target |-> t]
                              ELSE row[k]]
    BY <2>1 DEF RequestsOK, AsksOK
  <2>4. /\ card' \in [Ids -> {"none", "sending", "shown"}]
        /\ \A k \in Ids \ {i, j} : card'[k] = card[k]
    BY <2>1 DEF CardOf, RequestsOK, AsksOK
  <2>5. \A k \in {i, j} : card'[k] # "none" => t /\ k = i
    BY <2>1 DEF CardOf, RequestsOK, AsksOK
  <2>6. inFlight[u] = 0
    BY <1>2
  <2>7. inFlight' = [inFlight EXCEPT ![u] = IF t THEN i ELSE 0]
    BY <2>1
  <2> QED BY <2>2, <2>3, <2>4, <2>5, <2>6, <2>7, OpenedRows
<1> QED BY <1>1, <1>2 DEF RequestTwice

(***************************************************************************)
(* The chat                                                                *)
(***************************************************************************)
LEMMA PollInv == ASSUME Inv, Poll PROVE Inv'
<1>1. TablesOK /\ ChatOK /\ RequestsOK
  BY InvParts
<1>2. log # << >> /\ Last(log) \in Senders
  BY <1>1, LastIsSender DEF Poll, ChatOK, LogOK
<1>3. RequestsOK'
  BY <1>1, <1>2, NothingAsked, RequestInv DEF Poll, tableVars
<1>4. TablesOK' /\ crashes' \in 0 .. MaxCrashes
  BY <1>1 DEF Poll, tableVars, TablesOK, ChatOK
<1>5. LogOK'
  BY <1>1, MovedPositions DEF Poll, ChatOK, ToAgent
<1>6. FlagsOK'
  BY <1>1 DEF Poll, ChatOK, FlagsOK
<1> QED BY <1>3, <1>4, <1>5, <1>6, InvParts DEF ChatOK

LEMMA ProcessInv == ASSUME Inv, ProcessGroupMessages PROVE Inv'
<1>1. TablesOK /\ ChatOK /\ RequestsOK
  BY InvParts
<1>2. seen < Len(log) => log # << >> /\ Last(log) \in Senders
  BY <1>1, LastIsSender DEF ChatOK, LogOK
<1>3. RequestsOK'
  BY <1>1, <1>2, NothingAsked, RequestInv DEF ProcessGroupMessages, tableVars
<1>4. TablesOK' /\ crashes' \in 0 .. MaxCrashes
  BY <1>1 DEF ProcessGroupMessages, tableVars, TablesOK, ChatOK
<1>5. LogOK'
  BY <1>1, MovedPositions DEF ProcessGroupMessages, ChatOK, ToAgent
<1>6. FlagsOK'
  BY <1>1 DEF ProcessGroupMessages, ChatOK, FlagsOK
<1> QED BY <1>3, <1>4, <1>5, <1>6, InvParts DEF ChatOK

LEMMA StartInv == ASSUME Inv, Start PROVE Inv'
<1>1. TablesOK /\ ChatOK /\ RequestsOK
  BY InvParts
<1>2. seen < Len(log) => log # << >> /\ Last(log) \in Senders
  BY <1>1, LastIsSender DEF ChatOK, LogOK
<1>3. RequestsOK'
  BY <1>1, <1>2, NothingAsked, RequestInv, RequestTwiceInv DEF Start, tableVars
<1>4. TablesOK' /\ crashes' \in 0 .. MaxCrashes
  BY <1>1 DEF Start, tableVars, TablesOK, ChatOK
<1>5. LogOK'
  BY <1>1, MovedPositions DEF Start, ChatOK, ToAgent
<1>6. FlagsOK'
  <2>1. (polled < Len(log)) \in BOOLEAN
    BY <1>1 DEF ChatOK, LogOK
  <2>2. due' \in {due, polled < Len(log)} /\ starting' = FALSE
    BY Zenon DEF Start
  <2> QED BY <1>1, <2>1, <2>2, Zenon DEF ChatOK, FlagsOK
<1> QED BY <1>3, <1>4, <1>5, <1>6, InvParts DEF ChatOK

\* What neither asks nor decides.
LEMMA TablesInv ==
  ASSUME Inv, AdminReachable \/ \E u \in Senders : Store(u) \/ Grant(u)
  PROVE  Inv'
<1>1. TablesOK /\ ChatOK /\ RequestsOK
  BY InvParts
<1>2. RequestsOK'
  BY <1>1, NothingAsked DEF AdminReachable, Store, Grant, tableVars
<1>3. TablesOK'
  BY <1>1 DEF AdminReachable, Store, Grant, tableVars, TablesOK, Granted, Users
<1>4. LogOK'
  BY <1>1, AppendedLog, MovedPositions DEF AdminReachable, Store, Grant, chatVars, ChatOK
<1>5. FlagsOK' /\ crashes' \in 0 .. MaxCrashes
  BY <1>1 DEF AdminReachable, Store, Grant, chatVars, ChatOK, FlagsOK
<1> QED BY <1>2, <1>3, <1>4, <1>5, InvParts DEF ChatOK

\* A card that is shown or lost was on its way.
LEMMA CardInv == ASSUME Inv, Crash \/ \E i \in Ids : Deliver(i) PROVE Inv'
<1>1. TablesOK /\ ChatOK /\ RequestsOK
  BY InvParts
<1>2. UNCHANGED <<members, row, inFlight>>
  BY DEF Crash, Deliver, tableVars
<1>3. /\ card' \in [Ids -> {"none", "sending", "shown"}]
      /\ \A k \in Ids : card'[k] # "none" => card[k] # "none"
  BY <1>1 DEF Crash, Deliver, RequestsOK, AsksOK
<1>4. RequestsOK'
  BY <1>1, <1>2, <1>3 DEF RequestsOK, AsksOK, FlightOK, CardOK, ApprovedIsMember
<1>5. TablesOK' /\ LogOK'
  BY <1>1, MovedPositions DEF Crash, Deliver, tableVars, chatVars, TablesOK, ChatOK
<1>6. FlagsOK'
  BY <1>1, Zenon DEF Crash, Deliver, chatVars, ChatOK, FlagsOK
<1>7. crashes' \in 0 .. MaxCrashes
  BY <1>1, AdmissionAssumption DEF Crash, Deliver, ChatOK
<1> QED BY <1>4, <1>5, <1>6, <1>7, InvParts DEF ChatOK

(***************************************************************************)
(* Deciding                                                                *)
(***************************************************************************)
\* A decided row keeps sender and target.
LEMMA DecidedRow ==
  ASSUME AsksOK, NEW i \in Ids, NEW d \in Decisions, row' = [row EXCEPT ![i].status = d]
  PROVE  /\ row' \in [Ids -> Row]
         /\ row'[i].from = row[i].from /\ row'[i].status = d
         /\ \A k \in Ids \ {i} : row'[k] = row[k]
<1>1. row[i] \in Row
  BY DEF AsksOK
<1>2. [row[i] EXCEPT !.status = d]
        = [from |-> row[i].from, status |-> d, target |-> row[i].target]
  BY <1>1 DEF Row
<1>3. row' = [row EXCEPT ![i] = [row[i] EXCEPT !.status = d]]
  OBVIOUS
<1>4. [from |-> row[i].from, status |-> d, target |-> row[i].target] \in Row
  BY <1>1 DEF Row, Statuses
<1> QED BY <1>2, <1>3, <1>4 DEF AsksOK

\* A decision, with or without its row in flight: the flight ends with the row,
\* and whoever is approved is a member then.
LEMMA DecideInv ==
  ASSUME Inv, NEW i \in Ids, NEW d \in Decisions, Decide(i, d)
  PROVE  Inv'
<1>1. TablesOK /\ ChatOK /\ RequestsOK /\ AsksOK
  BY InvParts DEF RequestsOK
<1>2. /\ row' \in [Ids -> Row]
      /\ row'[i].from = row[i].from /\ row'[i].status = d
      /\ \A k \in Ids \ {i} : row'[k] = row[k]
  BY <1>1, DecidedRow DEF Decide
<1>3. row[i].status = "pending" /\ row[i].from \in Senders
  BY <1>1 DEF Decide, AsksOK, Row
<1>4. inFlight' = [u \in Senders |-> IF inFlight[u] = i THEN 0 ELSE inFlight[u]]
  BY DEF Decide, ApplySenderApprovalDecision, DeletePendingSenderApproval
<1>5. /\ members \subseteq members' /\ members' \subseteq Senders \X {Group}
      /\ d = "approved" => <<row[i].from, Group>> \in members'
  BY <1>1, <1>3 DEF Decide, ApplySenderApprovalDecision, AddMember, TablesOK
<1>6. UNCHANGED <<roles, dms, card, polled, seen, due, crashes, starting>>
  BY DEF Decide
<1>7. UNCHANGED log \/ log' = Append(log, row[i].from)
  BY DEF Decide, ApplySenderApprovalDecision, Replay
<1>8. ChatOK'
  BY <1>1, <1>3, <1>6, <1>7, AppendedLog, MovedPositions DEF ChatOK, FlagsOK
<1>9. TablesOK'
  BY <1>1, <1>5, <1>6 DEF TablesOK
<1>10. AsksOK'
  BY <1>1, <1>2, <1>4, <1>6 DEF AsksOK
<1>11. FlightOK'
  BY <1>1, <1>2, <1>4 DEF RequestsOK, FlightOK, AsksOK
<1>12. CardOK'
  <2>1. ASSUME NEW k \in Ids, row'[k].status = "pending", card'[k] # "none"
        PROVE  inFlight'[row'[k].from] = k
    <3>1. k # i
      BY <1>2, <2>1 DEF Decisions
    <3>2. inFlight[row[k].from] = k /\ row[k].from \in Senders /\ row'[k] = row[k]
      BY <1>1, <1>2, <1>6, <2>1, <3>1 DEF RequestsOK, CardOK, AsksOK, Row
    <3> QED BY <1>4, <3>1, <3>2
  <2> QED BY <2>1 DEF CardOK
<1>13. ApprovedIsMember'
  <2>1. ASSUME NEW k \in Ids, row'[k].status = "approved"
        PROVE  <<row'[k].from, Group>> \in members'
    BY <1>1, <1>2, <1>5, <2>1 DEF RequestsOK, ApprovedIsMember
  <2> QED BY <2>1 DEF ApprovedIsMember
<1> QED BY <1>8, <1>9, <1>10, <1>11, <1>12, <1>13, InvParts DEF RequestsOK

(***************************************************************************)
(* Every step keeps the invariant                                          *)
(***************************************************************************)
LEMMA NextInv == ASSUME Inv, [Next]_vars PROVE Inv'
<1>1. CASE UNCHANGED vars
  BY <1>1, InvParts, NothingAsked, MovedPositions
     DEF vars, tableVars, chatVars, TablesOK, ChatOK, FlagsOK
<1>2. CASE Poll \/ ProcessGroupMessages \/ Start
  BY <1>2, PollInv, ProcessInv, StartInv
<1>3. CASE AdminReachable \/ \E u \in Senders : Store(u) \/ Grant(u)
  BY <1>3, TablesInv
<1>4. CASE Crash \/ \E i \in Ids : Deliver(i)
  BY <1>4, CardInv
<1>5. ASSUME NEW i \in Ids, NEW d \in Decisions, Click(i, d) \/ TextReply(i, d)
      PROVE  Inv'
  BY <1>5, DecideInv DEF Click, TextReply
<1> QED BY <1>1, <1>2, <1>3, <1>4, <1>5 DEF Next

LEMMA Invariance == Spec => []Inv
<1>1. Init => Inv
  BY InitInv
<1>2. Inv /\ [Next]_vars => Inv'
  BY NextInv
<1> QED BY <1>1, <1>2, PTL DEF Spec

(***************************************************************************)
(* Theorems                                                                *)
(***************************************************************************)
\* Every variable keeps its type, under every message, request, decision,
\* grant and crash.
THEOREM TypeCorrect == Spec => []TypeOK
<1>1. Inv => TypeOK
  BY DEF Inv
<1> QED BY <1>1, Invariance, PTL

\* However often and from wherever a sender is asked about, at most one card of
\* his is open, and his request in flight can be decided.
THEOREM OneRequestOpen == Spec => []OneOpenRequest
<1>1. Inv => OneOpenRequest
  <2> SUFFICES ASSUME Inv PROVE OneOpenRequest
    OBVIOUS
  <2>1. ASSUME NEW i \in Ids, NEW j \in Ids,
               row[i].status = "pending", card[i] # "none",
               row[j].status = "pending", card[j] # "none",
               row[i].from = row[j].from
        PROVE  i = j
    BY <2>1 DEF Inv, CardOK
  <2> QED BY <2>1 DEF Inv, FlightOK, OneOpenRequest
<1> QED BY <1>1, Invariance, PTL

\* Whoever was approved is a member, whichever of his rows was decided.
THEOREM ApprovedLetIn == Spec => []ApprovedIsMember
<1>1. Inv => ApprovedIsMember
  BY DEF Inv
<1> QED BY <1>1, Invariance, PTL
=============================================================================
