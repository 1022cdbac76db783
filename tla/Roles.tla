------------------------------- MODULE Roles --------------------------------
(***************************************************************************)
(* Who may do what: users, roles, members and the chats in which a user    *)
(* can be reached, as the permissions directory reads them. A module of    *)
(* operators: the tables are arguments, for the modules that change them.  *)
(*                                                                         *)
(*   roles    set of [user, role, scope]; scope is an agent group or Global*)
(*   members  set of <<user, group>>                                       *)
(*   dms      set of <<user, channel>>: the cached direct chats            *)
(***************************************************************************)
EXTENDS Naturals, Sequences

CONSTANT Global  \* the NULL of user_roles.agent_group_id

IsOwner(roles, u) == [user |-> u, role |-> "owner", scope |-> Global] \in roles
IsGlobalAdmin(roles, u) ==
  [user |-> u, role |-> "admin", scope |-> Global] \in roles
IsAdminOfAgentGroup(roles, u, g) ==
  [user |-> u, role |-> "admin", scope |-> g] \in roles

\* Inserted unless it is there; an owner is global, anything else throws.
Granted(roles, u, role, scope) ==
  IF role = "owner" /\ scope # Global THEN roles
  ELSE roles \cup {[user |-> u, role |-> role, scope |-> scope]}
Revoked(roles, u, role, scope) ==
  roles \ {[user |-> u, role |-> role, scope |-> scope]}

Privileged(roles, u, g) ==
  IsOwner(roles, u) \/ IsGlobalAdmin(roles, u) \/ IsAdminOfAgentGroup(roles, u, g)

IsMember(roles, members, u, g) ==
  Privileged(roles, u, g) \/ <<u, g>> \in members

\* sender_scope = 'known': owner, global admin, scoped admin, member, in
\* that order; the order decides only the reason that is logged.
CanAccessAgentGroup(roles, members, u, g) ==
  Privileged(roles, u, g) \/ <<u, g>> \in members

\* The admin commands ask for the same three roles, whatever the command.
CheckCommandPermission(roles, u, g) == Privileged(roles, u, g)

\* Who is asked: the group's admins before the global ones before the owners.
Rank(roles, u, g) ==
  IF IsAdminOfAgentGroup(roles, u, g) THEN 1
  ELSE IF IsGlobalAdmin(roles, u) THEN 2 ELSE 3
PickApprover(roles, g) ==
  {r.user : r \in {x \in roles : x.role = "owner" \/ x.scope \in {g, Global}}}

\* Where: the channels in order, the originating one first, and on the first
\* channel that reaches anybody the first approver in rank. Users of one rank
\* come in the order of the table, so this is a set.
PickApprovalDelivery(roles, dms, g, channels) ==
  LET Reach(c) == {u \in PickApprover(roles, g) : <<u, c>> \in dms}
      Hit(n) == Reach(channels[n]) # {} /\ \A m \in 1 .. n - 1 : Reach(channels[m]) = {}
  IN UNION {{u \in Reach(channels[n]) :
               \A v \in Reach(channels[n]) : Rank(roles, u, g) <= Rank(roles, v, g)} :
            n \in {k \in DOMAIN channels : Hit(k)}}

\* The clicker is the approver who was picked when the row was written, or
\* holds a role now.
IsAuthorizedClicker(roles, u, picked, g) == u = picked \/ Privileged(roles, u, g)
=============================================================================
