---------------------------- MODULE MCApprovals -----------------------------
(* Instances of Approvals for TLC; the bounds are in the cfg files.        *)
EXTENDS Approvals

CONSTANTS ann, bob

\* ann owns the installation; bob is an admin of all groups.
MCStaff ==
  {{[user |-> ann, role |-> "owner", scope |-> Global],
    [user |-> bob, role |-> "admin", scope |-> Global]}}
\* Bob has a direct chat, ann has none: without bob nobody can be asked.
MCReachable == {{bob} \X {Channel}}
=============================================================================
