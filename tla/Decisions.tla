----------------------------- MODULE Decisions -----------------------------
(* What an approval promises, whatever it is for: a request is asked once,  *)
(* decided once, and what it asks for is done in the step that approves it  *)
(* or never.                                                                *)

CONSTANT Requests

VARIABLES
  status, \* what is known of a request
  done    \* the requests for which something was done

vars == <<status, done>>

Init == status = [r \in Requests |-> "none"] /\ done = {}

Ask(r) ==
  /\ status[r] = "none"
  /\ status' = [status EXCEPT ![r] = "pending"]
  /\ UNCHANGED done

Approve(r) ==
  /\ status[r] = "pending"
  /\ status' = [status EXCEPT ![r] = "approved"]
  /\ done' \in {done, done \cup {r}}

Reject(r) ==
  /\ status[r] = "pending"
  /\ status' = [status EXCEPT ![r] = "rejected"]
  /\ UNCHANGED done

Expire(R) ==
  /\ \A r \in R : status[r] = "pending"
  /\ status' = [r \in Requests |-> IF r \in R THEN "expired" ELSE status[r]]
  /\ UNCHANGED done

Next ==
  \/ \E r \in Requests : Ask(r) \/ Approve(r) \/ Reject(r)
  \/ \E R \in SUBSET Requests : Expire(R)

Spec == Init /\ [][Next]_vars
=============================================================================
