---------------------------- MODULE MCAdmission -----------------------------
(* A chat of one member and two interchangeable strangers. *)
EXTENDS Admission
Symmetry == Permutations(Strangers)
=============================================================================
