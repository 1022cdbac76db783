-------------------------- MODULE MCTaskScheduler --------------------------
(* Small instances of TaskScheduler for TLC. *)
EXTENDS TaskScheduler

CONSTANTS t1, t2

Two == {t1, t2}
=============================================================================
