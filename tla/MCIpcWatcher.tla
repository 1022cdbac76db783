---------------------------- MODULE MCIpcWatcher ----------------------------
(* The main group and another one, a chat each. *)
EXTENDS IpcWatcher
=============================================================================
