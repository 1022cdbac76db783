-------------------------- MODULE MCMessageCursor --------------------------
(* Small instances of MessageCursor for TLC. *)
EXTENDS MessageCursor

CONSTANT c1

Trigger  == [trigger |-> TRUE,  command |-> FALSE, admitted |-> TRUE]
Chatter  == [trigger |-> FALSE, command |-> FALSE, admitted |-> TRUE]
Command  == [trigger |-> TRUE,  command |-> TRUE,  admitted |-> TRUE]
Stranger == [trigger |-> TRUE,  command |-> FALSE, admitted |-> FALSE]

AllContents == {Trigger, Chatter, Command, Stranger}

NextSecond == {1}
=============================================================================
