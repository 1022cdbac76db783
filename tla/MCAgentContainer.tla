-------------------------- MODULE MCAgentContainer --------------------------
(* Instances of AgentContainer for TLC; the bounds are in the cfg files.   *)
EXTENDS AgentContainer
=============================================================================
