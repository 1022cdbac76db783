--------------------------- MODULE MCPairingCodes ---------------------------
(* The operator's chat and a group chat, on two channels. *)
EXTENDS PairingCodes, TLC
CONSTANTS tgDm, waGroup
MCChannelOf == tgDm :> "tg" @@ waGroup :> "wa"
Symmetry == Permutations(Codes) \cup Permutations(Tasks)
=============================================================================
