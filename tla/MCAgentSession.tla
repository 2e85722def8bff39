--------------------------- MODULE MCAgentSession ---------------------------
(***************************************************************************)
(* A session of the agent and a run of the command-line client, for users  *)
(* of their own.  The times keep the order of the real ones: Timeout <     *)
(* FreshnessWindow <= Lifetime; a clock two seconds behind makes the       *)
(* timeout reach beyond the window, a clock one second ahead puts proofs   *)
(* in the future.                                                          *)
(***************************************************************************)
EXTENDS AgentSession

MCOwner == [alice1 |-> "alice", script |-> "bob"]
MCSessions == DOMAIN MCOwner
MCSkews == {-2, 0, 1}
=============================================================================
