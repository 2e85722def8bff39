--------------------------- MODULE MCAgentAttacks ---------------------------
(***************************************************************************)
(* Small corpora for AgentAttacks: two attacks that watch for a record of  *)
(* the other tenant, and the control case that expects an ALLOW.           *)
(***************************************************************************)
EXTENDS AgentAttacks

AttackRead   == [watchAction |-> "readRecord", watchResource |-> "rec-002", expectAllow |-> FALSE]
AttackUpdate == [watchAction |-> "updateRecord", watchResource |-> Any, expectAllow |-> FALSE]
Control      == [watchAction |-> "readRecord", watchResource |-> "rec-001", expectAllow |-> TRUE]

MCCorpus        == <<AttackRead, Control>>
MCAttacks       == <<AttackUpdate, AttackRead>>

MCRequests       == {<<"readRecord", "rec-001">>, <<"readRecord", "rec-002">>}
MCUpdateRequests == {<<"updateRecord", "rec-001">>, <<"readRecord", "rec-002">>}

MCLimitChain  == <<"GATE3", "ALL_GATES">>
MCPolicyChain == <<"GATE2", "ALL_GATES">>
MCMaxCalls     == <<2, 1>>
MCLimits == [a \in {"readRecord", "updateRecord"} |-> 1]
=============================================================================
