-------------------------- MODULE MCGatewayAttacks --------------------------
(***************************************************************************)
(* GatewayAttacks with the entities, the limits and the bounds the         *)
(* repository ships: nothing about Tier 1 had to be made smaller.          *)
(***************************************************************************)
EXTENDS GatewayAttacks, TLC

MCUserTenant   == "alice" :> "tenant-a" @@ "bob" :> "tenant-b"
MCRecordTenant == "rec-001" :> "tenant-a" @@ "rec-002" :> "tenant-b"
MCAgentActions == "invoice-agent-v2" :> {"readRecord", "updateRecord"}
                  @@ "invoice-agent-readonly" :> {"readRecord"}

MCLimits == "readRecord" :> 10 @@ "updateRecord" :> 3

\* The corpus fits what the repository ships.
ASSUME CorpusFitsAssumption == CorpusFits
=============================================================================
