------------------------- MODULE MCSessionEnvelope -------------------------
(***************************************************************************)
(* Small instances of SessionEnvelope: one user name in two tenants, and   *)
(* an action that only the fallback threshold covers.                      *)
(***************************************************************************)
EXTENDS SessionEnvelope, TLC

CONSTANTS t1, t2

Caller(tenant, action) ==
  [tenant |-> tenant, principal |-> "alice", action |-> action]

MCCallers == {Caller("a", "updateRecord"), Caller("b", "updateRecord"),
              Caller("a", "other")}

MCOneCaller == {Caller("a", "updateRecord")}

MCThresholds == "updateRecord" :> [max |-> 2, window |-> 2]

Interchangeable == Permutations(Threads)

MCFallback == [max |-> 1, window |-> 2]
=============================================================================
