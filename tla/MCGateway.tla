----------------------------- MODULE MCGateway -----------------------------
(***************************************************************************)
(* A small instance of Gateway over the entities the repository ships:     *)
(* alice of tenant-a, bob of tenant-b, a record each and the two agents.   *)
(***************************************************************************)
EXTENDS Gateway, TLC

CONSTANTS t1, t2

MCUserTenant   == "alice" :> "tenant-a" @@ "bob" :> "tenant-b"
MCRecordTenant == "rec-001" :> "tenant-a" @@ "rec-002" :> "tenant-b"
MCAgentActions == "invoice-agent-v2" :> {"readRecord", "updateRecord"}
                  @@ "invoice-agent-readonly" :> {"readRecord"}

alice == [ok |-> TRUE, principal |-> "alice", tenant |-> "tenant-a"]
bob   == [ok |-> TRUE, principal |-> "bob", tenant |-> "tenant-b"]

\* What a JSON body with NaN for the amount becomes.
NotANumber == [recordId |-> "text", amount |-> "nan", value |-> 0]

Amount(v) == [recordId |-> "text", amount |-> "number", value |-> v]

Ask(token, action, resource, args) ==
  [headers |-> TRUE, dpopScheme |-> TRUE, token |-> token,
   action |-> action, resource |-> resource, args |-> args]

MCRequests ==
  {Ask(alice, "readRecord", "rec-001", Amount(0)),
   Ask(alice, "updateRecord", "rec-001", Amount(2)),
   Ask(alice, "updateRecord", "rec-001", NotANumber),
   Ask(bob, "readRecord", "rec-002", Amount(0)),
   Ask(bob, "readRecord", "rec-001", Amount(0)),
   [Ask(bob, "readRecord", "rec-002", Amount(0)) EXCEPT !.dpopScheme = FALSE],
   [Ask(bob, "readRecord", "rec-002", Amount(0)) EXCEPT !.headers = FALSE]}

MCNaNRequests ==
  {Ask(alice, "updateRecord", "rec-001", NotANumber),
   Ask(alice, "readRecord", "rec-001", Amount(0))}

Interchangeable == Permutations(Threads)

MCLimits == [a \in {"readRecord", "updateRecord"} |-> 1]
=============================================================================
