---------------------------- MODULE ReplayGuard ----------------------------
(***************************************************************************)
(* What Gate 1's replay cache (gateway/gate1_auth.py) promises about DPoP  *)
(* proofs, without threads and without a dictionary that forgets: a proof  *)
(* gets past the replay check only once while it is fresh.  It may get     *)
(* past it again only after its freshness has run out, which the cache     *)
(* cannot rule out for a request that read the clock before that moment.   *)
(***************************************************************************)
EXTENDS Integers

CONSTANTS Proofs, FreshnessWindow

VARIABLES clock, uses   \* uses[p]: how often p got past the check so far

Init == clock = 0 /\ uses = [p \in Proofs |-> 0]

Stale(p) == clock > p.iat + FreshnessWindow

Use(p) ==
  /\ uses[p] = 0 \/ Stale(p)
  /\ uses' = [uses EXCEPT ![p] = @ + 1]
  /\ UNCHANGED clock

Tick == clock' = clock + 1 /\ UNCHANGED uses

\* A new process knows nothing of the proofs the old one has seen.
Restart == uses' = [p \in Proofs |-> 0] /\ UNCHANGED clock

Next == Tick \/ Restart \/ \E p \in Proofs : Use(p)

Spec == Init /\ [][Next]_<<clock, uses>>
=============================================================================
