------------------------------ MODULE MCGate1 ------------------------------
(***************************************************************************)
(* Small instances of Gate1: one user's token, one that names nobody, and  *)
(* a handful of proofs, each wrong in at most one way.                     *)
(***************************************************************************)
EXTENDS Gate1

CONSTANTS j1, j2, j3

Token(name, key, claims) ==
  [name |-> name, verifies |-> TRUE, raises |-> FALSE, exp |-> 4, jkt |-> key,
   claims |-> claims]

Proof(jti, iat, ath) ==
  [jti |-> jti, wellFormed |-> TRUE, key |-> "ka", target |-> TRUE,
   iat |-> iat, ath |-> ath, raises |-> "nothing"]

alice == Token("alice", "ka", TRUE)

MCThreadTokens == {alice}
MCErrorProofs  == {Proof(j1, 0, "alice"), Proof(j2, 1, "bob")}
MCThreadProofs == MCErrorProofs \cup {[Proof(NoJti, 0, "alice") EXCEPT !.raises = "age"]}

\* A request that fails by itself, with nobody else in the gateway.
MCFaultyProofs == {Proof(j1, 0, "alice"), Proof(j2, 3, "alice"),
                   [Proof(NoJti, 0, "alice") EXCEPT !.raises = "key"]}

\* One thread can afford every kind of bad token and of bad proof.
MCSerialTokens ==
  {alice, Token("bob", "kb", TRUE), Token("nobody", "ka", FALSE),
   Token("bearer", NoKey, TRUE), [alice EXCEPT !.verifies = FALSE],
   [alice EXCEPT !.raises = TRUE]}

MCSerialProofs ==
  {Proof(j1, 0, "alice"), Proof(j2, 3, "alice"),
   Proof(j3, 2, "nobody"), Proof(NoJti, 0, "alice"),
   [Proof(NoJti, 0, "alice") EXCEPT !.target = FALSE],
   [Proof(NoJti, 1, "alice") EXCEPT !.wellFormed = FALSE]}
  \cup {[Proof(NoJti, 1, "alice") EXCEPT !.raises = r] : r \in Raising \ {"nothing"}}
=============================================================================
