------------------------------- MODULE Gate1 -------------------------------
(***************************************************************************)
(* Gate 1 of the gateway (gateway/gate1_auth.py): authentication of an     *)
(* access token and of the DPoP proof that comes with it, for several      *)
(* requests at once.  FastAPI runs the synchronous endpoint in a pool of   *)
(* threads, and all of them share one unlocked dictionary,                 *)
(* _seen_dpop_jti, the replay cache.                                       *)
(*                                                                         *)
(* A step is what CPython 3.11 (the Dockerfile's interpreter) runs between *)
(* two points where it may switch threads: calls and backward jumps.  So   *)
(* the scan and the deletions of the purge interleave entry by entry,      *)
(* while the test `jti in _seen` and the store that follows it do not      *)
(* separate.                                                               *)
(***************************************************************************)
EXTENDS Integers, FiniteSets

CONSTANTS
  Threads,          \* worker threads of the endpoint's pool
  Tokens,           \* access tokens requests may carry
  Proofs,           \* DPoP proofs requests may carry
  Jtis,             \* proof identifiers
  NoJti,            \* the jti of a proof without one
  NoKey,            \* no thumbprint: the token is not bound to a key
  NoRequest,        \* what an idle thread is working on
  FreshnessWindow,  \* DPOP_FRESHNESS_WINDOW_SECONDS
  MaxClock          \* bound of the model: the clock stops there

(***************************************************************************)
(* What Gate 1 can tell apart about its inputs.  A token: whether its      *)
(* signing key resolves and signature, issuer and azp are right            *)
(* (`verifies`), whether decoding it `raises` something else than a        *)
(* PyJWTError (an alg that does not fit the key: TypeError), its expiry,   *)
(* the thumbprint it is bound to and whether it names a tenant and a       *)
(* principal.  A proof: whether its header and its signature are right     *)
(* (`wellFormed`), its key's thumbprint, whether htm and htu match, its    *)
(* issue time, its jti, the token its ath names, and which operation it    *)
(* makes raise what nobody catches, when the code gets that far.           *)
(***************************************************************************)
TokenType == [name : STRING, verifies : BOOLEAN, raises : BOOLEAN, exp : Nat,
              jkt : STRING \cup {NoKey}, claims : BOOLEAN]

(* "thumbprint": the JWK lacks a member that _jwk_thumbprint reads with [],*)
(* a KeyError.  "key": from_jwk does not accept the JWK (InvalidKeyError,  *)
(* a PyJWTError, but raised outside the try), or its key does not fit the  *)
(* header's alg (TypeError).  "age": iat is a string of digits, which      *)
(* PyJWT accepts and the subtraction does not (TypeError).                 *)
Raising == {"nothing", "thumbprint", "key", "age"}

ProofType == [jti : Jtis \cup {NoJti}, wellFormed : BOOLEAN, key : STRING,
              target : BOOLEAN, iat : Nat, ath : STRING, raises : Raising]

ASSUME WindowAssumption == FreshnessWindow \in Nat
ASSUME ClockAssumption  == MaxClock \in Nat
ASSUME InputAssumption  == Tokens \subseteq TokenType /\ Proofs \subseteq ProofType
ASSUME JtisAssumption   == IsFiniteSet(Jtis) /\ NoJti \notin Jtis
\* A jti is a fresh uuid4 (agent/gateway_session.py): it names one proof.
ASSUME JtiAssumption    == \A p, q \in Proofs :
                             p.jti = q.jti /\ p.jti # NoJti => p = q

Requests == [token : Tokens, proof : Proofs]

Labels   == {"idle", "verify", "clock", "purge", "scan", "delete", "lookup",
             "bind", "done"}
Outcomes == {"none", "allow", "deny", "replay", "error"}

Absent == -1        \* the value of seen for a jti the dictionary does not hold

VARIABLES
  clock,      \* the wall clock, time.time() in whole seconds
  seen,       \* _seen_dpop_jti: jti -> expiry, or Absent
  pc,         \* where each thread is
  req,        \* the request it works on
  now,        \* its local `now`
  visited,    \* entries its scan of the dictionary has been through
  size,       \* the dictionary's size when that scan began
  expired,    \* its local list of expired entries
  outcome,    \* what evaluate_gate1 gave it
  uses        \* history: how often this process has recorded each proof

locals == <<req, now, visited, size, expired, outcome>>
vars   == <<clock, seen, pc, req, now, visited, size, expired, outcome, uses>>

Cached == {j \in Jtis : seen[j] # Absent}

TypeOK ==
  /\ clock \in Nat
  /\ seen \in [Jtis -> Nat \cup {Absent}]
  /\ pc \in [Threads -> Labels]
  /\ req \in [Threads -> Requests \cup {NoRequest}]
  /\ now \in [Threads -> Nat]
  /\ visited \in [Threads -> SUBSET Jtis]
  /\ size \in [Threads -> Nat]
  /\ expired \in [Threads -> SUBSET Jtis]
  /\ outcome \in [Threads -> Outcomes]
  /\ uses \in [Proofs -> Nat]

----------------------------------------------------------------------------
(* A process that has just started: the cache is empty. *)

Init ==
  /\ clock   = 0
  /\ seen    = [j \in Jtis |-> Absent]
  /\ pc      = [t \in Threads |-> "idle"]
  /\ req     = [t \in Threads |-> NoRequest]
  /\ now     = [t \in Threads |-> 0]
  /\ visited = [t \in Threads |-> {}]
  /\ size    = [t \in Threads |-> 0]
  /\ expired = [t \in Threads |-> {}]
  /\ outcome = [t \in Threads |-> "none"]
  /\ uses    = [p \in Proofs |-> 0]

Goto(t, from, to) == pc[t] = from /\ pc' = [pc EXCEPT ![t] = to]

(* evaluate_gate1 returns or raises: the thread is done with the gate. *)
Finish(t, from, result) ==
  /\ Goto(t, from, "done")
  /\ outcome' = [outcome EXCEPT ![t] = result]

(* set_security_context with the request's token and proof. *)
Receive(t) ==
  /\ Goto(t, "idle", "verify")
  /\ \E r \in Requests : req' = [req EXCEPT ![t] = r]
  /\ UNCHANGED <<clock, seen, now, visited, size, expired, outcome, uses>>

(* PyJWT's decode refuses a token at its expiry and an iat in the future. *)
NotExpired(token)      == clock < token.exp
NotFromTheFuture(proof) == proof.iat <= clock

(* evaluate_gate1 up to line 71. *)
TokenChecks(token) == token.verifies /\ NotExpired(token) /\ token.jkt # NoKey

(* The proof's checks up to the reading of the clock at line 155. *)
ProofChecks(proof, jkt) ==
  proof.key = jkt /\ proof.wellFormed /\ NotFromTheFuture(proof) /\ proof.target

(* The token and its proof, in the order of the code: the token's decode,  *)
(* its claims, the thumbprint of the proof's key, its comparison with the  *)
(* token's, the key itself, and what the proof says.                       *)
VerifyRaises(token, proof) ==
  \/ token.raises
  \/ TokenChecks(token) /\ proof.raises = "thumbprint"
  \/ TokenChecks(token) /\ proof.raises = "key" /\ proof.key = token.jkt

Verify(t) ==
  LET token  == req[t].token
      proof  == req[t].proof
      raises == VerifyRaises(token, proof)
      passes == TokenChecks(token) /\ ProofChecks(proof, token.jkt)
  IN
  /\ \/ Goto(t, "verify", "clock") /\ ~raises /\ passes /\ UNCHANGED outcome
     \/ Finish(t, "verify", "deny") /\ ~raises /\ ~passes
     \/ Finish(t, "verify", "error") /\ raises
  /\ UNCHANGED <<clock, seen, req, now, visited, size, expired, uses>>

FreshAt(proof, time) == time - proof.iat \in -FreshnessWindow .. FreshnessWindow

(* now = time.time(), the freshness check and the presence of a jti. *)
ReadClock(t) ==
  LET raises == req[t].proof.raises = "age"
      passes == FreshAt(req[t].proof, clock) /\ req[t].proof.jti # NoJti
  IN
  /\ \/ Goto(t, "clock", "purge") /\ ~raises /\ passes /\ UNCHANGED outcome
     \/ Finish(t, "clock", "deny") /\ ~raises /\ ~passes
     \/ Finish(t, "clock", "error") /\ raises
  /\ now' = [now EXCEPT ![t] = clock]
  /\ UNCHANGED <<clock, seen, req, visited, size, expired, uses>>
----------------------------------------------------------------------------
(* _purge_expired_jti.  The iterator over items() remembers the size of    *)
(* the dictionary; each of its steps raises RuntimeError when the size is  *)
(* another one, or when it meets more entries than it was promised.  (That *)
(* a resize may make it skip entries is left out: they stay for the next   *)
(* purge.)                                                                 *)

StartScan(t) ==
  /\ Goto(t, "purge", "scan")
  /\ size' = [size EXCEPT ![t] = Cardinality(Cached)]
  /\ UNCHANGED <<clock, seen, req, now, visited, expired, outcome, uses>>

\* Mutant: an entry is dropped one second early.
EntryExpiredEarly(expiry, time)  == expiry <= time

(* `expiry < now`: an entry is kept as long as its proof can be fresh. *)
EntryExpired(expiry, time)       == expiry < time

Unvisited(t) == Cached \ visited[t]

ChangedUnderScan(t) ==
  \/ Cardinality(Cached) # size[t]
  \/ Unvisited(t) # {} /\ Cardinality(visited[t]) = size[t]

\* Mutant: an expired entry is deleted as soon as the scan finds it.
ScanEntryDeleting(t) ==
  /\ pc[t] = "scan" /\ ~ChangedUnderScan(t)
  /\ \E j \in Unvisited(t) :
       /\ visited' = [visited EXCEPT ![t] = @ \cup {j}]
       /\ seen' = IF EntryExpired(seen[j], now[t]) THEN [seen EXCEPT ![j] = Absent] ELSE seen
  /\ UNCHANGED <<clock, pc, req, now, size, expired, outcome, uses>>

\* Mutant: the scan does not move on from the entry it has looked at.
ScanEntryForgetful(t) ==
  /\ pc[t] = "scan" /\ ~ChangedUnderScan(t)
  /\ \E j \in Unvisited(t) :
       expired' = [expired EXCEPT ![t] = IF EntryExpired(seen[j], now[t]) THEN @ \cup {j} ELSE @]
  /\ UNCHANGED <<clock, seen, pc, req, now, visited, size, outcome, uses>>

ScanEntry(t) ==
  /\ pc[t] = "scan" /\ ~ChangedUnderScan(t)
  /\ \E j \in Unvisited(t) :
       /\ visited' = [visited EXCEPT ![t] = @ \cup {j}]
       /\ expired' = [expired EXCEPT ![t] = IF EntryExpired(seen[j], now[t]) THEN @ \cup {j} ELSE @]
  /\ UNCHANGED <<clock, seen, pc, req, now, size, outcome, uses>>

ScanFails(t) ==
  /\ ChangedUnderScan(t)
  /\ Finish(t, "scan", "error")
  /\ UNCHANGED <<clock, seen, req, now, visited, size, expired, uses>>

EndScan(t) ==
  /\ ~ChangedUnderScan(t) /\ Unvisited(t) = {}
  /\ Goto(t, "scan", "delete")
  /\ UNCHANGED <<clock, seen, locals, uses>>

(* del _seen_dpop_jti[jti], one entry of the local list after the other:   *)
(* KeyError when another thread has deleted it first.                      *)
Delete(t) ==
  /\ pc[t] = "delete"
  /\ \E j \in expired[t] \cap Cached :
       /\ seen' = [seen EXCEPT ![j] = Absent]
       /\ expired' = [expired EXCEPT ![t] = @ \ {j}]
  /\ UNCHANGED <<clock, pc, req, now, visited, size, outcome, uses>>

DeleteFails(t) ==
  /\ expired[t] \ Cached # {}
  /\ Finish(t, "delete", "error")
  /\ UNCHANGED <<clock, seen, req, now, visited, size, expired, uses>>

EndPurge(t) ==
  /\ expired[t] = {}
  /\ Goto(t, "delete", "lookup")
  /\ UNCHANGED <<clock, seen, locals, uses>>
----------------------------------------------------------------------------
(* `if jti in _seen: raise` and `_seen[jti] = now + window`. *)

\* Mutant: the window subtracted instead of added.
ExpiryBackwards(time) == time - FreshnessWindow

\* Mutant: entries kept until now, not for the window.
ExpiryAtOnce(time) == time

Expiry(time) == time + FreshnessWindow

\* Mutant: recorded whatever the dictionary says.
RecordUnchecked(t) ==
  LET p == req[t].proof IN
  /\ Goto(t, "lookup", "bind")
  /\ seen' = [seen EXCEPT ![p.jti] = Expiry(now[t])]
  /\ uses' = [uses EXCEPT ![p] = @ + 1]
  /\ UNCHANGED <<clock, locals>>

RecordProof(t) ==
  LET p == req[t].proof IN
  /\ Goto(t, "lookup", "bind")
  /\ seen[p.jti] = Absent
  /\ seen' = [seen EXCEPT ![p.jti] = Expiry(now[t])]
  /\ uses' = [uses EXCEPT ![p] = @ + 1]
  /\ UNCHANGED <<clock, locals>>

DenyReplay(t) ==
  /\ pc[t] = "lookup" /\ seen[req[t].proof.jti] # Absent
  /\ Finish(t, "lookup", "replay")
  /\ UNCHANGED <<clock, seen, req, now, visited, size, expired, uses>>

(* The ath check, and the tenant and principal claims.  The proof has been *)
(* recorded by now, whatever they say.                                     *)
Bind(t) ==
  LET bound == req[t].proof.ath = req[t].token.name /\ req[t].token.claims IN
  /\ \/ Finish(t, "bind", "allow") /\ bound
     \/ Finish(t, "bind", "deny") /\ ~bound
  /\ UNCHANGED <<clock, seen, req, now, visited, size, expired, uses>>

(* The thread leaves the gate; its frame's locals die. *)
Leave(t) ==
  /\ Goto(t, "done", "idle")
  /\ req'     = [req EXCEPT ![t] = NoRequest]
  /\ now'     = [now EXCEPT ![t] = 0]
  /\ visited' = [visited EXCEPT ![t] = {}]
  /\ size'    = [size EXCEPT ![t] = 0]
  /\ expired' = [expired EXCEPT ![t] = {}]
  /\ outcome' = [outcome EXCEPT ![t] = "none"]
  /\ UNCHANGED <<clock, seen, uses>>

ThreadStep(t) ==
  \/ Verify(t) \/ ReadClock(t)
  \/ StartScan(t) \/ ScanEntry(t) \/ ScanFails(t) \/ EndScan(t)
  \/ Delete(t) \/ DeleteFails(t) \/ EndPurge(t)
  \/ RecordProof(t) \/ DenyReplay(t)
  \/ Bind(t) \/ Leave(t)

Tick == clock < MaxClock /\ clock' = clock + 1
        /\ UNCHANGED <<seen, pc, locals, uses>>

(* The pod is replaced: the process starts again with an empty cache. *)
Restart ==
  /\ seen'    = [j \in Jtis |-> Absent]
  /\ pc'      = [t \in Threads |-> "idle"]
  /\ req'     = [t \in Threads |-> NoRequest]
  /\ now'     = [t \in Threads |-> 0]
  /\ visited' = [t \in Threads |-> {}]
  /\ size'    = [t \in Threads |-> 0]
  /\ expired' = [t \in Threads |-> {}]
  /\ outcome' = [t \in Threads |-> "none"]
  /\ uses'    = [p \in Proofs |-> 0]
  /\ UNCHANGED clock

Next ==
  \/ \E t \in Threads : Receive(t) \/ ThreadStep(t)
  \/ Tick
  \/ Restart

Spec == Init /\ [][Next]_vars

(* A thread that has a request is scheduled again and again.  Nothing      *)
(* obliges requests to arrive, time to pass or the process to restart.     *)
FairSpec == Spec /\ \A t \in Threads : WF_vars(ThreadStep(t))

----------------------------------------------------------------------------
(* Properties *)

(* The replay cache never forgets a proof that could still pass the        *)
(* freshness check: as long as a recorded proof is fresh by the clock, its *)
(* jti is in the dictionary, whatever the threads are doing to it.         *)
FreshIsRemembered ==
  \A p \in Proofs :
    uses[p] > 0 /\ clock <= p.iat + FreshnessWindow => p.jti \in Cached

(* No proof gets past the replay check twice in the life of a process.     *)
(* Requests that do not overlap have this; requests that do have what      *)
(* ReplayGuard says.                                                       *)
SingleUse == \A p \in Proofs : uses[p] <= 1

(* evaluate_gate1 ends in a result or in Gate1Denied, which invoke turns   *)
(* into the generic denial ("a failure at any gate blocks execution        *)
(* outright with only a generic denial returned to the caller",            *)
(* gateway/main.py:5-6), never in an exception invoke does not expect.     *)
OnlyAllowOrDeny == \A t \in Threads : outcome[t] # "error"

(* What requests that do not overlap have of it: the purge never raises.   *)
(* An exception that invoke does not expect is then due to the request's   *)
(* own token or proof, never to what earlier requests have left in the     *)
(* dictionary or to the moment at which entries expire.                    *)
RaisesByItself(request) == request.token.raises \/ request.proof.raises # "nothing"

RaisesForCause == \A t \in Threads : outcome[t] = "error" => RaisesByItself(req[t])

(* The purge ends and every request that enters the gate leaves it.        *)
EveryRequestAnswered == \A t \in Threads : pc[t] # "idle" ~> pc[t] = "idle"

(* Gate 1 is a replay guard: what ReplayGuard promises of `uses`. *)
Guard == INSTANCE ReplayGuard
  WITH Proofs <- Proofs, FreshnessWindow <- FreshnessWindow, clock <- clock, uses <- uses
ImplementsReplayGuard == Guard!Spec
=============================================================================
