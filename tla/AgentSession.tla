---------------------------- MODULE AgentSession ----------------------------
(***************************************************************************)
(* The gateway's honest clients over time: the agent's GatewaySession      *)
(* (agent/gateway_session.py), which fetches one DPoP-bound token and      *)
(* builds a new proof for every call, and the command-line client          *)
(* (client/call_gateway.py), which makes one call and ends.  The clients'  *)
(* clock need not be the gateway's (Keycloak runs beside the gateway and   *)
(* shares its own), a call travels for as long as it likes, the client     *)
(* gives up after httpx's timeouts and never sends a call again, and the   *)
(* gateway goes on with what the client gave up.                           *)
(*                                                                         *)
(* Of the gateway this module keeps Gate 1's checks of time, binding and   *)
(* replay, each at its own reading of the clock, and the end of the        *)
(* pipeline, which a suspended thread reaches any time later.  Whether a   *)
(* later gate denies what Gate 1 lets through is left open; Gate1 has the  *)
(* threads' steps inside the replay cache.                                 *)
(***************************************************************************)
EXTENDS Integers, Sequences

CONSTANTS
  Sessions,         \* the sessions clients open
  Owner,            \* the user each of them is opened for
  OneShot,          \* those of client/call_gateway.py
  Lifetime,         \* accessTokenLifespan of the realm, keycloak/ztap-realm.json
  FreshnessWindow,  \* DPOP_FRESHNESS_WINDOW_SECONDS
  Timeout,          \* the longest a client waits for a call (see GiveUp)
  Skews,            \* how far the clients' clock may be ahead of the gateway's
  MaxClock,         \* bound of the model: the last time
  MaxCalls,         \* bound of the model: calls of all sessions
  NoSession         \* a session that has not been opened

ASSUME TimesAssumption == {Lifetime, FreshnessWindow, Timeout, MaxClock} \subseteq Nat
ASSUME CallsAssumption == MaxCalls \in Nat
ASSUME SkewsAssumption == Skews \subseteq Int
ASSUME OneShotAssumption == OneShot \subseteq Sessions

Users == {Owner[s] : s \in Sessions}

VARIABLES
  clock,     \* the gateway's clock
  ahead,     \* how far the clients' clock is ahead of it
  session,   \* the state of each session object: its key and its token
  call,      \* the calls sent, in order
  stage,     \* how far the gateway is with each
  checked,   \* history: when it looked at the call's token
  refusal,   \* history: why Gate 1 refused it
  answer,    \* what its client knows
  seen       \* _seen_dpop_jti, as pairs of a jti and its expiry

vars == <<clock, ahead, session, call, stage, checked, refusal, answer, seen>>

TokenType   == [user : Users, jkt : Sessions, exp : Int]
SessionType == [key : Sessions, token : TokenType]
ProofType   == [key : Sessions, jti : 1 .. MaxCalls, iat : Int]
CallType    == [session : Sessions, token : TokenType, proof : ProofType, sent : Nat]
Reasons     == {"expired", "binding", "future", "stale", "replay"}

Stages      == {"sent", "token", "proof", "passed", "allow", "deny", "error"}
Answers     == {"waiting", "result", "denied", "failed", "abandoned"}

Sent == 1 .. Len(call)

TypeOK ==
  /\ clock \in 0 .. MaxClock /\ ahead \in Skews
  /\ session \in [Sessions -> SessionType \cup {NoSession}]
  /\ call \in Seq(CallType)
  /\ stage \in [Sent -> Stages]
  /\ checked \in [Sent -> Nat]
  /\ refusal \in [Sent -> Reasons \cup {"nothing"}]
  /\ answer \in [Sent -> Answers]
  /\ seen \in SUBSET [jti : 1 .. MaxCalls, expiry : Int]

Init ==
  /\ clock = 0 /\ ahead \in Skews
  /\ session = [s \in Sessions |-> NoSession]
  /\ call = <<>> /\ stage = <<>> /\ checked = <<>> /\ refusal = <<>> /\ answer = <<>>
  /\ seen = {}

----------------------------------------------------------------------------
(* The clients. *)

(* A session's key is generated with it, so the session names it; Keycloak *)
(* binds the token to the key of the proof it is asked with.               *)
Fetched(s) ==
  [key   |-> s,
   token |-> [user |-> Owner[s], jkt |-> s, exp |-> clock + Lifetime]]

\* Mutant: key and token are kept in one place, which sessions share.
OpenShared(s) ==
  /\ session[s] = NoSession
  /\ session' = [o \in Sessions |-> IF o = s \/ session[o] # NoSession
                                    THEN Fetched(s) ELSE NoSession]
  /\ UNCHANGED <<clock, ahead, call, stage, checked, refusal, answer, seen>>

(* __post_init__.  When Keycloak refuses or does not answer, it raises and *)
(* there is no session: the state does not change.                         *)
Open(s) ==
  /\ session[s] = NoSession
  /\ session' = [session EXCEPT ![s] = Fetched(s)]
  /\ UNCHANGED <<clock, ahead, call, stage, checked, refusal, answer, seen>>

\* Mutant: the time of the call as its identifier.
JtiOfTheSecond == clock + ahead

(* uuid.uuid4(): the number of the call. *)
Jti == Len(call) + 1

BuildProof(s) == [key |-> session[s].key, jti |-> Jti, iat |-> clock + ahead]

(* The POST of a call with the session's token and a new proof.  The bound *)
(* on the clock leaves time for the timeout.                               *)
Post(s) ==
  /\ session[s] # NoSession /\ Len(call) < MaxCalls /\ clock + Timeout <= MaxClock
  /\ call' = Append(call, [session |-> s, token |-> session[s].token,
                           proof |-> BuildProof(s), sent |-> clock])
  /\ stage' = Append(stage, "sent") /\ checked' = Append(checked, 0)
  /\ refusal' = Append(refusal, "nothing") /\ answer' = Append(answer, "waiting")
  /\ UNCHANGED <<clock, ahead, session, seen>>

(* GatewaySession.call.  pydantic-ai runs the tool calls of one answer of  *)
(* the model in threads: the session may have other calls under way.       *)
AgentCall(s) == s \notin OneShot /\ Post(s)

(* main of call_gateway.py: the only call of its session. *)
ClientCall(s) == s \in OneShot /\ (\A c \in Sent : call[c].session # s) /\ Post(s)

(* The client's view of a call it still waits for: the validated answer, a *)
(* 403 (GatewayDenied, or the status the script prints), any other error   *)
(* (raise_for_status), a connection that breaks, or httpx's timeouts.      *)
(* Nothing is ever sent again.                                             *)
Tell(c, what) == answer[c] = "waiting" /\ answer' = [answer EXCEPT ![c] = what]

Answer(c) ==
  /\ \/ stage[c] = "allow" /\ Tell(c, "result")
     \/ stage[c] = "deny" /\ Tell(c, "denied")
     \/ stage[c] = "error" /\ Tell(c, "failed")
  /\ UNCHANGED <<clock, ahead, session, call, stage, checked, refusal, seen>>

Disconnect(c) ==
  /\ Tell(c, "abandoned")
  /\ UNCHANGED <<clock, ahead, session, call, stage, checked, refusal, seen>>

\* Mutant: timeout=None, and the client waits.
WaitForEver(c) == FALSE /\ UNCHANGED vars

(* httpx's default of 5 seconds bounds each phase of a call on its own: the *)
(* connection, the sending, and the wait for the answer, which the gateway *)
(* sends in one piece.  Timeout is their sum.                              *)
GiveUp(c) == clock - call[c].sent >= Timeout /\ Disconnect(c)

----------------------------------------------------------------------------
(* The gateway. *)

\* Mutant: the expiry compared with the proof's issue time.
ExpiredWhenBuilt(c) == call[c].proof.iat >= call[c].token.exp

Expired(c) == clock >= call[c].token.exp

Stale(c) == clock - call[c].proof.iat \notin -FreshnessWindow .. FreshnessWindow

(* What is left of the replay cache after a purge. *)
Purged == {e \in seen : e.expiry >= clock}

Deny(c, why) ==
  stage' = [stage EXCEPT ![c] = "deny"] /\ refusal' = [refusal EXCEPT ![c] = why]

Reach(c, next) == stage' = [stage EXCEPT ![c] = next] /\ UNCHANGED refusal

(* _verify_access_token_claims: PyJWT compares the expiry with its own     *)
(* reading of the clock.                                                   *)
CheckToken(c) ==
  /\ stage[c] = "sent"
  /\ \/ Expired(c) /\ Deny(c, "expired")
     \/ ~ Expired(c) /\ Reach(c, "token")
  /\ checked' = [checked EXCEPT ![c] = clock]
  /\ UNCHANGED <<clock, ahead, session, call, answer, seen>>

(* The proof's key against the token's binding, then jwt.decode, which     *)
(* refuses an issue time in the future.                                    *)
CheckProof(c) ==
  LET proof == call[c].proof IN
  /\ stage[c] = "token"
  /\ \/ proof.key # call[c].token.jkt /\ Deny(c, "binding")
     \/ /\ proof.key = call[c].token.jkt
        /\ \/ proof.iat > clock /\ Deny(c, "future")
           \/ proof.iat <= clock /\ Reach(c, "proof")
  /\ UNCHANGED <<clock, ahead, session, call, checked, answer, seen>>

(* Freshness and replay, at the reading of line 155.  A purge that meets   *)
(* another thread's raises (lines 178-181); what it leaves, the next       *)
(* purge removes.                                                          *)
CheckReplay(c) ==
  LET jti == call[c].proof.jti IN
  /\ stage[c] = "proof"
  /\ \/ Stale(c) /\ Deny(c, "stale") /\ UNCHANGED seen
     \/ ~ Stale(c) /\ Reach(c, "error") /\ UNCHANGED seen
     \/ /\ ~ Stale(c)
        /\ \/ (\E e \in Purged : e.jti = jti) /\ Deny(c, "replay") /\ seen' = Purged
           \/ /\ \A e \in Purged : e.jti # jti
              /\ Reach(c, "passed")
              /\ seen' = Purged \cup {[jti |-> jti, expiry |-> clock + FreshnessWindow]}
  /\ UNCHANGED <<clock, ahead, session, call, checked, answer>>

(* The other gates and the answer, whether or not the client still waits.  *)
Decide(c) ==
  /\ stage[c] = "passed"
  /\ \E v \in {"allow", "deny", "error"} : Reach(c, v)
  /\ UNCHANGED <<clock, ahead, session, call, checked, answer, seen>>

(* Time does not pass the sum of a client's timeouts: it gives up by then. *)
Tick ==
  /\ clock < MaxClock
  /\ \A c \in Sent : answer[c] = "waiting" => clock - call[c].sent < Timeout
  /\ clock' = clock + 1
  /\ UNCHANGED <<ahead, session, call, stage, checked, refusal, answer, seen>>

Next ==
  \/ \E s \in Sessions : Open(s) \/ AgentCall(s) \/ ClientCall(s)
  \/ \E c \in Sent : CheckToken(c) \/ CheckProof(c) \/ CheckReplay(c) \/ Decide(c)
  \/ \E c \in Sent : Answer(c) \/ Disconnect(c) \/ GiveUp(c)
  \/ Tick

Spec == Init /\ [][Next]_vars

(* Time passes and httpx keeps to its timeouts.  Nothing is assumed of the *)
(* gateway, the network or the agent.                                      *)
FairSpec == Spec /\ WF_vars(Tick) /\ WF_vars(\E c \in Sent : GiveUp(c))

----------------------------------------------------------------------------
(* A client that still waits for a call meets no refusal of Gate 1 but the *)
(* token's expiry, unless its clock is ahead of the gateway's or so far    *)
(* behind that the timeout reaches beyond the freshness window: proofs are *)
(* new for every call (gateway_session.py:49-60), so neither the calls of  *)
(* other threads and sessions nor the time they travel get in the way.     *)
Forgone(c) == answer[c] = "abandoned"

RefusedForCause ==
  \A c \in Sent :
    \/ refusal[c] \in {"nothing", "expired"}
    \/ refusal[c] = "future" /\ ahead > 0
    \/ /\ refusal[c] = "stale"
       /\ Forgone(c) \/ Timeout - ahead > FreshnessWindow

(* The token is fetched once and never again (gateway_session.py:89): of   *)
(* the calls of a session, under way or still to come, none gets past the  *)
(* check of its token from the moment one has been refused as expired.     *)
(* One that got past it earlier may still be allowed later.                *)
TokenFound(c) == stage[c] # "sent" /\ refusal[c] # "expired"

ExpiredForGood ==
  \A c, d \in Sent :
    /\ refusal[c] = "expired" /\ call[d].session = call[c].session
    /\ TokenFound(d)
    => checked[d] < checked[c]

(* "tenant scoping for a given call comes entirely from which session's    *)
(* bound token is used to make it, never from any state the agent process  *)
(* itself holds" (gateway_session.py:74-78): a call that gets past Gate 1  *)
(* bears a token of the user its session was opened for, bound to that     *)
(* session's key, which signed its proof.                                  *)
OwnCalls ==
  \A c \in Sent :
    stage[c] \in {"passed", "allow"} =>
      /\ call[c].token.user = Owner[call[c].session]
      /\ call[c].token.jkt = call[c].session
      /\ call[c].proof.key = call[c].session

(* Every call ends for the client, whatever becomes of it at the gateway.  *)
EveryCallEnds ==
  \A c \in 1 .. MaxCalls :
    c \in Sent ~> (c \in Sent /\ answer[c] # "waiting")
=============================================================================
