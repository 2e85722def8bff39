------------------------- MODULE AgentSessionProofs -------------------------
(***************************************************************************)
(* Proofs about the gateway's clients for any number of sessions and       *)
(* calls, any lifetimes, windows and timeouts, and any difference of the   *)
(* clocks: whose calls get past Gate 1, until when, and what a client may  *)
(* be refused for.                                                         *)
(***************************************************************************)
EXTENDS AgentSession, SequenceTheorems, TLAPS

(***************************************************************************)
(* The inductive invariant.  A call carries its session's only token and a *)
(* proof numbered for it alone; what it carries never changes, so that     *)
(* what the gateway found when it looked stays true of it.  A call that    *)
(* Gate 1 has not let through has left nothing in the replay cache.        *)
(***************************************************************************)
UnderWay == {"sent", "token", "proof", "passed"}

SessionsOwnTheirs ==
  \A s \in Sessions :
    session[s] # NoSession => /\ session[s].key = s
                              /\ session[s].token.jkt = s
                              /\ session[s].token.user = Owner[s]

CallsCarryTheirs ==
  \A c \in Sent :
    /\ session[call[c].session] # NoSession
    /\ call[c].token = session[call[c].session].token
    /\ call[c].proof.key = call[c].session
    /\ call[c].proof.jti = c
    /\ call[c].proof.iat = call[c].sent + ahead

WaitingInTime ==
  \A c \in Sent : /\ call[c].sent <= clock
                  /\ answer[c] = "waiting" => clock - call[c].sent <= Timeout

UntoldUnderWay ==
  \A c \in Sent : stage[c] \in UnderWay =>
    refusal[c] = "nothing" /\ answer[c] \in {"waiting", "abandoned"}

SeenHavePassed ==
  \A e \in seen : e.jti \in Sent /\ stage[e.jti] \notin {"sent", "token", "proof"}

IssuedBefore ==
  \A c \in Sent : stage[c] = "proof" => call[c].proof.iat <= clock

TokensLookedAt ==
  \A c \in Sent : /\ refusal[c] = "expired" => checked[c] >= call[c].token.exp
                  /\ TokenFound(c) => checked[c] < call[c].token.exp

Carried   == SessionsOwnTheirs /\ CallsCarryTheirs
Pending   == WaitingInTime /\ UntoldUnderWay /\ SeenHavePassed /\ IssuedBefore
LookedAt  == TokensLookedAt /\ RefusedForCause

Inv == TypeOK /\ Carried /\ Pending /\ LookedAt

----------------------------------------------------------------------------
(* The sequences of calls and of what became of them. *)

(* Appending to a function of 1 .. n extends it and leaves the rest. *)
LEMMA AppendFunction ==
  ASSUME NEW S, NEW n \in Nat, NEW f \in [1 .. n -> S], NEW e \in S
  PROVE  /\ Append(f, e) \in [1 .. n + 1 -> S]
         /\ Append(f, e)[n + 1] = e
         /\ \A i \in 1 .. n : Append(f, e)[i] = f[i]
<1>1. f \in Seq(S)
  BY SeqDef
<1>2. Len(f) = n
  BY <1>1, LenProperties
<1>3. Append(f, e) \in Seq(S) /\ Len(Append(f, e)) = n + 1
  BY <1>1, <1>2
<1>4. Append(f, e)[n + 1] = e
  BY <1>1, <1>2
<1>5. \A i \in 1 .. n : Append(f, e)[i] = f[i]
  BY <1>1, <1>2
<1> QED
  BY <1>3, <1>4, <1>5, LenProperties

LEMMA Times ==
  ASSUME TypeOK
  PROVE  clock \in Nat /\ clock <= MaxClock /\ MaxClock \in Nat /\ ahead \in Int
<1>1. clock \in 0 .. MaxClock /\ ahead \in Skews
  BY DEF TypeOK
<1> QED
  BY <1>1, SkewsAssumption, TimesAssumption

LEMMA CallFields ==
  ASSUME TypeOK, NEW c \in Sent
  PROVE  /\ call[c] \in CallType
         /\ call[c].session \in Sessions
         /\ call[c].sent \in Nat
         /\ call[c].token.exp \in Int
         /\ call[c].proof.iat \in Int
         /\ clock \in Int /\ ahead \in Int
<1>1. call[c] \in CallType
  BY ElementOfSeq DEF TypeOK, Sent
<1>2. call[c].session \in Sessions /\ call[c].sent \in Nat
  BY <1>1 DEF CallType
<1>3. call[c].token \in TokenType /\ call[c].proof \in ProofType
  BY <1>1 DEF CallType
<1> QED
  BY <1>1, <1>2, <1>3, Times DEF TokenType, ProofType

(* What a new call adds, and that it leaves the earlier ones alone. *)
LEMMA PostEffect ==
  ASSUME TypeOK, NEW s \in Sessions, Post(s), NEW n, n = Len(call) + 1
  PROVE  /\ n \in 1 .. MaxCalls /\ n \notin Sent
         /\ Sent' = Sent \cup {n}
         /\ \A c \in Sent : /\ call'[c] = call[c] /\ stage'[c] = stage[c]
                            /\ checked'[c] = checked[c] /\ refusal'[c] = refusal[c]
                            /\ answer'[c] = answer[c]
         /\ call'[n] = [session |-> s, token |-> session[s].token,
                        proof |-> BuildProof(s), sent |-> clock]
         /\ stage'[n] = "sent" /\ checked'[n] = 0
         /\ refusal'[n] = "nothing" /\ answer'[n] = "waiting"
         /\ TypeOK'
<1> DEFINE new == [session |-> s, token |-> session[s].token,
                   proof |-> BuildProof(s), sent |-> clock]
<1>0. call \in Seq(CallType) /\ Len(call) \in Nat
  <2>1. call \in Seq(CallType)
    BY DEF TypeOK
  <2> QED
    BY <2>1, LenProperties
<1>1. n = Len(call) + 1 /\ n \in 1 .. MaxCalls /\ Len(call) \in Nat
  BY <1>0, CallsAssumption DEF Post
<1>2. session[s] \in SessionType
  BY DEF TypeOK, Post
<1>3. clock \in Nat /\ clock + ahead \in Int
  BY Times
<1>4. new \in CallType
  BY <1>1, <1>2, <1>3 DEF BuildProof, Jti, CallType, ProofType, SessionType
<1>5. call \in [1 .. Len(call) -> CallType]
  BY LenProperties DEF TypeOK
<1>6. /\ call' = Append(call, new) /\ stage' = Append(stage, "sent")
      /\ checked' = Append(checked, 0) /\ refusal' = Append(refusal, "nothing")
      /\ answer' = Append(answer, "waiting")
      /\ UNCHANGED <<clock, ahead, session, seen>>
  BY DEF Post
<1>7. call' \in Seq(CallType) /\ Len(call') = Len(call) + 1
  BY <1>0, <1>4, <1>6
<1>8. Sent' = Sent \cup {n} /\ Sent' = 1 .. Len(call) + 1 /\ n \notin Sent
  BY <1>1, <1>7 DEF Sent
<1>9. call'[n] = new /\ \A c \in Sent : call'[c] = call[c]
  BY <1>1, <1>4, <1>5, <1>6, AppendFunction DEF Sent
<1>10. /\ stage' \in [Sent' -> Stages]
       /\ stage'[n] = "sent" /\ \A c \in Sent : stage'[c] = stage[c]
  <2> DEFINE S == Stages
  <2>1. stage \in [1 .. Len(call) -> S] /\ "sent" \in S
    BY DEF TypeOK, Sent, Stages, Answers
  <2> HIDE DEF S
  <2>2. Append(stage, "sent") \in [1 .. n -> S]
    BY <1>1, <2>1, AppendFunction
  <2>3. Append(stage, "sent")[n] = "sent"
    BY <1>1, <2>1, AppendFunction
  <2>4. \A i \in 1 .. Len(call) : Append(stage, "sent")[i] = stage[i]
    BY <1>1, <2>1, AppendFunction
  <2> QED
    BY <1>6, <1>8, <2>2, <2>3, <2>4 DEF S, Sent
<1>11. /\ checked' \in [Sent' -> Nat]
       /\ checked'[n] = 0 /\ \A c \in Sent : checked'[c] = checked[c]
  <2> DEFINE S == Nat
  <2>1. checked \in [1 .. Len(call) -> S] /\ 0 \in S
    BY DEF TypeOK, Sent, Stages, Answers
  <2> HIDE DEF S
  <2>2. Append(checked, 0) \in [1 .. n -> S]
    BY <1>1, <2>1, AppendFunction
  <2>3. Append(checked, 0)[n] = 0
    BY <1>1, <2>1, AppendFunction
  <2>4. \A i \in 1 .. Len(call) : Append(checked, 0)[i] = checked[i]
    BY <1>1, <2>1, AppendFunction
  <2> QED
    BY <1>6, <1>8, <2>2, <2>3, <2>4 DEF S, Sent
<1>12. /\ refusal' \in [Sent' -> Reasons \cup {"nothing"}]
       /\ refusal'[n] = "nothing" /\ \A c \in Sent : refusal'[c] = refusal[c]
  <2> DEFINE S == Reasons \cup {"nothing"}
  <2>1. refusal \in [1 .. Len(call) -> S] /\ "nothing" \in S
    BY DEF TypeOK, Sent, Stages, Answers
  <2> HIDE DEF S
  <2>2. Append(refusal, "nothing") \in [1 .. n -> S]
    BY <1>1, <2>1, AppendFunction
  <2>3. Append(refusal, "nothing")[n] = "nothing"
    BY <1>1, <2>1, AppendFunction
  <2>4. \A i \in 1 .. Len(call) : Append(refusal, "nothing")[i] = refusal[i]
    BY <1>1, <2>1, AppendFunction
  <2> QED
    BY <1>6, <1>8, <2>2, <2>3, <2>4 DEF S, Sent
<1>13. /\ answer' \in [Sent' -> Answers]
       /\ answer'[n] = "waiting" /\ \A c \in Sent : answer'[c] = answer[c]
  <2> DEFINE S == Answers
  <2>1. answer \in [1 .. Len(call) -> S] /\ "waiting" \in S
    BY DEF TypeOK, Sent, Stages, Answers
  <2> HIDE DEF S
  <2>2. Append(answer, "waiting") \in [1 .. n -> S]
    BY <1>1, <2>1, AppendFunction
  <2>3. Append(answer, "waiting")[n] = "waiting"
    BY <1>1, <2>1, AppendFunction
  <2>4. \A i \in 1 .. Len(call) : Append(answer, "waiting")[i] = answer[i]
    BY <1>1, <2>1, AppendFunction
  <2> QED
    BY <1>6, <1>8, <2>2, <2>3, <2>4 DEF S, Sent
<1>14. TypeOK'
  BY <1>6, <1>7, <1>10, <1>11, <1>12, <1>13 DEF TypeOK
<1> QED
  BY <1>1, <1>8, <1>9, <1>10, <1>11, <1>12, <1>13, <1>14

----------------------------------------------------------------------------
(* The invariant holds. *)

(* A step of the gateway for a call under way leaves the calls and the     *)
(* rest of its work alone; it refuses only what it is done with.           *)
GatewayStep(c) == CheckToken(c) \/ CheckProof(c) \/ CheckReplay(c) \/ Decide(c)

LEMMA GatewayEffect ==
  ASSUME TypeOK, NEW c \in Sent, GatewayStep(c)
  PROVE  /\ UNCHANGED <<clock, ahead, session, call, answer, Sent>>
         /\ stage[c] \in UnderWay /\ stage'[c] # "sent"
         /\ stage'[c] \in UnderWay => UNCHANGED refusal
         /\ \A d \in Sent \ {c} : /\ stage'[d] = stage[d] /\ checked'[d] = checked[d]
                                  /\ refusal'[d] = refusal[d]
         /\ \A e \in seen' : e \in seen \/ (e.jti = call[c].proof.jti /\ stage'[c] = "passed")
         /\ TypeOK'
<1> USE DEF GatewayStep, CheckToken, CheckProof, CheckReplay, Decide
<1>1. UNCHANGED <<clock, ahead, session, call, answer, Sent>>
  BY DEF Sent
<1>2. stage[c] \in UnderWay
  BY DEF UnderWay
<1>3. \/ \E next \in Stages \ {"sent"} : Reach(c, next)
      \/ \E why \in Reasons : Deny(c, why)
  BY DEF Stages, Reasons
<1>4. /\ stage' \in [Sent -> Stages] /\ refusal' \in [Sent -> Reasons \cup {"nothing"}]
      /\ stage'[c] # "sent"
      /\ stage'[c] \in UnderWay => UNCHANGED refusal
      /\ \A d \in Sent \ {c} : stage'[d] = stage[d] /\ refusal'[d] = refusal[d]
  <2>1. CASE \E next \in Stages \ {"sent"} : Reach(c, next)
    BY <2>1 DEF Reach, TypeOK
  <2>2. CASE \E why \in Reasons : Deny(c, why)
    BY <2>2 DEF Deny, TypeOK, Stages, UnderWay
  <2> QED
    BY <1>3, <2>1, <2>2
<1>5. checked' = [checked EXCEPT ![c] = clock] \/ UNCHANGED checked
  OBVIOUS
<1>6. checked' \in [Sent -> Nat] /\ \A d \in Sent \ {c} : checked'[d] = checked[d]
  BY <1>5, Times DEF TypeOK
<1>7. \/ seen' \in {Purged, seen}
      \/ /\ seen' = Purged \cup {[jti |-> call[c].proof.jti, expiry |-> clock + FreshnessWindow]}
         /\ stage' = [stage EXCEPT ![c] = "passed"]
  BY DEF Reach
<1>8. stage' = [stage EXCEPT ![c] = "passed"] => stage'[c] = "passed"
  BY DEF TypeOK
<1>9. \A e \in seen' : e \in seen \/ (e.jti = call[c].proof.jti /\ stage'[c] = "passed")
  BY <1>7, <1>8 DEF Purged
<1>10. seen' \in SUBSET [jti : 1 .. MaxCalls, expiry : Int]
  <2>1. seen \in SUBSET [jti : 1 .. MaxCalls, expiry : Int]
    BY DEF TypeOK
  <2>2. call[c].proof.jti \in 1 .. MaxCalls
    BY CallFields DEF CallType, ProofType
  <2>3. clock + FreshnessWindow \in Int
    BY Times, TimesAssumption
  <2> QED
    BY <1>7, <2>1, <2>2, <2>3 DEF Purged
<1>11. TypeOK'
  BY <1>1, <1>4, <1>6, <1>10 DEF TypeOK
<1> QED
  BY <1>1, <1>2, <1>4, <1>6, <1>9, <1>11

(* What the look at a token leaves behind. *)
LEMMA TokenEffect ==
  ASSUME TypeOK, NEW c \in Sent, CheckToken(c), refusal[c] = "nothing"
  PROVE  /\ checked'[c] = clock
         /\ refusal'[c] \in {"nothing", "expired"}
         /\ refusal'[c] = "expired" => clock >= call[c].token.exp
         /\ refusal'[c] # "expired" => clock < call[c].token.exp
<1>1. checked'[c] = clock
  BY DEF CheckToken, TypeOK
<1>2. CASE Expired(c) /\ Deny(c, "expired")
  <2>1. refusal'[c] = "expired"
    BY <1>2 DEF Deny, TypeOK
  <2> QED
    BY <1>1, <1>2, <2>1 DEF Expired
<1>3. CASE ~ Expired(c) /\ Reach(c, "token")
  <2>1. clock < call[c].token.exp
    BY <1>3, CallFields DEF Expired
  <2> QED
    BY <1>1, <1>3, <2>1 DEF Reach
<1> QED
  BY <1>2, <1>3 DEF CheckToken

(* The client learns of a call; nobody else does. *)
LEMMA TellEffect ==
  ASSUME TypeOK, NEW c \in Sent, Answer(c) \/ Disconnect(c) \/ GiveUp(c)
  PROVE  /\ UNCHANGED <<clock, ahead, session, call, stage, checked, refusal, seen, Sent>>
         /\ answer[c] = "waiting" /\ answer'[c] # "waiting"
         /\ stage[c] \in UnderWay => answer'[c] = "abandoned"
         /\ \A d \in Sent \ {c} : answer'[d] = answer[d]
         /\ TypeOK'
<1>1. UNCHANGED <<clock, ahead, session, call, stage, checked, refusal, seen, Sent>>
  BY DEF Answer, Disconnect, GiveUp, Sent
<1>2. PICK what \in {"result", "denied", "failed", "abandoned"} :
        /\ answer[c] = "waiting" /\ answer' = [answer EXCEPT ![c] = what]
        /\ stage[c] \in UnderWay => what = "abandoned"
  BY DEF Answer, Disconnect, GiveUp, Tell, UnderWay
<1>3. /\ answer' \in [Sent -> Answers]
      /\ answer'[c] = what /\ \A d \in Sent \ {c} : answer'[d] = answer[d]
  BY <1>2 DEF TypeOK, Answers
<1>4. TypeOK'
  BY <1>1, <1>3 DEF TypeOK
<1> QED
  BY <1>1, <1>2, <1>3, <1>4

(* The cases of a step. *)
LEMMA NextCases ==
  ASSUME [Next]_vars
  PROVE  \/ \E s \in Sessions : Open(s)
         \/ \E s \in Sessions : Post(s)
         \/ \E c \in Sent : GatewayStep(c)
         \/ \E c \in Sent : Answer(c) \/ Disconnect(c) \/ GiveUp(c)
         \/ Tick
         \/ UNCHANGED vars
BY DEF Next, AgentCall, ClientCall, GatewayStep

(* Keycloak binds the session's token to its key and its user. *)
LEMMA OpenEffect ==
  ASSUME TypeOK, NEW s \in Sessions, Open(s)
  PROVE  /\ UNCHANGED <<clock, ahead, call, stage, checked, refusal, answer, seen, Sent>>
         /\ session[s] = NoSession
         /\ session'[s].key = s /\ session'[s].token.jkt = s
         /\ session'[s].token.user = Owner[s]
         /\ \A o \in Sessions \ {s} : session'[o] = session[o]
         /\ TypeOK'
<1>1. UNCHANGED <<clock, ahead, call, stage, checked, refusal, answer, seen, Sent>>
  BY DEF Open, Sent
<1>2. Fetched(s) \in SessionType
  BY Times, TimesAssumption DEF Fetched, SessionType, TokenType, Users
<1>3. session[s] = NoSession /\ session' = [session EXCEPT ![s] = Fetched(s)]
  BY DEF Open
<1>4. session \in [Sessions -> SessionType \cup {NoSession}]
  BY DEF TypeOK
<1>5. /\ session' \in [Sessions -> SessionType \cup {NoSession}]
      /\ session'[s] = Fetched(s)
      /\ \A o \in Sessions \ {s} : session'[o] = session[o]
  BY <1>2, <1>3, <1>4
<1>6. TypeOK'
  BY <1>1, <1>5 DEF TypeOK
<1> QED
  BY <1>1, <1>3, <1>5, <1>6 DEF Fetched

LEMMA TypeStep ==
  ASSUME TypeOK, [Next]_vars
  PROVE  TypeOK'
<1>1. CASE Tick
  <2>1. clock' \in 0 .. MaxClock
    BY <1>1, Times DEF Tick
  <2> QED
    BY <1>1, <2>1 DEF Tick, TypeOK, Sent
<1>2. CASE UNCHANGED vars
  BY <1>2 DEF vars, TypeOK, Sent
<1> QED
  BY <1>1, <1>2, NextCases, OpenEffect, PostEffect, GatewayEffect, TellEffect

LEMMA CarriedStep ==
  ASSUME TypeOK, Carried, [Next]_vars
  PROVE  Carried'
<1> USE DEF Carried, SessionsOwnTheirs, CallsCarryTheirs
<1>1. ASSUME NEW s \in Sessions, Open(s) PROVE Carried'
  <2>1. \A c \in Sent : call[c].session \in Sessions
    BY CallFields
  <2> QED
    BY <1>1, <2>1, OpenEffect
<1>2. ASSUME NEW s \in Sessions, Post(s) PROVE Carried'
  <2>0. PICK n : n = Len(call) + 1
    OBVIOUS
  <2>1. /\ Sent' = Sent \cup {n} /\ \A c \in Sent : call'[c] = call[c]
        /\ call'[n] = [session |-> s, token |-> session[s].token,
                       proof |-> BuildProof(s), sent |-> clock]
    BY <1>2, <2>0, PostEffect
  <2>2. UNCHANGED <<session, ahead>> /\ session[s] # NoSession
    BY <1>2 DEF Post
  <2>3. BuildProof(s) = [key |-> s, jti |-> n, iat |-> clock + ahead]
    BY <2>0, <2>2 DEF BuildProof, Jti
  <2> QED
    BY <2>1, <2>2, <2>3
<1>3. ASSUME NEW c \in Sent, GatewayStep(c) PROVE Carried'
  BY <1>3, GatewayEffect
<1>4. ASSUME NEW c \in Sent, Answer(c) \/ Disconnect(c) \/ GiveUp(c) PROVE Carried'
  <2>1. UNCHANGED <<ahead, session, call, Sent>>
    BY <1>4, TellEffect
  <2> QED
    BY <2>1
<1>5. CASE Tick
  BY <1>5 DEF Tick, Sent
<1>6. CASE UNCHANGED vars
  BY <1>6 DEF vars, Sent
<1> QED
  BY <1>1, <1>2, <1>3, <1>4, <1>5, <1>6, NextCases

LEMMA PendingStep ==
  ASSUME TypeOK, Carried, Pending, [Next]_vars
  PROVE  Pending'
<1>a. clock \in Nat /\ Timeout \in Nat
  BY Times, TimesAssumption
<1>b. \A c \in Sent : call[c].sent \in Nat /\ call[c].proof.iat \in Int
  BY CallFields
<1>c. \A c \in Sent : call[c].proof.jti = c
  BY DEF Carried, CallsCarryTheirs
<1> USE DEF Pending, WaitingInTime, UntoldUnderWay, SeenHavePassed, IssuedBefore
<1>1. ASSUME NEW s \in Sessions, Open(s) PROVE Pending'
  BY <1>1, OpenEffect
<1>2. ASSUME NEW s \in Sessions, Post(s) PROVE Pending'
  <2>0. PICK n : n = Len(call) + 1
    OBVIOUS
  <2>1. /\ Sent' = Sent \cup {n} /\ n \notin Sent
        /\ \A c \in Sent : /\ call'[c] = call[c] /\ stage'[c] = stage[c]
                           /\ refusal'[c] = refusal[c] /\ answer'[c] = answer[c]
    BY <1>2, <2>0, PostEffect
  <2>2. call'[n].sent = clock
    <3>1. call'[n] = [session |-> s, token |-> session[s].token,
                      proof |-> BuildProof(s), sent |-> clock]
      BY <1>2, <2>0, PostEffect
    <3> QED
      BY <3>1
  <2>3. stage'[n] = "sent" /\ refusal'[n] = "nothing" /\ answer'[n] = "waiting"
    BY <1>2, <2>0, PostEffect
  <2>4. UNCHANGED <<clock, seen>>
    BY <1>2 DEF Post
  <2>5. WaitingInTime'
    BY <1>a, <2>1, <2>2, <2>4
  <2>6. UntoldUnderWay'
    BY <2>1, <2>3
  <2>7. SeenHavePassed'
    BY <2>1, <2>4
  <2>8. IssuedBefore'
    BY <2>1, <2>3, <2>4
  <2> QED
    BY <2>5, <2>6, <2>7, <2>8
<1>3. ASSUME NEW c \in Sent, GatewayStep(c) PROVE Pending'
  <2>0. /\ UNCHANGED <<clock, call, answer, Sent>> /\ stage[c] \in UnderWay
        /\ \A d \in Sent \ {c} : stage'[d] = stage[d] /\ refusal'[d] = refusal[d]
        /\ stage'[c] \in UnderWay => UNCHANGED refusal
    BY <1>3, GatewayEffect
  <2>1. WaitingInTime'
    BY <2>0
  <2>2. UntoldUnderWay'
    BY <2>0
  <2>3. SeenHavePassed'
    <3>1. \A e \in seen' : e \in seen \/ (e.jti = c /\ stage'[c] = "passed")
      BY <1>3, <1>c, GatewayEffect
    <3>2. CASE stage[c] = "passed"
      <4>1. Decide(c)
        BY <1>3, <3>2 DEF GatewayStep, CheckToken, CheckProof, CheckReplay
      <4>2. seen' = seen /\ stage'[c] \in {"allow", "deny", "error"}
        BY <4>1 DEF Decide, Reach, TypeOK
      <4> QED
        BY <2>0, <4>2
    <3>3. CASE stage[c] # "passed"
      <4>1. \A e \in seen : e.jti # c
        BY <2>0, <3>3 DEF UnderWay
      <4> QED
        BY <2>0, <3>1, <4>1
    <3> QED
      BY <3>2, <3>3
  <2>4. IssuedBefore'
    <3>1. CASE CheckProof(c)
      BY <2>0, <3>1 DEF CheckProof, Reach, Deny, TypeOK
    <3>2. CASE CheckToken(c) \/ CheckReplay(c) \/ Decide(c)
      <4>1. stage'[c] # "proof"
        BY <3>2 DEF CheckToken, CheckReplay, Decide, Reach, Deny, TypeOK
      <4> QED
        BY <2>0, <4>1
    <3> QED
      BY <1>3, <3>1, <3>2 DEF GatewayStep
  <2> QED
    BY <2>1, <2>2, <2>3, <2>4
<1>4. ASSUME NEW c \in Sent, Answer(c) \/ Disconnect(c) \/ GiveUp(c) PROVE Pending'
  BY <1>4, TellEffect
<1>5. CASE Tick
  <2>1. UNCHANGED <<call, stage, refusal, answer, seen, Sent>> /\ clock' = clock + 1
    BY <1>5 DEF Tick, Sent
  <2>2. \A c \in Sent : answer[c] = "waiting" => clock - call[c].sent < Timeout
    BY <1>5 DEF Tick
  <2>3. WaitingInTime'
    BY <1>a, <1>b, <2>1, <2>2
  <2>4. IssuedBefore'
    BY <1>a, <1>b, <2>1
  <2> QED
    BY <2>1, <2>3, <2>4
<1>6. CASE UNCHANGED vars
  BY <1>6 DEF vars, Sent
<1> QED
  BY <1>1, <1>2, <1>3, <1>4, <1>5, <1>6, NextCases

(* What Gate 1 refuses a call for: neither its binding nor a replay, and   *)
(* staleness only for the reasons RefusedForCause names.                   *)
LEMMA RefusalJustified ==
  ASSUME TypeOK, Carried, Pending, NEW c \in Sent, GatewayStep(c)
  PROVE  \/ refusal'[c] \in {"nothing", "expired"}
         \/ refusal'[c] = "future" /\ ahead > 0
         \/ /\ refusal'[c] = "stale"
            /\ Forgone(c) \/ Timeout - ahead > FreshnessWindow
<1>0. refusal[c] = "nothing"
  BY GatewayEffect DEF Pending, UntoldUnderWay
<1>1. /\ session[call[c].session].key = call[c].session
      /\ session[call[c].session].token.jkt = call[c].session
  BY CallFields DEF Carried, CallsCarryTheirs, SessionsOwnTheirs
<1>2. call[c].proof.key = call[c].token.jkt /\ call[c].proof.jti = c
  BY <1>1 DEF Carried, CallsCarryTheirs
<1>3. /\ clock \in Int /\ ahead \in Int /\ Timeout \in Int /\ FreshnessWindow \in Int
      /\ call[c].sent \in Int /\ call[c].proof.iat = call[c].sent + ahead
      /\ call[c].sent <= clock
  BY Times, TimesAssumption, CallFields
  DEF Carried, CallsCarryTheirs, Pending, WaitingInTime
<1>4. Forgone(c) \/ clock - call[c].sent <= Timeout
  BY GatewayEffect DEF Pending, WaitingInTime, UntoldUnderWay, Forgone
<1>5. CASE CheckToken(c)
  BY <1>0, <1>5, TokenEffect
<1>6. CASE CheckProof(c)
  <2>1. CASE call[c].proof.iat > clock /\ Deny(c, "future")
    <3>1. refusal'[c] = "future"
      BY <2>1 DEF Deny, TypeOK
    <3> QED
      BY <1>3, <2>1, <3>1
  <2>2. CASE Reach(c, "proof")
    BY <1>0, <2>2 DEF Reach
  <2> QED
    BY <1>2, <1>6, <2>1, <2>2 DEF CheckProof
<1>7. CASE CheckReplay(c)
  <2>1. CASE Stale(c) /\ Deny(c, "stale")
    <3>1. refusal'[c] = "stale"
      BY <2>1 DEF Deny, TypeOK
    <3>2. call[c].proof.iat <= clock
      BY <1>7 DEF CheckReplay, Pending, IssuedBefore
    <3>3. clock - call[c].proof.iat \notin -FreshnessWindow .. FreshnessWindow
      BY <2>1 DEF Stale
    <3>4. FreshnessWindow \in Nat
      BY TimesAssumption
    <3>5. clock - call[c].proof.iat > FreshnessWindow
      BY <1>3, <3>2, <3>3, <3>4
    <3>6. Forgone(c) \/ Timeout - ahead > FreshnessWindow
      BY <1>3, <1>4, <3>5
    <3> QED
      BY <3>1, <3>6
  <2>2. CASE UNCHANGED refusal
    BY <1>0, <2>2
  <2>3. \A e \in Purged : e.jti # c
    BY <1>7 DEF CheckReplay, Pending, SeenHavePassed, Purged
  <2> QED
    BY <1>2, <1>7, <2>1, <2>2, <2>3 DEF CheckReplay, Reach
<1>8. CASE Decide(c)
  BY <1>0, <1>8 DEF Decide, Reach
<1> QED
  BY <1>5, <1>6, <1>7, <1>8 DEF GatewayStep

LEMMA LookedAtStep ==
  ASSUME TypeOK, Carried, Pending, LookedAt, [Next]_vars
  PROVE  LookedAt'
<1> USE DEF LookedAt, TokensLookedAt, TokenFound, RefusedForCause, Forgone
<1>1. ASSUME NEW s \in Sessions, Open(s) PROVE LookedAt'
  BY <1>1, OpenEffect
<1>2. ASSUME NEW s \in Sessions, Post(s) PROVE LookedAt'
  <2>0. PICK n : n = Len(call) + 1
    OBVIOUS
  <2>1. /\ Sent' = Sent \cup {n}
        /\ \A c \in Sent : /\ call'[c] = call[c] /\ stage'[c] = stage[c]
                           /\ checked'[c] = checked[c] /\ refusal'[c] = refusal[c]
                           /\ answer'[c] = answer[c]
        /\ stage'[n] = "sent" /\ refusal'[n] = "nothing"
    BY <1>2, <2>0, PostEffect
  <2>2. ahead' = ahead
    BY <1>2 DEF Post
  <2>3. TokensLookedAt'
    BY <2>1
  <2>4. RefusedForCause'
    BY <2>1, <2>2
  <2> QED
    BY <2>3, <2>4
<1>3. ASSUME NEW c \in Sent, GatewayStep(c) PROVE LookedAt'
  <2>1. UNCHANGED <<ahead, call, answer, Sent>>
    BY <1>3, GatewayEffect
  <2>2. \A d \in Sent \ {c} : /\ stage'[d] = stage[d] /\ checked'[d] = checked[d]
                             /\ refusal'[d] = refusal[d]
    BY <1>3, GatewayEffect
  <2>3. /\ refusal'[c] = "expired" => checked'[c] >= call[c].token.exp
        /\ TokenFound(c)' => checked'[c] < call[c].token.exp
    <3>0. refusal[c] = "nothing"
      BY <1>3, GatewayEffect DEF Pending, UntoldUnderWay
    <3>1. CASE CheckToken(c)
      BY <3>0, <3>1, TokenEffect
    <3>2. CASE CheckProof(c) \/ CheckReplay(c) \/ Decide(c)
      <4>1. UNCHANGED checked /\ stage[c] # "sent"
        BY <3>2 DEF CheckProof, CheckReplay, Decide
      <4>2. refusal'[c] # "expired"
        BY <3>0, <3>2 DEF CheckProof, CheckReplay, Decide, Reach, Deny, TypeOK
      <4> QED
        BY <3>0, <4>1, <4>2
    <3> QED
      BY <1>3, <3>1, <3>2 DEF GatewayStep
  <2>4. TokensLookedAt'
    BY <2>1, <2>2, <2>3
  <2>5. RefusedForCause'
    BY <1>3, <2>1, <2>2, RefusalJustified
  <2> QED
    BY <2>4, <2>5
<1>4. ASSUME NEW c \in Sent, Answer(c) \/ Disconnect(c) \/ GiveUp(c) PROVE LookedAt'
  <2>1. UNCHANGED <<ahead, call, stage, checked, refusal, Sent>>
    BY <1>4, TellEffect
  <2>2. \A d \in Sent : answer[d] = "abandoned" => answer'[d] = "abandoned"
    BY <1>4, TellEffect
  <2>3. RefusedForCause'
    BY <2>1, <2>2
  <2> QED
    BY <2>1, <2>3
<1>5. CASE Tick
  BY <1>5 DEF Tick, Sent
<1>6. CASE UNCHANGED vars
  BY <1>6 DEF vars, Sent
<1> QED
  BY <1>1, <1>2, <1>3, <1>4, <1>5, <1>6, NextCases

LEMMA InvInit == Init => Inv
<1> SUFFICES ASSUME Init PROVE Inv
  OBVIOUS
<1>1. Sent = {} /\ Sent = 1 .. 0
  BY DEF Init, Sent
<1>2. TypeOK
  <2>1. clock \in 0 .. MaxClock /\ ahead \in Skews /\ seen \in SUBSET [jti : 1 .. MaxCalls, expiry : Int]
    BY TimesAssumption DEF Init
  <2>2. session \in [Sessions -> SessionType \cup {NoSession}]
    BY DEF Init
  <2>3. <<>> \in Seq(CallType) /\ \A S : <<>> \in [Sent -> S]
    BY <1>1
  <2> QED
    BY <2>1, <2>2, <2>3 DEF Init, TypeOK
<1>3. Carried
  BY <1>1 DEF Init, Carried, SessionsOwnTheirs, CallsCarryTheirs
<1>4. Pending
  BY <1>1 DEF Init, Pending, WaitingInTime, UntoldUnderWay, SeenHavePassed, IssuedBefore
<1>5. LookedAt
  BY <1>1 DEF LookedAt, TokensLookedAt, RefusedForCause
<1> QED
  BY <1>2, <1>3, <1>4, <1>5 DEF Inv

LEMMA InvStep == Inv /\ [Next]_vars => Inv'
BY TypeStep, CarriedStep, PendingStep, LookedAtStep DEF Inv

(* Every step keeps every variable in its type: in particular the numbers  *)
(* of the proofs stay within the calls, and the calls' records aligned.    *)
THEOREM TypeCorrect == Spec => []TypeOK
<1>1. Inv => TypeOK
  BY DEF Inv
<1> QED
  BY <1>1, InvInit, InvStep, PTL DEF Spec

(* Gate 1 refuses a client that still waits for nothing but its token's    *)
(* expiry or its own clock: the fresh proof of every call keeps the other  *)
(* calls and sessions out of its way, however they interleave.             *)
THEOREM NeverRefusedWithoutCause == Spec => []RefusedForCause
<1>1. Inv => RefusedForCause
  BY DEF Inv, LookedAt
<1> QED
  BY <1>1, InvInit, InvStep, PTL DEF Spec

(* From the moment one call of a session is refused for an expired token,  *)
(* no call of the session gets past the check of its token, those that     *)
(* were already sent included.                                             *)
THEOREM ExpiryIsFinal == Spec => []ExpiredForGood
<1>1. Inv => ExpiredForGood
  <2> SUFFICES ASSUME Inv, NEW c \in Sent, NEW d \in Sent,
                      refusal[c] = "expired", call[d].session = call[c].session,
                      TokenFound(d)
               PROVE  checked[d] < checked[c]
    BY DEF ExpiredForGood
  <2>1. call[c].token = call[d].token
    BY DEF Inv, Carried, CallsCarryTheirs
  <2>2. checked[c] >= call[c].token.exp /\ checked[d] < call[d].token.exp
    BY DEF Inv, LookedAt, TokensLookedAt
  <2>3. checked[c] \in Int /\ checked[d] \in Int /\ call[c].token.exp \in Int
    BY CallFields DEF Inv, TypeOK
  <2> QED
    BY <2>1, <2>2, <2>3
<1> QED
  BY <1>1, InvInit, InvStep, PTL DEF Spec

(* What gets past Gate 1 bears a token of its session's user, bound to the *)
(* session's own key, and a proof that key signed.                         *)
THEOREM CallsAreTheUsersOwn == Spec => []OwnCalls
<1>1. Inv => OwnCalls
  <2> SUFFICES ASSUME Inv, NEW c \in Sent
               PROVE  /\ call[c].token.user = Owner[call[c].session]
                      /\ call[c].token.jkt = call[c].session
                      /\ call[c].proof.key = call[c].session
    BY DEF OwnCalls
  <2>1. call[c].session \in Sessions
    BY CallFields DEF Inv
  <2> QED
    BY <2>1 DEF Inv, Carried, CallsCarryTheirs, SessionsOwnTheirs
<1> QED
  BY <1>1, InvInit, InvStep, PTL DEF Spec
=============================================================================
