------------------------------ MODULE Gateway ------------------------------
(***************************************************************************)
(* The gateway's endpoint (invoke in gateway/main.py): four gates in a     *)
(* row, an audit entry for each decision and one generic denial for the    *)
(* caller, for requests served by several threads at once.                 *)
(*                                                                         *)
(* Gates 2 and 4 are Gate2Policy and Gate4Schema.  Of Gate 1 this module   *)
(* keeps which requests it may let through; that it may deny any request   *)
(* (stale, replayed) or fail is left open, and modules Gate1 and           *)
(* ReplayGuard say when it does.  Of Gate 3 it keeps a counter per caller  *)
(* that time takes calls out of; module SessionEnvelope has the stamps.    *)
(***************************************************************************)
EXTENDS Integers, Sequences, FiniteSets, Gate2Policy, Gate4Schema

CONSTANTS
  Threads,      \* worker threads of the endpoint's pool
  Requests,     \* requests that may arrive
  Limits,       \* Gate 3's maximum for an action
  Nothing,      \* no request, no context, no identity
  MaxRequests   \* bound of the model: requests that arrive

(***************************************************************************)
(* A request: whether the headers FastAPI insists on are there, whether    *)
(* the scheme is DPoP, the token and proof (`token.ok` when Gate 1 may let *)
(* them through), and the body.                                            *)
(***************************************************************************)
TokenType == [ok : BOOLEAN, principal : STRING, tenant : STRING]
RequestType == [headers : BOOLEAN, dpopScheme : BOOLEAN, token : TokenType,
                action : STRING, resource : STRING, args : ArgsType]

Identities == [principal : STRING, tenant : STRING]
Identity(token) == [principal |-> token.principal, tenant |-> token.tenant]

Callers == [tenant : {r.token.tenant : r \in Requests},
            principal : {r.token.principal : r \in Requests},
            action : {r.action : r \in Requests}]

ASSUME RequestsAssumption == Requests \subseteq RequestType
ASSUME LimitsAssumption   == Limits \in [{r.action : r \in Requests} -> Nat]
ASSUME NothingAssumption  == Nothing \notin Callers
ASSUME BoundAssumption    == MaxRequests \in Nat
\* The realms and the entity file agree on the tenant of a principal
\* (keycloak/*.json, gateway/policies/gate2_entities.json).
ASSUME DirectoryAssumption ==
  \A r \in Requests : r.token.ok /\ r.token.principal \in DOMAIN UserTenant
                        => UserTenant[r.token.principal] = r.token.tenant

Ids == 1 .. MaxRequests

VARIABLES
  agent,        \* AGENT_ID, the process's environment
  gate3,        \* GATE3_ENABLED, likewise
  pc,           \* where each thread is in invoke
  id,           \* request_id
  req,          \* its request
  ctx,          \* the token in the SecurityContext its ContextVar holds
  who,          \* gate1, the result of evaluate_gate1
  counted,      \* the calls Gate 3 still counts, by caller
  trail,        \* the audit log, by request_id
  arrived,      \* how many requests have arrived
  answers       \* history: what was answered to which request, as long
                \* as the log that tells of it exists

vars == <<agent, gate3, pc, id, req, ctx, who, counted, trail, arrived, answers>>
env  == <<agent, gate3>>

Gates   == {"GATE1", "GATE2", "GATE3", "GATE4", "ALL_GATES"}
Labels  == {"idle", "scheme", "gate1", "gate2", "gate3", "gate4", "all", "allowed",
            "refused"}
Entries == [gate : Gates, decision : {"ALLOW", "DENY"},
            who : Identities \cup {Nothing}, action : STRING, resource : STRING]
Replies == {"allow", "deny", "error", "invalid"}

WithinLimits == \A c \in Callers : counted[c] <= Limits[c.action]

TypeOK ==
  /\ agent \in DOMAIN AgentActions /\ gate3 \in BOOLEAN
  /\ pc \in [Threads -> Labels]
  /\ id \in [Threads -> 0 .. MaxRequests]
  /\ req \in [Threads -> Requests \cup {Nothing}]
  /\ ctx \in [Threads -> TokenType \cup {Nothing}]
  /\ who \in [Threads -> Identities \cup {Nothing}]
  /\ counted \in [Callers -> Nat] /\ WithinLimits
  /\ trail \in [Ids -> Seq(Entries)]
  /\ arrived \in 0 .. MaxRequests
  /\ answers \subseteq [id : Ids, req : Requests, reply : Replies]

Init ==
  /\ agent \in DOMAIN AgentActions /\ gate3 \in BOOLEAN
  /\ pc      = [t \in Threads |-> "idle"]
  /\ id      = [t \in Threads |-> 0]
  /\ req     = [t \in Threads |-> Nothing]
  /\ ctx     = [t \in Threads |-> Nothing]
  /\ who     = [t \in Threads |-> Nothing]
  /\ counted = [c \in Callers |-> 0]
  /\ trail   = [i \in Ids |-> <<>>]
  /\ arrived = 0
  /\ answers = {}

----------------------------------------------------------------------------
(* audit_log: one entry under this request's id. *)
Entry(t, gate, decision, identity) ==
  [gate |-> gate, decision |-> decision, who |-> identity,
   action |-> req[t].action, resource |-> req[t].resource]

Log(t, gate, decision, identity) ==
  trail' = [trail EXCEPT ![id[t]] = Append(@, Entry(t, gate, decision, identity))]

(* The thread's answer; its locals and its copy of the context are gone.   *)
Reply(t, reply) ==
  /\ answers' = answers \cup {[id |-> id[t], req |-> req[t], reply |-> reply]}
  /\ pc'  = [pc EXCEPT ![t] = "idle"]
  /\ id'  = [id EXCEPT ![t] = 0]
  /\ req' = [req EXCEPT ![t] = Nothing]
  /\ ctx' = [ctx EXCEPT ![t] = Nothing]
  /\ who' = [who EXCEPT ![t] = Nothing]

At(t, label) == pc[t] = label

(* log(gate, "ALLOW", ...) and on to the next gate. *)
Pass(t, gate, next) ==
  /\ Log(t, gate, "ALLOW", who[t])
  /\ pc' = [pc EXCEPT ![t] = next]
  /\ UNCHANGED <<id, req, ctx, who, answers>>

\* Mutant: the caller is refused without an audit entry.
RefuseSilently(t, gate) ==
  /\ pc' = [pc EXCEPT ![t] = "refused"]
  /\ UNCHANGED <<id, req, ctx, who, trail, answers>>

(* log(gate, "DENY", ...), and HTTPException(403, GENERIC_DENIAL) on its   *)
(* way to the caller.                                                      *)
Refuse(t, gate) ==
  /\ Log(t, gate, "DENY", who[t])
  /\ pc' = [pc EXCEPT ![t] = "refused"]
  /\ UNCHANGED <<id, req, ctx, who, answers>>

(* FastAPI takes the request from the pool's queue in a fresh context; one *)
(* without the headers invoke declares it answers itself, with a 422.      *)
Receive(t) ==
  /\ At(t, "idle") /\ arrived < MaxRequests
  /\ arrived' = arrived + 1
  /\ \E r \in Requests :
       \/ /\ r.headers
          /\ pc'  = [pc EXCEPT ![t] = "scheme"]
          /\ id'  = [id EXCEPT ![t] = arrived + 1]
          /\ req' = [req EXCEPT ![t] = r]
          /\ UNCHANGED answers
       \/ /\ ~r.headers
          /\ answers' = answers \cup {[id |-> arrived + 1, req |-> r, reply |-> "invalid"]}
          /\ UNCHANGED <<pc, id, req>>
  /\ UNCHANGED <<env, ctx, who, counted, trail>>

\* Mutant: a module global instead of a ContextVar.
SetGlobal(t, token) ==
  ctx' = [u \in Threads |-> IF u = t \/ ctx[u] # Nothing THEN token ELSE ctx[u]]

(* ContextVar.set reaches this thread's context only. *)
SetContext(t, token) == ctx' = [ctx EXCEPT ![t] = token]

CheckScheme(t) ==
  /\ At(t, "scheme")
  /\ \/ /\ ~req[t].dpopScheme
        /\ Refuse(t, "GATE1")
     \/ /\ req[t].dpopScheme
        /\ SetContext(t, req[t].token)
        /\ pc' = [pc EXCEPT ![t] = "gate1"]
        /\ UNCHANGED <<id, req, who, trail, answers>>
  /\ UNCHANGED <<env, counted, arrived>>

(* evaluate_gate1 reads the token from the context. *)
Gate1Allows(t) ==
  /\ At(t, "gate1") /\ ctx[t].ok
  /\ who' = [who EXCEPT ![t] = Identity(ctx[t])]
  /\ Log(t, "GATE1", "ALLOW", Identity(ctx[t]))
  /\ pc'  = [pc EXCEPT ![t] = "gate2"]
  /\ UNCHANGED <<env, id, req, ctx, counted, arrived, answers>>

Gate1Denies(t) ==
  /\ At(t, "gate1")
  /\ Refuse(t, "GATE1")
  /\ UNCHANGED <<env, counted, arrived>>

Permitted(t) == Permits(who[t].principal, req[t].action, req[t].resource, agent)

\* Mutant: the denial is logged, and the pipeline goes on.
Gate2Advises(t) ==
  /\ At(t, "gate2")
  /\ \/ Permitted(t) /\ Pass(t, "GATE2", "gate3")
     \/ /\ ~Permitted(t)
        /\ Log(t, "GATE2", "DENY", who[t])
        /\ pc' = [pc EXCEPT ![t] = "gate3"]
        /\ UNCHANGED <<id, req, ctx, who, answers>>
  /\ UNCHANGED <<env, counted, arrived>>

Gate2(t) ==
  /\ At(t, "gate2")
  /\ \/ Permitted(t) /\ Pass(t, "GATE2", "gate3")
     \/ ~Permitted(t) /\ Refuse(t, "GATE2")
  /\ UNCHANGED <<env, counted, arrived>>

CallerOf(t) ==
  [tenant |-> who[t].tenant, principal |-> who[t].principal, action |-> req[t].action]

BelowLimit(t) == counted[CallerOf(t)] < Limits[req[t].action]

\* Mutant: a call is counted again although the limit is reached.
Gate3AllowsOneMore(t) ==
  /\ At(t, "gate3")
  /\ \/ /\ ~gate3 /\ Pass(t, "GATE3", "gate4") /\ UNCHANGED counted
     \/ /\ gate3 /\ counted[CallerOf(t)] <= Limits[req[t].action] /\ Pass(t, "GATE3", "gate4")
        /\ counted' = [counted EXCEPT ![CallerOf(t)] = @ + 1]
     \/ /\ gate3 /\ counted[CallerOf(t)] > Limits[req[t].action]
        /\ Refuse(t, "GATE3") /\ UNCHANGED counted
  /\ UNCHANGED <<env, arrived>>

Gate3(t) ==
  /\ At(t, "gate3")
  /\ \/ /\ ~gate3 /\ Pass(t, "GATE3", "gate4") /\ UNCHANGED counted
     \/ /\ gate3 /\ BelowLimit(t) /\ Pass(t, "GATE3", "gate4")
        /\ counted' = [counted EXCEPT ![CallerOf(t)] = @ + 1]
     \/ /\ gate3 /\ ~BelowLimit(t) /\ Refuse(t, "GATE3") /\ UNCHANGED counted
  /\ UNCHANGED <<env, arrived>>

Gate4(t) ==
  LET wellFormed == WellFormed(req[t].action, req[t].args) IN
  /\ At(t, "gate4")
  /\ \/ wellFormed /\ Pass(t, "GATE4", "all")
     \/ ~wellFormed /\ Refuse(t, "GATE4")
  /\ UNCHANGED <<env, counted, arrived>>

(* The entry that closes the pipeline. *)
AllGates(t) ==
  /\ At(t, "all")
  /\ Pass(t, "ALL_GATES", "allowed")
  /\ UNCHANGED <<env, counted, arrived>>

(* The 200 with the validated arguments: Starlette's JSONResponse raises   *)
(* ValueError for a NaN among them.                                        *)
Renders(r) == r.action = "updateRecord" => r.args.amount # "nan"

AnswerAllow(t) ==
  /\ At(t, "allowed")
  /\ \/ Renders(req[t]) /\ Reply(t, "allow")
     \/ ~Renders(req[t]) /\ Reply(t, "error")
  /\ UNCHANGED <<env, counted, trail, arrived>>

AnswerDeny(t) ==
  /\ At(t, "refused")
  /\ Reply(t, "deny")
  /\ UNCHANGED <<env, counted, trail, arrived>>

(* An exception invoke does not expect, a 500 without an entry: Gate 1's   *)
(* (see Gate1), or the OSError of an audit file that cannot be written,    *)
(* after the gate has decided.                                             *)
Fails(t) ==
  /\ pc[t] \notin {"idle", "allowed", "refused"}
  /\ \/ UNCHANGED counted
     \/ /\ At(t, "gate3") /\ gate3 /\ BelowLimit(t)
        /\ counted' = [counted EXCEPT ![CallerOf(t)] = @ + 1]
  /\ Reply(t, "error")
  /\ UNCHANGED <<env, trail, arrived>>

(* Time takes a call out of Gate 3's window; /debug/reset takes all. *)
WindowSlides ==
  /\ \E c \in Callers :
       counted[c] > 0 /\ counted' = [counted EXCEPT ![c] = @ - 1]
  /\ UNCHANGED <<env, pc, id, req, ctx, who, trail, arrived, answers>>

DebugReset ==
  /\ counted' = [c \in Callers |-> 0]
  /\ UNCHANGED <<env, pc, id, req, ctx, who, trail, arrived, answers>>

(* The process stops and starts again in the same environment: the         *)
(* requests it was serving get no answer.  The log file stays in a local   *)
(* run; in Kubernetes it is the container's own (enforcer-a.yaml mounts no *)
(* volume for it), and a new container begins a new one.                   *)
Restart ==
  /\ pc'      = [t \in Threads |-> "idle"]
  /\ id'      = [t \in Threads |-> 0]
  /\ req'     = [t \in Threads |-> Nothing]
  /\ ctx'     = [t \in Threads |-> Nothing]
  /\ who'     = [t \in Threads |-> Nothing]
  /\ counted' = [c \in Callers |-> 0]
  /\ \/ UNCHANGED <<trail, answers>>
     \/ trail' = [i \in Ids |-> <<>>] /\ answers' = {}
  /\ UNCHANGED <<env, arrived>>

ThreadStep(t) ==
  \/ CheckScheme(t)
  \/ Gate1Allows(t) \/ Gate1Denies(t) \/ Gate2(t) \/ Gate3(t) \/ Gate4(t)
  \/ AllGates(t) \/ AnswerAllow(t) \/ AnswerDeny(t) \/ Fails(t)

Next ==
  \/ \E t \in Threads : Receive(t) \/ ThreadStep(t)
  \/ WindowSlides \/ DebugReset \/ Restart

Spec == Init /\ [][Next]_vars
----------------------------------------------------------------------------
(* Properties *)

Chain == <<"GATE1", "GATE2", "GATE3", "GATE4", "ALL_GATES">>

(* The gates in their order, each with an ALLOW ... *)
Passed(entries) ==
  /\ Len(entries) \in 0 .. 5
  /\ \A i \in 1 .. Len(entries) :
       entries[i].gate = Chain[i] /\ entries[i].decision = "ALLOW"

(* ... or with a DENY at the end. *)
RefusedAtLast(entries) ==
  /\ Len(entries) \in 1 .. 4
  /\ \A i \in 1 .. Len(entries) :
       /\ entries[i].gate = Chain[i]
       /\ entries[i].decision = IF i = Len(entries) THEN "DENY" ELSE "ALLOW"

(* The audit log never contradicts what the caller was told ("Every gate's *)
(* decision is written to gateway/audit_log.py's structured JSON-lines     *)
(* log", main.py:16).  A caller who was let through has five ALLOW         *)
(* entries; one who got the generic denial has a DENY after the ALLOWs of  *)
(* the gates before it; and nobody else has a DENY.  This survives a file  *)
(* that cannot be written, exceptions and restarts.                        *)
TrailTellsAnswer ==
  /\ \A i \in Ids : Passed(trail[i]) \/ RefusedAtLast(trail[i])
  /\ \A a \in answers :
       /\ a.reply = "allow" => Passed(trail[a.id]) /\ Len(trail[a.id]) = 5
       /\ a.reply = "deny" <=> RefusedAtLast(trail[a.id])

(* Whatever the threads do at the same time ("without global state or race *)
(* conditions between concurrent requests", context.py:6), an audit entry  *)
(* that names somebody names the owner of the token the request came with. *)
EntriesNameOwner ==
  \A a \in answers : \A i \in 1 .. Len(trail[a.id]) :
    trail[a.id][i].who \in {Nothing, Identity(a.req.token)}

(* The perimeter: what is allowed touches a record of the tenant the token *)
(* was issued for, with an action in the agent's scope and arguments in    *)
(* their schema.                                                           *)
Authorised(r) ==
  /\ r.token.ok
  /\ r.resource \in DOMAIN RecordTenant /\ RecordTenant[r.resource] = r.token.tenant
  /\ AgentMay(agent, r.action)
  /\ WellFormed(r.action, r.args)

AllowedIsAuthorised ==
  \A a \in answers : a.reply = "allow" => Authorised(a.req)

(* The requests that have been charged to a caller's envelope, by the      *)
(* audit log: Gate 2 has let them through as this principal's, for this    *)
(* action and a record the policy permits it, and Gate 3 has not refused   *)
(* them, nor have they yet to reach its decision.  One that was cut off at *)
(* Gate 3 may have been counted or not.                                    *)
HeldAtGate3(i) == \E t \in Threads : pc[t] = "gate3" /\ id[t] = i

GrantedByGate2(i, c) ==
  /\ Len(trail[i]) >= 2
  /\ trail[i][2].gate = "GATE2" /\ trail[i][2].decision = "ALLOW"
  /\ trail[i][2].who = [principal |-> c.principal, tenant |-> c.tenant]
  /\ trail[i][2].action = c.action
  /\ Permits(c.principal, c.action, trail[i][2].resource, agent)

Charged(c) ==
  {i \in Ids : /\ GrantedByGate2(i, c) /\ ~HeldAtGate3(i)
               /\ Len(trail[i]) >= 3 => trail[i][3].decision = "ALLOW"}

(* Nobody spends a caller's envelope but the caller, with calls that were  *)
(* made and that Gate 2 has permitted, each of them once: what Gate 3      *)
(* holds against a caller is at most the number of such calls in the audit *)
(* log.  Requests of others, denied calls and calls of another action do   *)
(* not count, whatever fails and whenever the process restarts.            *)
CountsPermittedOnly == \A c \in Callers : counted[c] <= Cardinality(Charged(c))

(* The request of thread t, seen from Gate 3: from the moment Gate 2 has   *)
(* let it through until another gate, or nobody, has it.                   *)
RefusedByGate3(t) ==
  pc[t] = "refused" /\ trail[id[t]][Len(trail[id[t]])].gate = "GATE3"

AtGate3(t) == gate3 /\ (pc[t] \in {"gate3", "gate4"} \/ RefusedByGate3(t))

Told(t) == CASE pc[t] = "gate4"   -> "allow"
             [] pc[t] = "refused" -> "deny"
             [] OTHER             -> "none"

(* The pipeline's Gate 3 is the same CallCounter that SessionEnvelope      *)
(* implements: requests cut off, restarts and resets included, and with    *)
(* the envelope switched off nobody ever asks it.                          *)
Counter == INSTANCE CallCounter
  WITH NoCall  <- Nothing,
       Limits  <- [c \in Callers |-> Limits[c.action]],
       counted <- counted,
       asking  <- [t \in Threads |-> IF AtGate3(t) THEN CallerOf(t) ELSE Nothing],
       outcome <- [t \in Threads |-> IF AtGate3(t) THEN Told(t) ELSE "none"]
ImplementsCallCounter == Counter!Spec

(* Gate 4's "numerical bounds checking" (gate4_schema.py:8-9): an update   *)
(* it lets through has for its amount a number from 0 to MaxAmount.        *)
PassedGate4(i) == Len(trail[i]) >= 4 /\ trail[i][4].decision = "ALLOW"

PassedAmountsInBounds ==
  \A a \in answers :
    PassedGate4(a.id) /\ a.req.action = "updateRecord" =>
      a.req.args.amount = "number" /\ a.req.args.value \in 0 .. MaxAmount
=============================================================================
