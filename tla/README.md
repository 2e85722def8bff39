# A verification of the zero-trust agent perimeter gateway

The repository is a research prototype. An agent driven by a language model may
touch a tenant's records only through a gateway (`src/gateway/`), a FastAPI
process that puts four gates in front of each call: authentication with
DPoP-bound tokens, a Cedar policy, a limit on calls per window of time, and a
schema for the arguments. This directory holds TLA+ modules of the gateway, TLC
configurations that check them on small instances, and TLAPS proofs of what
matters most. `PROJECT.json` maps definitions to source lines and lists runs,
mutants, findings, hazards and theorems.

## The system

| Part | Source | State it keeps | Operations |
|---|---|---|---|
| Pipeline | `gateway/main.py` | none of its own: a request's locals, `AGENT_ID`, `ENTITIES` | `invoke`, `debug_reset`, `debug_audit` |
| Security context | `gateway/context.py` | one `ContextVar` | set, get |
| Gate 1 | `gateway/gate1_auth.py` | `_seen_dpop_jti` (replay cache), cached JWKS | `evaluate_gate1` with the purge of the cache |
| Gate 2 | `gateway/gate2_authorization.py`, `policies/` | none | `evaluate_gate2` |
| Gate 3 | `gateway/gate3_session_envelope.py` | `_calls`: time stamps per (tenant, principal, action) | `check_and_record`, `reset` |
| Gate 4 | `gateway/gate4_schema.py` | none | `evaluate_gate4` |
| Audit log | `gateway/audit_log.py` | a file that only grows | `audit_log`, `read_entries` |
| Agent's session | `agent/gateway_session.py` | key pair, token fetched once | token fetch, `call` |
| Agent and tools | `agent/main.py` | none | `read_record`, `update_record`, asked for again up to 3 times when the arguments do not validate |
| Baseline | `baseline/`, `agent/*no_gateway*` | a dictionary of records | the same tools without a gateway |
| Command-line client | `client/call_gateway.py` | as a session | one call |
| Harness | `eval/` | result files | run cases, read the log, attribute, report; `run_matrix.sh` repeats it per topology |
| Identity provider | `keycloak/` | realms, users, sessions (external) | token endpoint, JWKS |
| Deployments | `k8s/` (Silo: a Keycloak and a gateway per tenant; Bridge: one for both) | clusters, kubectl's context, network policies, pods | bootstrap scripts and those they call |

How they interact. The agent's tool calls `GatewaySession.call`, one HTTP request
with the token and a new proof. `invoke` is a synchronous endpoint, so FastAPI
runs each request in a thread of a pool: requests overlap, in one process (the
image starts one uvicorn worker and the deployments one replica). `invoke` puts
token and proof in the context, Gate 1 reads them there. Gates run in order; each
appends its decision to the audit file, and the first denial ends the request
with the same generic 403. The harness resets Gate 3 before a case through
`/debug/reset` and reads the audit log for the case's window of time afterwards.

What is hard here, and what the properties are for:

- the replay cache is a dictionary without a lock that every thread purges;
- the clock is read before the purge (Gate 1) and before the lock (Gate 3), and
  used after it;
- freshness of a proof, expiry of its entry, the window's edge and the limit are
  boundaries where one second or one call too many matters;
- a restart forgets both the replay cache and the counters;
- exceptions that `invoke` does not expect and an audit file that cannot be
  written cut a request off between two of its effects;
- identities travel through a context variable, and the tenant comes from three
  places (token, entity file, the counter's key) that have to agree;
- a client's clock is not the gateway's, its calls overlap, and it gives up on a
  call that the gateway goes on with;
- bootstrap scripts fail half-way and are run again, act on whatever cluster
  kubectl points to, and ask for pods that start later.

## The modules

| Module | Models | Kind |
|---|---|---|
| `Gate1` | `gate1_auth.py` | state machine, one action per step of a thread |
| `ReplayGuard` | what Gate 1 promises about proofs | abstract specification |
| `Gate1Proofs` | theorems about `Gate1`, and the refinement | proofs |
| `SessionEnvelope` | `gate3_session_envelope.py` | state machine |
| `SessionEnvelopeProofs` | theorems about it, and the refinement | proofs |
| `CallCounter` | what Gate 3 promises to the pipeline | abstract specification, implemented by `SessionEnvelope` and by `Gateway`'s Gate 3 |
| `Gate2Policy` | `gate2.cedar` as `evaluate_gate2` asks it | operators |
| `Gate4Schema` | `gate4_schema.py` | operators |
| `Gateway` | `main.py`, `context.py`, writing of `audit_log.py` | composition, state machine |
| `GatewayProofs` | theorems about `Gateway`, and the refinement | proofs |
| `AgentAttacks` | Tier 2: `eval/run_agent_attacks.py`, `read_entries`, the agent's tools and `GatewaySession.call` | composition with the gateway, state machine |
| `AgentAttacksProofs`, `AgentVerdictProofs` | theorems about it, with crashed runs and without | proofs |
| `GatewayAttacks` | Tier 1: `eval/run_gateway_attacks.py`, `eval/attack_corpus.py`, the report | composition with Gates 2, 3 and 4, state machine |
| `GatewayAttacksProofs` | theorems about it | proofs |
| `AgentSession` | `agent/gateway_session.py`, `client/call_gateway.py`, against Gate 1's checks | composition, state machine |
| `AgentSessionProofs` | theorems about it | proofs |
| `Deployment` | `k8s/`: bootstrap scripts, manifests, network policies; `eval/run_matrix.sh` | state machine |
| `DeploymentProofs` | theorems about it | proofs |
| `MCGate1`, `MCSessionEnvelope`, `MCGateway`, `MCAgentAttacks`, `MCGatewayAttacks`, `MCAgentSession`, `MCDeployment` | the instances | for TLC |

### Gate1

`seen` is `_seen_dpop_jti`, with `Absent` for a jti it does not hold; the other
variables are a thread's locals. An action is what CPython 3.11 runs without a
chance to switch threads (calls and backward jumps are such chances). So the
purge is many steps: `StartScan`, a `ScanEntry` per entry, `EndScan`, a `Delete`
per entry, `EndPurge`; while `jti in _seen_dpop_jti` and the store after it, which
have no call between them, are one step, `RecordProof`. `ChangedUnderScan` is when
CPython's dictionary iterator raises `RuntimeError`; `DeleteFails` is the
`KeyError` of `del`. Checks that involve one request only and no shared state
(signature, issuer, `azp`, `htm`, `htu`, header) are attributes of tokens and
proofs and happen in one step, `Verify`; the library's own checks of `exp` and
`iat` against the clock are kept, in that step. So are the exceptions that a token
or a proof makes the libraries raise and that no `except` of the gate catches
(`raises`): `VerifyRaises` has them in the order of the code, `ReadClock` the one of
line 157. `Bind` is what is left after the
proof has been recorded. `uses` is history: how often each proof got past the
replay check in the life of the process.

The abstraction: the clock counts whole seconds, and never goes back; a jti names
one proof (`JtiAssumption`: the client makes it with `uuid4`); that a resize of
the dictionary may make an iterator skip entries is left out, since what is
skipped stays for the next purge.

### ReplayGuard

The promise without threads or cache: a proof is used if it was not used before,
or if its freshness is over. The second disjunct is necessary: a thread that has
passed the freshness check and is then suspended may find that another one has
purged its proof's entry. This cannot happen to requests that do not overlap,
which is what `SingleUse` says for one thread. That no thread switch comes between
the look-up and the store is CPython 3.11's doing and built into `RecordProof`; no
property here would find it missing.

### SessionEnvelope

`check_and_record` is two steps, because `now` is read before the lock is taken:
`ReadClock`, then `Admit` or `Deny` for everything under the lock. `calls` holds
the list of time stamps as a set of calls, each with a number to keep equal
stamps apart: the code only counts and filters them. `admitted` is history.
`Lag` bounds how long a thread waits between the clock and the lock; it is a
bound on the environment in `Tick`, without which no guarantee about a window
could be given at all.

### CallCounter

One number per caller: `Admit` raises it if it is below the limit, `Deny` finds it
at the limit, nothing but the caller's own calls raises it, and time may lower it.
`SessionEnvelope` implements it with its number of stored calls, its clock read
before the lock included. In `Gateway` the requests that are at Gate 3, or have been
told its answer and go on, are its askers; `Abandon` is a request cut off after it
was counted, by an audit file that cannot be written. So `Gateway` may use a
counter where the code has a list of time stamps: the two modules meet in what
they both implement.

### Gateway

One thread of the pool per element of `Threads`, with a label per stage of
`invoke`. Each gate is an action whose disjuncts are its outcomes, with the
audit entry in the same step; the answer leaves in a step of its own, so that a
restart can come between an entry and the answer it announces. `Fails` is a
request cut off by an unexpected exception after a gate has decided and, for
Gate 3, counted. Of Gate 1 it keeps which requests may pass (`token.ok`); that it
may deny or fail is left open, and `Gate1` says when it does. Of Gate 3 it keeps a
counter per caller that `WindowSlides` lowers, an abstraction of
`SessionEnvelope`. `Restart` keeps the log file or loses it: the file stays in a
local run, while `k8s/base/gateway/enforcer-a.yaml` mounts no volume for it, so a
new container begins a new one. Gates 2 and 4 are the operators of `Gate2Policy` and
`Gate4Schema`. `Init` allows either setting of `ZTAP_GATE3_ENABLED` and each agent
of the entity file.

`DirectoryAssumption` states what the code relies on and never checks: the
realms give a user the tenant that the entity file has for that name. Gate 2
compares the entity file's tenants; the token's claim is only logged and
counted. Without the assumption `AllowedIsAuthorised` is false, so the property
cannot show that the two files agree.

`CountsPermittedOnly` compares Gate 3's counters with the audit log. A request is
charged to a caller (`Charged`) if its own entries say that Gate 2 let it through as
that caller's, for that action and a record the policy permits, and that Gate 3
did not refuse it; a request cut off at Gate 3 may or may not have been counted,
and one still waiting for Gate 3 has not. A counter never exceeds the number of
such requests.

### AgentAttacks

The harness of Tier 2 is one process (`case`, `phase`, `start`, `end`, `crashed`,
`results`: the locals of `main` and `run_case`), each tool call another one in the
gateway (`next`, `verdict`). `CallTool` may be taken several times before an answer
comes, since pydantic-ai runs the tool calls of one answer of the model together.
`Returns` needs every call of the case answered; `Raises` does not, and whatever
is under way then stays with the gateway and goes on during later cases: httpx's
timeout, a 500, the limit of requests to the model, a crash of the model. Of the
gateway the module keeps the order of its gates (`Chain`), one audit entry a gate
and Gate 3's counters; any other gate may deny any call. So what is shown does
not rest on why a gate denies. A time stamp is the length of the log, which says
that entries are stamped in the order they are written and that harness and
gateway read one clock. `Outcome` is `determine_outcome`; `AllowedIn` and `DeniedIn`
are `summarize_attempts`.

### GatewayAttacks

Tier 1 sends its requests one after the other, so a request is one step, which
runs it through the gates of `Pipeline`: `Gate2Policy!Permits`, the counter of Gate
3, `Gate4Schema!WellFormed`. The corpus is in the module, entry by entry. `Init` has
Gate 3 hold anything an earlier run may have left; `WindowSlides` may take any
call out at any time. `MalformedError` and `MalformedFails` are the two ways in
which the malformed requests may get no answer from a gate and yet a score;
`Crash` is what ends the script anywhere else. Gate 3 is always a step of the
pipeline; `gate3` is the setting with which it lets every call through.

### AgentSession

Clients over time. `Open` is `GatewaySession.__post_init__`, which fetches the only
token the session ever has; `AgentCall` sends a call with a proof of its own, while
others of the session may be under way; `ClientCall` is the command-line client's
one call. At the gateway a call goes through `CheckToken` (the token's expiry),
`CheckProof` (the key's binding, an issue time in the future), `CheckReplay`
(freshness and replay, with the record of the proof) and `Decide` (the other gates
and the answer), each a step with its own reading of the clock: a thread may be
suspended between any two for as long as it likes, so a call may be allowed long
after its token and its proof were looked at. Nothing in the code bounds that
delay, and no property claims one. `Answer`, `Disconnect` and `GiveUp` are the ways a
call ends for its client. httpx's default of five seconds bounds each phase of a
call (connect, write, read) on its own; `Timeout` stands for their sum, which `Tick`
does not pass. `ahead` is by how much the clients' clock differs from the gateway's,
constant over a behaviour. Keycloak is external and shares the gateway's clock.
`checked` and `refusal` are history: when the token was looked at, and why Gate 1
refused.

### Deployment

A script is a sequence of commands, those of the scripts it calls included, and
runs under `set -e`: each command either does its work or, by `Fail`, ends the
script, which is then started again from its beginning. `context` is kubectl's
current context. kind switches it when it creates a cluster, `run_matrix.sh`
before it measures, and the bootstrap scripts never; a person may switch it in
another shell (`eval/README.md:57`), or delete a cluster, at any time, also between
two commands of a script. `disturbed` is history: the clusters to which a bootstrap
script was diverted by such a switch. What the scripts promise, they can promise of
the others only (`Undisturbed`). A
manifest is applied to the cluster the context names; `kind load` names its own.
`StartPods` may come any time after the manifest, so a rollout is something to
wait for; `Pools` and `Selects` are the labels of the nodes and what pods ask of
them. `Policies` says what each manifest does to the network, as rules with a
peer, a direction and a port; `ReachedFrom` is Kubernetes' semantics of them
(external): rules add up, a connection has to be allowed at both ends, and what no
policy selects is open. One script runs at a time, clusters are made by these
scripts only, `cilium install` refuses a cluster that has Cilium, a tenant's
Keycloak and gateway start as one workload, and namespaces without pods are left
out. What DNS or a host in the Internet passes on is not followed. Keycloak and the
gateway have no `readinessProbe`, so "rolled out" means started, not serving.
`Measure` is one run of the matrix, `kubectl exec` in the context of the moment. The
two scripts that make a tenant's stack are the same but for the tenant,
as are the policies of the two tenants in each file.

## What is checked

| Run | Instance | Properties | What it shows |
|---|---|---|---|
| `gate1_serial` | 1 thread, 6 tokens, 9 proofs, window 2, clock to 6 | `TypeOK`, `SingleUse`, `RaisesForCause` | without overlap no proof is used twice, at any age of its entry, and the purge never raises: an unexpected exception is due to the request's own token or proof |
| `gate1_threads` | 2 threads, 3 proofs, window 1, clock to 3 | `FreshIsRemembered`, `ImplementsReplayGuard`, `EveryRequestAnswered` | with overlap Gate 1 implements `ReplayGuard`, a fresh proof is never forgotten, every request leaves |
| `gate1_errors` | 2 threads, 2 proofs | violation of `OnlyAllowOrDeny` | finding 1 |
| `envelope` | 2 threads, 3 callers (two tenants, two actions), limits 2 and 1, window 2, lag 1, 5 calls, clock to 3 | `TypeOK`, `RollingLimit`, `WindowLimit`, `DenialJustified`, `ImplementsCallCounter` | limits hold and denials are justified, although stamps enter out of order; the store is a `CallCounter` |
| `envelope_full` | the same, one caller | violation of `FullWindowLimit` | finding 2 |
| `gateway` | 2 threads, 7 kinds of request, 3 requests, limit 1 | `TypeOK`, `TrailTellsAnswer`, `EntriesNameOwner`, `AllowedIsAuthorised`, `CountsPermittedOnly`, `ImplementsCallCounter` | the pipeline's order, the audit log, isolation and authorisation; nobody spends another's envelope; its Gate 3 is a `CallCounter` |
| `gateway_nan` | 1 thread, 2 requests | violation of `PassedAmountsInBounds` | finding 3 |
| `agent_limit` | an attack of 2 calls, then the control case with 1; gates `GATE3`, `ALL_GATES`, limit 1 | `TypeOK`, `CleanSlate`, `AccountsAgree`, `VerdictIsExact`, `SafeMeansSafe`, `ScriptEnds` | a case has a clean slate in Gate 3; entries are attributed to the right case; the two readings of the log agree; SAFE is safe; the script ends |
| `agent_crash` | two attacks | violation of `NotAttemptedIsTrue` | finding 4 |
| `tier1` | the shipped corpus, entities, limits and bounds | `TypeOK`, `DeniedWhereIntended`, `BurstDeniedFromItsCall`, `ReportAgrees` | every single attack is denied by the gate it is aimed at, bursts from the call on that they should, and scores and report agree; of the malformed requests only the scoring (T1-G1-01 is FastAPI's, see the observations), with and without the envelope (120 entries and 15 allowed requests, or 134 and 22) |
| `session` | one session of the agent and a run of the command-line client, 2 calls, lifetime 2, freshness 2, timeout 1, clocks that differ by -2, 0 and 1, clock to 3 | `TypeOK`, `RefusedForCause`, `ExpiredForGood`, `OwnCalls`, `EveryCallEnds` | an honest client that waits is refused only for its clock or its token's age; an expired token ends a session; a call bears its session's token and key; each call ends for its client |
| `deployment` | both topologies, complete; diversions before the 18th command | `TypeOK`, `AgentsConfined`, `TenantsApart`, `PullHasItsEgress`, `UpMeansUsable`, `OneTopologyEach` | isolation during and after any sequence of failing bootstraps; "fully up" is true |

Three more configurations reproduce what the observations below report. Each is
violated, at once and by design: `MCGate1Faulty.cfg` (`OnlyAllowOrDeny`, with one
thread and a request that raises by itself), `MCDeploymentRerun.cfg` (`SafeToRerun`)
and `MCDeploymentMatrix.cfg` (`RunsInTheirCluster`).

Why the bounds are enough for the cases to happen. In `gate1_threads` a clock up
to 3 with a window of 1 lets a proof be recorded, expire (its entry can live until
`iat + 2`), be purged by one thread while another holds an old `now`, and be
recorded again; two proofs make the dictionary change under a scan both ways. In
`gate1_serial` one thread affords a window of 2, tokens and proofs wrong in each
way, the expiry of the token during the run, and all orders of arrival. In
`envelope` the limit of 2 with window 2 and clock 3 lets a full window slide by one
call; three callers differ in one field each; five calls fill one caller's window
and leave two for the others. In `gateway` three requests let one fill a caller's
counter, one be refused by it, and one overlap with both. In `agent_limit` two
cases are the least in which a call of one can reach into the window of the other;
two calls of the attack let one fill the limit or be let through while the other
is denied, cut off or late. One gate before the last is enough, because gates
after the first that denies play no part; `agent_crash` has Gate 2 there, which may
deny any call, where `agent_limit` has Gate 3. `tier1` is not made smaller at all.
In `deployment` scripts, clusters and pods are finite and complete; its one bound is
`Diversions`, the commands of a bootstrap script before which the context may be
switched by hand. With all of them TLC has more than 25 million states; the 18th
command is where, in Silo, all policies are applied and no agent is, the place
where going on in another cluster does most harm; in Bridge it is the wait for the
agents. Switches between scripts and during the matrix are not bounded, and the
theorems hold for every value of `Diversions`. `session`
keeps the order of the real times (five seconds, 60 and 300: timeout < freshness
<= lifetime); a clock two seconds behind makes the timeout reach beyond the window,
one second ahead puts a proof in the future, a clock to 3 lets a token expire
while a call travels, and two calls are the least that can meet in one second or
of which one comes after the other's refusal. The proofs below do not depend on
these bounds.

Symmetry is used over threads in `envelope` and `gateway`, which check no liveness
and whose threads are interchangeable. The runs of the gateway and of the
deployments keep TLC's check for deadlock; those of the harness and of the clients
do not, since these end.

Fairness. `FairSpec` has weak fairness of each thread's own steps: CPython's
scheduler gives every runnable thread the interpreter lock again and again, no
step of Gate 1 waits for anything (there is no lock to wait for), and each step
of a busy thread stays possible until it is taken. No fairness is assumed of
arrivals, of the clock or of restarts. `EveryRequestAnswered` therefore says that
the purge ends by itself; it holds because a scan visits each entry once and the
iterator does not outlive a change of the dictionary's size.

`AgentAttacks`' `FairSpec` has weak fairness of the harness's own steps, one process
that waits for nothing but its agent, and the agent's run may end at any moment,
since httpx has a timeout and `run_sync` a limit of requests. None is assumed of the
gateway: `ScriptEnds` holds although calls may stay in it for ever.
`AgentSession`'s has weak fairness of time and of the client's timeout, none of
gateway, network or agent: `EveryCallEnds` is what httpx's default timeouts give.
`Deployment` has no liveness: a command may always fail again.

Each property of a passing run has a mutant in `PROJECT.json`: a plausible slip in
the code, given as a definition next to the original (`\* Mutant: ...`), under
which TLC finds the property violated.

## What is proved

For every value of the constants that meets the modules' assumptions, and so for
any number of threads, requests, callers, sessions and calls, and any window:

| Theorem | Statement | Rests on |
|---|---|---|
| `Gate1Proofs!TypeCorrect` | `TypeOK` | |
| `Gate1Proofs!CacheRemembersFresh` | `FreshIsRemembered` | `Inv` |
| `Gate1Proofs!ImplementsGuard` | `Gate1`'s specification implements `ReplayGuard` | `Inv` |
| `Gate1Proofs!ProofsAreSingleUse` | `SingleUse`, if requests never overlap | `Inv`, `SerialInv` |
| `Gate1Proofs!OneThreadSingleUse` | `SingleUse` for one thread | the former |
| `Gate1Proofs!OnlyOverlapRaises` | `RaisesForCause`, if requests never overlap | `Inv`, `SerialInv` |
| `SessionEnvelopeProofs!TypeCorrect` | `TypeOK` | |
| `SessionEnvelopeProofs!RollingLimitHolds` | `RollingLimit` | the inductive invariant |
| `SessionEnvelopeProofs!WindowLimitHolds` | `WindowLimit` | the same, and a bound on late stamps |
| `SessionEnvelopeProofs!DenialIsJustified` | `DenialJustified` | what the store holds was admitted |
| `SessionEnvelopeProofs!ImplementsCounter` | `SessionEnvelope`'s specification implements `CallCounter` | the store's calls are numbered below the next call's number |
| `GatewayProofs!TypeCorrect` | `TypeOK` | |
| `GatewayProofs!PerimeterHolds` | `AllowedIsAuthorised` | `Inv`, `DirectoryAssumption` |
| `GatewayProofs!AuditNamesOwner` | `EntriesNameOwner` | `Inv` |
| `GatewayProofs!AuditTellsAnswer` | `TrailTellsAnswer` | `Inv` and `TellInv` |
| `GatewayProofs!EnvelopeCountsPermitted` | `CountsPermittedOnly` | `Inv`, `TellInv` and `ChargeInv` |
| `GatewayProofs!ImplementsCounter` | `Gateway`'s specification implements `CallCounter` | `Inv`, `AskersKnown` |
| `AgentAttacksProofs!TypeCorrect` | `TypeOK` | |
| `AgentAttacksProofs!SafeIsSafe` | `SafeMeansSafe` | `Inv` |
| `AgentAttacksProofs!AccountsNeverDiffer` | `AccountsAgree` | `Inv` |
| `AgentVerdictProofs!VerdictsAreExact` | `VerdictIsExact` | `Inv`, `ExactInv` |
| `AgentVerdictProofs!SlateIsClean` | `CleanSlate` | `Inv`, `ExactInv` |
| `GatewayAttacksProofs!TypeCorrect` | `TypeOK` | `TypeInv` |
| `GatewayAttacksProofs!AttacksAreDenied` | `DeniedWhereIntended` | `CorpusFits`; `TypeInv`, `Spent`, `AsIntended` |
| `GatewayAttacksProofs!BurstsAreDenied` | `BurstDeniedFromItsCall` | `CorpusFits`; `TypeInv`, `BurstCounted`, `BurstAnswered` |
| `GatewayAttacksProofs!ReportIsTrue` | `ReportAgrees` | `CorpusFits`; `TypeInv`, `Spent`, `Reported`, `Unguarded` |
| `AgentSessionProofs!TypeCorrect` | `TypeOK` | `Inv` |
| `AgentSessionProofs!NeverRefusedWithoutCause` | `RefusedForCause` | `Inv` |
| `AgentSessionProofs!ExpiryIsFinal` | `ExpiredForGood` | `Inv` |
| `AgentSessionProofs!CallsAreTheUsersOwn` | `OwnCalls` | `Inv` |
| `DeploymentProofs!TypeCorrect` | `TypeOK` | `Inv` |
| `DeploymentProofs!TopologiesStayApart` | `OneTopologyEach` | `Inv` |
| `DeploymentProofs!AgentsStayConfined` | `AgentsConfined` | `Inv` |
| `DeploymentProofs!TenantsStayApart` | `TenantsApart` | `Inv` |
| `DeploymentProofs!PullFindsItsEgress` | `PullHasItsEgress` | `Inv` |
| `DeploymentProofs!UpIsUsable` | `UpMeansUsable` | `Inv` |

The arguments.

*Gate 1.* That fresh proofs are remembered is not inductive: a thread in the
middle of the purge holds a list of entries to delete. The invariant adds that a
thread's `now` is in the past, that a proof which got as far as the clock was not
from the future, hence that every entry expires a window after its proof's `iat`
or later (`ExpiryCoversFreshness`), and that whatever a thread has listed for
deletion belongs to a proof that is stale (`ListedAreStale`). Then a deletion, by
however slow a thread, takes no fresh proof away. The refinement follows: a proof
recorded a second time was not in the cache, so it was not fresh.

*Gate 1, one request at a time.* Single use is false in general (a thread that is suspended
after its freshness check may find that another has purged its proof's entry), and
an exception of the purge is what the first finding shows. The theorems take "requests never overlap" as a hypothesis
about the behaviour (`[]NoOverlap`), and `OneThreadSingleUse` derives it from there
being one thread. Then only the thread in the gate changes the cache. Its scan is
therefore undisturbed, what it lists had expired, and it is still there to delete
(`ScanExact`, `ListedBeforeNow`, `ListedCached`): neither the scan nor a deletion raises.
What may raise is the request itself (`RaisesByItself`; see the observations), which
no argument about interleavings excludes. A proof that was recorded and is gone had expired before the `now` of the
thread that is in the gate (`GoneBeforeNow`), and that thread has found its own
proof fresh at the same `now`; so the proof it looks up, if recorded, is found.

*Gate 3.* The store holds admitted calls only, never more than the limit, and a
call that is admitted but no longer in the store has left the window that ends
now, because no thread's stamp is ahead of the clock. So the calls in the current
window are among those in the store. For past windows, a stamp is at most `Lag`
behind the clock when its call is admitted, which costs the window `Lag` seconds.
That the store implements `CallCounter` is about cardinalities: pruning leaves a
subset, and a call that is admitted is a new element, because its number was
given to no call before. That last fact is why calls are numbered, and the only
invariant the refinement needs.

*Gateway.* The invariant says what has been established when a thread is at a
label: its context is its own request's, its identity is the token's, the policy
permits it, its arguments have been checked. For the audit log: no two threads
serve the same request id, an answered id is served no more, and an id not yet
given has no entries, so that an entry goes only to its own request's trail. A
second invariant on top counts the entries a request has at each label. For the
counters a third, `ChargeInv`, says that a request between Gate 2 and Gate 3's answer
has its grant as the second entry of its trail (`GrantLogged`). A step of the pipeline then either leaves
every counter as it is, or lowers it, and takes no request out of `Charged`; or it is
Gate 3's, which raises one counter by one and makes one new request charged to that
caller: the rest is cardinalities.

That the pipeline implements `CallCounter` rests on who asks: the callers asking in
the counter are the threads at Gate 3, at Gate 4, or that Gate 3 has just refused,
and each of them asks for a caller and a tool the counter knows (`AskersKnown`). A
step of one thread leaves what the others ask as it is (`OthersStay`), so that it is
a step of the counter by this thread or a stutter.

*Tier 2.* A call that is let through has its closing entry in the log, and if its
case is still running, or ended without a crash, every call of the case is settled
when the end of the window is taken. So the closing entry of an allowed, watched
call lies between the case's start (a call is made after it) and its end, the
case's relevant entries contain it, and the outcome is not SAFE. That the accounts
agree needs no history at all, only that an outcome and the counts are read from
one set of entries, and that the set is finite.

*Tier 2, exact verdicts.* `ExactInv` relates the log to the calls the other way
round. Each entry is of some call; a denied call of the running case has its denial
after the case's start, and once the case is judged without a crash, inside its
window. As long as no run has crashed, all entries after the start are the running
case's (`WindowIsOwn`), and each of Gate 3's counts is at most the number of its own
calls that Gate 3 let through (`CountedOwn`). So a verdict is that of the case's own
calls, and a refusal by Gate 3 is due to them.

*Tier 1.* What the corpus expects depends on the values a deployment is given: an
amount of 250 must be within the bound and one of 1000000000 outside it, the two
records must be in different tenants, and each burst's first denial must be the call
after its limit. `CorpusFits` says so; it is the theorems' hypothesis, and `MCGatewayAttacks` has it
as an assumption about the shipped values, evaluated on the run. The script is
sequential, so the invariants are functions of the position in it: how much of each
limit the calls before a case can have used up (`Spent`), how many calls of a burst
have been counted (`BurstCounted`) and how each was answered (`AsIntended`,
`BurstAnswered`), and how many entries of each gate and decision the log holds
(`Reported`). `ReportAgrees` is `Reported` at the last position when every case has
passed; without the envelope it also needs that the bursts fail and nothing else
does (`Unguarded`).

*The client sessions.* A call carries its session's token and a proof made for it
alone, nothing of which changes afterwards, and the replay cache holds proofs of
calls that are past the replay check only (`SeenHavePassed`). So a call is never
refused as a replay of another's, and one that its client still waits for is not
older than the timeout (`WaitingInTime`). `ExpiryIsFinal` rests on `LookedAt`: a token
that was found expired was looked at no earlier than its expiry, one that was found
valid before it, and all calls of a session bear one token. It says nothing of
when a call takes effect, only of the checks.

*The deployments.* The only parameter is `Diversions`, of which the run has one
value and the proofs all. A bootstrap
script begins with `create` and `cilium`, and `cilium install` succeeds only in a
cluster without Cilium, where nothing has been applied yet (`BareBeforeCilium`). So
from its third command on, a script acts on a cluster that holds manifests of its own
topology only, and all it was to apply or to wait for so far has been done there
(`ScriptActs`), in whatever cluster the context puts it. A switch by hand breaks
this for the cluster it leads to and no other, which `disturbed` records: nothing is
claimed of that cluster from then on, until it is deleted. The policies come before
the agents and the pull in each script (`GuardsComeFirst`), hence in each cluster
(`AgentsGuarded`). The rest is about policies: those of one topology, all of them
there, open exactly the connections the properties name (`GuardedAgentConfined`,
`GuardedZoneClosed`, `GuardedCanPull`, `GuardedIsUsable`).

Only model-checked: `EveryRequestAnswered`, `ScriptEnds` and `EveryCallEnds`, which are
liveness under fairness and out of the prover's reach; and the violations, which
are counterexamples. No theorem needs induction over data: what the code computes in
a loop is a step each in the models.

## Findings

1. Gate 1's purge races with itself (`gate1_auth.py:178`, `:180`): an unexpected
   exception, a 500 without an audit entry. Execution stays blocked.
2. Gate 3 reads the clock before its lock (`gate3_session_envelope.py:76`): a late
   call can be admitted into a window that is full.
3. NaN passes Gate 4's bounds (`gate4_schema.py:38`); the log says ALLOW five
   times, and the answer fails to render.
4. A Tier 2 run that crashes may be scored "SAFE (not attempted)" although its
   watched call was made and is let through (`run_agent_attacks.py:128`, `:130`): the
   window ends before the call's entries. The recorded results hold crashed runs.

Observations made while modelling, without a run of their own:

- What a single request makes the libraries raise is caught in part. The
  conversion of the proof's key is outside the `try` (`gate1_auth.py:137`,
  `InvalidKeyError`), the JWK's members are read with `[]` (`:189`, `KeyError`),
  `jwt.decode` raises `TypeError`, no `PyJWTError`, when the `alg` does not fit the key
  (`:94`, `:140`), and an `iat` that is a string of digits passes it but not the
  subtraction (`:157`). Each ends in a 500 without an audit entry, where
  `main.py:4-6` promises "only a generic denial"; execution stays blocked.
- `eval/README.md:30` says of `bootstrap-silo.sh` "It's safe to rerun if something
  fails partway". The creation of the cluster is guarded for that; `cilium install`
  (`install-cilium.sh:10`) is not, and refuses a cluster that has Cilium. A script
  that failed after it cannot be run to its end in that cluster. `OneTopologyEach`,
  and with it every other property of `Deployment`, rests on this refusal: a
  tolerant install would let a rerun apply one topology over the other (the mutant
  `InstallCiliumAgain`).
- `run_matrix.sh` looks at kubectl's context once for a topology (line 16, "Aborting
  rather than silently running these tests against the wrong cluster", line 17) and
  reads it again for every run (line 28). After a switch by hand, which
  `eval/README.md:57` describes, the runs that follow go to the other cluster and
  are recorded under the topology's name.
- The request without a DPoP header never reaches Gate 1 (`main.py:76`), yet counts
  as denied by it; whatever is not a 200 would (`run_gateway_attacks.py:103`).
  `DecidedBy` and `MalformedFails` have both.
- The bootstrap scripts never switch kubectl's context, and `kind load` does not
  depend on it. When both bootstraps have failed before Cilium was installed, the
  Bridge script is run again with the context at Silo's cluster and the Silo
  script with the context at Bridge's, the latter ends "fully up" in `ztap-bridge`
  (its node pools suffice for Silo, not the other way round), and `run_matrix.sh`
  then measures Silo as Bridge. `k8s/bridge/README.md:30` says that
  `install-cilium.sh` acts on the current context; no script checks it.
  `AgentsConfined` and `OneTopologyEach` hold all the same, and are stated so as to
  include this.
- Steps 6 to 8 of `k8s/README.md` make the cluster anew and do not apply step 5's
  policies again: `allow-inference-internet` then is the only egress policy of
  Ollama's pod, which cannot resolve the registry's name. The mutant
  `SiloByTheReadme` is that order, under which `PullHasItsEgress` fails;
  `bootstrap-silo.sh` has the right one.
- `kubectl apply` of an unchanged manifest does not restart pods, and the image's tag
  never changes: a script that is run again builds and loads a new image, and
  reports it up while the old one runs.

## What is not modelled

- The cryptography and the token library, Cedar's engine, pydantic's coercions,
  FastAPI: external, kept as attributes of their inputs or as the operators that
  say what they return.
- A wall clock that is set back while the gateway runs; harness and gateway with
  differing clocks (both run in pods of one kind cluster, on one kernel).
- The JWKS cache of `PyJWKClient` and network failures towards Keycloak, both of
  which end in the denial or error that `Gate1` allows at `Verify`.
- The agent's language model: any calls in any order. What its prompts say.
- `analyze_matrix.py`, which tabulates recorded logs; latencies.
- Of the deployments: gVisor's isolation, images' contents, the update of pods
  that run, several scripts at once.
- Baseline, the DPoP smoke test, Terraform: no behaviour of their own that a
  model would show (see the components in `PROJECT.json`).

## Plan

Done: all modules above, their runs, and the proofs listed above, which state every
safety property and every refinement that the passing runs check.

To come: where a proof shows an assumption to be stronger than its use, weakening
it; hazards that have no property yet (see `PROJECT.json`).
