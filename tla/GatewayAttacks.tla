--------------------------- MODULE GatewayAttacks ---------------------------
(***************************************************************************)
(* Tier 1 of the evaluation (eval/run_gateway_attacks.py): the requests of *)
(* eval/attack_corpus.py sent to the gateway one after the other, each     *)
(* scored against what the corpus expects, and the report over the audit   *)
(* log at the end.                                                         *)
(*                                                                         *)
(* Every request waits for its answer and nobody else calls the gateway,   *)
(* so a request is one step here; Gateway has the threads.  Gates 2 and 4  *)
(* are Gate2Policy and Gate4Schema, Gate 3 is its counters, and the proofs *)
(* the client makes afresh for each call pass Gate 1 (see Gate1).  A call  *)
(* that times out or is answered with an error ends the run.               *)
(***************************************************************************)
EXTENDS Integers, Sequences, FiniteSets, Gate2Policy, Gate4Schema

CONSTANTS
  Agent,      \* AGENT_ID of the gateway
  Limits      \* Gate 3's maximum for an action

ASSUME LimitsAssumption == Limits \in [RecordActions -> Nat]

VARIABLES
  gate3,      \* GATE3_ENABLED, the gateway's environment
  part,       \* where main is
  index,      \* the case of the part that is running
  outcomes,   \* the answers to the calls of a burst so far
  counted,    \* the calls of alice's that Gate 3 still counts, by action
  slid,       \* one of them has left the window since the last reset
  tally,      \* the audit entries since run_start, by gate and decision
  results     \* all_results: the case, whether it passed, the gate that decided

gateway == <<counted, slid, tally>>
vars == <<gate3, part, index, outcomes, gateway, results>>

----------------------------------------------------------------------------
(* The corpus.  Every request is alice's; args holds what Gate 4 sees. *)
Args(recordId, amount) ==
  [recordId |-> recordId, amount |-> IF amount = 0 THEN "missing" ELSE "number",
   value |-> amount]

Single(id, gate, action, resource, args, expect) ==
  [id |-> id, gate |-> gate, action |-> action, resource |-> resource,
   args |-> args, proof |-> "valid", expect |-> expect]

GATEWAY_ATTACKS == <<
  Single("T1-G2-01", "GATE2", "readRecord", "rec-002", Args("text", 0), "DENY"),
  Single("T1-G2-02", "GATE2", "updateRecord", "rec-002", Args("text", 500), "DENY"),
  Single("T1-G2-03", "GATE2", "readRecord", "rec-002", Args("text", 0), "DENY"),
  Single("T1-G4-01", "GATE4", "readRecord", "rec-001", Args("unsafe", 0), "DENY"),
  Single("T1-G4-02", "GATE4", "readRecord", "rec-001", Args("unsafe", 0), "DENY"),
  Single("T1-G4-03", "GATE4", "updateRecord", "rec-001", Args("text", 1000000000), "DENY"),
  Single("T1-G4-04", "GATE4", "updateRecord", "rec-001", Args("text", -500), "DENY"),
  Single("T1-LEGIT-01", "ALL_GATES", "readRecord", "rec-001", Args("text", 0), "ALLOW"),
  Single("T1-LEGIT-02", "ALL_GATES", "updateRecord", "rec-001", Args("text", 250), "ALLOW")>>

Malformed(id, proof) ==
  [Single(id, "GATE1", "readRecord", "rec-001", Args("text", 0), "DENY")
     EXCEPT !.proof = proof]

GATE1_MALFORMED_REQUESTS ==
  <<Malformed("T1-G1-01", "missing"), Malformed("T1-G1-02", "garbage"),
    Malformed("T1-G1-03", "wrongKey")>>

Burst(id, action, args, callCount, denyFrom) ==
  [id |-> id, callCount |-> callCount, denyFromCall |-> denyFrom,
   request |-> Single(id, "GATE3", action, "rec-001", args, "DENY")]

GATE3_AGGREGATE_ATTACKS ==
  <<Burst("T1-G3-01", "readRecord", Args("text", 0), 15, 11),
    Burst("T1-G3-02", "updateRecord", Args("text", 250), 5, 4)>>

CorpusOf == [single |-> GATEWAY_ATTACKS, malformed |-> GATE1_MALFORMED_REQUESTS,
             burst |-> GATE3_AGGREGATE_ATTACKS]
Case == CorpusOf[part][index]

Ids == UNION {{CorpusOf[p][k].id : k \in 1 .. Len(CorpusOf[p])} : p \in DOMAIN CorpusOf}

----------------------------------------------------------------------------
(* The gateway's answer to a request. *)
Logged == {"GATE1", "GATE2", "GATE3", "GATE4", "ALL_GATES"}
NothingLogged == [g \in Logged |-> [ALLOW |-> 0, DENY |-> 0]]

\* Mutant: the arguments are looked at before the envelope.
SchemaFirst == <<"GATE1", "GATE2", "GATE4", "GATE3">>

Pipeline == <<"GATE1", "GATE2", "GATE3", "GATE4">>

\* Mutant: one call more than the limit.
RefusesLate(gate, r) ==
  CASE gate = "GATE1" -> r.proof # "valid"
    [] gate = "GATE2" -> ~Permits("alice", r.action, r.resource, Agent)
    [] gate = "GATE3" -> gate3 /\ counted[r.action] > Limits[r.action]
    [] gate = "GATE4" -> ~WellFormed(r.action, r.args)

(* Gate 3 switched off lets every call through, and logs that it does. *)
Refuses(gate, r) ==
  CASE gate = "GATE1" -> r.proof # "valid"
    [] gate = "GATE2" -> ~Permits("alice", r.action, r.resource, Agent)
    [] gate = "GATE3" -> gate3 /\ counted[r.action] >= Limits[r.action]
    [] gate = "GATE4" -> ~WellFormed(r.action, r.args)

(* How many gates let r through. *)
Passes(r) ==
  CHOOSE n \in 0 .. Len(Pipeline) :
    /\ \A m \in 1 .. n : ~Refuses(Pipeline[m], r)
    /\ n < Len(Pipeline) => Refuses(Pipeline[n + 1], r)

Allowed(r) == Passes(r) = Len(Pipeline)

(* FastAPI turns a request without the header down itself, with a 422. *)
DecidedBy(r) ==
  CASE r.proof = "missing" -> "FastAPI"
    [] r.proof # "missing" /\ Allowed(r) -> "ALL_GATES"
    [] r.proof # "missing" /\ ~Allowed(r) -> Pipeline[Passes(r) + 1]

Answer(r) == IF DecidedBy(r) = "ALL_GATES" THEN "ALLOW" ELSE "DENY"

PassedGates(r) ==
  IF DecidedBy(r) = "FastAPI" THEN {}
  ELSE {Pipeline[m] : m \in 1 .. Passes(r)}
         \cup (IF Allowed(r) THEN {"ALL_GATES"} ELSE {})

\* Mutant: Gate 3 counts what it is asked, Gate 2's answer or not.
CountsEvery(r) == gate3 /\ r.proof = "valid" /\ counted[r.action] < Limits[r.action]

(* Gate 3 records the calls it lets through, unless it is switched off. *)
Counts(r) == gate3 /\ "GATE3" \in PassedGates(r)

(* The gateway handles r. *)
Handle(r) ==
  /\ tally' = [g \in Logged |->
                 [ALLOW |-> tally[g].ALLOW + (IF g \in PassedGates(r) THEN 1 ELSE 0),
                  DENY  |-> tally[g].DENY
                              + (IF g = DecidedBy(r) /\ Answer(r) = "DENY" THEN 1 ELSE 0)]]
  /\ counted' = IF Counts(r) THEN [counted EXCEPT ![r.action] = @ + 1] ELSE counted
  /\ UNCHANGED slid

(* A call leaves the window of 60 seconds. *)
WindowSlides ==
  /\ part \in DOMAIN CorpusOf
  /\ \E a \in RecordActions : /\ counted[a] > 0
                              /\ counted' = [counted EXCEPT ![a] = @ - 1]
  /\ slid' = TRUE
  /\ UNCHANGED <<gate3, part, index, outcomes, tally, results>>

\* Mutant: the reset is forgotten.
ResetNothing == slid' = FALSE /\ UNCHANGED counted

(* POST /debug/reset *)
Reset == slid' = FALSE /\ counted' = [a \in RecordActions |-> 0]

----------------------------------------------------------------------------
(* The harness. *)
Init ==
  /\ gate3 \in BOOLEAN
  /\ part = "start" /\ index = 1 /\ outcomes = <<>>
  \* What earlier runs left behind.
  /\ counted \in [RecordActions -> UNION {0 .. Limits[a] : a \in RecordActions}]
  /\ \A a \in RecordActions : counted[a] <= Limits[a]
  /\ slid = FALSE /\ tally = NothingLogged /\ results = <<>>

Start ==
  /\ part = "start" /\ part' = "single"
  /\ Reset
  /\ UNCHANGED <<gate3, index, outcomes, tally, results>>

PartAfter == [single |-> "malformed", malformed |-> "resetting", burst |-> "report"]

(* On to the next case of the part, or to the next part.  A burst starts   *)
(* with its own reset.                                                     *)
Advance ==
  IF index < Len(CorpusOf[part])
    THEN /\ index' = index + 1
         /\ part'  = IF part = "burst" THEN "resetting" ELSE part
    ELSE index' = 1 /\ part' = PartAfter[part]

Score(passed, by) ==
  results' = Append(results, [id |-> Case.id, passed |-> passed, by |-> by])

SingleCall ==
  /\ part = "single"
  /\ Handle(Case) /\ Score(Answer(Case) = Case.expect, DecidedBy(Case)) /\ Advance
  /\ UNCHANGED <<gate3, outcomes>>

MalformedCall ==
  /\ part = "malformed"
  /\ Handle(Case) /\ Score(Answer(Case) = Case.expect, DecidedBy(Case)) /\ Advance
  /\ UNCHANGED <<gate3, outcomes>>

(* A transport failure is a result of its own here; the gateway may have   *)
(* handled the request or not.                                             *)
MalformedError ==
  /\ part = "malformed"
  /\ Handle(Case) \/ UNCHANGED gateway
  /\ Score(FALSE, "nobody") /\ Advance
  /\ UNCHANGED <<gate3, outcomes>>

(* An exception Gate 1 does not expect, or an audit file that cannot be    *)
(* written: a 500, and whatever is not a 200 is a denial here.             *)
MalformedFails ==
  /\ part = "malformed"
  /\ Score(Case.expect = "DENY", "nobody") /\ Advance
  /\ UNCHANGED <<gate3, outcomes, gateway>>

BurstReset ==
  /\ part = "resetting" /\ part' = "burst"
  /\ Reset
  /\ outcomes' = <<>>
  /\ UNCHANGED <<gate3, index, tally, results>>

BurstCall ==
  /\ part = "burst" /\ Len(outcomes) < Case.callCount
  /\ Handle(Case.request)
  /\ outcomes' = Append(outcomes, Answer(Case.request))
  /\ UNCHANGED <<gate3, part, index, results>>

(* ["ALLOW"] * (deny_from_call - 1) and then only "DENY". *)
Expected(burst) ==
  [k \in 1 .. burst.callCount |-> IF k < burst.denyFromCall THEN "ALLOW" ELSE "DENY"]

BurstScore ==
  /\ part = "burst" /\ Len(outcomes) = Case.callCount
  /\ Score(outcomes = Expected(Case), "GATE3") /\ Advance
  /\ UNCHANGED <<gate3, outcomes, gateway>>

(* A reset, a token request or session.call raises anything but a          *)
(* GatewayDenied: nothing catches it, and nothing is reported.             *)
Crash ==
  /\ \/ part \in {"start", "single", "resetting"}
     \/ part = "malformed" /\ index = 1
     \/ part = "burst" /\ Len(outcomes) < Case.callCount
  /\ part' = "crashed"
  /\ UNCHANGED <<gate3, index, outcomes, gateway, results>>

Next ==
  \/ Start \/ SingleCall \/ MalformedCall \/ MalformedError \/ MalformedFails
  \/ BurstReset \/ BurstCall \/ BurstScore
  \/ Crash \/ WindowSlides

Spec == Init /\ [][Next]_vars

----------------------------------------------------------------------------
(* The state's type; Gate 3 never holds more calls than its limit.         *)
TypeOK ==
  /\ gate3 \in BOOLEAN /\ slid \in BOOLEAN
  /\ part \in {"start", "single", "malformed", "resetting", "burst", "report", "crashed"}
  /\ index \in 1 .. Len(GATEWAY_ATTACKS)
  /\ outcomes \in Seq({"ALLOW", "DENY"}) /\ Len(outcomes) <= 15
  /\ DOMAIN counted = RecordActions
  /\ \A a \in RecordActions : counted[a] \in 0 .. Limits[a]
  /\ tally \in [Logged -> [ALLOW : Nat, DENY : Nat]]
  /\ results \in Seq([id : Ids, passed : BOOLEAN, by : Logged \cup {"FastAPI", "nobody"}])

Results == {results[k] : k \in 1 .. Len(results)}
Cases(p) == {CorpusOf[p][k] : k \in 1 .. Len(CorpusOf[p])}

(* What the corpus takes for granted of gate2_entities.json, of Gate 4's   *)
(* bound and of Gate 3's limits.                                           *)
EntitiesFit ==
  /\ SameTenant("alice", "rec-001") /\ ~SameTenant("alice", "rec-002")
  /\ \A a \in RecordActions : AgentMay(Agent, a)
AmountsFit == MaxAmount >= 250 /\ MaxAmount < 1000000000
LimitsFit  == \A b \in Cases("burst") : b.denyFromCall = Limits[b.request.action] + 1

CorpusFits == EntitiesFit /\ AmountsFit /\ LimitsFit

(* Each attack of GATEWAY_ATTACKS is scored PASS and the gate that decided *)
(* it is the one the corpus names, whatever earlier cases, earlier runs    *)
(* and the window have left in Gate 3 (attack_corpus.py:27, "any denial    *)
(* demonstrated here comes from Gate 2 or Gate 4 specifically").  The nine *)
(* share one session and one window, in which legitimate calls come last.  *)
DeniedWhereIntended ==
  \A r \in Results : \A c \in Cases("single") :
    r.id = c.id => r.passed /\ r.by = c.gate

(* A burst is never denied before the call the corpus says, however the    *)
(* window moves and whatever the calls before it left in Gate 3; with the  *)
(* envelope on and no call leaving the window it is denied from there on.  *)
BurstDeniedFromItsCall ==
  part = "burst" =>
    \A k \in 1 .. Len(outcomes) :
      /\ outcomes[k] = "DENY" => k >= Case.denyFromCall
      /\ outcomes[k] = "ALLOW" /\ gate3 /\ ~slid => k < Case.denyFromCall

(* print_summary and blocking_rate_report: the cases that failed, and the  *)
(* entries, the denials by gate and the allowed requests of the audit log. *)
Failures     == {r.id : r \in {s \in Results : ~s.passed}}
Denials      == [g \in Logged |-> tally[g].DENY]
FullyAllowed == tally["ALL_GATES"].ALLOW

Entries == LET all == [g \in Logged |-> tally[g].ALLOW + tally[g].DENY]
           IN  all["GATE1"] + all["GATE2"] + all["GATE3"] + all["GATE4"] + all["ALL_GATES"]

(* What the harness scores and what the gateway logged agree: when every   *)
(* case passed and was answered, the report over the audit log is the one  *)
(* in eval/results (120 entries; denials 2, 3, 7 and 4; 15 allowed).       *)
(* Without the envelope exactly the two bursts fail, and the log says that *)
(* GATE3 let through all it was asked: 134 entries, 22 allowed.            *)
ReportAgrees ==
  part = "report" /\ (\A r \in Results : r.by # "nobody") =>
    /\ gate3 /\ Failures = {} =>
         /\ Entries = 120 /\ FullyAllowed = 15
         /\ Denials = [GATE1 |-> 2, GATE2 |-> 3, GATE3 |-> 7, GATE4 |-> 4, ALL_GATES |-> 0]
    /\ ~gate3 =>
         /\ Failures = {c.id : c \in Cases("burst")}
         /\ Entries = 134 /\ FullyAllowed = 22 /\ Denials["GATE3"] = 0
=============================================================================
