------------------------ MODULE GatewayAttacksProofs ------------------------
(***************************************************************************)
(* Proofs about Tier 1 of the evaluation, for any entities, bounds and     *)
(* limits.  That each attack is denied where the corpus says holds for all *)
(* of them that fit the corpus (CorpusFits).                               *)
(***************************************************************************)
EXTENDS GatewayAttacks, TLAPS

----------------------------------------------------------------------------
(* The corpus. *)

LEMMA CorpusLengths ==
  /\ DOMAIN CorpusOf = {"single", "malformed", "burst"}
  /\ CorpusOf["single"] = GATEWAY_ATTACKS /\ Len(GATEWAY_ATTACKS) = 9
  /\ CorpusOf["malformed"] = GATE1_MALFORMED_REQUESTS /\ Len(GATE1_MALFORMED_REQUESTS) = 3
  /\ CorpusOf["burst"] = GATE3_AGGREGATE_ATTACKS /\ Len(GATE3_AGGREGATE_ATTACKS) = 2
<1>1. DOMAIN CorpusOf = {"single", "malformed", "burst"}
  BY DEF CorpusOf
<1>2. /\ CorpusOf["single"] = GATEWAY_ATTACKS
      /\ CorpusOf["malformed"] = GATE1_MALFORMED_REQUESTS
      /\ CorpusOf["burst"] = GATE3_AGGREGATE_ATTACKS
  BY DEF CorpusOf
<1>3. Len(GATEWAY_ATTACKS) = 9
  BY DEF GATEWAY_ATTACKS
<1>4. Len(GATE1_MALFORMED_REQUESTS) = 3
  BY DEF GATE1_MALFORMED_REQUESTS
<1>5. Len(GATE3_AGGREGATE_ATTACKS) = 2
  BY DEF GATE3_AGGREGATE_ATTACKS
<1> QED
  BY <1>1, <1>2, <1>3, <1>4, <1>5

(* The nine single calls: what they ask for ... *)
LEMMA SingleAsks ==
  ASSUME NEW k \in 1 .. 9
  PROVE  /\ GATEWAY_ATTACKS[k].proof = "valid"
         /\ GATEWAY_ATTACKS[k].action =
              IF k \in {1, 3, 4, 5, 8} THEN "readRecord" ELSE "updateRecord"
         /\ GATEWAY_ATTACKS[k].resource = IF k <= 3 THEN "rec-002" ELSE "rec-001"
<1>1. CASE k \in 1 .. 3
  <2>1. k = 1 \/ k = 2 \/ k = 3
    BY <1>1
  <2> QED
    BY <2>1, SMT DEF GATEWAY_ATTACKS, Single
<1>2. CASE k \in 4 .. 6
  <2>1. k = 4 \/ k = 5 \/ k = 6
    BY <1>2
  <2> QED
    BY <2>1, SMT DEF GATEWAY_ATTACKS, Single
<1>3. CASE k \in 7 .. 9
  <2>1. k = 7 \/ k = 8 \/ k = 9
    BY <1>3
  <2> QED
    BY <2>1, SMT DEF GATEWAY_ATTACKS, Single
<1> QED
  BY <1>1, <1>2, <1>3

LEMMA SingleAnswers ==
  ASSUME NEW k \in 1 .. 9
  PROVE  /\ k <= 3 => GATEWAY_ATTACKS[k].gate = "GATE2" /\ GATEWAY_ATTACKS[k].expect = "DENY"
         /\ k \in 4 .. 7 => GATEWAY_ATTACKS[k].gate = "GATE4" /\ GATEWAY_ATTACKS[k].expect = "DENY"
         /\ k >= 8 => GATEWAY_ATTACKS[k].gate = "ALL_GATES" /\ GATEWAY_ATTACKS[k].expect = "ALLOW"
<1>1. CASE k \in 1 .. 3
  <2>1. k = 1 \/ k = 2 \/ k = 3
    BY <1>1
  <2> QED
    BY <2>1, SMT DEF GATEWAY_ATTACKS, Single
<1>2. CASE k \in 4 .. 6
  <2>1. k = 4 \/ k = 5 \/ k = 6
    BY <1>2
  <2> QED
    BY <2>1, SMT DEF GATEWAY_ATTACKS, Single
<1>3. CASE k \in 7 .. 9
  <2>1. k = 7 \/ k = 8 \/ k = 9
    BY <1>3
  <2> QED
    BY <2>1, SMT DEF GATEWAY_ATTACKS, Single
<1> QED
  BY <1>1, <1>2, <1>3

(* ... and what Gate 4 makes of those that reach it. *)
LEMMA SingleArgs ==
  ASSUME CorpusFits, NEW k \in 4 .. 9
  PROVE  WellFormed(GATEWAY_ATTACKS[k].action, GATEWAY_ATTACKS[k].args) <=> k >= 8
<1>1. MaxAmount \in Int /\ MaxAmount >= 250 /\ MaxAmount < 1000000000
  BY AmountAssumption, SMT DEF CorpusFits, AmountsFit
<1>2. GATEWAY_ATTACKS[4].args.recordId = "unsafe" /\ GATEWAY_ATTACKS[5].args.recordId = "unsafe"
  BY SMT DEF GATEWAY_ATTACKS, Single, Args
<1>3. /\ GATEWAY_ATTACKS[6].args.amount = "number"
      /\ GATEWAY_ATTACKS[6].args.value = 1000000000
  BY SMT DEF GATEWAY_ATTACKS, Single, Args
<1>4. GATEWAY_ATTACKS[7].args.amount = "number" /\ GATEWAY_ATTACKS[7].args.value = -500
  BY SMT DEF GATEWAY_ATTACKS, Single, Args
<1>5. GATEWAY_ATTACKS[8].args.recordId = "text" /\ GATEWAY_ATTACKS[9].args.recordId = "text"
  BY SMT DEF GATEWAY_ATTACKS, Single, Args
<1>6. GATEWAY_ATTACKS[9].args.amount = "number" /\ GATEWAY_ATTACKS[9].args.value = 250
  BY SMT DEF GATEWAY_ATTACKS, Single, Args
<1>7. CASE k \in {4, 5}
  BY <1>2, <1>7, SMT DEF WellFormed, SafeRecordId
<1>8. CASE k = 6
  BY <1>1, <1>3, <1>8, SingleAsks, SMT DEF WellFormed, SaneAmount, AboveMax
<1>9. CASE k = 7
  BY <1>4, <1>9, SingleAsks, SMT DEF WellFormed, SaneAmount, BelowZero
<1>10. CASE k = 8
  BY <1>5, <1>10, SingleAsks, SMT DEF WellFormed, SafeRecordId, Schemas
<1>11. CASE k = 9
  BY <1>1, <1>5, <1>6, <1>11, SingleAsks, SMT
     DEF WellFormed, SafeRecordId, SaneAmount, IsFloat, AboveMax, BelowZero, Schemas
<1> QED
  BY <1>7, <1>8, <1>9, <1>10, <1>11, SMT

LEMMA MalformedAsks ==
  ASSUME NEW k \in 1 .. 3
  PROVE  /\ GATE1_MALFORMED_REQUESTS[k].proof # "valid"
         /\ GATE1_MALFORMED_REQUESTS[k].action = "readRecord"
         /\ GATE1_MALFORMED_REQUESTS[k].expect = "DENY"
<1>1. k = 1 \/ k = 2 \/ k = 3
  OBVIOUS
<1> QED
  BY <1>1 DEF GATE1_MALFORMED_REQUESTS, Malformed, Single

LEMMA BurstAsks ==
  ASSUME NEW k \in 1 .. 2
  PROVE  /\ GATE3_AGGREGATE_ATTACKS[k].callCount \in 1 .. 15
         /\ GATE3_AGGREGATE_ATTACKS[k].request.proof = "valid"
         /\ GATE3_AGGREGATE_ATTACKS[k].request.action \in RecordActions
         /\ GATE3_AGGREGATE_ATTACKS[k].request.resource = "rec-001"
<1>1. k = 1 \/ k = 2
  OBVIOUS
<1> QED
  BY <1>1 DEF GATE3_AGGREGATE_ATTACKS, Burst, Single, RecordActions

LEMMA BurstArgs ==
  ASSUME CorpusFits, NEW k \in 1 .. 2
  PROVE  WellFormed(GATE3_AGGREGATE_ATTACKS[k].request.action,
                    GATE3_AGGREGATE_ATTACKS[k].request.args)
<1>1. MaxAmount \in Int /\ MaxAmount >= 250
  BY AmountAssumption, SMT DEF CorpusFits, AmountsFit
<1>2. CASE k = 1
  BY <1>2 DEF GATE3_AGGREGATE_ATTACKS, Burst, Single, Args, WellFormed, SafeRecordId, Schemas
<1>3. CASE k = 2
  BY <1>1, <1>3 DEF GATE3_AGGREGATE_ATTACKS, Burst, Single, Args, WellFormed, SafeRecordId,
                    SaneAmount, AboveMax, BelowZero, IsFloat, Schemas
<1> QED
  BY <1>2, <1>3

(* No other case bears the id of one of the nine. *)
LEMMA IdsApart ==
  /\ \A j, k \in 1 .. 9 : GATEWAY_ATTACKS[j].id = GATEWAY_ATTACKS[k].id => j = k
  /\ \A j \in 1 .. 3, k \in 1 .. 9 :
       GATE1_MALFORMED_REQUESTS[j].id # GATEWAY_ATTACKS[k].id
  /\ \A j \in 1 .. 2, k \in 1 .. 9 :
       GATE3_AGGREGATE_ATTACKS[j].id # GATEWAY_ATTACKS[k].id
<1>1. /\ GATEWAY_ATTACKS[1].id = "T1-G2-01" /\ GATEWAY_ATTACKS[2].id = "T1-G2-02"
      /\ GATEWAY_ATTACKS[3].id = "T1-G2-03" /\ GATEWAY_ATTACKS[4].id = "T1-G4-01"
      /\ GATEWAY_ATTACKS[5].id = "T1-G4-02" /\ GATEWAY_ATTACKS[6].id = "T1-G4-03"
      /\ GATEWAY_ATTACKS[7].id = "T1-G4-04" /\ GATEWAY_ATTACKS[8].id = "T1-LEGIT-01"
      /\ GATEWAY_ATTACKS[9].id = "T1-LEGIT-02"
  BY SMT DEF GATEWAY_ATTACKS, Single
<1>2. /\ GATE1_MALFORMED_REQUESTS[1].id = "T1-G1-01"
      /\ GATE1_MALFORMED_REQUESTS[2].id = "T1-G1-02"
      /\ GATE1_MALFORMED_REQUESTS[3].id = "T1-G1-03"
  BY DEF GATE1_MALFORMED_REQUESTS, Malformed, Single
<1>3. /\ GATE3_AGGREGATE_ATTACKS[1].id = "T1-G3-01"
      /\ GATE3_AGGREGATE_ATTACKS[2].id = "T1-G3-02"
  BY DEF GATE3_AGGREGATE_ATTACKS, Burst
<1>4. \A k \in 1 .. 9 : k \in {1, 2, 3, 4, 5, 6, 7, 8, 9}
  OBVIOUS
<1>5. \A j, k \in 1 .. 9 : GATEWAY_ATTACKS[j].id = GATEWAY_ATTACKS[k].id => j = k
  BY <1>1, <1>4
<1>6. \A j \in 1 .. 3, k \in 1 .. 9 :
        GATE1_MALFORMED_REQUESTS[j].id # GATEWAY_ATTACKS[k].id
  BY <1>1, <1>2, <1>4
<1>7. \A j \in 1 .. 2, k \in 1 .. 9 :
        GATE3_AGGREGATE_ATTACKS[j].id # GATEWAY_ATTACKS[k].id
  BY <1>1, <1>3, <1>4
<1> QED
  BY <1>5, <1>6, <1>7

----------------------------------------------------------------------------
(* The pipeline. *)

LEMMA FourGates ==
  /\ Len(Pipeline) = 4
  /\ Pipeline[1] = "GATE1" /\ Pipeline[2] = "GATE2"
  /\ Pipeline[3] = "GATE3" /\ Pipeline[4] = "GATE4"
BY DEF Pipeline

(* Passes is what it says: the gates before the first that refuses.        *)
LEMMA HowFar ==
  ASSUME NEW r
  PROVE  /\ Passes(r) \in 0 .. 4
         /\ \A m \in 1 .. Passes(r) : ~Refuses(Pipeline[m], r)
         /\ Passes(r) < 4 => Refuses(Pipeline[Passes(r) + 1], r)
<1> DEFINE Far(n) == /\ \A m \in 1 .. n : ~Refuses(Pipeline[m], r)
                     /\ n < Len(Pipeline) => Refuses(Pipeline[n + 1], r)
<1>1. \E n \in 0 .. Len(Pipeline) : Far(n)
  <2>1. CASE Refuses(Pipeline[1], r)
    <3>1. Far(0)
      BY <2>1, FourGates
    <3> QED
      BY <3>1, FourGates
  <2>2. CASE ~Refuses(Pipeline[1], r) /\ Refuses(Pipeline[2], r)
    <3>1. Far(1)
      BY <2>2, FourGates
    <3> QED
      BY <3>1, FourGates
  <2>3. CASE ~Refuses(Pipeline[1], r) /\ ~Refuses(Pipeline[2], r) /\ Refuses(Pipeline[3], r)
    <3>1. \A m \in 1 .. 2 : m = 1 \/ m = 2
      OBVIOUS
    <3>2. Far(2)
      BY <2>3, <3>1, FourGates
    <3> QED
      BY <3>2, FourGates
  <2>4. CASE /\ ~Refuses(Pipeline[1], r) /\ ~Refuses(Pipeline[2], r)
             /\ ~Refuses(Pipeline[3], r) /\ Refuses(Pipeline[4], r)
    <3>1. \A m \in 1 .. 3 : m = 1 \/ m = 2 \/ m = 3
      OBVIOUS
    <3>2. Far(3)
      BY <2>4, <3>1, FourGates
    <3> QED
      BY <3>2, FourGates
  <2>5. CASE /\ ~Refuses(Pipeline[1], r) /\ ~Refuses(Pipeline[2], r)
             /\ ~Refuses(Pipeline[3], r) /\ ~Refuses(Pipeline[4], r)
    <3>1. \A m \in 1 .. 4 : m = 1 \/ m = 2 \/ m = 3 \/ m = 4
      OBVIOUS
    <3>2. Far(4)
      BY <2>5, <3>1, FourGates
    <3> QED
      BY <3>2, FourGates
  <2> QED
    BY <2>1, <2>2, <2>3, <2>4, <2>5
<1>2. Passes(r) = CHOOSE n \in 0 .. Len(Pipeline) : Far(n)
  BY DEF Passes
<1> HIDE DEF Far
<1>3. Passes(r) \in 0 .. Len(Pipeline) /\ Far(Passes(r))
  BY <1>1, <1>2
<1> QED
  BY <1>3, FourGates DEF Far

(* The gate that decides, and what Gate 3 is asked.                        *)
LEMMA WhoDecides ==
  ASSUME NEW r
  PROVE  /\ r.proof = "missing" => DecidedBy(r) = "FastAPI"
         /\ r.proof # "missing" /\ Passes(r) = 4 => DecidedBy(r) = "ALL_GATES"
         /\ r.proof # "missing" /\ Passes(r) < 4 => DecidedBy(r) = Pipeline[Passes(r) + 1]
         /\ DecidedBy(r) \in Logged \cup {"FastAPI"}
         /\ Answer(r) \in {"ALLOW", "DENY"}
         /\ Answer(r) = "ALLOW" <=> r.proof # "missing" /\ Passes(r) = 4
<1>1. Passes(r) \in 0 .. 4
  BY HowFar
<1>2. r.proof = "missing" => DecidedBy(r) = "FastAPI"
  BY DEF DecidedBy
<1>3. r.proof # "missing" /\ Passes(r) = 4 => DecidedBy(r) = "ALL_GATES"
  BY FourGates DEF DecidedBy, Allowed
<1>4. r.proof # "missing" /\ Passes(r) < 4 => DecidedBy(r) = Pipeline[Passes(r) + 1]
  BY <1>1, FourGates DEF DecidedBy, Allowed
<1>5. \A n \in 0 .. 3 : /\ Pipeline[n + 1] \in Logged
                        /\ Pipeline[n + 1] # "ALL_GATES"
  <2>1. \A n \in 0 .. 3 : n = 0 \/ n = 1 \/ n = 2 \/ n = 3
    OBVIOUS
  <2> QED
    BY <2>1, FourGates DEF Logged
<1>6. DecidedBy(r) \in Logged \cup {"FastAPI"}
  BY <1>1, <1>2, <1>3, <1>4, <1>5 DEF Logged
<1>7. Answer(r) \in {"ALLOW", "DENY"}
  BY DEF Answer
<1>8. Answer(r) = "ALLOW" <=> r.proof # "missing" /\ Passes(r) = 4
  BY <1>1, <1>2, <1>3, <1>4, <1>5 DEF Answer
<1> QED
  BY <1>2, <1>3, <1>4, <1>6, <1>7, <1>8

LEMMA GateByGate ==
  ASSUME NEW r
  PROVE  /\ Refuses(Pipeline[1], r) <=> r.proof # "valid"
         /\ Refuses(Pipeline[2], r) <=> ~Permits("alice", r.action, r.resource, Agent)
         /\ Refuses(Pipeline[3], r) <=> gate3 /\ counted[r.action] >= Limits[r.action]
         /\ Refuses(Pipeline[4], r) <=> ~WellFormed(r.action, r.args)
<1>1. Refuses("GATE1", r) <=> r.proof # "valid"
  BY DEF Refuses
<1>2. Refuses("GATE2", r) <=> ~Permits("alice", r.action, r.resource, Agent)
  BY DEF Refuses
<1>3. Refuses("GATE3", r) <=> gate3 /\ counted[r.action] >= Limits[r.action]
  BY DEF Refuses
<1>4. Refuses("GATE4", r) <=> ~WellFormed(r.action, r.args)
  BY DEF Refuses
<1> QED
  BY <1>1, <1>2, <1>3, <1>4, FourGates

LEMMA CountsPassed ==
  ASSUME NEW r
  PROVE  Counts(r) <=> gate3 /\ r.proof # "missing" /\ Passes(r) >= 3
<1>1. Passes(r) \in 0 .. 4
  BY HowFar
<1>2. \A m \in 1 .. Passes(r) : Pipeline[m] = "GATE3" => m = 3
  <2>1. \A m \in 1 .. 4 : m = 1 \/ m = 2 \/ m = 3 \/ m = 4
    OBVIOUS
  <2> QED
    BY <1>1, <2>1, FourGates
<1>3. "GATE3" \in {Pipeline[m] : m \in 1 .. Passes(r)} <=> Passes(r) >= 3
  BY <1>1, <1>2, FourGates
<1>4. DecidedBy(r) = "FastAPI" <=> r.proof = "missing"
  <2>1. \A n \in 0 .. 3 : Pipeline[n + 1] # "FastAPI"
    <3>1. \A n \in 0 .. 3 : n = 0 \/ n = 1 \/ n = 2 \/ n = 3
      OBVIOUS
    <3> QED
      BY <3>1, FourGates
  <2> QED
    BY <1>1, <2>1, WhoDecides
<1>5. "GATE3" \in PassedGates(r) <=> r.proof # "missing" /\ Passes(r) >= 3
  BY <1>3, <1>4 DEF PassedGates
<1> QED
  BY <1>5 DEF Counts

----------------------------------------------------------------------------
(* The type invariant, with the cases each part of the script has. *)

Script ==
  /\ part \in {"start", "single", "malformed", "resetting", "burst", "report", "crashed"}
  /\ index \in 1 .. 9
  /\ part = "start" => index = 1
  /\ part = "malformed" => index <= 3
  /\ part \in {"resetting", "burst"} => index <= 2

CountsTyped ==
  /\ DOMAIN counted = RecordActions
  /\ \A a \in RecordActions : counted[a] \in 0 .. Limits[a]

GatewayTyped ==
  /\ gate3 \in BOOLEAN /\ slid \in BOOLEAN
  /\ CountsTyped
  /\ tally \in [Logged -> [ALLOW : Nat, DENY : Nat]]

OutcomesTyped == outcomes \in Seq({"ALLOW", "DENY"}) /\ Len(outcomes) <= 15

Scores == [id : Ids, passed : BOOLEAN, by : Logged \cup {"FastAPI", "nobody"}]

TypeInv == Script /\ GatewayTyped /\ OutcomesTyped /\ results \in Seq(Scores)

LEMMA TypeInvIsTypeOK ==
  TypeInv => TypeOK
BY CorpusLengths
   DEF TypeInv, TypeOK, Script, GatewayTyped, CountsTyped, OutcomesTyped, Scores

LEMMA LimitsAreNat ==
  ASSUME NEW a \in RecordActions
  PROVE  Limits[a] \in Nat
BY LimitsAssumption

(* The case that runs. *)
LEMMA CaseIs ==
  ASSUME Script
  PROVE  /\ part = "single" => Case = GATEWAY_ATTACKS[index]
         /\ part = "malformed" => index \in 1 .. 3 /\ Case = GATE1_MALFORMED_REQUESTS[index]
         /\ part = "burst" => index \in 1 .. 2 /\ Case = GATE3_AGGREGATE_ATTACKS[index]
         /\ part \in DOMAIN CorpusOf => Case.id \in Ids
<1>1. part = "single" => Case = GATEWAY_ATTACKS[index]
  BY CorpusLengths DEF Case
<1>2. part = "malformed" => index \in 1 .. 3 /\ Case = GATE1_MALFORMED_REQUESTS[index]
  BY CorpusLengths DEF Case, Script
<1>3. part = "burst" => index \in 1 .. 2 /\ Case = GATE3_AGGREGATE_ATTACKS[index]
  BY CorpusLengths DEF Case, Script
<1>4. ASSUME part \in DOMAIN CorpusOf
      PROVE  Case.id \in Ids
  <2>1. index \in 1 .. Len(CorpusOf[part])
    <3>1. CASE part = "single"
      BY <3>1, CorpusLengths DEF Script
    <3>2. CASE part = "malformed"
      BY <3>2, CorpusLengths DEF Script
    <3>3. CASE part = "burst"
      BY <3>3, CorpusLengths DEF Script
    <3> QED
      BY <1>4, <3>1, <3>2, <3>3, CorpusLengths
  <2> QED
    BY <1>4, <2>1 DEF Case, Ids
<1> QED
  BY <1>1, <1>2, <1>3, <1>4

(* What Gate 3 counts when r is handled. *)
LEMMA HandleCounts ==
  ASSUME GatewayTyped, NEW r, r.action \in RecordActions, Handle(r)
  PROVE  /\ CountsTyped'
         /\ Counts(r) => /\ counted'[r.action] = counted[r.action] + 1
                         /\ counted[r.action] < Limits[r.action]
         /\ ~Counts(r) => counted' = counted
         /\ \A a \in RecordActions \ {r.action} : counted'[a] = counted[a]
<1>1. /\ DOMAIN counted = RecordActions
      /\ \A a \in RecordActions : counted[a] \in 0 .. Limits[a] /\ Limits[a] \in Nat
  BY LimitsAreNat DEF GatewayTyped, CountsTyped
<1>2. counted' = IF Counts(r) THEN [counted EXCEPT ![r.action] = @ + 1] ELSE counted
  BY DEF Handle
<1>3. CASE Counts(r)
  <2>1. gate3 /\ 3 \in 1 .. Passes(r)
    BY <1>3, CountsPassed, HowFar
  <2>2. counted[r.action] < Limits[r.action]
    BY <2>1, <1>1, HowFar, GateByGate
  <2> QED
    BY <1>1, <1>2, <1>3, <2>2 DEF CountsTyped
<1>4. CASE ~Counts(r)
  BY <1>1, <1>2, <1>4 DEF CountsTyped
<1> QED
  BY <1>3, <1>4

LEMMA HandleTyped ==
  ASSUME GatewayTyped, NEW r, r.action \in RecordActions, Handle(r), UNCHANGED gate3
  PROVE  GatewayTyped'
<1>1. CountsTyped'
  BY HandleCounts
<1>2. tally' \in [Logged -> [ALLOW : Nat, DENY : Nat]]
  <2>1. ASSUME NEW g \in Logged
        PROVE  /\ tally[g].ALLOW + (IF g \in PassedGates(r) THEN 1 ELSE 0) \in Nat
               /\ tally[g].DENY
                    + (IF g = DecidedBy(r) /\ Answer(r) = "DENY" THEN 1 ELSE 0) \in Nat
    BY DEF GatewayTyped
  <2> QED
    BY <2>1 DEF Handle
<1> QED
  BY <1>1, <1>2 DEF GatewayTyped, Handle

LEMMA ResetTyped ==
  ASSUME GatewayTyped, Reset, UNCHANGED <<gate3, tally>>
  PROVE  GatewayTyped' /\ \A a \in RecordActions : counted'[a] = 0
<1>1. /\ DOMAIN counted' = RecordActions
      /\ \A a \in RecordActions : counted'[a] = 0 /\ Limits[a] \in Nat
  BY LimitsAreNat DEF Reset
<1>2. CountsTyped'
  BY <1>1 DEF CountsTyped
<1> QED
  BY <1>1, <1>2 DEF GatewayTyped, Reset

LEMMA SlidingCounts ==
  ASSUME GatewayTyped, WindowSlides
  PROVE  GatewayTyped' /\ \A a \in RecordActions : counted'[a] <= counted[a]
<1>1. PICK a \in RecordActions : counted[a] > 0 /\ counted' = [counted EXCEPT ![a] = @ - 1]
  BY DEF WindowSlides
<1>2. /\ DOMAIN counted = RecordActions
      /\ \A b \in RecordActions : counted[b] \in 0 .. Limits[b] /\ Limits[b] \in Nat
  BY LimitsAreNat DEF GatewayTyped, CountsTyped
<1>3. CountsTyped' /\ \A b \in RecordActions : counted'[b] <= counted[b]
  BY <1>1, <1>2 DEF CountsTyped
<1> QED
  BY <1>3 DEF GatewayTyped, WindowSlides

LEMMA AdvanceTyped ==
  ASSUME Script, part \in DOMAIN CorpusOf, Advance
  PROVE  Script'
<1>1. /\ PartAfter["single"] = "malformed" /\ PartAfter["malformed"] = "resetting"
      /\ PartAfter["burst"] = "report"
  BY DEF PartAfter
<1>2. CASE part = "single"
  BY <1>1, <1>2, CorpusLengths DEF Advance, Script
<1>3. CASE part = "malformed"
  BY <1>1, <1>3, CorpusLengths DEF Advance, Script
<1>4. CASE part = "burst"
  BY <1>1, <1>4, CorpusLengths DEF Advance, Script
<1> QED
  BY <1>2, <1>3, <1>4, CorpusLengths

LEMMA ScoreTyped ==
  ASSUME Script, results \in Seq(Scores), part \in DOMAIN CorpusOf,
         NEW passed \in BOOLEAN, NEW by \in Logged \cup {"FastAPI", "nobody"},
         Score(passed, by)
  PROVE  results' \in Seq(Scores)
<1>1. [id |-> Case.id, passed |-> passed, by |-> by] \in Scores
  BY CaseIs DEF Scores
<1> QED
  BY <1>1 DEF Score

LEMMA TypeInit ==
  ASSUME Init
  PROVE  TypeInv
<1>1. Script
  BY DEF Init, Script
<1>2. \A a \in RecordActions : counted[a] \in 0 .. Limits[a]
  <2>1. ASSUME NEW a \in RecordActions
        PROVE  counted[a] \in Nat
    <3>1. PICK b \in RecordActions : counted[a] \in 0 .. Limits[b]
      BY <2>1 DEF Init
    <3> QED
      BY <3>1, LimitsAreNat
  <2> QED
    BY <2>1, LimitsAreNat DEF Init
<1>3. NothingLogged \in [Logged -> [ALLOW : Nat, DENY : Nat]]
  BY DEF NothingLogged
<1>4. GatewayTyped
  BY <1>2, <1>3 DEF Init, GatewayTyped, CountsTyped
<1>5. OutcomesTyped /\ results \in Seq(Scores)
  BY DEF Init, OutcomesTyped
<1> QED
  BY <1>1, <1>4, <1>5 DEF TypeInv

LEMMA TypeStep ==
  ASSUME TypeInv, [Next]_vars
  PROVE  TypeInv'
<1> USE DEF TypeInv
<1>1. CASE Start
  <2>1. GatewayTyped'
    BY <1>1, ResetTyped DEF Start
  <2>2. Script'
    BY <1>1 DEF Start, Script
  <2> QED
    BY <1>1, <2>1, <2>2 DEF Start, OutcomesTyped
<1>2. CASE SingleCall \/ MalformedCall
  <2>1. Case.action \in RecordActions
    <3>1. CASE SingleCall
      <4>1. index \in 1 .. 9 /\ Case = GATEWAY_ATTACKS[index]
        BY <3>1, CaseIs DEF SingleCall, Script
      <4> QED
        BY <4>1, SingleAsks DEF RecordActions
    <3>2. CASE MalformedCall
      <4>1. index \in 1 .. 3 /\ Case = GATE1_MALFORMED_REQUESTS[index]
        BY <3>2, CaseIs DEF MalformedCall
      <4> QED
        BY <4>1, MalformedAsks DEF RecordActions
    <3> QED
      BY <1>2, <3>1, <3>2
  <2>2. /\ part \in DOMAIN CorpusOf /\ Handle(Case) /\ Advance
        /\ Score(Answer(Case) = Case.expect, DecidedBy(Case))
        /\ UNCHANGED <<gate3, outcomes>>
    BY <1>2, CorpusLengths DEF SingleCall, MalformedCall
  <2>3. DecidedBy(Case) \in Logged \cup {"FastAPI", "nobody"}
    BY WhoDecides
  <2>4. GatewayTyped'
    BY <2>1, <2>2, HandleTyped
  <2>5. Script'
    BY <2>2, AdvanceTyped
  <2>6. results' \in Seq(Scores)
    BY <2>2, <2>3, ScoreTyped
  <2> QED
    BY <2>2, <2>4, <2>5, <2>6 DEF OutcomesTyped
<1>3. CASE MalformedError
  <2>1. Case.action \in RecordActions
    BY <1>3, CaseIs, MalformedAsks DEF MalformedError, RecordActions
  <2>2. /\ part \in DOMAIN CorpusOf /\ Advance /\ Score(FALSE, "nobody")
        /\ UNCHANGED <<gate3, outcomes>>
    BY <1>3, CorpusLengths DEF MalformedError
  <2>3. GatewayTyped'
    <3>1. CASE Handle(Case)
      BY <3>1, <2>1, <2>2, HandleTyped
    <3>2. CASE UNCHANGED gateway
      BY <3>2, <2>2 DEF gateway, GatewayTyped, CountsTyped
    <3> QED
      BY <1>3, <3>1, <3>2 DEF MalformedError
  <2>4. Script'
    BY <2>2, AdvanceTyped
  <2>5. results' \in Seq(Scores)
    BY <2>2, ScoreTyped
  <2> QED
    BY <2>2, <2>3, <2>4, <2>5 DEF OutcomesTyped
<1>4. CASE MalformedFails
  <2>1. /\ part \in DOMAIN CorpusOf /\ Advance /\ Score(Case.expect = "DENY", "nobody")
        /\ UNCHANGED <<gate3, outcomes, gateway>>
    BY <1>4, CorpusLengths DEF MalformedFails
  <2>2. GatewayTyped'
    BY <2>1 DEF gateway, GatewayTyped, CountsTyped
  <2>3. Script'
    BY <2>1, AdvanceTyped
  <2>4. results' \in Seq(Scores)
    BY <2>1, ScoreTyped
  <2> QED
    BY <2>1, <2>2, <2>3, <2>4 DEF OutcomesTyped
<1>5. CASE BurstReset
  <2>1. GatewayTyped'
    BY <1>5, ResetTyped DEF BurstReset
  <2>2. Script'
    BY <1>5 DEF BurstReset, Script
  <2>3. OutcomesTyped'
    BY <1>5 DEF BurstReset, OutcomesTyped
  <2> QED
    BY <1>5, <2>1, <2>2, <2>3 DEF BurstReset
<1>6. CASE BurstCall
  <2>1. Case.request.action \in RecordActions /\ Case.callCount \in 1 .. 15
    <3>1. index \in 1 .. 2 /\ Case = GATE3_AGGREGATE_ATTACKS[index]
      BY <1>6, CaseIs DEF BurstCall
    <3> QED
      BY <3>1, BurstAsks
  <2>2. GatewayTyped'
    BY <1>6, <2>1, HandleTyped DEF BurstCall
  <2>3. Answer(Case.request) \in {"ALLOW", "DENY"}
    BY WhoDecides
  <2>4. OutcomesTyped'
    BY <1>6, <2>1, <2>3 DEF BurstCall, OutcomesTyped
  <2>5. Script'
    BY <1>6 DEF BurstCall, Script
  <2> QED
    BY <1>6, <2>2, <2>4, <2>5 DEF BurstCall
<1>7. CASE BurstScore
  <2>1. /\ part \in DOMAIN CorpusOf /\ Advance /\ Score(outcomes = Expected(Case), "GATE3")
        /\ UNCHANGED <<gate3, outcomes, gateway>>
    BY <1>7, CorpusLengths DEF BurstScore
  <2>2. GatewayTyped'
    BY <2>1 DEF gateway, GatewayTyped, CountsTyped
  <2>3. Script'
    BY <2>1, AdvanceTyped
  <2>4. results' \in Seq(Scores)
    BY <2>1, ScoreTyped DEF Logged
  <2> QED
    BY <2>1, <2>2, <2>3, <2>4 DEF OutcomesTyped
<1>8. CASE Crash
  BY <1>8 DEF Crash, Script, gateway, GatewayTyped, CountsTyped, OutcomesTyped
<1>9. CASE WindowSlides
  <2>1. GatewayTyped'
    BY <1>9, SlidingCounts
  <2> QED
    BY <1>9, <2>1 DEF WindowSlides, Script, OutcomesTyped
<1>10. CASE UNCHANGED vars
  BY <1>10 DEF vars, Script, gateway, GatewayTyped, CountsTyped, OutcomesTyped
<1> QED
  BY <1>1, <1>2, <1>3, <1>4, <1>5, <1>6, <1>7, <1>8, <1>9, <1>10 DEF Next

(* The state stays in its type, and Gate 3 never holds more calls of an    *)
(* action than its limit: `len(window) >= max_calls` is looked at before   *)
(* every append (gate3_session_envelope.py:84-90).                         *)
THEOREM TypeCorrect == Spec => []TypeOK
<1>1. Init => TypeInv
  BY TypeInit
<1>2. TypeInv /\ [Next]_vars => TypeInv'
  BY TypeStep
<1>3. TypeInv => TypeOK
  BY TypeInvIsTypeOK
<1> QED
  BY <1>1, <1>2, <1>3, PTL DEF Spec

----------------------------------------------------------------------------
(* The nine single calls. *)

LEMMA LimitsAre ==
  ASSUME CorpusFits
  PROVE  Limits["readRecord"] = 10 /\ Limits["updateRecord"] = 3
<1>1. GATE3_AGGREGATE_ATTACKS[1] \in Cases("burst") /\ GATE3_AGGREGATE_ATTACKS[2] \in Cases("burst")
  BY CorpusLengths DEF Cases
<1>2. /\ GATE3_AGGREGATE_ATTACKS[1].denyFromCall = Limits[GATE3_AGGREGATE_ATTACKS[1].request.action] + 1
      /\ GATE3_AGGREGATE_ATTACKS[2].denyFromCall = Limits[GATE3_AGGREGATE_ATTACKS[2].request.action] + 1
  BY <1>1 DEF CorpusFits, LimitsFit
<1>3. /\ GATE3_AGGREGATE_ATTACKS[1].denyFromCall = 11 /\ GATE3_AGGREGATE_ATTACKS[2].denyFromCall = 4
      /\ GATE3_AGGREGATE_ATTACKS[1].request.action = "readRecord"
      /\ GATE3_AGGREGATE_ATTACKS[2].request.action = "updateRecord"
  BY DEF GATE3_AGGREGATE_ATTACKS, Burst, Single
<1>4. Limits["readRecord"] \in Nat /\ Limits["updateRecord"] \in Nat
  BY LimitsAreNat DEF RecordActions
<1> QED
  BY <1>2, <1>3, <1>4

(* The calls the cases before this one can have left in the window: too    *)
(* few for Gate 3 to refuse one, though cases 4 to 7 count and are denied. *)
Spent ==
  part = "single" =>
    /\ counted["readRecord"] <= index - 1
    /\ counted["updateRecord"] <=
         IF index <= 6 THEN 0 ELSE IF index = 7 THEN 1 ELSE 2

(* DeniedWhereIntended, case by case. *)
AsIntended ==
  \A k \in 1 .. Len(results) : \A j \in 1 .. 9 :
    results[k].id = GATEWAY_ATTACKS[j].id =>
      results[k].passed /\ results[k].by = GATEWAY_ATTACKS[j].gate

LEMMA SingleDecided ==
  ASSUME CorpusFits, TypeInv, Spent, part = "single"
  PROVE  /\ Answer(Case) = Case.expect /\ DecidedBy(Case) = Case.gate
         /\ Counts(Case) => index >= 4
<1> DEFINE c == Case
<1>1. index \in 1 .. 9 /\ c = GATEWAY_ATTACKS[index]
  BY CaseIs DEF TypeInv, Script
<1>2. /\ c.proof = "valid" /\ c.action \in RecordActions
      /\ c.action = IF index \in {1, 3, 4, 5, 8} THEN "readRecord" ELSE "updateRecord"
      /\ c.resource = IF index <= 3 THEN "rec-002" ELSE "rec-001"
  BY <1>1, SingleAsks DEF RecordActions
<1>3. Permits("alice", c.action, c.resource, Agent) <=> index >= 4
  BY <1>1, <1>2 DEF Permits, CorpusFits, EntitiesFit
<1>4. counted[c.action] < Limits[c.action]
  <2>1. counted["readRecord"] \in Nat /\ counted["updateRecord"] \in Nat
    BY LimitsAreNat DEF TypeInv, GatewayTyped, CountsTyped, RecordActions
  <2>2. CASE c.action = "readRecord"
    BY <1>1, <2>1, <2>2, LimitsAre DEF Spent
  <2>3. CASE c.action = "updateRecord"
    BY <1>1, <2>1, <2>3, LimitsAre DEF Spent
  <2> QED
    BY <1>2, <2>2, <2>3
<1>5. counted[c.action] \in Nat /\ Limits[c.action] \in Nat
  BY <1>2, LimitsAreNat DEF TypeInv, GatewayTyped, CountsTyped
<1> HIDE DEF c
<1>6. ~Refuses(Pipeline[1], c) /\ ~Refuses(Pipeline[3], c)
  BY <1>2, <1>4, <1>5, GateByGate
<1>7. Passes(c) \in 0 .. 4
  BY HowFar
<1>8. CASE index <= 3
  <2>1. Refuses(Pipeline[2], c)
    BY <1>1, <1>3, <1>8, GateByGate
  <2>2. Passes(c) # 0
    BY <1>6, HowFar
  <2>3. ~(Passes(c) >= 2)
    BY <1>7, <2>1, HowFar
  <2>4. Passes(c) = 1
    BY <1>7, <2>2, <2>3
  <2>5. DecidedBy(c) = "GATE2" /\ Answer(c) = "DENY"
    BY <1>2, <2>4, WhoDecides, FourGates
  <2>6. ~Counts(c)
    BY <2>4, CountsPassed
  <2> QED
    BY <1>1, <1>8, <2>5, <2>6, SingleAnswers DEF c
<1>9. CASE index >= 4
  <2>1. ~Refuses(Pipeline[2], c)
    BY <1>3, <1>9, GateByGate
  <2>2. Passes(c) # 0 /\ Passes(c) # 1 /\ Passes(c) # 2
    BY <1>6, <2>1, HowFar
  <2>3. Refuses(Pipeline[4], c) <=> index <= 7
    BY <1>1, <1>9, SingleArgs, GateByGate
  <2>4. CASE index <= 7
    <3>1. Passes(c) = 3
      BY <1>7, <2>2, <2>3, <2>4, HowFar
    <3>2. DecidedBy(c) = "GATE4" /\ Answer(c) = "DENY"
      BY <1>2, <3>1, WhoDecides, FourGates
    <3> QED
      BY <1>1, <1>9, <2>4, <3>2, SingleAnswers DEF c
  <2>5. CASE index >= 8
    <3>1. ~Refuses(Pipeline[4], c)
      BY <1>1, <2>3, <2>5
    <3>2. Passes(c) # 3
      BY <3>1, HowFar
    <3>3. Passes(c) = 4
      BY <1>7, <2>2, <3>2
    <3>4. DecidedBy(c) = "ALL_GATES" /\ Answer(c) = "ALLOW"
      BY <1>2, <3>3, WhoDecides
    <3> QED
      BY <1>1, <1>9, <2>5, <3>4, SingleAnswers DEF c
  <2> QED
    BY <1>1, <2>4, <2>5
<1> QED
  BY <1>1, <1>8, <1>9 DEF c

LEMMA SpentStep ==
  ASSUME CorpusFits, TypeInv, Spent, SingleCall
  PROVE  Spent'
<1> SUFFICES ASSUME part' = "single"
             PROVE  /\ counted'["readRecord"] <= index' - 1
                    /\ counted'["updateRecord"] <=
                         IF index' <= 6 THEN 0 ELSE IF index' = 7 THEN 1 ELSE 2
  BY DEF Spent
<1>1. index \in 1 .. 9 /\ Case = GATEWAY_ATTACKS[index]
  BY CaseIs DEF SingleCall, TypeInv, Script
<1>2. Case.action = IF index \in {1, 3, 4, 5, 8} THEN "readRecord" ELSE "updateRecord"
  BY <1>1, SingleAsks
<1>3. Counts(Case) => index >= 4
  BY SingleDecided DEF SingleCall
<1>4. /\ Counts(Case) => counted'[Case.action] = counted[Case.action] + 1
      /\ ~Counts(Case) => counted' = counted
      /\ \A a \in RecordActions \ {Case.action} : counted'[a] = counted[a]
  BY <1>2, HandleCounts DEF SingleCall, TypeInv, RecordActions
<1>5. counted["readRecord"] \in Nat /\ counted["updateRecord"] \in Nat
  BY LimitsAreNat DEF TypeInv, GatewayTyped, CountsTyped, RecordActions
<1>6. index' = index + 1 /\ index < 9
  BY CorpusLengths DEF SingleCall, Advance, PartAfter
<1>7. /\ counted["readRecord"] <= index - 1
      /\ counted["updateRecord"] <=
           IF index <= 6 THEN 0 ELSE IF index = 7 THEN 1 ELSE 2
  BY DEF Spent, SingleCall
<1>8. CASE Case.action = "readRecord"
  <2>1. index # 6 /\ index # 7
    BY <1>2, <1>8
  <2>2. counted'["updateRecord"] = counted["updateRecord"]
    BY <1>4, <1>8 DEF RecordActions
  <2>3. counted'["readRecord"] <= counted["readRecord"] + 1
    BY <1>4, <1>5, <1>8
  <2>4. counted'["readRecord"] \in Nat
    BY <1>4, <1>5, <1>8
  <2> QED
    BY <1>1, <1>5, <1>6, <1>7, <2>1, <2>2, <2>3, <2>4
<1>9. CASE Case.action = "updateRecord"
  <2>1. index \in {2, 6, 7, 9}
    BY <1>1, <1>2, <1>9
  <2>2. counted'["readRecord"] = counted["readRecord"]
    BY <1>4, <1>9 DEF RecordActions
  <2>3. counted'["updateRecord"] <= counted["updateRecord"] + (IF index >= 4 THEN 1 ELSE 0)
    BY <1>1, <1>3, <1>4, <1>5, <1>9
  <2>4. counted'["updateRecord"] \in Nat
    BY <1>4, <1>5, <1>9
  <2> QED
    BY <1>5, <1>6, <1>7, <2>1, <2>2, <2>3, <2>4
<1> QED
  BY <1>2, <1>8, <1>9

(* A result of another part, or of the nine as it should be, changes       *)
(* nothing about the results of the nine.                                  *)
LEMMA ScoreAsIntended ==
  ASSUME TypeInv, AsIntended, NEW passed, NEW by, Score(passed, by),
         \A j \in 1 .. 9 : Case.id = GATEWAY_ATTACKS[j].id =>
                             passed /\ by = GATEWAY_ATTACKS[j].gate
  PROVE  AsIntended'
<1> DEFINE new == [id |-> Case.id, passed |-> passed, by |-> by]
<1>1. /\ Len(results') = Len(results) + 1 /\ Len(results) \in Nat
      /\ \A k \in 1 .. Len(results) : results'[k] = results[k]
      /\ results'[Len(results) + 1] = new
  BY DEF Score, TypeInv
<1>2. ASSUME NEW k \in 1 .. Len(results'), NEW j \in 1 .. 9,
             results'[k].id = GATEWAY_ATTACKS[j].id
      PROVE  results'[k].passed /\ results'[k].by = GATEWAY_ATTACKS[j].gate
  <2>1. CASE k \in 1 .. Len(results)
    BY <1>1, <1>2, <2>1 DEF AsIntended
  <2>2. CASE k = Len(results) + 1
    <3>1. results'[k] = new
      BY <1>1, <2>2
    <3>2. /\ results'[k].id = Case.id /\ results'[k].passed = passed
          /\ results'[k].by = by
      BY <3>1
    <3> QED
      BY <1>2, <3>2
  <2> QED
    BY <1>1, <2>1, <2>2
<1> QED
  BY <1>2 DEF AsIntended

LEMMA OtherCasesApart ==
  ASSUME TypeInv, part \in {"malformed", "burst"}
  PROVE  \A j \in 1 .. 9 : Case.id # GATEWAY_ATTACKS[j].id
BY CaseIs, IdsApart DEF TypeInv

LEMMA IntendedStep ==
  ASSUME CorpusFits, TypeInv, Spent, [Next]_vars
  PROVE  Spent' /\ (AsIntended => AsIntended')
<1>1. CASE Start
  <2>1. \A a \in RecordActions : counted'[a] = 0
    BY <1>1, ResetTyped DEF Start, TypeInv
  <2>2. part' = "single" /\ index' = 1 /\ UNCHANGED results
    BY <1>1 DEF Start, TypeInv, Script
  <2> QED
    BY <2>1, <2>2 DEF Spent, AsIntended, RecordActions
<1>2. CASE SingleCall
  <2>1. Spent'
    BY <1>2, SpentStep
  <2>2. Answer(Case) = Case.expect /\ DecidedBy(Case) = Case.gate
    BY <1>2, SingleDecided DEF SingleCall
  <2>3. index \in 1 .. 9 /\ Case = GATEWAY_ATTACKS[index]
    BY <1>2, CaseIs DEF SingleCall, TypeInv, Script
  <2>4. \A j \in 1 .. 9 : Case.id = GATEWAY_ATTACKS[j].id => Case.gate = GATEWAY_ATTACKS[j].gate
    BY <2>3, IdsApart
  <2>5. Score(Answer(Case) = Case.expect, DecidedBy(Case))
    BY <1>2 DEF SingleCall
  <2>6. AsIntended => AsIntended'
    BY <2>2, <2>4, <2>5, ScoreAsIntended
  <2> QED
    BY <2>1, <2>6
<1>3. CASE MalformedCall \/ MalformedError \/ MalformedFails \/ BurstScore
  <2>1. part \in {"malformed", "burst"} /\ Advance
    BY <1>3 DEF MalformedCall, MalformedError, MalformedFails, BurstScore
  <2>2. \E passed, by : Score(passed, by)
    BY <1>3 DEF MalformedCall, MalformedError, MalformedFails, BurstScore
  <2>3. AsIntended => AsIntended'
    BY <2>1, <2>2, OtherCasesApart, ScoreAsIntended
  <2>4. part' # "single"
    BY <2>1 DEF Advance, PartAfter
  <2> QED
    BY <2>3, <2>4 DEF Spent
<1>4. CASE BurstReset \/ BurstCall \/ Crash
  BY <1>4 DEF BurstReset, BurstCall, Crash, Spent, AsIntended
<1>5. CASE WindowSlides
  <2>1. counted'["readRecord"] <= counted["readRecord"]
    BY <1>5, SlidingCounts DEF TypeInv, RecordActions
  <2>2. counted'["updateRecord"] <= counted["updateRecord"]
    BY <1>5, SlidingCounts DEF TypeInv, RecordActions
  <2>3. UNCHANGED <<part, index, results>>
    BY <1>5 DEF WindowSlides
  <2>4. /\ counted["readRecord"] \in Nat /\ counted["updateRecord"] \in Nat
        /\ counted'["readRecord"] \in Nat /\ counted'["updateRecord"] \in Nat
    BY <1>5, SlidingCounts, LimitsAreNat DEF TypeInv, GatewayTyped, CountsTyped, RecordActions
  <2>5. Spent'
    BY <2>1, <2>2, <2>3, <2>4 DEF Spent, TypeInv, Script
  <2> QED
    BY <2>3, <2>5 DEF AsIntended
<1>6. CASE UNCHANGED vars
  BY <1>6 DEF vars, gateway, Spent, AsIntended
<1> QED
  BY <1>1, <1>2, <1>3, <1>4, <1>5, <1>6 DEF Next

(* For any entities, limits and bound the corpus fits, each of the nine    *)
(* calls is denied, or allowed, by the gate the corpus names, with the     *)
(* envelope on or off, whatever earlier runs left in Gate 3 and however    *)
(* the window moves: no attack is a denial of the envelope's by accident.  *)
THEOREM AttacksAreDenied ==
  ASSUME CorpusFits
  PROVE  Spec => []DeniedWhereIntended
<1>1. ASSUME Init
      PROVE  TypeInv /\ Spent /\ AsIntended
  <2>1. part = "start" /\ Len(results) = 0
    BY <1>1 DEF Init
  <2> QED
    BY <1>1, <2>1, TypeInit DEF Spent, AsIntended
<1>2. TypeInv /\ Spent /\ AsIntended /\ [Next]_vars => (TypeInv /\ Spent /\ AsIntended)'
  BY TypeStep, IntendedStep
<1>3. AsIntended => DeniedWhereIntended
  <2> SUFFICES ASSUME AsIntended, NEW r \in Results, NEW c \in Cases("single"), r.id = c.id
               PROVE  r.passed /\ r.by = c.gate
    BY DEF DeniedWhereIntended
  <2>1. PICK j \in 1 .. 9 : c = GATEWAY_ATTACKS[j]
    BY CorpusLengths DEF Cases
  <2>2. PICK k \in 1 .. Len(results) : r = results[k]
    BY DEF Results
  <2> QED
    BY <2>1, <2>2 DEF AsIntended
<1> QED
  BY <1>1, <1>2, <1>3, PTL DEF Spec

----------------------------------------------------------------------------
(* The bursts. *)

Burster == Case.request.action

(* Gate 3 counts at most the calls of this burst; all of them, up to the   *)
(* limit, if it is on and none has left the window.                        *)
BurstCounted ==
  part = "burst" =>
    /\ counted[Burster] <= Len(outcomes)
    /\ gate3 /\ ~slid => counted[Burster] >= Len(outcomes) \/ counted[Burster] >= Limits[Burster]

BurstAnswered ==
  part = "burst" =>
    \A k \in 1 .. Len(outcomes) :
      /\ outcomes[k] = "DENY" => k > Limits[Burster]
      /\ outcomes[k] = "ALLOW" /\ gate3 /\ ~slid => k <= Limits[Burster]

LEMMA BurstPasses ==
  ASSUME CorpusFits, TypeInv, part = "burst"
  PROVE  Passes(Case.request) \in {2, 4}
<1> DEFINE r == Case.request
<1>1. index \in 1 .. 2 /\ Case = GATE3_AGGREGATE_ATTACKS[index]
  BY CaseIs DEF TypeInv
<1>2. r.proof = "valid" /\ r.action \in RecordActions /\ r.resource = "rec-001"
  BY <1>1, BurstAsks
<1>3. Permits("alice", r.action, r.resource, Agent) /\ WellFormed(r.action, r.args)
  BY <1>1, <1>2, BurstArgs DEF Permits, CorpusFits, EntitiesFit
<1> HIDE DEF r
<1>4. ~Refuses(Pipeline[1], r) /\ ~Refuses(Pipeline[2], r) /\ ~Refuses(Pipeline[4], r)
  BY <1>2, <1>3, GateByGate
<1>5. Passes(r) \in 0 .. 4 /\ Passes(r) # 0 /\ Passes(r) # 1 /\ Passes(r) # 3
  BY <1>4, HowFar
<1> QED
  BY <1>5 DEF r

LEMMA BurstDecided ==
  ASSUME CorpusFits, TypeInv, part = "burst"
  PROVE  /\ Burster \in RecordActions
         /\ Answer(Case.request) = "DENY" <=> gate3 /\ counted[Burster] >= Limits[Burster]
         /\ Counts(Case.request) <=> gate3 /\ ~(counted[Burster] >= Limits[Burster])
<1> DEFINE r == Case.request
<1>1. index \in 1 .. 2 /\ Case = GATE3_AGGREGATE_ATTACKS[index]
  BY CaseIs DEF TypeInv
<1>2. r.proof = "valid" /\ r.action \in RecordActions /\ Burster = r.action
  BY <1>1, BurstAsks DEF Burster
<1>3. Passes(r) \in {2, 4}
  BY BurstPasses
<1> HIDE DEF r
<1>4. Passes(r) = 2 <=> Refuses(Pipeline[3], r)
  <2>1. Passes(r) = 2 => Refuses(Pipeline[2 + 1], r)
    BY HowFar
  <2>2. Passes(r) = 4 => ~Refuses(Pipeline[3], r)
    BY HowFar
  <2> QED
    BY <1>3, <2>1, <2>2
<1>5. Refuses(Pipeline[3], r) <=> gate3 /\ counted[Burster] >= Limits[Burster]
  BY <1>2, GateByGate
<1>6. Answer(r) = "DENY" <=> Passes(r) = 2
  BY <1>2, <1>3, WhoDecides
<1>7. Counts(r) <=> gate3 /\ Passes(r) = 4
  BY <1>2, <1>3, CountsPassed
<1> QED
  BY <1>2, <1>3, <1>4, <1>5, <1>6, <1>7 DEF r

LEMMA BurstCallStep ==
  ASSUME CorpusFits, TypeInv, BurstCounted, BurstAnswered, BurstCall
  PROVE  BurstCounted' /\ BurstAnswered'
<1> DEFINE a == Burster
           n == Len(outcomes)
           answer == Answer(Case.request)
<1>1. /\ a \in RecordActions /\ answer \in {"ALLOW", "DENY"}
      /\ answer = "DENY" <=> gate3 /\ counted[a] >= Limits[a]
      /\ Counts(Case.request) <=> gate3 /\ ~(counted[a] >= Limits[a])
  BY BurstDecided, WhoDecides DEF BurstCall
<1>2. counted[a] \in Nat /\ Limits[a] \in Nat /\ n \in Nat
  BY <1>1, LimitsAreNat DEF TypeInv, GatewayTyped, CountsTyped, OutcomesTyped
<1>3. /\ Counts(Case.request) => counted'[a] = counted[a] + 1
      /\ ~Counts(Case.request) => counted' = counted
  BY <1>1, HandleCounts DEF BurstCall, TypeInv, Burster
<1>4. a' = a /\ part' = "burst" /\ part = "burst" /\ UNCHANGED <<gate3, slid>>
  BY DEF BurstCall, Burster, Case, Handle
<1>5. /\ Len(outcomes') = n + 1
      /\ \A k \in 1 .. n : outcomes'[k] = outcomes[k]
      /\ outcomes'[n + 1] = answer
  BY DEF BurstCall, TypeInv, OutcomesTyped
<1>6. /\ counted[a] <= n
      /\ gate3 /\ ~slid => counted[a] >= n \/ counted[a] >= Limits[a]
  BY <1>4 DEF BurstCounted
<1>7. \A k \in 1 .. n : /\ outcomes[k] = "DENY" => k > Limits[a]
                        /\ outcomes[k] = "ALLOW" /\ gate3 /\ ~slid => k <= Limits[a]
  BY <1>4 DEF BurstAnswered
<1> HIDE DEF a, n, answer
<1>8. /\ counted'[a] <= n + 1
      /\ gate3 /\ ~slid => counted'[a] >= n + 1 \/ counted'[a] >= Limits[a]
  BY <1>1, <1>2, <1>3, <1>6
<1>9. ASSUME NEW k \in 1 .. n + 1
      PROVE  /\ outcomes'[k] = "DENY" => k > Limits[a]
             /\ outcomes'[k] = "ALLOW" /\ gate3 /\ ~slid => k <= Limits[a]
  <2>1. CASE k \in 1 .. n
    BY <1>5, <1>7, <2>1
  <2>2. CASE k = n + 1
    BY <1>1, <1>2, <1>5, <1>6, <2>2
  <2> QED
    BY <1>2, <2>1, <2>2
<1>10. BurstCounted'
  BY <1>4, <1>5, <1>8 DEF BurstCounted, a
<1>11. BurstAnswered'
  BY <1>4, <1>5, <1>9 DEF BurstAnswered, a
<1> QED
  BY <1>10, <1>11

LEMMA BurstStep ==
  ASSUME CorpusFits, TypeInv, BurstCounted, BurstAnswered, [Next]_vars
  PROVE  BurstCounted' /\ BurstAnswered'
<1>1. CASE Start \/ SingleCall \/ MalformedCall \/ MalformedError \/ MalformedFails
           \/ BurstScore \/ Crash
  <2>1. part' # "burst"
    <3>1. CASE Start \/ Crash
      BY <3>1 DEF Start, Crash
    <3>2. CASE SingleCall \/ MalformedCall \/ MalformedError \/ MalformedFails \/ BurstScore
      <4>1. Advance /\ part \in {"single", "malformed", "burst"}
        BY <3>2 DEF SingleCall, MalformedCall, MalformedError, MalformedFails, BurstScore
      <4> QED
        BY <4>1 DEF Advance, PartAfter
    <3> QED
      BY <1>1, <3>1, <3>2
  <2> QED
    BY <2>1 DEF BurstCounted, BurstAnswered
<1>2. CASE BurstReset
  <2>1. index' \in 1 .. 2 /\ part' = "burst"
    BY <1>2 DEF BurstReset, TypeInv, Script
  <2>2. Burster' \in RecordActions
    BY <2>1, CorpusLengths, BurstAsks DEF Burster, Case
  <2>3. counted'[Burster'] = 0
    BY <1>2, <2>2, ResetTyped DEF BurstReset, TypeInv
  <2>4. outcomes' = <<>> /\ Len(outcomes') = 0
    BY <1>2 DEF BurstReset
  <2> QED
    BY <2>3, <2>4 DEF BurstCounted, BurstAnswered
<1>3. CASE BurstCall
  BY <1>3, BurstCallStep
<1>4. CASE WindowSlides
  <2>1. UNCHANGED <<gate3, part, index, outcomes>> /\ slid'
    BY <1>4 DEF WindowSlides
  <2>2. Burster' = Burster
    BY <2>1 DEF Burster, Case
  <2>3. ASSUME part = "burst"
        PROVE  counted'[Burster] <= counted[Burster]
    BY <1>4, <2>3, BurstDecided, SlidingCounts DEF TypeInv
  <2>4. ASSUME part = "burst"
        PROVE  counted'[Burster] <= Len(outcomes)
    <3>1. Burster \in RecordActions
      BY <2>4, BurstDecided
    <3>2. counted[Burster] \in Nat /\ counted'[Burster] \in Nat /\ Len(outcomes) \in Nat
      BY <1>4, <3>1, SlidingCounts, LimitsAreNat
         DEF TypeInv, GatewayTyped, CountsTyped, OutcomesTyped
    <3> QED
      BY <2>3, <2>4, <3>2 DEF BurstCounted
  <2> QED
    BY <2>1, <2>2, <2>4 DEF BurstCounted, BurstAnswered
<1>5. CASE UNCHANGED vars
  BY <1>5 DEF vars, gateway, BurstCounted, BurstAnswered, Burster, Case
<1> QED
  BY <1>1, <1>2, <1>3, <1>4, <1>5 DEF Next

(* No call of a burst is denied before the one the corpus names, wherever  *)
(* the window's end falls; and none is allowed from there on if Gate 3 is  *)
(* on and no call has left the window.                                     *)
THEOREM BurstsAreDenied ==
  ASSUME CorpusFits
  PROVE  Spec => []BurstDeniedFromItsCall
<1>1. Init => TypeInv /\ BurstCounted /\ BurstAnswered
  BY TypeInit DEF Init, BurstCounted, BurstAnswered
<1>2. TypeInv /\ BurstCounted /\ BurstAnswered /\ [Next]_vars
        => (TypeInv /\ BurstCounted /\ BurstAnswered)'
  BY TypeStep, BurstStep
<1>3. TypeInv /\ BurstAnswered => BurstDeniedFromItsCall
  <2> SUFFICES ASSUME TypeInv, BurstAnswered, part = "burst"
               PROVE  \A k \in 1 .. Len(outcomes) :
                        /\ outcomes[k] = "DENY" => k >= Case.denyFromCall
                        /\ outcomes[k] = "ALLOW" /\ gate3 /\ ~slid => k < Case.denyFromCall
    BY DEF BurstDeniedFromItsCall
  <2>1. index \in 1 .. 2 /\ Case = GATE3_AGGREGATE_ATTACKS[index]
    BY CaseIs DEF TypeInv
  <2>2. Case \in Cases("burst")
    BY <2>1, CorpusLengths DEF Cases
  <2>3. Case.denyFromCall = Limits[Burster] + 1
    BY <2>2 DEF CorpusFits, LimitsFit, Burster
  <2>4. Limits[Burster] \in Nat
    BY BurstDecided, LimitsAreNat
  <2> QED
    BY <2>3, <2>4 DEF BurstAnswered
<1> QED
  BY <1>1, <1>2, <1>3, PTL DEF Spec

----------------------------------------------------------------------------
(* The report: what is in the log at each point of a run that was answered *)
(* throughout and, with the envelope on, has passed each case so far.      *)

One(b) == IF b THEN 1 ELSE 0

LogIs(log, a1, d1, a2, d2, a3, d3, a4, d4, all) ==
  /\ log["GATE1"].ALLOW = a1 /\ log["GATE1"].DENY = d1
  /\ log["GATE2"].ALLOW = a2 /\ log["GATE2"].DENY = d2
  /\ log["GATE3"].ALLOW = a3 /\ log["GATE3"].DENY = d3
  /\ log["GATE4"].ALLOW = a4 /\ log["GATE4"].DENY = d4
  /\ log["ALL_GATES"].ALLOW = all /\ log["ALL_GATES"].DENY = 0

LEMMA PassedGatesAre ==
  ASSUME NEW r, r.proof # "missing"
  PROVE  /\ "GATE1" \in PassedGates(r) <=> Passes(r) >= 1
         /\ "GATE2" \in PassedGates(r) <=> Passes(r) >= 2
         /\ "GATE3" \in PassedGates(r) <=> Passes(r) >= 3
         /\ "GATE4" \in PassedGates(r) <=> Passes(r) >= 4
         /\ "ALL_GATES" \in PassedGates(r) <=> Passes(r) = 4
<1> DEFINE n == Passes(r)
<1>1. n \in 0 .. 4
  BY HowFar
<1>2. \A m \in 1 .. n : m = 1 \/ m = 2 \/ m = 3 \/ m = 4
  BY <1>1
<1>3. DecidedBy(r) # "FastAPI"
  <2>1. \A k \in 0 .. 3 : k = 0 \/ k = 1 \/ k = 2 \/ k = 3
    OBVIOUS
  <2>2. \A k \in 0 .. 3 : Pipeline[k + 1] # "FastAPI"
    BY <2>1, FourGates
  <2> QED
    BY <1>1, <2>2, WhoDecides
<1>4. PassedGates(r) = {Pipeline[m] : m \in 1 .. n} \cup (IF n = 4 THEN {"ALL_GATES"} ELSE {})
  BY <1>3, FourGates DEF PassedGates, Allowed
<1> HIDE DEF n
<1>5. "GATE1" \in {Pipeline[m] : m \in 1 .. n} <=> n >= 1
  BY <1>1, <1>2, FourGates
<1>6. "GATE2" \in {Pipeline[m] : m \in 1 .. n} <=> n >= 2
  BY <1>1, <1>2, FourGates
<1>7. "GATE3" \in {Pipeline[m] : m \in 1 .. n} <=> n >= 3
  BY <1>1, <1>2, FourGates
<1>8. "GATE4" \in {Pipeline[m] : m \in 1 .. n} <=> n >= 4
  BY <1>1, <1>2, FourGates
<1>9. "ALL_GATES" \notin {Pipeline[m] : m \in 1 .. n}
  BY <1>1, <1>2, FourGates
<1> QED
  BY <1>4, <1>5, <1>6, <1>7, <1>8, <1>9 DEF n

LEMMA DeciderIs ==
  ASSUME NEW r, r.proof # "missing"
  PROVE  /\ DecidedBy(r) = "GATE1" <=> Passes(r) = 0
         /\ DecidedBy(r) = "GATE2" <=> Passes(r) = 1
         /\ DecidedBy(r) = "GATE3" <=> Passes(r) = 2
         /\ DecidedBy(r) = "GATE4" <=> Passes(r) = 3
         /\ DecidedBy(r) = "ALL_GATES" <=> Passes(r) = 4
<1>1. \/ Passes(r) = 0 \/ Passes(r) = 1 \/ Passes(r) = 2 \/ Passes(r) = 3 \/ Passes(r) = 4
  BY HowFar
<1> QED
  BY <1>1, WhoDecides, FourGates

(* What a request that gets to Gate 1 adds to the log.                     *)
LEMMA HandleLogs ==
  ASSUME NEW r, r.proof # "missing", Handle(r),
         NEW a1, NEW d1, NEW a2, NEW d2, NEW a3, NEW d3, NEW a4, NEW d4, NEW all,
         LogIs(tally, a1, d1, a2, d2, a3, d3, a4, d4, all)
  PROVE  LET n == Passes(r) IN
         LogIs(tally', a1 + One(n >= 1), d1 + One(n = 0), a2 + One(n >= 2), d2 + One(n = 1),
               a3 + One(n >= 3), d3 + One(n = 2), a4 + One(n >= 4), d4 + One(n = 3),
               all + One(n = 4))
<1>1. Answer(r) = "DENY" <=> Passes(r) # 4
  BY WhoDecides
<1>2. \A g \in Logged :
        /\ tally'[g].ALLOW = tally[g].ALLOW + One(g \in PassedGates(r))
        /\ tally'[g].DENY  = tally[g].DENY + One(g = DecidedBy(r) /\ Answer(r) = "DENY")
  BY DEF Handle, One
<1>3. /\ tally'["GATE1"].ALLOW = a1 + One(Passes(r) >= 1)
      /\ tally'["GATE1"].DENY = d1 + One(Passes(r) = 0)
  BY <1>1, <1>2, PassedGatesAre, DeciderIs DEF Logged, LogIs, One
<1>4. /\ tally'["GATE2"].ALLOW = a2 + One(Passes(r) >= 2)
      /\ tally'["GATE2"].DENY = d2 + One(Passes(r) = 1)
  BY <1>1, <1>2, PassedGatesAre, DeciderIs DEF Logged, LogIs, One
<1>5. /\ tally'["GATE3"].ALLOW = a3 + One(Passes(r) >= 3)
      /\ tally'["GATE3"].DENY = d3 + One(Passes(r) = 2)
  BY <1>1, <1>2, PassedGatesAre, DeciderIs DEF Logged, LogIs, One
<1>6. /\ tally'["GATE4"].ALLOW = a4 + One(Passes(r) >= 4)
      /\ tally'["GATE4"].DENY = d4 + One(Passes(r) = 3)
  BY <1>1, <1>2, PassedGatesAre, DeciderIs DEF Logged, LogIs, One
<1>7. /\ tally'["ALL_GATES"].ALLOW = all + One(Passes(r) = 4)
      /\ tally'["ALL_GATES"].DENY = 0
  BY <1>1, <1>2, PassedGatesAre, DeciderIs DEF Logged, LogIs, One
<1> QED
  BY <1>3, <1>4, <1>5, <1>6, <1>7 DEF LogIs

(* A request without the header adds nothing.                              *)
LEMMA MissingLogsNothing ==
  ASSUME NEW r, r.proof = "missing", Handle(r), GatewayTyped
  PROVE  \A g \in Logged : tally'[g].ALLOW = tally[g].ALLOW /\ tally'[g].DENY = tally[g].DENY
<1>1. DecidedBy(r) = "FastAPI"
  BY WhoDecides
<1>2. \A g \in Logged : g \notin PassedGates(r) /\ g # DecidedBy(r)
  BY <1>1 DEF PassedGates, Logged
<1> QED
  BY <1>2 DEF Handle, GatewayTyped

Clean ==
  /\ \A k \in 1 .. Len(results) : results[k].by # "nobody"
  /\ gate3 => /\ \A k \in 1 .. Len(results) : results[k].passed
              /\ part = "burst" =>
                   \A k \in 1 .. Len(outcomes) : outcomes[k] = "ALLOW" <=> k < Case.denyFromCall

UpTo(n, m) == IF n <= m THEN n ELSE m

(* The calls of the bursts so far, and those of them refused.              *)
BurstCalls ==
  IF part = "report" THEN 20
  ELSE (IF index = 2 THEN 15 ELSE 0) + (IF part = "burst" THEN Len(outcomes) ELSE 0)

Beyond == IF part = "burst" /\ Len(outcomes) >= Case.denyFromCall
            THEN Len(outcomes) - Case.denyFromCall + 1 ELSE 0

BurstRefused ==
  IF ~gate3 THEN 0
  ELSE IF part = "report" THEN 7
  ELSE (IF index = 2 THEN 5 ELSE 0) + Beyond

SinglesLogged(n) ==
  LogIs(tally, n, 0, n - UpTo(n, 3), UpTo(n, 3), n - UpTo(n, 3), 0,
        n - UpTo(n, 7), UpTo(n, 7) - UpTo(n, 3), n - UpTo(n, 7))

MalformedLogged(n) == LogIs(tally, 9, n, 6, 3, 6, 0, 2, 4, 2)

BurstsLogged(n, refused) ==
  LogIs(tally, 9 + n, 2, 6 + n, 3, 6 + n - refused, refused, 2 + n - refused, 4,
        2 + n - refused)

Reported ==
  Clean =>
    /\ part = "start" => SinglesLogged(0)
    /\ part = "single" => SinglesLogged(index - 1)
    /\ part = "malformed" => MalformedLogged(One(index = 3))
    /\ part \in {"resetting", "burst", "report"} => BurstsLogged(BurstCalls, BurstRefused)

(* What is answered and passed after a step was so before it.              *)
LEMMA ScoreGrows ==
  ASSUME TypeInv, NEW passed, NEW by, Score(passed, by)
  PROVE  /\ Len(results) \in Nat /\ Len(results') = Len(results) + 1
         /\ \A k \in 1 .. Len(results) : results'[k] = results[k]
         /\ results'[Len(results')] = [id |-> Case.id, passed |-> passed, by |-> by]
BY DEF Score, TypeInv

LEMMA CleanBefore ==
  ASSUME TypeInv, NEW passed, NEW by, Score(passed, by), UNCHANGED gate3, Clean',
         part # "burst"
  PROVE  Clean /\ by # "nobody" /\ (gate3 => passed)
<1>1. /\ \A k \in 1 .. Len(results') : results'[k].by # "nobody"
      /\ gate3 => \A k \in 1 .. Len(results') : results'[k].passed
  BY DEF Clean
<1>2. /\ Len(results) \in Nat /\ Len(results') = Len(results) + 1
      /\ \A k \in 1 .. Len(results) : results'[k] = results[k]
      /\ results'[Len(results')] = [id |-> Case.id, passed |-> passed, by |-> by]
  BY ScoreGrows
<1>3. Len(results') \in 1 .. Len(results') /\ \A k \in 1 .. Len(results) : k \in 1 .. Len(results')
  BY <1>2
<1>4. results'[Len(results')].by = by /\ results'[Len(results')].passed = passed
  BY <1>2
<1>5. by # "nobody" /\ (gate3 => passed)
  BY <1>1, <1>3, <1>4
<1>6. Clean
  BY <1>1, <1>2, <1>3 DEF Clean
<1> QED
  BY <1>5, <1>6

LEMMA ReportedSingle ==
  ASSUME CorpusFits, TypeInv, Spent, Reported, SingleCall
  PROVE  Reported'
<1> SUFFICES ASSUME Clean'
             PROVE  /\ part' = "start" => SinglesLogged(0)'
                    /\ part' = "single" => SinglesLogged(index - 1)'
                    /\ part' = "malformed" => MalformedLogged(One(index = 3))'
                    /\ part' \in {"resetting", "burst", "report"}
                         => BurstsLogged(BurstCalls, BurstRefused)'
  BY DEF Reported
<1> DEFINE r == Case
<1>1. index \in 1 .. 9 /\ r = GATEWAY_ATTACKS[index] /\ r.proof = "valid"
  BY CaseIs, SingleAsks DEF SingleCall, TypeInv, Script
<1>2. part = "single" /\ Clean
  BY CleanBefore DEF SingleCall
<1>3. SinglesLogged(index - 1)
  BY <1>2 DEF Reported
<1>4. DecidedBy(r) = IF index <= 3 THEN "GATE2" ELSE IF index <= 7 THEN "GATE4" ELSE "ALL_GATES"
  BY <1>1, <1>2, SingleDecided, SingleAnswers
<1>5. Passes(r) = IF index <= 3 THEN 1 ELSE IF index <= 7 THEN 3 ELSE 4
  BY <1>1, <1>4, DeciderIs
<1>6. Handle(r)
  BY DEF SingleCall
<1> HIDE DEF r
<1>7. LogIs(tally', (index - 1) + One(Passes(r) >= 1), 0 + One(Passes(r) = 0),
            (index - 1) - UpTo(index - 1, 3) + One(Passes(r) >= 2),
            UpTo(index - 1, 3) + One(Passes(r) = 1),
            (index - 1) - UpTo(index - 1, 3) + One(Passes(r) >= 3), 0 + One(Passes(r) = 2),
            (index - 1) - UpTo(index - 1, 7) + One(Passes(r) >= 4),
            UpTo(index - 1, 7) - UpTo(index - 1, 3) + One(Passes(r) = 3),
            (index - 1) - UpTo(index - 1, 7) + One(Passes(r) = 4))
  BY <1>1, <1>3, <1>6, HandleLogs DEF SinglesLogged
<1>8. LogIs(tally', index, 0, index - UpTo(index, 3), UpTo(index, 3), index - UpTo(index, 3), 0,
            index - UpTo(index, 7), UpTo(index, 7) - UpTo(index, 3), index - UpTo(index, 7))
  <2>1. CASE index <= 3
    BY <1>1, <1>5, <1>7, <2>1 DEF LogIs, One, UpTo
  <2>2. CASE index \in 4 .. 7
    BY <1>1, <1>5, <1>7, <2>2 DEF LogIs, One, UpTo
  <2>3. CASE index \in 8 .. 9
    BY <1>1, <1>5, <1>7, <2>3 DEF LogIs, One, UpTo
  <2> QED
    BY <1>1, <2>1, <2>2, <2>3
<1>9. \/ part' = "single" /\ index' = index + 1
      \/ part' = "malformed" /\ index' = 1 /\ index = 9
  BY <1>1, CorpusLengths DEF SingleCall, Advance, PartAfter
<1>10. CASE part' = "single" /\ index' = index + 1
  <2>1. index' - 1 = index
    BY <1>1, <1>10
  <2> QED
    BY <1>8, <1>10, <2>1 DEF SinglesLogged
<1>11. CASE part' = "malformed" /\ index' = 1 /\ index = 9
  <2>1. LogIs(tally', 9, 0, 6, 3, 6, 0, 2, 4, 2)
    BY <1>8, <1>11 DEF LogIs, UpTo
  <2>2. One(index = 3)' = 0
    BY <1>11 DEF One
  <2> QED
    BY <1>11, <2>1, <2>2 DEF MalformedLogged
<1> QED
  BY <1>9, <1>10, <1>11

LEMMA ReportedMalformed ==
  ASSUME TypeInv, Reported, MalformedCall \/ MalformedError \/ MalformedFails
  PROVE  Reported'
<1> SUFFICES ASSUME Clean'
             PROVE  /\ part' = "start" => SinglesLogged(0)'
                    /\ part' = "single" => SinglesLogged(index - 1)'
                    /\ part' = "malformed" => MalformedLogged(One(index = 3))'
                    /\ part' \in {"resetting", "burst", "report"}
                         => BurstsLogged(BurstCalls, BurstRefused)'
  BY DEF Reported
<1> DEFINE r == Case
<1>1. /\ part = "malformed" /\ index \in 1 .. 3 /\ r = GATE1_MALFORMED_REQUESTS[index]
      /\ r.proof # "valid"
  BY CaseIs, MalformedAsks
     DEF MalformedCall, MalformedError, MalformedFails, TypeInv, Script
<1>2. MalformedCall
  BY <1>1, CleanBefore DEF MalformedError, MalformedFails
<1>3. Clean /\ Handle(r) /\ Advance /\ UNCHANGED gate3
  BY <1>1, <1>2, CleanBefore DEF MalformedCall
<1>4. MalformedLogged(One(index = 3))
  BY <1>1, <1>3 DEF Reported
<1>5. r.proof = "missing" <=> index = 1
  BY <1>1 DEF GATE1_MALFORMED_REQUESTS, Malformed, Single
<1>6. Passes(r) = 0
  <2>1. Refuses(Pipeline[1], r)
    BY <1>1, GateByGate
  <2>2. ~(Passes(r) >= 1)
    BY <2>1, HowFar
  <2> QED
    BY <2>2, HowFar
<1> HIDE DEF r
<1>7. LogIs(tally', 9, One(index >= 2) + One(index = 3), 6, 3, 6, 0, 2, 4, 2)
  <2>1. CASE index = 1
    <3>1. \A g \in Logged : tally'[g].ALLOW = tally[g].ALLOW /\ tally'[g].DENY = tally[g].DENY
      BY <1>3, <1>5, <2>1, MissingLogsNothing DEF TypeInv
    <3>2. LogIs(tally, 9, 0, 6, 3, 6, 0, 2, 4, 2)
      BY <1>4, <2>1 DEF MalformedLogged, One
    <3>3. LogIs(tally', 9, 0, 6, 3, 6, 0, 2, 4, 2)
      BY <3>1, <3>2 DEF LogIs, Logged
    <3> QED
      BY <2>1, <3>3 DEF One
  <2>2. CASE index # 1
    <3>1. LogIs(tally', 9 + One(Passes(r) >= 1), One(index = 3) + One(Passes(r) = 0),
                6 + One(Passes(r) >= 2), 3 + One(Passes(r) = 1),
                6 + One(Passes(r) >= 3), 0 + One(Passes(r) = 2),
                2 + One(Passes(r) >= 4), 4 + One(Passes(r) = 3), 2 + One(Passes(r) = 4))
      BY <1>3, <1>4, <1>5, <2>2, HandleLogs DEF MalformedLogged
    <3> QED
      BY <1>1, <1>6, <2>2, <3>1 DEF LogIs, One
  <2> QED
    BY <2>1, <2>2
<1>8. \/ part' = "malformed" /\ index' = index + 1 /\ index <= 2
      \/ part' = "resetting" /\ index' = 1 /\ index = 3
  BY <1>1, <1>3, CorpusLengths DEF Advance, PartAfter
<1>9. CASE part' = "malformed" /\ index' = index + 1 /\ index <= 2
  <2>1. One(index = 3)' = One(index >= 2) + One(index = 3)
    BY <1>1, <1>9 DEF One
  <2> QED
    BY <1>7, <1>9, <2>1 DEF MalformedLogged
<1>10. CASE part' = "resetting" /\ index' = 1 /\ index = 3
  <2>1. LogIs(tally', 9, 2, 6, 3, 6, 0, 2, 4, 2)
    BY <1>7, <1>10 DEF One
  <2>2. BurstCalls' = 0 /\ BurstRefused' = 0
    BY <1>10 DEF BurstCalls, BurstRefused, Beyond
  <2> QED
    BY <1>10, <2>1, <2>2 DEF BurstsLogged
<1> QED
  BY <1>8, <1>9, <1>10

LEMMA BurstNumbers ==
  ASSUME NEW k \in 1 .. 2
  PROVE  /\ GATE3_AGGREGATE_ATTACKS[k].callCount = IF k = 1 THEN 15 ELSE 5
         /\ GATE3_AGGREGATE_ATTACKS[k].denyFromCall = IF k = 1 THEN 11 ELSE 4
<1>1. k = 1 \/ k = 2
  OBVIOUS
<1> QED
  BY <1>1 DEF GATE3_AGGREGATE_ATTACKS, Burst

(* A call of a burst whose calls have been answered as expected.           *)
LEMMA ReportedBurst ==
  ASSUME CorpusFits, TypeInv, Reported, BurstCall
  PROVE  Reported'
<1> SUFFICES ASSUME Clean'
             PROVE  BurstsLogged(BurstCalls, BurstRefused)'
  BY DEF Reported, BurstCall
<1> DEFINE r == Case.request
           n == Len(outcomes)
           from == Case.denyFromCall
<1>1. /\ part = "burst" /\ part' = "burst" /\ index \in 1 .. 2 /\ Case' = Case
      /\ Case = GATE3_AGGREGATE_ATTACKS[index] /\ r.proof = "valid"
      /\ UNCHANGED <<gate3, results, index>> /\ Handle(r)
  BY CaseIs, BurstAsks DEF BurstCall, TypeInv, Case
<1>2. n \in Nat /\ from \in Nat
  BY <1>1, BurstNumbers DEF TypeInv, OutcomesTyped
<1>3. /\ Len(outcomes') = n + 1
      /\ \A k \in 1 .. n : outcomes'[k] = outcomes[k] /\ k \in 1 .. n + 1
      /\ outcomes'[n + 1] = Answer(r) /\ n + 1 \in 1 .. n + 1
  BY <1>2 DEF BurstCall, TypeInv, OutcomesTyped
<1>4. /\ \A k \in 1 .. Len(results) : results[k].by # "nobody"
      /\ gate3 => /\ \A k \in 1 .. Len(results) : results[k].passed
                  /\ \A k \in 1 .. n + 1 : outcomes'[k] = "ALLOW" <=> k < from
  BY <1>1, <1>3 DEF Clean
<1>5. Clean
  BY <1>1, <1>3, <1>4 DEF Clean
<1>6. BurstsLogged(BurstCalls, BurstRefused)
  BY <1>1, <1>5 DEF Reported
<1>7. Passes(r) = IF gate3 /\ n + 1 >= from THEN 2 ELSE 4
  <2>1. Answer(r) = "ALLOW" <=> ~(gate3 /\ n + 1 >= from)
    <3>1. CASE gate3
      BY <1>2, <1>3, <1>4, <3>1
    <3>2. CASE ~gate3
      BY <1>1, <3>2, BurstDecided, WhoDecides
    <3> QED
      BY <3>1, <3>2
  <2>2. Answer(r) = "ALLOW" <=> Passes(r) = 4
    BY <1>1, WhoDecides
  <2>3. Passes(r) \in {2, 4}
    BY <1>1, BurstPasses
  <2> QED
    BY <2>1, <2>2, <2>3
<1>8. BurstCalls \in Nat /\ BurstCalls' = BurstCalls + 1
  BY <1>1, <1>2, <1>3 DEF BurstCalls
<1>9. BurstRefused \in Nat /\ BurstRefused' = BurstRefused + One(gate3 /\ n + 1 >= from)
  <2>1. Beyond \in Nat /\ Beyond' = Beyond + One(n + 1 >= from)
    BY <1>1, <1>2, <1>3 DEF Beyond, One
  <2> QED
    BY <1>1, <2>1 DEF BurstRefused, One
<1> DEFINE c == BurstCalls
           f == BurstRefused
<1>10. c \in Nat /\ f \in Nat /\ c' = c + 1 /\ f' = f + One(gate3 /\ n + 1 >= from)
  BY <1>8, <1>9
<1>11. LogIs(tally, 9 + c, 2, 6 + c, 3, 6 + c - f, f, 2 + c - f, 4, 2 + c - f)
  BY <1>6 DEF BurstsLogged
<1> SUFFICES LogIs(tally', 9 + c', 2, 6 + c', 3, 6 + c' - f', f', 2 + c' - f', 4, 2 + c' - f')
  BY DEF BurstsLogged
<1> HIDE DEF r, n, from, c, f
<1>12. LogIs(tally', 9 + c + One(Passes(r) >= 1), 2 + One(Passes(r) = 0),
             6 + c + One(Passes(r) >= 2), 3 + One(Passes(r) = 1),
             6 + c - f + One(Passes(r) >= 3), f + One(Passes(r) = 2),
             2 + c - f + One(Passes(r) >= 4), 4 + One(Passes(r) = 3),
             2 + c - f + One(Passes(r) = 4))
  BY <1>1, <1>11, HandleLogs
<1>13. CASE gate3 /\ n + 1 >= from
  BY <1>7, <1>10, <1>12, <1>13 DEF LogIs, One
<1>14. CASE ~(gate3 /\ n + 1 >= from)
  BY <1>7, <1>10, <1>12, <1>14 DEF LogIs, One
<1> QED
  BY <1>13, <1>14

(* A burst that is over: all its calls were counted in, and in the run of  *)
(* a gateway with the envelope it passed.                                  *)
LEMMA ReportedScore ==
  ASSUME TypeInv, Reported, BurstScore
  PROVE  Reported'
<1> SUFFICES ASSUME Clean'
             PROVE  BurstsLogged(BurstCalls, BurstRefused)'
  BY DEF Reported, BurstScore, Advance, PartAfter
<1> DEFINE n == Len(outcomes)
           from == Case.denyFromCall
<1>1. /\ part = "burst" /\ index \in 1 .. 2 /\ Case = GATE3_AGGREGATE_ATTACKS[index]
      /\ n = Case.callCount /\ UNCHANGED <<gate3, tally>>
  BY CaseIs DEF BurstScore, gateway, TypeInv
<1>2. /\ n = IF index = 1 THEN 15 ELSE 5
      /\ from = IF index = 1 THEN 11 ELSE 4
  BY <1>1, BurstNumbers, SMT
<1>3. /\ \A k \in 1 .. Len(results') : results'[k].by # "nobody"
      /\ gate3 => \A k \in 1 .. Len(results') : results'[k].passed
  BY <1>1 DEF Clean
<1>4. /\ Len(results) \in Nat /\ Len(results') = Len(results) + 1
      /\ \A k \in 1 .. Len(results) : results'[k] = results[k]
      /\ results'[Len(results')] =
           [id |-> Case.id, passed |-> outcomes = Expected(Case), by |-> "GATE3"]
  BY ScoreGrows DEF BurstScore
<1>5. Len(results') \in 1 .. Len(results') /\ \A k \in 1 .. Len(results) : k \in 1 .. Len(results')
  BY <1>4
<1>6. gate3 => outcomes = Expected(Case)
  <2>1. results'[Len(results')].passed = (outcomes = Expected(Case))
    BY <1>4
  <2> QED
    BY <1>3, <1>5, <2>1
<1>7. gate3 => \A k \in 1 .. n : outcomes[k] = "ALLOW" <=> k < from
  <2>1. ASSUME NEW k \in 1 .. n
        PROVE  Expected(Case)[k] = IF k < from THEN "ALLOW" ELSE "DENY"
    BY <1>1, <2>1 DEF Expected
  <2> QED
    BY <1>6, <2>1
<1>8. Clean
  BY <1>3, <1>4, <1>5, <1>7 DEF Clean
<1>9. BurstsLogged(BurstCalls, BurstRefused)
  BY <1>1, <1>8 DEF Reported
<1>10. \/ part' = "resetting" /\ index' = 2 /\ index = 1
       \/ part' = "report" /\ index = 2
  BY <1>1, CorpusLengths DEF BurstScore, Advance, PartAfter
<1>11. BurstCalls' = BurstCalls /\ BurstRefused' = BurstRefused
  <2>1. CASE part' = "resetting" /\ index' = 2 /\ index = 1
    BY <1>1, <1>2, <2>1 DEF BurstCalls, BurstRefused, Beyond
  <2>2. CASE part' = "report" /\ index = 2
    BY <1>1, <1>2, <2>2 DEF BurstCalls, BurstRefused, Beyond
  <2> QED
    BY <1>10, <2>1, <2>2
<1> QED
  BY <1>1, <1>9, <1>11 DEF BurstsLogged

LEMMA ReportedReset ==
  ASSUME TypeInv, Reported, BurstReset
  PROVE  Reported'
<1> SUFFICES ASSUME Clean'
             PROVE  BurstsLogged(BurstCalls, BurstRefused)'
  BY DEF Reported, BurstReset
<1>1. /\ part = "resetting" /\ part' = "burst" /\ index \in 1 .. 2
      /\ outcomes' = <<>> /\ Len(outcomes') = 0
      /\ UNCHANGED <<gate3, index, tally, results>>
  BY DEF BurstReset, TypeInv, Script
<1>2. Clean
  BY <1>1 DEF Clean
<1>3. BurstsLogged(BurstCalls, BurstRefused)
  BY <1>1, <1>2 DEF Reported
<1>4. Case' = GATE3_AGGREGATE_ATTACKS[index]
  BY <1>1, CorpusLengths DEF Case
<1>5. Beyond = 0 /\ Beyond' = 0
  BY <1>1, <1>4, BurstNumbers DEF Beyond
<1>6. BurstCalls' = BurstCalls /\ BurstRefused' = BurstRefused
  BY <1>1, <1>5 DEF BurstCalls, BurstRefused
<1> QED
  BY <1>1, <1>3, <1>6 DEF BurstsLogged

LEMMA ReportedStep ==
  ASSUME CorpusFits, TypeInv, Spent, Reported, [Next]_vars
  PROVE  Reported'
<1>1. CASE Start
  <2>1. /\ part = "start" /\ part' = "single" /\ index = 1 /\ index' = 1
        /\ UNCHANGED <<gate3, tally, results>>
    BY <1>1 DEF Start, TypeInv, Script
  <2>2. Clean' => SinglesLogged(0)
    BY <2>1 DEF Reported, Clean
  <2>3. SinglesLogged(0) => SinglesLogged(index - 1)'
    BY <2>1 DEF SinglesLogged
  <2> QED
    BY <2>1, <2>2, <2>3 DEF Reported
<1>2. CASE SingleCall
  BY <1>2, ReportedSingle
<1>3. CASE MalformedCall \/ MalformedError \/ MalformedFails
  BY <1>3, ReportedMalformed
<1>4. CASE BurstReset
  BY <1>4, ReportedReset
<1>5. CASE BurstCall
  BY <1>5, ReportedBurst
<1>6. CASE BurstScore
  BY <1>6, ReportedScore
<1>7. CASE Crash
  BY <1>7 DEF Crash, Reported
<1>8. CASE WindowSlides \/ UNCHANGED vars
  <2>1. UNCHANGED <<gate3, part, index, outcomes, tally, results>>
    BY <1>8 DEF WindowSlides, vars, gateway
  <2> QED
    BY <2>1 DEF Reported, Clean, Case, SinglesLogged, MalformedLogged, BurstsLogged, BurstCalls,
                BurstRefused, Beyond
<1> QED
  BY <1>1, <1>2, <1>3, <1>4, <1>5, <1>6, <1>7, <1>8 DEF Next

----------------------------------------------------------------------------
(* Without the envelope the bursts fail, and nothing else.                 *)

Answered == \A k \in 1 .. Len(results) : results[k].by # "nobody"

AllAllowed == \A k \in 1 .. Len(outcomes) : outcomes[k] = "ALLOW"

BurstIds(n) == {GATE3_AGGREGATE_ATTACKS[j].id : j \in 1 .. n}

Unguarded ==
  ~gate3 =>
    /\ part = "burst" => AllAllowed
    /\ Answered =>
         /\ part \in {"start", "single", "malformed"} => Failures = {}
         /\ part \in {"resetting", "burst"} => Failures = BurstIds(index - 1)
         /\ part = "report" => Failures = BurstIds(2)

LEMMA FailuresGrow ==
  ASSUME TypeInv, NEW passed \in BOOLEAN, NEW by, Score(passed, by)
  PROVE  /\ Failures' = Failures \cup (IF passed THEN {} ELSE {Case.id})
         /\ Answered' <=> Answered /\ by # "nobody"
<1> DEFINE new == [id |-> Case.id, passed |-> passed, by |-> by]
<1>1. /\ Len(results) \in Nat /\ Len(results') = Len(results) + 1
      /\ \A k \in 1 .. Len(results) : results'[k] = results[k]
      /\ results'[Len(results')] = new
  BY ScoreGrows
<1>2. new.id = Case.id /\ new.passed = passed /\ new.by = by
  OBVIOUS
<1> HIDE DEF new
<1>3. Results' = Results \cup {new}
  <2>1. ASSUME NEW r \in Results'
        PROVE  r \in Results \cup {new}
    <3>1. PICK k \in 1 .. Len(results') : r = results'[k]
      BY DEF Results
    <3>2. k \in 1 .. Len(results) \/ k = Len(results')
      BY <1>1
    <3> QED
      BY <1>1, <3>1, <3>2 DEF Results
  <2>2. ASSUME NEW r \in Results
        PROVE  r \in Results'
    <3>1. PICK k \in 1 .. Len(results) : r = results[k]
      BY DEF Results
    <3>2. k \in 1 .. Len(results') /\ r = results'[k]
      BY <1>1, <3>1
    <3> QED
      BY <3>2 DEF Results
  <2>3. new \in Results'
    <3>1. Len(results') \in 1 .. Len(results')
      BY <1>1
    <3> QED
      BY <1>1, <3>1 DEF Results
  <2> QED
    BY <2>1, <2>2, <2>3
<1>4. Failures' = Failures \cup (IF passed THEN {} ELSE {Case.id})
  BY <1>2, <1>3 DEF Failures
<1>5. Answered' <=> Answered /\ by # "nobody"
  <2>1. Len(results') \in 1 .. Len(results')
    BY <1>1
  <2>2. \A k \in 1 .. Len(results') : k \in 1 .. Len(results) \/ k = Len(results')
    BY <1>1
  <2>3. \A k \in 1 .. Len(results) : k \in 1 .. Len(results')
    BY <1>1
  <2> QED
    BY <1>1, <1>2, <2>1, <2>2, <2>3 DEF Answered
<1> QED
  BY <1>4, <1>5

LEMMA UnguardedStep ==
  ASSUME CorpusFits, TypeInv, Spent, Unguarded, [Next]_vars
  PROVE  Unguarded'
<1>0. gate3' = gate3
  <2>1. CASE Next
    BY <2>1 DEF Next, Start, SingleCall, MalformedCall, MalformedError, MalformedFails,
                BurstReset, BurstCall, BurstScore, Crash, WindowSlides
  <2>2. CASE UNCHANGED vars
    BY <2>2 DEF vars
  <2> QED
    BY <2>1, <2>2
<1> SUFFICES ASSUME ~gate3, ~gate3'
             PROVE  Unguarded'
  BY <1>0 DEF Unguarded
<1>1. CASE Start
  <2>1. part = "start" /\ part' = "single" /\ UNCHANGED results
    BY <1>1 DEF Start
  <2>2. Failures' = Failures /\ (Answered' => Answered)
    BY <2>1 DEF Failures, Results, Answered
  <2> QED
    BY <2>1, <2>2 DEF Unguarded
<1>2. CASE SingleCall
  <2>1. /\ part = "single" /\ index \in 1 .. 9
        /\ Score(Answer(Case) = Case.expect, DecidedBy(Case)) /\ Advance
    BY <1>2 DEF SingleCall, TypeInv, Script
  <2>2. Answer(Case) = Case.expect
    BY <2>1, SingleDecided
  <2>3. Failures' = Failures /\ (Answered' => Answered)
    BY <2>1, <2>2, FailuresGrow
  <2>4. part' \in {"single", "malformed"}
    BY <2>1 DEF Advance, PartAfter
  <2> QED
    BY <2>1, <2>3, <2>4 DEF Unguarded
<1>3. CASE MalformedCall
  <2>1. /\ part = "malformed" /\ index \in 1 .. 3 /\ Case = GATE1_MALFORMED_REQUESTS[index]
        /\ Score(Answer(Case) = Case.expect, DecidedBy(Case)) /\ Advance
    BY <1>3, CaseIs DEF MalformedCall, TypeInv
  <2>2. Case.proof # "valid" /\ Case.expect = "DENY"
    BY <2>1, MalformedAsks
  <2>3. ~(Passes(Case) >= 1)
    BY <2>2, HowFar, GateByGate
  <2>4. Answer(Case) = Case.expect
    BY <2>2, <2>3, WhoDecides
  <2>5. Failures' = Failures /\ (Answered' => Answered)
    BY <2>1, <2>4, FailuresGrow
  <2>6. part' = "malformed" \/ (part' = "resetting" /\ index' = 1)
    BY <2>1, CorpusLengths DEF Advance, PartAfter
  <2>7. CASE part' = "malformed"
    BY <2>1, <2>5, <2>7 DEF Unguarded
  <2>8. CASE part' = "resetting" /\ index' = 1
    <3>1. BurstIds(index - 1)' = {}
      BY <2>8 DEF BurstIds
    <3> QED
      BY <2>1, <2>5, <2>8, <3>1 DEF Unguarded
  <2> QED
    BY <2>6, <2>7, <2>8
<1>4. CASE MalformedError \/ MalformedFails
  <2>1. PICK passed \in BOOLEAN : Score(passed, "nobody")
    BY <1>4 DEF MalformedError, MalformedFails
  <2>2. ~Answered'
    BY <2>1, FailuresGrow
  <2>3. part = "malformed" /\ Advance
    BY <1>4 DEF MalformedError, MalformedFails
  <2>4. part' # "burst"
    BY <2>3 DEF Advance, PartAfter
  <2> QED
    BY <2>2, <2>4 DEF Unguarded
<1>5. CASE BurstReset
  <2>1. /\ part = "resetting" /\ part' = "burst" /\ outcomes' = <<>> /\ Len(outcomes') = 0
        /\ UNCHANGED <<index, results>>
    BY <1>5 DEF BurstReset
  <2>2. AllAllowed'
    BY <2>1 DEF AllAllowed
  <2>3. (Answered' => Answered) /\ Failures' = Failures /\ BurstIds(index - 1)' = BurstIds(index - 1)
    BY <2>1 DEF Answered, Failures, Results, BurstIds
  <2> QED
    BY <2>1, <2>2, <2>3 DEF Unguarded
<1>6. CASE BurstCall
  <2>1. /\ part = "burst" /\ part' = "burst" /\ UNCHANGED <<index, results>>
        /\ outcomes' = Append(outcomes, Answer(Case.request))
    BY <1>6 DEF BurstCall
  <2>2. Answer(Case.request) = "ALLOW"
    BY <2>1, BurstDecided, WhoDecides
  <2>3. AllAllowed
    BY <2>1 DEF Unguarded
  <2>4. AllAllowed'
    BY <2>1, <2>2, <2>3 DEF AllAllowed, TypeInv, OutcomesTyped
  <2>5. (Answered' => Answered) /\ Failures' = Failures /\ BurstIds(index - 1)' = BurstIds(index - 1)
    BY <2>1 DEF Answered, Failures, Results, BurstIds
  <2> QED
    BY <2>1, <2>4, <2>5 DEF Unguarded
<1>7. CASE BurstScore
  <2>1. /\ part = "burst" /\ index \in 1 .. 2 /\ Case = GATE3_AGGREGATE_ATTACKS[index]
        /\ Len(outcomes) = Case.callCount /\ Score(outcomes = Expected(Case), "GATE3") /\ Advance
    BY <1>7, CaseIs DEF BurstScore, TypeInv
  <2>2. AllAllowed
    BY <2>1 DEF Unguarded
  <2>3. Case.callCount \in 1 .. Case.callCount /\ Case.callCount >= Case.denyFromCall
    BY <2>1, BurstNumbers
  <2>4. outcomes # Expected(Case)
    <3>1. outcomes[Case.callCount] = "ALLOW"
      BY <2>1, <2>2, <2>3 DEF AllAllowed
    <3>2. Expected(Case)[Case.callCount] = "DENY"
      BY <2>1, <2>3, BurstNumbers DEF Expected
    <3> QED
      BY <3>1, <3>2
  <2>5. Failures' = Failures \cup {Case.id} /\ (Answered' => Answered)
    BY <2>1, <2>4, FailuresGrow
  <2>6. Answered => Failures = BurstIds(index - 1)
    BY <2>1 DEF Unguarded
  <2>7. BurstIds(index - 1) \cup {Case.id} = BurstIds(index)
    <3>1. \A j \in 1 .. index : j \in 1 .. index - 1 \/ j = index
      BY <2>1
    <3>2. index \in 1 .. index /\ \A j \in 1 .. index - 1 : j \in 1 .. index
      BY <2>1
    <3> QED
      BY <2>1, <3>1, <3>2 DEF BurstIds
  <2>8. Answered' => Failures' = BurstIds(index)
    BY <2>5, <2>6, <2>7
  <2>9. \/ part' = "resetting" /\ index' = 2 /\ index = 1
        \/ part' = "report" /\ index = 2
    BY <2>1, CorpusLengths DEF Advance, PartAfter
  <2>10. CASE part' = "resetting" /\ index' = 2 /\ index = 1
    <3>1. BurstIds(index - 1)' = BurstIds(1)
      BY <2>10 DEF BurstIds
    <3> QED
      BY <2>8, <2>10, <3>1 DEF Unguarded
  <2>11. CASE part' = "report" /\ index = 2
    <3>1. BurstIds(2)' = BurstIds(2)
      BY DEF BurstIds
    <3> QED
      BY <2>8, <2>11, <3>1 DEF Unguarded
  <2> QED
    BY <2>9, <2>10, <2>11
<1>8. CASE Crash
  BY <1>8 DEF Crash, Unguarded
<1>9. CASE WindowSlides \/ UNCHANGED vars
  <2>1. UNCHANGED <<part, index, outcomes, results>>
    BY <1>9 DEF WindowSlides, vars
  <2> QED
    BY <2>1 DEF Unguarded, AllAllowed, Answered, Failures, Results, BurstIds
<1> QED
  BY <1>1, <1>2, <1>3, <1>4, <1>5, <1>6, <1>7, <1>8, <1>9 DEF Next

(* For any entities, limits and bound the corpus fits, the report over the *)
(* audit log and the harness's scores say the same: 120 entries, 16 of     *)
(* them denials, and 15 allowed requests if every case was answered and    *)
(* passed; without the envelope 134 and 22, the two bursts the failures    *)
(* and no denial of Gate 3's (run_gateway_attacks.py, eval/results).       *)
THEOREM ReportIsTrue ==
  ASSUME CorpusFits
  PROVE  Spec => []ReportAgrees
<1> DEFINE IInv == TypeInv /\ Spent /\ Reported /\ Unguarded
<1>1. Init => IInv
  <2> SUFFICES ASSUME Init
               PROVE  IInv
    OBVIOUS
  <2>1. /\ part = "start" /\ Len(results) = 0 /\ results = <<>> /\ tally = NothingLogged
    BY DEF Init
  <2>2. Spent
    BY <2>1 DEF Spent
  <2>3. LogIs(tally, 0, 0, 0, 0, 0, 0, 0, 0, 0)
    BY <2>1 DEF NothingLogged, LogIs, Logged
  <2>4. Reported
    BY <2>1, <2>3 DEF Reported, SinglesLogged, UpTo
  <2>5. Results = {}
    BY <2>1 DEF Results
  <2>6. Unguarded
    BY <2>1, <2>5 DEF Unguarded, Failures
  <2> QED
    BY <2>2, <2>4, <2>6, TypeInit
<1>2. IInv /\ [Next]_vars => IInv'
  <2> SUFFICES ASSUME IInv, [Next]_vars
               PROVE  IInv'
    OBVIOUS
  <2>1. TypeInv'
    BY TypeStep
  <2>2. Spent'
    BY IntendedStep
  <2>3. Reported'
    BY ReportedStep
  <2>4. Unguarded'
    BY UnguardedStep
  <2> QED
    BY <2>1, <2>2, <2>3, <2>4
<1>3. IInv => ReportAgrees
  <2> SUFFICES ASSUME IInv, part = "report", \A r \in Results : r.by # "nobody"
               PROVE  /\ gate3 /\ Failures = {} =>
                           /\ Entries = 120 /\ FullyAllowed = 15
                           /\ Denials = [GATE1 |-> 2, GATE2 |-> 3, GATE3 |-> 7,
                                         GATE4 |-> 4, ALL_GATES |-> 0]
                      /\ ~gate3 =>
                           /\ Failures = {c.id : c \in Cases("burst")}
                           /\ Entries = 134 /\ FullyAllowed = 22 /\ Denials["GATE3"] = 0
    BY DEF ReportAgrees
  <2>1. Answered
    BY DEF Results, Answered
  <2>2. Clean => BurstsLogged(20, BurstRefused)
    BY DEF Reported, BurstCalls
  <2>3. BurstRefused = IF gate3 THEN 7 ELSE 0
    BY DEF BurstRefused
  <2>4. /\ Entries = tally["GATE1"].ALLOW + tally["GATE1"].DENY
                     + (tally["GATE2"].ALLOW + tally["GATE2"].DENY)
                     + (tally["GATE3"].ALLOW + tally["GATE3"].DENY)
                     + (tally["GATE4"].ALLOW + tally["GATE4"].DENY)
                     + (tally["ALL_GATES"].ALLOW + tally["ALL_GATES"].DENY)
        /\ FullyAllowed = tally["ALL_GATES"].ALLOW
    BY DEF Entries, FullyAllowed, Logged
  <2>5. ASSUME gate3, Failures = {}
        PROVE  /\ Entries = 120 /\ FullyAllowed = 15
               /\ Denials = [GATE1 |-> 2, GATE2 |-> 3, GATE3 |-> 7, GATE4 |-> 4, ALL_GATES |-> 0]
    <3>1. \A k \in 1 .. Len(results) : results[k].passed
      BY <2>5 DEF Failures, Results
    <3>2. Clean
      BY <2>1, <3>1 DEF Clean, Answered
    <3>3. LogIs(tally, 29, 2, 26, 3, 19, 7, 15, 4, 15)
      BY <2>2, <2>3, <2>5, <3>2 DEF BurstsLogged, LogIs
    <3>4. Entries = 120 /\ FullyAllowed = 15
      BY <2>4, <3>3 DEF LogIs
    <3>5. Denials = [GATE1 |-> 2, GATE2 |-> 3, GATE3 |-> 7, GATE4 |-> 4, ALL_GATES |-> 0]
      BY <3>3 DEF Denials, LogIs, Logged
    <3> QED
      BY <3>4, <3>5
  <2>6. ASSUME ~gate3
        PROVE  /\ Failures = {c.id : c \in Cases("burst")}
               /\ Entries = 134 /\ FullyAllowed = 22 /\ Denials["GATE3"] = 0
    <3>1. Clean
      BY <2>1, <2>6 DEF Clean, Answered
    <3>2. LogIs(tally, 29, 2, 26, 3, 26, 0, 22, 4, 22)
      BY <2>2, <2>3, <2>6, <3>1 DEF BurstsLogged, LogIs
    <3>3. Entries = 134 /\ FullyAllowed = 22
      BY <2>4, <3>2 DEF LogIs
    <3>4. Denials["GATE3"] = 0
      BY <3>2 DEF Denials, LogIs, Logged
    <3>5. Failures = BurstIds(2)
      BY <2>1, <2>6 DEF Unguarded
    <3>6. BurstIds(2) = {c.id : c \in Cases("burst")}
      BY CorpusLengths DEF BurstIds, Cases
    <3> QED
      BY <3>3, <3>4, <3>5, <3>6
  <2> QED
    BY <2>5, <2>6
<1> HIDE DEF IInv
<1> QED
  BY <1>1, <1>2, <1>3, PTL DEF Spec
=============================================================================
