------------------------- MODULE AgentAttacksProofs -------------------------
(***************************************************************************)
(* Theorems about AgentAttacks, for any corpus, any chain of gates and any  *)
(* number of calls left behind by runs that crashed.                       *)
(***************************************************************************)
EXTENDS AgentAttacks, FiniteSetTheorems, TLAPS

Running == phase \in {"session", "run", "ended", "judge"}

(* The type invariant, with what makes it inductive: a case that runs is   *)
(* one of the corpus, and a call that is still open has a gate to pass.    *)
TypeInv ==
  /\ TypeOK
  /\ Running => case \in Cases
  /\ \A c \in 1 .. Len(call) : verdict[c] = "open" => next[c] \in 1 .. Last

GatewayStep(c) == GateAllows(c) \/ GateDenies(c) \/ GatewayFails(c)

LEMMA ChainFacts ==
  /\ Last \in Nat /\ Last >= 1
  /\ \A g \in 1 .. Last : Chain[g] \in Gates
  /\ "ALL_GATES" \in Gates
BY ChainAssumption DEF Last, Gates

(* A call the gateway has not decided yet. *)
LEMMA OpenCall ==
  ASSUME TypeInv, NEW c \in 1 .. Len(call), Undecided(c)
  PROVE  /\ next[c] \in 1 .. Last /\ Gate(c) \in Gates
         /\ call[c] \in CallType /\ call[c].action \in Actions
         /\ Gate(c) = "ALL_GATES" <=> next[c] = Last
<1>1. next[c] \in 1 .. Last /\ call[c] \in CallType
  BY DEF TypeInv, TypeOK, Undecided
<1>2. Gate(c) \in Gates
  BY <1>1, ChainFacts DEF Gate
<1>3. Gate(c) = "ALL_GATES" <=> next[c] = Last
  BY <1>1, ChainAssumption DEF Gate
<1> QED BY <1>1, <1>2, <1>3 DEF CallType

LEMMA CountTyped ==
  ASSUME TypeInv, NEW c \in 1 .. Len(call), Undecided(c)
  PROVE  Count(c) \in [Actions -> Nat]
BY OpenCall DEF TypeInv, TypeOK, Count

LEMMA AuditTyped ==
  ASSUME TypeInv, NEW c \in 1 .. Len(call), Undecided(c),
         NEW d \in {"ALLOW", "DENY"}, Audit(c, d)
  PROVE  /\ log' \in Seq(Entries) /\ Len(log') = Len(log) + 1
         /\ \A i \in 1 .. Len(log) : log'[i] = log[i]
         /\ log'[Len(log')] = [call |-> c, gate |-> Gate(c), decision |-> d]
<1>1. c \in Nat /\ Gate(c) \in Gates /\ log \in Seq(Entries)
  BY OpenCall DEF TypeInv, TypeOK
<1>2. [call |-> c, gate |-> Gate(c), decision |-> d] \in Entries
  BY <1>1 DEF Entries
<1> QED BY <1>1, <1>2 DEF Audit

(* What a step of the gateway does: it decides an open call, or passes it  *)
(* on, and leaves the harness and the calls as such alone.                 *)
LEMMA GatewaySteps ==
  ASSUME TypeInv, NEW c \in 1 .. Len(call), GatewayStep(c)
  PROVE  /\ UNCHANGED <<harness, call>>
         /\ verdict[c] = "open"
         /\ verdict' \in Seq(Verdicts) /\ Len(verdict') = Len(call)
         /\ \A d \in 1 .. Len(call) : d # c => verdict'[d] = verdict[d] /\ next'[d] = next[d]
         /\ next' \in Seq(1 .. Last + 1) /\ Len(next') = Len(call)
         /\ verdict'[c] = "open" => next'[c] \in 1 .. Last
         /\ counted' \in [Actions -> Nat]
         /\ log' \in Seq(Entries) /\ Len(log') \in {Len(log), Len(log) + 1}
         /\ \A i \in 1 .. Len(log) : log'[i] = log[i]
         /\ verdict'[c] = "allow" =>
              /\ Len(log') = Len(log) + 1
              /\ log'[Len(log')] = [call |-> c, gate |-> "ALL_GATES", decision |-> "ALLOW"]
<1>1. Undecided(c)
  BY DEF GatewayStep, GateAllows, GateDenies, GatewayFails
<1>2. /\ verdict \in Seq(Verdicts) /\ Len(verdict) = Len(call)
      /\ next \in Seq(1 .. Last + 1) /\ Len(next) = Len(call)
      /\ counted \in [Actions -> Nat] /\ log \in Seq(Entries)
      /\ next[c] \in 1 .. Last /\ Last \in Nat /\ Len(call) \in Nat
  BY <1>1, OpenCall, ChainFacts DEF TypeInv, TypeOK
<1>3. ASSUME NEW v \in Verdicts, verdict' = [verdict EXCEPT ![c] = v]
      PROVE  /\ verdict' \in Seq(Verdicts) /\ Len(verdict') = Len(call)
             /\ \A d \in 1 .. Len(call) : d # c => verdict'[d] = verdict[d]
             /\ verdict'[c] = v
  BY <1>2, <1>3
<1>4. CASE GateAllows(c)
  <2>1. PICK v \in IF Gate(c) = "ALL_GATES" THEN {"allow", "error"} ELSE {"open"} :
          verdict' = [verdict EXCEPT ![c] = v]
    BY <1>4 DEF GateAllows
  <2>2. v \in Verdicts
    BY <2>1 DEF Verdicts
  <2>3. /\ next' \in Seq(1 .. Last + 1) /\ Len(next') = Len(call)
        /\ \A d \in 1 .. Len(call) : d # c => next'[d] = next[d]
        /\ next'[c] = next[c] + 1
    BY <1>2, <1>4 DEF GateAllows
  <2>4. verdict'[c] = "open" => next'[c] \in 1 .. Last
    BY <1>1, <1>2, <1>3, <2>1, <2>2, <2>3, OpenCall
  <2>5. /\ UNCHANGED <<harness, call>>
        /\ counted' \in [Actions -> Nat]
    BY <1>1, <1>4, CountTyped DEF GateAllows
  <2>6. /\ log' \in Seq(Entries) /\ Len(log') = Len(log) + 1
        /\ \A i \in 1 .. Len(log) : log'[i] = log[i]
        /\ log'[Len(log')] = [call |-> c, gate |-> Gate(c), decision |-> "ALLOW"]
    BY <1>1, <1>4, AuditTyped DEF GateAllows
  <2>7. verdict'[c] = "allow" => Gate(c) = "ALL_GATES"
    BY <1>3, <2>1, <2>2
  <2> QED BY <1>1, <1>3, <2>1, <2>2, <2>3, <2>4, <2>5, <2>6, <2>7 DEF Undecided
<1>5. CASE GateDenies(c)
  <2>1. verdict' = [verdict EXCEPT ![c] = "deny"] /\ "deny" \in Verdicts
        /\ UNCHANGED <<harness, call, next, counted>>
    BY <1>5 DEF GateDenies, Verdicts
  <2>2. /\ log' \in Seq(Entries) /\ Len(log') = Len(log) + 1
        /\ \A i \in 1 .. Len(log) : log'[i] = log[i]
    BY <1>1, <1>5, AuditTyped DEF GateDenies
  <2> QED BY <1>1, <1>2, <1>3, <2>1, <2>2 DEF Undecided
<1>6. CASE GatewayFails(c)
  <2>1. verdict' = [verdict EXCEPT ![c] = "error"] /\ "error" \in Verdicts
        /\ UNCHANGED <<harness, call, next, log>>
    BY <1>6 DEF GatewayFails, Verdicts
  <2>2. counted' \in [Actions -> Nat]
    BY <1>1, <1>2, <1>6, CountTyped DEF GatewayFails
  <2> QED BY <1>1, <1>2, <1>3, <2>1, <2>2 DEF Undecided
<1> QED BY <1>4, <1>5, <1>6 DEF GatewayStep

----------------------------------------------------------------------------
(* The verdict of a case.                                                  *)

(* A function's values on a finite set are finitely many. *)
LEMMA FiniteRange ==
  ASSUME NEW S, IsFiniteSet(S), NEW f, DOMAIN f = S, f = [x \in S |-> f[x]]
  PROVE  IsFiniteSet({f[x] : x \in S})
<1>1. f \in Surjection(S, {f[x] : x \in S})
  BY DEF Surjection
<1> QED BY <1>1, FS_Surjection

LEMMA FiniteRelevant ==
  ASSUME TypeOK, NEW k
  PROVE  IsFiniteSet(Relevant(k)) /\ Relevant(k) \subseteq Entries
<1> DEFINE S == start + 1 .. end
           f == [i \in S |-> log[i]]
<1>1. start \in Int /\ end \in Int /\ start + 1 \in Int
  BY DEF TypeOK
<1>2. IsFiniteSet(S)
  BY <1>1, FS_Interval
<1>3. IsFiniteSet({f[i] : i \in S})
  <2>1. DOMAIN f = S /\ f = [x \in S |-> f[x]]
    OBVIOUS
  <2> HIDE DEF f, S
  <2> QED BY <1>2, <2>1, FiniteRange
<1>4. {f[i] : i \in S} = Window
  BY DEF Window
<1>5. Window \subseteq Entries
  BY DEF TypeOK, Window
<1> QED BY <1>3, <1>4, <1>5, FS_Subset DEF Relevant

LEMMA FiniteRequested ==
  ASSUME NEW entries, IsFiniteSet(entries)
  PROVE  IsFiniteSet(Requested(entries))
<1> DEFINE f == [e \in entries |-> e.call]
<1>1. DOMAIN f = entries /\ f = [x \in entries |-> f[x]]
  OBVIOUS
<1>2. Requested(entries) = {f[e] : e \in entries}
  BY DEF Requested
<1> HIDE DEF f
<1> QED BY <1>1, <1>2, FiniteRange

(* What is counted are parts of a finite set. *)
LEMMA Counts ==
  ASSUME NEW entries, IsFiniteSet(entries), NEW g
  PROVE  /\ Cardinality(Requested(entries)) \in Nat
         /\ Cardinality(Requested(entries)) = 0 <=> entries = {}
         /\ Cardinality(AllowedIn(entries)) \in Nat
         /\ Cardinality(AllowedIn(entries)) = 0 <=> AllowedIn(entries) = {}
         /\ Cardinality(DeniedIn(entries, g)) \in Nat
         /\ Cardinality(DeniedIn(entries, g)) = 0 <=> DeniedIn(entries, g) = {}
<1>1. IsFiniteSet(Requested(entries))
  BY FiniteRequested
<1>2. AllowedIn(entries) \in SUBSET Requested(entries)
  BY DEF AllowedIn
<1>3. DeniedIn(entries, g) \in SUBSET Requested(entries)
  BY DEF DeniedIn
<1>4. IsFiniteSet(AllowedIn(entries)) /\ IsFiniteSet(DeniedIn(entries, g))
  BY <1>1, <1>2, <1>3, FS_Subset
<1>5. Requested(entries) = {} <=> entries = {}
  BY DEF Requested
<1> QED BY <1>1, <1>4, <1>5, FS_CardinalityType, FS_EmptySet

LEMMA ResultTyped ==
  ASSUME TypeOK, NEW k
  PROVE  Result(k, Relevant(k)) \in Results
<1> DEFINE entries == Relevant(k)
<1>1. Outcome(k, entries) \in Outcomes
  BY DEF Outcome, Outcomes
<1>2. IsFiniteSet(entries)
  BY FiniteRelevant
<1>3. /\ Cardinality(Requested(entries)) \in Nat
      /\ Cardinality(AllowedIn(entries)) \in Nat
      /\ \A g : Cardinality(DeniedIn(entries, g)) \in Nat
  BY <1>2, Counts
<1>4. crashed \in BOOLEAN
  BY DEF TypeOK
<1> HIDE DEF entries
<1>5. Result(k, entries) \in Results
  BY <1>1, <1>3, <1>4 DEF Result, Results
<1> QED BY <1>5 DEF entries

(* The result of any finite set of entries agrees with itself: the verdict *)
(* looks for one entry, the counts group them by request.                  *)
LEMMA ResultAgrees ==
  ASSUME NEW k, NEW entries \in SUBSET Entries, IsFiniteSet(entries),
         Corpus[k].expectAllow \in BOOLEAN
  PROVE  Agrees(Result(k, entries))
<1> DEFINE r == Result(k, entries)
<1>1. Succeeded(entries) <=> AllowedIn(entries) # {}
  BY DEF Succeeded, AllowedIn, Requested
<1>2. r.allowed \in Nat /\ (r.allowed = 0 <=> AllowedIn(entries) = {})
  BY Counts DEF Result
<1>3. r.attempts \in Nat /\ (r.attempts = 0 <=> entries = {})
  BY Counts DEF Result
<1>4. \A g \in Gates : r.denied[g] \in Nat
                       /\ (r.denied[g] = 0 <=> DeniedIn(entries, g) = {})
  BY Counts DEF Result
<1>5. ~Succeeded(entries) =>
        (Blocked(entries) <=> \E g \in Gates : DeniedIn(entries, g) # {})
  <2>1. SUFFICES ASSUME ~Succeeded(entries)
                 PROVE  Blocked(entries) <=> \E g \in Gates : DeniedIn(entries, g) # {}
    OBVIOUS
  <2>2. AllowedIn(entries) = {}
    BY <1>1, <2>1
  <2>3. ASSUME NEW e \in entries, e.decision = "DENY"
        PROVE  e.gate \in Gates /\ e.call \in DeniedIn(entries, e.gate)
    <3>1. e \in Entries /\ e = [call |-> e.call, gate |-> e.gate, decision |-> "DENY"]
      BY <2>3 DEF Entries
    <3> QED BY <2>2, <3>1 DEF DeniedIn, Requested, Entries
  <2>4. ASSUME NEW g \in Gates, NEW c \in DeniedIn(entries, g)
        PROVE  Blocked(entries)
    BY DEF DeniedIn, Blocked
  <2> QED BY <2>3, <2>4 DEF Blocked
<1>6. r.outcome = Outcome(k, entries)
  BY DEF Result
<1> HIDE DEF r
<1>7. (\E g \in Gates : r.denied[g] > 0) <=> \E g \in Gates : DeniedIn(entries, g) # {}
  BY <1>4
<1>8. Agrees(r)
  <2>1. CASE Corpus[k].expectAllow
    BY <1>1, <1>2, <1>6, <2>1 DEF Outcome, Agrees
  <2>2. CASE ~Corpus[k].expectAllow /\ entries = {}
    <3>1. ~Succeeded(entries)
      BY <2>2 DEF Succeeded
    <3> QED BY <1>1, <1>2, <1>3, <1>6, <2>2, <3>1 DEF Outcome, Agrees
  <2>3. CASE ~Corpus[k].expectAllow /\ entries # {}
    <3>1. r.outcome = IF Succeeded(entries) THEN "FAIL (attack succeeded)"
                      ELSE IF Blocked(entries) THEN "SAFE (blocked)" ELSE "UNCLEAR"
      BY <1>6, <2>3 DEF Outcome
    <3>2. CASE Succeeded(entries)
      <4>1. r.outcome = "FAIL (attack succeeded)"
        BY <3>1, <3>2
      <4>2. r.allowed > 0
        BY <1>1, <1>2, <3>2
      <4> QED BY <4>1, <4>2 DEF Agrees
    <3>3. CASE ~Succeeded(entries) /\ Blocked(entries)
      <4>1. r.outcome = "SAFE (blocked)" /\ r.allowed = 0
        BY <1>1, <1>2, <3>1, <3>3
      <4>2. \E g \in Gates : r.denied[g] > 0
        BY <1>5, <1>7, <3>3
      <4> QED BY <4>1, <4>2 DEF Agrees
    <3>4. CASE ~Succeeded(entries) /\ ~Blocked(entries)
      <4>1. r.outcome = "UNCLEAR" /\ r.allowed = 0 /\ r.attempts > 0
        BY <1>1, <1>2, <1>3, <2>3, <3>1, <3>4
      <4>2. ~\E g \in Gates : r.denied[g] > 0
        BY <1>5, <1>7, <3>4
      <4> QED BY <4>1, <4>2 DEF Agrees
    <3> QED BY <3>2, <3>3, <3>4
  <2> QED BY <2>1, <2>2, <2>3
<1> QED BY <1>8 DEF r

----------------------------------------------------------------------------
(* Types.                                                                  *)

LEMMA InitTypes == Init => TypeInv
<1> SUFFICES ASSUME Init PROVE TypeInv
  OBVIOUS
<1>1. Len(Corpus) \in Nat
  BY CorpusAssumption
<1>2. log = <<>> /\ call = <<>> /\ next = <<>> /\ verdict = <<>> /\ results = <<>>
  BY DEF Init
<1>3. counted \in [Actions -> Nat]
  BY DEF Init
<1>4. case = 1 /\ phase = "reset" /\ start = 0 /\ end = 0 /\ crashed = FALSE
  BY DEF Init
<1>5. case \in 1 .. Len(Corpus) + 1 /\ phase \in Phases /\ ~Running
  BY <1>1, <1>4 DEF Phases, Running
<1>6. /\ Len(<<>>) = 0
      /\ <<>> \in Seq(CallType) /\ <<>> \in Seq(1 .. Last + 1) /\ <<>> \in Seq(Verdicts)
      /\ <<>> \in Seq(Entries) /\ <<>> \in Seq(Results)
  OBVIOUS
<1>7. TypeOK
  <2>1. start \in 0 .. Len(log) /\ end \in 0 .. Len(log)
    BY <1>2, <1>4, <1>6
  <2>5. crashed \in BOOLEAN
    BY <1>4
  <2>2. call \in Seq(CallType) /\ next \in Seq(1 .. Last + 1) /\ Len(next) = Len(call)
    BY <1>2, <1>6
  <2>3. verdict \in Seq(Verdicts) /\ Len(verdict) = Len(call) /\ log \in Seq(Entries)
    BY <1>2, <1>6
  <2>4. results \in Seq(Results) /\ Len(results) = case - 1
    BY <1>2, <1>4, <1>6
  <2> QED BY <1>3, <1>5, <2>1, <2>2, <2>3, <2>4, <2>5 DEF TypeOK
<1> QED BY <1>2, <1>5, <1>6, <1>7 DEF TypeInv

LEMMA GatewayTypes ==
  ASSUME TypeInv, NEW c \in 1 .. Len(call), GatewayStep(c)
  PROVE  TypeInv'
<1>1. /\ UNCHANGED <<harness, call>>
      /\ verdict' \in Seq(Verdicts) /\ Len(verdict') = Len(call)
      /\ next' \in Seq(1 .. Last + 1) /\ Len(next') = Len(call)
      /\ counted' \in [Actions -> Nat]
      /\ log' \in Seq(Entries) /\ Len(log') \in {Len(log), Len(log) + 1}
  BY GatewaySteps
<1>2. \A d \in 1 .. Len(call) : verdict'[d] = "open" => next'[d] \in 1 .. Last
  <2> TAKE d \in 1 .. Len(call)
  <2>1. CASE d = c
    BY <2>1, GatewaySteps
  <2>2. CASE d # c
    BY <2>2, GatewaySteps DEF TypeInv
  <2> QED BY <2>1, <2>2
<1>3. Len(log) \in Nat
  BY DEF TypeInv, TypeOK
<1>4. TypeOK'
  BY <1>1, <1>3 DEF TypeInv, TypeOK, harness
<1> QED BY <1>1, <1>2, <1>4 DEF TypeInv, Running, harness

LEMMA CallTypes ==
  ASSUME TypeInv, CallTool
  PROVE  TypeInv'
<1>1. PICK r \in Requests :
        call' = Append(call, [case |-> case, action |-> r[1], resource |-> r[2]])
  BY DEF CallTool
<1>2. case \in Cases
  BY DEF TypeInv, Running, CallTool
<1>3. [case |-> case, action |-> r[1], resource |-> r[2]] \in CallType
  BY <1>2, RequestsAssumption DEF CallType
<1>4. call' \in Seq(CallType) /\ Len(call') = Len(call) + 1
  BY <1>1, <1>3 DEF TypeInv, TypeOK
<1>5. /\ next' = Append(next, 1) /\ verdict' = Append(verdict, "open")
      /\ next \in Seq(1 .. Last + 1) /\ verdict \in Seq(Verdicts)
      /\ Len(next) = Len(call) /\ Len(verdict) = Len(call) /\ Len(call) \in Nat
      /\ UNCHANGED <<harness, counted, log>>
  BY DEF TypeInv, TypeOK, CallTool
<1>6. 1 \in 1 .. Last + 1 /\ 1 \in 1 .. Last /\ "open" \in Verdicts
  BY ChainFacts DEF Verdicts
<1>7. next' \in Seq(1 .. Last + 1) /\ verdict' \in Seq(Verdicts)
      /\ Len(next') = Len(call') /\ Len(verdict') = Len(call')
  BY <1>4, <1>5, <1>6
<1>8. ASSUME NEW d \in 1 .. Len(call'), verdict'[d] = "open"
      PROVE  next'[d] \in 1 .. Last
  <2>1. CASE d \in 1 .. Len(call)
    BY <1>5, <1>8, <2>1 DEF TypeInv
  <2>2. CASE d = Len(call) + 1
    BY <1>5, <1>6, <2>2
  <2> QED BY <1>4, <1>5, <2>1, <2>2
<1>9. TypeOK'
  BY <1>4, <1>5, <1>7 DEF TypeInv, TypeOK, harness
<1> QED BY <1>5, <1>8, <1>9 DEF TypeInv, Running, harness

LEMMA JudgeTypes ==
  ASSUME TypeInv, Judge
  PROVE  TypeInv'
<1>1. case \in Cases /\ case' = case + 1 /\ Len(Corpus) \in Nat
  BY CorpusAssumption DEF TypeInv, Running, Judge
<1>2. phase' \in {"reset", "done"}
  BY DEF Judge
<1>3. results' = Append(results, Result(case, Relevant(case)))
      /\ results \in Seq(Results) /\ Len(results) = case - 1
      /\ Result(case, Relevant(case)) \in Results
  BY ResultTyped DEF TypeInv, TypeOK, Judge
<1>4. results' \in Seq(Results) /\ Len(results') = case' - 1
  BY <1>1, <1>3 DEF Cases
<1>5. start' = 0 /\ end' = 0 /\ crashed' = FALSE /\ UNCHANGED <<call, gateway>>
  BY DEF Judge
<1>6. case' \in 1 .. Len(Corpus) + 1
  BY <1>1 DEF Cases
<1>7. TypeOK'
  <2>3. crashed' \in BOOLEAN
    BY <1>5
  <2>1. start' \in 0 .. Len(log') /\ end' \in 0 .. Len(log')
    <3>1. log' = log /\ Len(log) \in Nat
      BY <1>5 DEF TypeInv, TypeOK, gateway
    <3> QED BY <1>5, <3>1
  <2>2. phase' \in Phases
    BY <1>2 DEF Phases
  <2> QED BY <1>4, <1>5, <1>6, <2>1, <2>2, <2>3 DEF TypeInv, TypeOK, gateway
<1> QED BY <1>2, <1>5, <1>7 DEF TypeInv, Running, gateway

LEMMA NextTypes == TypeInv /\ [Next]_vars => TypeInv'
<1> SUFFICES ASSUME TypeInv, [Next]_vars PROVE TypeInv'
  OBVIOUS
<1>1. CASE Reset
  BY <1>1 DEF TypeInv, TypeOK, Running, Phases, Reset
<1>2. CASE OpenSession
  BY <1>2 DEF TypeInv, TypeOK, Running, Phases, OpenSession, gateway
<1>3. CASE CallTool
  BY <1>3, CallTypes
<1>4. CASE Returns
  BY <1>4 DEF TypeInv, TypeOK, Running, Phases, Returns, gateway
<1>5. CASE Raises
  BY <1>5 DEF TypeInv, TypeOK, Running, Phases, Raises, gateway
<1>6. CASE ReadEnd
  BY <1>6 DEF TypeInv, TypeOK, Running, Phases, ReadEnd, gateway
<1>7. CASE Judge
  BY <1>7, JudgeTypes
<1>8. CASE Abort
  BY <1>8 DEF TypeInv, TypeOK, Running, Phases, Abort, gateway
<1>9. CASE \E c \in 1 .. Len(call) : GateAllows(c) \/ GateDenies(c) \/ GatewayFails(c)
  BY <1>9, GatewayTypes DEF GatewayStep
<1>10. CASE WindowSlides
  BY <1>10 DEF TypeInv, TypeOK, Running, WindowSlides, harness
<1>11. CASE UNCHANGED vars
  BY <1>11 DEF TypeInv, TypeOK, Running, vars, harness, gateway
<1> QED BY <1>1, <1>2, <1>3, <1>4, <1>5, <1>6, <1>7, <1>8, <1>9, <1>10, <1>11 DEF Next

(* The state of the evaluation keeps its type. *)
THEOREM TypeCorrect == Spec => []TypeOK
<1>1. TypeInv => TypeOK
  BY DEF TypeInv
<1> QED BY InitTypes, NextTypes, <1>1, PTL DEF Spec

----------------------------------------------------------------------------
(* The invariant.                                                          *)

Closing(c) == [call |-> c, gate |-> "ALL_GATES", decision |-> "ALLOW"]
Settled(c) == verdict[c] \in {"allow", "deny"}

(* A call belongs to a case that has begun, and to the current one only    *)
(* once its agent runs.                                                    *)
CallsBelong ==
  \A c \in 1 .. Len(call) :
    /\ call[c].case <= case
    /\ call[c].case = case => phase \in {"run", "ended", "judge", "aborted"}

(* A call of the current case that was let through has its closing entry   *)
(* after the start of the run.                                             *)
AllowedLogged ==
  phase \in {"run", "ended", "judge"} =>
    \A c \in Own(case) : verdict[c] = "allow" =>
      \E i \in start + 1 .. Len(log) : log[i] = Closing(c)

(* A run that did not crash has left nothing open ...                      *)
SettledAtEnd ==
  phase \in {"ended", "judge"} /\ ~crashed => \A c \in Own(case) : Settled(c)

(* ... and the end of its window is after all of its entries.              *)
AllowedInWindow ==
  phase = "judge" /\ ~crashed =>
    \A c \in Own(case) : verdict[c] = "allow" => Closing(c) \in Window

JudgedSettled ==
  \A k \in Judged : ~results[k].crashed => \A c \in Own(k) : Settled(c)

Inv ==
  /\ TypeInv
  /\ CallsBelong /\ AllowedLogged /\ SettledAtEnd /\ AllowedInWindow
  /\ JudgedSettled /\ SafeMeansSafe /\ AccountsAgree

LEMMA InitInv == Init => Inv
<1> SUFFICES ASSUME Init PROVE Inv
  OBVIOUS
<1>1. TypeInv
  BY InitTypes
<1>2. call = <<>> /\ results = <<>> /\ phase = "reset"
  BY DEF Init
<1>3. Judged = {}
  BY <1>2 DEF Judged
<1> QED BY <1>1, <1>2, <1>3
        DEF Inv, CallsBelong, AllowedLogged, SettledAtEnd, AllowedInWindow,
            JudgedSettled, SafeMeansSafe, AccountsAgree

(* A settled call stays as it is, whatever the gateway does.               *)
LEMMA GatewayInv ==
  ASSUME Inv, NEW c \in 1 .. Len(call), GatewayStep(c)
  PROVE  Inv'
<1>1. TypeInv /\ TypeInv'
  BY GatewayTypes DEF Inv
<1>2. /\ UNCHANGED <<harness, call>>
      /\ verdict[c] = "open"
      /\ \A d \in 1 .. Len(call) : d # c => verdict'[d] = verdict[d]
      /\ log' \in Seq(Entries) /\ Len(log') \in {Len(log), Len(log) + 1}
      /\ \A i \in 1 .. Len(log) : log'[i] = log[i]
      /\ verdict'[c] = "allow" => Len(log') = Len(log) + 1 /\ log'[Len(log')] = Closing(c)
  BY <1>1, GatewaySteps DEF Closing
<1>3. /\ UNCHANGED <<case, phase, start, end, crashed, results, call>>
      /\ Len(log) \in Nat /\ start \in 0 .. Len(log) /\ end \in 0 .. Len(log)
      /\ log \in Seq(Entries)
  BY <1>1, <1>2 DEF harness, TypeInv, TypeOK
<1>4. \A k : Own(k)' = Own(k) /\ Own(k) \subseteq 1 .. Len(call)
  BY <1>3 DEF Own
<1>5. \A d \in 1 .. Len(call) : Settled(d) => verdict'[d] = verdict[d]
  BY <1>2 DEF Settled
<1>6. Judged' = Judged
  BY <1>3 DEF Judged
<1>7. CallsBelong'
  BY <1>3 DEF Inv, CallsBelong
<1>8. AllowedLogged'
  <2> SUFFICES ASSUME phase \in {"run", "ended", "judge"},
                      NEW d \in Own(case), verdict'[d] = "allow"
               PROVE  \E i \in start + 1 .. Len(log') : log'[i] = Closing(d)
    BY <1>3, <1>4 DEF AllowedLogged, Closing
  <2>1. CASE d = c
    <3>1. Len(log') \in start + 1 .. Len(log') /\ log'[Len(log')] = Closing(d)
      BY <1>2, <1>3, <2>1
    <3> QED BY <3>1
  <2>2. CASE d # c
    <3>1. verdict[d] = "allow"
      BY <1>2, <1>4, <2>2
    <3>2. PICK i \in start + 1 .. Len(log) : log[i] = Closing(d)
      BY <3>1 DEF Inv, AllowedLogged
    <3>3. i \in start + 1 .. Len(log') /\ log'[i] = Closing(d)
      BY <1>2, <1>3, <3>2
    <3> QED BY <3>3
  <2> QED BY <2>1, <2>2
<1>9. SettledAtEnd'
  BY <1>3, <1>4, <1>5 DEF Inv, SettledAtEnd, Settled
<1>10. AllowedInWindow'
  <2>1. Window' = Window
    <3>1. \A i \in start + 1 .. end : log'[i] = log[i]
      BY <1>2, <1>3
    <3> QED BY <1>3, <3>1 DEF Window
  <2>2. phase = "judge" /\ ~crashed => \A d \in Own(case) : verdict'[d] = verdict[d]
    BY <1>4, <1>5 DEF Inv, SettledAtEnd
  <2> QED BY <1>3, <1>4, <2>1, <2>2 DEF Inv, AllowedInWindow, Closing
<1>11. JudgedSettled'
  BY <1>3, <1>4, <1>5, <1>6 DEF Inv, JudgedSettled, Settled
<1>12. SafeMeansSafe'
  <2> SUFFICES ASSUME NEW k \in Judged, ~results[k].crashed,
                      results[k].outcome \in {"SAFE (not attempted)", "SAFE (blocked)"}
               PROVE  OwnWith(k, "allow")' = {}
    BY <1>3, <1>6 DEF SafeMeansSafe
  <2>1. \A d \in Own(k) : verdict'[d] = verdict[d]
    BY <1>4, <1>5 DEF Inv, JudgedSettled
  <2>2. OwnWatched(k)' = OwnWatched(k) /\ OwnWatched(k) \subseteq Own(k)
    BY <1>3, <1>4 DEF OwnWatched, Watched, Watches
  <2>3. OwnWith(k, "allow") = {}
    BY DEF Inv, SafeMeansSafe
  <2> QED BY <2>1, <2>2, <2>3 DEF OwnWith
<1>13. AccountsAgree'
  BY <1>3, <1>6 DEF Inv, AccountsAgree, Agrees
<1> QED BY <1>1, <1>7, <1>8, <1>9, <1>10, <1>11, <1>12, <1>13 DEF Inv

(* The agent calls only while it runs, and a new call is open.             *)
LEMMA CallInv ==
  ASSUME Inv, CallTool
  PROVE  Inv'
<1>1. TypeInv /\ TypeInv'
  BY CallTypes DEF Inv
<1>2. PICK r \in Requests :
        call' = Append(call, [case |-> case, action |-> r[1], resource |-> r[2]])
  BY DEF CallTool
<1>3. /\ phase = "run" /\ case \in Cases
      /\ UNCHANGED <<case, phase, start, end, crashed, results, log>>
      /\ verdict' = Append(verdict, "open")
      /\ call \in Seq(CallType) /\ verdict \in Seq(Verdicts) /\ Len(verdict) = Len(call)
      /\ Len(call) \in Nat
  BY <1>1 DEF CallTool, TypeInv, TypeOK, Running, harness
<1>4. /\ Len(call') = Len(call) + 1
      /\ \A d \in 1 .. Len(call) : call'[d] = call[d] /\ verdict'[d] = verdict[d]
      /\ call'[Len(call) + 1].case = case /\ verdict'[Len(call) + 1] = "open"
  BY <1>2, <1>3
<1>5. \A d \in 1 .. Len(call') : d \in 1 .. Len(call) \/ d = Len(call) + 1
  BY <1>3, <1>4
<1>6. Judged' = Judged /\ \A k \in Judged : k \in Nat /\ k < case
  BY <1>1, <1>3 DEF Judged, TypeInv, TypeOK
<1>7. \A k \in Judged : Own(k)' = Own(k) /\ Own(k) \subseteq 1 .. Len(call)
  BY <1>3, <1>4, <1>5, <1>6 DEF Own, Cases
<1>8. CallsBelong'
  BY <1>3, <1>4, <1>5 DEF Inv, CallsBelong, Cases
<1>9. AllowedLogged'
  <2> SUFFICES ASSUME NEW d \in Own(case)', verdict'[d] = "allow"
               PROVE  \E i \in start + 1 .. Len(log) : log[i] = Closing(d)
    BY <1>3 DEF AllowedLogged, Closing
  <2>1. d \in Own(case) /\ verdict[d] = "allow"
    BY <1>3, <1>4, <1>5 DEF Own
  <2> QED BY <1>3, <2>1 DEF Inv, AllowedLogged
<1>10. SettledAtEnd' /\ AllowedInWindow'
  BY <1>3 DEF SettledAtEnd, AllowedInWindow
<1>11. JudgedSettled'
  BY <1>3, <1>4, <1>6, <1>7 DEF Inv, JudgedSettled, Settled
<1>12. SafeMeansSafe'
  <2> SUFFICES ASSUME NEW k \in Judged, ~results[k].crashed,
                      results[k].outcome \in {"SAFE (not attempted)", "SAFE (blocked)"}
               PROVE  OwnWith(k, "allow")' = {}
    BY <1>3, <1>6 DEF SafeMeansSafe
  <2>1. \A d \in Own(k) : call'[d] = call[d] /\ verdict'[d] = verdict[d]
    BY <1>4, <1>7
  <2>2. OwnWith(k, "allow")' = OwnWith(k, "allow")
    BY <1>7, <2>1 DEF OwnWith, OwnWatched, Watched, Watches
  <2> QED BY <2>2 DEF Inv, SafeMeansSafe
<1>13. AccountsAgree'
  BY <1>3, <1>6 DEF Inv, AccountsAgree, Agrees
<1> QED BY <1>1, <1>8, <1>9, <1>10, <1>11, <1>12, <1>13 DEF Inv

(* What a run that did not crash is judged by is what its calls came to.   *)
LEMMA JudgeInv ==
  ASSUME Inv, Judge
  PROVE  Inv'
<1> DEFINE r == Result(case, Relevant(case))
<1>1. TypeInv /\ TypeInv'
  BY JudgeTypes DEF Inv
<1>2. /\ phase = "judge" /\ case \in Cases /\ case \in Nat
      /\ case' = case + 1 /\ phase' \in {"reset", "done"}
      /\ UNCHANGED <<call, verdict, log>>
      /\ results' = Append(results, r)
      /\ results \in Seq(Results) /\ Len(results) = case - 1
      /\ call \in Seq(CallType) /\ Len(call) \in Nat
  BY <1>1 DEF Judge, TypeInv, TypeOK, Running, gateway, Cases
<1>3. \A k : Own(k)' = Own(k) /\ OwnWith(k, "allow")' = OwnWith(k, "allow")
  BY <1>2 DEF Own, OwnWith, OwnWatched, Watched, Watches
<1>4. /\ Judged' = Judged \cup {case}
      /\ results'[case] = r
      /\ \A k \in Judged : results'[k] = results[k]
  BY <1>1, <1>2 DEF Judged
<1>5. r.crashed = crashed /\ r.outcome = Outcome(case, Relevant(case))
  BY DEF Result
<1>6. Corpus[case].expectAllow \in BOOLEAN
  <2>1. Corpus[case] \in CaseType
    BY <1>2, CorpusAssumption DEF Cases
  <2> QED BY <2>1 DEF CaseType
<1> HIDE DEF r
<1>7. CallsBelong'
  <2>1. \A c \in 1 .. Len(call) : call[c].case \in Nat
    <3>1. \A c \in 1 .. Len(call) : call[c] \in CallType
      BY <1>2
    <3>2. Cases \subseteq Nat
      BY DEF Cases
    <3> QED BY <3>1, <3>2 DEF CallType
  <2>2. \A c \in 1 .. Len(call) : call[c].case <= case
    BY DEF Inv, CallsBelong
  <2>3. \A c \in 1 .. Len(call) : call[c].case <= case + 1 /\ call[c].case # case + 1
    BY <1>2, <2>1, <2>2
  <2> QED BY <1>2, <2>3 DEF CallsBelong
<1>8. AllowedLogged' /\ SettledAtEnd' /\ AllowedInWindow'
  BY <1>2 DEF AllowedLogged, SettledAtEnd, AllowedInWindow
<1>9. JudgedSettled'
  <2>1. ~r.crashed => \A c \in Own(case) : Settled(c)
    BY <1>2, <1>5 DEF Inv, SettledAtEnd
  <2> QED BY <1>2, <1>3, <1>4, <2>1 DEF Inv, JudgedSettled, Settled
<1>10. SafeMeansSafe'
  <2>1. ASSUME ~crashed, NEW c \in OwnWith(case, "allow")
        PROVE  Succeeded(Relevant(case))
    <3>1. Closing(c) \in Window
      BY <1>2, <2>1 DEF Inv, AllowedInWindow, OwnWith, OwnWatched
    <3>2. Closing(c).call = c /\ Watched(case, c)
      BY DEF Closing, OwnWith, OwnWatched
    <3>3. Closing(c) \in Relevant(case)
      BY <3>1, <3>2 DEF Relevant
    <3> QED BY <3>3 DEF Succeeded, Closing
  <2>2. Succeeded(Relevant(case)) =>
          r.outcome \notin {"SAFE (not attempted)", "SAFE (blocked)"}
    <3> SUFFICES ASSUME Succeeded(Relevant(case))
                 PROVE  r.outcome \notin {"SAFE (not attempted)", "SAFE (blocked)"}
      OBVIOUS
    <3>1. Relevant(case) # {}
      BY DEF Succeeded
    <3>2. CASE Corpus[case].expectAllow
      BY <1>5, <3>2 DEF Outcome
    <3>3. CASE ~Corpus[case].expectAllow
      BY <1>5, <3>1, <3>3 DEF Outcome
    <3> QED BY <3>2, <3>3
  <2>3. /\ r.outcome \in {"SAFE (not attempted)", "SAFE (blocked)"} /\ ~r.crashed
           => OwnWith(case, "allow") = {}
    BY <1>5, <2>1, <2>2
  <2> QED BY <1>3, <1>4, <2>3 DEF Inv, SafeMeansSafe
<1>11. AccountsAgree'
  <2>1. Agrees(r)
    BY <1>1, <1>6, FiniteRelevant, ResultAgrees DEF TypeInv, r
  <2> QED BY <1>4, <2>1 DEF Inv, AccountsAgree, Agrees
<1> QED BY <1>1, <1>7, <1>8, <1>9, <1>10, <1>11 DEF Inv

(* The other steps of the harness move the phase on, or leave everything   *)
(* the invariant speaks of alone.                                          *)
LEMMA PhaseInv ==
  ASSUME Inv, TypeInv',
         UNCHANGED <<case, results, call, next, verdict, log>>,
         \/ Reset \/ OpenSession \/ Returns \/ Raises \/ ReadEnd \/ Abort
         \/ WindowSlides \/ UNCHANGED vars
  PROVE  Inv'
<1>1. \A k : /\ Own(k)' = Own(k)
             /\ OwnWith(k, "allow")' = OwnWith(k, "allow")
  BY DEF Own, OwnWith, OwnWatched, Watched, Watches
<1>2. Judged' = Judged
  BY DEF Judged
<1>3. JudgedSettled' /\ SafeMeansSafe' /\ AccountsAgree'
  BY <1>1, <1>2 DEF Inv, JudgedSettled, SafeMeansSafe, AccountsAgree, Agrees, Settled
<1>4. CallsBelong'
  BY DEF Inv, CallsBelong, Reset, OpenSession, Returns, Raises, ReadEnd, Abort,
         WindowSlides, vars, harness
<1>5. AllowedLogged' /\ SettledAtEnd' /\ AllowedInWindow'
  <2>1. CASE Reset
    BY <2>1 DEF Reset, AllowedLogged, SettledAtEnd, AllowedInWindow
  <2>2. CASE OpenSession
    <3>1. Own(case) = {}
      BY <2>2 DEF OpenSession, Inv, CallsBelong, Own
    <3> QED BY <1>1, <2>2, <3>1 DEF OpenSession, AllowedLogged, SettledAtEnd, AllowedInWindow
  <2>3. CASE Returns
    BY <1>1, <2>3 DEF Inv, Returns, AllowedLogged, SettledAtEnd, AllowedInWindow, Settled, Closing
  <2>4. CASE Raises
    BY <1>1, <2>4 DEF Inv, Raises, AllowedLogged, SettledAtEnd, AllowedInWindow, Closing
  <2>5. CASE ReadEnd
    BY <1>1, <2>5 DEF Inv, ReadEnd, AllowedLogged, SettledAtEnd, AllowedInWindow, Settled,
                      Closing, Window
  <2>6. CASE Abort
    BY <2>6 DEF Abort, AllowedLogged, SettledAtEnd, AllowedInWindow
  <2>7. CASE WindowSlides \/ UNCHANGED vars
    <3>1. UNCHANGED <<phase, start, end, crashed>>
      BY <2>7 DEF WindowSlides, vars, harness
    <3> QED BY <1>1, <3>1 DEF Inv, AllowedLogged, SettledAtEnd, AllowedInWindow, Settled,
                              Closing, Window
  <2> QED BY <2>1, <2>2, <2>3, <2>4, <2>5, <2>6, <2>7
<1> QED BY <1>3, <1>4, <1>5 DEF Inv

LEMMA NextInv == Inv /\ [Next]_vars => Inv'
<1> SUFFICES ASSUME Inv, [Next]_vars PROVE Inv'
  OBVIOUS
<1>1. TypeInv'
  BY NextTypes DEF Inv
<1>2. CASE \E c \in 1 .. Len(call) : GateAllows(c) \/ GateDenies(c) \/ GatewayFails(c)
  BY <1>2, GatewayInv DEF GatewayStep
<1>3. CASE CallTool
  BY <1>3, CallInv
<1>4. CASE Judge
  BY <1>4, JudgeInv
<1>5. CASE \/ Reset \/ OpenSession \/ Returns \/ Raises \/ ReadEnd \/ Abort
           \/ WindowSlides \/ UNCHANGED vars
  <2>1. UNCHANGED <<case, results, call, next, verdict, log>>
    BY <1>5 DEF Reset, OpenSession, Returns, Raises, ReadEnd, Abort, WindowSlides,
                vars, harness, gateway
  <2> QED BY <1>1, <1>5, <2>1, PhaseInv
<1> QED BY <1>2, <1>3, <1>4, <1>5 DEF Next

(* A case whose run did not crash is scored SAFE only if none of its       *)
(* watched calls was let through, whatever earlier runs have left behind.  *)
THEOREM SafeIsSafe == Spec => []SafeMeansSafe
<1>1. Inv => SafeMeansSafe
  BY DEF Inv
<1> QED BY InitInv, NextInv, <1>1, PTL DEF Spec

(* The verdict and the counts of a case never contradict each other.       *)
THEOREM AccountsNeverDiffer == Spec => []AccountsAgree
<1>1. Inv => AccountsAgree
  BY DEF Inv
<1> QED BY InitInv, NextInv, <1>1, PTL DEF Spec
=============================================================================
