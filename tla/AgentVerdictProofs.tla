------------------------- MODULE AgentVerdictProofs -------------------------
(***************************************************************************)
(* Proofs about an evaluation in which no run has crashed, for any corpus, *)
(* any chain of gates and any limits: each verdict is that of the case's   *)
(* own calls (VerdictIsExact), and Gate 3 denies a call only because of    *)
(* the calls of its own case (CleanSlate).                                 *)
(***************************************************************************)
EXTENDS AgentAttacksProofs

AtRun == phase \in {"run", "ended", "judge"}

Denial(e, c) == e.call = c /\ e.decision = "DENY"

(* The calls of the running case that Gate 3 has counted for an action. *)
CountedCalls(a) ==
  {c \in Own(case) : call[c].action = a /\ CountedBy(Len(log) + 1, c)}

(***************************************************************************)
(* The inductive invariant, on top of Inv.  The first four conjuncts       *)
(* relate a call's entries to what became of it.                           *)
(***************************************************************************)
EntriesOfCalls == \A i \in 1 .. Len(log) : log[i].call \in 1 .. Len(call)

ClosedAreAnswered ==
  \A i \in 1 .. Len(log) :
    log[i].gate = "ALL_GATES" => verdict[log[i].call] \in {"allow", "error"}

PassedGates ==
  \A i \in 1 .. Len(log) :
    verdict[log[i].call] = "open"
      => \E g \in 1 .. next[log[i].call] - 1 : log[i].gate = Chain[g]

DeniedLogged ==
  AtRun => \A c \in Own(case) : verdict[c] = "deny"
             => \E i \in start + 1 .. Len(log) : Denial(log[i], c)

DeniedInWindow ==
  phase = "judge" /\ ~crashed =>
    \A c \in Own(case) : verdict[c] = "deny" => \E e \in Window : Denial(e, c)

(* Without a crash nothing of an earlier case happens any more once the    *)
(* next one has begun: entries and counts are those of the running case.   *)
WindowIsOwn ==
  NoCrash /\ AtRun => \A i \in start + 1 .. Len(log) : call[log[i].call].case = case

AbortedSettled ==
  NoCrash /\ phase = "aborted" => \A c \in 1 .. Len(call) : Settled(c)

CountedOwn ==
  NoCrash /\ phase \in {"session", "run"} =>
    \A a \in Actions : counted[a] <= Cardinality(CountedCalls(a))

Entered == EntriesOfCalls /\ ClosedAreAnswered /\ PassedGates
Denied  == DeniedLogged /\ DeniedInWindow
Alone   == WindowIsOwn /\ AbortedSettled /\ CountedOwn

ExactInv == Entered /\ Denied /\ Alone /\ VerdictIsExact /\ CleanSlate

----------------------------------------------------------------------------
(* The steps of the gateway. *)

(* A gate that lets an open call through: the entry, and the next gate. *)
LEMMA AllowEffect ==
  ASSUME TypeInv, NEW c \in 1 .. Len(call), GateAllows(c)
  PROVE  /\ verdict'[c] \in {"open", "allow", "error"}
         /\ verdict'[c] = "open" <=> Gate(c) # "ALL_GATES"
         /\ next'[c] = next[c] + 1
         /\ counted' = Count(c)
         /\ Len(log') = Len(log) + 1
         /\ log'[Len(log) + 1] = [call |-> c, gate |-> Gate(c), decision |-> "ALLOW"]
<1>1. Undecided(c)
  BY DEF GateAllows
<1>2. PICK v \in IF Gate(c) = "ALL_GATES" THEN {"allow", "error"} ELSE {"open"} :
        verdict' = [verdict EXCEPT ![c] = v]
  BY DEF GateAllows
<1>3. /\ verdict \in Seq(Verdicts) /\ Len(verdict) = Len(call)
      /\ next \in Seq(1 .. Last + 1) /\ Len(next) = Len(call)
      /\ log \in Seq(Entries) /\ Len(log) \in Nat
  BY DEF TypeInv, TypeOK
<1>4. verdict'[c] = v
  BY <1>2, <1>3
<1>5. next'[c] = next[c] + 1 /\ counted' = Count(c)
  BY <1>3 DEF GateAllows
<1>6. /\ Len(log') = Len(log) + 1
      /\ log'[Len(log')] = [call |-> c, gate |-> Gate(c), decision |-> "ALLOW"]
  BY <1>1, AuditTyped DEF GateAllows
<1> QED
  BY <1>2, <1>4, <1>5, <1>6

(* One that denies it, Gate 3 because of its counts. *)
LEMMA DenyEffect ==
  ASSUME TypeInv, NEW c \in 1 .. Len(call), GateDenies(c)
  PROVE  /\ verdict'[c] = "deny" /\ Gate(c) # "ALL_GATES"
         /\ Gate(c) = "GATE3" => ~BelowLimit(c)
         /\ counted' = counted
         /\ Len(log') = Len(log) + 1
         /\ log'[Len(log) + 1] = [call |-> c, gate |-> Gate(c), decision |-> "DENY"]
<1>1. Undecided(c)
  BY DEF GateDenies
<1>2. verdict \in Seq(Verdicts) /\ Len(verdict) = Len(call)
  BY DEF TypeInv, TypeOK
<1>3. /\ Len(log') = Len(log) + 1
      /\ log'[Len(log')] = [call |-> c, gate |-> Gate(c), decision |-> "DENY"]
  BY <1>1, AuditTyped DEF GateDenies
<1> QED
  BY <1>2, <1>3 DEF GateDenies

(* An exception: no entry, but perhaps a count. *)
LEMMA FailEffect ==
  ASSUME TypeInv, NEW c \in 1 .. Len(call), GatewayFails(c)
  PROVE  /\ verdict'[c] = "error"
         /\ counted' \in {counted, Count(c)}
         /\ log' = log
<1>1. verdict \in Seq(Verdicts) /\ Len(verdict) = Len(call)
  BY DEF TypeInv, TypeOK
<1> QED
  BY <1>1 DEF GatewayFails

(* As long as no run has crashed, a call that is still open is one of the  *)
(* run under way.                                                          *)
LEMMA OpenIsOwn ==
  ASSUME Inv, AbortedSettled, NoCrash, NEW c \in 1 .. Len(call), verdict[c] = "open"
  PROVE  phase = "run" /\ c \in Own(case)
<1>1. call[c] \in CallType /\ Len(results) = case - 1 /\ case \in Nat
  BY DEF Inv, TypeInv, TypeOK
<1>2. call[c].case \in Nat /\ call[c].case >= 1 /\ call[c].case <= case
  BY <1>1 DEF CallType, Cases, Inv, CallsBelong
<1>3. ~ Settled(c)
  BY DEF Settled
<1>4. ASSUME call[c].case < case PROVE FALSE
  <2>1. call[c].case \in Judged /\ c \in Own(call[c].case)
    BY <1>1, <1>2, <1>4 DEF Judged, Own
  <2> QED
    BY <1>3, <2>1 DEF Inv, JudgedSettled, NoCrash
<1>5. call[c].case = case
  BY <1>1, <1>2, <1>4
<1>6. c \in Own(case)
  BY <1>5 DEF Own
<1>7. phase \in {"run", "ended", "judge", "aborted"}
  BY <1>5 DEF Inv, CallsBelong
<1>8. phase \notin {"ended", "judge"}
  BY <1>3, <1>6 DEF Inv, SettledAtEnd, NoCrash
<1>9. phase # "aborted"
  BY <1>3 DEF AbortedSettled
<1> QED
  BY <1>6, <1>7, <1>8, <1>9

LEMMA OwnFinite ==
  ASSUME TypeInv, NEW k
  PROVE  IsFiniteSet(Own(k))
<1>1. Len(call) \in Nat /\ IsFiniteSet(1 .. Len(call))
  BY FS_Interval DEF TypeInv, TypeOK
<1>2. Own(k) \subseteq 1 .. Len(call)
  BY DEF Own
<1> QED
  BY <1>1, <1>2, FS_Subset

LEMMA OwnFiniteNext ==
  ASSUME TypeInv', NEW k
  PROVE  IsFiniteSet(Own(k)')
<1>1. Len(call') \in Nat
  BY DEF TypeInv, TypeOK
<1>2. IsFiniteSet(1 .. Len(call'))
  BY <1>1, FS_Interval
<1>3. Own(k)' \subseteq 1 .. Len(call')
  BY DEF Own
<1> QED
  BY <1>2, <1>3, FS_Subset

(* What every step of the gateway leaves as it was. *)
LEMMA GatewayKeeps ==
  ASSUME TypeInv, NEW c \in 1 .. Len(call), GatewayStep(c)
  PROVE  /\ UNCHANGED <<case, phase, start, end, crashed, results, call>>
         /\ verdict[c] = "open"
         /\ \A d \in 1 .. Len(call) : d # c => verdict'[d] = verdict[d] /\ next'[d] = next[d]
         /\ Len(log) \in Nat /\ Len(log') \in {Len(log), Len(log) + 1}
         /\ \A i \in 1 .. Len(log) : log'[i] = log[i]
         /\ \A k : Own(k)' = Own(k)
         /\ Judged' = Judged
<1>1. UNCHANGED <<case, phase, start, end, crashed, results, call>>
  BY GatewaySteps DEF harness
<1>2. Len(log) \in Nat
  BY DEF TypeInv, TypeOK
<1>3. (\A k : Own(k)' = Own(k)) /\ Judged' = Judged
  BY <1>1 DEF Own, Judged
<1> QED
  BY <1>1, <1>2, <1>3, GatewaySteps

LEMMA GatewayEntered ==
  ASSUME TypeInv, Entered, NEW c \in 1 .. Len(call), GatewayStep(c)
  PROVE  Entered'
<1> DEFINE n == Len(log) + 1
<1>1. /\ UNCHANGED call /\ Len(log) \in Nat /\ Len(call) \in Nat
      /\ \A d \in 1 .. Len(call) : d # c => verdict'[d] = verdict[d] /\ next'[d] = next[d]
      /\ \A i \in 1 .. Len(log) : log'[i] = log[i]
      /\ verdict[c] = "open"
  BY GatewayKeeps DEF TypeInv, TypeOK
<1>2. /\ Len(log') \in {Len(log), n}
      /\ Len(log') = n => log'[n].call = c /\ log'[n].gate = Gate(c)
  <2>1. \/ log' = log
        \/ /\ Len(log') = n
           /\ \E d \in {"ALLOW", "DENY"} :
                log'[n] = [call |-> c, gate |-> Gate(c), decision |-> d]
    BY AllowEffect, DenyEffect, FailEffect DEF GatewayStep
  <2> QED
    BY <1>1, <2>1
<1>3. next[c] \in Nat /\ next[c] >= 1 /\ Gate(c) = Chain[next[c]]
  BY <1>1, OpenCall DEF Undecided, Gate
<1>4. Len(log') = n /\ Gate(c) = "ALL_GATES" => verdict'[c] \in {"allow", "error"}
  <2>1. CASE GateAllows(c)
    BY <2>1, AllowEffect
  <2>2. CASE GateDenies(c)
    BY <2>2, DenyEffect
  <2>3. CASE GatewayFails(c)
    BY <1>1, <2>3, FailEffect
  <2> QED
    BY <2>1, <2>2, <2>3 DEF GatewayStep
<1>5. verdict'[c] = "open" => next'[c] = next[c] + 1
  <2>1. CASE GateAllows(c)
    BY <2>1, AllowEffect
  <2>2. CASE GateDenies(c) \/ GatewayFails(c)
    BY <2>2, DenyEffect, FailEffect
  <2> QED
    BY <2>1, <2>2 DEF GatewayStep
<1> HIDE DEF n
<1>6. \A i \in 1 .. Len(log') : i \in 1 .. Len(log) \/ (i = n /\ Len(log') = n)
  BY <1>1, <1>2 DEF n
<1>7. EntriesOfCalls'
  BY <1>1, <1>2, <1>6 DEF Entered, EntriesOfCalls
<1>8. ClosedAreAnswered'
  <2> SUFFICES ASSUME NEW i \in 1 .. Len(log'), log'[i].gate = "ALL_GATES"
               PROVE  verdict'[log'[i].call] \in {"allow", "error"}
    BY DEF ClosedAreAnswered
  <2>1. CASE i \in 1 .. Len(log)
    <3>1. log[i].call \in 1 .. Len(call) /\ verdict[log[i].call] \in {"allow", "error"}
      BY <1>1, <2>1 DEF Entered, EntriesOfCalls, ClosedAreAnswered
    <3> QED
      BY <1>1, <2>1, <3>1
  <2>2. CASE i = n /\ Len(log') = n
    BY <1>2, <1>4, <2>2
  <2> QED
    BY <1>6, <2>1, <2>2
<1>9. PassedGates'
  <2> SUFFICES ASSUME NEW i \in 1 .. Len(log'), verdict'[log'[i].call] = "open"
               PROVE  \E g \in 1 .. next'[log'[i].call] - 1 : log'[i].gate = Chain[g]
    BY DEF PassedGates
  <2>1. CASE i \in 1 .. Len(log)
    <3>1. log'[i] = log[i] /\ log[i].call \in 1 .. Len(call)
      BY <1>1, <2>1 DEF Entered, EntriesOfCalls
    <3>2. verdict[log[i].call] = "open"
      BY <1>1, <3>1
    <3>3. PICK g \in 1 .. next[log[i].call] - 1 : log[i].gate = Chain[g]
      BY <2>1, <3>2 DEF Entered, PassedGates
    <3>4. CASE log[i].call = c
      <4>1. g \in 1 .. next'[c] - 1
        BY <1>3, <1>5, <3>1, <3>3, <3>4
      <4> QED
        BY <3>1, <3>3, <3>4, <4>1
    <3>5. CASE log[i].call # c
      BY <1>1, <3>1, <3>3, <3>5
    <3> QED
      BY <3>4, <3>5
  <2>2. CASE i = n /\ Len(log') = n
    <3>1. log'[i].call = c /\ log'[i].gate = Chain[next[c]]
      BY <1>2, <1>3, <2>2
    <3>2. next'[c] = next[c] + 1
      BY <1>5, <3>1
    <3>3. next[c] \in 1 .. next'[c] - 1
      BY <1>3, <3>2
    <3> QED
      BY <3>1, <3>3
  <2> QED
    BY <1>6, <2>1, <2>2
<1> QED
  BY <1>7, <1>8, <1>9 DEF Entered

LEMMA GatewayDenied ==
  ASSUME Inv, Denied, NEW c \in 1 .. Len(call), GatewayStep(c)
  PROVE  Denied'
<1>1. TypeInv
  BY DEF Inv
<1>2. /\ UNCHANGED <<case, phase, start, end, crashed, results, call>>
      /\ verdict[c] = "open"
      /\ \A d \in 1 .. Len(call) : d # c => verdict'[d] = verdict[d]
      /\ Len(log) \in Nat /\ Len(log') \in {Len(log), Len(log) + 1}
      /\ \A i \in 1 .. Len(log) : log'[i] = log[i]
      /\ Own(case)' = Own(case)
  BY <1>1, GatewayKeeps
<1>3. start \in Nat /\ end \in Nat /\ start <= Len(log) /\ end <= Len(log)
  BY <1>1 DEF TypeInv, TypeOK
<1>4. DeniedLogged'
  <2> SUFFICES ASSUME AtRun, NEW d \in Own(case), verdict'[d] = "deny"
               PROVE  \E i \in start + 1 .. Len(log') : Denial(log'[i], d)
    BY <1>2 DEF DeniedLogged, AtRun, Denial
  <2>1. CASE d = c
    <3>1. GateDenies(c)
      BY <1>1, <2>1, AllowEffect, FailEffect DEF GatewayStep
    <3>2. /\ Len(log') = Len(log) + 1
          /\ log'[Len(log) + 1] = [call |-> c, gate |-> Gate(c), decision |-> "DENY"]
      BY <1>1, <3>1, DenyEffect
    <3>3. Len(log) + 1 \in start + 1 .. Len(log')
      BY <1>2, <1>3, <3>2
    <3> QED
      BY <2>1, <3>2, <3>3 DEF Denial
  <2>2. CASE d # c
    <3>1. verdict[d] = "deny"
      BY <1>2, <2>2 DEF Own
    <3>2. PICK i \in start + 1 .. Len(log) : Denial(log[i], d)
      BY <3>1 DEF Denied, DeniedLogged
    <3>3. i \in start + 1 .. Len(log') /\ log'[i] = log[i]
      BY <1>2, <1>3, <3>2
    <3> QED
      BY <3>2, <3>3
  <2> QED
    BY <2>1, <2>2
<1>5. DeniedInWindow'
  <2> SUFFICES ASSUME phase = "judge", ~crashed, NEW d \in Own(case), verdict'[d] = "deny"
               PROVE  \E e \in Window' : Denial(e, d)
    BY <1>2 DEF DeniedInWindow, Denial
  <2>1. Window' = Window
    <3>1. \A i \in start + 1 .. end : log'[i] = log[i]
      BY <1>2, <1>3
    <3> QED
      BY <1>2, <3>1 DEF Window
  <2>2. Settled(d)
    BY DEF Inv, SettledAtEnd
  <2>3. verdict[d] = "deny"
    BY <1>2, <2>2 DEF Settled, Own
  <2> QED
    BY <2>1, <2>3 DEF Denied, DeniedInWindow
<1> QED
  BY <1>4, <1>5 DEF Denied

(* A call under Gate 3 has not been counted before: it passes the gate     *)
(* only once.                                                              *)
LEMMA NotCountedYet ==
  ASSUME TypeInv, Entered, NEW c \in 1 .. Len(call), verdict[c] = "open",
         Gate(c) = "GATE3"
  PROVE  ~ CountedBy(Len(log) + 1, c)
<1> SUFFICES ASSUME NEW j \in 1 .. Len(log),
                    log[j] = [call |-> c, gate |-> "GATE3", decision |-> "ALLOW"]
             PROVE  FALSE
  BY DEF CountedBy, TypeInv, TypeOK
<1>1. log[j].call = c /\ log[j].gate = "GATE3"
  OBVIOUS
<1>2. PICK g \in 1 .. next[c] - 1 : Chain[g] = "GATE3"
  BY <1>1 DEF Entered, PassedGates
<1>3. next[c] \in 1 .. Last /\ Last \in Nat /\ Chain[next[c]] = "GATE3"
  BY OpenCall, ChainFacts DEF Undecided, Gate
<1>4. g \in 1 .. Last /\ g # next[c]
  BY <1>3
<1> QED
  BY <1>2, <1>3, <1>4, ChainAssumption

(* What has been counted stays counted, ... *)
LEMMA CountedStays ==
  ASSUME TypeInv, NEW c \in 1 .. Len(call), GatewayStep(c),
         NEW d \in 1 .. Len(call), NEW i \in 1 .. Len(log) + 1, CountedBy(i, d)
  PROVE  CountedBy(i, d)'
<1>1. /\ verdict[c] = "open"
      /\ \A e \in 1 .. Len(call) : e # c => verdict'[e] = verdict[e]
      /\ \A j \in 1 .. Len(log) : log'[j] = log[j]
      /\ Len(log) \in Nat
  BY GatewayKeeps
<1>2. CASE verdict[d] = "error"
  BY <1>1, <1>2 DEF CountedBy
<1>3. CASE \E j \in 1 .. i - 1 : log[j] = [call |-> d, gate |-> "GATE3", decision |-> "ALLOW"]
  BY <1>1, <1>3 DEF CountedBy
<1> QED
  BY <1>2, <1>3 DEF CountedBy

(* ... and what a step of Gate 3 counts is the call it decides. *)
LEMMA CountOnce ==
  ASSUME TypeInv, NEW c \in 1 .. Len(call), GatewayStep(c), counted' # counted
  PROVE  /\ Gate(c) = "GATE3"
         /\ counted' = [counted EXCEPT ![call[c].action] = @ + 1]
         /\ CountedBy(Len(log) + 1, c)'
<1>1. Len(log) \in Nat
  BY DEF TypeInv, TypeOK
<1>2. counted' = Count(c)
  BY AllowEffect, DenyEffect, FailEffect DEF GatewayStep
<1>3. /\ Gate(c) = "GATE3"
      /\ counted' = [counted EXCEPT ![call[c].action] = @ + 1]
  BY <1>2 DEF Count
<1>4. CASE GateAllows(c)
  <2>1. /\ Len(log') = Len(log) + 1
        /\ log'[Len(log) + 1] = [call |-> c, gate |-> "GATE3", decision |-> "ALLOW"]
    BY <1>3, <1>4, AllowEffect
  <2>2. Len(log) + 1 \in 1 .. Len(log') + 1 - 1
    BY <1>1, <2>1
  <2> QED
    BY <1>3, <2>1, <2>2 DEF CountedBy
<1>5. CASE GatewayFails(c)
  BY <1>3, <1>5, FailEffect DEF CountedBy
<1>6. CASE GateDenies(c)
  BY <1>6, DenyEffect
<1> QED
  BY <1>4, <1>5, <1>6 DEF GatewayStep

LEMMA GatewayAlone ==
  ASSUME Inv, Entered, Alone, NEW c \in 1 .. Len(call), GatewayStep(c)
  PROVE  Alone'
<1>1. TypeInv
  BY DEF Inv
<1>2. /\ UNCHANGED <<case, phase, start, end, crashed, results, call>>
      /\ verdict[c] = "open"
      /\ Len(log) \in Nat /\ Len(log') \in {Len(log), Len(log) + 1}
      /\ \A i \in 1 .. Len(log) : log'[i] = log[i]
      /\ Own(case)' = Own(case) /\ Judged' = Judged
  BY <1>1, GatewayKeeps
<1>3. NoCrash' = NoCrash
  BY <1>2 DEF NoCrash
<1>4. NoCrash => phase = "run" /\ c \in Own(case)
  BY <1>2, OpenIsOwn DEF Alone
<1>5. start \in Nat
  BY <1>1 DEF TypeInv, TypeOK
<1>6. Len(log') = Len(log) + 1 => log'[Len(log) + 1].call = c
  <2>1. \/ log' = log
        \/ \E d \in {"ALLOW", "DENY"} :
              log'[Len(log) + 1] = [call |-> c, gate |-> Gate(c), decision |-> d]
    BY <1>1, AllowEffect, DenyEffect, FailEffect DEF GatewayStep
  <2> QED
    BY <1>2, <2>1
<1>7. WindowIsOwn'
  <2> SUFFICES ASSUME NoCrash, AtRun, NEW i \in start + 1 .. Len(log')
               PROVE  call[log'[i].call].case = case
    BY <1>2, <1>3 DEF WindowIsOwn, AtRun
  <2>1. CASE i \in start + 1 .. Len(log)
    BY <1>2, <1>5, <2>1 DEF Alone, WindowIsOwn
  <2>2. CASE i = Len(log) + 1 /\ Len(log') = Len(log) + 1
    BY <1>4, <1>6, <2>2 DEF Own
  <2> QED
    BY <1>2, <1>5, <2>1, <2>2
<1>8. AbortedSettled'
  BY <1>2, <1>3, <1>4 DEF AbortedSettled
<1>9. CountedOwn'
  <2> SUFFICES ASSUME NoCrash, phase = "run", NEW a \in Actions
               PROVE  counted'[a] <= Cardinality(CountedCalls(a)')
    BY <1>2, <1>3, <1>4 DEF CountedOwn
  <2> DEFINE before == CountedCalls(a)
             after  == CountedCalls(a)'
  <2>1. /\ before = {d \in Own(case) : call[d].action = a /\ CountedBy(Len(log) + 1, d)}
        /\ after = {d \in Own(case) : call[d].action = a /\ CountedBy(Len(log) + 1, d)'}
    BY <1>2 DEF CountedCalls
  <2>2. IsFiniteSet(before) /\ IsFiniteSet(after)
    BY <1>1, <2>1, OwnFinite, FS_Subset
  <2>3. Cardinality(before) \in Nat /\ Cardinality(after) \in Nat
    BY <2>2, FS_CardinalityType
  <2>4. before \subseteq after
    <3> SUFFICES ASSUME NEW d \in Own(case), CountedBy(Len(log) + 1, d)
                 PROVE  CountedBy(Len(log) + 1, d)'
      BY <2>1
    <3>1. PICK n \in 1 .. Len(log) + 1 : n = Len(log) + 1
      BY <1>2
    <3>2. CountedBy(n, d)'
      BY <1>1, <3>1, CountedStays DEF Own
    <3> QED
      BY <1>2, <3>1, <3>2 DEF CountedBy
  <2>5. Cardinality(before) <= Cardinality(after)
    BY <2>2, <2>4, FS_Subset
  <2>6. counted \in [Actions -> Nat] /\ counted[a] <= Cardinality(before)
    BY <1>1 DEF Alone, CountedOwn, TypeInv, TypeOK
  <2>7. CASE counted'[a] = counted[a]
    BY <2>3, <2>5, <2>6, <2>7
  <2>8. CASE counted'[a] # counted[a]
    <3>1. /\ Gate(c) = "GATE3"
          /\ counted' = [counted EXCEPT ![call[c].action] = @ + 1]
          /\ CountedBy(Len(log) + 1, c)'
      BY <1>1, <2>8, CountOnce
    <3>2. call[c].action = a /\ counted'[a] = counted[a] + 1
      BY <2>6, <2>8, <3>1
    <3>3. c \notin before /\ c \in after
      BY <1>1, <1>2, <1>4, <2>1, <3>1, <3>2, NotCountedYet
    <3>4. before \cup {c} \subseteq after
      BY <2>4, <3>3
    <3>5. /\ IsFiniteSet(before \cup {c})
          /\ Cardinality(before \cup {c}) = Cardinality(before) + 1
      BY <2>2, <3>3, FS_AddElement
    <3>6. Cardinality(before \cup {c}) <= Cardinality(after)
      BY <2>2, <3>4, FS_Subset
    <3> QED
      BY <2>3, <2>6, <3>2, <3>5, <3>6
  <2> QED
    BY <2>7, <2>8
<1> QED
  BY <1>7, <1>8, <1>9 DEF Alone

(* A result stays exact as long as its case's calls stay as they are. *)
LEMMA ExactStays ==
  ASSUME NEW k, results'[k] = results[k],
         OwnWatched(k)' = OwnWatched(k), OwnWith(k, "allow")' = OwnWith(k, "allow"),
         Exact(k)
  PROVE  Exact(k)'
<1>1. ExactOutcome(k)' = ExactOutcome(k)
  BY Zenon DEF ExactOutcome
<1> QED
  BY <1>1 DEF Exact

LEMMA GatewayExact ==
  ASSUME Inv, VerdictIsExact, NEW c \in 1 .. Len(call), GatewayStep(c)
  PROVE  VerdictIsExact'
<1>1. TypeInv
  BY DEF Inv
<1>2. /\ UNCHANGED <<results, call>> /\ verdict[c] = "open"
      /\ \A d \in 1 .. Len(call) : d # c => verdict'[d] = verdict[d]
      /\ \A k : Own(k)' = Own(k)
      /\ Judged' = Judged
  BY <1>1, GatewayKeeps
<1> SUFFICES ASSUME NEW k \in Judged, \A j \in 1 .. k : ~results[j].crashed
             PROVE  Exact(k)'
  BY <1>2 DEF VerdictIsExact
<1>3. k \in Nat /\ k >= 1 /\ ~results[k].crashed
  <2>1. k \in Nat /\ k >= 1
    BY <1>1 DEF Judged, TypeInv, TypeOK
  <2> QED
    BY <2>1
<1>4. \A d \in Own(k) : verdict'[d] = verdict[d]
  <2>1. \A d \in Own(k) : Settled(d)
    BY <1>3 DEF Inv, JudgedSettled
  <2> QED
    BY <1>2, <2>1 DEF Settled, Own
<1>5. OwnWatched(k)' = OwnWatched(k)
  BY <1>2 DEF OwnWatched, Watched, Watches
<1>6. OwnWith(k, "allow")' = OwnWith(k, "allow")
  BY <1>4, <1>5 DEF OwnWith, OwnWatched
<1>7. Exact(k)
  BY DEF VerdictIsExact
<1>8. results'[k] = results[k]
  BY <1>2
<1> QED
  BY <1>5, <1>6, <1>7, <1>8, ExactStays

LEMMA GatewaySlate ==
  ASSUME Inv, Entered, Alone, CleanSlate, NEW c \in 1 .. Len(call), GatewayStep(c)
  PROVE  CleanSlate'
<1>1. TypeInv
  BY DEF Inv
<1>2. /\ UNCHANGED <<case, phase, start, end, crashed, results, call>>
      /\ verdict[c] = "open"
      /\ Len(log) \in Nat /\ Len(log') \in {Len(log), Len(log) + 1}
      /\ \A i \in 1 .. Len(log) : log'[i] = log[i]
      /\ \A k : Own(k)' = Own(k)
      /\ Judged' = Judged
  BY <1>1, GatewayKeeps
<1>3. NoCrash' = NoCrash
  BY <1>2 DEF NoCrash
<1> SUFFICES ASSUME NoCrash, NEW i \in 1 .. Len(log'),
                    log'[i].gate = "GATE3", log'[i].decision = "DENY"
             PROVE  Cardinality(CountedBefore(i)') >= Limits[call[log'[i].call].action]
  BY <1>2, <1>3 DEF CleanSlate
<1> DEFINE of    == call[log'[i].call]
           after == CountedBefore(i)'
<1>4. after = {d \in Own(of.case) : call[d].action = of.action /\ CountedBy(i, d)'}
  BY <1>2 DEF CountedBefore
<1>5. IsFiniteSet(after) /\ Cardinality(after) \in Nat
  BY <1>1, <1>4, OwnFinite, FS_Subset, FS_CardinalityType
<1>6. CASE i \in 1 .. Len(log)
  <2>1. log'[i] = log[i]
    BY <1>2, <1>6
  <2>2. CountedBefore(i) \subseteq after
    <3>1. i \in 1 .. Len(log) + 1
      BY <1>2, <1>6
    <3>2. \A d \in Own(of.case) : CountedBy(i, d) => CountedBy(i, d)'
      BY <1>1, <3>1, CountedStays DEF Own
    <3> QED
      BY <1>4, <2>1, <3>2 DEF CountedBefore
  <2>3. Cardinality(CountedBefore(i)) <= Cardinality(after)
    BY <1>5, <2>2, FS_Subset
  <2>4. IsFiniteSet(CountedBefore(i))
    BY <1>5, <2>2, FS_Subset
  <2>5. Cardinality(CountedBefore(i)) \in Nat
    BY <2>4, FS_CardinalityType
  <2>6. Cardinality(CountedBefore(i)) >= Limits[of.action]
    BY <1>6, <2>1 DEF CleanSlate
  <2>7. of.action \in Actions
    <3>1. log[i].call \in 1 .. Len(call)
      BY <1>6 DEF Entered, EntriesOfCalls
    <3>2. call[log[i].call] \in CallType
      BY <1>1, <3>1 DEF TypeInv, TypeOK
    <3> QED
      BY <2>1, <3>2 DEF CallType
  <2>8. Limits[of.action] \in Nat
    BY <2>7, LimitsAssumption
  <2> HIDE DEF of, after
  <2>9. Cardinality(after) >= Limits[of.action]
    BY <1>5, <2>3, <2>5, <2>6, <2>8
  <2> QED
    BY <2>9 DEF of, after
<1>7. CASE i = Len(log) + 1 /\ Len(log') = Len(log) + 1
  <2>1. GateDenies(c) /\ log'[i] = [call |-> c, gate |-> Gate(c), decision |-> "DENY"]
    <3>1. CASE GateAllows(c)
      <4>1. log'[i] = [call |-> c, gate |-> Gate(c), decision |-> "ALLOW"]
        BY <1>1, <1>7, <3>1, AllowEffect
      <4> QED
        BY <4>1
    <3>2. CASE GateDenies(c)
      BY <1>1, <1>7, <3>2, DenyEffect
    <3>3. CASE GatewayFails(c)
      BY <1>1, <1>2, <1>7, <3>3, FailEffect
    <3> QED
      BY <3>1, <3>2, <3>3 DEF GatewayStep
  <2>2. Gate(c) = "GATE3" /\ of = call[c]
    BY <2>1
  <2>3. phase = "run" /\ c \in Own(case) /\ call[c].case = case
    BY <1>2, OpenIsOwn DEF Alone, Own
  <2>4. call[c].action \in Actions
    BY <1>1, <1>2, OpenCall DEF Undecided
  <2>5. counted[call[c].action] >= Limits[call[c].action]
    <3>1. ~BelowLimit(c)
      BY <1>1, <2>1, <2>2, DenyEffect
    <3>2. counted[call[c].action] \in Nat /\ Limits[call[c].action] \in Nat
      BY <1>1, <2>4, LimitsAssumption DEF TypeInv, TypeOK
    <3> QED
      BY <3>1, <3>2 DEF BelowLimit
  <2>6. counted[call[c].action] <= Cardinality(CountedCalls(call[c].action))
    BY <2>3, <2>4 DEF Alone, CountedOwn
  <2>7. CountedCalls(call[c].action) \subseteq after
    <3>1. \A d \in Own(case) : CountedBy(i, d) => CountedBy(i, d)'
      <4>1. i \in 1 .. Len(log) + 1
        BY <1>2, <1>7
      <4> QED
        BY <1>1, <4>1, CountedStays DEF Own
    <3> QED
      BY <1>4, <1>7, <2>2, <2>3, <3>1 DEF CountedCalls
  <2>8. /\ IsFiniteSet(CountedCalls(call[c].action))
        /\ Cardinality(CountedCalls(call[c].action)) <= Cardinality(after)
    BY <1>5, <2>7, FS_Subset
  <2>9. Cardinality(CountedCalls(call[c].action)) \in Nat
    BY <2>8, FS_CardinalityType
  <2>10. Limits[call[c].action] \in Nat /\ counted[call[c].action] \in Nat
    BY <1>1, <2>4, LimitsAssumption DEF TypeInv, TypeOK
  <2> HIDE DEF of, after
  <2>11. Cardinality(after) >= Limits[of.action]
    BY <1>5, <2>2, <2>5, <2>6, <2>8, <2>9, <2>10
  <2> QED
    BY <2>11 DEF of, after
<1> QED
  BY <1>2, <1>6, <1>7

----------------------------------------------------------------------------
(* The steps of the agent and the harness. *)

LEMMA CallExact ==
  ASSUME Inv, ExactInv, CallTool
  PROVE  ExactInv'
<1>1. TypeInv /\ TypeInv'
  BY CallTypes DEF Inv
<1>2. PICK r \in Requests :
        call' = Append(call, [case |-> case, action |-> r[1], resource |-> r[2]])
  BY DEF CallTool
<1>3. /\ phase = "run" /\ case \in Cases
      /\ UNCHANGED <<case, phase, start, end, crashed, results, log, counted>>
      /\ verdict' = Append(verdict, "open") /\ next' = Append(next, 1)
      /\ call \in Seq(CallType) /\ Len(call) \in Nat
      /\ verdict \in Seq(Verdicts) /\ Len(verdict) = Len(call)
      /\ next \in Seq(1 .. Last + 1) /\ Len(next) = Len(call)
  BY <1>1 DEF CallTool, TypeInv, TypeOK, Running, harness
<1>4. PICK n : n = Len(call) + 1
  OBVIOUS
<1>5. /\ Len(call') = n /\ call'[n].case = case /\ verdict'[n] = "open"
      /\ \A d \in 1 .. Len(call) : /\ call'[d] = call[d] /\ verdict'[d] = verdict[d]
                                   /\ next'[d] = next[d]
  BY <1>2, <1>3, <1>4
<1>6. \A d : d \in 1 .. Len(call') <=> d \in 1 .. Len(call) \/ d = n
  BY <1>3, <1>4, <1>5
<1>7. \A k : Own(k) \subseteq Own(k)'
  BY <1>5, <1>6 DEF Own
<1>8. Judged' = Judged /\ \A k \in Judged : k # case
  BY <1>1, <1>3 DEF Judged, TypeInv, TypeOK, Cases
<1>9. \A k \in Judged : Own(k)' = Own(k)
  BY <1>5, <1>6, <1>8 DEF Own
<1>10. \A i \in 1 .. Len(log) : log[i].call \in 1 .. Len(call)
  BY DEF ExactInv, Entered, EntriesOfCalls
<1>11. \A i, d : d \in 1 .. Len(call) /\ CountedBy(i, d) => CountedBy(i, d)'
  BY <1>3, <1>5 DEF CountedBy
<1>12. NoCrash' = NoCrash
  BY <1>3, <1>8 DEF NoCrash
<1>13. Entered'
  <2>1. EntriesOfCalls'
    BY <1>3, <1>6, <1>10 DEF EntriesOfCalls
  <2>2. ClosedAreAnswered'
    BY <1>3, <1>5, <1>10 DEF ExactInv, Entered, ClosedAreAnswered
  <2>3. PassedGates'
    BY <1>3, <1>5, <1>10 DEF ExactInv, Entered, PassedGates
  <2> QED
    BY <2>1, <2>2, <2>3 DEF Entered
<1>14. Denied'
  <2>1. DeniedInWindow'
    BY <1>3 DEF DeniedInWindow
  <2>2. ASSUME NEW d \in Own(case)', verdict'[d] = "deny"
        PROVE  d \in Own(case) /\ verdict[d] = "deny"
    <3>1. d \in 1 .. Len(call') /\ call'[d].case = case
      BY <1>3, <2>2 DEF Own
    <3>2. d # n
      BY <1>5, <2>2
    <3>3. d \in 1 .. Len(call)
      BY <1>6, <3>1, <3>2
    <3> QED
      BY <1>5, <2>2, <3>1, <3>3 DEF Own
  <2>3. DeniedLogged'
    BY <1>3, <2>2 DEF ExactInv, Denied, DeniedLogged, AtRun, Denial
  <2> QED
    BY <2>1, <2>3 DEF Denied
<1>15. Alone'
  <2>1. WindowIsOwn'
    <3>1. \A i \in start + 1 .. Len(log) : i \in 1 .. Len(log)
      BY <1>1 DEF TypeInv, TypeOK
    <3> QED
      BY <1>3, <1>5, <1>10, <1>12, <3>1 DEF ExactInv, Alone, WindowIsOwn, AtRun
  <2>2. AbortedSettled'
    BY <1>3 DEF AbortedSettled
  <2>3. CountedOwn'
    <3> SUFFICES ASSUME NoCrash, NEW a \in Actions
                 PROVE  counted[a] <= Cardinality(CountedCalls(a)')
      BY <1>3, <1>12 DEF CountedOwn
    <3>1. CountedCalls(a) \subseteq CountedCalls(a)'
      <4> SUFFICES ASSUME NEW d \in Own(case), call[d].action = a,
                          CountedBy(Len(log) + 1, d)
                   PROVE  d \in CountedCalls(a)'
        BY DEF CountedCalls
      <4>1. d \in 1 .. Len(call) /\ d \in Own(case)' /\ call'[d].action = a
        BY <1>3, <1>5, <1>7 DEF Own
      <4>2. CountedBy(Len(log) + 1, d)'
        BY <1>3, <1>5, <4>1 DEF CountedBy
      <4> QED
        BY <1>3, <4>1, <4>2 DEF CountedCalls
    <3>2. IsFiniteSet(Own(case)')
      BY <1>1, OwnFiniteNext
    <3>3. CountedCalls(a)' \subseteq Own(case)'
      BY DEF CountedCalls
    <3>4. IsFiniteSet(CountedCalls(a)') /\ IsFiniteSet(CountedCalls(a))
      BY <3>1, <3>2, <3>3, FS_Subset
    <3>5. Cardinality(CountedCalls(a)) <= Cardinality(CountedCalls(a)')
      BY <3>1, <3>4, FS_Subset
    <3>6. /\ Cardinality(CountedCalls(a)) \in Nat
          /\ Cardinality(CountedCalls(a)') \in Nat
      BY <3>4, FS_CardinalityType
    <3>7. counted[a] \in Nat /\ counted[a] <= Cardinality(CountedCalls(a))
      BY <1>1, <1>3 DEF ExactInv, Alone, CountedOwn, TypeInv, TypeOK
    <3> QED
      BY <3>5, <3>6, <3>7
  <2> QED
    BY <2>1, <2>2, <2>3 DEF Alone
<1>16. VerdictIsExact'
  <2> SUFFICES ASSUME NEW k \in Judged, \A j \in 1 .. k : ~results[j].crashed
               PROVE  Exact(k)'
    BY <1>3, <1>8 DEF VerdictIsExact
  <2>1. \A d \in Own(k) : d \in 1 .. Len(call) /\ call'[d] = call[d] /\ verdict'[d] = verdict[d]
    BY <1>5 DEF Own
  <2>2. OwnWatched(k)' = OwnWatched(k)
    BY <1>9, <2>1 DEF OwnWatched, Watched, Watches
  <2>3. OwnWith(k, "allow")' = OwnWith(k, "allow")
    BY <2>1, <2>2 DEF OwnWith, OwnWatched
  <2>4. Exact(k)
    BY DEF ExactInv, VerdictIsExact
  <2> QED
    BY <1>3, <2>2, <2>3, <2>4, ExactStays
<1>17. CleanSlate'
  <2> SUFFICES ASSUME NoCrash, NEW i \in 1 .. Len(log),
                      log[i].gate = "GATE3", log[i].decision = "DENY"
               PROVE  Cardinality(CountedBefore(i)') >= Limits[call'[log[i].call].action]
    BY <1>3, <1>12 DEF CleanSlate
  <2>1. log[i].call \in 1 .. Len(call) /\ call'[log[i].call] = call[log[i].call]
    BY <1>5, <1>10
  <2>2. CountedBefore(i) \subseteq CountedBefore(i)'
    <3>1. \A d \in Own(call[log[i].call].case) :
             d \in 1 .. Len(call) /\ call'[d] = call[d]
      BY <1>5 DEF Own
    <3> QED
      BY <1>3, <1>7, <1>11, <2>1, <3>1 DEF CountedBefore
  <2>3. CountedBefore(i)' \subseteq Own(call[log[i].call].case)'
    BY <1>3, <2>1 DEF CountedBefore
  <2>4. IsFiniteSet(Own(call[log[i].call].case)')
    BY <1>1, OwnFiniteNext
  <2>5. IsFiniteSet(CountedBefore(i)')
    BY <2>3, <2>4, FS_Subset
  <2>6. /\ IsFiniteSet(CountedBefore(i))
        /\ Cardinality(CountedBefore(i)) <= Cardinality(CountedBefore(i)')
    BY <2>2, <2>5, FS_Subset
  <2>7. /\ Cardinality(CountedBefore(i)) \in Nat
        /\ Cardinality(CountedBefore(i)') \in Nat
    BY <2>5, <2>6, FS_CardinalityType
  <2>8. Cardinality(CountedBefore(i)) >= Limits[call[log[i].call].action]
    BY DEF ExactInv, CleanSlate
  <2>9. call[log[i].call].action \in Actions
    <3>1. call[log[i].call] \in CallType
      BY <1>3, <2>1
    <3> QED
      BY <3>1 DEF CallType
  <2>10. Limits[call[log[i].call].action] \in Nat
    BY <2>9, LimitsAssumption
  <2> QED
    BY <2>1, <2>6, <2>7, <2>8, <2>10
<1> QED
  BY <1>13, <1>14, <1>15, <1>16, <1>17 DEF ExactInv

(* At the end of a run that did not crash, the entries of the window that  *)
(* match are those of the case's own watched calls, each of them answered. *)
LEMMA WindowExact ==
  ASSUME Inv, ExactInv, NoCrash, phase = "judge"
  PROVE  /\ Requested(Relevant(case)) = OwnWatched(case)
         /\ AllowedIn(Relevant(case)) = OwnWith(case, "allow")
         /\ Succeeded(Relevant(case)) <=> OwnWith(case, "allow") # {}
         /\ Relevant(case) = {} <=> OwnWatched(case) = {}
         /\ OwnWatched(case) # {} /\ OwnWith(case, "allow") = {} => Blocked(Relevant(case))
<1> DEFINE entries == Relevant(case)
<1>1. /\ start \in Nat /\ end \in Nat /\ start <= Len(log) /\ end <= Len(log)
      /\ Len(log) \in Nat
  BY DEF Inv, TypeInv, TypeOK
<1>2. ASSUME NEW e \in entries
      PROVE  /\ e.call \in OwnWatched(case)
             /\ e.gate = "ALL_GATES" => verdict[e.call] = "allow"
  <2>1. PICK i \in start + 1 .. end : e = log[i]
    BY <1>2 DEF Relevant, Window
  <2>2. i \in 1 .. Len(log) /\ i \in start + 1 .. Len(log)
    BY <1>1, <2>1
  <2>3. e.call \in 1 .. Len(call)
    BY <2>1, <2>2 DEF ExactInv, Entered, EntriesOfCalls
  <2>4. call[e.call].case = case
    BY <2>1, <2>2 DEF ExactInv, Alone, WindowIsOwn, AtRun
  <2>5. e.call \in Own(case) /\ Watched(case, e.call)
    BY <1>2, <2>3, <2>4 DEF Own, Relevant
  <2>6. Settled(e.call)
    BY <2>5 DEF Inv, SettledAtEnd, NoCrash
  <2>7. e.gate = "ALL_GATES" => verdict[e.call] \in {"allow", "error"}
    BY <2>1, <2>2 DEF ExactInv, Entered, ClosedAreAnswered
  <2> QED
    BY <2>5, <2>6, <2>7 DEF OwnWatched, Settled
<1>3. ASSUME NEW c \in OwnWatched(case), verdict[c] = "allow"
      PROVE  Closing(c) \in entries
  <2>1. Closing(c) \in Window
    BY <1>3 DEF Inv, AllowedInWindow, NoCrash, OwnWatched
  <2> QED
    BY <2>1 DEF Relevant, Closing, OwnWatched
<1>4. ASSUME NEW c \in OwnWatched(case), verdict[c] # "allow"
      PROVE  \E e \in entries : Denial(e, c)
  <2>1. Settled(c)
    BY DEF Inv, SettledAtEnd, NoCrash, OwnWatched
  <2>2. verdict[c] = "deny"
    BY <1>4, <2>1 DEF Settled
  <2>3. PICK e \in Window : Denial(e, c)
    BY <2>2 DEF ExactInv, Denied, DeniedInWindow, NoCrash, OwnWatched
  <2> QED
    BY <2>3 DEF Relevant, Denial, OwnWatched
<1>5. ASSUME NEW c \in OwnWatched(case)
      PROVE  \E e \in entries : e.call = c
  BY <1>3, <1>4 DEF Closing, Denial
<1> HIDE DEF entries
<1>6. Requested(entries) = OwnWatched(case)
  BY <1>2, <1>5 DEF Requested
<1>7. AllowedIn(entries) = OwnWith(case, "allow")
  <2>1. ASSUME NEW c \in AllowedIn(entries)
        PROVE  c \in OwnWith(case, "allow")
    <3>1. PICK e \in entries : e.call = c /\ e.gate = "ALL_GATES"
      BY <2>1 DEF AllowedIn, Succeeded
    <3> QED
      BY <1>2, <3>1 DEF OwnWith
  <2>2. ASSUME NEW c \in OwnWith(case, "allow")
        PROVE  c \in AllowedIn(entries)
    <3>1. c \in OwnWatched(case) /\ verdict[c] = "allow"
      BY DEF OwnWith
    <3>2. Closing(c) \in entries
      BY <1>3, <3>1
    <3> QED
      BY <1>6, <3>1, <3>2 DEF AllowedIn, Succeeded, Closing
  <2> QED
    BY <2>1, <2>2
<1>8. Succeeded(entries) <=> AllowedIn(entries) # {}
  BY DEF Succeeded, AllowedIn, Requested
<1>9. entries = {} <=> OwnWatched(case) = {}
  BY <1>2, <1>5
<1>10. OwnWatched(case) # {} /\ OwnWith(case, "allow") = {} => Blocked(entries)
  BY <1>4 DEF OwnWith, Blocked, Denial
<1> QED
  BY <1>6, <1>7, <1>8, <1>9, <1>10 DEF entries

(* What determine_outcome and summarize_attempts then make of them. *)
LEMMA ResultExact ==
  ASSUME Inv, ExactInv, NoCrash, phase = "judge"
  PROVE  LET r == Result(case, Relevant(case))
         IN  /\ r.outcome = ExactOutcome(case)
             /\ r.attempts = Cardinality(OwnWatched(case))
             /\ r.allowed = Cardinality(OwnWith(case, "allow"))
<1> DEFINE entries == Relevant(case)
<1>1. /\ Requested(entries) = OwnWatched(case)
      /\ AllowedIn(entries) = OwnWith(case, "allow")
      /\ Succeeded(entries) <=> OwnWith(case, "allow") # {}
      /\ entries = {} <=> OwnWatched(case) = {}
      /\ OwnWatched(case) # {} /\ OwnWith(case, "allow") = {} => Blocked(entries)
  BY WindowExact
<1>2. Result(case, entries).outcome = Outcome(case, entries)
  BY DEF Result
<1>3. Result(case, entries).attempts = Cardinality(OwnWatched(case))
  BY <1>1 DEF Result
<1>4. Result(case, entries).allowed = Cardinality(OwnWith(case, "allow"))
  BY <1>1 DEF Result
<1>5. OwnWith(case, "allow") # {} => OwnWatched(case) # {}
  BY DEF OwnWith
<1> HIDE DEF entries
<1>6. Outcome(case, entries) = ExactOutcome(case)
  <2>1. CASE Corpus[case].expectAllow
    BY Zenon, <1>1, <2>1 DEF Outcome, ExactOutcome
  <2>2. CASE ~Corpus[case].expectAllow /\ OwnWith(case, "allow") # {}
    BY Zenon, <1>1, <1>5, <2>2 DEF Outcome, ExactOutcome
  <2>3. CASE ~Corpus[case].expectAllow /\ OwnWith(case, "allow") = {} /\ OwnWatched(case) = {}
    BY Zenon, <1>1, <2>3 DEF Outcome, ExactOutcome
  <2>4. CASE ~Corpus[case].expectAllow /\ OwnWith(case, "allow") = {} /\ OwnWatched(case) # {}
    BY Zenon, <1>1, <2>4 DEF Outcome, ExactOutcome
  <2> QED
    BY <2>1, <2>2, <2>3, <2>4
<1> QED
  BY <1>2, <1>3, <1>4, <1>6 DEF entries

LEMMA JudgeExact ==
  ASSUME Inv, ExactInv, Judge
  PROVE  ExactInv'
<1> DEFINE r == Result(case, Relevant(case))
<1>1. /\ phase = "judge" /\ case \in Cases /\ case \in Nat /\ case >= 1
      /\ phase' \in {"reset", "done"} /\ crashed' = FALSE
      /\ UNCHANGED <<call, next, verdict, counted, log>>
      /\ results' = Append(results, r)
      /\ results \in Seq(Results) /\ Len(results) = case - 1
  BY DEF Judge, Inv, TypeInv, TypeOK, Running, gateway, Cases
<1>2. /\ Judged' = Judged \cup {case} /\ Judged = 1 .. case - 1
      /\ results'[case] = r
      /\ \A k \in Judged : results'[k] = results[k]
  BY <1>1 DEF Judged
<1>3. r.crashed = crashed
  BY DEF Result
<1>4. \A k : /\ OwnWatched(k)' = OwnWatched(k) /\ Own(k)' = Own(k)
             /\ OwnWith(k, "allow")' = OwnWith(k, "allow")
  BY <1>1 DEF Own, OwnWith, OwnWatched, Watched, Watches
<1> HIDE DEF r
<1>5. Entered'
  <2>1. EntriesOfCalls'
    BY <1>1 DEF ExactInv, Entered, EntriesOfCalls
  <2>2. ClosedAreAnswered'
    BY <1>1 DEF ExactInv, Entered, ClosedAreAnswered
  <2>3. PassedGates'
    BY <1>1 DEF ExactInv, Entered, PassedGates
  <2> QED
    BY <2>1, <2>2, <2>3 DEF Entered
<1>6. Denied'
  BY <1>1 DEF Denied, DeniedLogged, DeniedInWindow, AtRun
<1>7. Alone'
  BY <1>1 DEF Alone, WindowIsOwn, AbortedSettled, CountedOwn, AtRun
<1>8. VerdictIsExact'
  <2> SUFFICES ASSUME NEW k \in Judged', \A j \in 1 .. k : ~results'[j].crashed
               PROVE  Exact(k)'
    BY DEF VerdictIsExact
  <2>1. CASE k \in Judged
    <3>1. \A j \in 1 .. k : j \in Judged
      BY <1>1, <1>2, <2>1
    <3>2. Exact(k)
      BY <1>2, <2>1, <3>1 DEF ExactInv, VerdictIsExact
    <3> QED
      BY <1>2, <1>4, <2>1, <3>2, ExactStays
  <2>2. CASE k = case
    <3>1. \A j \in 1 .. case : j \in Judged \/ j = case
      BY <1>1, <1>2
    <3>2. \A j \in Judged : j \in 1 .. case
      BY <1>1, <1>2
    <3>3. case \in 1 .. case
      BY <1>1
    <3>4. NoCrash
      BY <1>2, <1>3, <2>2, <3>2, <3>3 DEF NoCrash
    <3>5. /\ r.outcome = ExactOutcome(case)
          /\ r.attempts = Cardinality(OwnWatched(case))
          /\ r.allowed = Cardinality(OwnWith(case, "allow"))
      BY <1>1, <3>4, ResultExact DEF r
    <3>6. /\ OwnWatched(k)' = OwnWatched(case)
          /\ OwnWith(k, "allow")' = OwnWith(case, "allow")
          /\ results'[k] = r
      BY <1>2, <1>4, <2>2
    <3>7. ExactOutcome(k)' = ExactOutcome(case)
      BY Zenon, <2>2, <3>6 DEF ExactOutcome
    <3> QED
      BY <3>5, <3>6, <3>7 DEF Exact
  <2> QED
    BY <1>2, <2>1, <2>2
<1>9. CleanSlate'
  <2>1. NoCrash' => NoCrash
    BY <1>2, <1>3 DEF NoCrash
  <2>2. \A i : CountedBefore(i)' = CountedBefore(i)
    BY <1>1, <1>4 DEF CountedBefore, CountedBy
  <2> QED
    BY <1>1, <2>1, <2>2 DEF ExactInv, CleanSlate
<1> QED
  BY <1>5, <1>6, <1>7, <1>8, <1>9 DEF ExactInv

(* The other steps of the harness. *)
LEMMA PhaseExact ==
  ASSUME Inv, ExactInv,
         UNCHANGED <<case, results, call, next, verdict, log>>,
         \/ Reset \/ OpenSession \/ Returns \/ Raises \/ ReadEnd \/ Abort
         \/ WindowSlides \/ UNCHANGED vars
  PROVE  ExactInv'
<1>1. \A k : /\ Own(k)' = Own(k) /\ OwnWatched(k)' = OwnWatched(k)
             /\ OwnWith(k, "allow")' = OwnWith(k, "allow")
  BY DEF Own, OwnWith, OwnWatched, Watched, Watches
<1>2. Judged' = Judged
  BY DEF Judged
<1>3. \A i, c : CountedBy(i, c)' = CountedBy(i, c)
  BY DEF CountedBy
<1>4. crashed => crashed'
  BY DEF Reset, OpenSession, Returns, Raises, ReadEnd, Abort, WindowSlides, vars, harness
<1>5. NoCrash' => NoCrash
  BY <1>2, <1>4 DEF NoCrash
<1>6. Entered'
  <2>1. EntriesOfCalls'
    BY DEF ExactInv, Entered, EntriesOfCalls
  <2>2. ClosedAreAnswered'
    BY DEF ExactInv, Entered, ClosedAreAnswered
  <2>3. PassedGates'
    BY DEF ExactInv, Entered, PassedGates
  <2> QED
    BY <2>1, <2>2, <2>3 DEF Entered
<1>7. Denied' /\ WindowIsOwn' /\ AbortedSettled'
  <2>1. CASE Reset
    BY <2>1 DEF Reset, Denied, DeniedLogged, DeniedInWindow, WindowIsOwn, AbortedSettled, AtRun
  <2>2. CASE OpenSession
    <3>1. Own(case) = {}
      BY <2>2 DEF OpenSession, Inv, CallsBelong, Own
    <3>2. start' = Len(log) /\ phase' = "run" /\ Len(log) \in Nat
      BY <2>2 DEF OpenSession, Inv, TypeInv, TypeOK
    <3>3. start' + 1 .. Len(log') = {}
      BY <3>2
    <3>4. Denied'
      BY <1>1, <3>1, <3>2 DEF Denied, DeniedLogged, DeniedInWindow
    <3> QED
      BY <3>2, <3>3, <3>4 DEF WindowIsOwn, AbortedSettled
  <2>3. CASE Returns \/ Raises
    <3>1. phase = "run" /\ phase' = "ended" /\ start' = start
      BY <2>3 DEF Returns, Raises
    <3>2. Denied'
      BY <1>1, <3>1 DEF ExactInv, Denied, DeniedLogged, DeniedInWindow, AtRun, Denial
    <3> QED
      BY <1>5, <3>1, <3>2 DEF ExactInv, Alone, WindowIsOwn, AbortedSettled, AtRun
  <2>4. CASE ReadEnd
    <3>1. /\ phase = "ended" /\ phase' = "judge" /\ start' = start /\ crashed' = crashed
          /\ end' = Len(log)
      BY <2>4 DEF ReadEnd
    <3>2. DeniedLogged'
      BY <1>1, <3>1 DEF ExactInv, Denied, DeniedLogged, AtRun, Denial
    <3>3. Window' = {log[i] : i \in start + 1 .. Len(log)}
      BY <3>1 DEF Window
    <3>4. DeniedInWindow'
      BY <1>1, <3>1, <3>3 DEF ExactInv, Denied, DeniedLogged, DeniedInWindow, AtRun, Denial
    <3> QED
      BY <1>5, <3>1, <3>2, <3>4
         DEF ExactInv, Alone, Denied, WindowIsOwn, AbortedSettled, AtRun
  <2>5. CASE Abort
    <3>1. phase \in {"reset", "session", "judge"} /\ phase' = "aborted"
      BY <2>5 DEF Abort
    <3>2. Denied' /\ WindowIsOwn'
      BY <3>1 DEF Denied, DeniedLogged, DeniedInWindow, WindowIsOwn, AtRun
    <3>3. ASSUME NoCrash, NEW c \in 1 .. Len(call)
          PROVE  Settled(c)
      <4>1. phase # "run"
        BY <3>1
      <4>2. verdict[c] # "open"
        BY <3>3, <4>1, OpenIsOwn DEF ExactInv, Alone
      <4>3. CASE call[c].case = case
        <5>1. c \in Own(case) /\ phase = "judge"
          BY <3>1, <4>3 DEF Own, Inv, CallsBelong
        <5> QED
          BY <3>3, <5>1 DEF Inv, SettledAtEnd, NoCrash
      <4>4. CASE call[c].case # case
        <5>1. call[c] \in CallType /\ Len(results) = case - 1 /\ case \in Nat
          BY DEF Inv, TypeInv, TypeOK
        <5>2. call[c].case \in Nat /\ call[c].case >= 1 /\ call[c].case <= case
          BY <5>1 DEF CallType, Cases, Inv, CallsBelong
        <5>3. call[c].case \in Judged /\ c \in Own(call[c].case)
          BY <4>4, <5>1, <5>2 DEF Judged, Own
        <5> QED
          BY <3>3, <5>3 DEF Inv, JudgedSettled, NoCrash
      <4> QED
        BY <4>3, <4>4
    <3>4. AbortedSettled'
      BY <1>5, <3>3 DEF AbortedSettled, Settled
    <3> QED
      BY <3>2, <3>4
  <2>6. CASE WindowSlides \/ UNCHANGED vars
    <3>1. UNCHANGED <<phase, start, end, crashed>>
      BY <2>6 DEF WindowSlides, vars, harness
    <3>2. Denied'
      BY <1>1, <3>1
         DEF ExactInv, Denied, DeniedLogged, DeniedInWindow, AtRun, Denial, Window
    <3>3. WindowIsOwn'
      BY <1>5, <3>1 DEF ExactInv, Alone, WindowIsOwn, AtRun
    <3>4. AbortedSettled'
      BY <1>5, <3>1 DEF ExactInv, Alone, AbortedSettled, Settled
    <3> QED
      BY <3>2, <3>3, <3>4
  <2> QED
    BY <2>1, <2>2, <2>3, <2>4, <2>5, <2>6
<1>8. CountedOwn'
  <2> SUFFICES ASSUME NoCrash', phase' \in {"session", "run"}, NEW a \in Actions
               PROVE  counted'[a] <= Cardinality(CountedCalls(a)')
    BY DEF CountedOwn
  <2>1. CountedCalls(a)' = CountedCalls(a)
    BY <1>1, <1>3 DEF CountedCalls
  <2>2. IsFiniteSet(CountedCalls(a)) /\ Cardinality(CountedCalls(a)) \in Nat
    <3>1. CountedCalls(a) \subseteq Own(case)
      BY DEF CountedCalls
    <3> QED
      BY <3>1, OwnFinite, FS_Subset, FS_CardinalityType DEF Inv
  <2>3. counted \in [Actions -> Nat]
    BY DEF Inv, TypeInv, TypeOK
  <2>4. CASE Reset
    <3>1. counted'[a] = 0
      BY <2>4 DEF Reset
    <3> QED
      BY <2>1, <2>2, <3>1
  <2>5. CASE ~Reset
    <3>1. /\ phase \in {"session", "run"}
          /\ \/ counted' = counted
             \/ \E b \in Actions : counted[b] > 0 /\ counted' = [counted EXCEPT ![b] = @ - 1]
      BY <2>5 DEF OpenSession, Returns, Raises, ReadEnd, Abort, WindowSlides, vars,
                  harness, gateway
    <3>2. counted'[a] <= counted[a] /\ counted'[a] \in Nat
      BY <2>3, <3>1
    <3>3. counted[a] <= Cardinality(CountedCalls(a))
      BY <1>5, <3>1 DEF ExactInv, Alone, CountedOwn
    <3> QED
      BY <2>1, <2>2, <2>3, <3>2, <3>3
  <2> QED
    BY <2>4, <2>5
<1>9. VerdictIsExact'
  <2> SUFFICES ASSUME NEW k \in Judged, \A j \in 1 .. k : ~results[j].crashed
               PROVE  Exact(k)'
    BY <1>2 DEF VerdictIsExact
  <2>1. Exact(k)
    BY DEF ExactInv, VerdictIsExact
  <2> QED
    BY <1>1, <2>1, ExactStays
<1>10. CleanSlate'
  <2>1. \A i : CountedBefore(i)' = CountedBefore(i)
    BY <1>1, <1>3 DEF CountedBefore
  <2> QED
    BY <1>5, <2>1 DEF ExactInv, CleanSlate
<1> QED
  BY <1>6, <1>7, <1>8, <1>9, <1>10 DEF ExactInv, Alone

----------------------------------------------------------------------------

LEMMA InitExact == Init => ExactInv
<1> SUFFICES ASSUME Init PROVE ExactInv
  OBVIOUS
<1>1. call = <<>> /\ log = <<>> /\ results = <<>> /\ phase = "reset"
  BY DEF Init
<1>2. 1 .. Len(log) = {} /\ Judged = {}
  BY <1>1 DEF Judged
<1>3. Entered
  BY <1>2 DEF Entered, EntriesOfCalls, ClosedAreAnswered, PassedGates
<1>4. Denied /\ Alone
  BY <1>1 DEF Denied, DeniedLogged, DeniedInWindow, Alone, WindowIsOwn, AbortedSettled,
              CountedOwn, AtRun
<1>5. VerdictIsExact /\ CleanSlate
  BY <1>2 DEF VerdictIsExact, CleanSlate
<1> QED
  BY <1>3, <1>4, <1>5 DEF ExactInv

LEMMA NextExact == Inv /\ ExactInv /\ [Next]_vars => ExactInv'
<1> SUFFICES ASSUME Inv, ExactInv, [Next]_vars PROVE ExactInv'
  OBVIOUS
<1>1. TypeInv
  BY DEF Inv
<1>2. ASSUME NEW c \in 1 .. Len(call), GatewayStep(c)
      PROVE  ExactInv'
  BY <1>1, <1>2, GatewayEntered, GatewayDenied, GatewayAlone, GatewayExact, GatewaySlate
     DEF ExactInv
<1>3. CASE CallTool
  BY <1>3, CallExact
<1>4. CASE Judge
  BY <1>4, JudgeExact
<1>5. CASE \/ Reset \/ OpenSession \/ Returns \/ Raises \/ ReadEnd \/ Abort
           \/ WindowSlides \/ UNCHANGED vars
  <2>1. UNCHANGED <<case, results, call, next, verdict, log>>
    BY <1>5 DEF Reset, OpenSession, Returns, Raises, ReadEnd, Abort, WindowSlides,
                vars, harness, gateway
  <2> QED
    BY <1>5, <2>1, PhaseExact
<1> QED
  BY <1>2, <1>3, <1>4, <1>5 DEF Next, GatewayStep

(* As long as no run has crashed, every verdict and both counts are those  *)
(* of the case's own watched calls.                                        *)
THEOREM VerdictsAreExact == Spec => []VerdictIsExact
<1>1. ExactInv => VerdictIsExact
  BY DEF ExactInv
<1> QED
  BY InitInv, NextInv, InitExact, NextExact, <1>1, PTL DEF Spec

(* As long as no run has crashed, Gate 3 denies a call only after the same *)
(* case has had the limit of calls of that action counted.                 *)
THEOREM SlateIsClean == Spec => []CleanSlate
<1>1. ExactInv => CleanSlate
  BY DEF ExactInv
<1> QED
  BY InitInv, NextInv, InitExact, NextExact, <1>1, PTL DEF Spec
=============================================================================
