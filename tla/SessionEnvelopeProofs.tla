----------------------- MODULE SessionEnvelopeProofs -----------------------
(***************************************************************************)
(* Proofs about Gate 3's store for any threads, callers, thresholds and    *)
(* lag: the rolling limit, the limit over past periods shortened by the    *)
(* lag, and that every denial is justified by the caller's own calls.      *)
(***************************************************************************)
EXTENDS SessionEnvelope, FiniteSetTheorems, TLAPS

LEMMA LimitAndWindow ==
  ASSUME NEW c \in Callers
  PROVE  Limit(c) \in Nat /\ Window(c) \in Nat
BY ThresholdsAssumption DEF Limit, Window, Threshold, ThresholdType

LEMMA KeyInjective ==
  ASSUME NEW c \in Callers, NEW d \in Callers, Key(c) = Key(d)
  PROVE  c = d
BY CallersAssumption DEF Key

LEMMA KeyInKeys == \A c \in Callers : Key(c) \in Keys
BY DEF Keys

(* Of two finite sets, the smaller has no more elements. *)
LEMMA SubsetCardinality ==
  ASSUME NEW S, IsFiniteSet(S), NEW R \in SUBSET S
  PROVE  /\ IsFiniteSet(R)
         /\ Cardinality(R) \in Nat /\ Cardinality(S) \in Nat
         /\ Cardinality(R) <= Cardinality(S)
BY FS_Subset, FS_CardinalityType

(***************************************************************************)
(* The inductive invariant.  A thread on its way to the lock holds a stamp *)
(* no older than the lag.  The store holds admitted calls only, no more    *)
(* than the limit, and what it has dropped is out of the window that ends  *)
(* now.                                                                    *)
(***************************************************************************)
WaitingForLock ==
  \A t \in Threads :
    pc[t] = "stamped" =>
      /\ caller[t] \in Callers /\ call[t] \in Calls
      /\ call[t].stamp <= clock /\ clock <= call[t].stamp + Lag

Undecided == \A t \in Threads : pc[t] # "done" => outcome[t] = "none"

StoreWithinLimit ==
  \A c \in Callers : /\ IsFiniteSet(calls[Key(c)])
                     /\ Cardinality(calls[Key(c)]) <= Limit(c)

StoreIsAdmitted ==
  \A c \in Callers : IsFiniteSet(admitted[c]) /\ calls[Key(c)] \subseteq admitted[c]

DroppedAreOld ==
  \A c \in Callers : \A x \in admitted[c] :
    x \in calls[Key(c)] \/ x.stamp <= clock - Window(c)

Inv == /\ TypeOK /\ WaitingForLock /\ StoreWithinLimit /\ StoreIsAdmitted
       /\ DroppedAreOld /\ Undecided

LEMMA InvInit == Init => Inv
<1> SUFFICES ASSUME Init PROVE Inv
  OBVIOUS
<1>1. TypeOK
  BY DEF Init, TypeOK
<1>2. WaitingForLock /\ Undecided
  BY DEF Init, WaitingForLock, Undecided
<1>3. StoreWithinLimit /\ StoreIsAdmitted /\ DroppedAreOld
  BY KeyInKeys, LimitAndWindow, FS_EmptySet
  DEF Init, StoreWithinLimit, StoreIsAdmitted, DroppedAreOld
<1> QED
  BY <1>1, <1>2, <1>3 DEF Inv

(* What the critical section has in hand: the caller's own list without    *)
(* the stamps that have left the window before `now`.                      *)
LEMMA KeptFacts ==
  ASSUME Inv, NEW t \in Threads, pc[t] = "stamped"
  PROVE  LET c == caller[t] IN
         /\ c \in Callers /\ Key(c) \in Keys
         /\ Kept(t) \subseteq calls[Key(c)] /\ IsFiniteSet(Kept(t))
         /\ Cardinality(Kept(t)) \in Nat
         /\ Cardinality(Kept(t)) <= Limit(c)
         /\ \A x \in calls[Key(c)] : x \in Kept(t) \/ x.stamp <= clock - Window(c)
<1> DEFINE c == caller[t]
<1>1. /\ c \in Callers /\ Key(c) \in Keys /\ call[t] \in Calls
      /\ call[t].stamp \in Nat /\ clock \in Nat /\ call[t].stamp <= clock
  BY KeyInKeys DEF Inv, WaitingForLock, Calls, TypeOK
<1>2. Kept(t) \subseteq calls[Key(c)]
  BY DEF Kept
<1>3. IsFiniteSet(calls[Key(c)]) /\ Cardinality(calls[Key(c)]) <= Limit(c)
  BY <1>1 DEF Inv, StoreWithinLimit
<1>4. /\ IsFiniteSet(Kept(t)) /\ Cardinality(Kept(t)) \in Nat
      /\ Cardinality(Kept(t)) <= Cardinality(calls[Key(c)])
      /\ Cardinality(calls[Key(c)]) \in Nat
  BY <1>2, <1>3, SubsetCardinality
<1>5. Limit(c) \in Nat /\ Window(c) \in Nat
  BY <1>1, LimitAndWindow
<1>6. ASSUME NEW x \in calls[Key(c)]
      PROVE  x \in Kept(t) \/ x.stamp <= clock - Window(c)
  <2>1. x.stamp \in Nat
    BY <1>1 DEF Inv, TypeOK, Calls
  <2> QED
    BY <1>1, <1>5, <2>1 DEF Kept, InWindow
<1> QED
  BY <1>1, <1>2, <1>3, <1>4, <1>5, <1>6

LEMMA InvStep ==
  ASSUME Inv, [Next]_vars
  PROVE  Inv'
<1> USE BoundsAssumption, KeyInKeys DEF Inv, Goto
<1>0. Undecided'
  BY DEF Next, ReadClock, Admit, Deny, Leave, Reset, Tick, vars, TypeOK, Undecided
<1>1. ASSUME NEW t \in Threads, NEW c \in Callers, ReadClock(t, c) PROVE Inv'
  <2>1. UNCHANGED <<clock, calls, admitted>>
    BY <1>1 DEF ReadClock
  <2>2. [id |-> arrived, stamp |-> clock] \in Calls
    BY DEF TypeOK, Calls
  <2>3. TypeOK'
    BY <1>1, <2>2 DEF ReadClock, TypeOK, Stamp
  <2>4. WaitingForLock'
    BY <1>1, <2>2 DEF ReadClock, TypeOK, Stamp, WaitingForLock, Calls
  <2>5. StoreWithinLimit' /\ StoreIsAdmitted' /\ DroppedAreOld'
    BY <2>1 DEF StoreWithinLimit, StoreIsAdmitted, DroppedAreOld
  <2> QED
    BY <1>0, <2>3, <2>4, <2>5
<1>2. ASSUME NEW t \in Threads, Admit(t) PROVE Inv'
  <2> DEFINE c == caller[t]
             new == Kept(t) \cup {call[t]}
  <2>1. pc[t] = "stamped" /\ Cardinality(Kept(t)) < Limit(c)
    BY <1>2 DEF Admit
  <2>2. call[t] \in Calls
    BY <2>1 DEF WaitingForLock
  <2>3. /\ c \in Callers /\ Key(c) \in Keys
        /\ Kept(t) \subseteq calls[Key(c)] /\ IsFiniteSet(Kept(t))
        /\ Cardinality(Kept(t)) \in Nat
        /\ \A x \in calls[Key(c)] : x \in Kept(t) \/ x.stamp <= clock - Window(c)
    BY <2>1, KeptFacts
  <2>4. /\ calls' = [calls EXCEPT ![Key(c)] = new]
        /\ admitted' = [admitted EXCEPT ![c] = @ \cup {call[t]}]
        /\ UNCHANGED <<clock, caller, call, arrived>>
        /\ pc' = [pc EXCEPT ![t] = "done"]
        /\ outcome' = [outcome EXCEPT ![t] = "allow"]
    BY <1>2 DEF Admit
  <2>5. IsFiniteSet(new) /\ Cardinality(new) <= Limit(c)
    <3>1. Limit(c) \in Nat
      BY <2>3, LimitAndWindow
    <3>2. /\ IsFiniteSet(new)
          /\ Cardinality(new) = Cardinality(Kept(t))
               \/ Cardinality(new) = Cardinality(Kept(t)) + 1
      BY <2>3, FS_AddElement
    <3> QED
      BY <2>1, <2>3, <3>1, <3>2
  <2>6. TypeOK'
    <3>1. new \in SUBSET Calls /\ admitted[c] \cup {call[t]} \in SUBSET Calls
      BY <2>2, <2>3 DEF TypeOK
    <3>2. calls' \in [Keys -> SUBSET Calls] /\ admitted' \in [Callers -> SUBSET Calls]
      BY <2>3, <2>4, <3>1 DEF TypeOK
    <3> QED
      BY <2>4, <3>2 DEF TypeOK
  <2>7. WaitingForLock'
    BY <2>4 DEF WaitingForLock, TypeOK
  <2>8. StoreWithinLimit'
    <3> SUFFICES ASSUME NEW d \in Callers
                 PROVE  /\ IsFiniteSet(calls'[Key(d)])
                        /\ Cardinality(calls'[Key(d)]) <= Limit(d)
      BY DEF StoreWithinLimit, Limit, Threshold
    <3>1. CASE d = c
      BY <3>1, <2>3, <2>4, <2>5 DEF TypeOK
    <3>2. CASE d # c
      <4>1. Key(d) # Key(c)
        BY <3>2, <2>3, KeyInjective
      <4> QED
        BY <4>1, <2>3, <2>4 DEF TypeOK, StoreWithinLimit
    <3> QED
      BY <3>1, <3>2
  <2>9. StoreIsAdmitted'
    <3> SUFFICES ASSUME NEW d \in Callers
                 PROVE  IsFiniteSet(admitted'[d]) /\ calls'[Key(d)] \subseteq admitted'[d]
      BY DEF StoreIsAdmitted
    <3>1. CASE d = c
      <4>1. IsFiniteSet(admitted[c] \cup {call[t]})
        BY <2>3, FS_AddElement DEF StoreIsAdmitted
      <4> QED
        BY <3>1, <4>1, <2>3, <2>4 DEF TypeOK, StoreIsAdmitted
    <3>2. CASE d # c
      <4>1. Key(d) # Key(c)
        BY <3>2, <2>3, KeyInjective
      <4> QED
        BY <3>2, <4>1, <2>3, <2>4 DEF TypeOK, StoreIsAdmitted
    <3> QED
      BY <3>1, <3>2
  <2>10. DroppedAreOld'
    <3> SUFFICES ASSUME NEW d \in Callers, NEW x \in admitted'[d]
                 PROVE  x \in calls'[Key(d)] \/ x.stamp <= clock - Window(d)
      BY <2>4 DEF DroppedAreOld, Window, Threshold
    <3>1. CASE d = c
      BY <3>1, <2>3, <2>4 DEF TypeOK, DroppedAreOld
    <3>2. CASE d # c
      <4>1. Key(d) # Key(c)
        BY <3>2, <2>3, KeyInjective
      <4> QED
        BY <3>2, <4>1, <2>3, <2>4 DEF TypeOK, DroppedAreOld
    <3> QED
      BY <3>1, <3>2
  <2> QED
    BY <1>0, <2>6, <2>7, <2>8, <2>9, <2>10
<1>3. ASSUME NEW t \in Threads, Deny(t) PROVE Inv'
  <2> DEFINE c == caller[t]
  <2>1. pc[t] = "stamped"
    BY <1>3 DEF Deny
  <2>2. /\ c \in Callers /\ Key(c) \in Keys
        /\ Kept(t) \subseteq calls[Key(c)] /\ IsFiniteSet(Kept(t))
        /\ Cardinality(Kept(t)) <= Limit(c)
        /\ \A x \in calls[Key(c)] : x \in Kept(t) \/ x.stamp <= clock - Window(c)
    BY <2>1, KeptFacts
  <2>3. /\ calls' = [calls EXCEPT ![Key(c)] = Kept(t)]
        /\ UNCHANGED <<clock, caller, call, admitted, arrived>>
        /\ pc' = [pc EXCEPT ![t] = "done"]
        /\ outcome' = [outcome EXCEPT ![t] = "deny"]
    BY <1>3 DEF Deny
  <2>4. TypeOK'
    BY <2>2, <2>3 DEF TypeOK
  <2>5. WaitingForLock'
    BY <2>3 DEF WaitingForLock, TypeOK
  <2>6. \A d \in Callers : d # c => calls'[Key(d)] = calls[Key(d)]
    BY <2>2, <2>3, KeyInjective DEF TypeOK
  <2>7. calls'[Key(c)] = Kept(t)
    BY <2>2, <2>3 DEF TypeOK
  <2>8. StoreWithinLimit'
    BY <2>2, <2>6, <2>7 DEF StoreWithinLimit, Limit, Threshold
  <2>9. StoreIsAdmitted'
    BY <2>2, <2>3, <2>6, <2>7 DEF StoreIsAdmitted
  <2>10. DroppedAreOld'
    BY <2>2, <2>3, <2>6, <2>7 DEF DroppedAreOld, Window, Threshold
  <2> QED
    BY <1>0, <2>4, <2>5, <2>8, <2>9, <2>10
<1>4. ASSUME NEW t \in Threads, Leave(t) PROVE Inv'
  BY <1>0, <1>4 DEF Leave, TypeOK, WaitingForLock, StoreWithinLimit, StoreIsAdmitted,
              DroppedAreOld
<1>5. CASE Reset
  <2>1. TypeOK' /\ WaitingForLock'
    BY <1>5 DEF Reset, TypeOK, WaitingForLock
  <2>2. StoreWithinLimit' /\ StoreIsAdmitted' /\ DroppedAreOld'
    BY <1>5, LimitAndWindow, FS_EmptySet
    DEF Reset, StoreWithinLimit, StoreIsAdmitted, DroppedAreOld
  <2> QED
    BY <1>0, <2>1, <2>2
<1>6. CASE Tick
  <2>1. TypeOK' /\ StoreWithinLimit' /\ StoreIsAdmitted'
    BY <1>6 DEF Tick, TypeOK, StoreWithinLimit, StoreIsAdmitted
  <2>2. WaitingForLock'
    BY <1>6 DEF Tick, TypeOK, WaitingForLock, Calls
  <2>3. DroppedAreOld'
    <3> SUFFICES ASSUME NEW c \in Callers, NEW x \in admitted[c], x \notin calls[Key(c)]
                 PROVE  x.stamp <= clock' - Window(c)
      BY <1>6 DEF Tick, DroppedAreOld
    <3>1. x.stamp \in Nat /\ Window(c) \in Nat
      BY LimitAndWindow DEF TypeOK, Calls
    <3> QED
      BY <1>6, <3>1 DEF Tick, DroppedAreOld, TypeOK
  <2> QED
    BY <1>0, <2>1, <2>2, <2>3
<1>7. CASE UNCHANGED vars
  BY <1>0, <1>7 DEF vars, TypeOK, WaitingForLock, StoreWithinLimit, StoreIsAdmitted,
              DroppedAreOld
<1> QED
  BY <1>1, <1>2, <1>3, <1>4, <1>5, <1>6, <1>7 DEF Next

(* Every variable of the store and of its callers keeps its type. *)
THEOREM TypeCorrect == Spec => []TypeOK
<1>1. Inv => TypeOK
  BY DEF Inv
<1>2. Inv /\ [Next]_vars => Inv'
  BY InvStep
<1> QED
  BY <1>1, <1>2, InvInit, PTL DEF Spec

(* What is in the window that ends now is still in the list, and the list  *)
(* is never longer than the limit.                                         *)
LEMMA InvRolling == Inv => RollingLimit
<1> SUFFICES ASSUME Inv, NEW c \in Callers
             PROVE  Cardinality({x \in admitted[c] : x.stamp > clock - Window(c)})
                      <= Limit(c)
  BY DEF RollingLimit
<1> DEFINE recent == {x \in admitted[c] : x.stamp > clock - Window(c)}
<1>1. recent \subseteq calls[Key(c)]
  <2> SUFFICES ASSUME NEW x \in recent PROVE x \in calls[Key(c)]
    OBVIOUS
  <2>1. x.stamp \in Nat /\ clock \in Nat /\ Window(c) \in Nat
    BY LimitAndWindow DEF Inv, TypeOK, Calls
  <2> QED
    BY <2>1 DEF Inv, DroppedAreOld
<1>2. IsFiniteSet(calls[Key(c)]) /\ Cardinality(calls[Key(c)]) <= Limit(c)
  BY DEF Inv, StoreWithinLimit
<1>3. Cardinality(recent) <= Cardinality(calls[Key(c)])
      /\ Cardinality(recent) \in Nat /\ Cardinality(calls[Key(c)]) \in Nat
  BY <1>1, <1>2, SubsetCardinality
<1> QED
  BY <1>2, <1>3, LimitAndWindow

(* No caller has more calls admitted in the window that ends now than its  *)
(* limit, however the threads interleave and however long they wait.       *)
THEOREM RollingLimitHolds == Spec => []RollingLimit
<1>1. Inv /\ [Next]_vars => Inv'
  BY InvStep
<1> QED
  BY <1>1, InvInit, InvRolling, PTL DEF Spec

(***************************************************************************)
(* For past periods the argument is about the moment a call is admitted.   *)
(* Its stamp is at most Lag old, so that a period of Window - Lag seconds  *)
(* that contains it lies in the window that ends now, and RollingLimit     *)
(* holds after the step.  A period that does not contain it has not        *)
(* changed.                                                                *)
(***************************************************************************)
AllPeriods ==
  \A c \in Callers : \A end \in Nat : LimitOver(c, end, Window(c) - Lag)

LEMMA PeriodsStep ==
  ASSUME Inv, AllPeriods, [Next]_vars
  PROVE  AllPeriods'
<1> DEFINE InPeriod(c, end) ==
      {x \in admitted[c] : x.stamp > end - (Window(c) - Lag) /\ x.stamp <= end}
    InPeriodNext(c, end) ==
      {x \in admitted'[c] : x.stamp > end - (Window(c) - Lag) /\ x.stamp <= end}
<1>1. SUFFICES ASSUME NEW d \in Callers, NEW end \in Nat
               PROVE  Cardinality(InPeriodNext(d, end)) <= Limit(d)
  BY DEF AllPeriods, LimitOver, Window, Limit, Threshold
<1>2. Cardinality(InPeriod(d, end)) <= Limit(d)
  BY DEF AllPeriods, LimitOver
<1>3. Limit(d) \in Nat /\ Window(d) \in Nat
  BY LimitAndWindow
<1>4. ASSUME admitted'[d] = admitted[d]
      PROVE  Cardinality(InPeriodNext(d, end)) <= Limit(d)
  BY <1>2, <1>4
<1>5. ASSUME NEW t \in Threads, Admit(t), d = caller[t]
      PROVE  Cardinality(InPeriodNext(d, end)) <= Limit(d)
  <2>1. /\ call[t] \in Calls /\ call[t].stamp \in Nat /\ clock \in Nat /\ Lag \in Nat
        /\ call[t].stamp <= clock /\ clock <= call[t].stamp + Lag
    BY <1>5, BoundsAssumption DEF Admit, Goto, Inv, WaitingForLock, Calls, TypeOK
  <2>2. admitted'[d] = admitted[d] \cup {call[t]} /\ clock' = clock
    BY <1>5 DEF Admit, Inv, TypeOK
  <2>3. Inv'
    BY InvStep
  <2>4. CASE call[t].stamp <= end
    <3> DEFINE recent == {x \in admitted'[d] : x.stamp > clock - Window(d)}
    <3>1. Cardinality(recent) <= Limit(d)
      <4>1. RollingLimit'
        BY <2>3, InvRolling, PTL
      <4> QED
        BY <4>1, <2>2 DEF RollingLimit, Limit, Window, Threshold
    <3>2. InPeriodNext(d, end) \subseteq recent
      <4> SUFFICES ASSUME NEW x \in admitted'[d], x.stamp > end - (Window(d) - Lag)
                   PROVE  x.stamp > clock - Window(d)
        OBVIOUS
      <4>1. x.stamp \in Nat
        BY <2>3 DEF Inv, TypeOK, Calls
      <4> QED
        BY <4>1, <2>1, <2>4, <1>3
    <3>3. IsFiniteSet(recent)
      BY <2>3, FS_Subset DEF Inv, StoreIsAdmitted
    <3> QED
      BY <3>1, <3>2, <3>3, <1>3, SubsetCardinality
  <2>5. CASE ~(call[t].stamp <= end)
    <3>1. InPeriodNext(d, end) = InPeriod(d, end)
      BY <2>2, <2>5
    <3> QED
      BY <3>1, <1>2
  <2> QED
    BY <2>4, <2>5
<1>6. ASSUME NEW t \in Threads, Admit(t), d # caller[t]
      PROVE  admitted'[d] = admitted[d]
  BY <1>6 DEF Admit, Inv, TypeOK
<1>7. CASE Reset
  <2>1. InPeriodNext(d, end) = {}
    BY <1>7 DEF Reset
  <2> QED
    BY <2>1, <1>3, FS_EmptySet
<1>8. ASSUME NEW t \in Threads,
             (\E c \in Callers : ReadClock(t, c)) \/ Deny(t) \/ Leave(t)
      PROVE  admitted'[d] = admitted[d]
  BY <1>8 DEF ReadClock, Deny, Leave
<1>9. CASE Tick \/ UNCHANGED vars
  BY <1>9, <1>4 DEF Tick, vars
<1> QED
  BY <1>4, <1>5, <1>6, <1>7, <1>8, <1>9 DEF Next

(* Over every past period shorter than the window by the lag, no caller    *)
(* has more calls admitted than its limit, late ones included; with Lag =  *)
(* 0, the promise of Gate 3 to the letter.                                 *)
THEOREM WindowLimitHolds == Spec => []WindowLimit
<1>1. Init => AllPeriods
  <2> SUFFICES ASSUME Init, NEW c \in Callers, NEW end \in Nat
               PROVE  LimitOver(c, end, Window(c) - Lag)
    BY DEF AllPeriods
  <2>1. {x \in admitted[c] :
           x.stamp > end - (Window(c) - Lag) /\ x.stamp <= end} = {}
    BY DEF Init
  <2> QED
    BY <2>1, LimitAndWindow, FS_EmptySet DEF LimitOver
<1>2. Inv /\ AllPeriods /\ [Next]_vars => Inv' /\ AllPeriods'
  BY InvStep, PeriodsStep
<1>3. Inv /\ AllPeriods => WindowLimit
  BY DEF Inv, TypeOK, AllPeriods, WindowLimit
<1> QED
  BY <1>1, <1>2, <1>3, InvInit, PTL DEF Spec

(* A denied call finds as many of its own caller's calls, admitted since   *)
(* the last reset, in the window before it as the limit allows.            *)
THEOREM DenialIsJustified == Spec => DenialJustified
<1>1. ASSUME Inv, [Next]_vars
      PROVE  \A t \in Threads : Denied(t) => EnoughOwnCalls(t)
  <2> SUFFICES ASSUME NEW t \in Threads, Denied(t) PROVE EnoughOwnCalls(t)
    OBVIOUS
  <2> DEFINE c == caller[t]
             own == {x \in admitted[c] : x.stamp > call[t].stamp - Window(c)}
  <2>1. pc[t] = "stamped" /\ outcome'[t] = "deny"
    BY DEF Denied
  <2>2. Deny(t)
    BY <1>1, <2>1
    DEF Next, ReadClock, Admit, Deny, Leave, Reset, Tick, vars, Goto, Inv, TypeOK,
        Undecided
  <2>3. Cardinality(Kept(t)) >= Limit(c)
    BY <2>2 DEF Deny
  <2>4. c \in Callers /\ Kept(t) \subseteq calls[Key(c)]
    BY <1>1, <2>1, KeptFacts
  <2>5. Kept(t) \subseteq own
    BY <1>1, <2>4 DEF Kept, InWindow, Inv, StoreIsAdmitted
  <2>6. IsFiniteSet(own)
    BY <1>1, <2>4, FS_Subset DEF Inv, StoreIsAdmitted
  <2>7. Cardinality(Kept(t)) <= Cardinality(own)
        /\ Cardinality(Kept(t)) \in Nat /\ Cardinality(own) \in Nat
    BY <2>5, <2>6, SubsetCardinality
  <2> QED
    BY <2>3, <2>4, <2>7, LimitAndWindow DEF EnoughOwnCalls
<1>2. Inv /\ [Next]_vars => Inv'
  BY InvStep
<1> QED
  BY <1>1, <1>2, InvInit, PTL DEF Spec, DenialJustified

(***************************************************************************)
(* The refinement.  That a call under the lock is not among those its list *)
(* holds, so that the length grows by one, is what the numbers of calls    *)
(* are for: no number is given out twice.                                  *)
(***************************************************************************)
NumbersUsed ==
  /\ \A k \in Keys : \A x \in calls[k] : x.id < arrived
  /\ \A t \in Threads : pc[t] = "stamped" =>
       /\ call[t].id < arrived
       /\ \A k \in Keys : \A x \in calls[k] : x.id # call[t].id
       /\ \A u \in Threads : pc[u] = "stamped" /\ u # t => call[u].id # call[t].id

IdleHasNoCall == \A t \in Threads : pc[t] = "idle" <=> caller[t] = NoCall

LEMMA NumbersInit == Init => NumbersUsed /\ IdleHasNoCall
BY DEF Init, NumbersUsed, IdleHasNoCall
LEMMA NumbersStep ==
  ASSUME Inv, NumbersUsed, IdleHasNoCall, [Next]_vars
  PROVE  NumbersUsed' /\ IdleHasNoCall'
<1> USE NoCallAssumption DEF Goto
<1>0. TypeOK /\ WaitingForLock
  BY DEF Inv
<1>1. ASSUME NEW t \in Threads, NEW c \in Callers, ReadClock(t, c)
      PROVE  NumbersUsed' /\ IdleHasNoCall'
  <2>1. /\ arrived \in Nat /\ arrived' = arrived + 1 /\ calls' = calls
        /\ \A u \in Threads : u # t => call'[u] = call[u] /\ pc'[u] = pc[u]
        /\ call'[t].id = arrived /\ pc'[t] = "stamped"
    BY <1>0, <1>1 DEF ReadClock, TypeOK
  <2>2. \A k \in Keys : \A x \in calls[k] : x.id \in Nat
    BY <1>0 DEF TypeOK, Calls
  <2>3. \A u \in Threads : pc[u] = "stamped" => call[u].id \in Nat
    BY <1>0 DEF WaitingForLock, Calls
  <2>4. NumbersUsed'
    BY <2>1, <2>2, <2>3 DEF NumbersUsed
  <2>5. IdleHasNoCall'
    BY <1>0, <1>1 DEF ReadClock, TypeOK, IdleHasNoCall
  <2> QED
    BY <2>4, <2>5
<1>2. ASSUME NEW t \in Threads, Admit(t) \/ Deny(t)
      PROVE  NumbersUsed' /\ IdleHasNoCall'
  <2> DEFINE c == caller[t]
  <2>1. pc[t] = "stamped"
    BY <1>2 DEF Admit, Deny
  <2>2. c \in Callers /\ Key(c) \in Keys /\ Kept(t) \subseteq calls[Key(c)]
    BY <2>1, KeptFacts
  <2>3. \A k \in Keys : calls'[k] \subseteq calls[k] \cup {call[t]}
    BY <1>0, <1>2, <2>2 DEF Admit, Deny, TypeOK
  <2>4. UNCHANGED <<call, arrived, caller>> /\ pc' = [pc EXCEPT ![t] = "done"]
    BY <1>2 DEF Admit, Deny
  <2>5. \A u \in Threads : pc'[u] = "stamped" => pc[u] = "stamped" /\ u # t
    BY <1>0, <2>4 DEF TypeOK
  <2>6. NumbersUsed'
    BY <2>1, <2>3, <2>4, <2>5 DEF NumbersUsed
  <2>7. IdleHasNoCall'
    BY <1>0, <2>1, <2>4 DEF TypeOK, IdleHasNoCall
  <2> QED
    BY <2>6, <2>7
<1>3. ASSUME NEW t \in Threads, Leave(t) PROVE NumbersUsed' /\ IdleHasNoCall'
  <2>1. NumbersUsed'
    BY <1>0, <1>3 DEF Leave, TypeOK, NumbersUsed
  <2>2. IdleHasNoCall'
    BY <1>0, <1>3 DEF Leave, TypeOK, IdleHasNoCall
  <2> QED
    BY <2>1, <2>2
<1>4. CASE Reset
  BY <1>4 DEF Reset, NumbersUsed, IdleHasNoCall
<1>5. CASE Tick \/ UNCHANGED vars
  BY <1>5 DEF Tick, vars, NumbersUsed, IdleHasNoCall
<1> QED
  BY <1>1, <1>2, <1>3, <1>4, <1>5 DEF Next

Lengths == [c \in Callers |-> Cardinality(calls[Key(c)])]
LimitOf == [c \in Callers |-> Limit(c)]

(* The decision of a thread that holds the lock touches its caller's list  *)
(* only.                                                                   *)
LEMMA OneLengthChanges ==
  ASSUME Inv, NEW t \in Threads, pc[t] = "stamped", NEW S,
         calls' = [calls EXCEPT ![Key(caller[t])] = S]
  PROVE  Lengths' = [Lengths EXCEPT ![caller[t]] = Cardinality(S)]
<1>1. caller[t] \in Callers /\ Key(caller[t]) \in Keys
  BY KeptFacts
<1>2. ASSUME NEW d \in Callers
      PROVE  Cardinality(calls'[Key(d)])
               = IF d = caller[t] THEN Cardinality(S) ELSE Cardinality(calls[Key(d)])
  <2>1. CASE d = caller[t]
    BY <1>1, <2>1 DEF Inv, TypeOK
  <2>2. CASE d # caller[t]
    <3>1. Key(d) # Key(caller[t])
      BY <1>1, <2>2, KeyInjective
    <3> QED
      BY <1>1, <2>2, <3>1, KeyInKeys DEF Inv, TypeOK
  <2> QED
    BY <2>1, <2>2
<1> QED
  BY <1>1, <1>2 DEF Lengths

LEMMA CounterStep ==
  ASSUME Inv, NumbersUsed, IdleHasNoCall, [Next]_vars
  PROVE  [Counter!Next]_(Counter!vars)
<1> USE DEF Goto
<1>0. TypeOK /\ WaitingForLock /\ Undecided /\ StoreWithinLimit
  BY DEF Inv
<1>1. ASSUME NEW t \in Threads, NEW c \in Callers, ReadClock(t, c) PROVE Counter!Ask(t, c)
  BY <1>1 DEF ReadClock, Counter!Ask, IdleHasNoCall
<1>2. ASSUME NEW t \in Threads, pc[t] = "stamped"
      PROVE  /\ Counter!Undecided(t)
             /\ caller[t] \in Callers
             /\ Cardinality(Kept(t)) \in 0 .. Lengths[caller[t]]
             /\ LimitOf[caller[t]] = Limit(caller[t])
  <2>1. Counter!Undecided(t)
    BY <1>0, <1>2 DEF Counter!Undecided, IdleHasNoCall, Undecided
  <2>2. caller[t] \in Callers /\ Kept(t) \subseteq calls[Key(caller[t])]
    BY <1>2, KeptFacts
  <2>3. IsFiniteSet(calls[Key(caller[t])])
    BY <1>0, <2>2 DEF StoreWithinLimit
  <2>4. Cardinality(Kept(t)) \in 0 .. Lengths[caller[t]]
    BY <2>2, <2>3, SubsetCardinality DEF Lengths
  <2> QED
    BY <2>1, <2>2, <2>4 DEF LimitOf
<1>3. ASSUME NEW t \in Threads, Admit(t) PROVE Counter!Admit(t)
  <2>1. /\ pc[t] = "stamped" /\ Cardinality(Kept(t)) < Limit(caller[t])
        /\ calls' = [calls EXCEPT ![Key(caller[t])] = Kept(t) \cup {call[t]}]
        /\ outcome' = [outcome EXCEPT ![t] = "allow"] /\ UNCHANGED caller
    BY <1>3 DEF Admit
  <2>2. /\ Kept(t) \subseteq calls[Key(caller[t])] /\ IsFiniteSet(Kept(t))
        /\ Key(caller[t]) \in Keys /\ Cardinality(Kept(t)) \in Nat
    BY <2>1, KeptFacts
  <2>3. call[t] \notin Kept(t)
    BY <2>1, <2>2 DEF NumbersUsed
  <2>4. Cardinality(Kept(t) \cup {call[t]}) = Cardinality(Kept(t)) + 1
    BY <2>2, <2>3, FS_AddElement
  <2>5. Lengths' = [Lengths EXCEPT ![caller[t]] = Cardinality(Kept(t)) + 1]
    BY <2>1, <2>4, OneLengthChanges
  <2>6. Counter!Count(t)
    BY <1>2, <2>1, <2>5 DEF Counter!Count, Lengths, LimitOf
  <2> QED
    BY <1>2, <2>1, <2>6 DEF Counter!Admit
<1>4. ASSUME NEW t \in Threads, Deny(t) PROVE Counter!Deny(t)
  <2>1. /\ pc[t] = "stamped" /\ Cardinality(Kept(t)) >= Limit(caller[t])
        /\ calls' = [calls EXCEPT ![Key(caller[t])] = Kept(t)]
        /\ outcome' = [outcome EXCEPT ![t] = "deny"] /\ UNCHANGED caller
    BY <1>4 DEF Deny
  <2>2. Lengths' = [Lengths EXCEPT ![caller[t]] = Cardinality(Kept(t))]
    BY <2>1, OneLengthChanges
  <2> QED
    BY <1>2, <2>1, <2>2 DEF Counter!Deny, Lengths, LimitOf
<1>5. ASSUME NEW t \in Threads, Leave(t) PROVE Counter!Leave(t)
  BY <1>0, <1>5 DEF Leave, Counter!Leave, Counter!Gone, IdleHasNoCall, TypeOK
<1>6. CASE Reset
  <2>1. \A c \in Callers : calls'[Key(c)] = {} /\ Cardinality(calls'[Key(c)]) = 0
    BY <1>6, KeyInKeys, FS_EmptySet DEF Reset
  <2>2. \A c \in Callers : Cardinality(calls[Key(c)]) \in Nat
    BY <1>0, FS_CardinalityType DEF StoreWithinLimit
  <2>3. Lengths \in [Callers -> Nat]
    BY <2>2 DEF Lengths
  <2>4. Lengths' = [c \in Callers |-> 0]
    BY <2>1 DEF Lengths
  <2>5. /\ Lengths' \in [Callers -> Nat]
        /\ \A c \in Callers : Lengths'[c] <= Lengths[c]
    BY <2>3, <2>4
  <2>6. Counter!Forget
    BY <1>6, <2>5 DEF Reset, Counter!Forget, Lengths
  <2> QED
    BY <2>6 DEF Counter!Next
<1>7. CASE Tick \/ UNCHANGED vars
  BY <1>7 DEF Tick, vars, Counter!vars
<1> QED
  BY <1>1, <1>3, <1>4, <1>5, <1>6, <1>7 DEF Next, Counter!Next

(* Gate 3's store, with its clock, its lock taken late and its lists, is   *)
(* for any callers, thresholds and threads the counter the pipeline uses.  *)
THEOREM ImplementsCounter == Spec => ImplementsCallCounter
<1>1. Init => Counter!Init
  BY KeyInKeys, FS_EmptySet DEF Init, Counter!Init
<1>2. Inv /\ NumbersUsed /\ IdleHasNoCall /\ [Next]_vars
        => Inv' /\ NumbersUsed' /\ IdleHasNoCall' /\ [Counter!Next]_(Counter!vars)
  BY InvStep, NumbersStep, CounterStep
<1> QED
  BY <1>1, <1>2, InvInit, NumbersInit, PTL DEF Spec, ImplementsCallCounter, Counter!Spec
=============================================================================
