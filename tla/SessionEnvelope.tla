-------------------------- MODULE SessionEnvelope --------------------------
(***************************************************************************)
(* Gate 3's store (gateway/gate3_session_envelope.py): a sliding-window    *)
(* counter per (tenant, principal, action), shared by the threads that     *)
(* serve requests.  check_and_record reads the clock first and takes the   *)
(* lock afterwards, so calls enter the store in another order than their   *)
(* time stamps.  What happens under the lock is one step: nothing touches  *)
(* the store without it.                                                   *)
(***************************************************************************)
EXTENDS Integers, FiniteSets

CONSTANTS
  Threads,      \* worker threads of the endpoint's pool
  Callers,      \* the [tenant, principal, action] records calls come with
  Thresholds,   \* DEFAULT_THRESHOLDS: action -> [max, window]
  Fallback,     \* FALLBACK_THRESHOLD
  NoCall,       \* what an idle thread is working on
  Lag,          \* no thread waits longer between the clock and the lock
  MaxClock,     \* bound of the model: the clock stops there
  MaxCalls      \* bound of the model: calls that may arrive

ThresholdType == [max : Nat, window : Nat]

ASSUME CallersAssumption ==
  Callers \subseteq [tenant : STRING, principal : STRING, action : STRING]
ASSUME NoCallAssumption == NoCall \notin Callers
ASSUME ThresholdsAssumption ==
  /\ Fallback \in ThresholdType
  /\ \A a \in DOMAIN Thresholds : Thresholds[a] \in ThresholdType
ASSUME BoundsAssumption == Lag \in Nat /\ MaxClock \in Nat /\ MaxCalls \in Nat

VARIABLES
  clock,      \* the wall clock, time.time()
  calls,      \* _calls: key -> the calls whose time stamps the list holds
  pc,         \* where each thread is: idle, stamped or done
  caller,     \* the arguments of its call of check_and_record
  call,       \* its call: `now`, and a number that tells equal stamps apart
  outcome,    \* whether check_and_record returned or raised Gate3Denied
  admitted,   \* history: the calls admitted since the last reset, by caller
  arrived     \* how many calls have arrived

vars == <<clock, calls, pc, caller, call, outcome, admitted, arrived>>

Threshold(action) ==
  IF action \in DOMAIN Thresholds THEN Thresholds[action] ELSE Fallback

Limit(c)  == Threshold(c.action).max
Window(c) == Threshold(c.action).window

\* Mutant: a key without the tenant.
KeyWithoutTenant(c) == <<"any", c.principal, c.action>>

Key(c) == <<c.tenant, c.principal, c.action>>

Keys == {Key(c) : c \in Callers}

Calls == [id : Nat, stamp : Nat]

TypeOK ==
  /\ clock \in Nat
  /\ calls \in [Keys -> SUBSET Calls]
  /\ pc \in [Threads -> {"idle", "stamped", "done"}]
  /\ caller \in [Threads -> Callers \cup {NoCall}]
  /\ call \in [Threads -> Calls \cup {NoCall}]
  /\ outcome \in [Threads -> {"none", "allow", "deny"}]
  /\ admitted \in [Callers -> SUBSET Calls]
  /\ arrived \in Nat

Init ==
  /\ clock    = 0
  /\ calls    = [k \in Keys |-> {}]
  /\ pc       = [t \in Threads |-> "idle"]
  /\ caller   = [t \in Threads |-> NoCall]
  /\ call     = [t \in Threads |-> NoCall]
  /\ outcome  = [t \in Threads |-> "none"]
  /\ admitted = [c \in Callers |-> {}]
  /\ arrived  = 0

Goto(t, from, to) == pc[t] = from /\ pc' = [pc EXCEPT ![t] = to]

\* Mutant: a stamp put back by a second of leeway.
StampWithLeeway == clock - 1

Stamp == clock

(* check_and_record up to `now = time.time()`, still outside the lock. *)
ReadClock(t, c) ==
  /\ arrived < MaxCalls
  /\ Goto(t, "idle", "stamped")
  /\ caller'  = [caller EXCEPT ![t] = c]
  /\ call'    = [call EXCEPT ![t] = [id |-> arrived, stamp |-> Stamp]]
  /\ arrived' = arrived + 1
  /\ UNCHANGED <<clock, calls, outcome, admitted>>

\* Mutant: a window one second too short.
InWindowShort(stamp, time, window) == stamp > time - window + 1

InWindow(stamp, time, window) == stamp > time - window

(* timestamps[:] = [t for t in timestamps if t > cutoff] *)
Kept(t) ==
  {x \in calls[Key(caller[t])] :
     InWindow(x.stamp, call[t].stamp, Window(caller[t]))}

\* Mutant: one call more than the limit.
AdmitOneMore(t) ==
  LET c == caller[t] IN
  /\ Goto(t, "stamped", "done")
  /\ Cardinality(Kept(t)) <= Limit(c)
  /\ calls'    = [calls EXCEPT ![Key(c)] = Kept(t) \cup {call[t]}]
  /\ admitted' = [admitted EXCEPT ![c] = @ \cup {call[t]}]
  /\ outcome'  = [outcome EXCEPT ![t] = "allow"]
  /\ UNCHANGED <<clock, caller, call, arrived>>

(* Under the lock: below the limit the call is recorded ... *)
Admit(t) ==
  LET c == caller[t] IN
  /\ Goto(t, "stamped", "done")
  /\ Cardinality(Kept(t)) < Limit(c)
  /\ calls'    = [calls EXCEPT ![Key(c)] = Kept(t) \cup {call[t]}]
  /\ admitted' = [admitted EXCEPT ![c] = @ \cup {call[t]}]
  /\ outcome'  = [outcome EXCEPT ![t] = "allow"]
  /\ UNCHANGED <<clock, caller, call, arrived>>

\* Mutant: the stamp is appended before the limit is looked at.
DenyAndRecord(t) ==
  LET c == caller[t] IN
  /\ Goto(t, "stamped", "done")
  /\ Cardinality(Kept(t)) >= Limit(c)
  /\ calls'   = [calls EXCEPT ![Key(c)] = Kept(t) \cup {call[t]}]
  /\ outcome' = [outcome EXCEPT ![t] = "deny"]
  /\ UNCHANGED <<clock, caller, call, admitted, arrived>>

(* ... at the limit it is denied and leaves no trace of itself. *)
Deny(t) ==
  LET c == caller[t] IN
  /\ Goto(t, "stamped", "done")
  /\ Cardinality(Kept(t)) >= Limit(c)
  /\ calls'   = [calls EXCEPT ![Key(c)] = Kept(t)]
  /\ outcome' = [outcome EXCEPT ![t] = "deny"]
  /\ UNCHANGED <<clock, caller, call, admitted, arrived>>

Leave(t) ==
  /\ Goto(t, "done", "idle")
  /\ caller'  = [caller EXCEPT ![t] = NoCall]
  /\ call'    = [call EXCEPT ![t] = NoCall]
  /\ outcome' = [outcome EXCEPT ![t] = "none"]
  /\ UNCHANGED <<clock, calls, admitted, arrived>>

(* SessionEnvelopeStore.reset, behind /debug/reset: calls in flight stay. *)
Reset ==
  /\ calls'    = [k \in Keys |-> {}]
  /\ admitted' = [c \in Callers |-> {}]
  /\ UNCHANGED <<clock, pc, caller, call, outcome, arrived>>

Tick ==
  /\ clock < MaxClock
  /\ \A t \in Threads : pc[t] = "stamped" => clock < call[t].stamp + Lag
  /\ clock' = clock + 1
  /\ UNCHANGED <<calls, pc, caller, call, outcome, admitted, arrived>>

Next ==
  \/ \E t \in Threads :
       \/ \E c \in Callers : ReadClock(t, c)
       \/ Admit(t) \/ Deny(t) \/ Leave(t)
  \/ Reset
  \/ Tick

Spec == Init /\ [][Next]_vars
----------------------------------------------------------------------------
(* Properties *)

(* At every moment, the calls of one caller admitted so far with a stamp   *)
(* in the window that ends now are no more than its limit, however late    *)
(* the threads were in taking the lock.                                    *)
RollingLimit ==
  \A c \in Callers :
    Cardinality({x \in admitted[c] : x.stamp > clock - Window(c)}) <= Limit(c)

(* The calls stamped in a period of `length` seconds up to any past moment *)
(* are no more than the limit, counting those that were admitted later.    *)
LimitOver(c, end, length) ==
  Cardinality({x \in admitted[c] : x.stamp > end - length /\ x.stamp <= end}) <= Limit(c)

(* Gate 3's promise ("denies once a threshold is crossed" within "a recent *)
(* time window", gate3_session_envelope.py:4-6), for periods shorter than  *)
(* the window by the longest wait for the lock.                            *)
WindowLimit ==
  \A c \in Callers : \A end \in 0 .. clock : LimitOver(c, end, Window(c) - Lag)

(* The same promise for the whole window. *)
FullWindowLimit ==
  \A c \in Callers : \A end \in 0 .. clock : LimitOver(c, end, Window(c))

(* Nobody is denied for what others did: a denial finds as many calls of   *)
(* this tenant, principal and action, admitted since the last reset, in    *)
(* the window before the denied call.                                      *)
Denied(t) == pc[t] = "stamped" /\ outcome'[t] = "deny"

EnoughOwnCalls(t) ==
  Cardinality({x \in admitted[caller[t]] :
                 x.stamp > call[t].stamp - Window(caller[t])}) >= Limit(caller[t])

DenialJustified == [][\A t \in Threads : Denied(t) => EnoughOwnCalls(t)]_vars

(* Gate 3 is the counter the pipeline takes it for: what CallCounter says  *)
(* of the lengths of the lists, although the stamps come out of order and  *)
(* each list is cleaned up only when its own caller asks again.            *)
Counter == INSTANCE CallCounter
  WITH counted <- [c \in Callers |-> Cardinality(calls[Key(c)])],
       asking  <- caller,
       outcome <- outcome,
       Limits  <- [c \in Callers |-> Limit(c)]
ImplementsCallCounter == Counter!Spec
=============================================================================
