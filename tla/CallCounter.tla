---------------------------- MODULE CallCounter ----------------------------
(***************************************************************************)
(* What Gate 3 promises to the pipeline (check_and_record in               *)
(* gateway/gate3_session_envelope.py), without clock, stamps or lock: one  *)
(* number per caller, which only the caller's own admitted calls raise,    *)
(* and a decision in one step that looks at nothing else.  Time may lower  *)
(* a number whenever it likes, also on the way to a decision.              *)
(***************************************************************************)
EXTENDS Naturals

CONSTANTS Threads, Callers, Limits, NoCall

VARIABLES
  counted,   \* the calls that count, by caller
  asking,    \* the caller a thread's request is from
  outcome    \* what its request was told

vars == <<counted, asking, outcome>>

Init ==
  /\ counted = [c \in Callers |-> 0]
  /\ asking  = [t \in Threads |-> NoCall]
  /\ outcome = [t \in Threads |-> "none"]

Undecided(t) == asking[t] # NoCall /\ outcome[t] = "none"

Ask(t, c) ==
  /\ asking[t] = NoCall
  /\ asking' = [asking EXCEPT ![t] = c]
  /\ UNCHANGED <<counted, outcome>>

(* Below the limit, with the k calls that are left, the call is counted... *)
Count(t) ==
  \E k \in 0 .. counted[asking[t]] :
    /\ k < Limits[asking[t]]
    /\ counted' = [counted EXCEPT ![asking[t]] = k + 1]

Admit(t) ==
  /\ Undecided(t) /\ Count(t)
  /\ outcome' = [outcome EXCEPT ![t] = "allow"]
  /\ UNCHANGED asking

(* ...at the limit it is denied and not counted. *)
Deny(t) ==
  /\ Undecided(t)
  /\ \E k \in 0 .. counted[asking[t]] :
       /\ k >= Limits[asking[t]]
       /\ counted' = [counted EXCEPT ![asking[t]] = k]
  /\ outcome' = [outcome EXCEPT ![t] = "deny"]
  /\ UNCHANGED asking

Gone(t) ==
  /\ asking'  = [asking EXCEPT ![t] = NoCall]
  /\ outcome' = [outcome EXCEPT ![t] = "none"]

Leave(t) == asking[t] # NoCall /\ Gone(t) /\ UNCHANGED counted

(* Counted, and cut off before anybody was told. *)
Abandon(t) == Undecided(t) /\ Count(t) /\ Gone(t)

Forget ==
  /\ counted' \in [Callers -> Nat]
  /\ \A c \in Callers : counted'[c] <= counted[c]
  /\ UNCHANGED <<asking, outcome>>

Restart ==
  /\ counted' = [c \in Callers |-> 0]
  /\ asking'  = [t \in Threads |-> NoCall]
  /\ outcome' = [t \in Threads |-> "none"]

Next ==
  \/ Forget
  \/ \E t \in Threads :
       \/ Leave(t) \/ Admit(t) \/ Deny(t) \/ Abandon(t)
       \/ \E c \in Callers : Ask(t, c)
  \/ Restart

Spec == Init /\ [][Next]_vars
=============================================================================
