--------------------------- MODULE GatewayProofs ---------------------------
(***************************************************************************)
(* Proofs about Gateway, for any number of threads, requests and entities. *)
(*                                                                         *)
(* The inductive invariant says what a thread knows at each label of       *)
(* invoke (Thread...), and that the audit entries under a request's id are *)
(* its own: no two threads serve one id, no answered id is served again    *)
(* and an id not yet given has no entries.                                 *)
(***************************************************************************)
EXTENDS Gateway, SequenceTheorems, FiniteSetTheorems, TLAPS

Busy(t) == pc[t] # "idle"

OwnNames(t) == {Nothing, Identity(req[t].token)}

(* A busy thread has a request, an id that was given to it and an identity *)
(* that is the request's or nobody's.                                      *)
ThreadServes ==
  \A t \in Threads : Busy(t) =>
    /\ req[t] \in Requests
    /\ id[t] \in 1 .. arrived
    /\ who[t] \in OwnNames(t)

(* An idle thread has no identity left over. *)
ThreadIdle == \A t \in Threads : ~Busy(t) => who[t] = Nothing

ThreadContext == \A t \in Threads : pc[t] = "gate1" => ctx[t] = req[t].token

ThreadAuthenticated ==
  \A t \in Threads : pc[t] \in {"gate2", "gate3", "gate4", "all", "allowed"} =>
    req[t].token.ok /\ who[t] = Identity(req[t].token)

ThreadPermitted ==
  \A t \in Threads : pc[t] \in {"gate3", "gate4", "all", "allowed"} => Permitted(t)

ThreadChecked ==
  \A t \in Threads : pc[t] \in {"all", "allowed"} => WellFormed(req[t].action, req[t].args)

ThreadInv ==
  /\ ThreadServes /\ ThreadIdle /\ ThreadContext
  /\ ThreadAuthenticated /\ ThreadPermitted /\ ThreadChecked

OneThreadPerId ==
  \A t, u \in Threads : Busy(t) /\ Busy(u) /\ id[t] = id[u] => t = u

AnsweredOnce ==
  \A a \in answers : a.id \in 1 .. arrived /\ \A t \in Threads : Busy(t) => id[t] # a.id

NoEntriesYet == \A i \in Ids : i > arrived => trail[i] = <<>>

OwnEntries ==
  \A t \in Threads : Busy(t) =>
    \A i \in 1 .. Len(trail[id[t]]) : trail[id[t]][i].who \in OwnNames(t)

TrailInv ==
  OneThreadPerId /\ AnsweredOnce /\ NoEntriesYet /\ OwnEntries /\ EntriesNameOwner

Inv == TypeOK /\ ThreadInv /\ TrailInv /\ AllowedIsAuthorised

----------------------------------------------------------------------------
(* What the helpers of the actions do. *)

(* A log entry of known parts. *)
LEMMA EntryType ==
  ASSUME ThreadServes, NEW t \in Threads, Busy(t), NEW gate \in Gates,
         NEW decision \in {"ALLOW", "DENY"}, NEW identity \in Identities \cup {Nothing}
  PROVE  Entry(t, gate, decision, identity) \in Entries
<1>1. req[t].action \in STRING /\ req[t].resource \in STRING
  BY RequestsAssumption DEF ThreadServes, RequestType
<1> QED
  BY <1>1 DEF Entry, Entries

(* It keeps the audit log well typed. *)
LEMMA LogType ==
  ASSUME TypeOK, ThreadServes, NEW t \in Threads, Busy(t), NEW gate \in Gates, NEW decision \in {"ALLOW", "DENY"},
         NEW identity \in Identities \cup {Nothing}, Log(t, gate, decision, identity)
  PROVE  trail' \in [Ids -> Seq(Entries)]
<1> DEFINE e == Entry(t, gate, decision, identity)
<1>1. e \in Entries
  BY EntryType
<1>2. \A i \in Ids : Append(trail[i], e) \in Seq(Entries)
  BY <1>1, AppendProperties DEF TypeOK
<1> QED
  BY <1>2 DEF Log, TypeOK

(* A reply to the request a thread serves keeps the state well typed. *)
LEMMA ReplyType ==
  ASSUME TypeOK, ThreadServes, NEW t \in Threads, Busy(t), NEW reply \in Replies, Reply(t, reply)
  PROVE  /\ pc' \in [Threads -> Labels]
         /\ id' \in [Threads -> 0 .. MaxRequests]
         /\ req' \in [Threads -> Requests \cup {Nothing}]
         /\ ctx' \in [Threads -> TokenType \cup {Nothing}]
         /\ who' \in [Threads -> Identities \cup {Nothing}]
         /\ answers' \subseteq [id : Ids, req : Requests, reply : Replies]
<1>1. req[t] \in Requests /\ id[t] \in Ids
  BY BoundAssumption DEF TypeOK, ThreadServes, Ids
<1>2. answers' \subseteq [id : Ids, req : Requests, reply : Replies]
  BY <1>1 DEF TypeOK, Reply
<1>3. "idle" \in Labels /\ 0 \in 0 .. MaxRequests
  BY BoundAssumption DEF Labels
<1> QED
  BY <1>2, <1>3 DEF TypeOK, Reply

(* An entry that names the thread's own request, or nobody, goes where no  *)
(* other request's entries are.                                            *)
LEMMA LogKeepsTrail ==
  ASSUME TypeOK, ThreadServes, TrailInv, NEW t \in Threads, Busy(t), NEW gate, NEW decision,
         NEW identity \in OwnNames(t), Log(t, gate, decision, identity),
         \A u \in Threads : Busy(u)' => Busy(u),
         UNCHANGED <<id, req, answers, arrived>>
  PROVE  TrailInv'
<1> DEFINE e == Entry(t, gate, decision, identity)
<1>1. id[t] \in Ids /\ id[t] <= arrived
  BY BoundAssumption DEF TypeOK, ThreadServes, Ids
<1>2. trail' = [trail EXCEPT ![id[t]] = Append(@, e)] /\ trail \in [Ids -> Seq(Entries)]
  BY DEF Log, TypeOK
<1>3. OneThreadPerId'
  BY DEF TrailInv, OneThreadPerId, Busy
<1>4. AnsweredOnce'
  BY DEF TrailInv, AnsweredOnce, Busy
<1>5. NoEntriesYet'
  BY <1>1, <1>2 DEF TrailInv, NoEntriesYet, Ids, TypeOK
<1>6. ASSUME NEW j \in 1 .. Len(trail'[id[t]])
      PROVE  trail'[id[t]][j].who \in OwnNames(t)
  <2>1. trail'[id[t]] = Append(trail[id[t]], e) /\ trail[id[t]] \in Seq(Entries)
    BY <1>1, <1>2
  <2>2. Len(trail'[id[t]]) = Len(trail[id[t]]) + 1 /\ Len(trail[id[t]]) \in Nat
    BY <2>1
  <2>3. CASE j \in 1 .. Len(trail[id[t]])
    <3>1. trail'[id[t]][j] = trail[id[t]][j]
      BY <2>1, <2>3
    <3> QED
      BY <2>3, <3>1 DEF TrailInv, OwnEntries
  <2>4. CASE j = Len(trail[id[t]]) + 1
    <3>1. trail'[id[t]][j] = e
      BY <2>1, <2>4
    <3> QED
      BY <3>1 DEF Entry
  <2> QED
    BY <2>2, <2>3, <2>4
<1>7. \A i \in Ids : i # id[t] => trail'[i] = trail[i]
  BY <1>2
<1>8. OwnEntries'
  <2> SUFFICES ASSUME NEW u \in Threads, Busy(u)', NEW j \in 1 .. Len(trail'[id[u]])
               PROVE  trail'[id[u]][j].who \in OwnNames(u)
    BY DEF OwnEntries, OwnNames
  <2>1. CASE u = t
    BY <1>6, <2>1
  <2>2. CASE u # t
    <3>1. Busy(u) /\ id[u] # id[t]
      BY <2>2 DEF TrailInv, OneThreadPerId
    <3>2. id[u] \in Ids
      BY <3>1, BoundAssumption DEF TypeOK, ThreadServes, Ids
    <3> QED
      BY <1>7, <3>1, <3>2 DEF TrailInv, OwnEntries
  <2> QED
    BY <2>1, <2>2
<1>9. EntriesNameOwner'
  <2> SUFFICES ASSUME NEW a \in answers, NEW j \in 1 .. Len(trail'[a.id])
               PROVE  trail'[a.id][j].who \in {Nothing, Identity(a.req.token)}
    BY DEF EntriesNameOwner
  <2>1. a.id \in Ids /\ a.id # id[t]
    BY BoundAssumption DEF TypeOK, TrailInv, AnsweredOnce, Ids
  <2> QED
    BY <1>7, <2>1 DEF TrailInv, EntriesNameOwner
<1> QED
  BY <1>3, <1>4, <1>5, <1>8, <1>9 DEF TrailInv

(* An answer closes the entries of its request. *)
LEMMA ReplyKeepsTrail ==
  ASSUME TypeOK, ThreadServes, TrailInv, NEW t \in Threads, Busy(t), NEW reply,
         Reply(t, reply), UNCHANGED <<trail, arrived>>
  PROVE  TrailInv'
<1> DEFINE a0 == [id |-> id[t], req |-> req[t], reply |-> reply]
<1>1. answers' = answers \cup {a0}
  BY DEF Reply
<1>2. \A u \in Threads : Busy(u)' =>
        u # t /\ Busy(u) /\ id'[u] = id[u] /\ req'[u] = req[u]
  BY DEF Reply, Busy, TypeOK
<1>3. OneThreadPerId'
  BY <1>2 DEF TrailInv, OneThreadPerId
<1>4. AnsweredOnce'
  BY <1>1, <1>2 DEF TrailInv, AnsweredOnce, OneThreadPerId, ThreadServes
<1>5. NoEntriesYet'
  BY DEF TrailInv, NoEntriesYet
<1>6. OwnEntries'
  BY <1>2 DEF TrailInv, OwnEntries, OwnNames
<1>7. EntriesNameOwner'
  BY <1>1 DEF TrailInv, OwnEntries, EntriesNameOwner, OwnNames
<1> QED
  BY <1>3, <1>4, <1>5, <1>6, <1>7 DEF TrailInv

(* A thread that answers leaves the others as they were. *)
LEMMA ReplyKeepsThreads ==
  ASSUME TypeOK, ThreadInv, NEW t \in Threads, NEW reply, Reply(t, reply),
         UNCHANGED <<agent, arrived>>
  PROVE  ThreadInv'
<1>1. \A u \in Threads :
        \/ pc'[u] = "idle" /\ who'[u] = Nothing
        \/ /\ pc'[u] = pc[u] /\ id'[u] = id[u] /\ req'[u] = req[u]
           /\ ctx'[u] = ctx[u] /\ who'[u] = who[u]
  BY DEF Reply, TypeOK
<1>2. ThreadServes'
  BY <1>1 DEF ThreadInv, ThreadServes, Busy, OwnNames
<1>3. ThreadIdle'
  BY <1>1 DEF ThreadInv, ThreadIdle, Busy
<1>4. ThreadContext'
  BY <1>1 DEF ThreadInv, ThreadContext
<1>5. ThreadAuthenticated'
  BY <1>1 DEF ThreadInv, ThreadAuthenticated
<1>6. ThreadPermitted'
  BY <1>1 DEF ThreadInv, ThreadPermitted, Permitted
<1>7. ThreadChecked'
  BY <1>1 DEF ThreadInv, ThreadChecked
<1> QED
  BY <1>2, <1>3, <1>4, <1>5, <1>6, <1>7 DEF ThreadInv
----------------------------------------------------------------------------
(* The inductive invariant. *)

LEMMA LimitType ==
  ASSUME NEW c \in Callers
  PROVE  Limits[c.action] \in Nat
BY LimitsAssumption DEF Callers

LEMMA InvInit ==
  ASSUME Init
  PROVE  Inv
<1>1. TypeOK
  <2>1. \A i \in Ids : trail[i] \in Seq(Entries)
    BY EmptySeq DEF Init
  <2> QED
    BY <2>1, BoundAssumption, LimitType DEF Init, TypeOK, WithinLimits, Labels
<1>2. ThreadInv
  BY DEF Init, ThreadInv, ThreadServes, ThreadIdle, ThreadContext, ThreadAuthenticated,
         ThreadPermitted, ThreadChecked, Busy
<1>3. TrailInv
  BY DEF Init, TrailInv, OneThreadPerId, AnsweredOnce, NoEntriesYet, OwnEntries,
         EntriesNameOwner, Busy
<1>4. AllowedIsAuthorised
  BY DEF Init, AllowedIsAuthorised
<1> QED
  BY <1>1, <1>2, <1>3, <1>4 DEF Inv

(* What is permitted for the owner of a token is in the owner's tenant:    *)
(* the realm and the entity file agree.                                    *)
LEMMA PermittedIsAuthorised ==
  ASSUME NEW r \in Requests, r.token.ok, WellFormed(r.action, r.args),
         Permits(r.token.principal, r.action, r.resource, agent)
  PROVE  Authorised(r)
BY DirectoryAssumption DEF Authorised, Permits, SameTenant

(* The caller under which Gate 3 counts a thread's request. *)
LEMMA CallerType ==
  ASSUME ThreadInv, NEW t \in Threads, pc[t] = "gate3"
  PROVE  /\ req[t] \in Requests /\ req[t].token.ok
         /\ CallerOf(t) \in Callers
         /\ Identity(req[t].token) =
              [principal |-> CallerOf(t).principal, tenant |-> CallerOf(t).tenant]
         /\ req[t].action = CallerOf(t).action
         /\ Permits(CallerOf(t).principal, CallerOf(t).action, req[t].resource, agent)
<1>1. req[t] \in Requests /\ req[t].token.ok /\ who[t] = Identity(req[t].token) /\ Permitted(t)
  BY DEF ThreadInv, ThreadServes, ThreadAuthenticated, ThreadPermitted, Busy
<1>2. CallerOf(t) = [tenant |-> req[t].token.tenant, principal |-> req[t].token.principal,
                     action |-> req[t].action]
  BY <1>1 DEF CallerOf, Identity
<1>3. CallerOf(t) \in Callers
  BY <1>1, <1>2 DEF Callers
<1> QED
  BY <1>1, <1>2, <1>3 DEF Identity, Permitted

(* Counting the call of a thread that is below its limit. *)
LEMMA CountKept ==
  ASSUME TypeOK, ThreadInv, NEW t \in Threads, pc[t] = "gate3", BelowLimit(t),
         counted' = [counted EXCEPT ![CallerOf(t)] = @ + 1]
  PROVE  counted' \in [Callers -> Nat] /\ WithinLimits'
<1>1. CallerOf(t) \in Callers /\ req[t].action = CallerOf(t).action
  BY CallerType
<1>2. counted \in [Callers -> Nat] /\ WithinLimits
  BY DEF TypeOK
<1>3. counted[CallerOf(t)] \in Nat /\ Limits[CallerOf(t).action] \in Nat
  BY <1>1, <1>2, LimitType
<1>4. counted[CallerOf(t)] + 1 \in Nat /\ counted[CallerOf(t)] + 1 <= Limits[CallerOf(t).action]
  BY <1>1, <1>3 DEF BelowLimit
<1> QED
  BY <1>1, <1>2, <1>4 DEF WithinLimits

(* A counter that went down, or to zero, stays below its limit. *)
LEMMA CountLowered ==
  ASSUME TypeOK, counted' \in [Callers -> Nat], \A c \in Callers : counted'[c] <= counted[c]
  PROVE  WithinLimits'
<1> SUFFICES ASSUME NEW c \in Callers
             PROVE  counted'[c] <= Limits[c.action]
  BY DEF WithinLimits
<1>1. counted[c] \in Nat /\ counted'[c] \in Nat /\ counted[c] <= Limits[c.action]
  BY DEF TypeOK, WithinLimits
<1> QED
  BY <1>1, LimitType

(* Any answer but "allow", and no answer at all, leaves what was allowed. *)
LEMMA AllowedKept ==
  ASSUME AllowedIsAuthorised, UNCHANGED agent, NEW t \in Threads, NEW reply \in Replies \ {"allow"},
         UNCHANGED answers \/ Reply(t, reply)
  PROVE  AllowedIsAuthorised'
BY DEF AllowedIsAuthorised, Authorised, Reply

(* A thread that logs a decision and moves on to another label of invoke,  *)
(* its request unchanged.                                                  *)
LEMMA MoveKeeps ==
  ASSUME Inv, NEW t \in Threads, NEW from \in Labels \ {"idle"}, NEW to \in Labels \ {"idle"},
         NEW gate \in Gates, NEW decision \in {"ALLOW", "DENY"}, pc[t] = from,
         Log(t, gate, decision, who[t]), pc' = [pc EXCEPT ![t] = to],
         UNCHANGED <<agent, gate3, id, req, ctx, who, answers, arrived>>,
         counted' \in [Callers -> Nat], WithinLimits',
         to # "gate1",
         to \in {"gate2", "gate3", "gate4", "all", "allowed"} =>
           from \in {"gate2", "gate3", "gate4", "all", "allowed"},
         to \in {"gate3", "gate4", "all", "allowed"} => Permitted(t),
         to \in {"all", "allowed"} => WellFormed(req[t].action, req[t].args)
  PROVE  Inv'
<1> USE DEF Inv
<1>1. who[t] \in Identities \cup {Nothing} /\ Busy(t) /\ who[t] \in OwnNames(t)
  BY DEF TypeOK, ThreadInv, ThreadServes, Busy
<1>2. TypeOK'
  <2>1. trail' \in [Ids -> Seq(Entries)]
    BY <1>1, LogType DEF ThreadInv
  <2> QED
    BY <2>1 DEF TypeOK
<1>3. \A u \in Threads : u # t => pc'[u] = pc[u]
  BY DEF TypeOK
<1>4. pc'[t] = to
  BY DEF TypeOK
<1>5. ThreadInv'
  <2>1. ThreadServes'
    BY <1>1, <1>3 DEF ThreadInv, ThreadServes, Busy, OwnNames
  <2>2. ThreadContext'
    BY <1>3, <1>4 DEF ThreadInv, ThreadContext
  <2>3. ThreadAuthenticated'
    BY <1>3, <1>4 DEF ThreadInv, ThreadAuthenticated
  <2>4. ThreadPermitted'
    BY <1>3, <1>4 DEF ThreadInv, ThreadPermitted, Permitted
  <2>5. ThreadChecked'
    BY <1>3, <1>4 DEF ThreadInv, ThreadChecked
  <2>6. ThreadIdle'
    BY <1>3, <1>4 DEF ThreadInv, ThreadIdle, Busy
  <2> QED
    BY <2>1, <2>2, <2>3, <2>4, <2>5, <2>6 DEF ThreadInv
<1>6. TrailInv'
  <2>1. \A u \in Threads : Busy(u)' => Busy(u)
    BY <1>1, <1>3 DEF Busy
  <2> QED
    BY <1>1, <2>1, LogKeepsTrail DEF ThreadInv
<1>7. AllowedIsAuthorised'
  BY DEF AllowedIsAuthorised, Authorised
<1> QED
  BY <1>2, <1>5, <1>6, <1>7

(* A thread that answers. *)
LEMMA AnswerKeeps ==
  ASSUME Inv, NEW t \in Threads, Busy(t), NEW reply \in Replies, Reply(t, reply),
         UNCHANGED <<agent, gate3, trail, arrived>>,
         counted' \in [Callers -> Nat], WithinLimits', AllowedIsAuthorised'
  PROVE  Inv'
<1>1. TypeOK'
  BY ReplyType DEF Inv, TypeOK, ThreadInv
<1>2. ThreadInv'
  BY ReplyKeepsThreads DEF Inv
<1>3. TrailInv'
  BY ReplyKeepsTrail DEF Inv, ThreadInv
<1> QED
  BY <1>1, <1>2, <1>3 DEF Inv
----------------------------------------------------------------------------
(* Every step preserves the invariant. *)

LEMMA ReceiveStep ==
  ASSUME Inv, NEW t \in Threads, Receive(t)
  PROVE  Inv'
<1> USE DEF Inv
<1>1. arrived + 1 \in Ids /\ arrived \in 0 .. MaxRequests /\ arrived' = arrived + 1
      /\ arrived + 1 \in 0 .. MaxRequests
  BY BoundAssumption DEF Receive, TypeOK, Ids
<1>2. UNCHANGED <<agent, gate3, ctx, who, counted, trail>>
  BY DEF Receive, env
<1>3. PICK r \in Requests :
        \/ /\ pc'  = [pc EXCEPT ![t] = "scheme"]
           /\ id'  = [id EXCEPT ![t] = arrived + 1]
           /\ req' = [req EXCEPT ![t] = r]
           /\ UNCHANGED answers
        \/ /\ answers' = answers \cup {[id |-> arrived + 1, req |-> r, reply |-> "invalid"]}
           /\ UNCHANGED <<pc, id, req>>
  BY DEF Receive
<1>4. WithinLimits'
  BY <1>2 DEF TypeOK, WithinLimits
<1>5. trail[arrived + 1] = <<>>
  BY <1>1 DEF TrailInv, NoEntriesYet
<1>6. \A u \in Threads : Busy(u) => id[u] \in 1 .. arrived
  BY DEF ThreadInv, ThreadServes
<1>7. CASE /\ pc' = [pc EXCEPT ![t] = "scheme"] /\ id' = [id EXCEPT ![t] = arrived + 1]
           /\ req' = [req EXCEPT ![t] = r] /\ UNCHANGED answers
  <2>1. TypeOK'
    BY <1>1, <1>2, <1>4, <1>7 DEF TypeOK, Labels
  <2>2. ~Busy(t) /\ who[t] = Nothing
    BY DEF Receive, At, Busy, ThreadInv, ThreadIdle
  <2>3. \A u \in Threads : u # t => pc'[u] = pc[u] /\ id'[u] = id[u] /\ req'[u] = req[u]
    BY <1>7 DEF TypeOK
  <2>4. pc'[t] = "scheme" /\ id'[t] = arrived + 1 /\ req'[t] = r
    BY <1>7 DEF TypeOK
  <2>5. ThreadInv'
    <3>1. ThreadServes'
      BY <1>1, <1>2, <2>2, <2>3, <2>4 DEF ThreadInv, ThreadServes, Busy, OwnNames
    <3>2. ThreadIdle' /\ ThreadContext' /\ ThreadChecked'
      BY <1>2, <2>3, <2>4 DEF ThreadInv, ThreadIdle, ThreadContext, ThreadChecked, Busy
    <3>3. ThreadAuthenticated' /\ ThreadPermitted'
      BY <1>2, <2>3, <2>4 DEF ThreadInv, ThreadAuthenticated, ThreadPermitted, Permitted
    <3> QED
      BY <3>1, <3>2, <3>3 DEF ThreadInv
  <2>6. TrailInv'
    <3>1. OneThreadPerId'
      BY <1>1, <1>6, <2>3, <2>4 DEF TrailInv, OneThreadPerId, Busy
    <3>2. AnsweredOnce'
      BY <1>1, <1>7, <2>3, <2>4 DEF TrailInv, AnsweredOnce, Busy
    <3>3. NoEntriesYet'
      BY <1>1, <1>2 DEF TrailInv, NoEntriesYet, Ids
    <3>4. OwnEntries'
      BY <1>2, <1>5, <2>3, <2>4 DEF TrailInv, OwnEntries, Busy, OwnNames
    <3>5. EntriesNameOwner'
      BY <1>2, <1>7 DEF TrailInv, EntriesNameOwner
    <3> QED
      BY <3>1, <3>2, <3>3, <3>4, <3>5 DEF TrailInv
  <2>7. AllowedIsAuthorised'
    BY <1>2, <1>7 DEF AllowedIsAuthorised, Authorised
  <2> QED
    BY <2>1, <2>5, <2>6, <2>7
<1>8. CASE /\ answers' = answers \cup {[id |-> arrived + 1, req |-> r, reply |-> "invalid"]}
           /\ UNCHANGED <<pc, id, req>>
  <2>1. TypeOK'
    BY <1>1, <1>2, <1>4, <1>8 DEF TypeOK, Replies
  <2>2. ThreadInv'
    BY <1>1, <1>2, <1>8 DEF ThreadInv, ThreadServes, ThreadIdle, ThreadContext,
         ThreadAuthenticated, ThreadPermitted, Permitted, ThreadChecked, Busy, OwnNames
  <2>3. TrailInv'
    <3>1. OneThreadPerId' /\ OwnEntries'
      BY <1>2, <1>8 DEF TrailInv, OneThreadPerId, OwnEntries, Busy, OwnNames
    <3>2. AnsweredOnce'
      BY <1>1, <1>6, <1>8 DEF TrailInv, AnsweredOnce, Busy
    <3>3. NoEntriesYet'
      BY <1>1, <1>2 DEF TrailInv, NoEntriesYet, Ids
    <3>4. EntriesNameOwner'
      BY <1>2, <1>5, <1>8 DEF TrailInv, EntriesNameOwner
    <3> QED
      BY <3>1, <3>2, <3>3, <3>4 DEF TrailInv
  <2>4. AllowedIsAuthorised'
    BY <1>2, <1>8 DEF AllowedIsAuthorised, Authorised
  <2> QED
    BY <2>1, <2>2, <2>3, <2>4
<1> QED
  BY <1>3, <1>7, <1>8

(* Gate 1 refuses, and so may any gate after it. *)
LEMMA RefuseKeeps ==
  ASSUME Inv, NEW t \in Threads, Busy(t), NEW gate \in Gates, Refuse(t, gate),
         UNCHANGED <<agent, gate3, counted, arrived>>
  PROVE  Inv'
<1>1. pc[t] \in Labels \ {"idle"} /\ "refused" \in Labels \ {"idle"}
  BY DEF Inv, TypeOK, Labels, Busy
<1>2. counted' \in [Callers -> Nat] /\ WithinLimits'
  BY DEF Inv, TypeOK, WithinLimits
<1> QED
  BY <1>1, <1>2, MoveKeeps DEF Refuse

LEMMA SchemeStep ==
  ASSUME Inv, NEW t \in Threads, CheckScheme(t)
  PROVE  Inv'
<1>1. pc[t] = "scheme" /\ Busy(t) /\ UNCHANGED <<agent, gate3, counted, arrived>>
  BY DEF CheckScheme, At, Busy, env
<1>2. CASE Refuse(t, "GATE1")
  BY <1>1, <1>2, RefuseKeeps DEF Gates
<1>3. CASE /\ ctx' = [ctx EXCEPT ![t] = req[t].token] /\ pc' = [pc EXCEPT ![t] = "gate1"]
           /\ UNCHANGED <<id, req, who, trail, answers>>
  <2> USE DEF Inv
  <2>1. req[t] \in Requests /\ req[t].token \in TokenType
    BY <1>1, RequestsAssumption DEF ThreadInv, ThreadServes, RequestType
  <2>2. TypeOK'
    BY <1>1, <1>3, <2>1 DEF TypeOK, WithinLimits, Labels
  <2>3. /\ pc'[t] = "gate1" /\ ctx'[t] = req[t].token
        /\ \A u \in Threads : u # t => pc'[u] = pc[u] /\ ctx'[u] = ctx[u]
    BY <1>3 DEF TypeOK
  <2>4. ThreadInv'
    <3>1. ThreadServes' /\ ThreadIdle'
      BY <1>1, <1>3, <2>3 DEF ThreadInv, ThreadServes, ThreadIdle, Busy, OwnNames
    <3>2. ThreadContext'
      BY <1>3, <2>3 DEF ThreadInv, ThreadContext
    <3>3. ThreadAuthenticated' /\ ThreadPermitted' /\ ThreadChecked'
      BY <1>1, <1>3, <2>3 DEF ThreadInv, ThreadAuthenticated, ThreadPermitted, Permitted,
           ThreadChecked
    <3> QED
      BY <3>1, <3>2, <3>3 DEF ThreadInv
  <2>5. TrailInv'
    BY <1>1, <1>3, <2>3 DEF TrailInv, OneThreadPerId, AnsweredOnce, NoEntriesYet,
         OwnEntries, EntriesNameOwner, Busy, OwnNames
  <2>6. AllowedIsAuthorised'
    BY <1>1, <1>3 DEF AllowedIsAuthorised, Authorised
  <2> QED
    BY <2>2, <2>4, <2>5, <2>6
<1> QED
  BY <1>2, <1>3 DEF CheckScheme, SetContext

(* Gate 1 takes the identity from the context, which is this thread's own. *)
LEMMA Gate1Step ==
  ASSUME Inv, NEW t \in Threads, Gate1Allows(t)
  PROVE  Inv'
<1> USE DEF Inv
<1>1. pc[t] = "gate1" /\ Busy(t) /\ ctx[t] = req[t].token /\ req[t] \in Requests
      /\ UNCHANGED <<agent, gate3, id, req, ctx, counted, arrived, answers>>
  BY DEF Gate1Allows, At, Busy, env, ThreadInv, ThreadContext, ThreadServes
<1>2. req[t].token.ok /\ req[t].token \in TokenType
  BY <1>1, RequestsAssumption DEF Gate1Allows, RequestType
<1>3. /\ who' = [who EXCEPT ![t] = Identity(req[t].token)]
      /\ Log(t, "GATE1", "ALLOW", Identity(req[t].token))
      /\ pc' = [pc EXCEPT ![t] = "gate2"]
  BY <1>1 DEF Gate1Allows
<1>4. Identity(req[t].token) \in Identities
  BY <1>2 DEF Identity, Identities, TokenType
<1>5. TypeOK'
  <2>1. trail' \in [Ids -> Seq(Entries)]
    BY <1>1, <1>3, <1>4, LogType DEF ThreadInv, Gates
  <2> QED
    BY <1>1, <1>3, <1>4, <2>1 DEF TypeOK, WithinLimits, Labels
<1>6. /\ pc'[t] = "gate2" /\ who'[t] = Identity(req[t].token)
      /\ \A u \in Threads : u # t => pc'[u] = pc[u] /\ who'[u] = who[u]
  BY <1>3 DEF TypeOK
<1>7. ThreadInv'
  <2>1. ThreadServes' /\ ThreadIdle'
    BY <1>1, <1>6 DEF ThreadInv, ThreadServes, ThreadIdle, Busy, OwnNames
  <2>2. ThreadContext' /\ ThreadChecked'
    BY <1>1, <1>6 DEF ThreadInv, ThreadContext, ThreadChecked
  <2>3. ThreadAuthenticated' /\ ThreadPermitted'
    BY <1>1, <1>2, <1>6 DEF ThreadInv, ThreadAuthenticated, ThreadPermitted, Permitted
  <2> QED
    BY <2>1, <2>2, <2>3 DEF ThreadInv
<1>8. TrailInv'
  <2>1. Identity(req[t].token) \in OwnNames(t) /\ \A u \in Threads : Busy(u)' => Busy(u)
    BY <1>1, <1>6 DEF OwnNames, Busy
  <2> QED
    BY <1>1, <1>3, <2>1, LogKeepsTrail DEF ThreadInv
<1>9. AllowedIsAuthorised'
  BY <1>1 DEF AllowedIsAuthorised, Authorised
<1> QED
  BY <1>5, <1>7, <1>8, <1>9

LEMMA Gate1DenyStep ==
  ASSUME Inv, NEW t \in Threads, Gate1Denies(t)
  PROVE  Inv'
BY RefuseKeeps DEF Gate1Denies, At, Busy, env, Gates

LEMMA Gate2Step ==
  ASSUME Inv, NEW t \in Threads, Gate2(t)
  PROVE  Inv'
<1>1. pc[t] = "gate2" /\ Busy(t) /\ UNCHANGED <<agent, gate3, counted, arrived>>
  BY DEF Gate2, At, Busy, env
<1>2. CASE Refuse(t, "GATE2")
  BY <1>1, <1>2, RefuseKeeps DEF Gates
<1>3. CASE Permitted(t) /\ Pass(t, "GATE2", "gate3")
  <2>1. counted' \in [Callers -> Nat] /\ WithinLimits'
    BY <1>1 DEF Inv, TypeOK, WithinLimits
  <2>2. {"gate2", "gate3"} \subseteq Labels \ {"idle"} /\ "GATE2" \in Gates
    BY DEF Labels, Gates
  <2> QED
    BY <1>1, <1>3, <2>1, <2>2, MoveKeeps DEF Pass
<1> QED
  BY <1>2, <1>3 DEF Gate2

LEMMA Gate3Step ==
  ASSUME Inv, NEW t \in Threads, Gate3(t)
  PROVE  Inv'
<1>1. pc[t] = "gate3" /\ Busy(t) /\ UNCHANGED <<agent, gate3, arrived>>
  BY DEF Gate3, At, Busy, env
<1>2. CASE Refuse(t, "GATE3") /\ UNCHANGED counted
  BY <1>1, <1>2, RefuseKeeps DEF Gates
<1>3. CASE /\ Pass(t, "GATE3", "gate4")
           /\ \/ UNCHANGED counted
              \/ BelowLimit(t) /\ counted' = [counted EXCEPT ![CallerOf(t)] = @ + 1]
  <2>1. counted' \in [Callers -> Nat] /\ WithinLimits'
    <3>1. CASE UNCHANGED counted
      BY <1>1, <3>1 DEF Inv, TypeOK, WithinLimits
    <3>2. CASE BelowLimit(t) /\ counted' = [counted EXCEPT ![CallerOf(t)] = @ + 1]
      BY <1>1, <3>2, CountKept DEF Inv
    <3> QED
      BY <1>3, <3>1, <3>2
  <2>2. {"gate3", "gate4"} \subseteq Labels \ {"idle"} /\ "GATE3" \in Gates
    BY DEF Labels, Gates
  <2>3. Permitted(t)
    BY <1>1 DEF Inv, ThreadInv, ThreadPermitted
  <2> QED
    BY <1>1, <1>3, <2>1, <2>2, <2>3, MoveKeeps DEF Pass
<1> QED
  BY <1>2, <1>3 DEF Gate3

LEMMA Gate4Step ==
  ASSUME Inv, NEW t \in Threads, Gate4(t)
  PROVE  Inv'
<1>1. pc[t] = "gate4" /\ Busy(t) /\ UNCHANGED <<agent, gate3, counted, arrived>>
  BY DEF Gate4, At, Busy, env
<1>2. CASE Refuse(t, "GATE4")
  BY <1>1, <1>2, RefuseKeeps DEF Gates
<1>3. CASE WellFormed(req[t].action, req[t].args) /\ Pass(t, "GATE4", "all")
  <2>1. counted' \in [Callers -> Nat] /\ WithinLimits'
    BY <1>1 DEF Inv, TypeOK, WithinLimits
  <2>2. {"gate4", "all"} \subseteq Labels \ {"idle"} /\ "GATE4" \in Gates
    BY DEF Labels, Gates
  <2>3. Permitted(t)
    BY <1>1 DEF Inv, ThreadInv, ThreadPermitted
  <2> QED
    BY <1>1, <1>3, <2>1, <2>2, <2>3, MoveKeeps DEF Pass
<1> QED
  BY <1>2, <1>3 DEF Gate4

LEMMA AllGatesStep ==
  ASSUME Inv, NEW t \in Threads, AllGates(t)
  PROVE  Inv'
<1>1. pc[t] = "all" /\ UNCHANGED <<agent, gate3, counted, arrived>>
      /\ Pass(t, "ALL_GATES", "allowed")
  BY DEF AllGates, At, env
<1>2. counted' \in [Callers -> Nat] /\ WithinLimits'
  BY <1>1 DEF Inv, TypeOK, WithinLimits
<1>3. {"all", "allowed"} \subseteq Labels \ {"idle"} /\ "ALL_GATES" \in Gates
  BY DEF Labels, Gates
<1>4. Permitted(t) /\ WellFormed(req[t].action, req[t].args)
  BY <1>1 DEF Inv, ThreadInv, ThreadPermitted, ThreadChecked
<1> QED
  BY <1>1, <1>2, <1>3, <1>4, MoveKeeps DEF Pass

LEMMA AnswerAllowStep ==
  ASSUME Inv, NEW t \in Threads, AnswerAllow(t)
  PROVE  Inv'
<1>1. pc[t] = "allowed" /\ Busy(t) /\ UNCHANGED <<agent, gate3, counted, trail, arrived>>
  BY DEF AnswerAllow, At, Busy, env
<1>2. counted' \in [Callers -> Nat] /\ WithinLimits'
  BY <1>1 DEF Inv, TypeOK, WithinLimits
<1>3. CASE Reply(t, "allow")
  <2>1. req[t] \in Requests /\ req[t].token.ok /\ who[t] = Identity(req[t].token)
        /\ Permitted(t) /\ WellFormed(req[t].action, req[t].args)
    BY <1>1 DEF Inv, ThreadInv, ThreadServes, ThreadAuthenticated, ThreadPermitted,
         ThreadChecked
  <2>2. Authorised(req[t])
    BY <2>1, PermittedIsAuthorised DEF Permitted, Identity
  <2>3. AllowedIsAuthorised'
    BY <1>1, <1>3, <2>2 DEF Inv, AllowedIsAuthorised, Authorised, Reply
  <2> QED
    BY <1>1, <1>2, <1>3, <2>3, AnswerKeeps DEF Replies
<1>4. CASE Reply(t, "error")
  <2>1. AllowedIsAuthorised'
    BY <1>1, <1>4, AllowedKept DEF Inv, Replies
  <2> QED
    BY <1>1, <1>2, <1>4, <2>1, AnswerKeeps DEF Replies
<1> QED
  BY <1>3, <1>4 DEF AnswerAllow

LEMMA AnswerDenyStep ==
  ASSUME Inv, NEW t \in Threads, AnswerDeny(t)
  PROVE  Inv'
<1>1. Busy(t) /\ Reply(t, "deny") /\ UNCHANGED <<agent, gate3, counted, trail, arrived>>
  BY DEF AnswerDeny, At, Busy, env
<1>2. counted' \in [Callers -> Nat] /\ WithinLimits'
  BY <1>1 DEF Inv, TypeOK, WithinLimits
<1>3. AllowedIsAuthorised'
  BY <1>1, AllowedKept DEF Inv, Replies
<1> QED
  BY <1>1, <1>2, <1>3, AnswerKeeps DEF Replies

LEMMA FailsStep ==
  ASSUME Inv, NEW t \in Threads, Fails(t)
  PROVE  Inv'
<1>1. Busy(t) /\ Reply(t, "error") /\ UNCHANGED <<agent, gate3, trail, arrived>>
  BY DEF Fails, Busy, env
<1>2. counted' \in [Callers -> Nat] /\ WithinLimits'
  <2>1. CASE UNCHANGED counted
    BY <1>1, <2>1 DEF Inv, TypeOK, WithinLimits
  <2>2. CASE pc[t] = "gate3" /\ BelowLimit(t) /\ counted' = [counted EXCEPT ![CallerOf(t)] = @ + 1]
    BY <1>1, <2>2, CountKept DEF Inv
  <2> QED
    BY <2>1, <2>2 DEF Fails, At
<1>3. AllowedIsAuthorised'
  BY <1>1, AllowedKept DEF Inv, Replies
<1> QED
  BY <1>1, <1>2, <1>3, AnswerKeeps DEF Replies

(* What happens outside the threads: Gate 3's calls age or are reset. *)
LEMMA CountersStep ==
  ASSUME Inv, WindowSlides \/ DebugReset
  PROVE  Inv'
<1> USE DEF Inv
<1>1. UNCHANGED <<agent, gate3, pc, id, req, ctx, who, trail, arrived, answers>>
  BY DEF WindowSlides, DebugReset, env
<1>2. /\ counted' \in [Callers -> Nat]
      /\ \A c \in Callers : counted'[c] <= counted[c]
  <2>1. counted \in [Callers -> Nat]
    BY DEF TypeOK
  <2>2. CASE WindowSlides
    <3>1. PICK c \in Callers : counted[c] > 0 /\ counted' = [counted EXCEPT ![c] = @ - 1]
      BY <2>2 DEF WindowSlides
    <3>2. counted[c] - 1 \in Nat
      BY <2>1, <3>1
    <3> QED
      BY <2>1, <3>1, <3>2
  <2>3. CASE DebugReset
    BY <2>1, <2>3 DEF DebugReset
  <2> QED
    BY <2>2, <2>3
<1>3. WithinLimits'
  BY <1>2, CountLowered
<1>4. TypeOK'
  BY <1>1, <1>2, <1>3 DEF TypeOK
<1>5. ThreadInv'
  BY <1>1 DEF ThreadInv, ThreadServes, ThreadIdle, ThreadContext, ThreadAuthenticated,
       ThreadPermitted, Permitted, ThreadChecked, Busy, OwnNames
<1>6. TrailInv'
  BY <1>1 DEF TrailInv, OneThreadPerId, AnsweredOnce, NoEntriesYet, OwnEntries,
       EntriesNameOwner, Busy, OwnNames
<1>7. AllowedIsAuthorised'
  BY <1>1 DEF AllowedIsAuthorised, Authorised
<1> QED
  BY <1>4, <1>5, <1>6, <1>7

(* A new process serves nobody; what the log says and what was answered    *)
(* stay, or the log begins anew.                                           *)
LEMMA RestartStep ==
  ASSUME Inv, Restart
  PROVE  Inv'
<1> USE DEF Inv
<1>1. UNCHANGED <<agent, gate3, arrived>>
  BY DEF Restart, env
<1>2. \A t \in Threads : pc'[t] = "idle" /\ who'[t] = Nothing
  BY DEF Restart
<1>3. \/ UNCHANGED <<trail, answers>>
      \/ trail' = [i \in Ids |-> <<>>] /\ answers' = {}
  BY DEF Restart
<1>4. TypeOK'
  <2>1. trail' \in [Ids -> Seq(Entries)] /\ answers' \subseteq [id : Ids, req : Requests, reply : Replies]
    <3>1. <<>> \in Seq(Entries)
      BY EmptySeq
    <3> QED
      BY <1>3, <3>1 DEF TypeOK
  <2>2. counted' \in [Callers -> Nat] /\ WithinLimits'
    BY LimitType DEF Restart, WithinLimits
  <2> QED
    BY <1>1, <2>1, <2>2, BoundAssumption DEF TypeOK, Restart, Labels
<1>5. ThreadInv'
  BY <1>2 DEF ThreadInv, ThreadServes, ThreadIdle, ThreadContext, ThreadAuthenticated,
       ThreadPermitted, ThreadChecked, Busy
<1>6. TrailInv'
  BY <1>1, <1>2, <1>3 DEF TrailInv, OneThreadPerId, AnsweredOnce, NoEntriesYet, OwnEntries,
       EntriesNameOwner, Busy
<1>7. AllowedIsAuthorised'
  BY <1>1, <1>3 DEF AllowedIsAuthorised, Authorised
<1> QED
  BY <1>4, <1>5, <1>6, <1>7

LEMMA InvStep ==
  ASSUME Inv, [Next]_vars
  PROVE  Inv'
<1>1. ASSUME NEW t \in Threads, ThreadStep(t)
      PROVE  Inv'
  BY <1>1, SchemeStep, Gate1Step, Gate1DenyStep, Gate2Step, Gate3Step, Gate4Step,
     AllGatesStep, AnswerAllowStep, AnswerDenyStep, FailsStep DEF ThreadStep
<1>2. CASE UNCHANGED vars
  BY <1>2 DEF vars, Inv, TypeOK, WithinLimits, ThreadInv, ThreadServes, ThreadIdle, ThreadContext,
       ThreadAuthenticated, ThreadPermitted, Permitted, ThreadChecked, TrailInv,
       OneThreadPerId, AnsweredOnce, NoEntriesYet, OwnEntries, EntriesNameOwner, Busy,
       OwnNames, AllowedIsAuthorised, Authorised
<1> QED
  BY <1>1, <1>2, ReceiveStep, CountersStep, RestartStep DEF Next

LEMMA InvHolds == Spec => []Inv
<1>1. Init => Inv
  BY InvInit
<1>2. Inv /\ [Next]_vars => Inv'
  BY InvStep
<1> QED
  BY <1>1, <1>2, PTL DEF Spec
----------------------------------------------------------------------------
(* What the caller is told and what the log says.  A second invariant,     *)
(* over the first: how many ALLOW entries a request has at each label.     *)

AtStage(t, n) ==
  \/ n = 0 /\ pc[t] \in {"scheme", "gate1"}
  \/ n = 1 /\ pc[t] = "gate2"
  \/ n = 2 /\ pc[t] = "gate3"
  \/ n = 3 /\ pc[t] = "gate4"
  \/ n = 4 /\ pc[t] = "all"
  \/ n = 5 /\ pc[t] = "allowed"

StageTrail ==
  \A t \in Threads : \A n \in 0 .. 5 :
    AtStage(t, n) => Passed(trail[id[t]]) /\ Len(trail[id[t]]) = n

RefusedTrail ==
  \A t \in Threads : pc[t] = "refused" => RefusedAtLast(trail[id[t]])

TellInv == StageTrail /\ RefusedTrail /\ TrailTellsAnswer

LEMMA AppendPass ==
  ASSUME NEW s \in Seq(Entries), NEW e \in Entries, Passed(s), Len(s) < 5,
         e.gate = Chain[Len(s) + 1], e.decision = "ALLOW"
  PROVE  Passed(Append(s, e)) /\ Len(Append(s, e)) = Len(s) + 1
<1>1. /\ Len(s) \in Nat /\ Len(Append(s, e)) = Len(s) + 1
      /\ \A i \in 1 .. Len(s) : Append(s, e)[i] = s[i]
      /\ Append(s, e)[Len(s) + 1] = e
  BY AppendProperties
<1> QED
  BY <1>1 DEF Passed

LEMMA AppendRefusal ==
  ASSUME NEW s \in Seq(Entries), NEW e \in Entries, Passed(s), Len(s) < 4,
         e.gate = Chain[Len(s) + 1], e.decision = "DENY"
  PROVE  RefusedAtLast(Append(s, e))
<1>1. /\ Len(s) \in Nat /\ Len(Append(s, e)) = Len(s) + 1
      /\ \A i \in 1 .. Len(s) : Append(s, e)[i] = s[i]
      /\ Append(s, e)[Len(s) + 1] = e
  BY AppendProperties
<1> QED
  BY <1>1 DEF Passed, RefusedAtLast

(* Two readings of a log that exclude each other. *)
LEMMA PassedNotRefused ==
  ASSUME NEW s, Passed(s)
  PROVE  ~RefusedAtLast(s)
<1>1. SUFFICES ASSUME Len(s) \in 1 .. 4, s[Len(s)].decision = "DENY"
               PROVE  FALSE
  BY DEF RefusedAtLast
<1> QED
  BY <1>1 DEF Passed

(* A decision is logged under the thread's id; the thread moves on or is   *)
(* on its way out.                                                         *)
LEMMA LogTells ==
  ASSUME Inv, TellInv, NEW t \in Threads, NEW n \in 0 .. 4, AtStage(t, n),
         NEW decision \in {"ALLOW", "DENY"}, NEW identity \in Identities \cup {Nothing},
         Log(t, Chain[n + 1], decision, identity), Chain[n + 1] \in Gates,
         UNCHANGED <<id, answers>>,
         \A u \in Threads : u # t => pc'[u] = pc[u],
         \/ decision = "ALLOW" /\ AtStage(t, n + 1)'
         \/ decision = "DENY" /\ n < 4 /\ pc'[t] = "refused"
  PROVE  TellInv'
<1> DEFINE e == Entry(t, Chain[n + 1], decision, identity)
<1>1. Busy(t) /\ id[t] \in Ids
  BY BoundAssumption DEF AtStage, Busy, Inv, TypeOK, ThreadInv, ThreadServes, Ids
<1>2. /\ trail[id[t]] \in Seq(Entries) /\ e \in Entries
      /\ Passed(trail[id[t]]) /\ Len(trail[id[t]]) = n
  <2>1. trail[id[t]] \in Seq(Entries)
    BY <1>1 DEF Inv, TypeOK
  <2>2. e \in Entries
    BY <1>1, EntryType DEF Inv, ThreadInv
  <2>3. Passed(trail[id[t]]) /\ Len(trail[id[t]]) = n
    <3>1. n \in 0 .. 5
      OBVIOUS
    <3>2. \A m \in 0 .. 5 : AtStage(t, m) => Passed(trail[id[t]]) /\ Len(trail[id[t]]) = m
      BY DEF TellInv, StageTrail
    <3> QED
      BY <3>1, <3>2, Zenon
  <2> QED
    BY <2>1, <2>2, <2>3
<1>3. /\ trail'[id[t]] = Append(trail[id[t]], e)
      /\ \A i \in Ids : i # id[t] => trail'[i] = trail[i]
  <2>1. trail \in [Ids -> Seq(Entries)]
    BY DEF Inv, TypeOK
  <2>2. trail' = [trail EXCEPT ![id[t]] = Append(@, e)]
    BY DEF Log
  <2> QED
    BY <1>1, <2>1, <2>2
<1>4. \A u \in Threads : u # t /\ Busy(u) => id[u] # id[t] /\ id[u] \in Ids
  BY <1>1, BoundAssumption DEF Inv, TypeOK, TrailInv, OneThreadPerId, ThreadInv,
       ThreadServes, Ids
<1>5. \/ /\ decision = "ALLOW" /\ AtStage(t, n + 1)' /\ Passed(trail'[id[t]])
         /\ Len(trail'[id[t]]) = n + 1
      \/ decision = "DENY" /\ pc'[t] = "refused" /\ RefusedAtLast(trail'[id[t]])
  BY <1>2, <1>3, AppendPass, AppendRefusal DEF Entry
<1>6. \A m \in 0 .. 5 : AtStage(t, m)' => m = n + 1 /\ decision = "ALLOW"
  BY <1>5 DEF AtStage
<1>7. StageTrail'
  <2> SUFFICES ASSUME NEW u \in Threads, NEW m \in 0 .. 5, AtStage(u, m)'
               PROVE  Passed(trail'[id[u]]) /\ Len(trail'[id[u]]) = m
    BY DEF StageTrail
  <2>1. CASE u = t
    BY <1>5, <1>6, <2>1
  <2>2. CASE u # t
    <3>1. AtStage(u, m) /\ Busy(u)
      BY <2>2 DEF AtStage, Busy
    <3> QED
      BY <1>3, <1>4, <2>2, <3>1 DEF TellInv, StageTrail
  <2> QED
    BY <2>1, <2>2
<1>8. RefusedTrail'
  <2> SUFFICES ASSUME NEW u \in Threads, pc'[u] = "refused"
               PROVE  RefusedAtLast(trail'[id[u]])
    BY DEF RefusedTrail
  <2>1. CASE u = t
    BY <1>5, <2>1 DEF AtStage
  <2>2. CASE u # t
    BY <1>3, <1>4, <2>2 DEF TellInv, RefusedTrail, Busy
  <2> QED
    BY <2>1, <2>2
<1>9. TrailTellsAnswer'
  <2>1. \A i \in Ids : Passed(trail'[i]) \/ RefusedAtLast(trail'[i])
    BY <1>3, <1>5 DEF TellInv, TrailTellsAnswer
  <2>2. \A a \in answers : a.id \in Ids /\ a.id # id[t]
    BY <1>1, BoundAssumption DEF Inv, TypeOK, TrailInv, AnsweredOnce, Ids
  <2> QED
    BY <1>3, <2>1, <2>2 DEF TellInv, TrailTellsAnswer
<1> QED
  BY <1>7, <1>8, <1>9 DEF TellInv

(* An answer in agreement with the log. *)
LEMMA ReplyTells ==
  ASSUME Inv, TellInv, NEW t \in Threads, Busy(t), NEW reply \in Replies, Reply(t, reply),
         UNCHANGED trail,
         reply = "allow" => pc[t] = "allowed",
         reply = "deny" <=> pc[t] = "refused"
  PROVE  TellInv'
<1>1. \A u \in Threads : pc'[u] = "idle" \/ (pc'[u] = pc[u] /\ id'[u] = id[u])
  BY DEF Reply, Inv, TypeOK
<1>2. StageTrail' /\ RefusedTrail'
  BY <1>1 DEF TellInv, StageTrail, RefusedTrail, AtStage
<1>3. answers' = answers \cup {[id |-> id[t], req |-> req[t], reply |-> reply]}
  BY DEF Reply
<1>4. reply = "allow" => Passed(trail[id[t]]) /\ Len(trail[id[t]]) = 5
  BY DEF TellInv, StageTrail, AtStage
<1>5. reply = "deny" <=> RefusedAtLast(trail[id[t]])
  <2>1. CASE pc[t] = "refused"
    BY <2>1 DEF TellInv, RefusedTrail
  <2>2. CASE pc[t] # "refused"
    <3>1. \E n \in 0 .. 5 : AtStage(t, n)
      BY <2>2 DEF Inv, TypeOK, Labels, AtStage, Busy
    <3> QED
      BY <2>2, <3>1, PassedNotRefused DEF TellInv, StageTrail
  <2> QED
    BY <2>1, <2>2
<1>6. TrailTellsAnswer'
  BY <1>3, <1>4, <1>5 DEF TellInv, TrailTellsAnswer
<1> QED
  BY <1>2, <1>6 DEF TellInv

LEMMA RefuseTells ==
  ASSUME Inv, TellInv, NEW t \in Threads, NEW n \in 0 .. 3, AtStage(t, n),
         Refuse(t, Chain[n + 1])
  PROVE  TellInv'
<1>1. Chain[n + 1] \in Gates
  BY DEF Chain, Gates
<1>2. who[t] \in Identities \cup {Nothing}
  BY DEF Inv, TypeOK
<1>3. pc'[t] = "refused" /\ \A u \in Threads : u # t => pc'[u] = pc[u]
  BY DEF Refuse, Inv, TypeOK
<1> QED
  BY <1>1, <1>2, <1>3, LogTells DEF Refuse

LEMMA PassTells ==
  ASSUME Inv, TellInv, NEW t \in Threads, NEW n \in 0 .. 4, AtStage(t, n), NEW to,
         Pass(t, Chain[n + 1], to), AtStage(t, n + 1)'
  PROVE  TellInv'
<1>1. Chain[n + 1] \in Gates
  BY DEF Chain, Gates
<1>2. who[t] \in Identities \cup {Nothing}
  BY DEF Inv, TypeOK
<1>3. \A u \in Threads : u # t => pc'[u] = pc[u]
  BY DEF Pass, Inv, TypeOK
<1> QED
  BY <1>1, <1>2, <1>3, LogTells DEF Pass

LEMMA TellStep ==
  ASSUME Inv, TellInv, [Next]_vars
  PROVE  TellInv'
<1> USE DEF Inv
<1>1. ASSUME NEW t \in Threads, Receive(t)
      PROVE  TellInv'
  <2>1. arrived + 1 \in Ids /\ UNCHANGED trail
    BY <1>1, BoundAssumption DEF Receive, TypeOK, Ids
  <2>2. trail[arrived + 1] = <<>>
    BY <2>1, BoundAssumption DEF TrailInv, NoEntriesYet, TypeOK
  <2>3. Passed(trail[arrived + 1]) /\ Len(trail[arrived + 1]) = 0
    BY <2>2 DEF Passed
  <2>4. \A u \in Threads : \/ pc'[u] = pc[u] /\ id'[u] = id[u]
                           \/ pc'[u] = "scheme" /\ id'[u] = arrived + 1
    BY <1>1 DEF Receive, TypeOK
  <2>5. StageTrail' /\ RefusedTrail'
    BY <2>1, <2>3, <2>4 DEF TellInv, StageTrail, RefusedTrail, AtStage
  <2>6. \A a \in answers' : a \in answers \/ (a.id = arrived + 1 /\ a.reply = "invalid")
    BY <1>1 DEF Receive
  <2>7. ~RefusedAtLast(trail[arrived + 1])
    BY <2>3, PassedNotRefused
  <2>8. TrailTellsAnswer'
    BY <2>1, <2>6, <2>7 DEF TellInv, TrailTellsAnswer
  <2> QED
    BY <2>5, <2>8 DEF TellInv
<1>2. ASSUME NEW t \in Threads, CheckScheme(t)
      PROVE  TellInv'
  <2>1. AtStage(t, 0)
    BY <1>2 DEF CheckScheme, At, AtStage
  <2>2. CASE Refuse(t, "GATE1")
    BY <2>1, <2>2, RefuseTells DEF Chain
  <2>3. CASE pc' = [pc EXCEPT ![t] = "gate1"] /\ UNCHANGED <<id, trail, answers>>
    <3>1. \A u \in Threads : \/ pc'[u] = pc[u]
                             \/ u = t /\ pc'[t] = "gate1" /\ pc[t] = "scheme"
      BY <1>2, <2>3 DEF CheckScheme, At, TypeOK
    <3> QED
      BY <2>3, <3>1 DEF TellInv, StageTrail, RefusedTrail, TrailTellsAnswer, AtStage
  <2> QED
    BY <1>2, <2>2, <2>3 DEF CheckScheme
<1>3. ASSUME NEW t \in Threads, Gate1Allows(t)
      PROVE  TellInv'
  <2>1. /\ AtStage(t, 0) /\ AtStage(t, 1)' /\ UNCHANGED <<id, answers>>
        /\ \A u \in Threads : u # t => pc'[u] = pc[u]
    BY <1>3 DEF Gate1Allows, At, AtStage, TypeOK
  <2>2. Log(t, Chain[1], "ALLOW", Identity(ctx[t])) /\ Chain[1] \in Gates
    BY <1>3 DEF Gate1Allows, Chain, Gates
  <2>3. Identity(ctx[t]) \in Identities
    <3>1. pc[t] = "gate1"
      BY <1>3 DEF Gate1Allows, At
    <3>2. ctx[t] = req[t].token /\ req[t] \in Requests
      BY <3>1 DEF ThreadInv, ThreadContext, ThreadServes, Busy
    <3>3. ctx[t] \in TokenType
      BY <3>2, RequestsAssumption DEF RequestType
    <3> QED
      BY <3>3 DEF TokenType, Identity, Identities
  <2> QED
    BY <2>1, <2>2, <2>3, LogTells
<1>4. ASSUME NEW t \in Threads, Gate1Denies(t)
      PROVE  TellInv'
  <2>1. AtStage(t, 0) /\ Refuse(t, "GATE1")
    BY <1>4 DEF Gate1Denies, At, AtStage
  <2> QED
    BY <2>1, RefuseTells DEF Chain
<1>5. ASSUME NEW t \in Threads, Gate2(t)
      PROVE  TellInv'
  <2>1. AtStage(t, 1)
    BY <1>5 DEF Gate2, At, AtStage
  <2>2. CASE Refuse(t, "GATE2")
    BY <2>1, <2>2, RefuseTells DEF Chain
  <2>3. CASE Pass(t, "GATE2", "gate3")
    <3>1. AtStage(t, 2)'
      BY <2>3 DEF Pass, AtStage, TypeOK
    <3> QED
      BY <2>1, <2>3, <3>1, PassTells DEF Chain
  <2> QED
    BY <1>5, <2>2, <2>3 DEF Gate2
<1>6. ASSUME NEW t \in Threads, Gate3(t)
      PROVE  TellInv'
  <2>1. AtStage(t, 2)
    BY <1>6 DEF Gate3, At, AtStage
  <2>2. CASE Refuse(t, "GATE3")
    BY <2>1, <2>2, RefuseTells DEF Chain
  <2>3. CASE Pass(t, "GATE3", "gate4")
    <3>1. AtStage(t, 3)'
      BY <2>3 DEF Pass, AtStage, TypeOK
    <3> QED
      BY <2>1, <2>3, <3>1, PassTells DEF Chain
  <2> QED
    BY <1>6, <2>2, <2>3 DEF Gate3
<1>7. ASSUME NEW t \in Threads, Gate4(t)
      PROVE  TellInv'
  <2>1. AtStage(t, 3)
    BY <1>7 DEF Gate4, At, AtStage
  <2>2. CASE Refuse(t, "GATE4")
    BY <2>1, <2>2, RefuseTells DEF Chain
  <2>3. CASE Pass(t, "GATE4", "all")
    <3>1. AtStage(t, 4)'
      BY <2>3 DEF Pass, AtStage, TypeOK
    <3> QED
      BY <2>1, <2>3, <3>1, PassTells DEF Chain
  <2> QED
    BY <1>7, <2>2, <2>3 DEF Gate4
<1>8. ASSUME NEW t \in Threads, AllGates(t)
      PROVE  TellInv'
  <2>1. AtStage(t, 4) /\ Pass(t, "ALL_GATES", "allowed")
    BY <1>8 DEF AllGates, At, AtStage
  <2>2. AtStage(t, 5)'
    BY <2>1 DEF Pass, AtStage, TypeOK
  <2> QED
    BY <2>1, <2>2, PassTells DEF Chain
<1>9. ASSUME NEW t \in Threads, AnswerAllow(t) \/ AnswerDeny(t) \/ Fails(t)
      PROVE  TellInv'
  <2>1. Busy(t) /\ UNCHANGED trail
    BY <1>9 DEF AnswerAllow, AnswerDeny, Fails, At, Busy
  <2>2. PICK reply \in Replies :
          /\ Reply(t, reply)
          /\ reply = "allow" => pc[t] = "allowed"
          /\ reply = "deny" <=> pc[t] = "refused"
    BY <1>9 DEF AnswerAllow, AnswerDeny, Fails, At, Replies
  <2> QED
    BY <2>1, <2>2, ReplyTells
<1>10. CASE WindowSlides \/ DebugReset \/ UNCHANGED vars
  <2>1. UNCHANGED <<pc, id, trail, answers>>
    BY <1>10 DEF WindowSlides, DebugReset, vars
  <2> QED
    BY <2>1 DEF TellInv, StageTrail, RefusedTrail, TrailTellsAnswer, AtStage
<1>11. CASE Restart
  <2>1. \A t \in Threads : pc'[t] = "idle"
    BY <1>11 DEF Restart
  <2>2. StageTrail' /\ RefusedTrail'
    BY <2>1 DEF StageTrail, RefusedTrail, AtStage
  <2>3. TrailTellsAnswer'
    BY <1>11 DEF Restart, TellInv, TrailTellsAnswer, Passed
  <2> QED
    BY <2>2, <2>3 DEF TellInv
<1> QED
  BY <1>1, <1>2, <1>3, <1>4, <1>5, <1>6, <1>7, <1>8, <1>9, <1>10, <1>11
     DEF Next, ThreadStep

LEMMA TellHolds == Spec => []TellInv
<1>1. Init => TellInv
  BY DEF Init, TellInv, StageTrail, RefusedTrail, TrailTellsAnswer, AtStage, Passed
<1>2. Inv /\ TellInv /\ [Next]_vars => TellInv'
  BY TellStep
<1> QED
  BY <1>1, <1>2, InvHolds, PTL DEF Spec
----------------------------------------------------------------------------
(* What is charged to a caller.  A third invariant, over the other two: a  *)
(* thread at Gate 3 has the entry in the log by which Gate 2 let its       *)
(* request through.                                                        *)

GrantLogged ==
  \A t \in Threads :
    pc[t] = "gate3" => trail[id[t]][2] = Entry(t, "GATE2", "ALLOW", who[t])

LEMMA ChargedFinite ==
  ASSUME NEW c \in Callers
  PROVE  IsFiniteSet(Charged(c)) /\ Cardinality(Charged(c)) \in Nat
<1>1. IsFiniteSet(Ids)
  BY BoundAssumption, FS_Interval DEF Ids
<1>2. Charged(c) \subseteq Ids
  BY DEF Charged
<1>3. IsFiniteSet(Charged(c))
  BY <1>1, <1>2, FS_Subset
<1> QED
  BY <1>3, FS_CardinalityType

LEMMA ChargedFiniteNext ==
  ASSUME NEW c \in Callers
  PROVE  IsFiniteSet(Charged(c)')
<1>1. IsFiniteSet(Ids)
  BY BoundAssumption, FS_Interval DEF Ids
<1>2. Charged(c)' \subseteq Ids
  BY DEF Charged
<1> QED
  BY <1>1, <1>2, FS_Subset

(* Nothing was counted, and what was charged remains so. *)
LEMMA NothingCounted ==
  ASSUME Inv, CountsPermittedOnly, counted' \in [Callers -> Nat],
         \A c \in Callers : counted'[c] <= counted[c],
         \A c \in Callers : Charged(c) \subseteq Charged(c)' /\ IsFiniteSet(Charged(c)')
  PROVE  CountsPermittedOnly'
<1> SUFFICES ASSUME NEW c \in Callers
             PROVE  counted'[c] <= Cardinality(Charged(c)')
  BY DEF CountsPermittedOnly
<1>1. Cardinality(Charged(c)) <= Cardinality(Charged(c)')
  BY FS_Subset
<1>2. Cardinality(Charged(c)) \in Nat /\ Cardinality(Charged(c)') \in Nat
  BY ChargedFinite, FS_CardinalityType
<1>3. counted[c] <= Cardinality(Charged(c)) /\ counted[c] \in Nat /\ counted'[c] \in Nat
  BY DEF CountsPermittedOnly, Inv, TypeOK
<1> QED
  BY <1>1, <1>2, <1>3

(* One call was counted, of a request that had not been charged before. *)
LEMMA OneCounted ==
  ASSUME Inv, CountsPermittedOnly, NEW d \in Callers, NEW i \in Charged(d)' \ Charged(d),
         counted' = [counted EXCEPT ![d] = @ + 1],
         \A c \in Callers : Charged(c) \subseteq Charged(c)' /\ IsFiniteSet(Charged(c)')
  PROVE  CountsPermittedOnly'
<1> SUFFICES ASSUME NEW c \in Callers
             PROVE  counted'[c] <= Cardinality(Charged(c)')
  BY DEF CountsPermittedOnly
<1>1. Cardinality(Charged(c)) <= Cardinality(Charged(c)')
  BY FS_Subset
<1>2. /\ IsFiniteSet(Charged(c)) /\ Cardinality(Charged(c)) \in Nat
      /\ Cardinality(Charged(c)') \in Nat
  BY ChargedFinite, FS_CardinalityType
<1>3. counted[c] <= Cardinality(Charged(c)) /\ counted[c] \in Nat /\ counted \in [Callers -> Nat]
  BY DEF CountsPermittedOnly, Inv, TypeOK
<1>4. CASE c = d
  <2>1. Charged(c) \cup {i} \subseteq Charged(c)'
    BY <1>4
  <2>2. Cardinality(Charged(c) \cup {i}) <= Cardinality(Charged(c)')
    BY <2>1, FS_Subset
  <2>3. Cardinality(Charged(c) \cup {i}) = Cardinality(Charged(c)) + 1
    BY <1>2, <1>4, FS_AddElement
  <2> QED
    BY <1>2, <1>3, <1>4, <2>2, <2>3
<1>5. CASE c # d
  BY <1>1, <1>2, <1>3, <1>5
<1> QED
  BY <1>4, <1>5

(* A step that writes no entry and sends nobody to Gate 3. *)
Quiet ==
  /\ UNCHANGED <<agent, trail>>
  /\ \A t \in Threads : pc'[t] = "gate3" =>
       pc[t] = "gate3" /\ id'[t] = id[t] /\ req'[t] = req[t] /\ who'[t] = who[t]

LEMMA QuietKeeps ==
  ASSUME Quiet, GrantLogged
  PROVE  GrantLogged' /\ \A c \in Callers : Charged(c) \subseteq Charged(c)'
<1>1. GrantLogged'
  BY DEF Quiet, GrantLogged, Entry
<1>2. ASSUME NEW c \in Callers, NEW i \in Charged(c)
      PROVE  i \in Charged(c)'
  <2>1. i \in Ids /\ GrantedByGate2(i, c) /\ ~HeldAtGate3(i)
    BY DEF Charged
  <2>2. GrantedByGate2(i, c)'
    BY <2>1 DEF GrantedByGate2, Quiet
  <2>3. ~HeldAtGate3(i)'
    BY <2>1 DEF HeldAtGate3, Quiet
  <2> QED
    BY <2>1, <2>2, <2>3 DEF Charged, Quiet
<1> QED
  BY <1>1, <1>2

(* A thread writes its next entry: the first two of a request that is past *)
(* Gate 3 stay, and so does Gate 3's own.                                  *)
LEMMA LogKeepsCharged ==
  ASSUME Inv, TellInv, GrantLogged, NEW t \in Threads, NEW n \in 0 .. 4, AtStage(t, n),
         NEW gate \in Gates, NEW decision \in {"ALLOW", "DENY"},
         NEW identity \in Identities \cup {Nothing},
         Log(t, gate, decision, identity), UNCHANGED <<agent, id, req>>,
         \A u \in Threads : u # t => pc'[u] = pc[u] /\ who'[u] = who[u],
         pc'[t] = "gate3" =>
           n = 1 /\ gate = "GATE2" /\ decision = "ALLOW" /\ identity = who[t] /\ who'[t] = who[t]
  PROVE  GrantLogged' /\ \A c \in Callers : Charged(c) \subseteq Charged(c)'
<1> DEFINE e == Entry(t, gate, decision, identity)
<1>1. Busy(t) /\ id[t] \in Ids
  BY BoundAssumption DEF AtStage, Busy, Inv, TypeOK, ThreadInv, ThreadServes, Ids
<1>2. e \in Entries /\ trail[id[t]] \in Seq(Entries)
  BY <1>1, EntryType DEF Inv, TypeOK, ThreadInv
<1>3. Len(trail[id[t]]) = n
  <2>1. n \in 0 .. 5
    OBVIOUS
  <2>2. \A m \in 0 .. 5 : AtStage(t, m) => Passed(trail[id[t]]) /\ Len(trail[id[t]]) = m
    BY DEF TellInv, StageTrail
  <2> QED
    BY <2>1, <2>2, Zenon
<1>4. /\ trail'[id[t]] = Append(trail[id[t]], e)
      /\ \A i \in Ids : i # id[t] => trail'[i] = trail[i]
  BY <1>1 DEF Log, Inv, TypeOK
<1> HIDE DEF e
<1>5. /\ Len(trail'[id[t]]) = n + 1 /\ trail'[id[t]][n + 1] = e
      /\ \A i \in 1 .. n : trail'[id[t]][i] = trail[id[t]][i]
  BY <1>2, <1>3, <1>4, AppendProperties
<1>6. GrantLogged'
  <2> SUFFICES ASSUME NEW u \in Threads, pc'[u] = "gate3"
               PROVE  trail'[id[u]][2] = Entry(u, "GATE2", "ALLOW", who'[u])
    BY DEF GrantLogged, Entry
  <2>1. CASE u = t
    BY <1>5, <2>1 DEF e
  <2>2. CASE u # t
    <3>1. id[u] # id[t] /\ id[u] \in Ids /\ pc[u] = "gate3"
      BY <1>1, <2>2, BoundAssumption DEF Busy, Inv, TypeOK, TrailInv, OneThreadPerId,
         ThreadInv, ThreadServes, Ids
    <3> QED
      BY <1>4, <2>2, <3>1 DEF GrantLogged
  <2> QED
    BY <2>1, <2>2
<1>7. ASSUME NEW c \in Callers, NEW i \in Charged(c)
      PROVE  i \in Charged(c)'
  <2>1. /\ i \in Ids /\ GrantedByGate2(i, c) /\ ~HeldAtGate3(i)
        /\ Len(trail[i]) >= 3 => trail[i][3].decision = "ALLOW"
    BY DEF Charged
  <2>2. CASE i # id[t]
    <3>1. trail'[i] = trail[i]
      BY <1>4, <2>1, <2>2
    <3>2. ~HeldAtGate3(i)'
      BY <2>1, <2>2 DEF HeldAtGate3
    <3>3. GrantedByGate2(i, c)'
      BY <2>1, <3>1 DEF GrantedByGate2
    <3> QED
      BY <2>1, <3>1, <3>2, <3>3 DEF Charged
  <2>3. CASE i = id[t]
    <3>1. n \in 3 .. 4
      <4>1. n >= 2
        BY <1>3, <2>1, <2>3 DEF GrantedByGate2
      <4>2. pc[t] # "gate3"
        BY <2>1, <2>3 DEF HeldAtGate3
      <4> QED
        BY <4>1, <4>2 DEF AtStage
    <3>2. /\ trail'[i][2] = trail[i][2] /\ trail'[i][3] = trail[i][3]
          /\ Len(trail'[i]) >= 2 /\ Len(trail[i]) >= 3
      BY <1>3, <1>5, <2>3, <3>1
    <3>3. ~HeldAtGate3(i)'
      BY <2>1, <3>1 DEF HeldAtGate3
    <3>4. GrantedByGate2(i, c)'
      BY <2>1, <3>2 DEF GrantedByGate2
    <3> QED
      BY <2>1, <3>2, <3>3, <3>4 DEF Charged
  <2> QED
    BY <2>2, <2>3
<1> QED
  BY <1>6, <1>7

(* The request of a thread at Gate 3 is charged when the thread has left   *)
(* the gate, unless Gate 3 refused it, and not before.                     *)
LEMMA ChargedAtGate3 ==
  ASSUME Inv, TellInv, GrantLogged, NEW t \in Threads, pc[t] = "gate3", UNCHANGED agent,
         NEW c \in Callers, c = CallerOf(t), NEW i \in Ids, i = id[t],
         pc'[t] # "gate3", \A u \in Threads : u # t => pc'[u] = pc[u] /\ id'[u] = id[u],
         \/ UNCHANGED trail
         \/ /\ Log(t, "GATE3", "ALLOW", who[t])
            /\ UNCHANGED id
  PROVE  i \in Charged(c)' \ Charged(c)
<1>1. /\ who[t] = [principal |-> c.principal, tenant |-> c.tenant] /\ req[t].action = c.action
      /\ Permits(c.principal, c.action, req[t].resource, agent)
  BY CallerType DEF Inv, ThreadInv, ThreadAuthenticated
<1>2. Busy(t) /\ trail[i] \in Seq(Entries)
  BY BoundAssumption DEF Busy, Inv, TypeOK, ThreadInv, ThreadServes, Ids
<1>3. Len(trail[i]) = 2
  <2>1. AtStage(t, 2) /\ 2 \in 0 .. 5
    BY DEF AtStage
  <2> QED
    BY <2>1 DEF TellInv, StageTrail
<1>4. trail[i][2] = Entry(t, "GATE2", "ALLOW", who[t])
  BY DEF GrantLogged
<1>5. /\ trail'[i][2] = trail[i][2] /\ Len(trail'[i]) >= 2
      /\ Len(trail'[i]) >= 3 => trail'[i][3].decision = "ALLOW"
  <2>1. CASE UNCHANGED trail
    BY <1>3, <2>1
  <2>2. CASE Log(t, "GATE3", "ALLOW", who[t])
    <3> DEFINE e == Entry(t, "GATE3", "ALLOW", who[t])
    <3>1. trail'[i] = Append(trail[i], e)
      BY <1>2, <2>2 DEF Log, Inv, TypeOK
    <3>2. e.decision = "ALLOW"
      BY DEF Entry
    <3>3. e \in Entries
      BY <1>2, EntryType DEF Inv, TypeOK, ThreadInv, Gates
    <3> HIDE DEF e
    <3>4. Len(trail'[i]) = 3 /\ trail'[i][3] = e /\ trail'[i][2] = trail[i][2]
      BY <1>2, <1>3, <3>1, <3>3, AppendProperties
    <3> QED
      BY <3>2, <3>4
  <2> QED
    BY <2>1, <2>2
<1>6. trail'[i][2].gate = "GATE2" /\ trail'[i][2].decision = "ALLOW" /\ trail'[i][2].who = who[t]
      /\ trail'[i][2].action = req[t].action /\ trail'[i][2].resource = req[t].resource
  BY <1>4, <1>5 DEF Entry
<1>7. \A u \in Threads : pc'[u] = "gate3" => id'[u] # i
  <2> SUFFICES ASSUME NEW u \in Threads, pc'[u] = "gate3"
               PROVE  id'[u] # i
    OBVIOUS
  <2>1. u # t /\ Busy(u)
    BY DEF Busy
  <2> QED
    BY <1>2, <2>1 DEF Inv, TrailInv, OneThreadPerId
<1>8. i \notin Charged(c)
  BY DEF Charged, HeldAtGate3
<1>9. GrantedByGate2(i, c)'
  BY <1>1, <1>5, <1>6 DEF GrantedByGate2
<1>10. ~HeldAtGate3(i)'
  BY <1>7 DEF HeldAtGate3
<1> QED
  BY <1>5, <1>8, <1>9, <1>10 DEF Charged

ChargeInv == GrantLogged /\ CountsPermittedOnly

LEMMA QuietCharge ==
  ASSUME Inv, ChargeInv, Quiet, counted' \in [Callers -> Nat],
         \A c \in Callers : counted'[c] <= counted[c]
  PROVE  ChargeInv'
<1>1. GrantLogged' /\ \A c \in Callers : Charged(c) \subseteq Charged(c)'
  BY QuietKeeps DEF ChargeInv
<1> QED
  BY <1>1, ChargedFiniteNext, NothingCounted DEF ChargeInv

LEMMA LogCharge ==
  ASSUME Inv, ChargeInv, GrantLogged', UNCHANGED counted,
         \A c \in Callers : Charged(c) \subseteq Charged(c)'
  PROVE  ChargeInv'
<1>1. counted \in [Callers -> Nat] /\ \A c \in Callers : counted'[c] <= counted[c]
  BY DEF Inv, TypeOK
<1> QED
  BY <1>1, ChargedFiniteNext, NothingCounted DEF ChargeInv

LEMMA ChargeStep ==
  ASSUME Inv, TellInv, ChargeInv, [Next]_vars
  PROVE  ChargeInv'
<1> USE DEF Inv
<1>0. /\ counted \in [Callers -> Nat]
      /\ \A t \in Threads : who[t] \in Identities \cup {Nothing}
  BY DEF TypeOK
<1>1. CASE Restart
  <2>1. \A t \in Threads : pc'[t] # "gate3"
    BY <1>1 DEF Restart
  <2>2. GrantLogged'
    BY <2>1 DEF GrantLogged
  <2>3. \A c \in Callers : counted'[c] = 0
    BY <1>1 DEF Restart
  <2>4. \A c \in Callers : Cardinality(Charged(c)') \in Nat
    BY ChargedFiniteNext, FS_CardinalityType
  <2>5. CountsPermittedOnly'
    <3> SUFFICES ASSUME NEW c \in Callers
                 PROVE  counted'[c] <= Cardinality(Charged(c)')
      BY DEF CountsPermittedOnly
    <3> QED
      BY <2>3, <2>4
  <2> QED
    BY <2>2, <2>5 DEF ChargeInv
<1>2. CASE WindowSlides \/ DebugReset \/ UNCHANGED vars
  <2>1. Quiet
    BY <1>2 DEF WindowSlides, DebugReset, vars, env, Quiet
  <2>2. counted' \in [Callers -> Nat] /\ \A c \in Callers : counted'[c] <= counted[c]
    <3>1. CASE WindowSlides
      <4>1. PICK c \in Callers : counted[c] > 0 /\ counted' = [counted EXCEPT ![c] = @ - 1]
        BY <3>1 DEF WindowSlides
      <4>2. counted[c] - 1 \in Nat
        BY <1>0, <4>1
      <4> QED
        BY <1>0, <4>1, <4>2
    <3>2. CASE DebugReset \/ UNCHANGED vars
      BY <1>0, <3>2 DEF DebugReset, vars
    <3> QED
      BY <1>2, <3>1, <3>2
  <2> QED
    BY <2>1, <2>2, QuietCharge
<1>3. ASSUME NEW t \in Threads, Receive(t)
      PROVE  ChargeInv'
  <2>1. Quiet /\ UNCHANGED counted
    BY <1>3 DEF Receive, Quiet, env, TypeOK
  <2> QED
    BY <1>0, <2>1, QuietCharge
<1>4. ASSUME NEW t \in Threads, NEW n \in 0 .. 3, NEW gate \in Gates, AtStage(t, n),
             Refuse(t, gate), UNCHANGED <<agent, counted>>
      PROVE  ChargeInv'
  <2>1. /\ Log(t, gate, "DENY", who[t]) /\ UNCHANGED <<id, req, who>>
        /\ pc'[t] = "refused" /\ \A u \in Threads : u # t => pc'[u] = pc[u]
    BY <1>4 DEF Refuse, TypeOK
  <2>2. GrantLogged' /\ \A c \in Callers : Charged(c) \subseteq Charged(c)'
    BY <1>0, <1>4, <2>1, LogKeepsCharged DEF ChargeInv
  <2> QED
    BY <1>4, <2>2, LogCharge
<1>5. ASSUME NEW t \in Threads, NEW n \in 0 .. 4, NEW gate \in Gates, NEW to, AtStage(t, n),
             Pass(t, gate, to), UNCHANGED agent, to = "gate3" => n = 1 /\ gate = "GATE2"
      PROVE  GrantLogged' /\ \A c \in Callers : Charged(c) \subseteq Charged(c)'
  <2>1. /\ Log(t, gate, "ALLOW", who[t]) /\ UNCHANGED <<id, req, who>>
        /\ pc'[t] = to /\ \A u \in Threads : u # t => pc'[u] = pc[u]
    BY <1>5 DEF Pass, TypeOK
  <2> QED
    BY <1>0, <1>5, <2>1, LogKeepsCharged DEF ChargeInv
<1>6. ASSUME NEW t \in Threads, CheckScheme(t)
      PROVE  ChargeInv'
  <2>1. AtStage(t, 0) /\ UNCHANGED <<agent, counted>> /\ "GATE1" \in Gates
    BY <1>6 DEF CheckScheme, At, AtStage, env, Gates
  <2>2. CASE Refuse(t, "GATE1")
    BY <1>4, <2>1, <2>2
  <2>3. CASE pc' = [pc EXCEPT ![t] = "gate1"] /\ UNCHANGED <<id, req, who, trail>>
    <3>1. Quiet
      BY <2>1, <2>3 DEF Quiet, TypeOK
    <3> QED
      BY <1>0, <2>1, <3>1, QuietCharge
  <2> QED
    BY <1>6, <2>2, <2>3 DEF CheckScheme
<1>7. ASSUME NEW t \in Threads, Gate1Allows(t)
      PROVE  ChargeInv'
  <2>1. AtStage(t, 0) /\ UNCHANGED <<agent, id, req, counted>> /\ "GATE1" \in Gates
    BY <1>7 DEF Gate1Allows, At, AtStage, env, Gates
  <2>2. Identity(ctx[t]) \in Identities
    <3>1. ctx[t] = req[t].token /\ req[t] \in Requests
      BY <1>7 DEF Gate1Allows, At, ThreadInv, ThreadContext, ThreadServes, Busy
    <3>2. ctx[t] \in TokenType
      BY <3>1, RequestsAssumption DEF RequestType
    <3> QED
      BY <3>2 DEF TokenType, Identity, Identities
  <2>3. /\ Log(t, "GATE1", "ALLOW", Identity(ctx[t])) /\ pc'[t] = "gate2"
        /\ \A u \in Threads : u # t => pc'[u] = pc[u] /\ who'[u] = who[u]
    BY <1>7 DEF Gate1Allows, TypeOK
  <2>4. GrantLogged' /\ \A c \in Callers : Charged(c) \subseteq Charged(c)'
    BY <2>1, <2>2, <2>3, LogKeepsCharged DEF ChargeInv
  <2> QED
    BY <2>1, <2>4, LogCharge
<1>8. ASSUME NEW t \in Threads, Gate1Denies(t)
      PROVE  ChargeInv'
  <2>1. AtStage(t, 0) /\ Refuse(t, "GATE1") /\ UNCHANGED <<agent, counted>> /\ "GATE1" \in Gates
    BY <1>8 DEF Gate1Denies, At, AtStage, env, Gates
  <2> QED
    BY <1>4, <2>1
<1>9. ASSUME NEW t \in Threads, Gate2(t)
      PROVE  ChargeInv'
  <2>1. AtStage(t, 1) /\ UNCHANGED <<agent, counted>> /\ "GATE2" \in Gates
    BY <1>9 DEF Gate2, At, AtStage, env, Gates
  <2>2. CASE Refuse(t, "GATE2")
    BY <1>4, <2>1, <2>2
  <2>3. CASE Pass(t, "GATE2", "gate3")
    BY <1>5, <2>1, <2>3, LogCharge
  <2> QED
    BY <1>9, <2>2, <2>3 DEF Gate2
<1>10. ASSUME NEW t \in Threads, Gate3(t)
       PROVE  ChargeInv'
  <2>1. pc[t] = "gate3" /\ AtStage(t, 2) /\ UNCHANGED agent /\ "GATE3" \in Gates
    BY <1>10 DEF Gate3, At, AtStage, env, Gates
  <2>2. CASE Refuse(t, "GATE3") /\ UNCHANGED counted
    BY <1>4, <2>1, <2>2
  <2>3. CASE Pass(t, "GATE3", "gate4") /\ UNCHANGED counted
    BY <1>5, <2>1, <2>3, LogCharge
  <2>4. CASE Pass(t, "GATE3", "gate4") /\ counted' = [counted EXCEPT ![CallerOf(t)] = @ + 1]
    <3>1. GrantLogged' /\ \A c \in Callers : Charged(c) \subseteq Charged(c)'
      BY <1>5, <2>1, <2>4
    <3>2. PICK c \in Callers : c = CallerOf(t)
      BY <2>1, CallerType
    <3>a. Busy(t)
      BY <2>1 DEF Busy
    <3>b. id[t] \in Ids
      BY <3>a, BoundAssumption DEF TypeOK, ThreadInv, ThreadServes, Ids
    <3>3. PICK i \in Ids : i = id[t]
      BY <3>b
    <3>4. /\ Log(t, "GATE3", "ALLOW", who[t]) /\ UNCHANGED id /\ pc'[t] # "gate3"
          /\ \A u \in Threads : u # t => pc'[u] = pc[u] /\ id'[u] = id[u]
      BY <2>4 DEF Pass, TypeOK
    <3>5. i \in Charged(c)' \ Charged(c)
      BY <2>1, <3>2, <3>3, <3>4, ChargedAtGate3 DEF ChargeInv
    <3>6. counted' = [counted EXCEPT ![c] = @ + 1]
      BY <2>4, <3>2
    <3>7. CountsPermittedOnly'
      BY <3>1, <3>5, <3>6, ChargedFiniteNext, OneCounted DEF ChargeInv
    <3> QED
      BY <3>1, <3>7 DEF ChargeInv
  <2> QED
    BY <1>10, <2>2, <2>3, <2>4 DEF Gate3
<1>11. ASSUME NEW t \in Threads, Gate4(t)
       PROVE  ChargeInv'
  <2>1. AtStage(t, 3) /\ UNCHANGED <<agent, counted>> /\ "GATE4" \in Gates
    BY <1>11 DEF Gate4, At, AtStage, env, Gates
  <2>2. CASE Refuse(t, "GATE4")
    BY <1>4, <2>1, <2>2
  <2>3. CASE Pass(t, "GATE4", "all")
    BY <1>5, <2>1, <2>3, LogCharge
  <2> QED
    BY <1>11, <2>2, <2>3 DEF Gate4
<1>12. ASSUME NEW t \in Threads, AllGates(t)
       PROVE  ChargeInv'
  <2>1. AtStage(t, 4) /\ UNCHANGED <<agent, counted>> /\ "ALL_GATES" \in Gates
        /\ Pass(t, "ALL_GATES", "allowed")
    BY <1>12 DEF AllGates, At, AtStage, env, Gates
  <2> QED
    BY <1>5, <2>1, LogCharge
<1>13. ASSUME NEW t \in Threads, AnswerAllow(t) \/ AnswerDeny(t) \/ Fails(t)
       PROVE  ChargeInv'
  <2>1. /\ UNCHANGED <<agent, trail>>
        /\ \E reply : Reply(t, reply)
    BY <1>13 DEF AnswerAllow, AnswerDeny, Fails, env
  <2>2. \A u \in Threads : \/ u = t /\ pc'[u] = "idle"
                           \/ /\ u # t /\ pc'[u] = pc[u] /\ id'[u] = id[u]
                              /\ req'[u] = req[u] /\ who'[u] = who[u]
    BY <2>1 DEF Reply, TypeOK
  <2>3. Quiet
    BY <2>1, <2>2 DEF Quiet
  <2>4. CASE UNCHANGED counted
    BY <1>0, <2>3, <2>4, QuietCharge
  <2>5. CASE pc[t] = "gate3" /\ counted' = [counted EXCEPT ![CallerOf(t)] = @ + 1]
    <3>1. GrantLogged' /\ \A c \in Callers : Charged(c) \subseteq Charged(c)'
      BY <2>3, QuietKeeps DEF ChargeInv
    <3>2. PICK c \in Callers : c = CallerOf(t)
      BY <2>5, CallerType
    <3>3. PICK i \in Ids : i = id[t]
      BY <2>5, BoundAssumption DEF Busy, TypeOK, ThreadInv, ThreadServes, Ids
    <3>4. i \in Charged(c)' \ Charged(c)
      BY <2>1, <2>2, <2>5, <3>2, <3>3, ChargedAtGate3 DEF ChargeInv
    <3>5. counted' = [counted EXCEPT ![c] = @ + 1]
      BY <2>5, <3>2
    <3>6. CountsPermittedOnly'
      BY <3>1, <3>4, <3>5, ChargedFiniteNext, OneCounted DEF ChargeInv
    <3> QED
      BY <3>1, <3>6 DEF ChargeInv
  <2> QED
    BY <1>13, <2>4, <2>5 DEF AnswerAllow, AnswerDeny, Fails, At
<1> QED
  BY <1>1, <1>2, <1>3, <1>6, <1>7, <1>8, <1>9, <1>10, <1>11, <1>12, <1>13
     DEF Next, ThreadStep

LEMMA ChargeHolds == Spec => []ChargeInv
<1>1. Init => ChargeInv
  <2> SUFFICES ASSUME Init PROVE ChargeInv
    OBVIOUS
  <2>1. GrantLogged
    BY DEF Init, GrantLogged
  <2>2. CountsPermittedOnly
    <3> SUFFICES ASSUME NEW c \in Callers
                 PROVE  counted[c] <= Cardinality(Charged(c))
      BY DEF CountsPermittedOnly
    <3>1. counted[c] = 0
      BY DEF Init
    <3> QED
      BY <3>1, ChargedFinite
  <2> QED
    BY <2>1, <2>2 DEF ChargeInv
<1>2. Inv /\ TellInv /\ ChargeInv /\ [Next]_vars => ChargeInv'
  BY ChargeStep
<1> QED
  BY <1>1, <1>2, InvHolds, TellHolds, PTL DEF Spec
----------------------------------------------------------------------------
(* Gate 3 as the pipeline uses it is a CallCounter.  What a thread's       *)
(* request is to the counter depends on the thread's own locals and the    *)
(* entries under its own id, so a step of one thread moves no other one.   *)

Asking(t)  == IF AtGate3(t) THEN CallerOf(t) ELSE Nothing
Telling(t) == IF AtGate3(t) THEN Told(t) ELSE "none"

OthersStay(t) ==
  \A u \in Threads : u # t => Asking(u)' = Asking(u) /\ Telling(u)' = Telling(u)

(* Whoever asks has a caller. *)
AskersKnown ==
  \A t \in Threads : \/ Asking(t) = Nothing /\ Telling(t) = "none"
                     \/ Asking(t) \in Callers

CounterMoves == AskersKnown' /\ [Counter!Next]_(Counter!vars)

LEMMA OneAsks ==
  ASSUME AskersKnown, NEW t \in Threads, NEW c \in Callers, OthersStay(t), UNCHANGED counted,
         Asking(t) = Nothing, Asking(t)' = c, Telling(t)' = Telling(t)
  PROVE  CounterMoves
<1>1. Counter!Ask(t, c)
  BY DEF Counter!Ask, OthersStay, Asking, Telling
<1>2. AskersKnown'
  BY DEF AskersKnown, OthersStay
<1> QED
  BY <1>1, <1>2 DEF Counter!Next, CounterMoves

LEMMA OneLeaves ==
  ASSUME AskersKnown, NEW t \in Threads, OthersStay(t), UNCHANGED counted,
         Asking(t) # Nothing, Asking(t)' = Nothing, Telling(t)' = "none"
  PROVE  CounterMoves
<1>1. Counter!Leave(t)
  BY DEF Counter!Leave, Counter!Gone, OthersStay, Asking, Telling
<1>2. AskersKnown'
  BY DEF AskersKnown, OthersStay
<1> QED
  BY <1>1, <1>2 DEF Counter!Next, CounterMoves

(* The counter's number of the asking caller, below the limit or not. *)
LEMMA OneAdmitted ==
  ASSUME AskersKnown, NEW t \in Threads, OthersStay(t),
         Asking(t) \in Callers, Telling(t) = "none",
         counted \in [Callers -> Nat], counted[Asking(t)] < Limits[Asking(t).action],
         counted' = [counted EXCEPT ![Asking(t)] = @ + 1],
         \/ Asking(t)' = Asking(t) /\ Telling(t)' = "allow"
         \/ Asking(t)' = Nothing /\ Telling(t)' = "none"
  PROVE  CounterMoves
<1> DEFINE c == Asking(t)
<1>1. c # Nothing
  BY NothingAssumption
<1>2. counted[c] \in 0 .. counted[c] /\ counted[c] \in Nat
  OBVIOUS
<1>3. Counter!Undecided(t)
  BY <1>1 DEF Counter!Undecided, Asking, Telling
<1>4. Counter!Count(t)
  BY <1>2 DEF Counter!Count, Asking
<1>5. AskersKnown'
  BY DEF AskersKnown, OthersStay
<1>6. CASE Asking(t)' = Asking(t) /\ Telling(t)' = "allow"
  <2>1. Counter!Admit(t)
    BY <1>3, <1>4, <1>6 DEF Counter!Admit, OthersStay, Asking, Telling
  <2> QED
    BY <1>5, <2>1 DEF Counter!Next, CounterMoves
<1>7. CASE Asking(t)' = Nothing /\ Telling(t)' = "none"
  <2>1. Counter!Gone(t)
    BY <1>7 DEF Counter!Gone, OthersStay, Asking, Telling
  <2>2. Counter!Abandon(t)
    BY <1>3, <1>4, <2>1 DEF Counter!Abandon
  <2> QED
    BY <1>5, <2>2 DEF Counter!Next, CounterMoves
<1> QED
  BY <1>6, <1>7

LEMMA OneDenied ==
  ASSUME AskersKnown, NEW t \in Threads, OthersStay(t),
         Asking(t) \in Callers, Telling(t) = "none",
         counted \in [Callers -> Nat], counted[Asking(t)] >= Limits[Asking(t).action],
         UNCHANGED counted, Asking(t)' = Asking(t), Telling(t)' = "deny"
  PROVE  CounterMoves
<1> DEFINE c == Asking(t)
<1>1. c # Nothing
  BY NothingAssumption
<1>2. counted[c] \in 0 .. counted[c] /\ counted' = [counted EXCEPT ![c] = counted[c]]
  OBVIOUS
<1>3. Counter!Undecided(t)
  BY <1>1 DEF Counter!Undecided, Asking, Telling
<1>4. Counter!Deny(t)
  BY <1>2, <1>3 DEF Counter!Deny, OthersStay, Asking, Telling
<1>5. AskersKnown'
  BY DEF AskersKnown, OthersStay
<1> QED
  BY <1>4, <1>5 DEF Counter!Next, CounterMoves

LEMMA NobodyMoves ==
  ASSUME AskersKnown, NEW t \in Threads, OthersStay(t), UNCHANGED counted,
         Asking(t)' = Asking(t), Telling(t)' = Telling(t)
  PROVE  CounterMoves
<1>1. UNCHANGED Counter!vars
  BY DEF Counter!vars, OthersStay, Asking, Telling
<1>2. AskersKnown'
  BY DEF AskersKnown, OthersStay
<1> QED
  BY <1>1, <1>2 DEF CounterMoves

(* A step of t touches its own locals, and entries under its own id only.  *)
LEMMA OthersUntouched ==
  ASSUME Inv, NEW t \in Threads, UNCHANGED env, Busy(t),
         \A u \in Threads : u # t => /\ pc'[u] = pc[u] /\ id'[u] = id[u]
                                     /\ req'[u] = req[u] /\ who'[u] = who[u],
         \A i \in Ids : i # id[t] => trail'[i] = trail[i]
  PROVE  OthersStay(t)
<1> SUFFICES ASSUME NEW u \in Threads, u # t
             PROVE  Asking(u)' = Asking(u) /\ Telling(u)' = Telling(u)
  BY DEF OthersStay
<1>1. RefusedByGate3(u)' <=> RefusedByGate3(u)
  <2>1. CASE pc[u] # "refused"
    BY <2>1 DEF RefusedByGate3
  <2>2. CASE pc[u] = "refused"
    <3>1. id[u] # id[t]
      BY <2>2 DEF Inv, TrailInv, OneThreadPerId, Busy
    <3>2. id[u] \in Ids
      BY <2>2, BoundAssumption DEF Inv, TypeOK, ThreadInv, ThreadServes, Busy, Ids
    <3>3. trail'[id'[u]] = trail[id[u]]
      BY <3>1, <3>2
    <3> QED
      BY <3>3 DEF RefusedByGate3
  <2> QED
    BY <2>1, <2>2
<1>2. AtGate3(u)' <=> AtGate3(u)
  BY <1>1 DEF AtGate3, env
<1>3. CallerOf(u)' = CallerOf(u)
  BY DEF CallerOf
<1>4. Told(u)' = Told(u)
  BY DEF Told
<1> QED
  BY <1>2, <1>3, <1>4 DEF Asking, Telling

(* The entry a thread writes is the last one under its id. *)
LEMMA LastEntry ==
  ASSUME Inv, NEW t \in Threads, Busy(t), NEW gate \in Gates,
         NEW decision \in {"ALLOW", "DENY"}, Log(t, gate, decision, who[t])
  PROVE  /\ trail'[id[t]][Len(trail'[id[t]])].gate = gate
         /\ \A i \in Ids : i # id[t] => trail'[i] = trail[i]
<1>1. id[t] \in Ids
  BY BoundAssumption DEF Inv, TypeOK, ThreadInv, ThreadServes, Ids
<1>2. trail[id[t]] \in Seq(Entries)
  BY <1>1 DEF Inv, TypeOK
<1> DEFINE e == Entry(t, gate, decision, who[t])
<1>3. who[t] \in Identities \cup {Nothing}
  BY DEF Inv, TypeOK
<1>4. e \in Entries
  BY <1>3, EntryType DEF Inv, ThreadInv
<1>5. trail'[id[t]] = Append(trail[id[t]], e)
  BY <1>1 DEF Log, Inv, TypeOK
<1>6. e.gate = gate
  BY DEF Entry
<1> HIDE DEF e
<1>7. Append(trail[id[t]], e)[Len(Append(trail[id[t]], e))] = e
  BY <1>2, <1>4, AppendProperties
<1>8. \A i \in Ids : i # id[t] => trail'[i] = trail[i]
  BY DEF Log, Inv, TypeOK
<1> QED
  BY <1>5, <1>6, <1>7, <1>8

LEMMA PassMoves ==
  ASSUME Inv, NEW t \in Threads, UNCHANGED env, Busy(t), NEW gate \in Gates, NEW next,
         Pass(t, gate, next)
  PROVE  /\ OthersStay(t)
         /\ pc'[t] = next /\ CallerOf(t)' = CallerOf(t)
<1>1. \A i \in Ids : i # id[t] => trail'[i] = trail[i]
  BY LastEntry DEF Pass
<1>2. \A u \in Threads : u # t => pc'[u] = pc[u] /\ UNCHANGED <<id[u], req[u], who[u]>>
  BY DEF Pass, Inv, TypeOK
<1>3. OthersStay(t)
  BY <1>1, <1>2, OthersUntouched
<1>4. pc'[t] = next /\ CallerOf(t)' = CallerOf(t)
  BY DEF Pass, Inv, TypeOK, CallerOf
<1> QED
  BY <1>3, <1>4

LEMMA RefuseMoves ==
  ASSUME Inv, NEW t \in Threads, UNCHANGED env, Busy(t), NEW gate \in Gates, Refuse(t, gate)
  PROVE  /\ OthersStay(t)
         /\ pc'[t] = "refused" /\ CallerOf(t)' = CallerOf(t)
         /\ RefusedByGate3(t)' <=> gate = "GATE3"
<1>1. /\ trail'[id[t]][Len(trail'[id[t]])].gate = gate
      /\ \A i \in Ids : i # id[t] => trail'[i] = trail[i]
  BY LastEntry DEF Refuse
<1>2. \A u \in Threads : u # t => pc'[u] = pc[u] /\ UNCHANGED <<id[u], req[u], who[u]>>
  BY DEF Refuse, Inv, TypeOK
<1>3. OthersStay(t)
  BY <1>1, <1>2, OthersUntouched
<1>4. pc'[t] = "refused" /\ id'[t] = id[t] /\ CallerOf(t)' = CallerOf(t)
  BY DEF Refuse, Inv, TypeOK, CallerOf
<1>5. RefusedByGate3(t)' <=> gate = "GATE3"
  BY <1>1, <1>4 DEF RefusedByGate3
<1> QED
  BY <1>3, <1>4, <1>5

LEMMA ReplyMoves ==
  ASSUME Inv, NEW t \in Threads, UNCHANGED <<env, trail>>, Busy(t), NEW reply, Reply(t, reply)
  PROVE  OthersStay(t) /\ Asking(t)' = Nothing /\ Telling(t)' = "none"
<1>1. \A u \in Threads : u # t => pc'[u] = pc[u] /\ UNCHANGED <<id[u], req[u], who[u]>>
  BY DEF Reply, Inv, TypeOK
<1>2. OthersStay(t)
  BY <1>1, OthersUntouched
<1>3. pc'[t] = "idle"
  BY DEF Reply, Inv, TypeOK
<1> QED
  BY <1>2, <1>3 DEF Asking, Telling, AtGate3, RefusedByGate3

(* The caller whom Gate 3 would count a thread's request for. *)
LEMMA AskingCaller ==
  ASSUME Inv, NEW t \in Threads, AtGate3(t), pc[t] \in {"gate3", "gate4"}
  PROVE  Asking(t) = CallerOf(t) /\ CallerOf(t) \in Callers /\ CallerOf(t).action = req[t].action
<1>1. req[t] \in Requests /\ who[t] = Identity(req[t].token)
  BY DEF Inv, ThreadInv, ThreadServes, ThreadAuthenticated, Busy
<1>2. CallerOf(t) = [tenant |-> req[t].token.tenant, principal |-> req[t].token.principal,
                     action |-> req[t].action]
  BY <1>1 DEF CallerOf, Identity
<1> QED
  BY <1>1, <1>2 DEF Callers, Asking

LEMMA CounterStep ==
  ASSUME Inv, AskersKnown, [Next]_vars
  PROVE  CounterMoves
<1> USE DEF At
<1>0. /\ gate3 \in BOOLEAN /\ counted \in [Callers -> Nat]
      /\ \A g \in {"GATE1", "GATE2", "GATE3", "GATE4", "ALL_GATES"} : g \in Gates
  BY DEF Inv, TypeOK, Gates
<1>1. ASSUME NEW t \in Threads, Receive(t)
      PROVE  CounterMoves
  <2>1. /\ UNCHANGED <<env, counted, trail, who>> /\ pc[t] = "idle"
        /\ pc'[t] \in {"idle", "scheme"}
        /\ \A u \in Threads : u # t => pc'[u] = pc[u] /\ UNCHANGED <<id[u], req[u]>>
    BY <1>1 DEF Receive, Inv, TypeOK
  <2>2. OthersStay(t)
    BY <2>1 DEF OthersStay, Asking, Telling, AtGate3, RefusedByGate3, Told, CallerOf, env
  <2>3. ~AtGate3(t) /\ ~AtGate3(t)'
    BY <2>1 DEF AtGate3, RefusedByGate3
  <2> QED
    BY <2>1, <2>2, <2>3, NobodyMoves DEF Asking, Telling
<1>2. ASSUME NEW t \in Threads, CheckScheme(t) \/ Gate1Denies(t)
      PROVE  CounterMoves
  <2>1. /\ Busy(t) /\ UNCHANGED <<env, counted>> /\ pc[t] \in {"scheme", "gate1"}
        /\ \/ Refuse(t, "GATE1")
           \/ pc' = [pc EXCEPT ![t] = "gate1"] /\ UNCHANGED <<id, req, who, trail>>
    BY <1>2 DEF CheckScheme, Gate1Denies, Busy
  <2>2. OthersStay(t) /\ ~AtGate3(t)'
    <3>1. CASE Refuse(t, "GATE1")
      BY <1>0, <2>1, <3>1, RefuseMoves DEF AtGate3
    <3>2. CASE pc' = [pc EXCEPT ![t] = "gate1"] /\ UNCHANGED <<id, req, who, trail>>
      <4>1. pc'[t] = "gate1" /\ \A u \in Threads : u # t => pc'[u] = pc[u]
        BY <3>2 DEF Inv, TypeOK
      <4>2. OthersStay(t)
        BY <2>1, <3>2, <4>1, OthersUntouched
      <4> QED
        BY <4>1, <4>2 DEF AtGate3, RefusedByGate3
    <3> QED
      BY <2>1, <3>1, <3>2
  <2>3. ~AtGate3(t)
    BY <2>1 DEF AtGate3, RefusedByGate3
  <2> QED
    BY <2>1, <2>2, <2>3, NobodyMoves DEF Asking, Telling
<1>3. ASSUME NEW t \in Threads, Gate1Allows(t)
      PROVE  CounterMoves
  <2>1. /\ Busy(t) /\ UNCHANGED <<env, counted, id, req>>
        /\ pc[t] = "gate1" /\ pc'[t] = "gate2"
        /\ \A u \in Threads : u # t => pc'[u] = pc[u] /\ who'[u] = who[u]
        /\ \A i \in Ids : i # id[t] => trail'[i] = trail[i]
    BY <1>3 DEF Gate1Allows, Busy, Log, Inv, TypeOK
  <2>2. OthersStay(t)
    BY <2>1, OthersUntouched
  <2>3. ~AtGate3(t) /\ ~AtGate3(t)'
    BY <2>1 DEF AtGate3, RefusedByGate3
  <2> QED
    BY <2>1, <2>2, <2>3, NobodyMoves DEF Asking, Telling
<1>4. ASSUME NEW t \in Threads, Gate2(t)
      PROVE  CounterMoves
  <2>1. Busy(t) /\ UNCHANGED <<env, counted>> /\ pc[t] = "gate2" /\ ~AtGate3(t)
    BY <1>4 DEF Gate2, Busy, AtGate3, RefusedByGate3
  <2>2. CASE Refuse(t, "GATE2")
    <3>1. OthersStay(t) /\ ~AtGate3(t)'
      BY <1>0, <2>1, <2>2, RefuseMoves DEF AtGate3
    <3> QED
      BY <2>1, <3>1, NobodyMoves DEF Asking, Telling
  <2>3. CASE Pass(t, "GATE2", "gate3") /\ Permitted(t)
    <3>1. OthersStay(t) /\ pc'[t] = "gate3" /\ CallerOf(t)' = CallerOf(t)
      BY <1>0, <2>1, <2>3, PassMoves
    <3>2. gate3' = gate3
      BY <2>1 DEF env
    <3>3. CASE ~gate3
      <4>1. ~AtGate3(t)'
        BY <3>2, <3>3 DEF AtGate3
      <4> QED
        BY <2>1, <3>1, <4>1, NobodyMoves DEF Asking, Telling
    <3>4. CASE gate3
      <4>1. AtGate3(t)' /\ Told(t)' = "none"
        BY <3>1, <3>2, <3>4 DEF AtGate3, Told
      <4>2. req[t] \in Requests /\ who[t] = Identity(req[t].token)
        BY <2>1 DEF Inv, ThreadInv, ThreadServes, ThreadAuthenticated, Busy
      <4>3. CallerOf(t) = [tenant |-> req[t].token.tenant,
                           principal |-> req[t].token.principal, action |-> req[t].action]
        BY <4>2 DEF CallerOf, Identity
      <4>4. PICK c \in Callers : c = CallerOf(t)
        BY <4>2, <4>3 DEF Callers
      <4>5. Asking(t) = Nothing /\ Asking(t)' = c /\ Telling(t) = "none" /\ Telling(t)' = "none"
        BY <2>1, <3>1, <4>1, <4>4 DEF Asking, Telling
      <4> QED
        BY <2>1, <3>1, <4>5, OneAsks
    <3> QED
      BY <3>3, <3>4
  <2> QED
    BY <1>4, <2>2, <2>3 DEF Gate2
<1>5. ASSUME NEW t \in Threads, Gate3(t)
      PROVE  CounterMoves
  <2>1. Busy(t) /\ UNCHANGED env /\ pc[t] = "gate3" /\ gate3' = gate3
    BY <1>5 DEF Gate3, Busy, env
  <2>2. CASE ~gate3 /\ Pass(t, "GATE3", "gate4") /\ UNCHANGED counted
    <3>1. OthersStay(t)
      BY <1>0, <2>1, <2>2, PassMoves
    <3>2. ~AtGate3(t) /\ ~AtGate3(t)'
      BY <2>1, <2>2 DEF AtGate3
    <3> QED
      BY <2>2, <3>1, <3>2, NobodyMoves DEF Asking, Telling
  <2>3. ASSUME gate3
        PROVE  /\ Asking(t) = CallerOf(t) /\ Asking(t) \in Callers /\ Telling(t) = "none"
               /\ Asking(t).action = req[t].action
    <3>1. AtGate3(t) /\ Told(t) = "none"
      BY <2>1, <2>3 DEF AtGate3, Told
    <3> QED
      BY <2>1, <3>1, AskingCaller DEF Telling
  <2>4. CASE /\ gate3 /\ BelowLimit(t) /\ Pass(t, "GATE3", "gate4")
             /\ counted' = [counted EXCEPT ![CallerOf(t)] = @ + 1]
    <3>1. OthersStay(t) /\ pc'[t] = "gate4" /\ CallerOf(t)' = CallerOf(t)
      BY <1>0, <2>1, <2>4, PassMoves
    <3>2. AtGate3(t)' /\ Told(t)' = "allow"
      BY <2>1, <2>4, <3>1 DEF AtGate3, Told
    <3>3. Asking(t)' = Asking(t) /\ Telling(t)' = "allow"
      BY <2>3, <2>4, <3>1, <3>2 DEF Asking, Telling
    <3>4. counted[Asking(t)] < Limits[Asking(t).action]
      BY <2>3, <2>4 DEF BelowLimit
    <3>5. counted' = [counted EXCEPT ![Asking(t)] = @ + 1]
      BY <2>3, <2>4
    <3> QED
      BY <1>0, <2>3, <2>4, <3>1, <3>3, <3>4, <3>5, OneAdmitted
  <2>5. CASE gate3 /\ ~BelowLimit(t) /\ Refuse(t, "GATE3") /\ UNCHANGED counted
    <3>1. OthersStay(t) /\ pc'[t] = "refused" /\ CallerOf(t)' = CallerOf(t) /\ RefusedByGate3(t)'
      BY <1>0, <2>1, <2>5, RefuseMoves
    <3>2. AtGate3(t)' /\ Told(t)' = "deny"
      BY <2>1, <2>5, <3>1 DEF AtGate3, Told
    <3>3. Asking(t)' = Asking(t) /\ Telling(t)' = "deny"
      BY <2>3, <2>5, <3>1, <3>2 DEF Asking, Telling
    <3>4. counted[Asking(t)] >= Limits[Asking(t).action]
      <4>1. req[t] \in Requests
        BY <2>1 DEF Inv, ThreadInv, ThreadServes, Busy
      <4>2. Limits[req[t].action] \in Nat
        BY <4>1, LimitsAssumption
      <4>3. counted[Asking(t)] \in Nat
        BY <1>0, <2>3, <2>5
      <4> QED
        BY <2>3, <2>5, <4>2, <4>3 DEF BelowLimit
    <3> QED
      BY <1>0, <2>3, <2>5, <3>1, <3>3, <3>4, OneDenied
  <2> QED
    BY <1>5, <2>2, <2>4, <2>5 DEF Gate3
<1>6. ASSUME NEW t \in Threads, Gate4(t)
      PROVE  CounterMoves
  <2>1. Busy(t) /\ UNCHANGED <<env, counted>> /\ pc[t] = "gate4"
    BY <1>6 DEF Gate4, Busy
  <2>2. OthersStay(t) /\ ~AtGate3(t)'
    <3>1. CASE Refuse(t, "GATE4")
      BY <1>0, <2>1, <3>1, RefuseMoves DEF AtGate3
    <3>2. CASE Pass(t, "GATE4", "all")
      BY <1>0, <2>1, <3>2, PassMoves DEF AtGate3, RefusedByGate3
    <3> QED
      BY <1>6, <3>1, <3>2 DEF Gate4
  <2>3. Asking(t)' = Nothing /\ Telling(t)' = "none"
    BY <2>2 DEF Asking, Telling
  <2>4. CASE AtGate3(t)
    <3>1. Asking(t) # Nothing
      BY <2>1, <2>4, AskingCaller, NothingAssumption
    <3> QED
      BY <2>1, <2>2, <2>3, <3>1, OneLeaves
  <2>5. CASE ~AtGate3(t)
    BY <2>1, <2>2, <2>3, <2>5, NobodyMoves DEF Asking, Telling
  <2> QED
    BY <2>4, <2>5
<1>7. ASSUME NEW t \in Threads, AllGates(t)
      PROVE  CounterMoves
  <2>1. Busy(t) /\ UNCHANGED <<env, counted>> /\ pc[t] = "all" /\ Pass(t, "ALL_GATES", "allowed")
    BY <1>7 DEF AllGates, Busy
  <2>2. OthersStay(t) /\ pc'[t] = "allowed"
    BY <1>0, <2>1, PassMoves
  <2>3. ~AtGate3(t) /\ ~AtGate3(t)'
    BY <2>1, <2>2 DEF AtGate3, RefusedByGate3
  <2> QED
    BY <2>1, <2>2, <2>3, NobodyMoves DEF Asking, Telling
<1>8. ASSUME NEW t \in Threads, AnswerAllow(t) \/ AnswerDeny(t) \/ Fails(t)
      PROVE  CounterMoves
  <2>1. /\ Busy(t) /\ UNCHANGED <<env, trail>>
        /\ \E reply : Reply(t, reply)
    BY <1>8 DEF AnswerAllow, AnswerDeny, Fails, Busy
  <2>2. OthersStay(t) /\ Asking(t)' = Nothing /\ Telling(t)' = "none"
    BY <2>1, ReplyMoves
  <2>3. CASE UNCHANGED counted
    <3>1. CASE Asking(t) = Nothing
      <4>1. Telling(t) = "none"
        BY <3>1, NothingAssumption DEF AskersKnown
      <4> QED
        BY <2>2, <2>3, <3>1, <4>1, NobodyMoves
    <3>2. CASE Asking(t) # Nothing
      BY <2>2, <2>3, <3>2, OneLeaves
    <3> QED
      BY <3>1, <3>2
  <2>4. CASE /\ pc[t] = "gate3" /\ gate3 /\ BelowLimit(t)
             /\ counted' = [counted EXCEPT ![CallerOf(t)] = @ + 1]
    <3>1. AtGate3(t) /\ Told(t) = "none"
      BY <2>4 DEF AtGate3, Told
    <3>2. /\ Asking(t) = CallerOf(t) /\ Asking(t) \in Callers /\ Telling(t) = "none"
          /\ Asking(t).action = req[t].action
      BY <2>4, <3>1, AskingCaller DEF Telling
    <3>3. counted[Asking(t)] < Limits[Asking(t).action]
      BY <2>4, <3>2 DEF BelowLimit
    <3>4. counted' = [counted EXCEPT ![Asking(t)] = @ + 1]
      BY <2>4, <3>2
    <3> QED
      BY <1>0, <2>2, <3>2, <3>3, <3>4, OneAdmitted
  <2> QED
    BY <1>8, <2>3, <2>4 DEF AnswerAllow, AnswerDeny, Fails
<1>9. CASE WindowSlides \/ DebugReset
  <2>1. UNCHANGED <<env, pc, id, req, who, trail>>
    BY <1>9 DEF WindowSlides, DebugReset
  <2>2. \A t \in Threads : Asking(t)' = Asking(t) /\ Telling(t)' = Telling(t)
    BY <2>1 DEF Asking, Telling, AtGate3, RefusedByGate3, Told, CallerOf, env
  <2>3. /\ counted' \in [Callers -> Nat]
        /\ \A c \in Callers : counted'[c] <= counted[c]
    BY <1>0, <1>9 DEF WindowSlides, DebugReset
  <2>4. Counter!Forget
    BY <2>2, <2>3 DEF Counter!Forget, Asking, Telling
  <2>5. AskersKnown'
    BY <2>2 DEF AskersKnown
  <2> QED
    BY <2>4, <2>5 DEF Counter!Next, CounterMoves
<1>10. CASE Restart
  <2>1. \A t \in Threads : ~AtGate3(t)'
    BY <1>10 DEF Restart, AtGate3, RefusedByGate3
  <2>2. Counter!Restart
    BY <1>10, <2>1 DEF Restart, Counter!Restart
  <2>3. AskersKnown'
    BY <2>1 DEF AskersKnown, Asking, Telling
  <2> QED
    BY <2>2, <2>3 DEF Counter!Next, CounterMoves
<1>11. CASE UNCHANGED vars
  <2>1. UNCHANGED <<gate3, pc, id, req, who, trail, counted>>
    BY <1>11 DEF vars
  <2>2. \A t \in Threads : Asking(t)' = Asking(t) /\ Telling(t)' = Telling(t)
    BY <2>1 DEF Asking, Telling, AtGate3, RefusedByGate3, Told, CallerOf
  <2>3. AskersKnown'
    BY <2>2 DEF AskersKnown
  <2> QED
    BY <2>1, <2>2, <2>3 DEF Counter!vars, CounterMoves, Asking, Telling
<1> QED
  BY <1>1, <1>2, <1>3, <1>4, <1>5, <1>6, <1>7, <1>8, <1>9, <1>10, <1>11
     DEF Next, ThreadStep

----------------------------------------------------------------------------
(* The state keeps its type, whatever the threads do. *)
THEOREM TypeCorrect == Spec => []TypeOK
BY InvHolds, PTL DEF Inv

(* The perimeter (gateway/main.py): a request is answered with "allow"     *)
(* only when its token was accepted, the record belongs to the token's     *)
(* tenant, the agent has the action in its scope and the arguments meet    *)
(* their schema.                                                           *)
THEOREM PerimeterHolds == Spec => []AllowedIsAuthorised
BY InvHolds, PTL DEF Inv

(* Requests served at the same time do not get each other's identity in    *)
(* the audit log (gateway/context.py, the ContextVar).                     *)
THEOREM AuditNamesOwner == Spec => []EntriesNameOwner
<1>1. Inv => EntriesNameOwner
  BY DEF Inv, TrailInv
<1> QED
  BY <1>1, InvHolds, PTL

(* The audit log never contradicts the answer (gateway/main.py): the       *)
(* callers that were let through have five ALLOW entries, and a request    *)
(* has a DENY entry, its last, exactly if it was answered with the denial. *)
THEOREM AuditTellsAnswer == Spec => []TrailTellsAnswer
BY TellHolds, PTL DEF TellInv

(* Gate 3, asked by the pipeline's threads, cut off by exceptions and      *)
(* restarted, is the CallCounter that SessionEnvelope implements as well.  *)
THEOREM ImplementsCounter == Spec => ImplementsCallCounter
<1>1. Init => Counter!Init /\ AskersKnown
  <2> SUFFICES ASSUME Init PROVE Counter!Init /\ AskersKnown
    OBVIOUS
  <2>1. \A t \in Threads : ~AtGate3(t)
    BY DEF Init, AtGate3, RefusedByGate3
  <2>2. Counter!Init
    BY <2>1 DEF Init, Counter!Init
  <2>3. AskersKnown
    BY <2>1 DEF AskersKnown, Asking, Telling
  <2> QED
    BY <2>2, <2>3
<1>2. Inv /\ AskersKnown /\ [Next]_vars => AskersKnown' /\ [Counter!Next]_(Counter!vars)
  BY CounterStep DEF CounterMoves
<1> QED
  BY <1>1, <1>2, InvHolds, PTL DEF Spec, ImplementsCallCounter, Counter!Spec

(* Nobody spends a caller's envelope but the caller, by calls that Gate 2  *)
(* has permitted (gateway/main.py, where Gate 3 comes after Gate 2): what  *)
(* Gate 3 holds against a caller is at most the number of such calls in    *)
(* the audit log.                                                          *)
THEOREM EnvelopeCountsPermitted == Spec => []CountsPermittedOnly
BY ChargeHolds, PTL DEF ChargeInv
=============================================================================
