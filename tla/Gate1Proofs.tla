---------------------------- MODULE Gate1Proofs ----------------------------
(***************************************************************************)
(* Proofs about Gate 1 for any number of threads, tokens and proofs and    *)
(* any freshness window: the replay cache remembers every proof that is    *)
(* still fresh, and so Gate 1 implements ReplayGuard.                      *)
(***************************************************************************)
EXTENDS Gate1, FiniteSetTheorems, TLAPS

LEMMA ProofFields ==
  ASSUME NEW p \in Proofs
  PROVE  p.iat \in Nat /\ p.jti \in Jtis \cup {NoJti}
BY InputAssumption DEF ProofType

LEMMA RequestFields ==
  ASSUME NEW r \in Requests
  PROVE  r.proof \in Proofs /\ r.token \in Tokens
BY DEF Requests

LEMMA CachedCardinality == Cardinality(Cached) \in Nat
<1>1. Cached \subseteq Jtis
  BY DEF Cached
<1>2. IsFiniteSet(Cached)
  BY <1>1, JtisAssumption, FS_Subset
<1> QED
  BY <1>2, FS_CardinalityType

(***************************************************************************)
(* The inductive invariant.  A thread past the reading of the clock holds  *)
(* a request whose proof was issued no later than its `now`, so that the   *)
(* expiry it stores covers the proof's freshness; an entry on somebody's   *)
(* list of expired entries belongs to a proof that is stale by the clock,  *)
(* so that a late deletion does no harm.                                   *)
(***************************************************************************)
HasRequest ==
  \A t \in Threads : pc[t] # "idle" => req[t] \in Requests

NowIsPast == \A t \in Threads : now[t] <= clock

PastDecode ==
  \A t \in Threads :
    pc[t] \in {"clock", "purge", "scan", "delete", "lookup"}
      => req[t].proof.iat <= clock

PastClock ==
  \A t \in Threads :
    pc[t] \in {"purge", "scan", "delete", "lookup"}
      => req[t].proof.iat <= now[t] /\ req[t].proof.jti \in Jtis

ExpiryCoversFreshness ==
  \A p \in Proofs : p.jti \in Cached => p.iat + FreshnessWindow <= seen[p.jti]

ListedAreStale ==
  \A t \in Threads, p \in Proofs :
    p.jti \in expired[t] => p.iat + FreshnessWindow < clock

RememberedOrStale ==
  \A p \in Proofs :
    uses[p] > 0 => p.jti \in Cached \/ p.iat + FreshnessWindow < clock

Inv == /\ TypeOK /\ HasRequest /\ NowIsPast /\ PastDecode /\ PastClock
       /\ ExpiryCoversFreshness /\ ListedAreStale /\ RememberedOrStale

(* Every variable keeps its type: the initial state and each step. *)
LEMMA TypeInit == Init => TypeOK
BY DEF Init, TypeOK, Labels, Outcomes, Absent

LEMMA TypeStep ==
  ASSUME TypeOK, HasRequest, PastClock, [Next]_vars
  PROVE  TypeOK'
<1> USE WindowAssumption DEF TypeOK, Labels, Outcomes, Goto, Finish, locals
<1>1. ASSUME NEW t \in Threads, Receive(t) PROVE TypeOK'
  BY <1>1 DEF Receive
<1>2. ASSUME NEW t \in Threads, Verify(t) PROVE TypeOK'
  BY <1>2 DEF Verify
<1>3. ASSUME NEW t \in Threads, ReadClock(t) PROVE TypeOK'
  BY <1>3 DEF ReadClock
<1>4. ASSUME NEW t \in Threads, StartScan(t) PROVE TypeOK'
  BY <1>4, CachedCardinality DEF StartScan
<1>5. ASSUME NEW t \in Threads, ScanEntry(t) PROVE TypeOK'
  BY <1>5 DEF ScanEntry, Unvisited, Cached
<1>6. ASSUME NEW t \in Threads, ScanFails(t) \/ EndScan(t) PROVE TypeOK'
  BY <1>6 DEF ScanFails, EndScan
<1>7. ASSUME NEW t \in Threads, Delete(t) PROVE TypeOK'
  BY <1>7 DEF Delete, Cached
<1>8. ASSUME NEW t \in Threads, DeleteFails(t) \/ EndPurge(t) PROVE TypeOK'
  BY <1>8 DEF DeleteFails, EndPurge
<1>9. ASSUME NEW t \in Threads, RecordProof(t) PROVE TypeOK'
  <2>1. req[t].proof \in Proofs /\ req[t].proof.jti \in Jtis
    BY <1>9, RequestFields DEF RecordProof, HasRequest, PastClock
  <2>2. Expiry(now[t]) \in Nat
    BY DEF Expiry
  <2> QED
    BY <1>9, <2>1, <2>2 DEF RecordProof
<1>10. ASSUME NEW t \in Threads, DenyReplay(t) \/ Bind(t) PROVE TypeOK'
  BY <1>10 DEF DenyReplay, Bind
<1>11. ASSUME NEW t \in Threads, Leave(t) PROVE TypeOK'
  BY <1>11 DEF Leave
<1>12. CASE Tick
  BY <1>12 DEF Tick
<1>13. CASE Restart
  BY <1>13 DEF Restart, Absent
<1>14. CASE UNCHANGED vars
  BY <1>14 DEF vars
<1> QED
  BY <1>1, <1>2, <1>3, <1>4, <1>5, <1>6, <1>7, <1>8, <1>9, <1>10, <1>11,
     <1>12, <1>13, <1>14 DEF Next, ThreadStep

(* The first five conjuncts after TypeOK speak of the threads' locals. *)
Locals == HasRequest /\ NowIsPast /\ PastDecode /\ PastClock

LEMMA LocalsStep ==
  ASSUME TypeOK, Locals, [Next]_vars
  PROVE  Locals'
<1> USE DEF TypeOK, Locals, HasRequest, NowIsPast, PastDecode, PastClock, Labels,
            Goto, Finish, locals
<1>1. ASSUME NEW t \in Threads, Receive(t) PROVE Locals'
  BY <1>1 DEF Receive
<1>2. ASSUME NEW t \in Threads, Verify(t) PROVE Locals'
  BY <1>2 DEF Verify, ProofChecks, NotFromTheFuture
<1>3. ASSUME NEW t \in Threads, ReadClock(t) PROVE Locals'
  <2>1. req[t] \in Requests /\ req[t].proof.iat <= clock
    BY <1>3 DEF ReadClock
  <2>2. req[t].proof.jti \in Jtis \cup {NoJti}
    BY <2>1, RequestFields, ProofFields
  <2> QED
    BY <1>3, <2>1, <2>2 DEF ReadClock
<1>4. ASSUME NEW t \in Threads,
             StartScan(t) \/ ScanEntry(t) \/ ScanFails(t) \/ EndScan(t)
      PROVE  Locals'
  BY <1>4 DEF StartScan, ScanEntry, ScanFails, EndScan
<1>5. ASSUME NEW t \in Threads, Delete(t) \/ DeleteFails(t) \/ EndPurge(t)
      PROVE  Locals'
  BY <1>5 DEF Delete, DeleteFails, EndPurge
<1>6. ASSUME NEW t \in Threads, RecordProof(t) \/ DenyReplay(t) \/ Bind(t)
      PROVE  Locals'
  BY <1>6 DEF RecordProof, DenyReplay, Bind
<1>7. ASSUME NEW t \in Threads, Leave(t) PROVE Locals'
  BY <1>7 DEF Leave
<1>8. CASE Tick
  <2>1. \A p \in Proofs : p.iat \in Nat
    BY ProofFields
  <2>2. \A t \in Threads : pc[t] # "idle" => req[t].proof.iat \in Nat
    BY <2>1, RequestFields
  <2> QED
    BY <1>8, <2>2 DEF Tick
<1>9. CASE Restart
  BY <1>9 DEF Restart
<1>10. CASE UNCHANGED vars
  BY <1>10 DEF vars
<1> QED
  BY <1>1, <1>2, <1>3, <1>4, <1>5, <1>6, <1>7, <1>8, <1>9, <1>10 DEF Next, ThreadStep

(* The other conjuncts relate the dictionary, the lists of expired entries *)
(* and the proofs recorded so far.                                         *)
Cache == ExpiryCoversFreshness /\ ListedAreStale /\ RememberedOrStale

LEMMA CacheStep ==
  ASSUME TypeOK, Locals, Cache, [Next]_vars
  PROVE  Cache'
<1> USE WindowAssumption
    DEF TypeOK, Cache, ExpiryCoversFreshness, ListedAreStale, RememberedOrStale,
        Cached, Goto, Finish, locals
<1>0. \A p \in Proofs : p.iat \in Nat /\ p.jti \in Jtis \cup {NoJti}
  BY ProofFields
<1>1. ASSUME NEW t \in Threads,
             Receive(t) \/ Verify(t) \/ ReadClock(t) \/ StartScan(t)
               \/ ScanFails(t) \/ EndScan(t) \/ DeleteFails(t) \/ EndPurge(t)
               \/ DenyReplay(t) \/ Bind(t)
      PROVE  Cache'
  <2>1. UNCHANGED <<clock, seen, expired, uses>>
    BY <1>1 DEF Receive, Verify, ReadClock, StartScan, ScanFails, EndScan,
                DeleteFails, EndPurge, DenyReplay, Bind
  <2> QED
    BY <2>1
<1>2. ASSUME NEW t \in Threads, ScanEntry(t) PROVE Cache'
  <2>1. PICK j \in Cached :
          expired' = [expired EXCEPT ![t] =
                        IF seen[j] < now[t] THEN @ \cup {j} ELSE @]
    BY <1>2 DEF ScanEntry, Unvisited, EntryExpired
  <2>2. UNCHANGED <<clock, seen, uses>>
    BY <1>2 DEF ScanEntry
  <2>3. now[t] <= clock
    BY DEF Locals, NowIsPast
  <2>4. ListedAreStale'
    <3> SUFFICES ASSUME NEW u \in Threads, NEW p \in Proofs, p.jti \in expired'[u]
                 PROVE  p.iat + FreshnessWindow < clock
      BY <2>2
    <3>1. CASE p.jti \in expired[u]
      BY <3>1
    <3>2. CASE p.jti \notin expired[u]
      <4>1. p.jti = j /\ seen[j] < now[t]
        BY <3>2, <2>1
      <4>2. p.iat + FreshnessWindow <= seen[j] /\ seen[j] \in Nat
        BY <4>1, <2>1 DEF Absent
      <4> QED
        BY <4>1, <4>2, <2>3, <1>0
    <3> QED
      BY <3>1, <3>2
  <2> QED
    BY <2>2, <2>4
<1>3. ASSUME NEW t \in Threads, Delete(t) PROVE Cache'
  <2>1. PICK j \in expired[t] :
          /\ seen' = [seen EXCEPT ![j] = Absent]
          /\ expired' = [expired EXCEPT ![t] = @ \ {j}]
    BY <1>3 DEF Delete
  <2>2. UNCHANGED <<clock, uses>>
    BY <1>3 DEF Delete
  <2>3. ExpiryCoversFreshness' /\ ListedAreStale'
    BY <2>1, <2>2
  <2>4. RememberedOrStale'
    BY <2>1, <2>2
  <2> QED
    BY <2>3, <2>4
<1>4. ASSUME NEW t \in Threads, RecordProof(t) PROVE Cache'
  <2> DEFINE q == req[t].proof
  <2>1. q \in Proofs /\ q.jti \in Jtis /\ q.iat <= now[t]
    BY <1>4, RequestFields DEF RecordProof, Locals, HasRequest, PastClock
  <2>2. /\ seen' = [seen EXCEPT ![q.jti] = now[t] + FreshnessWindow]
        /\ uses' = [uses EXCEPT ![q] = @ + 1]
        /\ UNCHANGED <<clock, expired>>
    BY <1>4 DEF RecordProof, Expiry
  <2>3. \A p \in Proofs : p.jti = q.jti => p = q
    BY <2>1, JtiAssumption, JtisAssumption
  <2>4. now[t] + FreshnessWindow \in Nat /\ now[t] + FreshnessWindow # Absent
    BY DEF Absent
  <2>5. ExpiryCoversFreshness'
    BY <1>0, <2>1, <2>2, <2>3, <2>4
  <2>6. RememberedOrStale'
    BY <1>0, <2>1, <2>2, <2>3, <2>4
  <2> QED
    BY <2>2, <2>5, <2>6
<1>5. ASSUME NEW t \in Threads, Leave(t) PROVE Cache'
  BY <1>5 DEF Leave
<1>6. CASE Tick
  BY <1>0, <1>6 DEF Tick
<1>7. CASE Restart
  BY <1>7 DEF Restart
<1>8. CASE UNCHANGED vars
  BY <1>8 DEF vars
<1> QED
  BY <1>1, <1>2, <1>3, <1>4, <1>5, <1>6, <1>7, <1>8 DEF Next, ThreadStep

LEMMA InvInit == Init => Inv
<1> SUFFICES ASSUME Init PROVE Inv
  OBVIOUS
<1>1. TypeOK
  BY TypeInit
<1>2. HasRequest /\ NowIsPast /\ PastDecode /\ PastClock
  BY DEF Init, HasRequest, NowIsPast, PastDecode, PastClock
<1>3. ExpiryCoversFreshness /\ ListedAreStale /\ RememberedOrStale
  BY DEF Init, ExpiryCoversFreshness, ListedAreStale, RememberedOrStale, Cached
<1> QED
  BY <1>1, <1>2, <1>3 DEF Inv

LEMMA InvStep == Inv /\ [Next]_vars => Inv'
BY TypeStep, LocalsStep, CacheStep DEF Inv, Locals, Cache

(* Every step keeps every variable of Gate 1 in its type, the proofs of    *)
(* the type of each of evaluate_gate1's locals included.                   *)
THEOREM TypeCorrect == Spec => []TypeOK
<1>1. Inv => TypeOK
  BY DEF Inv
<1> QED
  BY <1>1, InvInit, InvStep, PTL DEF Spec

(* The replay cache holds every recorded proof that is still fresh, for    *)
(* any number of threads that purge and record at once.                    *)
THEOREM CacheRemembersFresh == Spec => []FreshIsRemembered
<1>1. Inv => FreshIsRemembered
  <2> SUFFICES ASSUME Inv, NEW p \in Proofs, uses[p] > 0,
                      clock <= p.iat + FreshnessWindow
               PROVE  p.jti \in Cached
    BY DEF FreshIsRemembered
  <2>1. ~(p.iat + FreshnessWindow < clock)
    BY ProofFields, WindowAssumption DEF Inv, TypeOK
  <2> QED
    BY <2>1 DEF Inv, RememberedOrStale
<1> QED
  BY <1>1, InvInit, InvStep, PTL DEF Spec

(* Gate 1 implements ReplayGuard: a proof gets past the replay check again *)
(* only when its freshness has run out.                                    *)
THEOREM ImplementsGuard == Spec => ImplementsReplayGuard
<1>1. Init => Guard!Init
  BY DEF Init, Guard!Init
<1>2. Inv /\ [Next]_vars => [Guard!Next]_<<clock, uses>>
  <2> SUFFICES ASSUME Inv, [Next]_vars PROVE [Guard!Next]_<<clock, uses>>
    OBVIOUS
  <2>1. ASSUME NEW t \in Threads, RecordProof(t) PROVE Guard!Next
    <3> DEFINE q == req[t].proof
    <3>1. q \in Proofs /\ q.jti \notin Cached
      BY <2>1, RequestFields DEF RecordProof, Inv, HasRequest, Cached, Goto
    <3>2. uses[q] = 0 \/ Guard!Stale(q)
      BY <3>1, ProofFields, WindowAssumption
      DEF Inv, TypeOK, RememberedOrStale, Guard!Stale
    <3>3. Guard!Use(q)
      BY <2>1, <3>2 DEF RecordProof, Guard!Use
    <3> QED
      BY <3>1, <3>3 DEF Guard!Next
  <2>2. CASE Tick
    BY <2>2 DEF Tick, Guard!Next, Guard!Tick
  <2>3. CASE Restart
    BY <2>3 DEF Restart, Guard!Next, Guard!Restart
  <2>4. ASSUME NEW t \in Threads, Receive(t) \/ (ThreadStep(t) /\ ~RecordProof(t))
        PROVE  UNCHANGED <<clock, uses>>
    BY <2>4 DEF ThreadStep, Receive, Verify, ReadClock, StartScan, ScanEntry,
       ScanFails, EndScan, Delete, DeleteFails, EndPurge, DenyReplay, Bind, Leave
  <2>5. CASE UNCHANGED vars
    BY <2>5 DEF vars
  <2> QED
    BY <2>1, <2>2, <2>3, <2>4, <2>5 DEF Next, ThreadStep
<1> QED
  BY <1>1, <1>2, InvInit, InvStep, PTL DEF Spec, ImplementsReplayGuard, Guard!Spec


(***************************************************************************)
(* Requests that do not overlap.  Only a thread that is in the gate purges *)
(* and records, so that what one reads of the dictionary still holds when  *)
(* it uses it.  A second invariant, over the first.                        *)
(***************************************************************************)
NoOverlap == \A t, u \in Threads : pc[t] # "idle" /\ pc[u] # "idle" => t = u

PastFreshness == {"purge", "scan", "delete", "lookup"}

FreshInside ==
  \A t \in Threads : pc[t] \in PastFreshness => now[t] <= req[t].proof.iat + FreshnessWindow

CleanBefore ==
  \A t \in Threads :
    pc[t] \in {"idle", "verify", "clock", "purge"} => expired[t] = {} /\ visited[t] = {}

ListedBeforeNow ==
  \A t \in Threads, p \in Proofs :
    pc[t] \in {"scan", "delete"} /\ p.jti \in expired[t] => p.iat + FreshnessWindow < now[t]

(* A recorded proof that the purge has dropped was stale for the request   *)
(* that is in the gate, which so cannot be one with the same proof.        *)
GoneBeforeNow ==
  \A t \in Threads, p \in Proofs :
    pc[t] \in PastFreshness /\ uses[p] > 0 /\ p.jti \notin Cached
      => p.iat + FreshnessWindow < now[t]

(* The dictionary does not change under the purge. *)
ScanExact ==
  \A t \in Threads : pc[t] = "scan" => visited[t] \subseteq Cached /\ size[t] = Cardinality(Cached)

ListedCached ==
  \A t \in Threads : pc[t] \in {"scan", "delete"} => expired[t] \subseteq Cached

NoneBefore == \A t \in Threads : pc[t] = "idle" => outcome[t] = "none"

SerialInv ==
  /\ NoneBefore /\ FreshInside /\ CleanBefore /\ ListedBeforeNow /\ GoneBeforeNow
  /\ ScanExact /\ ListedCached /\ SingleUse

(* The conjuncts about one thread's locals that the cache depends on. *)
LEMMA SerialLocalsStep ==
  ASSUME Inv, SerialInv, [Next]_vars
  PROVE  FreshInside' /\ CleanBefore' /\ ListedBeforeNow'
<1> USE WindowAssumption
    DEF Inv, TypeOK, FreshInside, CleanBefore, ListedBeforeNow, SerialInv, PastFreshness,
        Goto, Finish, locals
<1>0. \A p \in Proofs : p.iat \in Nat
  BY ProofFields
<1>1. ASSUME NEW t \in Threads, Receive(t)
      PROVE  FreshInside' /\ CleanBefore' /\ ListedBeforeNow'
  BY <1>1 DEF Receive
<1>2. ASSUME NEW t \in Threads, Verify(t)
      PROVE  FreshInside' /\ CleanBefore' /\ ListedBeforeNow'
  BY <1>2 DEF Verify
<1>3. ASSUME NEW t \in Threads, ReadClock(t)
      PROVE  FreshInside' /\ CleanBefore' /\ ListedBeforeNow'
  <2>1. req[t] \in Requests /\ req[t].proof.iat \in Nat
    BY <1>0, <1>3, RequestFields DEF ReadClock, HasRequest
  <2>2. FreshAt(req[t].proof, clock) => clock <= req[t].proof.iat + FreshnessWindow
    BY <2>1 DEF FreshAt
  <2> QED
    BY <1>3, <2>1, <2>2 DEF ReadClock
<1>4. ASSUME NEW t \in Threads, StartScan(t) \/ ScanFails(t) \/ EndScan(t)
      PROVE  FreshInside' /\ CleanBefore' /\ ListedBeforeNow'
  BY <1>4 DEF StartScan, ScanFails, EndScan
<1>5. ASSUME NEW t \in Threads, ScanEntry(t)
      PROVE  FreshInside' /\ CleanBefore' /\ ListedBeforeNow'
  <2>1. PICK j \in Cached :
          expired' = [expired EXCEPT ![t] = IF seen[j] < now[t] THEN @ \cup {j} ELSE @]
    BY <1>5 DEF ScanEntry, Unvisited, EntryExpired
  <2>2. UNCHANGED <<pc, req, now>> /\ pc[t] = "scan"
        /\ \A u \in Threads : u # t => visited'[u] = visited[u]
    BY <1>5 DEF ScanEntry
  <2>3. ListedBeforeNow'
    <3> SUFFICES ASSUME NEW u \in Threads, NEW p \in Proofs,
                        pc[u] \in {"scan", "delete"}, p.jti \in expired'[u]
                 PROVE  p.iat + FreshnessWindow < now[u]
      BY <2>2
    <3>1. CASE p.jti \in expired[u]
      BY <3>1
    <3>2. CASE p.jti \notin expired[u]
      <4>1. u = t /\ p.jti = j /\ seen[j] < now[t]
        BY <2>1, <3>2
      <4>2. p.iat + FreshnessWindow <= seen[j] /\ seen[j] \in Nat
        BY <2>1, <4>1 DEF ExpiryCoversFreshness, Cached
      <4> QED
        BY <1>0, <4>1, <4>2
    <3> QED
      BY <3>1, <3>2
  <2> QED
    BY <2>1, <2>2, <2>3
<1>6. ASSUME NEW t \in Threads, Delete(t)
      PROVE  FreshInside' /\ CleanBefore' /\ ListedBeforeNow'
  BY <1>6 DEF Delete
<1>7. ASSUME NEW t \in Threads,
             DeleteFails(t) \/ EndPurge(t) \/ RecordProof(t) \/ DenyReplay(t) \/ Bind(t)
      PROVE  FreshInside' /\ CleanBefore' /\ ListedBeforeNow'
  BY <1>7 DEF DeleteFails, EndPurge, RecordProof, DenyReplay, Bind
<1>8. ASSUME NEW t \in Threads, Leave(t)
      PROVE  FreshInside' /\ CleanBefore' /\ ListedBeforeNow'
  BY <1>8 DEF Leave
<1>9. CASE Tick \/ UNCHANGED vars
  BY <1>9 DEF Tick, vars
<1>10. CASE Restart
  BY <1>10 DEF Restart
<1> QED
  BY <1>1, <1>2, <1>3, <1>4, <1>5, <1>6, <1>7, <1>8, <1>9, <1>10 DEF Next, ThreadStep

(* Those about the dictionary: only the thread in the gate changes it. *)
LEMMA SerialCacheStep ==
  ASSUME Inv, SerialInv, NoOverlap, [Next]_vars
  PROVE  GoneBeforeNow' /\ ScanExact' /\ ListedCached'
<1> USE DEF Inv, TypeOK, GoneBeforeNow, ScanExact, ListedCached, SerialInv, PastFreshness,
            Goto, Finish, locals
<1>0. \A p \in Proofs : p.iat \in Nat /\ p.jti \in Jtis \cup {NoJti}
  BY ProofFields
<1>1. ASSUME NEW t \in Threads, Receive(t) \/ Verify(t)
      PROVE  GoneBeforeNow' /\ ScanExact' /\ ListedCached'
  BY <1>1 DEF Receive, Verify, Cached
<1>2. ASSUME NEW t \in Threads, ReadClock(t)
      PROVE  GoneBeforeNow' /\ ScanExact' /\ ListedCached'
  BY <1>2 DEF ReadClock, Cached, RememberedOrStale
<1>3. ASSUME NEW t \in Threads, StartScan(t)
      PROVE  GoneBeforeNow' /\ ScanExact' /\ ListedCached'
  BY <1>3 DEF StartScan, Cached, CleanBefore
<1>4. ASSUME NEW t \in Threads, ScanEntry(t)
      PROVE  GoneBeforeNow' /\ ScanExact' /\ ListedCached'
  <2>1. UNCHANGED <<pc, seen, uses, now, size>> /\ pc[t] = "scan"
    BY <1>4 DEF ScanEntry
  <2>2. PICK j \in Cached :
          /\ visited' = [visited EXCEPT ![t] = @ \cup {j}]
          /\ expired' = [expired EXCEPT ![t] =
                           IF EntryExpired(seen[j], now[t]) THEN @ \cup {j} ELSE @]
    BY <1>4 DEF ScanEntry, Unvisited
  <2>3. Cached' = Cached
    BY <2>1 DEF Cached
  <2> QED
    BY <2>1, <2>2, <2>3
<1>5. ASSUME NEW t \in Threads,
             \/ ScanFails(t) \/ EndScan(t) \/ DeleteFails(t) \/ EndPurge(t)
             \/ DenyReplay(t) \/ Bind(t)
      PROVE  GoneBeforeNow' /\ ScanExact' /\ ListedCached'
  <2>1. UNCHANGED <<seen, uses, now, visited, size, expired>>
    BY <1>5 DEF ScanFails, EndScan, DeleteFails, EndPurge, DenyReplay, Bind
  <2>2. Cached' = Cached
    BY <2>1 DEF Cached
  <2>3. \A u \in Threads : \/ pc'[u] = pc[u]
                           \/ pc'[u] = "done"
                           \/ pc[u] = "scan" /\ pc'[u] = "delete"
                           \/ pc[u] = "delete" /\ pc'[u] = "lookup"
    BY <1>5 DEF ScanFails, EndScan, DeleteFails, EndPurge, DenyReplay, Bind
  <2>4. GoneBeforeNow'
    BY <2>1, <2>2, <2>3
  <2>5. ScanExact'
    BY <2>1, <2>2, <2>3
  <2>6. ListedCached'
    BY <2>1, <2>2, <2>3
  <2> QED
    BY <2>4, <2>5, <2>6
<1>6. ASSUME NEW t \in Threads, Delete(t)
      PROVE  GoneBeforeNow' /\ ScanExact' /\ ListedCached'
  <2>1. PICK j \in expired[t] \cap Cached :
          /\ seen' = [seen EXCEPT ![j] = Absent]
          /\ expired' = [expired EXCEPT ![t] = @ \ {j}]
    BY <1>6 DEF Delete
  <2>2. UNCHANGED <<pc, uses, now, size, visited>> /\ pc[t] = "delete"
    BY <1>6 DEF Delete
  <2>3. Cached' = Cached \ {j}
    BY <2>1 DEF Cached, Absent
  <2>4. \A u \in Threads : pc[u] # "idle" => u = t
    BY <2>2 DEF NoOverlap
  <2>5. ScanExact' /\ ListedCached'
    BY <2>1, <2>2, <2>3, <2>4
  <2>6. GoneBeforeNow'
    BY <2>1, <2>2, <2>3, <2>4 DEF ListedBeforeNow
  <2> QED
    BY <2>5, <2>6
<1>7. ASSUME NEW t \in Threads, RecordProof(t)
      PROVE  GoneBeforeNow' /\ ScanExact' /\ ListedCached'
  <2>1. pc[t] = "lookup" /\ pc' = [pc EXCEPT ![t] = "bind"]
    BY <1>7 DEF RecordProof
  <2>2. \A u \in Threads : pc[u] # "idle" => u = t
    BY <2>1 DEF NoOverlap
  <2>3. \A u \in Threads : pc'[u] \in {"idle", "bind"}
    BY <2>1, <2>2
  <2> QED
    BY <2>3
<1>8. ASSUME NEW t \in Threads, Leave(t)
      PROVE  GoneBeforeNow' /\ ScanExact' /\ ListedCached'
  BY <1>8 DEF Leave, Cached
<1>9. CASE Tick \/ UNCHANGED vars
  BY <1>9 DEF Tick, vars, Cached
<1>10. CASE Restart
  BY <1>10 DEF Restart
<1> QED
  BY <1>1, <1>2, <1>3, <1>4, <1>5, <1>6, <1>7, <1>8, <1>9, <1>10 DEF Next, ThreadStep

(* A proof is recorded only if the dictionary does not hold it, which for  *)
(* one that is fresh means that it has never been recorded.                *)
LEMMA SingleUseStep ==
  ASSUME Inv, SerialInv, [Next]_vars
  PROVE  SingleUse'
<1> USE DEF Inv, TypeOK, SerialInv, SingleUse
<1>1. ASSUME NEW t \in Threads, RecordProof(t)
      PROVE  SingleUse'
  <2> DEFINE q == req[t].proof
  <2>1. pc[t] = "lookup" /\ seen[q.jti] = Absent /\ uses' = [uses EXCEPT ![q] = @ + 1]
    BY <1>1 DEF RecordProof, Goto
  <2>2. q \in Proofs /\ q.iat \in Nat /\ q.jti \notin Cached
    BY <2>1, RequestFields, ProofFields DEF HasRequest, Cached
  <2>3. now[t] <= q.iat + FreshnessWindow
    BY <2>1 DEF FreshInside, PastFreshness
  <2>4. ~ (q.iat + FreshnessWindow < now[t])
    BY <2>2, <2>3, WindowAssumption
  <2>5. uses[q] = 0
    BY <2>1, <2>2, <2>4 DEF GoneBeforeNow, PastFreshness
  <2> QED
    BY <2>1, <2>2, <2>5
<1>2. CASE Restart
  BY <1>2 DEF Restart
<1>3. CASE Tick \/ UNCHANGED vars
  BY <1>3 DEF Tick, vars
<1>4. ASSUME NEW t \in Threads, Receive(t) \/ (ThreadStep(t) /\ ~RecordProof(t))
      PROVE  UNCHANGED uses
  BY <1>4 DEF ThreadStep, Receive, Verify, ReadClock, StartScan, ScanEntry, ScanFails,
              EndScan, Delete, DeleteFails, EndPurge, DenyReplay, Bind, Leave
<1> QED
  BY <1>1, <1>2, <1>3, <1>4 DEF Next, ThreadStep

(* An idle thread has no outcome yet. *)
LEMMA NoneBeforeStep ==
  ASSUME Inv, NoneBefore, [Next]_vars
  PROVE  NoneBefore'
<1> USE DEF Inv, TypeOK, NoneBefore, Goto, Finish, locals
<1>1. ASSUME NEW t \in Threads, Receive(t) \/ Verify(t) \/ ReadClock(t)
      PROVE  NoneBefore'
  BY <1>1 DEF Receive, Verify, ReadClock
<1>2. ASSUME NEW t \in Threads, StartScan(t) \/ ScanEntry(t) \/ ScanFails(t) \/ EndScan(t)
      PROVE  NoneBefore'
  BY <1>2 DEF StartScan, ScanEntry, ScanFails, EndScan
<1>3. ASSUME NEW t \in Threads, Delete(t) \/ DeleteFails(t) \/ EndPurge(t)
      PROVE  NoneBefore'
  BY <1>3 DEF Delete, DeleteFails, EndPurge
<1>4. ASSUME NEW t \in Threads, RecordProof(t) \/ DenyReplay(t) \/ Bind(t) \/ Leave(t)
      PROVE  NoneBefore'
  BY <1>4 DEF RecordProof, DenyReplay, Bind, Leave
<1>5. CASE Tick \/ Restart \/ UNCHANGED vars
  BY <1>5 DEF Tick, Restart, vars
<1> QED
  BY <1>1, <1>2, <1>3, <1>4, <1>5 DEF Next, ThreadStep

LEMMA SerialInit == Init => SerialInv
<1> SUFFICES ASSUME Init PROVE SerialInv
  OBVIOUS
<1>1. NoneBefore /\ FreshInside /\ CleanBefore /\ ListedBeforeNow /\ SingleUse
  BY DEF Init, NoneBefore, FreshInside, CleanBefore, ListedBeforeNow, SingleUse, PastFreshness
<1>2. GoneBeforeNow /\ ScanExact /\ ListedCached
  BY DEF Init, GoneBeforeNow, ScanExact, ListedCached, PastFreshness
<1> QED
  BY <1>1, <1>2 DEF SerialInv

LEMMA SerialStep == Inv /\ SerialInv /\ NoOverlap /\ [Next]_vars => SerialInv'
BY SerialLocalsStep, SerialCacheStep, SingleUseStep, NoneBeforeStep DEF SerialInv

(* A scan over a dictionary that does not change runs to its end, and the  *)
(* entries it has listed are there to be deleted.                          *)
LEMMA SerialNeverRaises ==
  ASSUME Inv, SerialInv, RaisesForCause, [Next]_vars
  PROVE  RaisesForCause'
<1> USE DEF RaisesForCause, Inv, TypeOK
<1>1. ASSUME NEW t \in Threads, pc[t] = "scan"
      PROVE  ~ChangedUnderScan(t)
  <2>1. visited[t] \subseteq Cached /\ size[t] = Cardinality(Cached)
    BY <1>1 DEF SerialInv, ScanExact
  <2>2. IsFiniteSet(Cached)
    <3>1. Cached \subseteq Jtis
      BY DEF Cached
    <3> QED
      BY <3>1, JtisAssumption, FS_Subset
  <2>3. Cardinality(visited[t]) = Cardinality(Cached) => visited[t] = Cached
    BY <2>1, <2>2, FS_Subset
  <2> QED
    BY <2>1, <2>3 DEF ChangedUnderScan, Unvisited
<1>2. ASSUME NEW t \in Threads, pc[t] = "delete"
      PROVE  expired[t] \ Cached = {}
  BY <1>2 DEF SerialInv, ListedCached
<1>3. ASSUME NEW t \in Threads, Verify(t) \/ ReadClock(t)
      PROVE  RaisesForCause'
  BY <1>3 DEF Verify, VerifyRaises, ReadClock, RaisesByItself, Goto, Finish
<1>4. ASSUME NEW t \in Threads, ScanFails(t) \/ DeleteFails(t)
      PROVE  FALSE
  BY <1>1, <1>2, <1>4 DEF ScanFails, DeleteFails, Finish, Goto
<1>5. ASSUME NEW t \in Threads,
             \/ StartScan(t) \/ ScanEntry(t) \/ EndScan(t)
             \/ Delete(t) \/ EndPurge(t) \/ RecordProof(t)
      PROVE  UNCHANGED <<req, outcome>>
  BY <1>5 DEF StartScan, ScanEntry, EndScan, Delete, EndPurge, RecordProof, locals
<1>6. ASSUME NEW t \in Threads, DenyReplay(t) \/ Bind(t) \/ Leave(t)
      PROVE  RaisesForCause'
  BY <1>6 DEF DenyReplay, Bind, Leave, Finish
<1>7. ASSUME NEW t \in Threads, Receive(t)
      PROVE  RaisesForCause'
  <2>1. outcome[t] = "none"
    BY <1>7 DEF Receive, Goto, SerialInv, NoneBefore
  <2> QED
    BY <1>7, <2>1 DEF Receive
<1>8. CASE Tick \/ Restart \/ UNCHANGED vars
  BY <1>8 DEF Tick, Restart, vars, locals
<1> QED
  BY <1>3, <1>4, <1>5, <1>6, <1>7, <1>8 DEF Next, ThreadStep

(* Requests that do not overlap, of one thread or of several: no proof is  *)
(* accepted twice in the life of a process.                                *)
THEOREM ProofsAreSingleUse == Spec /\ []NoOverlap => []SingleUse
<1>1. SerialInv => SingleUse
  BY DEF SerialInv
<1> QED
  BY <1>1, InvInit, InvStep, SerialInit, SerialStep, PTL DEF Spec

(* In particular a gateway that serves one request at a time accepts no    *)
(* proof twice, at whatever age its entry is looked up or purged.          *)
THEOREM OneThreadSingleUse ==
  ASSUME \A t, u \in Threads : t = u
  PROVE  Spec => []SingleUse
<1>1. NoOverlap
  BY DEF NoOverlap
<1> QED
  BY <1>1, ProofsAreSingleUse, PTL

(* And the purge never raises: an exception that is not Gate 1's denial is *)
(* due to the request's own token or proof.                                *)
THEOREM OnlyOverlapRaises == Spec /\ []NoOverlap => []RaisesForCause
<1>1. Init => RaisesForCause
  BY DEF Init, RaisesForCause
<1>2. Inv /\ SerialInv /\ RaisesForCause /\ [Next]_vars => RaisesForCause'
  BY SerialNeverRaises
<1> QED
  BY <1>1, <1>2, InvInit, InvStep, SerialInit, SerialStep, PTL DEF Spec
=============================================================================
