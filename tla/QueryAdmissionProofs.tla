------------------------- MODULE QueryAdmissionProofs -------------------------
(***************************************************************************)
(* Proofs about QueryAdmission, for any workers, queries, peers, limits,   *)
(* window and lease, as long as the lease is longer than a query may run.  *)
(***************************************************************************)
EXTENDS QueryAdmission, FiniteSetTheorems, TLAPS

USE AdmissionAssumption DEF AdmissionAssumption

(***************************************************************************)
(* The inductive invariant ties what the stores hold to where the queries  *)
(* are.  A slot belongs to a query that runs or was orphaned; a query that *)
(* runs has its slot and is within its deadline, so its lease is not over; *)
(* and a store still has the mark of every query it admitted whose mark    *)
(* has not left the window.                                                *)
(***************************************************************************)
Placed == {"running", "done", "orphaned"}

QueriesPlaced ==
  \A r \in Requests :
    /\ request[r].at <= now
    /\ request[r].st \in Placed => request[r].on \in Workers
    /\ request[r].st = "orphaned" => backend = "redis"
    /\ request[r].st = "running" => now <= request[r].at + RequestTime

SlotsMatch ==
  \A r \in Requests :
    /\ request[r].st = "running" => r \in slots[StoreOf(request[r].on)]
    /\ request[r].st = "orphaned" /\ ~Expired(r) => r \in slots["redis"]
    /\ \A s \in Stores : r \in slots[s] =>
         /\ request[r].st \in {"running", "orphaned"}
         /\ s = StoreOf(request[r].on)

MarksKept ==
  \A r \in Requests :
    request[r].st \in Placed /\ request[r].at > now - Window =>
      r \in window[StoreOf(request[r].on)]

AdmissionInv == TypeOK /\ QueriesPlaced /\ SlotsMatch /\ MarksKept

\* Nothing has arrived and every store is empty.
LEMMA InitAdmissionInv == Init => AdmissionInv
  BY DEF Init, AdmissionInv, TypeOK, QueriesPlaced, SlotsMatch, MarksKept, NotAdmitted,
         RequestStates, Refusals, Placed, Stores

\* A worker's store is a store.
LEMMA StoreOfType == ASSUME TypeOK, NEW w \in Workers PROVE StoreOf(w) \in Stores
  BY DEF TypeOK, StoreOf, Stores

\* The atomic section writes sets of queries.
LEMMA DecideTypes ==
  ASSUME TypeOK, NEW r \in Requests, NEW s \in Stores, Decide(r, s)
  PROVE  slots' \in [Stores -> SUBSET Requests] /\ window' \in [Stores -> SUBSET Requests]
  BY DEF TypeOK, Decide, Kept

\* A query that arrives is refused, or gets a slot and a mark, running or not.
LEMMA DecidedStep ==
  ASSUME AdmissionInv, NEW r \in Requests, NEW w \in Workers,
         Acquire(r, w) \/ AcquireUnanswered(r, w)
  PROVE  AdmissionInv'
<1> DEFINE s == StoreOf(w)
<1>1. s \in Stores
  BY StoreOfType DEF AdmissionInv
<1>2. Decide(r, s) /\ request[r].st = "waiting" /\ UNCHANGED <<backend, now>>
  BY DEF Acquire, AcquireUnanswered, Decided, StoreOf
<1>3. /\ slots' \in [Stores -> SUBSET Requests] /\ window' \in [Stores -> SUBSET Requests]
  BY <1>1, <1>2, DecideTypes DEF AdmissionInv
<1>4. PICK st \in {"running", "orphaned"} \cup Refusals :
        /\ Decided(r, w, st)
        /\ st \notin Refusals <=> Verdict(s, PeerOf[r]) = "running"
        /\ st = "orphaned" => backend = "redis"
  <2>1. CASE Acquire(r, w)
    BY <2>1 DEF Acquire, Verdict, Refusals
  <2>2. CASE AcquireUnanswered(r, w)
    BY <2>2 DEF AcquireUnanswered, Refusals, StoreOf
  <2> QED
    BY <2>1, <2>2
<1>5. TypeOK'
  BY <1>2, <1>3, <1>4 DEF AdmissionInv, TypeOK, Decided, NotAdmitted, RequestStates,
     Refusals, Stores
<1>6. \A x \in Requests : x # r => request'[x] = request[x]
  BY <1>4 DEF Decided, AdmissionInv, TypeOK
<1>7. request'[r] = IF st \in Refusals THEN NotAdmitted(st)
                    ELSE [st |-> st, on |-> w, at |-> now]
  BY <1>4 DEF Decided, AdmissionInv, TypeOK
<1>8. \A x \in Requests : ~Expired(x) /\ x # r => ~Expired(x)'
  BY <1>2, <1>6 DEF Expired
<1>9. QueriesPlaced'
  BY <1>2, <1>4, <1>6, <1>7 DEF AdmissionInv, TypeOK, QueriesPlaced, Placed, NotAdmitted,
     Refusals
<1>10. SlotsMatch'
  <2>1. \A x \in Requests, t \in Stores :
          /\ x # r /\ ~Expired(x) => (x \in slots'[t] <=> x \in slots[t])
          /\ x # r /\ x \in slots'[t] => x \in slots[t]
    BY <1>1, <1>2 DEF Decide, Kept, AdmissionInv, TypeOK
  <2>2. \A t \in Stores : r \in slots'[t] => t = s /\ st \notin Refusals
    BY <1>1, <1>2, <1>4 DEF Decide, Kept, AdmissionInv, TypeOK, SlotsMatch
  <2>3. st \notin Refusals => r \in slots'[s]
    BY <1>1, <1>2, <1>4 DEF Decide, AdmissionInv, TypeOK
  <2>4. \A x \in Requests : request[x].st = "running" => ~Expired(x)
    BY DEF AdmissionInv, TypeOK, QueriesPlaced, Expired
  <2>5. \A x \in Requests : request[x].st = "running" => StoreOf(request[x].on) \in Stores
    BY StoreOfType DEF AdmissionInv, QueriesPlaced, Placed
  <2>6. \A x \in Requests : x # r => /\ Expired(x)' <=> Expired(x)
                                     /\ StoreOf(request[x].on)' = StoreOf(request[x].on)
    BY <1>2, <1>6 DEF Expired, StoreOf
  <2>7. st \notin Refusals => StoreOf(request[r].on)' = s
    BY <1>2, <1>7 DEF StoreOf
  <2>8. st = "orphaned" => s = "redis"
    BY <1>4 DEF StoreOf
  <2> QED
    BY <1>4, <1>6, <1>7, <2>1, <2>2, <2>3, <2>4, <2>5, <2>6, <2>7, <2>8
       DEF SlotsMatch, AdmissionInv, NotAdmitted, Refusals, Stores
<1>11. MarksKept'
  <2>1. \A x \in Requests, t \in Stores :
          x # r /\ x \in window[t] /\ request[x].at > now - Window => x \in window'[t]
    BY <1>1, <1>2 DEF Decide, InWindow, AdmissionInv, TypeOK
  <2>2. st \notin Refusals => r \in window'[s]
    BY <1>1, <1>2, <1>4 DEF Decide, AdmissionInv, TypeOK
  <2>3. \A x \in Requests : request[x].st \in Placed => StoreOf(request[x].on) \in Stores
    BY StoreOfType DEF AdmissionInv, QueriesPlaced
  <2>4. \A x \in Requests : x # r => StoreOf(request[x].on)' = StoreOf(request[x].on)
    BY <1>2, <1>6 DEF StoreOf
  <2>5. st \notin Refusals => StoreOf(request[r].on)' = s
    BY <1>2, <1>7 DEF StoreOf
  <2> QED
    BY <1>2, <1>6, <1>7, <2>1, <2>2, <2>3, <2>4, <2>5
       DEF MarksKept, AdmissionInv, NotAdmitted, Refusals, Placed
<1> QED
  BY <1>5, <1>9, <1>10, <1>11 DEF AdmissionInv

\* Releases, crashes and the clock keep the invariant; a crash takes a local store
\* with the queries that held its slots.
LEMMA AdmissionStep == ASSUME AdmissionInv, [Next]_vars PROVE AdmissionInv'
<1> USE DEF AdmissionInv
<1>1. ASSUME NEW r \in Requests, NEW w \in Workers, AcquireUnreached(r, w)
      PROVE  AdmissionInv'
  <2>1. /\ request' = [request EXCEPT ![r] = NotAdmitted("admission_backend_unavailable")]
        /\ request[r].st = "waiting"
        /\ UNCHANGED <<backend, now, slots, window>>
    BY <1>1 DEF AcquireUnreached, Decided, Refusals
  <2> QED
    BY <2>1 DEF TypeOK, NotAdmitted, RequestStates, Refusals, Stores, QueriesPlaced,
       Placed, SlotsMatch, MarksKept, StoreOf, Expired
<1>2. ASSUME NEW r \in Requests, Release(r) PROVE AdmissionInv'
  <2>1. StoreOf(request[r].on) \in Stores
    BY <1>2, StoreOfType DEF Release, QueriesPlaced, Placed
  <2>2. TypeOK'
    BY <1>2, <2>1 DEF Release, TypeOK, RequestStates
  <2>3. QueriesPlaced' /\ MarksKept'
    BY <1>2 DEF Release, TypeOK, QueriesPlaced, MarksKept, Placed, StoreOf
  <2>4. SlotsMatch'
    <3>1. \A x \in Requests, s \in Stores :
            x \in slots'[s] <=> x \in slots[s] /\ x # r
      BY <1>2, <2>1 DEF Release, TypeOK, SlotsMatch
    <3>2. \A x \in Requests : StoreOf(request[x].on)' = StoreOf(request[x].on)
      BY <1>2 DEF Release, TypeOK, StoreOf
    <3>3. \A x \in Requests : request[x].st = "running" => StoreOf(request[x].on) \in Stores
      BY StoreOfType DEF QueriesPlaced, Placed
    <3> QED
      BY <1>2, <3>1, <3>2, <3>3 DEF Release, TypeOK, SlotsMatch, Expired, Stores
  <2> QED
    BY <2>2, <2>3, <2>4
<1>3. ASSUME NEW r \in Requests, ReleaseUnreached(r) PROVE AdmissionInv'
  BY <1>3 DEF ReleaseUnreached, TypeOK, RequestStates, QueriesPlaced, Placed, SlotsMatch,
     MarksKept, StoreOf, Expired
<1>4. ASSUME NEW w \in Workers, Crash(w) PROVE AdmissionInv'
  <2>1. TypeOK'
    BY <1>4 DEF Crash, TypeOK, RequestStates
  <2>2. \A x \in Requests :
          /\ request'[x].on = request[x].on /\ request'[x].at = request[x].at
          /\ request'[x].st = IF request[x].on # w THEN request[x].st
                              ELSE IF backend = "local" THEN "lost"
                              ELSE IF request[x].st = "running" THEN "orphaned"
                              ELSE request[x].st
    BY <1>4 DEF Crash, TypeOK
  <2>3. \A s \in Stores : s # w => slots'[s] = slots[s] /\ window'[s] = window[s]
    BY <1>4 DEF Crash, TypeOK
  <2>4. w \in Stores /\ slots'[w] = {} /\ window'[w] = {}
    BY <1>4 DEF Crash, TypeOK, Stores
  <2>5. QueriesPlaced'
    BY <1>4, <2>2 DEF Crash, TypeOK, QueriesPlaced, Placed
  <2>6. \A x \in Requests : StoreOf(request[x].on)' = StoreOf(request[x].on)
    BY <1>4, <2>2 DEF Crash, StoreOf
  <2>7. SlotsMatch'
    <3>1. CASE backend = "local"
      BY <1>4, <2>2, <2>3, <2>4, <2>6, <3>1, StoreOfType
         DEF Crash, TypeOK, SlotsMatch, QueriesPlaced, Placed, StoreOf, Expired
    <3>2. CASE backend = "redis"
      BY <1>4, <2>2, <2>3, <2>4, <2>6, <3>2
         DEF Crash, TypeOK, SlotsMatch, QueriesPlaced, Placed, StoreOf, Expired, Stores
    <3> QED
      BY <3>1, <3>2 DEF TypeOK
  <2>8. MarksKept'
    <3>1. CASE backend = "local"
      BY <1>4, <2>2, <2>3, <2>4, <3>1
         DEF Crash, TypeOK, MarksKept, QueriesPlaced, Placed, StoreOf, Stores
    <3>2. CASE backend = "redis"
      BY <1>4, <2>2, <2>3, <2>4, <3>2
         DEF Crash, TypeOK, MarksKept, QueriesPlaced, Placed, StoreOf, Stores
    <3> QED
      BY <3>1, <3>2 DEF TypeOK
  <2> QED
    BY <2>1, <2>5, <2>7, <2>8
<1>5. CASE Tick
  BY <1>5 DEF Tick, TypeOK, QueriesPlaced, Placed, SlotsMatch, MarksKept, StoreOf, Expired
<1>6. CASE UNCHANGED vars
  BY <1>6 DEF vars, TypeOK, QueriesPlaced, Placed, SlotsMatch, MarksKept, StoreOf, Expired
<1> QED
  BY <1>1, <1>2, <1>3, <1>4, <1>5, <1>6, DecidedStep DEF Next

(***************************************************************************)
(* The slots a store counts are those of the queries it lets run, and of   *)
(* those orphaned within the last lease.                                   *)
(***************************************************************************)
THEOREM SlotsAreAccounted == Spec => []SlotsAccounted
<1>1. AdmissionInv => SlotsAccounted
  <2> SUFFICES ASSUME AdmissionInv, NEW s \in Stores, NEW r
               PROVE  r \in Kept(s) <=> r \in Holders(s) \cup Orphans(s)
    BY DEF SlotsAccounted, Kept, Holders, Orphans
  <2> USE DEF AdmissionInv, Kept, Holders, Orphans
  <2>1. ASSUME r \in Requests, request[r].st = "running" PROVE ~Expired(r)
    BY <2>1 DEF TypeOK, QueriesPlaced, Expired
  <2>2. ASSUME r \in Requests, request[r].st = "orphaned"
        PROVE  backend = "redis" /\ StoreOf(request[r].on) = "redis"
    BY <2>2 DEF QueriesPlaced, StoreOf
  <2>3. slots[s] \subseteq Requests
    BY DEF TypeOK
  <2> QED
    BY <2>1, <2>2, <2>3 DEF SlotsMatch
<1> QED
  BY InitAdmissionInv, AdmissionStep, <1>1, PTL DEF Spec

-----------------------------------------------------------------------------
\* Adding one query to a set below a limit keeps it within the limit.
LEMMA AddOneBelow ==
  ASSUME NEW S, NEW T \in SUBSET Requests, NEW U, NEW r, NEW limit \in Nat,
         S \subseteq T, ~(Cardinality(T) >= limit), U \subseteq S \cup {r}
  PROVE  Cardinality(U) <= limit
<1>1. IsFiniteSet(T) /\ Cardinality(T) \in Nat
  BY FS_Subset, FS_CardinalityType
<1>2. IsFiniteSet(T \cup {r}) /\ Cardinality(T \cup {r}) <= Cardinality(T) + 1
  <2> DEFINE n == Cardinality(T)
  <2>1. /\ IsFiniteSet(T \cup {r})
        /\ Cardinality(T \cup {r}) = n \/ Cardinality(T \cup {r}) = n + 1
    BY <1>1, FS_AddElement, Zenon
  <2> QED
    BY <1>1, <2>1
<1>3. Cardinality(U) <= Cardinality(T \cup {r}) /\ Cardinality(U) \in Nat
  BY <1>2, FS_Subset, FS_CardinalityType
<1>4. Cardinality(T \cup {r}) \in Nat
  BY <1>2, FS_CardinalityType
<1> QED
  BY <1>1, <1>2, <1>3, <1>4

\* A set of queries that only shrinks stays within its limit.
LEMMA ShrinksBelow ==
  ASSUME NEW S \in SUBSET Requests, NEW U \in SUBSET S, NEW limit \in Nat,
         Cardinality(S) <= limit
  PROVE  Cardinality(U) <= limit
<1>1. IsFiniteSet(S) /\ Cardinality(S) \in Nat
  BY FS_Subset, FS_CardinalityType
<1>2. Cardinality(U) <= Cardinality(S) /\ Cardinality(U) \in Nat
  BY <1>1, FS_Subset, FS_CardinalityType
<1> QED
  BY <1>1, <1>2

\* The limits are numbers, and never change.
LEMMA Limits == SlotLimit \in Nat /\ RateLimit \in Nat
  BY DEF SlotLimit, RateLimit

\* The queries that run at a store hold slots it counts.
LEMMA HoldersKept == ASSUME AdmissionInv, NEW s \in Stores PROVE Holders(s) \subseteq Kept(s)
  BY DEF AdmissionInv, TypeOK, QueriesPlaced, SlotsMatch, Holders, Kept, Expired

(***************************************************************************)
(* No store lets more queries run at once than the limit it tests.  A      *)
(* query starts only when the slots counted, those of the queries that run *)
(* among them, are fewer than the limit.                                   *)
(***************************************************************************)
THEOREM ConcurrencyIsEnforced == Spec => []ConcurrencyEnforced
<1>1. Init => ConcurrencyEnforced
  <2> SUFFICES ASSUME Init, NEW s \in Stores PROVE Cardinality(Holders(s)) <= SlotLimit
    BY DEF ConcurrencyEnforced
  <2>1. Holders(s) = {}
    BY DEF Init, Holders, NotAdmitted
  <2> QED
    BY <2>1, FS_EmptySet, Limits
<1>2. ASSUME AdmissionInv, ConcurrencyEnforced, [Next]_vars PROVE ConcurrencyEnforced'
  <2> SUFFICES ASSUME NEW s \in Stores PROVE Cardinality(Holders(s)') <= SlotLimit
    BY <1>2 DEF ConcurrencyEnforced, SlotLimit, Next, Acquire, AcquireUnanswered,
       AcquireUnreached, Decided, Release, ReleaseUnreached, Crash, Tick, vars
  <2>1. Cardinality(Holders(s)) <= SlotLimit /\ Holders(s) \in SUBSET Requests
    BY <1>2 DEF ConcurrencyEnforced, Holders
  <2>2. ASSUME NEW r \in Requests, NEW w \in Workers, Acquire(r, w),
               ~(Holders(s)' \subseteq Holders(s))
        PROVE  Cardinality(Holders(s)') <= SlotLimit
    <3>1. /\ request' = [request EXCEPT ![r] =
                           IF Verdict(StoreOf(w), PeerOf[r]) \in Refusals
                           THEN NotAdmitted(Verdict(StoreOf(w), PeerOf[r]))
                           ELSE [st |-> Verdict(StoreOf(w), PeerOf[r]),
                                 on |-> w, at |-> now]]
          /\ UNCHANGED backend
      BY <2>2 DEF Acquire, Decided
    <3>2. \A x \in Requests : x # r => request'[x] = request[x]
      BY <1>2, <3>1 DEF AdmissionInv, TypeOK
    <3>3. Holders(s)' \subseteq Holders(s) \cup {r}
      BY <3>1, <3>2 DEF Holders, StoreOf
    <3>4. r \in Holders(s)'
      BY <2>2, <3>3
    <3>5. Verdict(StoreOf(w), PeerOf[r]) = "running" /\ s = StoreOf(w)
      BY <1>2, <3>1, <3>4 DEF AdmissionInv, TypeOK, Holders, NotAdmitted, Verdict, Refusals,
         StoreOf
    <3>6. ~(Cardinality(Kept(s)) >= SlotLimit)
      BY <3>5 DEF Verdict
    <3>7. Kept(s) \in SUBSET Requests
      BY <1>2 DEF AdmissionInv, TypeOK, Kept
    <3> QED
      BY <1>2, <3>3, <3>6, <3>7, HoldersKept, Limits, AddOneBelow
  <2>3. CASE Holders(s)' \subseteq Holders(s)
    BY <2>1, <2>3, Limits, ShrinksBelow
  <2>4. CASE \E r \in Requests, w \in Workers : Acquire(r, w)
    BY <2>2, <2>3, <2>4
  <2>5. CASE ~ \E r \in Requests, w \in Workers : Acquire(r, w)
    <3>1. \A r \in Requests : request'[r].st = "running" =>
            request[r].st = "running" /\ request'[r].on = request[r].on
      BY <1>2, <2>5 DEF AdmissionInv, TypeOK, Next, AcquireUnanswered, AcquireUnreached,
         Decided, NotAdmitted, Refusals, Release, ReleaseUnreached, Crash, Tick, vars
    <3>2. UNCHANGED backend
      BY <1>2 DEF Next, Acquire, AcquireUnanswered, AcquireUnreached, Decided, Release,
         ReleaseUnreached, Crash, Tick, vars
    <3> QED
      BY <2>3, <3>1, <3>2 DEF Holders, StoreOf
  <2> QED
    BY <2>4, <2>5
<1> QED
  BY InitAdmissionInv, AdmissionStep, <1>1, <1>2, PTL DEF Spec

-----------------------------------------------------------------------------
\* The queries of a peer that the rate limit is about.
Counted(s, peer) == {r \in Admitted(s, peer) : request[r].at > now - Window}

\* A store still has the marks of these queries.
LEMMA CountedMarked ==
  ASSUME AdmissionInv, NEW s \in Stores, NEW peer \in Peers
  PROVE  Counted(s, peer) \subseteq Recent(s, peer)
  BY DEF AdmissionInv, MarksKept, Placed, Counted, Admitted, Recent, InWindow

(***************************************************************************)
(* No store admits more queries of a peer within a window than the limit   *)
(* it tests.  A query is admitted only when the marks of its peer in the   *)
(* window, those of the queries admitted among them, are fewer.            *)
(***************************************************************************)
THEOREM RateIsEnforced == Spec => []RateEnforced
<1>1. Init => RateEnforced
  <2> SUFFICES ASSUME Init, NEW s \in Stores, NEW peer \in Peers
               PROVE  Cardinality(Counted(s, peer)) <= RateLimit
    BY DEF RateEnforced, Counted
  <2>1. Counted(s, peer) = {}
    BY DEF Init, Counted, Admitted, NotAdmitted
  <2> QED
    BY <2>1, FS_EmptySet, Limits
<1>2. ASSUME AdmissionInv, RateEnforced, [Next]_vars PROVE RateEnforced'
  <2>1. UNCHANGED backend /\ RateLimit' = RateLimit
    BY <1>2 DEF RateLimit, Next, Acquire, AcquireUnanswered, AcquireUnreached, Decided,
       Release, ReleaseUnreached, Crash, Tick, vars
  <2> SUFFICES ASSUME NEW s \in Stores, NEW peer \in Peers
               PROVE  Cardinality(Counted(s, peer)') <= RateLimit
    BY <2>1 DEF RateEnforced, Counted
  <2>2. Cardinality(Counted(s, peer)) <= RateLimit /\ Counted(s, peer) \in SUBSET Requests
    BY <1>2 DEF RateEnforced, Counted, Admitted
  <2>3. CASE Counted(s, peer)' \subseteq Counted(s, peer)
    BY <2>2, <2>3, Limits, ShrinksBelow
  <2>4. ASSUME NEW r \in Requests, NEW w \in Workers,
               Acquire(r, w) \/ AcquireUnanswered(r, w),
               ~(Counted(s, peer)' \subseteq Counted(s, peer))
        PROVE  Cardinality(Counted(s, peer)') <= RateLimit
    <3>1. PICK st \in {"running", "orphaned"} \cup Refusals :
            /\ Decided(r, w, st)
            /\ st \notin Refusals => Verdict(StoreOf(w), PeerOf[r]) = "running"
      <4>1. CASE Acquire(r, w)
        BY <4>1 DEF Acquire, Verdict, Refusals
      <4>2. CASE AcquireUnanswered(r, w)
        BY <4>2 DEF AcquireUnanswered, Refusals, StoreOf
      <4> QED
        BY <2>4, <4>1, <4>2
    <3>2. /\ request' = [request EXCEPT ![r] =
                           IF st \in Refusals THEN NotAdmitted(st)
                           ELSE [st |-> st, on |-> w, at |-> now]]
          /\ UNCHANGED <<backend, now>>
      BY <3>1 DEF Decided
    <3>3. \A x \in Requests : x # r => request'[x] = request[x]
      BY <1>2, <3>2 DEF AdmissionInv, TypeOK
    <3>4. Counted(s, peer)' \subseteq Counted(s, peer) \cup {r}
      BY <3>2, <3>3 DEF Counted, Admitted, StoreOf
    <3>5. r \in Counted(s, peer)'
      BY <2>4, <3>4
    <3>6. st \notin Refusals /\ s = StoreOf(w) /\ PeerOf[r] = peer
      BY <1>2, <3>2, <3>5 DEF AdmissionInv, TypeOK, Counted, Admitted, NotAdmitted, Refusals,
         StoreOf
    <3>7. ~(Cardinality(Recent(s, peer)) >= RateLimit)
      BY <3>1, <3>6 DEF Verdict
    <3>8. Recent(s, peer) \in SUBSET Requests
      BY <1>2 DEF AdmissionInv, TypeOK, Recent
    <3> QED
      BY <1>2, <3>4, <3>7, <3>8, CountedMarked, Limits, AddOneBelow
  <2>5. CASE \E r \in Requests, w \in Workers : Acquire(r, w) \/ AcquireUnanswered(r, w)
    BY <2>3, <2>4, <2>5
  <2>6. CASE ~ \E r \in Requests, w \in Workers : Acquire(r, w) \/ AcquireUnanswered(r, w)
    <3>1. \A r \in Requests : request'[r].st \in Placed =>
            /\ request[r].st \in Placed
            /\ request'[r].on = request[r].on /\ request'[r].at = request[r].at
      BY <1>2, <2>6 DEF AdmissionInv, TypeOK, Next, AcquireUnreached, Decided, NotAdmitted,
         Refusals, Placed, Release, ReleaseUnreached, Crash, Tick, vars
    <3>2. now \in Nat /\ now' \in Nat /\ now' >= now
      BY <1>2, <2>6 DEF AdmissionInv, TypeOK, Next, AcquireUnreached, Decided, Release,
         ReleaseUnreached, Crash, Tick, vars
    <3>3. \A r \in Requests : request[r].at \in Nat
      BY <1>2 DEF AdmissionInv, TypeOK
    <3> QED
      BY <2>1, <2>3, <3>1, <3>2, <3>3 DEF Counted, Admitted, StoreOf, Placed
  <2> QED
    BY <2>5, <2>6
<1> QED
  BY InitAdmissionInv, AdmissionStep, <1>1, <1>2, PTL DEF Spec

\* Both limits at once, as the run checks them.
THEOREM LimitsAreEnforced == Spec => []LimitsEnforced
BY ConcurrencyIsEnforced, RateIsEnforced, PTL DEF LimitsEnforced

-----------------------------------------------------------------------------
(***************************************************************************)
(* The refinement of AdmissionPromise.  What a store holds is what the     *)
(* history says: AdmissionInv says so of the slots and in one direction of *)
(* the marks; the other direction, that a mark is only ever that of a      *)
(* query which started, is PromiseInv.                                     *)
(***************************************************************************)
MarksTrue ==
  \A r \in Requests, s \in Stores :
    r \in window[s] => request[r].st \in Placed /\ s = StoreOf(request[r].on)

NotStarted ==
  \A r \in Requests :
    request[r].st \in {"waiting"} \cup Refusals => request[r] = NotAdmitted(request[r].st)

PromiseInv == MarksTrue /\ NotStarted

\* No marks, and nobody has started.
LEMMA InitPromiseInv == Init => PromiseInv
  BY DEF Init, PromiseInv, MarksTrue, NotStarted, NotAdmitted

\* The backend is the one the process was started with.
LEMMA BackendStays == [Next]_vars => UNCHANGED backend
  BY DEF Next, Acquire, AcquireUnanswered, AcquireUnreached, Decided, Release,
     ReleaseUnreached, Crash, Tick, vars

\* A query that is decided upon leaves a mark only if it starts.
LEMMA DecidedPromise ==
  ASSUME AdmissionInv, PromiseInv, NEW r \in Requests, NEW w \in Workers,
         Acquire(r, w) \/ AcquireUnanswered(r, w)
  PROVE  PromiseInv'
<1> DEFINE s == StoreOf(w)
<1>1. s \in Stores
  BY StoreOfType DEF AdmissionInv
<1>2. Decide(r, s) /\ request[r].st = "waiting" /\ UNCHANGED <<backend, now>>
  BY DEF Acquire, AcquireUnanswered, Decided, StoreOf
<1>3. PICK st \in {"running", "orphaned"} \cup Refusals :
        Decided(r, w, st) /\ (st \notin Refusals <=> Verdict(s, PeerOf[r]) = "running")
  <2>1. CASE Acquire(r, w)
    BY <2>1 DEF Acquire, Verdict, Refusals
  <2>2. CASE AcquireUnanswered(r, w)
    BY <2>2 DEF AcquireUnanswered, Refusals, StoreOf
  <2> QED BY <2>1, <2>2
<1>4. /\ request'[r] = IF st \in Refusals THEN NotAdmitted(st)
                       ELSE [st |-> st, on |-> w, at |-> now]
      /\ \A x \in Requests : x # r => request'[x] = request[x]
  BY <1>3 DEF Decided, AdmissionInv, TypeOK
<1>5. NotStarted'
  BY <1>4 DEF PromiseInv, NotStarted, NotAdmitted, Refusals
<1>6. \A x \in Requests, t \in Stores :
        x \in window'[t] => \/ x \in window[t]
                            \/ x = r /\ t = s /\ st \notin Refusals
  BY <1>1, <1>2, <1>3 DEF Decide, AdmissionInv, TypeOK
<1>7. \A t \in Stores : r \notin window[t]
  BY <1>2 DEF PromiseInv, MarksTrue, Placed
<1>8. \A x \in Requests : x # r => StoreOf(request[x].on)' = StoreOf(request[x].on)
  BY <1>2, <1>4 DEF StoreOf
<1>9. st \notin Refusals => StoreOf(request[r].on)' = s
  BY <1>2, <1>4 DEF StoreOf
<1>10. MarksTrue'
  BY <1>4, <1>6, <1>7, <1>8, <1>9, <1>3 DEF PromiseInv, MarksTrue, Placed, Refusals
<1> QED BY <1>5, <1>10 DEF PromiseInv

\* No other step makes a mark, and a crash takes the marks of a local store along.
LEMMA PromiseStep == ASSUME AdmissionInv, PromiseInv, [Next]_vars PROVE PromiseInv'
<1> USE DEF AdmissionInv, PromiseInv
<1>1. ASSUME NEW r \in Requests, NEW w \in Workers, AcquireUnreached(r, w)
      PROVE  PromiseInv'
  <2>1. /\ request' = [request EXCEPT ![r] = NotAdmitted("admission_backend_unavailable")]
        /\ request[r].st = "waiting"
        /\ UNCHANGED <<backend, now, slots, window>>
    BY <1>1 DEF AcquireUnreached, Decided, Refusals
  <2> QED BY <2>1 DEF TypeOK, MarksTrue, NotStarted, NotAdmitted, Refusals, Placed, StoreOf
<1>2. ASSUME NEW r \in Requests, Release(r) PROVE PromiseInv'
  BY <1>2 DEF Release, TypeOK, MarksTrue, NotStarted, NotAdmitted, Refusals, Placed, StoreOf
<1>3. ASSUME NEW r \in Requests, ReleaseUnreached(r) PROVE PromiseInv'
  BY <1>3 DEF ReleaseUnreached, TypeOK, MarksTrue, NotStarted, NotAdmitted, Refusals, Placed,
     StoreOf
<1>4. ASSUME NEW w \in Workers, Crash(w) PROVE PromiseInv'
  <2>1. \A x \in Requests :
          /\ request[x].on # w => request'[x] = request[x]
          /\ request'[x].on = request[x].on
          /\ request'[x].st = IF request[x].on # w THEN request[x].st
                              ELSE IF backend = "local" THEN "lost"
                              ELSE IF request[x].st = "running" THEN "orphaned"
                              ELSE request[x].st
    BY <1>4 DEF Crash, TypeOK
  <2>2. \A x \in Requests, t \in Stores :
          x \in window'[t] => x \in window[t] /\ t # w
    BY <1>4 DEF Crash, TypeOK
  <2>3. \A x \in Requests : StoreOf(request[x].on)' = StoreOf(request[x].on)
    BY <1>4, <2>1 DEF Crash, TypeOK, StoreOf
  <2>4. MarksTrue'
    <3> SUFFICES ASSUME NEW x \in Requests, NEW t \in Stores, x \in window'[t]
                 PROVE  request'[x].st \in Placed /\ t = StoreOf(request[x].on)'
      BY DEF MarksTrue
    <3>1. x \in window[t] /\ t # w /\ request[x].st \in Placed /\ t = StoreOf(request[x].on)
      BY <2>2 DEF MarksTrue
    <3>2. backend = "local" => request[x].on # w
      BY <3>1 DEF StoreOf
    <3>3. request'[x].st \in Placed
      BY <2>1, <3>1, <3>2 DEF Placed
    <3> QED BY <2>3, <3>1, <3>3
  <2>5. NotStarted'
    <3> SUFFICES ASSUME NEW x \in Requests, request'[x].st \in {"waiting"} \cup Refusals
                 PROVE  request'[x] = NotAdmitted(request'[x].st)
      BY DEF NotStarted
    <3>1. request[x].st \in {"waiting"} \cup Refusals /\ request'[x].st = request[x].st
      BY <2>1 DEF TypeOK, Refusals
    <3>2. request[x].on # w
      <4>1. request[x] = NotAdmitted(request[x].st)
        BY <3>1 DEF NotStarted
      <4>2. request[x].on = "redis"
        BY <4>1 DEF NotAdmitted
      <4> QED BY <4>2
    <3> QED BY <2>1, <3>1, <3>2 DEF NotStarted
  <2> QED BY <2>4, <2>5
<1>5. CASE Tick
  BY <1>5 DEF Tick, MarksTrue, NotStarted, NotAdmitted, StoreOf
<1>6. CASE UNCHANGED vars
  BY <1>6 DEF vars, MarksTrue, NotStarted, NotAdmitted, StoreOf
<1> QED BY <1>1, <1>2, <1>3, <1>4, <1>5, <1>6, DecidedPromise DEF Next

\* Two workers have the same store if it is shared or they are one.
LEMMA SameStore ==
  ASSUME TypeOK, NEW v \in Workers, NEW w \in Workers
  PROVE  StoreOf(v) = StoreOf(w) <=> backend = "redis" \/ v = w
  BY DEF TypeOK, StoreOf

(***************************************************************************)
(* The marks a store counts are those of the queries that started lately,  *)
(* and the slots it counts are those the history says are held.            *)
(***************************************************************************)
LEMMA StoresAreHistory ==
  ASSUME AdmissionInv, PromiseInv, NEW w \in Workers, NEW peer \in Peers
  PROVE  /\ Promise!Lately(w, peer) = Recent(StoreOf(w), peer)
         /\ Promise!Holding(w) = Kept(StoreOf(w))
<1> USE DEF AdmissionInv, PromiseInv
<1>1. StoreOf(w) \in Stores
  BY StoreOfType
<1>2. window[StoreOf(w)] \subseteq Requests /\ slots[StoreOf(w)] \subseteq Requests
  BY <1>1 DEF TypeOK
<1>3. \A r \in Requests : request[r].st \in Placed =>
        (StoreOf(request[r].on) = StoreOf(w) <=> backend = "redis" \/ request[r].on = w)
  BY SameStore DEF QueriesPlaced
<1>4. ASSUME NEW r \in Requests, PeerOf[r] = peer, request[r].at > now - Window
      PROVE  r \in Promise!StartedAt(w) <=> r \in window[StoreOf(w)]
  BY <1>1, <1>3, <1>4 DEF MarksKept, MarksTrue, Promise!StartedAt, Placed
<1>5. ASSUME NEW r \in Requests
      PROVE  r \in Promise!Holding(w) <=> r \in Kept(StoreOf(w))
  <2>1. request[r].st = "running" => ~Expired(r)
    BY DEF TypeOK, QueriesPlaced, Expired
  <2>2. request[r].st = "orphaned" => (Expired(r) <=> ~(now < request[r].at + LeaseTime))
    BY DEF TypeOK, QueriesPlaced, Expired
  <2>3. request[r].st = "orphaned" => StoreOf(w) = "redis"
    BY DEF QueriesPlaced, StoreOf
  <2> QED BY <1>1, <1>3, <2>1, <2>2, <2>3
          DEF SlotsMatch, Kept, Promise!Holding, Promise!StartedAt, Placed
<1>6. Promise!Lately(w, peer) = Recent(StoreOf(w), peer)
  BY <1>2, <1>4 DEF Promise!Lately, Promise!StartedAt, Recent, InWindow
<1>7. Promise!Holding(w) = Kept(StoreOf(w))
  BY <1>2, <1>5 DEF Promise!Holding, Promise!StartedAt, Kept
<1> QED BY <1>6, <1>7

\* The cardinality of the promise is that of the stores.
LEMMA SameCardinality == ASSUME NEW S PROVE Promise!Cardinality(S) = Cardinality(S)
  BY DEF Promise!Cardinality, Cardinality

\* A store decides as the history says.
LEMMA VerdictIsHistory ==
  ASSUME AdmissionInv, PromiseInv, NEW r \in Requests, NEW w \in Workers
  PROVE  Verdict(StoreOf(w), PeerOf[r]) = IF ~Promise!RateIsFree(r, w) THEN "rate_limited"
                                          ELSE IF ~Promise!SlotIsFree(w) THEN "busy"
                                          ELSE "running"
<1>1. PeerOf[r] \in Peers
  OBVIOUS
<1>2. /\ Promise!Lately(w, PeerOf[r]) = Recent(StoreOf(w), PeerOf[r])
      /\ Promise!Holding(w) = Kept(StoreOf(w))
  BY <1>1, StoresAreHistory
<1>3. /\ Cardinality(Recent(StoreOf(w), PeerOf[r])) \in Nat
      /\ Cardinality(Kept(StoreOf(w))) \in Nat
  <2>1. StoreOf(w) \in Stores
    BY StoreOfType DEF AdmissionInv
  <2>2. Recent(StoreOf(w), PeerOf[r]) \subseteq Requests /\ Kept(StoreOf(w)) \subseteq Requests
    BY <2>1 DEF AdmissionInv, TypeOK, Recent, Kept
  <2>3. IsFiniteSet(Requests)
    OBVIOUS
  <2>4. /\ IsFiniteSet(Recent(StoreOf(w), PeerOf[r]))
        /\ IsFiniteSet(Kept(StoreOf(w)))
    BY <2>2, <2>3, FS_Subset
  <2> QED BY <2>4, FS_CardinalityType
<1> QED BY <1>2, <1>3, Limits, SameCardinality DEF Verdict, Promise!RateIsFree, Promise!SlotIsFree

\* A query that is decided upon starts or is refused as the promise says.
LEMMA DecisionIsPromised ==
  ASSUME AdmissionInv, PromiseInv, NEW r \in Requests, NEW w \in Workers,
         Acquire(r, w) \/ AcquireUnanswered(r, w) \/ AcquireUnreached(r, w)
  PROVE  Promise!Next
<1> DEFINE verdict == Verdict(StoreOf(w), PeerOf[r])
<1>1. /\ UNCHANGED <<backend, now>> /\ UNCHANGED Promise!fixedVars
      /\ request[r].st = "waiting"
  BY DEF Acquire, AcquireUnanswered, AcquireUnreached, Decided, Promise!fixedVars, SlotLimit,
     RateLimit
<1>2. ASSUME NEW st \in Refusals, request' = [request EXCEPT ![r] = NotAdmitted(st)]
      PROVE  Promise!Becomes(r, st)
  <2>1. request[r] = NotAdmitted("waiting")
    BY <1>1 DEF PromiseInv, NotStarted
  <2>2. request' = [request EXCEPT ![r].st = st]
    <3>1. NotAdmitted(st) = [request[r] EXCEPT !.st = st]
      BY <2>1 DEF NotAdmitted
    <3> QED BY <1>2, <3>1
  <2> QED BY <1>1, <2>2 DEF Promise!Becomes
<1>3. CASE AcquireUnreached(r, w)
  BY <1>1, <1>2, <1>3
     DEF AcquireUnreached, Decided, Refusals, Promise!Unavailable, Promise!Next
<1>4. CASE AcquireUnanswered(r, w) /\ verdict # "running"
  BY <1>1, <1>2, <1>4
     DEF AcquireUnanswered, StoreOf, Decided, Refusals, Promise!Unavailable, Promise!Next
<1>5. CASE Acquire(r, w) /\ verdict # "running"
  <2>1. /\ verdict \in {"rate_limited", "busy"}
        /\ request' = [request EXCEPT ![r] = NotAdmitted(verdict)]
    BY <1>5 DEF Acquire, Decided, Verdict, Refusals
  <2>2. Promise!Becomes(r, verdict)
    BY <1>2, <2>1 DEF Refusals
  <2>3. Promise!RefuseForRate(r, w) \/ Promise!RefuseForSlots(r, w)
    BY <1>1, <2>1, <2>2, VerdictIsHistory DEF Promise!RefuseForRate, Promise!RefuseForSlots
  <2> QED BY <2>3 DEF Promise!Next
<1>6. CASE (Acquire(r, w) \/ AcquireUnanswered(r, w)) /\ verdict = "running"
  <2>1. \E st \in {"running", "orphaned"} :
          /\ st = "orphaned" => backend = "redis"
          /\ request' = [request EXCEPT ![r] = [st |-> st, on |-> w, at |-> now]]
    BY <1>6 DEF Acquire, AcquireUnanswered, StoreOf, Decided, Refusals
  <2>2. Promise!RateIsFree(r, w) /\ Promise!SlotIsFree(w)
    BY <1>6, VerdictIsHistory
  <2>3. Promise!Start(r, w)
    BY <1>1, <2>1, <2>2 DEF Promise!Start
  <2> QED BY <2>3 DEF Promise!Next
<1> QED BY <1>3, <1>4, <1>5, <1>6

(***************************************************************************)
(* The stores implement the promise: what they decide from their lists is  *)
(* what the history of the queries says, for any interleaving of arrivals, *)
(* releases, crashes, lost messages and time.                              *)
(***************************************************************************)
THEOREM AdmissionKeepsItsPromise == Spec => AdmissionPromiseSpec
<1>1. Init => Promise!Init
  BY DEF Init, Promise!Init, NotAdmitted
<1>2. ASSUME AdmissionInv, PromiseInv, [Next]_vars PROVE [Promise!Next]_(Promise!promiseVars)
  <2>1. UNCHANGED Promise!fixedVars
    BY <1>2, BackendStays DEF Promise!fixedVars, SlotLimit, RateLimit
  <2>2. ASSUME NEW r \in Requests, Release(r) \/ ReleaseUnreached(r) PROVE Promise!Next
    <3>1. Promise!End(r)
      BY <2>1, <2>2 DEF Release, ReleaseUnreached, Promise!End, Promise!Becomes
    <3> QED BY <3>1 DEF Promise!Next
  <2>3. ASSUME NEW w \in Workers, Crash(w) PROVE Promise!Next
    <3>1. request' = [r \in Requests |->
                        IF request[r].on # w THEN request[r]
                        ELSE [request[r] EXCEPT !.st = Promise!FateOf(request[r].st)]]
      BY <1>2, <2>3 DEF Crash, Promise!FateOf, AdmissionInv, TypeOK
    <3>2. Promise!Crash(w)
      BY <2>1, <2>3, <3>1 DEF Crash, Promise!Crash
    <3> QED BY <3>2 DEF Promise!Next
  <2>4. CASE Tick
    BY <2>1, <2>4 DEF Tick, Promise!Tick, Promise!Next
  <2>5. CASE UNCHANGED vars
    BY <2>1, <2>5 DEF vars, Promise!promiseVars
  <2> QED BY <1>2, <2>2, <2>3, <2>4, <2>5, DecisionIsPromised DEF Next
<1>3. /\ AdmissionInv /\ [Next]_vars => AdmissionInv'
      /\ AdmissionInv /\ PromiseInv /\ [Next]_vars => PromiseInv'
      /\ AdmissionInv /\ PromiseInv /\ [Next]_vars => [Promise!Next]_(Promise!promiseVars)
  BY <1>2, AdmissionStep, PromiseStep
<1> QED BY <1>1, <1>3, InitAdmissionInv, InitPromiseInv, PTL
        DEF Spec, AdmissionPromiseSpec, Promise!Spec
=============================================================================
