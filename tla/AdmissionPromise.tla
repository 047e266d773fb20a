--------------------------- MODULE AdmissionPromise ---------------------------
(***************************************************************************)
(* What admission promises, told from the history of the queries alone:    *)
(* there are no lists, marks, purges or leases here.  A query that arrives *)
(* at a worker starts exactly when its peer started fewer queries than the *)
(* rate limit within the window, and the queries that run, or were lost    *)
(* track of within the last lease, are fewer than the limit of slots; and  *)
(* it is refused for the reason that is true.  A store shared by all       *)
(* workers may also fail to answer, and may lose track of a query.         *)
(*                                                                         *)
(* QueryAdmission is shown to implement it.                                *)
(***************************************************************************)
EXTENDS Integers, FiniteSets

CONSTANTS Workers, Requests, PeerOf, Window, LeaseTime

VARIABLES
  shared,      \* all workers have one store, instead of one each
  slotLimit, rateLimit,
  now,
  request      \* st: where each query is; on, at: where and when it started

fixedVars == <<shared, slotLimit, rateLimit>>
promiseVars == <<fixedVars, now, request>>

Init ==
  /\ now = 0
  /\ \A r \in Requests : request[r].st = "waiting"

\* Queries that started at the store of a worker.
StartedAt(w) ==
  {r \in Requests : /\ request[r].st \in {"running", "done", "orphaned"}
                    /\ shared \/ request[r].on = w}

\* Those of a peer within the window.
Lately(w, peer) == {r \in StartedAt(w) : PeerOf[r] = peer /\ request[r].at > now - Window}

\* Those that hold a slot: an orphan's is recovered when its lease is over.
Holding(w) ==
  {r \in StartedAt(w) : \/ request[r].st = "running"
                        \/ request[r].st = "orphaned" /\ now < request[r].at + LeaseTime}

RateIsFree(r, w) == Cardinality(Lately(w, PeerOf[r])) < rateLimit
SlotIsFree(w) == Cardinality(Holding(w)) < slotLimit

-----------------------------------------------------------------------------
Becomes(r, st) ==
  /\ request' = [request EXCEPT ![r].st = st]
  /\ UNCHANGED <<fixedVars, now>>

\* If nobody learns that it started, it is lost track of at once.
Start(r, w) ==
  /\ request[r].st = "waiting" /\ RateIsFree(r, w) /\ SlotIsFree(w)
  /\ \E st \in {"running", "orphaned"} :
       /\ st = "orphaned" => shared
       /\ request' = [request EXCEPT ![r] = [st |-> st, on |-> w, at |-> now]]
  /\ UNCHANGED <<fixedVars, now>>

RefuseForRate(r, w) ==
  request[r].st = "waiting" /\ ~RateIsFree(r, w) /\ Becomes(r, "rate_limited")

RefuseForSlots(r, w) ==
  /\ request[r].st = "waiting" /\ RateIsFree(r, w) /\ ~SlotIsFree(w)
  /\ Becomes(r, "busy")

Unavailable(r) ==
  /\ shared /\ request[r].st = "waiting"
  /\ Becomes(r, "admission_backend_unavailable")

End(r) ==
  /\ request[r].st = "running"
  /\ \E st \in {"done", "orphaned"} : (st = "orphaned" => shared) /\ Becomes(r, st)

\* The queries of a worker end with it, and so does all that its own store knew.
FateOf(st) == IF ~shared THEN "lost" ELSE IF st = "running" THEN "orphaned" ELSE st

Crash(w) ==
  /\ request' = [r \in Requests |-> IF request[r].on # w THEN request[r]
                                    ELSE [request[r] EXCEPT !.st = FateOf(@)]]
  /\ UNCHANGED <<fixedVars, now>>

Tick == now' = now + 1 /\ UNCHANGED <<fixedVars, request>>

Next ==
  \/ \E r \in Requests, w \in Workers :
       Start(r, w) \/ RefuseForRate(r, w) \/ RefuseForSlots(r, w)
  \/ \E r \in Requests : Unavailable(r) \/ End(r)
  \/ \E w \in Workers : Crash(w)
  \/ Tick

Spec == Init /\ [][Next]_promiseVars
=============================================================================
