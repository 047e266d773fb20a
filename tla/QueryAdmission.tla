---------------------------- MODULE QueryAdmission ----------------------------
(***************************************************************************)
(* api/admission.py and admit_query of api/main.py: which queries start.   *)
(* A query that arrives at a worker asks the admission store for a slot    *)
(* and leaves a mark in its peer's sliding window; the slot is handed back *)
(* when its handler ends.  The local backend keeps a store per worker      *)
(* process, the redis backend one store for all, whose slots are leases.   *)
(*                                                                         *)
(* The body of acquire under the lock, and the Lua script, are each atomic *)
(* and do the same: purge, test, add.  A token is the query it was made    *)
(* for.  A peer is an address; its hash, and the key prefix, are left out. *)
(***************************************************************************)
EXTENDS Integers, FiniteSets

CONSTANTS
  Workers,             \* API processes
  Requests, Peers,
  PeerOf,              \* request.client.host
  MaxConcurrency,      \* settings.query_max_concurrency
  RequestsPerMinute,   \* settings.query_rate_limit_per_minute
  Window,              \* the 60 seconds of the sliding window
  LeaseTime,           \* settings.admission_lease_seconds
  RequestTime,         \* settings.graph_request_timeout_s
  Backends,            \* the values of settings.admission_backend explored
  MaxNow               \* a bound: how long the store is watched

ASSUME AdmissionAssumption ==
  /\ IsFiniteSet(Requests)
  /\ PeerOf \in [Requests -> Peers]
  /\ "redis" \notin Workers
  /\ MaxConcurrency \in Nat \ {0} /\ RequestsPerMinute \in Nat \ {0}
  /\ Window \in Nat \ {0} /\ RequestTime \in Nat /\ LeaseTime \in Nat
  /\ RequestTime < LeaseTime        \* _request_budget_fits_admission_lease
  /\ Backends \subseteq {"local", "redis"}
  /\ MaxNow \in Nat

VARIABLES
  backend,
  now,       \* the store's clock
  request,   \* where each query is, and if it got a slot, when and at which worker
  slots,     \* store -> tokens: _active, and the sorted set <prefix>:active
  window     \* store -> marks: _requests, and the sorted sets <prefix>:rate:<peer>

vars == <<backend, now, request, slots, window>>

Stores == Workers \cup {"redis"}
StoreOf(w) == IF backend = "local" THEN w ELSE "redis"

(***************************************************************************)
(* A query waits, runs, or is over: it was refused, released its slot, or  *)
(* left the slot behind in Redis ("orphaned").  A local store takes all it *)
(* knew of a query with it when its process dies ("lost").                 *)
(***************************************************************************)
Refusals == {"rate_limited", "busy", "admission_backend_unavailable"}
RequestStates == {"waiting", "running", "done", "orphaned", "lost"} \cup Refusals

NotAdmitted(st) == [st |-> st, on |-> "redis", at |-> 0]

TypeOK ==
  /\ backend \in {"local", "redis"}
  /\ now \in 0..MaxNow
  /\ request \in [Requests -> [st : RequestStates, on : Stores, at : 0..MaxNow]]
  /\ slots \in [Stores -> SUBSET Requests]
  /\ window \in [Stores -> SUBSET Requests]

Init ==
  /\ backend \in Backends
  /\ now = 0
  /\ request = [r \in Requests |-> NotAdmitted("waiting")]
  /\ slots = [s \in Stores |-> {}]
  /\ window = [s \in Stores |-> {}]

-----------------------------------------------------------------------------
(***************************************************************************)
(* The limits tested.  acquire passes max_concurrency as ARGV[2], which    *)
(* the script compares with the marks of the peer, and                     *)
(* requests_per_minute as ARGV[3], which it compares with the slots.       *)
(***************************************************************************)
RateLimit == IF backend = "redis" THEN MaxConcurrency ELSE RequestsPerMinute
SlotLimit == IF backend = "redis" THEN RequestsPerMinute ELSE MaxConcurrency

\* Mutations precede the operators they mutate.
ExpiredWithWindow(r) == backend = "redis" /\ request[r].at + Window <= now

\* A lease's score is behind the clock; a local slot has no expiry.
Expired(r) == backend = "redis" /\ request[r].at + LeaseTime <= now

Kept(s) == {r \in slots[s] : ~Expired(r)}

InWindowOneShort(r) == request[r].at > now - Window + 1

\* Later than the cutoff.
InWindow(r) == request[r].at > now - Window

Recent(s, peer) == {r \in window[s] : PeerOf[r] = peer /\ InWindow(r)}

VerdictOneSlotTooMany(s, peer) ==
  IF Cardinality(Recent(s, peer)) >= RateLimit THEN "rate_limited"
  ELSE IF Cardinality(Kept(s)) > SlotLimit THEN "busy" ELSE "running"

Verdict(s, peer) ==
  IF Cardinality(Recent(s, peer)) >= RateLimit THEN "rate_limited"
  ELSE IF Cardinality(Kept(s)) >= SlotLimit THEN "busy" ELSE "running"

DecideMarksFirst(r, s) ==
  LET peer == PeerOf[r]
      added == IF Verdict(s, peer) = "running" THEN {r} ELSE {}
  IN /\ slots' = [slots EXCEPT ![s] = Kept(s) \cup added]
     /\ window' = [window EXCEPT ![s] =
                     {x \in window[s] : PeerOf[x] = peer => InWindow(x)} \cup {r}]

\* The atomic section.  A refused query leaves the purge behind.  The local backend reads the
\* clock just before it takes the lock: the wait for the lock is taken to be shorter than a
\* tick, so that `now` is the time of both.
Decide(r, s) ==
  LET peer == PeerOf[r]
      added == IF Verdict(s, peer) = "running" THEN {r} ELSE {}
  IN /\ slots' = [slots EXCEPT ![s] = Kept(s) \cup added]
     /\ window' = [window EXCEPT ![s] =
                     {x \in window[s] : PeerOf[x] = peer => InWindow(x)} \cup added]

Decided(r, w, st) ==
  /\ request[r].st = "waiting"
  /\ request' = [request EXCEPT ![r] = IF st \in Refusals THEN NotAdmitted(st)
                                       ELSE [st |-> st, on |-> w, at |-> now]]
  /\ UNCHANGED <<backend, now>>

Acquire(r, w) ==
  /\ Decide(r, StoreOf(w))
  /\ Decided(r, w, Verdict(StoreOf(w), PeerOf[r]))

\* The script ran and its reply was lost: a slot nobody will release.
AcquireUnanswered(r, w) ==
  /\ backend = "redis"
  /\ Decide(r, "redis")
  /\ Decided(r, w, IF Verdict("redis", PeerOf[r]) = "running"
                   THEN "orphaned" ELSE "admission_backend_unavailable")

AcquireUnreached(r, w) ==
  /\ backend = "redis"
  /\ Decided(r, w, "admission_backend_unavailable")
  /\ UNCHANGED <<slots, window>>

-----------------------------------------------------------------------------
\* The finally of admit_query.
Release(r) ==
  /\ request[r].st = "running"
  /\ request' = [request EXCEPT ![r].st = "done"]
  /\ slots' = [slots EXCEPT ![StoreOf(request[r].on)] = @ \ {r}]
  /\ UNCHANGED <<backend, now, window>>

\* Redis did not run the release; the error is swallowed.
ReleaseUnreached(r) ==
  /\ backend = "redis"
  /\ request[r].st = "running"
  /\ request' = [request EXCEPT ![r].st = "orphaned"]
  /\ UNCHANGED <<backend, now, slots, window>>

\* A worker dies with its queries, and its local store, and is restarted.
Crash(w) ==
  /\ request' =
       [r \in Requests |->
          IF request[r].on # w THEN request[r]
          ELSE [request[r] EXCEPT !.st =
                  IF backend = "local" THEN "lost"
                  ELSE IF @ = "running" THEN "orphaned" ELSE @]]
  /\ slots' = [slots EXCEPT ![w] = {}]
  /\ window' = [window EXCEPT ![w] = {}]
  /\ UNCHANGED <<backend, now>>

(***************************************************************************)
(* Time passes while every running query is within its deadline: settings  *)
(* are rejected unless that is shorter than the lease.                     *)
(***************************************************************************)
Tick ==
  /\ now < MaxNow
  /\ \A r \in Requests : request[r].st = "running" => now < request[r].at + RequestTime
  /\ now' = now + 1
  /\ UNCHANGED <<backend, request, slots, window>>

Next ==
  \/ \E r \in Requests, w \in Workers :
       Acquire(r, w) \/ AcquireUnanswered(r, w) \/ AcquireUnreached(r, w)
  \/ \E r \in Requests : Release(r) \/ ReleaseUnreached(r)
  \/ \E w \in Workers : Crash(w)
  \/ Tick

Spec == Init /\ [][Next]_vars

-----------------------------------------------------------------------------
Holders(s) == {r \in Requests : request[r].st = "running" /\ StoreOf(request[r].on) = s}

\* Slots left behind that the lease has not recovered yet.
Orphans(s) == {r \in Requests : /\ request[r].st = "orphaned"
                                /\ s = "redis" /\ backend = "redis"
                                /\ ~Expired(r)}

(***************************************************************************)
(* The slots that count against the limit are those of the queries that    *)
(* run, and those that a crash or a lost message left behind within the    *)
(* last lease.  So a query that runs never loses its slot to the expiry,   *)
(* a slot is never refused for a query that is over, and capacity lost to  *)
(* a crash comes back.                                                     *)
(***************************************************************************)
SlotsAccounted == \A s \in Stores : Kept(s) = Holders(s) \cup Orphans(s)

\* No store lets more queries run at once than the limit it tests, crashes, lost
\* replies and lost releases included.
ConcurrencyEnforced == \A s \in Stores : Cardinality(Holders(s)) <= SlotLimit

(***************************************************************************)
(* A store admits no more queries of a peer within a window than the limit *)
(* it tests, whether they still run or not; a local store forgets what it  *)
(* admitted when its process dies.                                         *)
(***************************************************************************)
Admitted(s, peer) ==
  {r \in Requests : /\ request[r].st \in {"running", "done", "orphaned"}
                    /\ PeerOf[r] = peer
                    /\ StoreOf(request[r].on) = s}

RateEnforced ==
  \A s \in Stores, peer \in Peers :
    Cardinality({r \in Admitted(s, peer) : request[r].at > now - Window}) <= RateLimit

\* Both limits are what a store tests them as, at once.
LimitsEnforced == ConcurrencyEnforced /\ RateEnforced

(***************************************************************************)
(* Whether a query starts, and why it does not, is what the history of the *)
(* queries alone says: the slots and the marks, which are purged only now  *)
(* and then, by whichever query comes next, and are not told of a crash or *)
(* a lost message, count neither a query too many nor one too few.         *)
(***************************************************************************)
Promise == INSTANCE AdmissionPromise WITH
  shared <- backend = "redis", slotLimit <- SlotLimit, rateLimit <- RateLimit

AdmissionPromiseSpec == Promise!Spec

\* api/admission.py:4-5: the script applies leased concurrency slots across API
\* replicas, at most query_max_concurrency of them.
ConcurrencyBounded == \A s \in Stores : Cardinality(Holders(s)) <= MaxConcurrency
=============================================================================
