---------------------------- MODULE RoutingProofs ----------------------------
(***************************************************************************)
(* Proofs about LLMRouting, for every number of requests and threads, any  *)
(* settings, cooldowns, hints, limits and usages.                          *)
(***************************************************************************)
EXTENDS LLMRouting, FiniteSetTheorems, WellFoundedInduction, TLAPS

-----------------------------------------------------------------------------
(***************************************************************************)
(* The operators of the model.                                             *)
(***************************************************************************)

\* A non-empty set of numbers has a least element.
LEMMA HasLeast ==
  ASSUME NEW S \in SUBSET Nat, S # {}
  PROVE  \E x \in S : \A y \in S : x <= y
<1> DEFINE R == OpToRel(<, Nat)
<1>1. \A x, y \in Nat : <<x, y>> \in R <=> x < y
  BY DEF OpToRel
<1>2. PICK x \in S : \A y \in S : <<y, x>> \notin R
  <2> HIDE DEF R
  <2> QED BY NatLessThanWellFounded, WFMin DEF R
<1>3. \A y \in S : ~ (y < x)
  BY <1>1, <1>2
<1> QED BY <1>3

\* Min is that element.
LEMMA MinIsLeast ==
  ASSUME NEW S \in SUBSET Nat, S # {}
  PROVE  Min(S) \in S /\ \A y \in S : Min(S) <= y
BY HasLeast, Zenon DEF Min

\* A cooldown is a length of time.
LEMMA CooldownIsTime ==
  ASSUME NEW category \in Categories, NEW hint \in Hints
  PROVE  CooldownAfter(category, hint) \in Nat
<1>0. hint \in Nat /\ MaxRetryAfter \in Nat /\ Cooldown[category] \in Nat
  BY RoutingAssumption DEF RoutingAssumption
<1>1. Min({hint, MaxRetryAfter}) \in Nat
  <2>1. {hint, MaxRetryAfter} \in SUBSET Nat /\ {hint, MaxRetryAfter} # {}
    BY <1>0
  <2> QED BY <2>1, MinIsLeast
<1>2. \A a, b \in Nat : Max({a, b}) \in Nat
  <2> TAKE a, b \in Nat
  <2>1. \E x \in {a, b} : \A y \in {a, b} : x >= y
    OBVIOUS
  <2>2. Max({a, b}) \in {a, b}
    BY <2>1, Zenon DEF Max
  <2> QED BY <2>2
<1> QED BY <1>0, <1>1, <1>2 DEF CooldownAfter

\* There is always a candidate, and candidates are providers.
LEMMA CandidatesAreProviders == Candidates \in Seq(Providers) /\ Candidates # <<>>
<1>1. ASSUME NEW p \in Hosted PROVE WithKey(p) \in Seq(Providers)
  <2>1. p \in Providers
    BY DEF Providers
  <2> QED BY <2>1 DEF WithKey
<1> DEFINE hosted == WithKey("groq") \o WithKey("gemini") \o WithKey("openrouter")
<1>2. hosted \in Seq(Providers)
  BY <1>1 DEF Hosted
<1> HIDE DEF hosted
<1>3. Append(hosted, Local) \in Seq(Providers) /\ Append(hosted, Local) # <<>>
  BY <1>2 DEF Providers
<1> QED BY <1>2, <1>3 DEF Candidates, hosted

\* The probe is one of the candidates: some one of them is due back soonest.
LEMMA ProbeIsCandidate ==
  ASSUME NEW pool \in Seq(Providers), NEW left \in Seq(Nat),
         Len(left) = Len(pool), Len(pool) > 0
  PROVE  SoonestOf(pool, left) \in Providers
<1> DEFINE Times == {left[i] : i \in DOMAIN pool}
           Soonest == {i \in DOMAIN pool : \A j \in DOMAIN pool : left[i] <= left[j]}
<1>1. Times \in SUBSET Nat /\ Times # {}
  <2>1. 1 \in DOMAIN pool /\ DOMAIN pool = DOMAIN left
    OBVIOUS
  <2>2. \A i \in DOMAIN left : left[i] \in Nat
    OBVIOUS
  <2> QED BY <2>1, <2>2
<1>2. PICK t \in Times : \A u \in Times : t <= u
  BY <1>1, HasLeast
<1>3. Soonest \in SUBSET Nat /\ Soonest # {}
  <2>1. PICK i \in DOMAIN pool : t = left[i]
    BY <1>2
  <2>2. i \in Soonest
    BY <1>2, <2>1
  <2>3. Soonest \subseteq DOMAIN pool /\ DOMAIN pool \subseteq Nat
    OBVIOUS
  <2> HIDE DEF Soonest
  <2> QED BY <2>2, <2>3
<1>4. Min(Soonest) \in DOMAIN pool
  <2>1. Min(Soonest) \in Soonest
    <3> HIDE DEF Soonest
    <3> QED BY <1>3, MinIsLeast
  <2> QED BY <2>1
<1> QED BY <1>4 DEF SoonestOf

\* The next warm candidate is one of those from here on.
LEMMA FirstWarmIsCandidate ==
  ASSUME NEW r, NEW from \in Nat, NEW cooled,
         Len(route[r].candidates) \in Nat, from <= Len(route[r].candidates)
  PROVE  FirstWarm(r, from, cooled) \in from..Len(route[r].candidates)
<1> DEFINE n == Len(route[r].candidates)
           Warm == {n} \cup {i \in from..n : ~(now < cooled[route[r].candidates[i]])}
<1>1. Warm \in SUBSET Nat /\ Warm # {} /\ Warm \subseteq from..n
  OBVIOUS
<1>2. Min(Warm) \in Warm
  <2> HIDE DEF Warm
  <2> QED BY <1>1, MinIsLeast
<1> QED BY <1>1, <1>2 DEF FirstWarm

-----------------------------------------------------------------------------
(***************************************************************************)
(* The inductive invariant.                                                *)
(***************************************************************************)
Selecting == {"cooling", "budget", "remaining"}

\* A route: while it is selected some candidate is left to look at, and when it
\* is used it points at one of its candidates.
RouteOK(x) ==
  /\ DOMAIN x = {"st", "workload", "breaker", "probe", "pool", "candidates", "skipped",
                 "left", "index"}
  /\ x.st \in RouteStates /\ x.workload \in Workloads
  /\ x.pool \in Seq(Providers) /\ x.candidates \in Seq(Providers)
  /\ x.skipped \in SUBSET Providers /\ x.left \in Seq(Nat) /\ x.index \in Nat \ {0}
  /\ x.st # "routed" => x.workload = "normal" /\ x.probe = FALSE /\ x.index = 1
  /\ x.st # "remaining" => x.left = <<>>
  /\ x.st \in {"cooling", "budget"} => Len(x.candidates) + Cardinality(x.skipped) < Len(x.pool)
  /\ x.st = "remaining" => Len(x.left) < Len(x.pool)
  /\ x.st = "routed" => /\ x.index <= Len(x.candidates)
                        /\ x.probe => Len(x.candidates) = 1

\* The route of an evaluation has no memory of failures.
Comparable(x) ==
  x.workload = "evaluation" =>
    /\ x.skipped = {} /\ x.breaker = FALSE
    /\ settings.mode = "dynamic" /\ ~settings.local_only => x.candidates = Candidates

CallRecord == [st : ThreadStates, attempt : Providers \cup {"none"},
               callee : Providers \cup {"none"}, sends : Nat]

\* A call whose thread read the i-th candidate of the route was sent fewer than i
\* times before; and if the route has moved on since, that candidate failed.
ReadAt(x, rt, failed, i) ==
  /\ i \in 1..rt.index
  /\ x.attempt = rt.candidates[i]
  /\ i = rt.index \/ x.attempt \in failed

CallOK(x, rt, failed) ==
  /\ x \in CallRecord
  /\ IF x.st \in {"idle", "answered", "failed"} THEN x.sends = 0 ELSE rt.st = "routed"
  /\ x.st = "permit" => x.sends < rt.index
  /\ x.st = "routed" => \E i \in 1..rt.index : ReadAt(x, rt, failed, i) /\ x.sends < i
  /\ x.st \in {"sent", "charged"} =>
       \E i \in 1..rt.index : /\ ReadAt(x, rt, failed, i) /\ x.sends <= i
                             /\ \E j \in i..rt.index : x.callee = rt.candidates[j]

Tallies ==
  /\ settings \in Settings /\ now \in 0..MaxTime
  /\ until \in [Providers -> Nat]
  /\ spent \in [Budgeted -> [0..MaxTime -> Nat]]
  /\ failed_at \in [Requests -> SUBSET Providers]

Routes ==
  /\ DOMAIN route = Requests
  /\ \A r \in Requests : RouteOK(route[r]) /\ Comparable(route[r])

Calls ==
  /\ DOMAIN thread = Requests
  /\ \A r \in Requests : thread[r] \in [Callers[r] -> CallRecord]
  /\ \A r \in Requests : \A c \in Callers[r] : CallOK(thread[r][c], route[r], failed_at[r])

RoutingInv == Tallies /\ Routes /\ Calls /\ NoCandidatePassedUntried /\ CoolingIsDeserved

-----------------------------------------------------------------------------
\* A request starts without a route, and its threads without a call.
LEMMA NothingIsOK ==
  /\ RouteOK(NoRoute) /\ Comparable(NoRoute) /\ NoCall \in CallRecord /\ Failed \in CallRecord
  /\ \A rt, failed : CallOK(NoCall, rt, failed) /\ CallOK(Failed, rt, failed)
<1>1. <<>> \in Seq(Providers) /\ <<>> \in Seq(Nat) /\ {} \in SUBSET Providers
  OBVIOUS
<1>2. NoCall \in CallRecord /\ Failed \in CallRecord
  BY DEF NoCall, Failed, CallRecord, ThreadStates
<1>3. \A rt, failed : CallOK(NoCall, rt, failed) /\ CallOK(Failed, rt, failed)
  BY <1>2 DEF NoCall, Failed, CallOK
<1>4. RouteOK(NoRoute) /\ Comparable(NoRoute)
  BY <1>1 DEF NoRoute, RouteOK, Comparable, RouteStates, Workloads
<1> QED BY <1>2, <1>3, <1>4

\* Nothing is routed, charged or cooling at the start.
LEMMA InitHolds == Init => RoutingInv
<1> SUFFICES ASSUME Init PROVE RoutingInv
  OBVIOUS
<1>1. Tallies
  BY RoutingAssumption DEF RoutingAssumption, Init, Tallies
<1>2. Routes
  BY NothingIsOK DEF Init, Routes
<1>3. Calls
  BY NothingIsOK DEF Init, Calls
<1>4. NoCandidatePassedUntried
  BY DEF Init, NoCandidatePassedUntried, NoRoute
<1>5. CoolingIsDeserved
  BY DEF Init, CoolingIsDeserved
<1> QED BY <1>1, <1>2, <1>3, <1>4, <1>5 DEF RoutingInv

\* What became of one route, when nothing else changed.
LEMMA NewRoute ==
  ASSUME RoutingInv, NEW r \in Requests, route[r].st # "routed",
         route'[r].st # "routed" \/ route'[r].index = 1, DOMAIN route' = Requests,
         \A q \in Requests \ {r} : route'[q] = route[q],
         RouteOK(route'[r]), Comparable(route'[r]),
         UNCHANGED <<settings, now, until, spent, thread, failed_at>>
  PROVE  RoutingInv'
<1>1. Tallies'
  BY DEF RoutingInv, Tallies
<1>2. Routes'
  <2>1. Candidates' = Candidates
    BY DEF Candidates, WithKey
  <2> QED BY <2>1 DEF RoutingInv, Routes, Comparable
<1>3. Calls'
  <2>1. \A q \in Requests : \A c \in Callers[q] : CallOK(thread[q][c], route[q], failed_at[q])
    BY DEF RoutingInv, Calls
  <2>2. \A c \in Callers[r] : CallOK(thread[r][c], route'[r], failed_at[r])
    BY <2>1 DEF CallOK
  <2> QED BY <2>1, <2>2 DEF RoutingInv, Calls
<1>4. NoCandidatePassedUntried'
  BY DEF RoutingInv, NoCandidatePassedUntried
<1>5. CoolingIsDeserved'
  BY DEF RoutingInv, CoolingIsDeserved
<1> QED BY <1>1, <1>2, <1>3, <1>4, <1>5 DEF RoutingInv

\* A selection by the settings alone, or the start of one by health.
LEMMA SelectRoutePreserves ==
  ASSUME RoutingInv, NEW r \in Requests, NEW workload \in Workloads, SelectRoute(r, workload)
  PROVE  RoutingInv'
<1> DEFINE fresh == [NoRoute EXCEPT !.st = "routed", !.workload = workload]
<1>1. \A cs \in Seq(Providers) : cs # <<>> =>
        /\ RouteOK([fresh EXCEPT !.candidates = cs])
        /\ ~(settings.mode = "dynamic" /\ ~settings.local_only) \/ cs = Candidates =>
             Comparable([fresh EXCEPT !.candidates = cs])
  BY DEF RouteOK, Comparable, NoRoute, RouteStates, Workloads
<1>2. RouteOK([fresh EXCEPT !.st = "cooling", !.breaker = TRUE, !.pool = Candidates])
        \/ workload # "normal"
  <2>1. Len(Candidates) > 0 /\ Cardinality({}) = 0
    BY CandidatesAreProviders, FS_EmptySet
  <2> QED BY <2>1, CandidatesAreProviders DEF RouteOK, NoRoute, RouteStates, Workloads
<1>3. settings.mode \in {"static", "dynamic"} /\ settings.chosen \in Providers
  BY RoutingAssumption DEF RoutingAssumption, RoutingInv, Tallies
<1>4. Local \in Providers
  BY DEF Providers
<1>5. DOMAIN route = Requests /\ route[r].st = "none"
  BY DEF RoutingInv, Routes, SelectRoute
<1>6. \/ \E cs \in Seq(Providers) :
            /\ cs # <<>> /\ Becomes(r, [fresh EXCEPT !.candidates = cs])
            /\ ~(settings.mode = "dynamic" /\ ~settings.local_only) \/ cs = Candidates
      \/ workload = "normal" /\ Becomes(r, [fresh EXCEPT !.st = "cooling", !.breaker = TRUE,
                                                       !.pool = Candidates])
  <2>1. CASE settings.mode = "static"
    <3>1. <<settings.chosen>> \in Seq(Providers) /\ <<settings.chosen>> # <<>>
      BY <1>3
    <3> QED BY <2>1, <3>1 DEF SelectRoute
  <2>2. CASE settings.mode = "dynamic" /\ settings.local_only
    <3>1. <<Local>> \in Seq(Providers) /\ <<Local>> # <<>>
      BY <1>4
    <3> QED BY <2>2, <3>1 DEF SelectRoute
  <2>3. CASE settings.mode = "dynamic" /\ ~settings.local_only /\ ~BreakerApplies(workload)
    BY <2>3, CandidatesAreProviders DEF SelectRoute
  <2>4. CASE settings.mode = "dynamic" /\ ~settings.local_only /\ BreakerApplies(workload)
    BY <2>4 DEF SelectRoute, BreakerApplies
  <2> QED BY <1>3, <2>1, <2>2, <2>3, <2>4
<1>7. UNCHANGED <<settings, now, until, spent, thread, failed_at>>
  BY DEF SelectRoute
<1>8. CASE workload = "normal" /\ Becomes(r, [fresh EXCEPT !.st = "cooling", !.breaker = TRUE,
                                                         !.pool = Candidates])
  <2>1. Comparable([fresh EXCEPT !.st = "cooling", !.breaker = TRUE, !.pool = Candidates])
    BY <1>8 DEF Comparable, NoRoute
  <2>2. route'[r] = [fresh EXCEPT !.st = "cooling", !.breaker = TRUE, !.pool = Candidates]
    BY <1>5, <1>8 DEF Becomes
  <2>3. route'[r].st = "cooling"
    BY <2>2 DEF NoRoute
  <2> QED BY <1>2, <1>5, <1>7, <1>8, <2>1, <2>2, <2>3, NewRoute DEF Becomes
<1>9. ASSUME NEW cs \in Seq(Providers), cs # <<>>,
             Becomes(r, [fresh EXCEPT !.candidates = cs]),
             ~(settings.mode = "dynamic" /\ ~settings.local_only) \/ cs = Candidates
      PROVE  RoutingInv'
  <2>1. route'[r] = [fresh EXCEPT !.candidates = cs]
    BY <1>5, <1>9 DEF Becomes
  <2>2. route'[r].index = 1
    BY <2>1 DEF NoRoute
  <2> QED BY <1>1, <1>5, <1>7, <1>9, <2>1, <2>2, NewRoute DEF Becomes
<1> QED BY <1>6, <1>8, <1>9

\* There are four providers.
LEMMA ProvidersAreFinite == IsFiniteSet(Providers)
<1>1. \A S, e : IsFiniteSet(S) => IsFiniteSet(S \cup {e})
  BY FS_AddElement
<1>2. IsFiniteSet(((({} \cup {"groq"}) \cup {"gemini"}) \cup {"openrouter"}) \cup {"ollama"})
  BY <1>1, FS_EmptySet
<1>3. Providers = ((({} \cup {"groq"}) \cup {"gemini"}) \cup {"openrouter"}) \cup {"ollama"}
  BY DEF Providers, Hosted, Local
<1> QED BY <1>2, <1>3

\* Any set of them can be counted.
LEMMA ProvidersAreFew == \A S \in SUBSET Providers : Cardinality(S) \in Nat
BY ProvidersAreFinite, FS_Subset, FS_CardinalityType

\* A candidate that was looked at leaves either another one to look at, or a route.
LEMMA LookedIsOK ==
  ASSUME NEW r, NEW x, RouteOK(x), x.st \in {"cooling", "budget"},
         NEW p \in Providers, NEW new,
         \/ new = [x EXCEPT !.skipped = @ \cup {p}]
         \/ new = [x EXCEPT !.candidates = Append(@, p)]
  PROVE  LET y == Looked(r, new) IN
         /\ RouteOK(y) /\ y.workload = "normal" /\ y.index = 1
<1> DEFINE seen == Len(new.candidates) + Cardinality(new.skipped)
<1>1. /\ DOMAIN new = {"st", "workload", "breaker", "probe", "pool", "candidates", "skipped",
                       "left", "index"}
      /\ new.st = x.st /\ new.workload = "normal" /\ new.pool = x.pool
      /\ new.candidates \in Seq(Providers) /\ new.skipped \in SUBSET Providers
      /\ new.left = <<>> /\ new.index = 1 /\ new.probe = FALSE
      /\ new.pool \in Seq(Providers)
  <2>1. CASE new = [x EXCEPT !.skipped = @ \cup {p}]
    BY <2>1 DEF RouteOK
  <2>2. CASE new = [x EXCEPT !.candidates = Append(@, p)]
    <3>1. Append(x.candidates, p) \in Seq(Providers)
      BY DEF RouteOK
    <3> QED BY <2>2, <3>1 DEF RouteOK
  <2> QED BY <2>1, <2>2
<1>2. Cardinality(new.skipped) \in Nat /\ Len(new.candidates) \in Nat /\ Len(new.pool) \in Nat
  BY <1>1, ProvidersAreFew
<1>3. Len(new.pool) > 0
  <2>1. Cardinality(x.skipped) \in Nat /\ Len(x.candidates) \in Nat
    BY ProvidersAreFew DEF RouteOK
  <2> QED BY <1>1, <1>2, <2>1 DEF RouteOK
<1>4. CASE seen < Len(new.pool)
  <2>1. Looked(r, new) = [new EXCEPT !.st = "cooling"]
    BY <1>4 DEF Looked
  <2> QED BY <1>1, <1>2, <1>4, <2>1 DEF RouteOK, RouteStates, Workloads
<1>5. CASE ~(seen < Len(new.pool)) /\ new.candidates # <<>>
  <2>1. Looked(r, new) = [new EXCEPT !.st = "routed", !.pool = <<>>]
    BY <1>5 DEF Looked
  <2>2. 1 <= Len(new.candidates) /\ <<>> \in Seq(Providers)
    BY <1>1, <1>5
  <2> QED BY <1>1, <1>2, <1>5, <2>1, <2>2 DEF RouteOK, RouteStates, Workloads
<1>6. CASE ~(seen < Len(new.pool)) /\ new.candidates = <<>>
  <2>1. Looked(r, new) = [new EXCEPT !.st = "remaining"]
    BY <1>6 DEF Looked
  <2> QED BY <1>1, <1>2, <1>3, <1>6, <2>1 DEF RouteOK, RouteStates, Workloads
<1> QED BY <1>4, <1>5, <1>6
\* Looking at one candidate's cooldown, then at its budget.
LEMMA LookPreserves ==
  ASSUME RoutingInv, NEW r \in Requests, LookAtCooldown(r) \/ LookAtBudget(r)
  PROVE  RoutingInv'
<1>1. RouteOK(route[r]) /\ route[r].st \in {"cooling", "budget"} /\ DOMAIN route = Requests
  BY DEF RoutingInv, Routes, LookAtCooldown, LookAtBudget
<1>2. Looking(r) \in Providers
  <2>1. Cardinality(route[r].skipped) \in Nat /\ Len(route[r].candidates) \in Nat
    BY <1>1, ProvidersAreFew DEF RouteOK
  <2> QED BY <1>1, <2>1 DEF RouteOK, Looking, Seen
<1>3. UNCHANGED <<settings, now, until, spent, thread, failed_at>>
  BY DEF LookAtCooldown, LookAtBudget
<1>4. CASE Becomes(r, [route[r] EXCEPT !.st = "budget"]) /\ route[r].st = "cooling"
  <2>1. route'[r] = [route[r] EXCEPT !.st = "budget"]
    BY <1>1, <1>4 DEF Becomes
  <2>2. RouteOK(route'[r]) /\ route'[r].workload = "normal" /\ route'[r].index = 1
    BY <1>1, <1>4, <2>1 DEF RouteOK, RouteStates
  <2>3. Comparable(route'[r])
    BY <2>2 DEF Comparable
  <2> QED BY <1>1, <1>3, <1>4, <2>2, <2>3, NewRoute DEF Becomes
<1>5. ASSUME NEW new, Becomes(r, Looked(r, new)),
             \/ new = [route[r] EXCEPT !.skipped = @ \cup {Looking(r)}]
             \/ new = [route[r] EXCEPT !.candidates = Append(@, Looking(r))]
      PROVE  RoutingInv'
  <2>1. route'[r] = Looked(r, new)
    BY <1>1, <1>5 DEF Becomes
  <2>2. RouteOK(route'[r]) /\ route'[r].workload = "normal" /\ route'[r].index = 1
    BY <1>1, <1>2, <1>5, <2>1, LookedIsOK
  <2>3. Comparable(route'[r])
    BY <2>2 DEF Comparable
  <2> QED BY <1>1, <1>3, <1>5, <2>2, <2>3, NewRoute DEF Becomes
<1> QED BY <1>4, <1>5 DEF LookAtCooldown, LookAtBudget

\* Reading how long each candidate still cools, the last one included.
LEMMA ReadRemainingPreserves ==
  ASSUME RoutingInv, NEW r \in Requests, ReadRemaining(r)
  PROVE  RoutingInv'
<1> DEFINE left == Append(route[r].left, Remaining(route[r].pool[Len(route[r].left) + 1]))
           probe == SoonestOf(route[r].pool, left)
<1>1. RouteOK(route[r]) /\ route[r].st = "remaining" /\ DOMAIN route = Requests
  BY DEF RoutingInv, Routes, ReadRemaining
<1>2. route[r].pool[Len(route[r].left) + 1] \in Providers
  BY <1>1 DEF RouteOK
<1>3. Remaining(route[r].pool[Len(route[r].left) + 1]) \in Nat
  BY <1>2, RoutingAssumption DEF RoutingAssumption, RoutingInv, Tallies, Remaining, Cooling
<1>4. left \in Seq(Nat) /\ Len(left) = Len(route[r].left) + 1
  BY <1>1, <1>3 DEF RouteOK
<1>5. UNCHANGED <<settings, now, until, spent, thread, failed_at>>
  BY DEF ReadRemaining
<1> HIDE DEF left
<1>6. CASE Len(left) < Len(route[r].pool)
  <2>1. Becomes(r, [route[r] EXCEPT !.left = left])
    BY <1>6 DEF ReadRemaining, left
  <2>2. route'[r] = [route[r] EXCEPT !.left = left]
    BY <1>1, <2>1 DEF Becomes
  <2>3. RouteOK(route'[r]) /\ route'[r].workload = "normal" /\ route'[r].st = "remaining"
    BY <1>1, <1>4, <1>6, <2>2 DEF RouteOK
  <2>4. Comparable(route'[r])
    BY <2>3 DEF Comparable
  <2> QED BY <1>1, <1>5, <2>1, <2>3, <2>4, NewRoute DEF Becomes
<1>7. CASE ~(Len(left) < Len(route[r].pool))
  <2>1. Becomes(r, [route[r] EXCEPT !.st = "routed", !.candidates = <<probe>>, !.pool = <<>>,
                                    !.skipped = @ \ {probe}, !.left = <<>>, !.probe = TRUE])
    BY <1>7 DEF ReadRemaining, left
  <2>2. probe \in Providers
    <3>1. route[r].pool \in Seq(Providers) /\ Len(left) = Len(route[r].pool)
          /\ Len(route[r].pool) > 0
      BY <1>1, <1>4, <1>7 DEF RouteOK
    <3> QED BY <1>4, <3>1, ProbeIsCandidate
  <2> HIDE DEF probe
  <2>3. route'[r] = [route[r] EXCEPT !.st = "routed", !.candidates = <<probe>>, !.pool = <<>>,
                                     !.skipped = @ \ {probe}, !.left = <<>>, !.probe = TRUE]
    BY <1>1, <2>1 DEF Becomes
  <2>4. RouteOK(route'[r]) /\ route'[r].workload = "normal" /\ route'[r].index = 1
    <3>1. <<probe>> \in Seq(Providers) /\ Len(<<probe>>) = 1 /\ <<>> \in Seq(Providers)
          /\ <<>> \in Seq(Nat)
      BY <2>2
    <3> QED BY <1>1, <2>3, <3>1 DEF RouteOK, RouteStates
  <2>5. Comparable(route'[r])
    BY <2>4 DEF Comparable
  <2> QED BY <1>1, <1>5, <2>1, <2>4, <2>5, NewRoute DEF Becomes
<1> QED BY <1>6, <1>7

\* What became of one thread, when no route changed.
LEMMA NewCall ==
  ASSUME RoutingInv, NEW r \in Requests, NEW c \in Callers[r], NEW to, Goes(r, c, to),
         CallOK(to, route[r], failed_at'[r]), Tallies',
         \A q \in Requests : failed_at[q] \subseteq failed_at'[q],
         \A p \in Providers : until'[p] > 0 => \E q \in Requests : p \in failed_at'[q],
         UNCHANGED <<settings, route>>
  PROVE  RoutingInv'
<1>1. Routes'
  <2>1. Candidates' = Candidates
    BY DEF Candidates, WithKey
  <2> QED BY <2>1 DEF RoutingInv, Routes, Comparable
<1>2. Calls'
  <2>1. to \in CallRecord
    BY DEF CallOK
  <2>2. DOMAIN thread' = Requests /\ \A q \in Requests : thread'[q] \in [Callers[q] -> CallRecord]
    BY <2>1 DEF RoutingInv, Calls, Goes
  <2>3. ASSUME NEW q \in Requests, NEW d \in Callers[q]
        PROVE  CallOK(thread'[q][d], route[q], failed_at'[q])
    <3>1. CASE q = r /\ d = c
      BY <3>1 DEF RoutingInv, Calls, Goes
    <3>2. CASE ~(q = r /\ d = c)
      <4>1. thread'[q][d] = thread[q][d] /\ CallOK(thread[q][d], route[q], failed_at[q])
        BY <3>2 DEF RoutingInv, Calls, Goes
      <4> QED BY <4>1 DEF CallOK, ReadAt
    <3> QED BY <3>1, <3>2
  <2> QED BY <2>2, <2>3 DEF Calls
<1>3. NoCandidatePassedUntried'
  BY DEF RoutingInv, NoCandidatePassedUntried
<1>4. CoolingIsDeserved'
  BY DEF CoolingIsDeserved
<1> QED BY <1>1, <1>2, <1>3, <1>4 DEF RoutingInv

\* A call is begun, read and sent through the route as it is by then.
LEMMA CallingPreserves ==
  ASSUME RoutingInv, NEW r \in Requests, NEW c \in Callers[r],
         BeginCall(r, c) \/ ReadRoute(r, c) \/ Send(r, c)
  PROVE  RoutingInv'
<1>1. UNCHANGED <<settings, now, until, spent, route, failed_at>>
  BY DEF BeginCall, ReadRoute, Send
<1>2. /\ CallOK(thread[r][c], route[r], failed_at[r]) /\ thread[r][c] \in CallRecord
      /\ RouteOK(route[r])
  BY DEF RoutingInv, Calls, Routes
<1>3. route[r].st = "routed"
  BY <1>2 DEF BeginCall, ReadRoute, Send, CallOK
<1>4. /\ route[r].index \in Nat \ {0} /\ route[r].index <= Len(route[r].candidates)
      /\ Provider(r) \in Providers
  BY <1>2, <1>3 DEF RouteOK, Provider
<1>5. Tallies' /\ \A p \in Providers : until'[p] > 0 => \E q \in Requests : p \in failed_at'[q]
  BY <1>1 DEF RoutingInv, Tallies, CoolingIsDeserved
<1>6. CASE BeginCall(r, c)
  <2>1. CallOK([NoCall EXCEPT !.st = "permit"], route[r], failed_at'[r])
    BY <1>3, <1>4 DEF NoCall, CallOK, CallRecord, ThreadStates
  <2> QED BY <1>1, <1>5, <1>6, <2>1, NewCall DEF BeginCall
<1>7. CASE ReadRoute(r, c)
  <2> DEFINE to == [thread[r][c] EXCEPT !.st = "routed", !.attempt = Provider(r)]
  <2>1. to \in CallRecord /\ to.st = "routed" /\ to.attempt = Provider(r)
        /\ to.sends < route[r].index
    BY <1>2, <1>4, <1>7 DEF CallRecord, CallOK, ThreadStates, ReadRoute
  <2>2. Goes(r, c, to)
    BY <1>7 DEF ReadRoute
  <2> HIDE DEF to
  <2>3. CallOK(to, route[r], failed_at'[r])
    BY <1>3, <1>4, <2>1 DEF CallOK, ReadAt, Provider
  <2> QED BY <1>1, <1>5, <2>2, <2>3, NewCall
<1>8. CASE Send(r, c)
  <2> DEFINE to == [thread[r][c] EXCEPT !.st = "sent", !.callee = Provider(r), !.sends = @ + 1]
  <2>1. /\ to \in CallRecord /\ to.st = "sent" /\ to.attempt = thread[r][c].attempt
        /\ to.callee = Provider(r) /\ to.sends = thread[r][c].sends + 1
    <3>1. thread[r][c].sends + 1 \in Nat /\ "sent" \in ThreadStates
      BY <1>2 DEF CallRecord, ThreadStates
    <3> HIDE DEF ThreadStates
    <3> QED BY <1>2, <1>4, <3>1 DEF CallRecord
  <2>2. PICK i \in 1..route[r].index :
          ReadAt(thread[r][c], route[r], failed_at[r], i) /\ thread[r][c].sends < i
    BY <1>2, <1>8 DEF Send, CallOK
  <2>3. Goes(r, c, to)
    BY <1>8 DEF Send
  <2>4. thread[r][c].sends \in Nat
    BY <1>2 DEF CallRecord
  <2> HIDE DEF to
  <2>5. ReadAt(to, route[r], failed_at'[r], i) /\ to.sends <= i
    BY <1>1, <1>4, <2>1, <2>2, <2>4 DEF ReadAt
  <2>6. route[r].index \in i..route[r].index /\ to.callee = route[r].candidates[route[r].index]
    BY <1>4, <2>1 DEF Provider
  <2>7. CallOK(to, route[r], failed_at'[r])
    BY <1>3, <2>1, <2>5, <2>6 DEF CallOK
  <2> QED BY <1>1, <1>5, <2>3, <2>7, NewCall
<1> QED BY <1>6, <1>7, <1>8

\* An answer is charged, and clears the cooldown of whom it is credited to.
LEMMA AnswerPreserves ==
  ASSUME RoutingInv, NEW r \in Requests, NEW c \in Callers[r],
         RecordSuccess(r, c) \/ \E tokens \in Usages : Charge(r, c, tokens)
  PROVE  RoutingInv'
<1>1. UNCHANGED <<settings, now, route, failed_at>>
  BY DEF RecordSuccess, Charge
<1>2. CallOK(thread[r][c], route[r], failed_at[r]) /\ thread[r][c] \in CallRecord
  BY DEF RoutingInv, Calls
<1>3. CASE RecordSuccess(r, c)
  <2>1. CallOK([NoCall EXCEPT !.st = "answered"], route[r], failed_at'[r])
    BY DEF NoCall, CallOK, CallRecord, ThreadStates
  <2>2. until' = [until EXCEPT ![thread[r][c].attempt] = 0] /\ spent' = spent
    BY <1>3 DEF RecordSuccess
  <2>3. Tallies' /\ \A p \in Providers : until'[p] > 0 => \E q \in Requests : p \in failed_at'[q]
    <3>1. until \in [Providers -> Nat]
      BY DEF RoutingInv, Tallies
    <3>2. until' \in [Providers -> Nat] /\ \A p \in Providers : until'[p] > 0 => until[p] > 0
      <4> DEFINE a == thread[r][c].attempt
      <4>1. until' = [until EXCEPT ![a] = 0]
        BY <2>2
      <4> HIDE DEF a
      <4>2. until' \in [Providers -> Nat]
        BY <3>1, <4>1
      <4>3. \A p \in Providers : until'[p] = IF p = a THEN 0 ELSE until[p]
        BY <3>1, <4>1
      <4> QED BY <3>1, <4>2, <4>3
    <3>3. Tallies'
      BY <1>1, <2>2, <3>2 DEF RoutingInv, Tallies
    <3> QED BY <1>1, <3>2, <3>3 DEF RoutingInv, CoolingIsDeserved
  <2> QED BY <1>1, <1>3, <2>1, <2>3, NewCall DEF RecordSuccess
<1>4. ASSUME NEW tokens \in Usages, Charge(r, c, tokens) PROVE RoutingInv'
  <2> DEFINE to == [thread[r][c] EXCEPT !.st = "charged"]
  <2>1. /\ to \in CallRecord /\ to.st = "charged" /\ to.attempt = thread[r][c].attempt
        /\ to.callee = thread[r][c].callee /\ to.sends = thread[r][c].sends
    BY <1>2 DEF CallRecord, ThreadStates
  <2>2. thread[r][c].st = "sent" /\ Goes(r, c, to) /\ until' = until
    BY <1>4 DEF Charge
  <2> HIDE DEF to
  <2>3. CallOK(to, route[r], failed_at'[r])
    BY <1>1, <1>2, <2>1, <2>2 DEF CallOK, ReadAt
  <2>4. spent' \in [Budgeted -> [0..MaxTime -> Nat]]
    <3>1. tokens \in Nat
      BY RoutingAssumption DEF RoutingAssumption
    <3>2. spent \in [Budgeted -> [0..MaxTime -> Nat]] /\ now \in 0..MaxTime
      BY DEF RoutingInv, Tallies
    <3>3. CASE thread[r][c].attempt \in Budgeted
      <4> DEFINE p == thread[r][c].attempt
      <4>1. [spent[p] EXCEPT ![now] = @ + tokens] \in [0..MaxTime -> Nat]
        <5>1. p \in Budgeted
          BY <3>3
        <5> HIDE DEF p
        <5>2. spent[p] \in [0..MaxTime -> Nat]
          BY <3>2, <5>1
        <5>3. spent[p][now] \in Nat
          BY <3>2, <5>2
        <5>4. spent[p][now] + tokens \in Nat
          BY <3>1, <5>3
        <5> QED BY <3>2, <5>2, <5>4
      <4>2. spent' = [spent EXCEPT ![p] = [spent[p] EXCEPT ![now] = @ + tokens]]
        BY <1>4, <3>3 DEF Charge
      <4> HIDE DEF p
      <4> QED BY <3>2, <4>1, <4>2
    <3>4. CASE thread[r][c].attempt \notin Budgeted
      BY <1>4, <3>2, <3>4 DEF Charge
    <3> QED BY <3>3, <3>4
  <2>5. Tallies' /\ \A p \in Providers : until'[p] > 0 => \E q \in Requests : p \in failed_at'[q]
    BY <1>1, <2>2, <2>4 DEF RoutingInv, Tallies, CoolingIsDeserved
  <2> QED BY <1>1, <2>2, <2>3, <2>5, NewCall
<1> QED BY <1>3, <1>4

\* The callee of a failing call joins those that failed; then so has the provider
\* the call is blamed on: it is the callee, or the route left it when it failed.
LEMMA BlameIsDeserved ==
  ASSUME RoutingInv, NEW r \in Requests, NEW c \in Callers[r], thread[r][c].st = "sent",
         failed_at' = [failed_at EXCEPT ![r] = @ \cup {thread[r][c].callee}]
  PROVE  /\ thread[r][c].attempt \in failed_at'[r] /\ thread[r][c].attempt \in Providers
         /\ failed_at' \in [Requests -> SUBSET Providers]
         /\ \A q \in Requests : failed_at[q] \subseteq failed_at'[q]
<1>1. RouteOK(route[r]) /\ failed_at \in [Requests -> SUBSET Providers]
      /\ CallOK(thread[r][c], route[r], failed_at[r])
  BY DEF RoutingInv, Routes, Calls, Tallies
<1>2. PICK i \in 1..route[r].index :
        /\ ReadAt(thread[r][c], route[r], failed_at[r], i)
        /\ \E j \in i..route[r].index : thread[r][c].callee = route[r].candidates[j]
  BY <1>1 DEF CallOK
<1>3. PICK j \in i..route[r].index : thread[r][c].callee = route[r].candidates[j]
  BY <1>2
<1>4. route[r].st = "routed" /\ route[r].index \in Nat
      /\ route[r].index <= Len(route[r].candidates) /\ route[r].candidates \in Seq(Providers)
  BY <1>1 DEF CallOK, RouteOK
<1>5. thread[r][c].callee \in Providers /\ thread[r][c].attempt \in Providers
  BY <1>2, <1>3, <1>4 DEF ReadAt
<1>6. thread[r][c].attempt \in failed_at[r] \/ thread[r][c].attempt = thread[r][c].callee
  BY <1>2, <1>3, <1>4 DEF ReadAt
<1> QED BY <1>1, <1>5, <1>6

\* An error that no failover is made for.
LEMMA FailForGoodPreserves ==
  ASSUME RoutingInv, NEW r \in Requests, NEW c \in Callers[r], FailForGood(r, c)
  PROVE  RoutingInv'
<1>1. /\ failed_at' \in [Requests -> SUBSET Providers]
      /\ \A q \in Requests : failed_at[q] \subseteq failed_at'[q]
  BY BlameIsDeserved DEF FailForGood
<1>2. Tallies' /\ \A p \in Providers : until'[p] > 0 => \E q \in Requests : p \in failed_at'[q]
  BY <1>1 DEF FailForGood, RoutingInv, Tallies, CoolingIsDeserved
<1> QED BY <1>1, <1>2, NothingIsOK, NewCall DEF FailForGood

\* A call is judged alike by a route that has moved on, if the candidate it left
\* behind failed.
LEMMA CallsSurviveAdvance ==
  ASSUME NEW x, NEW rt, NEW moved, NEW failed, NEW more, CallOK(x, rt, failed),
         rt.index \in Nat, moved.index \in Nat, rt.index < moved.index, moved.st = rt.st,
         moved.candidates = rt.candidates,
         failed \subseteq more, rt.candidates[rt.index] \in more
  PROVE  CallOK(x, moved, more)
<1>1. x \in CallRecord /\ x.sends \in Nat
  BY DEF CallOK, CallRecord
<1>2. \A i : ReadAt(x, rt, failed, i) => ReadAt(x, moved, more, i)
  BY DEF ReadAt
<1>3. 1..rt.index \subseteq 1..moved.index /\ \A i : i..rt.index \subseteq i..moved.index
  OBVIOUS
<1>4. ASSUME x.st = "routed"
      PROVE  \E i \in 1..moved.index : ReadAt(x, moved, more, i) /\ x.sends < i
  BY <1>2, <1>3, <1>4 DEF CallOK
<1>5. ASSUME x.st \in {"sent", "charged"}
      PROVE  \E i \in 1..moved.index : /\ ReadAt(x, moved, more, i) /\ x.sends <= i
                                       /\ \E j \in i..moved.index : x.callee = moved.candidates[j]
  BY <1>2, <1>3, <1>5 DEF CallOK
<1>6. x.st = "permit" => x.sends < moved.index
  BY <1>1 DEF CallOK
<1> QED BY <1>1, <1>4, <1>5, <1>6 DEF CallOK

\* Only the provider that is blamed is benched, and for a time that may be added up.
LEMMA BenchingIsTyped ==
  ASSUME RoutingInv, NEW p \in Providers, NEW category \in Categories, NEW hint \in Hints
  PROVE  /\ RecordFailure(p, category, hint) \in [Providers -> Nat]
         /\ \A q \in Providers \ {p} : RecordFailure(p, category, hint)[q] = until[q]
<1>1. until \in [Providers -> Nat] /\ now \in Nat
  BY RoutingAssumption DEF RoutingAssumption, RoutingInv, Tallies
<1>2. now + CooldownAfter(category, hint) \in Nat
  BY <1>1, CooldownIsTime
<1> QED BY <1>1, <1>2 DEF RecordFailure

\* A failover moves the route past a provider that failed, or finds it moved.
LEMMA FailOverPreserves ==
  ASSUME RoutingInv, NEW r \in Requests, NEW c \in Callers[r],
         NEW category \in Categories, NEW hint \in Hints, FailOver(r, c, category, hint)
  PROVE  RoutingInv'
<1> DEFINE blamed == thread[r][c].attempt
           breaker == settings.mode = "dynamic" /\ route[r].breaker
           benched == IF breaker THEN RecordFailure(blamed, category, hint) ELSE until
           next == IF breaker THEN FirstWarm(r, route[r].index + 1, benched)
                              ELSE route[r].index + 1
           rt == route[r]
<1>1. /\ blamed \in failed_at'[r] /\ blamed \in Providers
      /\ failed_at' \in [Requests -> SUBSET Providers]
      /\ \A q \in Requests : failed_at[q] \subseteq failed_at'[q]
  BY BlameIsDeserved DEF FailOver
<1>2. UNCHANGED <<settings, now, spent>> /\ thread[r][c].st = "sent"
  BY DEF FailOver
<1>3. /\ until' = benched
      /\ \/ /\ blamed # Provider(r)
            /\ Goes(r, c, IF settings.mode = "dynamic" THEN Retry(r, c) ELSE Failed)
            /\ UNCHANGED route
         \/ /\ blamed = Provider(r) /\ CanFallback(r)
            /\ Becomes(r, [rt EXCEPT !.index = next,
                 !.skipped = @ \cup {rt.candidates[i] : i \in rt.index + 1 .. next - 1}])
            /\ Goes(r, c, Retry(r, c))
         \/ /\ blamed = Provider(r) /\ ~CanFallback(r)
            /\ Goes(r, c, Failed)
            /\ UNCHANGED route
  BY DEF FailOver, AdvanceRoute
<1>4. Tallies' /\ \A p \in Providers : until'[p] > 0 => \E q \in Requests : p \in failed_at'[q]
  <2>1. until' \in [Providers -> Nat] /\ \A p \in Providers \ {blamed} : until'[p] = until[p]
    BY <1>1, <1>3, BenchingIsTyped DEF RoutingInv, Tallies
  <2> QED BY <1>1, <1>2, <2>1 DEF RoutingInv, Tallies, CoolingIsDeserved
<1>5. /\ RouteOK(rt) /\ Comparable(rt) /\ DOMAIN route = Requests
      /\ CallOK(thread[r][c], rt, failed_at[r])
  BY DEF RoutingInv, Routes, Calls
<1>6. /\ rt.st = "routed" /\ rt.index \in Nat \ {0} /\ rt.candidates \in Seq(Providers)
      /\ rt.index <= Len(rt.candidates)
  BY <1>2, <1>5 DEF CallOK, RouteOK
<1>7. PICK i \in 1..rt.index : ReadAt(thread[r][c], rt, failed_at[r], i) /\ thread[r][c].sends <= i
  BY <1>2, <1>5 DEF CallOK
<1>8. thread[r][c].sends \in Nat
  BY <1>5 DEF CallOK, CallRecord
<1>9. Retry(r, c) \in CallRecord /\ Retry(r, c).st = "permit"
      /\ Retry(r, c).sends = thread[r][c].sends
  BY <1>8 DEF Retry, NoCall, CallRecord, ThreadStates
<1>10. CallOK(Failed, rt, failed_at'[r])
  BY NothingIsOK
<1> HIDE DEF benched, breaker
<1>11. CASE /\ blamed # Provider(r)
             /\ Goes(r, c, IF settings.mode = "dynamic" THEN Retry(r, c) ELSE Failed)
             /\ UNCHANGED route
  <2>1. i # rt.index
    BY <1>7, <1>11 DEF ReadAt, Provider
  <2>2. thread[r][c].sends < rt.index
    BY <1>6, <1>7, <1>8, <2>1
  <2>3. CallOK(Retry(r, c), rt, failed_at'[r])
    BY <1>6, <1>9, <2>2 DEF CallOK
  <2> QED BY <1>1, <1>2, <1>4, <1>10, <1>11, <2>3, NewCall
<1>12. CASE Goes(r, c, Failed) /\ UNCHANGED route
  BY <1>1, <1>2, <1>4, <1>10, <1>12, NewCall
<1>13. CASE /\ blamed = Provider(r) /\ CanFallback(r)
             /\ Becomes(r, [rt EXCEPT !.index = next,
                  !.skipped = @ \cup {rt.candidates[k] : k \in rt.index + 1 .. next - 1}])
             /\ Goes(r, c, Retry(r, c))
  <2> DEFINE passed == {rt.candidates[k] : k \in rt.index + 1 .. next - 1}
             moved == [rt EXCEPT !.index = next, !.skipped = @ \cup passed]
  <2>1. next \in rt.index + 1 .. Len(rt.candidates)
    <3>1. rt.index + 1 \in Nat /\ Len(rt.candidates) \in Nat /\ rt.index + 1 <= Len(rt.candidates)
      BY <1>6, <1>13 DEF CanFallback
    <3> QED BY <3>1, FirstWarmIsCandidate
  <2>2. ~breaker => passed = {}
    BY <1>6
  <2> HIDE DEF next
  <2>3. passed \subseteq Providers
    BY <1>6, <2>1
  <2> HIDE DEF passed
  <2>4. /\ route'[r] = moved /\ DOMAIN route' = Requests
        /\ \A q \in Requests \ {r} : route'[q] = route[q]
    BY <1>5, <1>13 DEF Becomes, passed
  <2>5. /\ moved.index = next /\ moved.st = "routed" /\ moved.candidates = rt.candidates
        /\ moved.skipped = rt.skipped \cup passed
    BY <1>5, <1>6 DEF RouteOK
  <2>6. RouteOK(moved)
    BY <1>5, <1>6, <2>1, <2>3 DEF RouteOK
  <2>7. Comparable(moved)
    BY <1>5, <2>2 DEF Comparable, RouteOK, breaker
  <2>8. Routes'
    <3>1. Candidates' = Candidates
      BY <1>2 DEF Candidates, WithKey
    <3> HIDE DEF moved
    <3> QED BY <1>2, <2>4, <2>6, <2>7, <3>1 DEF RoutingInv, Routes, Comparable
  <2>9. rt.candidates[rt.index] \in failed_at'[r] /\ rt.index < next
    BY <1>1, <1>6, <1>13, <2>1 DEF Provider
  <2>10. Calls'
    <3> HIDE DEF moved
    <3>1. CallOK(Retry(r, c), moved, failed_at'[r])
      <4>1. thread[r][c].sends < next
        BY <1>6, <1>7, <1>8, <2>1
      <4> QED BY <1>9, <2>5, <4>1 DEF CallOK
    <3>2. DOMAIN thread' = Requests /\ \A q \in Requests : thread'[q] \in [Callers[q] -> CallRecord]
      BY <1>9, <1>13 DEF RoutingInv, Calls, Goes
    <3>3. ASSUME NEW q \in Requests, NEW d \in Callers[q]
          PROVE  CallOK(thread'[q][d], route'[q], failed_at'[q])
      <4>1. CASE q = r /\ d = c
        BY <1>13, <2>4, <3>1, <4>1 DEF RoutingInv, Calls, Goes
      <4>2. CASE ~(q = r /\ d = c)
        <5>1. thread'[q][d] = thread[q][d] /\ CallOK(thread[q][d], route[q], failed_at[q])
          BY <1>13, <4>2 DEF RoutingInv, Calls, Goes
        <5>2. CASE q = r
          BY <1>1, <1>6, <2>1, <2>4, <2>5, <2>9, <5>1, <5>2, CallsSurviveAdvance
        <5>3. CASE q # r
          BY <1>1, <2>4, <5>1, <5>3 DEF CallOK, ReadAt
        <5> QED BY <5>2, <5>3
      <4> QED BY <4>1, <4>2
    <3> QED BY <3>2, <3>3 DEF Calls
  <2>11. NoCandidatePassedUntried'
    <3> SUFFICES ASSUME NEW q \in Requests, route'[q].st = "routed",
                        NEW k \in 1..route'[q].index - 1
                 PROVE  route'[q].candidates[k] \in failed_at'[q] \cup route'[q].skipped
      BY DEF NoCandidatePassedUntried
    <3> HIDE DEF moved
    <3>1. CASE q # r
      BY <1>1, <2>4, <3>1 DEF RoutingInv, NoCandidatePassedUntried
    <3>2. CASE q = r /\ k \in 1..rt.index - 1
      BY <1>1, <1>6, <2>4, <2>5, <3>2 DEF RoutingInv, NoCandidatePassedUntried
    <3>3. CASE q = r /\ k = rt.index
      BY <2>4, <2>5, <2>9, <3>3
    <3>4. CASE q = r /\ k \in rt.index + 1 .. next - 1
      BY <2>4, <2>5, <3>4 DEF passed
    <3> QED BY <1>6, <2>1, <2>4, <2>5, <3>1, <3>2, <3>3, <3>4
  <2>12. CoolingIsDeserved'
    BY <1>4 DEF CoolingIsDeserved
  <2> QED BY <1>4, <2>8, <2>10, <2>11, <2>12 DEF RoutingInv
<1> QED BY <1>3, <1>11, <1>12, <1>13

\* The clock moves on.
LEMMA TickPreserves == ASSUME RoutingInv, Tick PROVE RoutingInv'
<1>1. Tallies'
  BY RoutingAssumption DEF RoutingAssumption, Tick, RoutingInv, Tallies
<1>2. Routes'
  <2>1. Candidates' = Candidates
    BY DEF Tick, Candidates, WithKey
  <2> QED BY <2>1 DEF Tick, RoutingInv, Routes, Comparable
<1>3. Calls' /\ NoCandidatePassedUntried' /\ CoolingIsDeserved'
  BY DEF Tick, RoutingInv, Calls, NoCandidatePassedUntried, CoolingIsDeserved
<1> QED BY <1>1, <1>2, <1>3 DEF RoutingInv

-----------------------------------------------------------------------------
\* Every step of every request keeps the invariant.
LEMMA StepHolds == ASSUME RoutingInv, [Next]_vars PROVE RoutingInv'
<1>1. CASE Tick
  BY <1>1, TickPreserves
<1>2. ASSUME NEW r \in Requests, \E workload \in Workloads : SelectRoute(r, workload)
      PROVE  RoutingInv'
  BY <1>2, SelectRoutePreserves
<1>3. ASSUME NEW r \in Requests, Select(r) PROVE RoutingInv'
  BY <1>3, LookPreserves, ReadRemainingPreserves DEF Select
<1>4. ASSUME NEW r \in Requests, NEW c \in Callers[r], BeginCall(r, c) \/ Call(r, c)
      PROVE  RoutingInv'
  BY <1>4, CallingPreserves, AnswerPreserves, FailForGoodPreserves, FailOverPreserves DEF Call
<1>5. CASE UNCHANGED vars
  <2>1. Candidates' = Candidates
    BY <1>5 DEF vars, Candidates, WithKey
  <2> QED BY <1>5, <2>1 DEF vars, RoutingInv, Tallies, Routes, Comparable, Calls,
             NoCandidatePassedUntried, CoolingIsDeserved
<1> QED BY <1>1, <1>2, <1>3, <1>4, <1>5 DEF Next

\* The inductive invariant, for the theorems below.
LEMMA RoutingHolds == Spec => []RoutingInv
BY InitHolds, StepHolds, PTL DEF Spec

\* Type correctness of the routes, the calls and the tallies they share.
THEOREM RoutingIsTyped == Spec => []TypeOK
<1>1. RoutingInv => TypeOK
  BY DEF RoutingInv, Tallies, Routes, Calls, RouteOK, CallRecord, NoRoute, TypeOK
<1> QED BY RoutingHolds, <1>1, PTL

(***************************************************************************)
(* A route passes over no candidate that neither failed this request nor   *)
(* was found cooling, whichever of its threads fail at the same time.      *)
(***************************************************************************)
THEOREM NobodyIsPassedUntried == Spec => []NoCandidatePassedUntried
<1>1. RoutingInv => NoCandidatePassedUntried
  BY DEF RoutingInv
<1> QED BY RoutingHolds, <1>1, PTL

(***************************************************************************)
(* Only a provider that failed a call is benched, although the name a      *)
(* thread blames was read before the call and the route may have moved on. *)
(***************************************************************************)
THEOREM BenchingIsDeserved == Spec => []CoolingIsDeserved
<1>1. RoutingInv => CoolingIsDeserved
  BY DEF RoutingInv
<1> QED BY RoutingHolds, <1>1, PTL

(***************************************************************************)
(* The route of an evaluation is the configured one, whatever the process  *)
(* remembers of its providers.                                             *)
(***************************************************************************)
THEOREM EvaluationsCompare == Spec => []EvaluationIsComparable
<1>1. RoutingInv => EvaluationIsComparable
  BY DEF RoutingInv, Routes, RouteOK, RouteStates, Comparable, EvaluationIsComparable
<1> QED BY RoutingHolds, <1>1, PTL

(***************************************************************************)
(* A call is sent once for each candidate at most, and a probe once: how   *)
(* often it was sent is less than the place of the candidate it read.      *)
(***************************************************************************)
THEOREM CallsEnd == Spec => []CallsAreBounded
<1>1. RoutingInv => CallsAreBounded
  <2> SUFFICES ASSUME RoutingInv, NEW r \in Requests, route[r].st = "routed", NEW c \in Callers[r]
               PROVE  thread[r][c].sends <= IF route[r].probe THEN 1 ELSE Len(route[r].candidates)
    BY DEF CallsAreBounded
  <2>1. RouteOK(route[r]) /\ CallOK(thread[r][c], route[r], failed_at[r])
    BY DEF RoutingInv, Routes, Calls
  <2>2. /\ route[r].index \in Nat \ {0} /\ route[r].index <= Len(route[r].candidates)
        /\ route[r].candidates \in Seq(Providers)
        /\ route[r].probe => Len(route[r].candidates) = 1
    BY <2>1 DEF RouteOK
  <2>3. thread[r][c].sends \in Nat /\ thread[r][c].st \in ThreadStates
    BY <2>1 DEF CallOK, CallRecord
  <2>4. thread[r][c].sends <= route[r].index
    BY <2>1, <2>2, <2>3 DEF CallOK, ThreadStates
  <2>5. thread[r][c].sends <= Len(route[r].candidates)
    BY <2>2, <2>3, <2>4
  <2>6. CASE route[r].probe
    BY <2>2, <2>5, <2>6
  <2>7. CASE ~route[r].probe
    BY <2>5, <2>7
  <2> QED BY <2>6, <2>7
<1> QED BY RoutingHolds, <1>1, PTL

-----------------------------------------------------------------------------
(***************************************************************************)
(* The calls of a request follow their route.  The place of a provider in  *)
(* the route says which candidate a call was sent to, because a route      *)
(* visits no provider twice.                                               *)
(***************************************************************************)
Distinct(s) == \A i, j \in DOMAIN s : s[i] = s[j] => i = j

\* What is still to be looked at was neither taken nor skipped.
NothingTwice(x) ==
  /\ Distinct(x.candidates)
  /\ x.st \in Selecting => Distinct(x.pool)
  /\ x.st \in {"cooling", "budget"} =>
       \A i \in DOMAIN x.pool : i > Len(x.candidates) + Cardinality(x.skipped) =>
         /\ x.pool[i] \notin x.skipped
         /\ \A k \in DOMAIN x.candidates : x.candidates[k] # x.pool[i]

RoutesAreDistinct == \A r \in Requests : NothingTwice(route[r])

\* Two sequences that share nothing, one after the other.
LEMMA DistinctTogether ==
  ASSUME NEW S \in SUBSET Providers, NEW T \in SUBSET Providers, S \cap T = {},
         NEW s \in Seq(S), NEW t \in Seq(T), Distinct(s), Distinct(t)
  PROVE  Distinct(s \o t) /\ s \o t \in Seq(S \cup T)
<1>1. /\ DOMAIN (s \o t) = 1..(Len(s) + Len(t)) /\ Len(s) \in Nat /\ Len(t) \in Nat
      /\ \A i \in DOMAIN (s \o t) : (s \o t)[i] = IF i <= Len(s) THEN s[i] ELSE t[i - Len(s)]
      /\ s \o t \in Seq(S \cup T)
  <2>1. s \in Seq(S \cup T) /\ t \in Seq(S \cup T)
    OBVIOUS
  <2> QED BY <2>1
<1>2. /\ \A i \in 1..Len(s) : s[i] \in S
      /\ \A i \in 1..Len(t) : t[i] \in T
  OBVIOUS
<1>3. ASSUME NEW i \in DOMAIN (s \o t), NEW j \in DOMAIN (s \o t), (s \o t)[i] = (s \o t)[j]
      PROVE  i = j
  <2>1. CASE i <= Len(s) /\ j <= Len(s)
    <3>1. s[i] = s[j] /\ i \in DOMAIN s /\ j \in DOMAIN s
      BY <1>1, <1>3, <2>1
    <3> QED BY <3>1 DEF Distinct
  <2>2. CASE ~(i <= Len(s)) /\ ~(j <= Len(s))
    <3>1. /\ t[i - Len(s)] = t[j - Len(s)]
          /\ i - Len(s) \in DOMAIN t /\ j - Len(s) \in DOMAIN t
      BY <1>1, <1>3, <2>2
    <3>2. i - Len(s) = j - Len(s)
      BY <3>1 DEF Distinct
    <3> QED BY <1>1, <3>2
  <2>3. CASE i <= Len(s) /\ ~(j <= Len(s))
    <3>1. s[i] = t[j - Len(s)] /\ i \in 1..Len(s) /\ j - Len(s) \in 1..Len(t)
      BY <1>1, <1>3, <2>3
    <3> QED BY <1>2, <3>1
  <2>4. CASE ~(i <= Len(s)) /\ j <= Len(s)
    <3>1. s[j] = t[i - Len(s)] /\ j \in 1..Len(s) /\ i - Len(s) \in 1..Len(t)
      BY <1>1, <1>3, <2>4
    <3> QED BY <1>2, <3>1
  <2> QED BY <2>1, <2>2, <2>3, <2>4
<1> QED BY <1>1, <1>3 DEF Distinct

\* The configured candidates are four different providers at most.
LEMMA CandidatesAreDistinct == Distinct(Candidates)
<1>1. ASSUME NEW p \in Providers PROVE Distinct(WithKey(p)) /\ WithKey(p) \in Seq({p})
  <2>1. Distinct(<<>>) /\ Distinct(<<p>>) /\ <<>> \in Seq({p}) /\ <<p>> \in Seq({p})
    BY DEF Distinct
  <2>2. WithKey(p) = <<>> \/ WithKey(p) = <<p>>
    BY DEF WithKey
  <2> QED BY <2>1, <2>2
<1>2. {"groq", "gemini", "openrouter", Local} \subseteq Providers
  BY DEF Providers, Hosted
<1> DEFINE two == WithKey("groq") \o WithKey("gemini")
           hosted == two \o WithKey("openrouter")
<1>3. Distinct(two) /\ two \in Seq({"groq", "gemini"})
  <2>1. {"groq"} \cup {"gemini"} = {"groq", "gemini"} /\ {"groq"} \cap {"gemini"} = {}
    OBVIOUS
  <2>2. /\ Distinct(WithKey("groq")) /\ WithKey("groq") \in Seq({"groq"})
        /\ Distinct(WithKey("gemini")) /\ WithKey("gemini") \in Seq({"gemini"})
        /\ {"groq"} \in SUBSET Providers /\ {"gemini"} \in SUBSET Providers
    BY <1>1, <1>2
  <2> QED BY <2>1, <2>2, DistinctTogether
<1>4. Distinct(hosted) /\ hosted \in Seq(Hosted)
  <2> HIDE DEF two
  <2>1. /\ {"groq", "gemini"} \cup {"openrouter"} = Hosted
        /\ {"groq", "gemini"} \cap {"openrouter"} = {}
    BY DEF Hosted
  <2>2. /\ Distinct(WithKey("openrouter")) /\ WithKey("openrouter") \in Seq({"openrouter"})
        /\ {"groq", "gemini"} \in SUBSET Providers /\ {"openrouter"} \in SUBSET Providers
    BY <1>1, <1>2
  <2> QED BY <1>3, <2>1, <2>2, DistinctTogether
<1> HIDE DEF hosted
<1>5. Distinct(Append(hosted, Local))
  <2>1. Local \notin Hosted
    BY DEF Local, Hosted
  <2>2. \A i \in DOMAIN hosted : hosted[i] # Local
    BY <1>4, <2>1
  <2>3. /\ DOMAIN Append(hosted, Local) = 1..(Len(hosted) + 1) /\ DOMAIN hosted = 1..Len(hosted)
        /\ \A i \in 1..Len(hosted) : Append(hosted, Local)[i] = hosted[i]
        /\ Append(hosted, Local)[Len(hosted) + 1] = Local /\ Len(hosted) \in Nat
    <3>1. hosted \in Seq(Providers) /\ Local \in Providers
      BY <1>4 DEF Providers
    <3> QED BY <3>1
  <2> QED BY <1>4, <2>2, <2>3 DEF Distinct
<1> QED BY <1>4, <1>5 DEF Candidates, hosted, two

\* Looking at a candidate takes or skips one that was neither taken nor skipped.
LEMMA LookedIsDistinct ==
  ASSUME NEW r, NEW x, RouteOK(x), NothingTwice(x), x.st \in {"cooling", "budget"},
         NEW new, NEW p, p = x.pool[Len(x.candidates) + Cardinality(x.skipped) + 1],
         \/ new = [x EXCEPT !.skipped = @ \cup {p}]
         \/ new = [x EXCEPT !.candidates = Append(@, p)]
  PROVE  NothingTwice(Looked(r, new))
<1> DEFINE seen == Len(x.candidates) + Cardinality(x.skipped)
           now_seen == Len(new.candidates) + Cardinality(new.skipped)
<1>1. /\ x.pool \in Seq(Providers) /\ x.candidates \in Seq(Providers)
      /\ x.skipped \in SUBSET Providers /\ seen < Len(x.pool) /\ Distinct(x.pool)
      /\ Cardinality(x.skipped) \in Nat /\ Len(x.candidates) \in Nat
  BY ProvidersAreFew DEF RouteOK, NothingTwice, Selecting
<1>2. seen + 1 \in DOMAIN x.pool /\ p \in Providers
  BY <1>1
<1>3. /\ p \notin x.skipped
      /\ \A k \in DOMAIN x.candidates : x.candidates[k] # p
  BY <1>1, <1>2 DEF NothingTwice
<1>4. /\ Distinct(new.candidates) /\ new.pool = x.pool
      /\ Distinct(new.pool) /\ now_seen = seen + 1
      /\ \A i \in DOMAIN new.pool : i > now_seen =>
           /\ new.pool[i] \notin new.skipped
           /\ \A k \in DOMAIN new.candidates : new.candidates[k] # new.pool[i]
  <2>1. \A i \in DOMAIN x.pool : i > seen + 1 =>
          /\ x.pool[i] # p /\ x.pool[i] \notin x.skipped
          /\ \A k \in DOMAIN x.candidates : x.candidates[k] # x.pool[i]
    <3> SUFFICES ASSUME NEW i \in DOMAIN x.pool, i > seen + 1
                 PROVE  /\ x.pool[i] # p /\ x.pool[i] \notin x.skipped
                        /\ \A k \in DOMAIN x.candidates : x.candidates[k] # x.pool[i]
      OBVIOUS
    <3>1. i > seen /\ i # seen + 1
      BY <1>1
    <3>2. x.pool[i] # p
      BY <1>1, <1>2, <3>1 DEF Distinct
    <3> QED BY <3>1, <3>2 DEF NothingTwice
  <2>2. CASE new = [x EXCEPT !.skipped = @ \cup {p}]
    <3>1. new.candidates = x.candidates /\ new.pool = x.pool /\ new.skipped = x.skipped \cup {p}
      BY <2>2 DEF RouteOK
    <3>2. Cardinality(x.skipped \cup {p}) = Cardinality(x.skipped) + 1
      <4>1. IsFiniteSet(x.skipped)
        BY <1>1, ProvidersAreFinite, FS_Subset
      <4> QED BY <1>3, <4>1, FS_AddElement
    <3>3. now_seen = seen + 1
      <4>1. /\ Len(new.candidates) = Len(x.candidates)
            /\ Cardinality(new.skipped) = Cardinality(x.skipped) + 1
        BY <3>1, <3>2
      <4> QED BY <1>1, <4>1
    <3> HIDE DEF seen, now_seen
    <3> QED BY <1>1, <2>1, <3>1, <3>3 DEF NothingTwice
  <2>3. CASE new = [x EXCEPT !.candidates = Append(@, p)]
    <3>1. /\ new.candidates = Append(x.candidates, p) /\ new.pool = x.pool
          /\ new.skipped = x.skipped
      BY <2>3 DEF RouteOK
    <3>2. /\ Len(new.candidates) = Len(x.candidates) + 1
          /\ \A k \in DOMAIN new.candidates :
               new.candidates[k] = IF k \in DOMAIN x.candidates THEN x.candidates[k] ELSE p
          /\ \A k \in DOMAIN new.candidates :
               k \in DOMAIN x.candidates \/ k = Len(x.candidates) + 1
      BY <1>1, <1>2, <3>1
    <3>3. now_seen = seen + 1
      BY <1>1, <3>1, <3>2
    <3>4. Distinct(new.candidates)
      BY <1>3, <3>2 DEF NothingTwice, Distinct
    <3> HIDE DEF seen, now_seen
    <3> QED BY <1>1, <2>1, <3>1, <3>2, <3>3, <3>4
  <2> QED BY <2>2, <2>3
<1>5. DOMAIN new = DOMAIN x
  OBVIOUS
<1>6. /\ "st" \in DOMAIN new /\ "pool" \in DOMAIN new
      /\ "candidates" \in DOMAIN new /\ "skipped" \in DOMAIN new
  BY <1>5 DEF RouteOK
<1>7. CASE now_seen < Len(new.pool)
  <2>1. Looked(r, new) = [new EXCEPT !.st = "cooling"]
    BY <1>7 DEF Looked
  <2>2. /\ Looked(r, new).candidates = new.candidates /\ Looked(r, new).pool = new.pool
        /\ Looked(r, new).skipped = new.skipped
    BY <1>6, <2>1
  <2> QED BY <1>4, <2>2 DEF NothingTwice
<1>8. CASE ~(now_seen < Len(new.pool)) /\ new.candidates # <<>>
  <2>1. Looked(r, new) = [new EXCEPT !.st = "routed", !.pool = <<>>]
    BY <1>8 DEF Looked
  <2>2. Looked(r, new).candidates = new.candidates /\ Looked(r, new).st = "routed"
    BY <1>6, <2>1
  <2> QED BY <1>4, <2>2 DEF NothingTwice, Selecting
<1>9. CASE ~(now_seen < Len(new.pool)) /\ new.candidates = <<>>
  <2>1. Looked(r, new) = [new EXCEPT !.st = "remaining"]
    BY <1>9 DEF Looked
  <2>2. /\ Looked(r, new).candidates = new.candidates /\ Looked(r, new).pool = new.pool
        /\ Looked(r, new).st = "remaining"
    BY <1>6, <2>1
  <2> QED BY <1>4, <2>2 DEF NothingTwice
<1> QED BY <1>7, <1>8, <1>9

\* A step is a step of one request, and leaves the others alone.
LEMMA OwnSteps ==
  ASSUME RoutingInv, [Next]_vars, NEW r \in Requests
  PROVE  \/ route'[r] = route[r] /\ thread'[r] = thread[r]
         \/ \E workload \in Workloads : SelectRoute(r, workload)
         \/ Select(r)
         \/ \E c \in Callers[r] : BeginCall(r, c) \/ Call(r, c)
<1>1. DOMAIN route = Requests /\ DOMAIN thread = Requests
  BY DEF RoutingInv, Routes, Calls
<1>2. CASE Tick \/ UNCHANGED vars
  BY <1>2 DEF Tick, vars
<1>3. ASSUME NEW q \in Requests, q # r,
             \/ \E workload \in Workloads : SelectRoute(q, workload)
             \/ Select(q)
             \/ \E c \in Callers[q] : BeginCall(q, c) \/ Call(q, c)
      PROVE  route'[r] = route[r] /\ thread'[r] = thread[r]
  <2>1. \/ UNCHANGED route
        \/ \E new : Becomes(q, new)
    BY <1>3, Zenon DEF SelectRoute, Select, LookAtCooldown, LookAtBudget, ReadRemaining,
       BeginCall, Call, ReadRoute, Send, RecordSuccess, FailForGood, Charge,
       FailOver, AdvanceRoute
  <2>2. \/ UNCHANGED thread
        \/ \E c, to : Goes(q, c, to)
    BY <1>3, Zenon DEF SelectRoute, Select, LookAtCooldown, LookAtBudget, ReadRemaining,
       BeginCall, Call, ReadRoute, Send, RecordSuccess, FailForGood, Charge,
       FailOver, AdvanceRoute
  <2> QED BY <1>1, <1>3, <2>1, <2>2 DEF Becomes, Goes
<1> QED BY <1>2, <1>3, Zenon DEF Next

\* A route visits no provider twice, however its candidates were found.
LEMMA RoutesStayDistinct ==
  ASSUME RoutingInv, RoutesAreDistinct, [Next]_vars
  PROVE  RoutesAreDistinct'
<1> SUFFICES ASSUME NEW r \in Requests PROVE NothingTwice(route'[r])
  BY DEF RoutesAreDistinct
<1>1. NothingTwice(route[r]) /\ RouteOK(route[r]) /\ DOMAIN route = Requests
  BY DEF RoutesAreDistinct, RoutingInv, Routes
<1>2. CASE route'[r] = route[r]
  BY <1>1, <1>2
<1>3. ASSUME NEW workload \in Workloads, SelectRoute(r, workload) PROVE NothingTwice(route'[r])
  <2> DEFINE fresh == [NoRoute EXCEPT !.st = "routed", !.workload = workload]
  <2>1. \A p : Distinct(<<p>>)
    BY DEF Distinct
  <2>2. \A cs : Distinct(cs) => NothingTwice([fresh EXCEPT !.candidates = cs])
    BY DEF NothingTwice, NoRoute, Selecting
  <2>3. NothingTwice([fresh EXCEPT !.st = "cooling", !.breaker = TRUE, !.pool = Candidates])
    BY CandidatesAreDistinct DEF NothingTwice, NoRoute, Distinct
  <2>4. \A new : Becomes(r, new) => route'[r] = new
    BY <1>1 DEF Becomes
  <2>5. settings.mode \in {"static", "dynamic"}
    BY RoutingAssumption DEF RoutingAssumption, RoutingInv, Tallies
  <2>6. CASE settings.mode = "static"
    BY <1>3, <2>1, <2>2, <2>4, <2>6 DEF SelectRoute
  <2>7. CASE settings.mode = "dynamic" /\ settings.local_only
    BY <1>3, <2>1, <2>2, <2>4, <2>7 DEF SelectRoute
  <2>8. CASE settings.mode = "dynamic" /\ ~settings.local_only /\ ~BreakerApplies(workload)
    BY <1>3, <2>2, <2>4, <2>8, CandidatesAreDistinct DEF SelectRoute
  <2>9. CASE settings.mode = "dynamic" /\ ~settings.local_only /\ BreakerApplies(workload)
    BY <1>3, <2>3, <2>4, <2>9 DEF SelectRoute
  <2> QED BY <2>5, <2>6, <2>7, <2>8, <2>9
<1>4. CASE LookAtCooldown(r) \/ LookAtBudget(r)
  <2>1. route[r].st \in {"cooling", "budget"}
    BY <1>4 DEF LookAtCooldown, LookAtBudget
  <2>2. CASE Becomes(r, [route[r] EXCEPT !.st = "budget"]) /\ route[r].st = "cooling"
    <3>1. /\ route'[r].st = "budget" /\ route'[r].pool = route[r].pool
          /\ route'[r].candidates = route[r].candidates /\ route'[r].skipped = route[r].skipped
      BY <1>1, <2>2 DEF Becomes, RouteOK
    <3> QED BY <1>1, <2>2, <3>1 DEF NothingTwice, Selecting
  <2>3. ASSUME NEW new, Becomes(r, Looked(r, new)),
               \/ new = [route[r] EXCEPT !.skipped = @ \cup {Looking(r)}]
               \/ new = [route[r] EXCEPT !.candidates = Append(@, Looking(r))]
        PROVE  NothingTwice(route'[r])
    <3>1. route'[r] = Looked(r, new)
      BY <1>1, <2>3 DEF Becomes
    <3>2. Looking(r) = route[r].pool[Len(route[r].candidates) + Cardinality(route[r].skipped) + 1]
      BY DEF Looking, Seen
    <3> QED BY <1>1, <2>1, <2>3, <3>1, <3>2, LookedIsDistinct
  <2> QED BY <1>4, <2>2, <2>3 DEF LookAtCooldown, LookAtBudget
<1>5. CASE ReadRemaining(r)
  <2> DEFINE left == Append(route[r].left, Remaining(route[r].pool[Len(route[r].left) + 1]))
             probe == SoonestOf(route[r].pool, left)
  <2>1. CASE Becomes(r, [route[r] EXCEPT !.left = left])
    <3> HIDE DEF left
    <3>1. /\ route'[r].st = route[r].st /\ route'[r].pool = route[r].pool
          /\ route'[r].candidates = route[r].candidates /\ route'[r].skipped = route[r].skipped
      BY <1>1, <2>1 DEF Becomes, RouteOK
    <3> QED BY <1>1, <3>1 DEF NothingTwice
  <2>2. CASE Becomes(r, [route[r] EXCEPT !.st = "routed", !.candidates = <<probe>>, !.pool = <<>>,
                           !.skipped = @ \ {probe}, !.left = <<>>, !.probe = TRUE])
    <3> HIDE DEF probe
    <3>1. route'[r].st = "routed" /\ route'[r].candidates = <<probe>>
      BY <1>1, <2>2 DEF Becomes, RouteOK
    <3> QED BY <3>1 DEF NothingTwice, Distinct, Selecting
  <2> QED BY <1>5, <2>1, <2>2 DEF ReadRemaining
<1>6. ASSUME NEW c \in Callers[r], NEW category \in Categories, NEW hint \in Hints,
             FailOver(r, c, category, hint)
      PROVE  NothingTwice(route'[r])
  <2>1. thread[r][c].st = "sent" /\ CallOK(thread[r][c], route[r], failed_at[r])
    BY <1>6 DEF FailOver, RoutingInv, Calls
  <2>2. route[r].st = "routed"
    BY <2>1 DEF CallOK
  <2>3. \/ UNCHANGED route
        \/ \E i, s : Becomes(r, [route[r] EXCEPT !.index = i, !.skipped = s])
    BY <1>6, Zenon DEF FailOver, AdvanceRoute
  <2>4. \/ UNCHANGED route
        \/ route'[r].st = "routed" /\ route'[r].candidates = route[r].candidates
    BY <1>1, <2>2, <2>3 DEF Becomes, RouteOK
  <2> QED BY <1>1, <2>4 DEF NothingTwice, Selecting
<1>7. \/ route'[r] = route[r]
      \/ \E workload \in Workloads : SelectRoute(r, workload)
      \/ LookAtCooldown(r) \/ LookAtBudget(r) \/ ReadRemaining(r)
      \/ \E c \in Callers[r], category \in Categories, hint \in Hints :
           FailOver(r, c, category, hint)
  <2>1. ASSUME NEW c \in Callers[r],
               \/ BeginCall(r, c) \/ ReadRoute(r, c) \/ Send(r, c) \/ RecordSuccess(r, c)
               \/ FailForGood(r, c) \/ \E tokens \in Usages : Charge(r, c, tokens)
        PROVE  route'[r] = route[r]
    BY <2>1 DEF BeginCall, ReadRoute, Send, RecordSuccess, FailForGood, Charge
  <2> QED BY <2>1, OwnSteps, Zenon DEF Select, Call
<1> QED BY <1>2, <1>3, <1>4, <1>5, <1>6, <1>7

-----------------------------------------------------------------------------
\* The place of a candidate in its route.
LEMMA IndexIsPlace ==
  ASSUME NEW s \in Seq(Providers), Distinct(s), NEW i \in DOMAIN s
  PROVE  IndexOf(s, s[i]) = i
BY DEF IndexOf, Distinct

Stages(r) == [c \in Callers[r] |-> StageOf(thread[r][c])]
Notes(r) == [c \in Callers[r] |-> Noted(r, c)]
NotedIn(to, candidates) ==
  IF to.st \in {"routed", "sent"} THEN IndexOf(candidates, to.attempt) ELSE 0

\* What a thread that goes on looks like to FailoverRoute.
LEMMA StagesMove ==
  ASSUME RoutingInv, NEW r \in Requests, NEW c \in Callers[r], NEW to, Goes(r, c, to),
         route'[r].candidates = route[r].candidates
  PROVE  /\ Stages(r)' = [Stages(r) EXCEPT ![c] = StageOf(to)]
         /\ Notes(r)' = [Notes(r) EXCEPT ![c] = NotedIn(to, route[r].candidates)]
<1>1. DOMAIN thread = Requests /\ thread[r] \in [Callers[r] -> CallRecord]
  BY DEF RoutingInv, Calls
<1>2. thread'[r] = [thread[r] EXCEPT ![c] = to]
  BY <1>1 DEF Goes
<1>3. \A d \in Callers[r] : thread'[r][d] = IF d = c THEN to ELSE thread[r][d]
  BY <1>1, <1>2
<1>4. Stages(r)' = [Stages(r) EXCEPT ![c] = StageOf(to)]
  BY <1>3 DEF Stages
<1>5. \A d \in Callers[r] :
        Noted(r, d)' = IF d = c THEN NotedIn(to, route[r].candidates) ELSE Noted(r, d)
  BY <1>3 DEF Noted, NotedIn
<1>6. Notes(r)' = [Notes(r) EXCEPT ![c] = NotedIn(to, route[r].candidates)]
  BY <1>5 DEF Notes
<1> QED BY <1>4, <1>6

\* A call under way has a route, and its provider has a place there, which is the
\* route's own place or one that the route has left.
LEMMA PlaceOfCall ==
  ASSUME RoutingInv, RoutesAreDistinct, NEW r \in Requests, NEW c \in Callers[r],
         thread[r][c].st \notin {"idle", "answered", "failed"}
  PROVE  /\ route[r].st = "routed" /\ route[r].index \in 1..Len(route[r].candidates)
         /\ Len(route[r].candidates) \in Nat
         /\ IndexOf(route[r].candidates, Provider(r)) = route[r].index
         /\ thread[r][c].st \in {"routed", "sent"} =>
              /\ Noted(r, c) \in 1..route[r].index
              /\ thread[r][c].attempt = Provider(r) <=> Noted(r, c) = route[r].index
<1>1. /\ RouteOK(route[r]) /\ CallOK(thread[r][c], route[r], failed_at[r])
      /\ NothingTwice(route[r])
  BY DEF RoutingInv, Routes, Calls, RoutesAreDistinct
<1>2. /\ route[r].st = "routed" /\ route[r].candidates \in Seq(Providers)
      /\ Distinct(route[r].candidates) /\ route[r].index \in 1..Len(route[r].candidates)
      /\ Len(route[r].candidates) \in Nat
  BY <1>1 DEF CallOK, RouteOK, NothingTwice
<1>3. IndexOf(route[r].candidates, Provider(r)) = route[r].index
  BY <1>2, IndexIsPlace DEF Provider
<1>4. ASSUME thread[r][c].st \in {"routed", "sent"}
      PROVE  /\ Noted(r, c) \in 1..route[r].index
             /\ thread[r][c].attempt = Provider(r) <=> Noted(r, c) = route[r].index
  <2>1. PICK i \in 1..route[r].index : thread[r][c].attempt = route[r].candidates[i]
    BY <1>1, <1>4 DEF CallOK, ReadAt
  <2>2. i \in DOMAIN route[r].candidates /\ route[r].index \in DOMAIN route[r].candidates
    BY <1>2, <2>1
  <2>3. Noted(r, c) = i
    BY <1>2, <1>4, <2>1, <2>2, IndexIsPlace DEF Noted
  <2> QED BY <1>2, <2>1, <2>2, <2>3 DEF Provider, Distinct
<1> QED BY <1>2, <1>3, <1>4

\* A thread begins a call, notes its candidate, or sends.
LEMMA CallingFollows ==
  ASSUME RoutingInv, RoutesAreDistinct, NEW r \in Requests, NEW c \in Callers[r],
         BeginCall(r, c) \/ ReadRoute(r, c) \/ Send(r, c)
  PROVE  Shared(r)!Begin(c) \/ Shared(r)!Note(c) \/ Shared(r)!Send(c)
<1>1. route'[r] = route[r]
  BY DEF BeginCall, ReadRoute, Send
<1>2. /\ RouteOK(route[r]) /\ Len(route[r].candidates) \in Nat
      /\ thread[r] \in [Callers[r] -> CallRecord]
  BY DEF RoutingInv, Routes, Calls, RouteOK
<1>3. CASE BeginCall(r, c)
  <2> DEFINE to == [NoCall EXCEPT !.st = "permit"]
  <2>1. StageOf(to) = "ready" /\ NotedIn(to, route[r].candidates) = 0
    BY DEF NoCall, StageOf, NotedIn
  <2>2. Goes(r, c, to) /\ thread[r][c].st = "idle" /\ route[r].st = "routed"
    BY <1>3 DEF BeginCall
  <2> HIDE DEF to
  <2>3. Stages(r)' = [Stages(r) EXCEPT ![c] = "ready"] /\ Notes(r)' = [Notes(r) EXCEPT ![c] = 0]
    BY <1>1, <2>1, <2>2, StagesMove
  <2>4. Stages(r)[c] = "idle" /\ Notes(r)[c] = 0
    BY <2>2 DEF Stages, Notes, StageOf, Noted
  <2>5. Notes(r)' = Notes(r)
    BY <2>3, <2>4 DEF Notes
  <2>6. Len(route[r].candidates) > 0
    BY <1>2, <2>2 DEF RouteOK
  <2>7. Shared(r)!Begin(c)
    BY <1>1, <2>2, <2>3, <2>4, <2>5, <2>6 DEF Shared!Begin, Shared!Goes, Stages, Notes
  <2> QED BY <2>7
<1>4. CASE ReadRoute(r, c)
  <2> DEFINE to == [thread[r][c] EXCEPT !.st = "routed", !.attempt = Provider(r)]
  <2>1. Goes(r, c, to) /\ thread[r][c].st = "permit"
    BY <1>4 DEF ReadRoute
  <2>2. to.st = "routed" /\ to.attempt = Provider(r)
    BY <1>2 DEF CallRecord
  <2> HIDE DEF to
  <2>3. StageOf(to) = "noted" /\ NotedIn(to, route[r].candidates) = route[r].index
    BY <2>1, <2>2, PlaceOfCall DEF StageOf, NotedIn
  <2>4. /\ Stages(r)' = [Stages(r) EXCEPT ![c] = "noted"]
        /\ Notes(r)' = [Notes(r) EXCEPT ![c] = route[r].index]
    BY <1>1, <2>1, <2>3, StagesMove
  <2>5. Stages(r)[c] = "ready"
    BY <2>1 DEF Stages, StageOf
  <2>6. Shared(r)!Note(c)
    BY <1>1, <2>4, <2>5 DEF Shared!Note, Shared!Goes, Stages, Notes
  <2> QED BY <2>6
<1>5. CASE Send(r, c)
  <2> DEFINE to == [thread[r][c] EXCEPT !.st = "sent", !.callee = Provider(r), !.sends = @ + 1]
  <2>1. Goes(r, c, to) /\ thread[r][c].st = "routed"
    BY <1>5 DEF Send
  <2>2. to.st = "sent" /\ to.attempt = thread[r][c].attempt
    BY <1>2 DEF CallRecord
  <2> HIDE DEF to
  <2>3. StageOf(to) = "sent" /\ NotedIn(to, route[r].candidates) = Noted(r, c)
    BY <2>1, <2>2 DEF StageOf, NotedIn, Noted
  <2>4. /\ Stages(r)' = [Stages(r) EXCEPT ![c] = "sent"]
        /\ Notes(r)' = [Notes(r) EXCEPT ![c] = Noted(r, c)]
    BY <1>1, <2>1, <2>3, StagesMove
  <2>5. Stages(r)[c] = "noted" /\ Notes(r)[c] = Noted(r, c)
    BY <2>1 DEF Stages, Notes, StageOf
  <2>6. Notes(r)' = Notes(r)
    BY <2>4, <2>5 DEF Notes
  <2>7. Shared(r)!Send(c)
    BY <1>1, <2>4, <2>5, <2>6 DEF Shared!Send, Shared!Goes, Stages, Notes
  <2> QED BY <2>7
<1> QED BY <1>3, <1>4, <1>5

\* A call that was sent ends where the route does not move.
LEMMA CallEnds ==
  ASSUME RoutingInv, NEW r \in Requests, NEW c \in Callers[r], thread[r][c].st = "sent",
         NEW to, Goes(r, c, to), to.st \in {"charged", "answered", "failed"},
         route'[r] = route[r]
  PROVE  Shared(r)!EndCall(c)
<1>1. StageOf(to) = "over" /\ NotedIn(to, route[r].candidates) = 0
  BY DEF StageOf, NotedIn
<1>2. Stages(r)' = [Stages(r) EXCEPT ![c] = "over"] /\ Notes(r)' = [Notes(r) EXCEPT ![c] = 0]
  BY <1>1, StagesMove
<1>3. Stages(r)[c] = "sent"
  BY DEF Stages, StageOf
<1> QED BY <1>2, <1>3 DEF Shared!EndCall, Shared!Goes, Stages, Notes

\* An answer is charged and recorded; an error may end the call.
LEMMA EndingFollows ==
  ASSUME RoutingInv, NEW r \in Requests, NEW c \in Callers[r],
         \/ \E tokens \in Usages : Charge(r, c, tokens)
         \/ RecordSuccess(r, c) \/ FailForGood(r, c)
  PROVE  [Shared(r)!Next]_(Shared(r)!routeVars)
<1>1. route'[r] = route[r] /\ thread[r] \in [Callers[r] -> CallRecord]
  BY DEF Charge, RecordSuccess, FailForGood, RoutingInv, Calls
<1>2. ASSUME NEW tokens \in Usages, Charge(r, c, tokens) PROVE Shared(r)!EndCall(c)
  <2> DEFINE to == [thread[r][c] EXCEPT !.st = "charged"]
  <2>1. Goes(r, c, to) /\ thread[r][c].st = "sent"
    BY <1>2 DEF Charge
  <2>2. to.st = "charged"
    BY <1>1 DEF CallRecord
  <2> HIDE DEF to
  <2> QED BY <1>1, <2>1, <2>2, CallEnds
<1>3. CASE FailForGood(r, c)
  <2>1. Failed.st = "failed"
    BY DEF Failed, NoCall
  <2>2. Shared(r)!EndCall(c)
    BY <1>1, <1>3, <2>1, CallEnds DEF FailForGood
  <2> QED BY <2>2 DEF Shared!Next
<1>4. CASE RecordSuccess(r, c)
  <2> DEFINE to == [NoCall EXCEPT !.st = "answered"]
  <2>1. Goes(r, c, to) /\ thread[r][c].st = "charged"
    BY <1>4 DEF RecordSuccess
  <2>2. StageOf(to) = "over" /\ NotedIn(to, route[r].candidates) = 0
    BY DEF NoCall, StageOf, NotedIn
  <2> HIDE DEF to
  <2>3. Stages(r)' = [Stages(r) EXCEPT ![c] = "over"] /\ Notes(r)' = [Notes(r) EXCEPT ![c] = 0]
    BY <1>1, <2>1, <2>2, StagesMove
  <2>4. Stages(r)[c] = "over" /\ Notes(r)[c] = 0
    BY <2>1 DEF Stages, Notes, StageOf, Noted
  <2>5. Stages(r)' = Stages(r) /\ Notes(r)' = Notes(r)
    BY <2>3, <2>4 DEF Stages, Notes
  <2> QED BY <1>1, <2>5 DEF Shared!routeVars, Stages, Notes
<1> QED BY <1>2, <1>3, <1>4 DEF Shared!Next

\* A failure moves the route off the candidate it was noted at, or finds it moved, or
\* ends the call.
LEMMA FailOverFollows ==
  ASSUME RoutingInv, RoutesAreDistinct, NEW r \in Requests, NEW c \in Callers[r],
         NEW category \in Categories, NEW hint \in Hints, FailOver(r, c, category, hint)
  PROVE  Shared(r)!MoveOn(c) \/ Shared(r)!EndCall(c)
<1> DEFINE rt == route[r]
           n == Len(rt.candidates)
<1>1. /\ thread[r][c].st = "sent" /\ DOMAIN route = Requests /\ RouteOK(rt)
      /\ thread[r][c] \in CallRecord
  BY DEF FailOver, RoutingInv, Routes, Calls
<1>2. /\ rt.st = "routed" /\ rt.index \in 1..n /\ n \in Nat
      /\ Noted(r, c) \in 1..rt.index
      /\ thread[r][c].attempt = Provider(r) <=> Noted(r, c) = rt.index
  BY <1>1, PlaceOfCall
<1>3. /\ Failed.st = "failed" /\ StageOf(Retry(r, c)) = "ready"
      /\ NotedIn(Retry(r, c), rt.candidates) = 0
  BY DEF Failed, Retry, NoCall, StageOf, NotedIn
<1>4. Stages(r)[c] = "sent" /\ Notes(r)[c] = Noted(r, c)
  BY <1>1 DEF Stages, Notes, StageOf
<1>5. \/ Goes(r, c, Failed) /\ UNCHANGED route
      \/ Goes(r, c, Retry(r, c)) /\ UNCHANGED route /\ thread[r][c].attempt # Provider(r)
      \/ /\ Goes(r, c, Retry(r, c)) /\ thread[r][c].attempt = Provider(r)
         /\ \E i \in rt.index + 1 .. n : \E s : Becomes(r, [rt EXCEPT !.index = i, !.skipped = s])
  <2> DEFINE breaker == settings.mode = "dynamic" /\ rt.breaker
             benched == IF breaker THEN RecordFailure(thread[r][c].attempt, category, hint)
                                   ELSE until
             next == IF breaker THEN FirstWarm(r, rt.index + 1, benched) ELSE rt.index + 1
  <2>1. \/ /\ thread[r][c].attempt # Provider(r)
           /\ Goes(r, c, IF settings.mode = "dynamic" THEN Retry(r, c) ELSE Failed)
           /\ UNCHANGED route
        \/ /\ thread[r][c].attempt = Provider(r) /\ CanFallback(r)
           /\ Becomes(r, [rt EXCEPT !.index = next,
                !.skipped = @ \cup {rt.candidates[i] : i \in rt.index + 1 .. next - 1}])
           /\ Goes(r, c, Retry(r, c))
        \/ Goes(r, c, Failed) /\ UNCHANGED route
    BY DEF FailOver, AdvanceRoute
  <2>2. CanFallback(r) => next \in rt.index + 1 .. n
    <3> SUFFICES ASSUME CanFallback(r) PROVE next \in rt.index + 1 .. n
      OBVIOUS
    <3>1. rt.index + 1 \in Nat /\ rt.index + 1 <= n
      BY <1>2 DEF CanFallback
    <3>2. FirstWarm(r, rt.index + 1, benched) \in rt.index + 1 .. n
      BY <1>2, <3>1, FirstWarmIsCandidate
    <3> QED BY <1>2, <3>1, <3>2
  <2> HIDE DEF next
  <2> QED BY <2>1, <2>2
<1>6. CASE Goes(r, c, Failed) /\ UNCHANGED route
  BY <1>1, <1>3, <1>6, CallEnds
<1>7. ASSUME Goes(r, c, Retry(r, c)), route'[r].st = "routed",
             route'[r].candidates = rt.candidates, route'[r].index \in rt.index..n,
             route'[r].index # rt.index => Noted(r, c) = rt.index,
             route'[r].index > Noted(r, c)
      PROVE  Shared(r)!MoveOn(c)
  <2>1. Stages(r)' = [Stages(r) EXCEPT ![c] = "ready"] /\ Notes(r)' = [Notes(r) EXCEPT ![c] = 0]
    BY <1>3, <1>7, StagesMove
  <2> QED BY <1>2, <1>4, <1>7, <2>1 DEF Shared!MoveOn, Shared!Goes, Stages, Notes
<1>8. CASE Goes(r, c, Retry(r, c)) /\ UNCHANGED route /\ thread[r][c].attempt # Provider(r)
  BY <1>2, <1>7, <1>8
<1>9. ASSUME Goes(r, c, Retry(r, c)), thread[r][c].attempt = Provider(r),
             NEW i \in rt.index + 1 .. n, NEW s, Becomes(r, [rt EXCEPT !.index = i, !.skipped = s])
      PROVE  Shared(r)!MoveOn(c)
  <2>1. route'[r].st = "routed" /\ route'[r].candidates = rt.candidates /\ route'[r].index = i
    BY <1>1, <1>2, <1>9 DEF Becomes, RouteOK
  <2>2. route'[r].index \in rt.index..n /\ route'[r].index > Noted(r, c)
        /\ Noted(r, c) = rt.index
    BY <1>2, <1>9, <2>1
  <2> QED BY <1>7, <1>9, <2>1, <2>2
<1> QED BY <1>5, <1>6, <1>8, <1>9

\* A route is found once, by the settings or by what the tallies say.
LEMMA SelectionFollows ==
  ASSUME RoutingInv, RoutingInv', NEW r \in Requests,
         Select(r) \/ \E workload \in Workloads : SelectRoute(r, workload)
  PROVE  [Shared(r)!Next]_(Shared(r)!routeVars)
<1>1. /\ RouteOK(route[r]) /\ RouteOK(route'[r]) /\ DOMAIN route = Requests
      /\ \A c \in Callers[r] : CallOK(thread[r][c], route[r], failed_at[r])
  BY DEF RoutingInv, Routes, Calls
<1>2. UNCHANGED thread /\ route[r].st # "routed"
  BY DEF Select, SelectRoute, LookAtCooldown, LookAtBudget, ReadRemaining
<1>3. \A c \in Callers[r] : thread[r][c].st \notin {"routed", "sent"}
  BY <1>1, <1>2 DEF CallOK
<1>4. UNCHANGED Stages(r) /\ UNCHANGED Notes(r)
  <2>1. \A c \in Callers[r] : Noted(r, c) = 0 /\ Noted(r, c)' = 0
    BY <1>2, <1>3 DEF Noted
  <2> QED BY <1>2, <2>1 DEF Stages, Notes
<1>5. route[r].index = 1 /\ route'[r].index = 1
  <2>1. route[r].index = 1
    BY <1>1, <1>2 DEF RouteOK
  <2>2. ASSUME NEW workload \in Workloads, SelectRoute(r, workload) PROVE route'[r].index = 1
    <3> DEFINE fresh == [NoRoute EXCEPT !.st = "routed", !.workload = workload]
    <3>1. \/ \E cs : Becomes(r, [fresh EXCEPT !.candidates = cs])
          \/ \E cs : Becomes(r, [fresh EXCEPT !.st = "cooling", !.breaker = TRUE, !.pool = cs])
      <4>1. settings.mode \in {"static", "dynamic"}
        BY RoutingAssumption DEF RoutingAssumption, RoutingInv, Tallies
      <4>2. CASE settings.mode = "static"
        BY <2>2, <4>2 DEF SelectRoute
      <4>3. CASE settings.mode = "dynamic" /\ settings.local_only
        BY <2>2, <4>3 DEF SelectRoute
      <4>4. CASE settings.mode = "dynamic" /\ ~settings.local_only /\ ~BreakerApplies(workload)
        BY <2>2, <4>4 DEF SelectRoute
      <4>5. CASE settings.mode = "dynamic" /\ ~settings.local_only /\ BreakerApplies(workload)
        BY <2>2, <4>5 DEF SelectRoute
      <4> QED BY <4>1, <4>2, <4>3, <4>4, <4>5
    <3> QED BY <1>1, <3>1 DEF Becomes, NoRoute
  <2>3. CASE LookAtCooldown(r) \/ LookAtBudget(r)
    <3>1. Looking(r) \in Providers /\ route[r].st \in {"cooling", "budget"}
      <4>1. route[r].st \in {"cooling", "budget"}
        BY <2>3 DEF LookAtCooldown, LookAtBudget
      <4>2. Cardinality(route[r].skipped) \in Nat /\ Len(route[r].candidates) \in Nat
        BY <1>1, ProvidersAreFew DEF RouteOK
      <4> QED BY <1>1, <4>1, <4>2 DEF RouteOK, Looking, Seen
    <3>2. \/ Becomes(r, [route[r] EXCEPT !.st = "budget"])
          \/ \E new : /\ Becomes(r, Looked(r, new))
                      /\ \/ new = [route[r] EXCEPT !.skipped = @ \cup {Looking(r)}]
                         \/ new = [route[r] EXCEPT !.candidates = Append(@, Looking(r))]
      BY <2>3 DEF LookAtCooldown, LookAtBudget
    <3>3. CASE Becomes(r, [route[r] EXCEPT !.st = "budget"])
      BY <1>1, <2>1, <3>3 DEF Becomes, RouteOK
    <3>4. ASSUME NEW new, Becomes(r, Looked(r, new)),
                 \/ new = [route[r] EXCEPT !.skipped = @ \cup {Looking(r)}]
                 \/ new = [route[r] EXCEPT !.candidates = Append(@, Looking(r))]
          PROVE  route'[r].index = 1
      <4>1. route'[r] = Looked(r, new)
        BY <1>1, <3>4 DEF Becomes
      <4>2. RouteOK(route'[r]) /\ route'[r].workload = "normal" /\ route'[r].index = 1
        BY <1>1, <3>1, <3>4, <4>1, LookedIsOK
      <4> QED BY <4>2
    <3> QED BY <2>1, <3>2, <3>3, <3>4
  <2>4. CASE ReadRemaining(r)
    <3>1. \/ \E left : Becomes(r, [route[r] EXCEPT !.left = left])
          \/ \E cs, skipped :
               Becomes(r, [route[r] EXCEPT !.st = "routed", !.candidates = cs, !.pool = <<>>,
                             !.skipped = skipped, !.left = <<>>, !.probe = TRUE])
      BY <2>4, Zenon DEF ReadRemaining
    <3>2. "index" \in DOMAIN route[r]
      BY <1>1 DEF RouteOK
    <3>3. ASSUME NEW left, Becomes(r, [route[r] EXCEPT !.left = left]) PROVE route'[r].index = 1
      BY <1>1, <2>1, <3>2, <3>3 DEF Becomes
    <3>4. ASSUME NEW cs, NEW skipped,
                 Becomes(r, [route[r] EXCEPT !.st = "routed", !.candidates = cs, !.pool = <<>>,
                               !.skipped = skipped, !.left = <<>>, !.probe = TRUE])
          PROVE  route'[r].index = 1
      BY <1>1, <2>1, <3>2, <3>4 DEF Becomes
    <3> QED BY <2>1, <3>1, <3>3, <3>4
  <2> QED BY <2>1, <2>2, <2>3, <2>4 DEF Select
<1>6. CASE route'[r].st = "routed"
  <2>1. Len(route'[r].candidates) \in Nat \ {0}
    BY <1>1, <1>6 DEF RouteOK
  <2>2. Shared(r)!Select
    BY <1>2, <1>4, <1>5, <1>6, <2>1 DEF Shared!Select, Stages, Notes
  <2> QED BY <2>2 DEF Shared!Next
<1>7. CASE route'[r].st # "routed"
  BY <1>2, <1>4, <1>5, <1>7 DEF Shared!routeVars, Stages, Notes
<1> QED BY <1>6, <1>7

(***************************************************************************)
(* Each request's calls implement FailoverRoute: whatever cools down, runs *)
(* out of tokens or fails meanwhile, in whatever order its threads get to  *)
(* the route they share, the route goes forward only, is moved only by a   *)
(* call that still finds it where it noted it, and a call that failed is   *)
(* sent again only further on.                                             *)
(***************************************************************************)
THEOREM RequestsFollowTheirRoutes == Spec => RoutesAreFollowed
<1>1. Init => RoutesAreDistinct /\ \A r \in Requests : Shared(r)!Init
  <2> SUFFICES ASSUME Init PROVE RoutesAreDistinct /\ \A r \in Requests : Shared(r)!Init
    OBVIOUS
  <2>1. RoutesAreDistinct
    BY DEF Init, RoutesAreDistinct, NothingTwice, NoRoute, Distinct, Selecting
  <2>2. ASSUME NEW r \in Requests PROVE Shared(r)!Init
    <3>1. route[r].st = "none" /\ route[r].index = 1
      BY DEF Init, NoRoute
    <3>2. \A c \in Callers[r] : StageOf(thread[r][c]) = "idle" /\ Noted(r, c) = 0
      BY DEF Init, NoCall, StageOf, Noted
    <3> QED BY <3>1, <3>2 DEF Shared!Init
  <2> QED BY <2>1, <2>2
<1>2. RoutingInv /\ RoutesAreDistinct /\ [Next]_vars => RoutesAreDistinct'
  BY RoutesStayDistinct
<1>3. RoutingInv /\ RoutingInv' /\ RoutesAreDistinct /\ [Next]_vars =>
        [\A r \in Requests : <<route[r], thread[r]>>' # <<route[r], thread[r]>> =>
           [Shared(r)!Next]_(Shared(r)!routeVars)]_vars
  <2> SUFFICES ASSUME RoutingInv, RoutingInv', RoutesAreDistinct, [Next]_vars, NEW r \in Requests,
                      <<route[r], thread[r]>>' # <<route[r], thread[r]>>
               PROVE  [Shared(r)!Next]_(Shared(r)!routeVars)
    OBVIOUS
  <2>1. CASE Select(r) \/ \E workload \in Workloads : SelectRoute(r, workload)
    BY <2>1, SelectionFollows
  <2>2. ASSUME NEW c \in Callers[r], BeginCall(r, c) \/ ReadRoute(r, c) \/ Send(r, c)
        PROVE  [Shared(r)!Next]_(Shared(r)!routeVars)
    BY <2>2, CallingFollows DEF Shared!Next
  <2>3. ASSUME NEW c \in Callers[r],
               \/ \E tokens \in Usages : Charge(r, c, tokens)
               \/ RecordSuccess(r, c) \/ FailForGood(r, c)
        PROVE  [Shared(r)!Next]_(Shared(r)!routeVars)
    BY <2>3, EndingFollows
  <2>4. ASSUME NEW c \in Callers[r], NEW category \in Categories, NEW hint \in Hints,
               FailOver(r, c, category, hint)
        PROVE  [Shared(r)!Next]_(Shared(r)!routeVars)
    BY <2>4, FailOverFollows DEF Shared!Next
  <2> QED BY <2>1, <2>2, <2>3, <2>4, OwnSteps, Zenon DEF Call
<1> QED BY <1>1, <1>2, <1>3, RoutingHolds, PTL DEF Spec, RoutesAreFollowed
=============================================================================
