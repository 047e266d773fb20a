----------------------------- MODULE LLMRouting -----------------------------
(***************************************************************************)
(* generation/llm_routing.py and generation/rate_limit.py: the routes of   *)
(* the requests of one process, and the two tallies they share, the        *)
(* cooldowns of PROVIDER_HEALTH and the token budgets; with the loop of    *)
(* invoke_with_failover (generation/llm_factory.py) that uses them.        *)
(* ProviderCall is the same loop seen by one request and its budget.       *)
(*                                                                         *)
(* A route is chosen by reading one provider after the other while other   *)
(* requests record failures and answers.  The two threads of a request     *)
(* then share it.  A cooldown is the time it ends; its category is left    *)
(* out, and so is the removal of an entry that has expired.  A tally is    *)
(* the tokens charged at each time; what is older than a day is pruned,    *)
(* which no sum can see.                                                   *)
(***************************************************************************)
EXTENDS Naturals, Sequences, FiniteSetsExt

CONSTANTS
  Requests,
  Callers,            \* the threads of each request that call providers
  Settings,           \* the settings the process may be started with
  Cooldown,           \* _COOLDOWN_S: category -> time, 0 for none
  Hints,              \* Retry-After values; 0 for none
  MaxRetryAfter,      \* _MAX_RETRY_AFTER_S
  Minute, Day,        \* the two windows
  TokensPerMinute, TokensPerDay,   \* the published limits, 0 when unknown
  Estimate,           \* llm_estimated_tokens_per_call
  Usages,             \* what a call may turn out to cost
  MaxTime             \* a bound: the clock stops there

Hosted == {"groq", "gemini", "openrouter"}
Local == "ollama"
Providers == Hosted \cup {Local}
Budgeted == {"groq"}   \* _limits_from

Categories == DOMAIN Cooldown
Workloads == {"normal", "evaluation"}

ASSUME RoutingAssumption ==
  /\ Cooldown \in [Categories -> Nat] /\ Hints \subseteq Nat /\ MaxRetryAfter \in Nat
  /\ Minute \in Nat /\ Day \in Nat /\ Minute <= Day /\ Usages \subseteq Nat
  /\ TokensPerMinute \in Nat /\ TokensPerDay \in Nat /\ Estimate \in Nat
  /\ MaxTime \in Nat
  /\ Settings \subseteq [mode : {"static", "dynamic"}, chosen : Providers,
                         keys : SUBSET Hosted, local_only : BOOLEAN,
                         local_fallback : BOOLEAN, cooldowns : BOOLEAN, budgets : BOOLEAN]

VARIABLES
  settings,
  now,        \* time.monotonic
  until,      \* PROVIDER_HEALTH._until, 0 for a provider without an entry
  spent,      \* the token tally of each budgeted provider
  route,      \* the LLMRoute of each request, and how far its selection is
  thread,     \* what each thread of each request does with a provider
  failed_at   \* history: the providers whose calls failed, for each request

vars == <<settings, now, until, spent, route, thread, failed_at>>

RouteStates == {"none", "cooling", "budget", "remaining", "routed"}
ThreadStates == {"idle", "permit", "routed", "sent", "charged", "answered", "failed"}

\* pool is the candidates whose health is being read; of them, candidates were
\* found healthy and skipped were not; left is what min() has read of them.
NoRoute == [st |-> "none", workload |-> "normal", breaker |-> FALSE, probe |-> FALSE,
            pool |-> <<>>, candidates |-> <<>>, skipped |-> {}, left |-> <<>>, index |-> 1]
\* sends is a history field: how often the call has been sent.
NoCall == [st |-> "idle", attempt |-> "none", callee |-> "none", sends |-> 0]

TypeOK ==
  /\ settings \in Settings /\ now \in 0..MaxTime
  /\ until \in [Providers -> Nat]
  /\ spent \in [Budgeted -> [0..MaxTime -> Nat]]
  /\ \A r \in Requests :
       /\ DOMAIN route[r] = DOMAIN NoRoute
       /\ route[r].st \in RouteStates /\ route[r].workload \in Workloads
       /\ route[r].candidates \in Seq(Providers) /\ route[r].skipped \subseteq Providers
       /\ route[r].st = "routed" => route[r].index \in DOMAIN route[r].candidates
  /\ \A r \in Requests :
       thread[r] \in [Callers[r] -> [st : ThreadStates, attempt : Providers \cup {"none"},
                                     callee : Providers \cup {"none"}, sends : Nat]]
  /\ failed_at \in [Requests -> SUBSET Providers]

Retry(r, c) == [NoCall EXCEPT !.st = "permit", !.sends = thread[r][c].sends]
Failed == [NoCall EXCEPT !.st = "failed"]

Init ==
  /\ settings \in Settings
  /\ now = 0
  /\ until = [p \in Providers |-> 0]
  /\ spent = [p \in Budgeted |-> [t \in 0..MaxTime |-> 0]]
  /\ route = [r \in Requests |-> NoRoute]
  /\ thread = [r \in Requests |-> [c \in Callers[r] |-> NoCall]]
  /\ failed_at = [r \in Requests |-> {}]

-----------------------------------------------------------------------------
\* Mutations.
BreakerAlwaysApplies(workload) == settings.cooldowns

AdvanceTwice(r, c, blamed, category, hint) ==
  LET p == route[r].candidates[route[r].index] IN
  /\ until' = IF settings.mode = "dynamic" /\ route[r].breaker /\ Cooldown[category] > 0
              THEN [until EXCEPT ![p] = now + Cooldown[category]] ELSE until
  /\ IF settings.mode = "dynamic" /\ route[r].index < Len(route[r].candidates)
     THEN /\ route' = [route EXCEPT ![r].index = @ + 1]
          /\ thread' = [thread EXCEPT ![r][c] = Retry(r, c)]
     ELSE /\ thread' = [thread EXCEPT ![r][c] = Failed]
          /\ UNCHANGED route

ReadRemainingOfAll(r) ==
  /\ route[r].st = "remaining"
  /\ route' = [route EXCEPT ![r].st = "routed", ![r].candidates = route[r].pool,
                            ![r].probe = TRUE]
  /\ UNCHANGED <<settings, now, until, spent, thread, failed_at>>

-----------------------------------------------------------------------------
(***************************************************************************)
(* The shared tallies.  Each operation runs under its own lock.            *)
(***************************************************************************)
Cooling(p) == now < until[p]
Remaining(p) == IF Cooling(p) THEN until[p] - now ELSE 0

\* record_failure: the provider's hint may lengthen the cooldown, up to a cap.
CooldownAfter(category, hint) == Max({Cooldown[category], Min({hint, MaxRetryAfter})})
RecordFailure(p, category, hint) ==
  IF Cooldown[category] = 0 THEN until
  ELSE [until EXCEPT ![p] = now + CooldownAfter(category, hint)]

\* TokenBudget._spent: what was charged within the last `window`.
Spent(p, window) ==
  MapThenSumSet(LAMBDA t : spent[p][t], {t \in 0..now : t + window >= now})

\* budget_status: a limit of zero is unknown and never blocks.
OverBudget(p) ==
  /\ settings.budgets /\ p \in Budgeted
  /\ \/ TokensPerDay > 0 /\ Spent(p, Day) + Estimate > TokensPerDay
     \/ TokensPerMinute > 0 /\ Spent(p, Minute) + Estimate > TokensPerMinute

-----------------------------------------------------------------------------
(***************************************************************************)
(* select_route.                                                           *)
(***************************************************************************)
\* The hosted providers with a key, in their order; Ollama when allowed, or when
\* there is nothing else.
WithKey(p) == IF p \in settings.keys THEN <<p>> ELSE <<>>
Candidates ==
  LET hosted == WithKey("groq") \o WithKey("gemini") \o WithKey("openrouter") IN
  IF hosted = <<>> \/ settings.local_fallback THEN Append(hosted, Local) ELSE hosted

BreakerApplies(workload) == settings.cooldowns /\ workload = "normal"

Becomes(r, new) == route' = [route EXCEPT ![r] = new]

SelectRoute(r, workload) ==
  /\ route[r].st = "none"
  /\ LET fresh == [NoRoute EXCEPT !.st = "routed", !.workload = workload] IN
     CASE settings.mode = "static" -> Becomes(r, [fresh EXCEPT !.candidates = <<settings.chosen>>])
       [] settings.mode = "dynamic" /\ settings.local_only ->
            Becomes(r, [fresh EXCEPT !.candidates = <<Local>>])
       [] settings.mode = "dynamic" /\ ~settings.local_only /\ ~BreakerApplies(workload) ->
            Becomes(r, [fresh EXCEPT !.candidates = Candidates])
       [] OTHER -> Becomes(r, [fresh EXCEPT !.st = "cooling", !.breaker = TRUE,
                                            !.pool = Candidates])
  /\ UNCHANGED <<settings, now, until, spent, thread, failed_at>>

\* How many candidates have been looked at, and the one being looked at.
Seen(r) == Len(route[r].candidates) + Cardinality(route[r].skipped)
Looking(r) == route[r].pool[Seen(r) + 1]
Looked(r, new) ==
  LET seen == Len(new.candidates) + Cardinality(new.skipped) IN
  IF seen < Len(new.pool) THEN [new EXCEPT !.st = "cooling"]
  ELSE IF new.candidates # <<>> THEN [new EXCEPT !.st = "routed", !.pool = <<>>]
  ELSE [new EXCEPT !.st = "remaining"]

LookAtCooldown(r) ==
  /\ route[r].st = "cooling"
  /\ IF Cooling(Looking(r))
     THEN Becomes(r, Looked(r, [route[r] EXCEPT !.skipped = @ \cup {Looking(r)}]))
     ELSE Becomes(r, [route[r] EXCEPT !.st = "budget"])
  /\ UNCHANGED <<settings, now, until, spent, thread, failed_at>>

LookAtBudget(r) ==
  /\ route[r].st = "budget"
  /\ IF OverBudget(Looking(r))
     THEN Becomes(r, Looked(r, [route[r] EXCEPT !.skipped = @ \cup {Looking(r)}]))
     ELSE Becomes(r, Looked(r, [route[r] EXCEPT !.candidates = Append(@, Looking(r))]))
  /\ UNCHANGED <<settings, now, until, spent, thread, failed_at>>

\* Nobody is healthy: min() reads how long each one still cools, and the first of
\* those due back soonest is the whole route.
SoonestOf(pool, left) ==
  pool[Min({i \in DOMAIN pool : \A j \in DOMAIN pool : left[i] <= left[j]})]

ReadRemaining(r) ==
  /\ route[r].st = "remaining"
  /\ LET left == Append(route[r].left, Remaining(route[r].pool[Len(route[r].left) + 1])) IN
     IF Len(left) < Len(route[r].pool) THEN Becomes(r, [route[r] EXCEPT !.left = left])
     ELSE LET probe == SoonestOf(route[r].pool, left) IN
          Becomes(r, [route[r] EXCEPT !.st = "routed", !.candidates = <<probe>>, !.pool = <<>>,
                                      !.skipped = @ \ {probe}, !.left = <<>>, !.probe = TRUE])
  /\ UNCHANGED <<settings, now, until, spent, thread, failed_at>>

-----------------------------------------------------------------------------
(***************************************************************************)
(* invoke_with_failover.                                                   *)
(***************************************************************************)
Provider(r) == route[r].candidates[route[r].index]
CanFallback(r) == settings.mode = "dynamic" /\ route[r].index < Len(route[r].candidates)
Goes(r, c, to) == thread' = [thread EXCEPT ![r][c] = to]

BeginCall(r, c) ==
  /\ route[r].st = "routed" /\ thread[r][c].st = "idle"
  /\ Goes(r, c, [NoCall EXCEPT !.st = "permit"])
  /\ UNCHANGED <<settings, now, until, spent, route, failed_at>>

\* attempt_provider, read at the top of the loop.
ReadRoute(r, c) ==
  /\ thread[r][c].st = "permit"
  /\ Goes(r, c, [thread[r][c] EXCEPT !.st = "routed", !.attempt = Provider(r)])
  /\ UNCHANGED <<settings, now, until, spent, route, failed_at>>

\* The client is built for the provider the route names by then.
Send(r, c) ==
  /\ thread[r][c].st = "routed"
  /\ Goes(r, c, [thread[r][c] EXCEPT !.st = "sent", !.callee = Provider(r), !.sends = @ + 1])
  /\ UNCHANGED <<settings, now, until, spent, route, failed_at>>

\* record_usage, then record_provider_success, for the provider read first.
Charge(r, c, tokens) ==
  /\ thread[r][c].st = "sent"
  /\ Goes(r, c, [thread[r][c] EXCEPT !.st = "charged"])
  /\ LET p == thread[r][c].attempt IN
     IF p \in Budgeted THEN spent' = [spent EXCEPT ![p][now] = @ + tokens]
                       ELSE UNCHANGED spent
  /\ UNCHANGED <<settings, now, until, route, failed_at>>

RecordSuccess(r, c) ==
  /\ thread[r][c].st = "charged"
  /\ Goes(r, c, [NoCall EXCEPT !.st = "answered"])
  /\ until' = [until EXCEPT ![thread[r][c].attempt] = 0]
  /\ UNCHANGED <<settings, now, spent, route, failed_at>>

\* From the next candidate on, the first that is not cooling, or the last one.
FirstWarm(r, from, cooled) ==
  LET n == Len(route[r].candidates) IN
  Min({n} \cup {i \in from..n : ~(now < cooled[route[r].candidates[i]])})

(***************************************************************************)
(* advance_route after a failure that permits failover, under _ROUTE_LOCK, *)
(* a lock of the whole process.  `blamed` is the provider read before the  *)
(* call.  A route that has already left it stays where it is.              *)
(***************************************************************************)
AdvanceRoute(r, c, blamed, category, hint) ==
  LET breaker == settings.mode = "dynamic" /\ route[r].breaker
      benched == IF breaker THEN RecordFailure(blamed, category, hint) ELSE until
      next == IF breaker THEN FirstWarm(r, route[r].index + 1, benched)
                         ELSE route[r].index + 1
  IN
  /\ until' = benched
  /\ \/ /\ blamed # Provider(r)
        /\ Goes(r, c, IF settings.mode = "dynamic" THEN Retry(r, c) ELSE Failed)
        /\ UNCHANGED route
     \/ /\ blamed = Provider(r) /\ CanFallback(r)
        /\ Becomes(r, [route[r] EXCEPT !.index = next,
             !.skipped = @ \cup {route[r].candidates[i] : i \in route[r].index + 1 .. next - 1}])
        /\ Goes(r, c, Retry(r, c))
     \/ /\ blamed = Provider(r) /\ ~CanFallback(r)
        /\ Goes(r, c, Failed)
        /\ UNCHANGED route

FailOver(r, c, category, hint) ==
  /\ thread[r][c].st = "sent"
  /\ failed_at' = [failed_at EXCEPT ![r] = @ \cup {thread[r][c].callee}]
  /\ AdvanceRoute(r, c, thread[r][c].attempt, category, hint)
  /\ UNCHANGED <<settings, now, spent>>

\* is_retryable_provider_error returned None: the exception leaves the call.
FailForGood(r, c) ==
  /\ thread[r][c].st = "sent"
  /\ failed_at' = [failed_at EXCEPT ![r] = @ \cup {thread[r][c].callee}]
  /\ Goes(r, c, Failed)
  /\ UNCHANGED <<settings, now, until, spent, route>>

Tick ==
  /\ now < MaxTime
  /\ now' = now + 1
  /\ UNCHANGED <<settings, until, spent, route, thread, failed_at>>

-----------------------------------------------------------------------------
Select(r) ==
  \/ LookAtCooldown(r) \/ LookAtBudget(r) \/ ReadRemaining(r)

Call(r, c) ==
  \/ ReadRoute(r, c) \/ Send(r, c) \/ RecordSuccess(r, c) \/ FailForGood(r, c)
  \/ \E tokens \in Usages : Charge(r, c, tokens)
  \/ \E category \in Categories, hint \in Hints : FailOver(r, c, category, hint)

Next ==
  \/ Tick
  \/ \E r \in Requests :
       \/ \E workload \in Workloads : SelectRoute(r, workload)
       \/ Select(r)
       \/ \E c \in Callers[r] : BeginCall(r, c) \/ Call(r, c)

Spec == Init /\ [][Next]_vars
-----------------------------------------------------------------------------
(***************************************************************************)
(* Properties.                                                             *)
(***************************************************************************)
\* A route leaves behind only providers that failed a call of its own request, or
\* that it found cooling: of two calls that fail together on one provider, the
\* second does not make the request give up the next one untried (the
\* failed_provider argument of advance_route).
NoCandidatePassedUntried ==
  \A r \in Requests : route[r].st = "routed" =>
    \A i \in 1..route[r].index - 1 :
      route[r].candidates[i] \in failed_at[r] \cup route[r].skipped

\* A provider is benched only if a call to it failed: not under the error of a
\* provider that another call of the request had already left (_advance_locked).
CoolingIsDeserved ==
  \A p \in Providers : until[p] > 0 => \E r \in Requests : p \in failed_at[r]

\* The route of an evaluation is the configured one, whatever other requests of
\* the process met (_breaker_applies): it skips nobody, and visits its candidates
\* one after the other.
EvaluationIsComparable ==
  \A r \in Requests : route[r].st # "none" /\ route[r].workload = "evaluation" =>
    /\ route[r].st = "routed" /\ route[r].skipped = {}
    /\ settings.mode = "dynamic" /\ ~settings.local_only => route[r].candidates = Candidates

\* A call is sent at most once for each candidate of the route, so a failover does
\* not go round for ever, although one whose provider another thread has already
\* left does not move the route; and when every candidate is cooling or out of
\* tokens a call costs one attempt (select_route), whatever the tallies have become
\* since.
CallsAreBounded ==
  \A r \in Requests : route[r].st = "routed" =>
    \A c \in Callers[r] :
      thread[r][c].sends <= IF route[r].probe THEN 1 ELSE Len(route[r].candidates)

(***************************************************************************)
(* The calls of each request implement FailoverRoute, whatever cools down  *)
(* or runs out of tokens meanwhile: it is what ProviderCall, where the     *)
(* route goes forward by any distance, assumes of a route.                 *)
(***************************************************************************)
IndexOf(candidates, p) == CHOOSE i \in DOMAIN candidates : candidates[i] = p

StageOf(call) ==
  CASE call.st = "permit" -> "ready"
    [] call.st = "routed" -> "noted"
    [] call.st \in {"charged", "answered", "failed"} -> "over"
    [] OTHER -> call.st

Noted(r, c) ==
  IF thread[r][c].st \in {"routed", "sent"}
  THEN IndexOf(route[r].candidates, thread[r][c].attempt) ELSE 0

Shared(r) == INSTANCE FailoverRoute WITH
  Callers <- Callers[r],
  length <- IF route[r].st = "routed" THEN Len(route[r].candidates) ELSE 0,
  position <- route[r].index,
  stage <- [c \in Callers[r] |-> StageOf(thread[r][c])],
  noted <- [c \in Callers[r] |-> Noted(r, c)]

\* Shared(r)!Spec for every request: a step that leaves its route and its threads alone
\* stutters.
RoutesAreFollowed ==
  /\ \A r \in Requests : Shared(r)!Init
  /\ [][\A r \in Requests : <<route[r], thread[r]>>' # <<route[r], thread[r]>> =>
         [Shared(r)!Next]_(Shared(r)!routeVars)]_vars

\* `failed_provider` is the provider the failing call actually used, says
\* advance_route of its argument.
BlameIsTrue ==
  \A r \in Requests : \A c \in Callers[r] :
    thread[r][c].st = "sent" => thread[r][c].attempt = thread[r][c].callee
=============================================================================
