----------------------------- MODULE ProviderCall -----------------------------
(***************************************************************************)
(* One provider call with failover: invoke_with_failover of                *)
(* src/generation/llm_factory.py and advance_route of                      *)
(* src/generation/llm_routing.py, made by the threads of one request that  *)
(* share its LLMRoute and its ExecutionBudget.                             *)
(*                                                                         *)
(* A call starts with a permit its caller reserved.  The thread reads the  *)
(* route to note whom it is about to call, reads it again while building   *)
(* the client, sends, and on a retryable failure moves the shared route    *)
(* under _ROUTE_LOCK and reserves another permit for the next attempt.     *)
(* Prompts, payloads and timeouts are left out; what a caller learns is    *)
(* whether the call was answered, failed, or was refused a permit.         *)
(***************************************************************************)
EXTENDS ExecutionBudget

CONSTANT NumProviders   \* len(route.candidates); 1 for a static route

ASSUME NumProvidersAssumption == NumProviders \in Nat \ {0}

\* The graph thread, and the pool thread running a speculative draft.
Threads == {"node", "draft"}

VARIABLES
  route_index,   \* LLMRoute.index, counted from 1
  call,          \* what each thread is doing with a provider
  calls_made,    \* history: provider calls actually sent
  forgiven       \* history: slots handed back for calls that were sent

routeVars == <<route_index, call, calls_made, forgiven>>

CallStates == {"idle", "permit", "routed", "sent", "failover",
               "answered", "failed", "refused"}

\* attempt: attempt_provider; callee: the provider build_once resolved.
CallRecord == [st : CallStates, attempt : 0..NumProviders, callee : 0..NumProviders]

NoCall == [st |-> "idle", attempt |-> 0, callee |-> 0]
Permit == [st |-> "permit", attempt |-> 0, callee |-> 0]

CallTypeOK ==
  /\ route_index \in 1..NumProviders
  /\ call \in [Threads -> CallRecord]
  /\ calls_made \in Nat
  /\ forgiven \in Nat

CallInit ==
  /\ route_index = 1
  /\ call = [t \in Threads |-> NoCall]
  /\ calls_made = 0
  /\ forgiven = 0

\* Threads that hold a slot for a call not yet sent.
Holders == {t \in Threads : call[t].st \in {"permit", "routed"}}

Returned(t) == call[t].st \in {"answered", "failed", "refused"}

-----------------------------------------------------------------------------
\* Mutations.
ClaimFallbackFree(t) ==
  /\ call[t].st = "failover"
  /\ call' = [call EXCEPT ![t] = Permit]
  /\ UNCHANGED <<budgetVars, route_index, calls_made, forgiven>>

RefuseFallbackSilently(t) ==
  /\ call[t].st = "failover"
  /\ ~Admits
  /\ call' = [call EXCEPT ![t].st = "failover"]
  /\ UNCHANGED <<budgetVars, route_index, calls_made, forgiven>>
-----------------------------------------------------------------------------

\* attempt_provider = route.provider, read at the top of the loop.
ReadRoute(t) ==
  /\ call[t].st = "permit"
  /\ call' = [call EXCEPT ![t] = [st |-> "routed", attempt |-> route_index, callee |-> 0]]
  /\ UNCHANGED <<budgetVars, route_index, calls_made, forgiven>>

\* build_once resolves the provider from the route again, and the call goes out.
Send(t) ==
  /\ call[t].st = "routed"
  /\ call' = [call EXCEPT ![t].st = "sent", ![t].callee = route_index]
  /\ calls_made' = calls_made + 1
  /\ UNCHANGED <<budgetVars, route_index, forgiven>>

Answer(t) ==
  /\ call[t].st = "sent"
  /\ call' = [call EXCEPT ![t].st = "answered"]
  /\ UNCHANGED <<budgetVars, route_index, calls_made, forgiven>>

\* advance_route returned False: the error is not retryable, or no candidate is left.
Fail(t) ==
  /\ call[t].st = "sent"
  /\ call' = [call EXCEPT ![t].st = "failed"]
  /\ UNCHANGED <<budgetVars, route_index, calls_made, forgiven>>

AdvanceInPlace(t) ==
  /\ call[t].st = "sent"
  /\ call' = [call EXCEPT ![t].st = "failover"]
  /\ UNCHANGED <<budgetVars, route_index, calls_made, forgiven>>

(***************************************************************************)
(* advance_route returned True.  If the route already left the provider    *)
(* this thread blames, it stays where it is; otherwise it moves on, past   *)
(* candidates that are cooling down but never past the last one.           *)
(***************************************************************************)
AdvanceRoute(t) ==
  /\ call[t].st = "sent"
  /\ \/ /\ call[t].attempt # route_index
        /\ UNCHANGED route_index
     \/ /\ call[t].attempt = route_index
        /\ route_index' \in (route_index + 1)..NumProviders
  /\ call' = [call EXCEPT ![t].st = "failover"]
  /\ UNCHANGED <<budgetVars, calls_made, forgiven>>

\* A switch is another real attempt: reserve_llm_call("provider_fallback").
ClaimFallback(t) ==
  /\ call[t].st = "failover"
  /\ ReserveCall
  /\ call' = [call EXCEPT ![t] = Permit]
  /\ UNCHANGED <<route_index, calls_made, forgiven>>

\* The reservation is refused; ExecutionBudgetExceeded leaves the chain.
RefuseFallback(t) ==
  /\ call[t].st = "failover"
  /\ RefuseCall
  /\ call' = [call EXCEPT ![t].st = "refused"]
  /\ UNCHANGED <<route_index, calls_made, forgiven>>

CallStep(t) ==
  \/ ReadRoute(t) \/ Send(t) \/ Answer(t) \/ Fail(t)
  \/ AdvanceRoute(t) \/ ClaimFallback(t) \/ RefuseFallback(t)
=============================================================================
