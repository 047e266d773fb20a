------------------------------ MODULE Reranking ------------------------------
(***************************************************************************)
(* ConfiguredReranker of reranking/provider.py: a pass of the configured   *)
(* reranker over the candidates of each query, run by the threads that     *)
(* serve them.  A hosted provider may only order; the local cross-encoder  *)
(* gives every candidate its confidence, in a pass that may be overlapped  *)
(* with the request to the provider.  What the pass returns is reduced to  *)
(* whose order and whose scores it carries.                                *)
(***************************************************************************)
EXTENDS LocalModels

CONSTANTS
  MaxRetries,        \* hosted_rerank_max_retries
  PrescoreWorkers    \* max_workers of _prescore_executor

Hosted == {"voyage", "cohere"}

VARIABLES
  reranking,    \* where each query is in rerank_with_diagnostics, and its result
  prescore,     \* the overlapped scoring of each query
  cooling,      \* _cooling_until: the providers it is still ahead of
  adapters      \* _hosted_instances, and how many were ever built

rerankVars == <<reranking, prescore, cooling, adapters>>

PassStates == {"idle", "start", "local", "chain", "adapter", "build", "request", "used",
               "confirm", "fallback", "done"}
PrescoreStates == {"none", "queued", "running", "done"}

Result(used, order, scores, actual, fallback) ==
  [used |-> used, order |-> order, scores |-> scores, actual |-> actual, fallback |-> fallback]
Results == [used : BOOLEAN, order : {"rrf", "hosted", "bge"}, scores : {"none", "bge"},
            actual : Hosted \cup {"local", "rrf"}, fallback : BOOLEAN]
Untouched(actual, fallback) == Result(FALSE, "rrf", "none", actual, fallback)

\* _hosted_chain, without repeats and without "local".
Hosting(p) == IF p = "local" THEN <<>> ELSE <<p>>
Chain ==
  IF settings.second \in {"none", settings.provider}
  THEN Hosting(settings.provider)
  ELSE Hosting(settings.provider) \o Hosting(settings.second)

RerankTypeOK ==
  /\ reranking \in [Queries -> [pc : PassStates, at : 1..3, retries : 0..MaxRetries,
                                result : Results \cup {None}]]
  /\ prescore \in [Queries -> PrescoreStates]
  /\ cooling \subseteq Hosted
  /\ adapters \in [Hosted -> [registered : BOOLEAN, built : Nat]]

AtRest == [pc |-> "idle", at |-> 1, retries |-> 0, result |-> None]

RerankInit ==
  /\ reranking = [q \in Queries |-> AtRest]
  /\ prescore = [q \in Queries |-> "none"]
  /\ cooling = {}
  /\ adapters = [p \in Hosted |-> [registered |-> FALSE, built |-> 0]]

Own(q) == <<q, "own">>
Pool(q) == <<q, "pool">>
At(q, pc) == reranking[q].pc = pc
Goes(q, pc) == reranking' = [reranking EXCEPT ![q].pc = pc]
Returns(q, result) ==
  reranking' = [reranking EXCEPT ![q].pc = "done", ![q].result = result]
Asked(q) == Chain[reranking[q].at]

\* rerank_with_diagnostics scores, and orders by the scores; its twin only scores.
ScoresItself(q, pc) == Goes(q, pc) /\ BeginScoring(Own(q))
Scored(s) == scoring[s] = "scored"
Ended(s) == scoring[s] \in {"scored", "degraded"}

-----------------------------------------------------------------------------
\* Mutations.
ConfirmAnyway(q) ==
  /\ At(q, "confirm") /\ Ended(Own(q))
  /\ Returns(q, Result(TRUE, "hosted", IF Scored(Own(q)) THEN "bge" ELSE "none", Asked(q),
                       Asked(q) # settings.provider))
  /\ UNCHANGED <<settings, modelVars, prescore, cooling, adapters>>

GiveUpAtOnce(q) ==
  /\ At(q, "chain") /\ reranking[q].at > Len(Chain)
  /\ IF settings.backstop = "local"
     THEN ScoresItself(q, "fallback")
     ELSE Returns(q, Untouched("rrf", TRUE)) /\ UNCHANGED <<loader, scoring>>
  /\ UNCHANGED <<settings, embedding, cross_encoder, free, embedder, loads, prescore, cooling,
                 adapters>>

-----------------------------------------------------------------------------
StartRerank(q) ==
  /\ At(q, "start")
  /\ IF ~settings.enabled
     THEN Returns(q, Untouched("rrf", FALSE)) /\ UNCHANGED <<loader, scoring>>
     ELSE IF settings.provider = "local"
     THEN ScoresItself(q, "local")
     ELSE Goes(q, "chain") /\ UNCHANGED <<loader, scoring>>
  /\ UNCHANGED <<settings, embedding, cross_encoder, free, embedder, loads, prescore, cooling,
                 adapters>>

\* One turn of the loop over the chain, up to the adapter: a provider without
\* permission or key is passed over, and one that cools down.
TryProvider(q) ==
  LET blocked == \/ Asked(q) \notin settings.remote
                 \/ settings.cooldown /\ Asked(q) \in cooling IN
  /\ At(q, "chain") /\ reranking[q].at <= Len(Chain)
  /\ IF blocked
     THEN reranking' = [reranking EXCEPT ![q].at = @ + 1] /\ UNCHANGED prescore
     ELSE /\ Goes(q, "adapter")
          /\ prescore' = IF settings.overlap /\ prescore[q] = "none"
                         THEN [prescore EXCEPT ![q] = "queued"] ELSE prescore
  /\ UNCHANGED <<settings, modelVars, cooling, adapters>>

LookAtAdapter(q) ==
  /\ At(q, "adapter")
  /\ Goes(q, IF adapters[Asked(q)].registered THEN "request" ELSE "build")
  /\ UNCHANGED <<settings, modelVars, prescore, cooling, adapters>>

\* Under _voyage_lock, which nobody keeps.
BuildAdapter(q) ==
  /\ At(q, "build")
  /\ adapters' = IF adapters[Asked(q)].registered THEN adapters
                 ELSE [adapters EXCEPT ![Asked(q)] =
                         [registered |-> TRUE, built |-> @.built + 1]]
  /\ Goes(q, "request")
  /\ UNCHANGED <<settings, modelVars, prescore, cooling>>

\* A usable order came back; _record_hosted_outcome ends the cooldown.
HostedOrders(q) ==
  /\ At(q, "request")
  /\ cooling' = cooling \ {Asked(q)}
  /\ Goes(q, "used")
  /\ UNCHANGED <<settings, modelVars, prescore, adapters>>

\* A timeout, an unreachable server or a refused rate is tried again, and puts the
\* provider on a cooldown when the tries are over.
HostedOutage(q) ==
  /\ At(q, "request")
  /\ IF reranking[q].retries < MaxRetries
     THEN reranking' = [reranking EXCEPT ![q].retries = @ + 1] /\ UNCHANGED cooling
     ELSE /\ reranking' = [reranking EXCEPT ![q].pc = "chain", ![q].at = @ + 1,
                                            ![q].retries = 0]
          /\ cooling' = cooling \cup {Asked(q)}
  /\ UNCHANGED <<settings, modelVars, prescore, adapters>>

\* A rejected request or a malformed answer is neither.
HostedRefusal(q) ==
  /\ At(q, "request")
  /\ reranking' = [reranking EXCEPT ![q].pc = "chain", ![q].at = @ + 1, ![q].retries = 0]
  /\ UNCHANGED <<settings, modelVars, prescore, cooling, adapters>>

CooldownEnds(p) ==
  /\ p \in cooling
  /\ cooling' = cooling \ {p}
  /\ UNCHANGED <<settings, modelVars, reranking, prescore, adapters>>

\* _await_prescore: the result of the overlapped pass is there, or none was begun.
Collected(q) == prescore[q] \in {"none", "done"}

\* _score_voyage_order_with_bge.
UsePrescore(q) ==
  /\ At(q, "used") /\ Collected(q)
  /\ IF prescore[q] = "done" /\ Scored(Pool(q))
     THEN /\ Returns(q, Result(TRUE, "hosted", "bge", Asked(q),
                               Asked(q) # settings.provider))
          /\ UNCHANGED <<loader, scoring>>
     ELSE ScoresItself(q, "confirm")
  /\ UNCHANGED <<settings, embedding, cross_encoder, free, embedder, loads, prescore, cooling,
                 adapters>>

Confirm(q) ==
  /\ At(q, "confirm") /\ Ended(Own(q))
  /\ IF Scored(Own(q))
     THEN /\ Returns(q, Result(TRUE, "hosted", "bge", Asked(q),
                               Asked(q) # settings.provider))
          /\ UNCHANGED <<loader, scoring>>
     ELSE ScoresItself(q, "fallback")
  /\ UNCHANGED <<settings, embedding, cross_encoder, free, embedder, loads, prescore, cooling,
                 adapters>>

GiveUpOnHosted(q) ==
  /\ At(q, "chain") /\ reranking[q].at > Len(Chain) /\ Collected(q)
  /\ IF settings.backstop = "local"
     THEN ScoresItself(q, "fallback")
     ELSE Returns(q, Untouched("rrf", TRUE)) /\ UNCHANGED <<loader, scoring>>
  /\ UNCHANGED <<settings, embedding, cross_encoder, free, embedder, loads, prescore, cooling,
                 adapters>>

LocalResult(q) ==
  /\ (At(q, "local") \/ At(q, "fallback")) /\ Ended(Own(q))
  /\ Returns(q, IF Scored(Own(q))
                THEN Result(TRUE, "bge", "bge", "local", At(q, "fallback"))
                ELSE Untouched("local", At(q, "fallback")))
  /\ UNCHANGED <<settings, modelVars, prescore, cooling, adapters>>

-----------------------------------------------------------------------------
(***************************************************************************)
(* The workers of the pre-score pool.                                      *)
(***************************************************************************)
StartPrescore(q) ==
  /\ prescore[q] = "queued"
  /\ Cardinality({r \in Queries : prescore[r] = "running"}) < PrescoreWorkers
  /\ prescore' = [prescore EXCEPT ![q] = "running"]
  /\ BeginScoring(Pool(q))
  /\ UNCHANGED <<settings, embedding, cross_encoder, free, embedder, loads, reranking, cooling,
                 adapters>>

EndPrescore(q) ==
  /\ prescore[q] = "running" /\ Ended(Pool(q))
  /\ prescore' = [prescore EXCEPT ![q] = "done"]
  /\ UNCHANGED <<settings, modelVars, reranking, cooling, adapters>>

RerankStep(q) ==
  \/ StartRerank(q) \/ TryProvider(q) \/ LookAtAdapter(q) \/ BuildAdapter(q)
  \/ HostedOrders(q) \/ HostedOutage(q) \/ HostedRefusal(q)
  \/ UsePrescore(q) \/ Confirm(q) \/ GiveUpOnHosted(q) \/ LocalResult(q)

PrescoreStep(q) == StartPrescore(q) \/ EndPrescore(q)
=============================================================================
