----------------------------- MODULE QueryService -----------------------------
(***************************************************************************)
(* The API process around one pass of the graph: the lifespan of           *)
(* api/main.py with its warm-up threads, /query, /admin/warmup and the     *)
(* model checks of /ready, and the counters of api/observability.py.       *)
(* Admission itself is QueryAdmission, what the graph does after reranking *)
(* SelfHealingGraph, and the corpus indexes CorpusIndex: here a query is   *)
(* admitted or not, and ends as the graph may end.                         *)
(***************************************************************************)
EXTENDS Reranking

CONSTANT AdminWarmups    \* bound: calls of /admin/warmup

ASSUME ServiceAssumption ==
  /\ IsFiniteSet(Queries) /\ None \notin Threads \cup Results
  /\ MaxConcurrency \in Nat /\ MaxRetries \in Nat /\ AdminWarmups \in Nat
  /\ Configurations \subseteq
       [warm : BOOLEAN, database : {"corpus", "empty"}, enabled : BOOLEAN,
        provider : Hosted \cup {"local"}, second : Hosted \cup {"local", "none"},
        remote : SUBSET Hosted, backstop : {"local", "none"}, overlap : BOOLEAN,
        cooldown : BOOLEAN, auto_cuda : BOOLEAN, compact : BOOLEAN, importable : BOOLEAN]

VARIABLES
  process,     \* "serving" or "stopped"
  serving,     \* where each request is in /query
  answers,     \* the response it got
  counters,    \* runtime_metrics
  warmups,     \* where the warm-up threads are
  calls        \* of /admin/warmup so far

serviceVars == <<process, serving, answers, counters, warmups, calls>>
vars == <<settings, modelVars, rerankVars, serviceVars>>

RequestStates == {"new", "admitted", "gate", "embed", "rerank", "graph", "answered", "end"}
Responses == {"none", "ok", "refused", "service_not_ready", "model_unavailable", "failed",
              "error"}

TypeOK ==
  /\ ModelTypeOK /\ RerankTypeOK
  /\ process \in {"serving", "stopped"}
  /\ serving \in [Queries -> RequestStates]
  /\ answers \in [Queries -> Responses]
  /\ counters \in [admitted : Nat, completed : Nat, failed : Nat, rejected : Nat,
                   in_flight : Nat]
  /\ warmups \in [Warmers -> {"off", "embedding", "reranker", "inference", "ended"}]
  /\ calls \in 0..AdminWarmups

\* The models are warmed only for a corpus that can be searched.
WarmsAtStart == settings.database = "corpus" /\ ~settings.warm

Init ==
  /\ settings \in Configurations
  /\ ModelInit /\ RerankInit
  /\ process = "serving"
  /\ serving = [q \in Queries |-> "new"]
  /\ answers = [q \in Queries |-> "none"]
  /\ counters = [admitted |-> 0, completed |-> 0, failed |-> 0, rejected |-> 0,
                 in_flight |-> 0]
  /\ warmups = [t \in Warmers |->
                  IF WarmsAtStart /\ t[2] = "warmup" /\ t[1] # "admin" THEN t[1] ELSE "off"]
  /\ calls = 0

Serves(q, to) == serving' = [serving EXCEPT ![q] = to]
Answers(q, response) == answers' = [answers EXCEPT ![q] = response]
Answer(q, response) == Serves(q, "answered") /\ Answers(q, response)

-----------------------------------------------------------------------------
\* Mutations.
FailUncounted(q) ==
  /\ serving[q] = "graph"
  /\ Answer(q, "failed")
  /\ UNCHANGED <<settings, modelVars, rerankVars, process, counters, warmups, calls>>

-----------------------------------------------------------------------------
(***************************************************************************)
(* /query.                                                                 *)
(***************************************************************************)
Admit(q) ==
  /\ process = "serving" /\ serving[q] = "new"
  /\ Serves(q, "admitted")
  /\ counters' = [counters EXCEPT !.admitted = @ + 1, !.in_flight = @ + 1]
  /\ UNCHANGED <<settings, modelVars, rerankVars, process, answers, warmups, calls>>

\* Refused before the dependency yields, so nothing is released.
RefuseAdmission(q) ==
  /\ process = "serving" /\ serving[q] = "new"
  /\ Serves(q, "end")
  /\ Answers(q, "refused")
  /\ counters' = [counters EXCEPT !.rejected = @ + 1]
  /\ UNCHANGED <<settings, modelVars, rerankVars, process, warmups, calls>>

\* The dependency holds the lease before the next one builds the graph, which may raise, and
\* before the body is validated, which may be refused: neither is counted.
TurnBack(q) ==
  /\ serving[q] = "admitted"
  /\ Answer(q, "error")
  /\ UNCHANGED <<settings, modelVars, rerankVars, process, counters, warmups, calls>>

Gate(q) ==
  /\ serving[q] = "admitted"
  /\ Serves(q, IF embedding.loaded THEN "embed" ELSE "gate") /\ UNCHANGED <<embedder, answers>>
  /\ UNCHANGED <<settings, embedding, cross_encoder, free, loader, scoring, loads, rerankVars,
                 process, counters, warmups, calls>>

\* The reason is read after the model was seen missing, and may be another one by now.
RejectUnready(q) ==
  /\ serving[q] = "gate"
  /\ Answer(q, IF embedding.error THEN "model_unavailable" ELSE "service_not_ready")
  /\ counters' = [counters EXCEPT !.failed = @ + 1]
  /\ UNCHANGED <<settings, modelVars, rerankVars, process, warmups, calls>>

\* invoke runs the graph; its dense retrieval wants the embedding model.
Embed(q) ==
  /\ serving[q] = "embed" /\ embedder[Own(q)] = "idle"
  /\ WantsEmbedding(Own(q))
  /\ UNCHANGED <<settings, embedding, cross_encoder, free, loader, scoring, loads, rerankVars,
                 serviceVars>>

\* A retrieval that failed leaves nothing to rerank.
Retrieve(q) ==
  /\ serving[q] = "embed" /\ embedder[Own(q)] \in {"ok", "failed"}
  /\ \/ /\ embedder[Own(q)] = "ok"
        /\ Serves(q, "rerank")
        /\ reranking' = [reranking EXCEPT ![q].pc = "start"]
     \/ Serves(q, "graph") /\ UNCHANGED reranking
  /\ Embeds(Own(q), "idle")
  /\ UNCHANGED <<settings, embedding, cross_encoder, free, loader, scoring, loads, prescore,
                 cooling, adapters, process, answers, counters, warmups, calls>>

\* What the pass kept to itself ends with it.
Reranked(q) ==
  /\ serving[q] = "rerank" /\ At(q, "done")
  /\ Serves(q, "graph")
  /\ reranking' = [reranking EXCEPT ![q] = AtRest]
  /\ prescore' = [prescore EXCEPT ![q] = "none"]
  /\ scoring' = [scoring EXCEPT ![Own(q)] = "idle", ![Pool(q)] = "idle"]
  /\ UNCHANGED <<settings, embedding, cross_encoder, free, embedder, loader, loads, cooling,
                 adapters, process, answers, counters, warmups, calls>>

Complete(q) ==
  /\ serving[q] = "graph"
  /\ Answer(q, "ok")
  /\ counters' = [counters EXCEPT !.completed = @ + 1]
  /\ UNCHANGED <<settings, modelVars, rerankVars, process, warmups, calls>>

\* LLMProviderError, any other exception, or a summary that says provider_error.
Fail(q) ==
  /\ serving[q] = "graph"
  /\ Answer(q, "failed")
  /\ counters' = [counters EXCEPT !.failed = @ + 1]
  /\ UNCHANGED <<settings, modelVars, rerankVars, process, warmups, calls>>

\* After the try, summarise or to_response raises: nothing counts it.
ProjectionFails(q) ==
  /\ serving[q] = "graph"
  /\ Answer(q, "error")
  /\ UNCHANGED <<settings, modelVars, rerankVars, process, counters, warmups, calls>>

\* The dependency's finally, however the request ended: the lease, then the gauge.
Release(q) ==
  /\ serving[q] = "answered"
  /\ Serves(q, "end")
  /\ counters' = [counters EXCEPT !.in_flight = IF @ > 0 THEN @ - 1 ELSE 0]
  /\ UNCHANGED <<settings, modelVars, rerankVars, process, answers, warmups, calls>>

-----------------------------------------------------------------------------
(***************************************************************************)
(* Warm-up: each thread of the lifespan loads one model, /admin/warmup one *)
(* after the other.                                                        *)
(***************************************************************************)
CallWarmup ==
  LET admin == <<"admin", "warmup">> IN
  /\ process = "serving" /\ calls < AdminWarmups
  /\ warmups[admin] \in {"off", "ended"}
  /\ warmups' = [warmups EXCEPT ![admin] = "embedding"]
  /\ calls' = calls + 1
  /\ UNCHANGED <<settings, modelVars, rerankVars, process, serving, answers, counters>>

\* Nothing is loaded for a disabled reranker, or for Voyage without permission.
RerankerWarms ==
  /\ settings.enabled
  /\ ~(settings.provider = "voyage" /\ "voyage" \notin settings.remote)

BeginWarmup(t) ==
  \/ /\ warmups[t] = "embedding" /\ embedder[t] = "idle"
     /\ WantsEmbedding(t)
     /\ UNCHANGED <<settings, embedding, cross_encoder, free, loader, scoring, loads,
                    rerankVars, serviceVars>>
  \/ /\ warmups[t] = "reranker" /\ loader[t] = "idle"
     /\ RerankerWarms
     /\ LoaderGoes(t, "want")
     /\ UNCHANGED <<settings, embedding, cross_encoder, free, embedder, scoring, loads,
                    rerankVars, serviceVars>>

EmbeddingWarm(t) ==
  /\ warmups[t] = "embedding" /\ embedder[t] \in {"ok", "failed"}
  /\ warmups' = [warmups EXCEPT ![t] = IF t[1] = "admin" THEN "reranker" ELSE "ended"]
  /\ Embeds(t, "idle")
  /\ UNCHANGED <<settings, embedding, cross_encoder, free, loader, scoring, loads, rerankVars,
                 process, serving, answers, counters, calls>>

\* A model is tried out before the warm-up ends, unless reranker_warmup_inference is off.
RerankerWarm(t) ==
  /\ warmups[t] = "reranker"
  /\ ~RerankerWarms \/ loader[t] \in {"model", "none"}
  /\ \E next \in {"ended"} \cup (IF loader[t] = "model" THEN {"inference"} ELSE {}) :
       warmups' = [warmups EXCEPT ![t] = next]
  /\ LoaderGoes(t, "idle")
  /\ UNCHANGED <<settings, embedding, cross_encoder, free, embedder, scoring, loads,
                 rerankVars, process, serving, answers, counters, calls>>

\* The warm-up's own inference takes no permit, and its failure is only logged.
WarmInference(t) ==
  /\ warmups[t] = "inference"
  /\ warmups' = [warmups EXCEPT ![t] = "ended"]
  /\ UNCHANGED <<settings, modelVars, rerankVars, process, serving, answers, counters, calls>>

\* Shutdown waits for the requests in flight, then closes the reranker's resources; the
\* warm-up threads are daemons.
Close ==
  /\ process = "serving"
  /\ \A q \in Queries : serving[q] \in {"new", "end"}
  /\ warmups[<<"admin", "warmup">>] \in {"off", "ended"}
  /\ process' = "stopped"
  /\ adapters' = [p \in Hosted |-> [adapters[p] EXCEPT !.registered = FALSE]]
  /\ UNCHANGED <<settings, modelVars, reranking, prescore, cooling, serving, answers, counters,
                 warmups, calls>>

-----------------------------------------------------------------------------
\* What /ready says of the two models.
EmbeddingStatus ==
  CASE embedding.loaded -> "loaded" [] embedding.error -> "failed" [] OTHER -> "loading"

RerankerStatus ==
  CASE ~settings.enabled -> "disabled"
    [] cross_encoder.loaded -> "loaded"
    [] settings.provider = "voyage" /\ "voyage" \notin settings.remote -> "failed"
    [] cross_encoder.error -> "failed"
    [] OTHER -> "loading"

Ready == EmbeddingStatus = "loaded" /\ RerankerStatus \in {"loaded", "disabled"}

-----------------------------------------------------------------------------
ModelStep ==
  \/ \E t \in Threads : LoadStep(t) /\ UNCHANGED <<rerankVars, serviceVars>>
  \/ \E s \in Scorers : ScoreStep(s) /\ UNCHANGED <<rerankVars, serviceVars>>

QueryStep(q) ==
  \/ Admit(q) \/ RefuseAdmission(q) \/ TurnBack(q) \/ Gate(q) \/ RejectUnready(q) \/ Embed(q)
  \/ Retrieve(q) \/ Reranked(q) \/ Complete(q) \/ Fail(q) \/ ProjectionFails(q) \/ Release(q)

WarmStep(t) == BeginWarmup(t) \/ EmbeddingWarm(t) \/ RerankerWarm(t) \/ WarmInference(t)

Next ==
  \/ ModelStep
  \/ \E q \in Queries :
       \/ QueryStep(q)
       \/ (RerankStep(q) \/ PrescoreStep(q)) /\ UNCHANGED serviceVars
  \/ \E p \in Hosted : CooldownEnds(p) /\ UNCHANGED serviceVars
  \/ \E t \in Warmers : WarmStep(t)
  \/ CallWarmup \/ Close

Spec == Init /\ [][Next]_vars

\* Every thread that can go on does; nobody has to send a request, to call
\* /admin/warmup or to stop the process.
Fairness ==
  /\ \A t \in Threads : WF_vars(LoadStep(t) /\ UNCHANGED <<rerankVars, serviceVars>>)
  /\ \A s \in Scorers : WF_vars(ScoreStep(s) /\ UNCHANGED <<rerankVars, serviceVars>>)
  /\ \A q \in Queries :
       /\ WF_vars(QueryStep(q) /\ serving[q] # "new")
       /\ WF_vars(RerankStep(q) /\ UNCHANGED serviceVars)
       /\ WF_vars(PrescoreStep(q) /\ UNCHANGED serviceVars)
  /\ \A t \in Warmers : WF_vars(WarmStep(t))

FairSpec == Spec /\ Fairness

-----------------------------------------------------------------------------
(***************************************************************************)
(* What the threads share.                                                 *)
(***************************************************************************)
\* "Safe to call from several threads": the embedding model is loaded by one thread at a
\* time and never again, and no cross-encoder is attempted a second time.
OneLoad ==
  /\ \A t \in Threads : embedder[t] = "load" => embedding.lock = t /\ ~embedding.loaded
  /\ \A l \in Loads \ {<<"embedding", "device">>} : loads[l] <= 1

\* The gate of /query leaves the embedding model's download to the warm-up threads.
LoadsStayOffQueries == \A s \in Scorers : embedder[s] \notin {"wait", "load"}

\* No inference keeps its permit, and no adapter's connections are opened twice.
PermitsReturn ==
  free + Cardinality({s \in Scorers : scoring[s] = "predict"}) = MaxConcurrency
OneAdapter == \A p \in Hosted : adapters[p].built <= 1

\* The double-checked locks and the limiter hand every shared thing to the threads as
\* their comments say.
SharedSafely == OneLoad /\ LoadsStayOffQueries /\ PermitsReturn /\ OneAdapter

\* "A hosted order without BGE-compatible confidence values must not reach the evidence
\* pipeline": a result either is scored by the cross-encoder or is the fused order, and
\* only one that used the order of a provider names it.
OrdersAreScored ==
  \A q \in Queries : LET r == reranking[q].result IN
    r # None =>
      /\ r.used <=> r.scores = "bge"
      /\ ~r.used => r.order = "rrf"
      /\ r.order = "hosted" <=> r.actual \in Hosted

\* A pass that returned has left none of its work to the pool, whose workers are few.
NothingLeftBehind ==
  \A q \in Queries : At(q, "done") => prescore[q] \notin {"queued", "running"}

\* Every request that was admitted is counted as completed, as failed or as under way, except
\* those that ended outside the handler's try, which only its lease knew of; and the gauge
\* counts those that still hold their lease, however they end.
CountersAddUp ==
  LET in(states) == Cardinality({q \in Queries : serving[q] \in states})
      missed == Cardinality({q \in Queries : answers[q] = "error"})
      working == {"admitted", "gate", "embed", "rerank", "graph"} IN
  /\ counters.admitted = counters.completed + counters.failed + missed + in(working)
  /\ counters.in_flight = in(working \cup {"answered"})

-----------------------------------------------------------------------------
(***************************************************************************)
(* Liveness.                                                               *)
(***************************************************************************)
\* A request is answered, whichever models load, locks are held and providers fail.
QueryEnds == \A q \in Queries : serving[q] = "admitted" ~> serving[q] = "end"

\* Once a warm-up thread runs, /ready comes to a verdict on its model: it does not say
\* "loading" for ever.  Of the embedding model only where sentence_transformers can be
\* imported: see FailureIsRecorded.
LoadingEnds ==
  /\ \A t \in Warmers :
       settings.importable /\ warmups[t] = "embedding" ~> EmbeddingStatus # "loading"
  /\ \A t \in Warmers :
       warmups[t] = "reranker" ~> RerankerStatus # "loading"

-----------------------------------------------------------------------------
(***************************************************************************)
(* The promise to the threads that want a model.                           *)
(***************************************************************************)
\* How a status is read off a model's fields.
StatusOf(loaded, lock, tried) ==
  IF loaded THEN "loaded" ELSE IF lock # None THEN "loading"
  ELSE IF tried THEN "failed" ELSE "absent"

\* Where a thread is with its request for the model: the two looks are one.
ClientAt(st) ==
  CASE st = "idle" -> "idle"
    [] st \in {"want", "wait"} -> "asked"
    [] st = "load" -> "loading"
    [] st \in {"ok", "model"} -> "served"
    [] OTHER -> "refused"

\* The process has no record of a failed import, only of the loads that were begun.
EmbeddingTried == loads[<<"embedding", "device">>] > 0

EmbeddingModel == INSTANCE SharedModel WITH
  Clients <- Threads, TriedAgain <- TRUE,
  status <- StatusOf(embedding.loaded, embedding.lock, EmbeddingTried),
  client <- [t \in Threads |-> ClientAt(embedder[t])]

CrossEncoder == INSTANCE SharedModel WITH
  Clients <- Threads, TriedAgain <- FALSE,
  status <- StatusOf(cross_encoder.loaded, cross_encoder.lock, cross_encoder.attempted),
  client <- [t \in Threads |-> ClientAt(loader[t])]

\* The double-checked locks of get_embedding_model and of _get_model implement SharedModel:
\* EmbeddingModel!Spec and CrossEncoder!Spec, where a step that leaves a model and its
\* threads alone is a stutter.
SharedModelSpecs ==
  /\ EmbeddingModel!Init /\ CrossEncoder!Init
  /\ [][/\ UNCHANGED <<embedding, embedder>>
           \/ [EmbeddingModel!Next]_(EmbeddingModel!modelVars)
        /\ UNCHANGED <<cross_encoder, loader>>
           \/ [CrossEncoder!Next]_(CrossEncoder!modelVars)]_vars

-----------------------------------------------------------------------------
\* "`get_embedding_model` has already logged and recorded the reason" (embeddings.py:192),
\* "so readiness can distinguish 'still loading' from 'will never load'" (embeddings.py:28).
FailureIsRecorded ==
  \A t \in Warmers : embedder[t] = "failed" => embedding.error \/ embedding.loaded

\* "Queries that failed after admission" (observability.py:250): the counter misses those that
\* ended outside the handler's try.
FailuresAreCounted ==
  counters.failed = Cardinality({q \in Queries :
    answers[q] \in {"service_not_ready", "model_unavailable", "failed", "error"}})

\* "Return the model, or None if it cannot be loaded" (_get_model): the thread that is told
\* None is told after the last attempt to load one failed.
NoneMeansFailed ==
  \A t \in Threads : loader[t] = "none" => cross_encoder.lock = None /\ cross_encoder.error
=============================================================================
