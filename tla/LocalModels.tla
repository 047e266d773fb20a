----------------------------- MODULE LocalModels -----------------------------
(***************************************************************************)
(* The two models the API process loads, and what guards them:             *)
(* get_embedding_model of retrieval/embeddings.py, and _get_model and the  *)
(* inference of reranking/cross_encoder.py.                                *)
(*                                                                         *)
(* A thread that wants a model looks at it without the lock, waits for the *)
(* lock, looks again, and loads under it.  The embedding model is tried    *)
(* again by whoever wants it after a failed load, the cross-encoder is     *)
(* not: an attempt, even one still running, is remembered.  Weights,       *)
(* scores, batches and messages are left out.                              *)
(***************************************************************************)
EXTENDS Naturals, Sequences, FiniteSets

CONSTANTS
  None,
  Queries,           \* the threads that serve /query
  MaxConcurrency,    \* reranker_max_concurrency
  Configurations     \* the settings the process may be started with

\* Local scoring is done by the thread of a query, or for it by the pre-score pool.
Scorers == Queries \X {"own", "pool"}
Warmers == {<<"embedding", "warmup">>, <<"reranker", "warmup">>, <<"admin", "warmup">>}
Threads == Scorers \cup Warmers

VARIABLES
  settings,
  embedding,        \* _model, _load_error and _lock of embeddings.py
  cross_encoder,    \* _model, _load_attempted, _load_error and _lock
  free,             \* permits of _inference_limiter
  embedder,         \* where each thread is in get_embedding_model
  loader,           \* where each thread is in _get_model
  scoring,          \* where each scorer is in a local scoring pass
  loads             \* history: how often each load was begun

modelVars == <<embedding, cross_encoder, free, embedder, loader, scoring, loads>>

EmbedderStates == {"idle", "want", "wait", "load", "ok", "failed"}
LoaderStates == {"idle", "want", "wait", "load", "model", "none"}
ScoringStates == {"idle", "model", "queue", "predict", "scored", "degraded"}

\* _get_model tries the fallback model after the primary one unless they are the
\* same, and each on the CPU after an automatic choice of CUDA.
Candidates ==
  LET on(model) == IF settings.auto_cuda THEN <<<<model, "cuda">>, <<model, "cpu">>>>
                                         ELSE <<<<model, "device">>>> IN
  IF settings.compact THEN on("primary") ELSE on("primary") \o on("fallback")

Loads == {<<"embedding", "device">>}
         \cup {"primary", "fallback"} \X {"device", "cuda", "cpu"}

ModelTypeOK ==
  /\ settings \in Configurations
  /\ embedding \in [loaded : BOOLEAN, error : BOOLEAN, lock : Threads \cup {None}]
  /\ cross_encoder \in [loaded : BOOLEAN, attempted : BOOLEAN, error : BOOLEAN,
                        lock : Threads \cup {None}, next : 1..4]
  /\ free \in 0..MaxConcurrency
  /\ embedder \in [Threads -> EmbedderStates]
  /\ loader \in [Threads -> LoaderStates]
  /\ scoring \in [Scorers -> ScoringStates]
  /\ loads \in [Loads -> Nat]

ModelInit ==
  /\ embedding = [loaded |-> settings.warm, error |-> FALSE, lock |-> None]
  /\ cross_encoder = [loaded |-> settings.warm, attempted |-> settings.warm, error |-> FALSE,
                      lock |-> None, next |-> 1]
  /\ free = MaxConcurrency
  /\ embedder = [t \in Threads |-> "idle"]
  /\ loader = [t \in Threads |-> "idle"]
  /\ scoring = [s \in Scorers |-> "idle"]
  /\ loads = [l \in Loads |-> 0]

-----------------------------------------------------------------------------
\* Mutations.
LockToLoadUnchecked(t) ==
  /\ embedder[t] = "wait" /\ embedding.lock = None
  /\ embedding' = [embedding EXCEPT !.lock = t]
  /\ embedder' = [embedder EXCEPT ![t] = "load"]
  /\ loads' = [loads EXCEPT ![<<"embedding", "device">>] = @ + 1]
  /\ UNCHANGED <<settings, cross_encoder, free, loader, scoring>>

EmbeddingFailsSilently(t) ==
  /\ embedder[t] = "load" /\ settings.importable
  /\ embedding' = [embedding EXCEPT !.lock = None]
  /\ embedder' = [embedder EXCEPT ![t] = "failed"]
  /\ UNCHANGED <<settings, cross_encoder, free, loader, scoring, loads>>

CrossEncoderFailsLocked(t) ==
  /\ loader[t] = "load"
  /\ cross_encoder' = [cross_encoder EXCEPT !.error = TRUE]
  /\ loader' = [loader EXCEPT ![t] = "none"]
  /\ UNCHANGED <<settings, embedding, free, embedder, scoring, loads>>

-----------------------------------------------------------------------------
(***************************************************************************)
(* get_embedding_model.                                                    *)
(***************************************************************************)
Embeds(t, to) == embedder' = [embedder EXCEPT ![t] = to]
WantsEmbedding(t) == embedder' = [embedder EXCEPT ![t] = "want"]

LookAtEmbedding(t) ==
  /\ embedder[t] = "want"
  /\ Embeds(t, IF embedding.loaded THEN "ok" ELSE "wait")
  /\ UNCHANGED <<settings, embedding, cross_encoder, free, loader, scoring, loads>>

LockEmbedding(t) ==
  /\ embedder[t] = "wait" /\ embedding.lock = None
  /\ IF embedding.loaded
     THEN Embeds(t, "ok") /\ UNCHANGED <<embedding, loads>>
     ELSE /\ embedding' = [embedding EXCEPT !.lock = t]
          /\ Embeds(t, "load")
          /\ loads' = [loads EXCEPT ![<<"embedding", "device">>] = @ + 1]
  /\ UNCHANGED <<settings, cross_encoder, free, loader, scoring>>

\* The import of sentence_transformers comes before the try: nothing is kept of its failure.
ImportFails(t) ==
  /\ embedder[t] = "load" /\ ~settings.importable
  /\ embedding' = [embedding EXCEPT !.lock = None]
  /\ Embeds(t, "failed")
  /\ UNCHANGED <<settings, cross_encoder, free, loader, scoring, loads>>

EmbeddingLoads(t) ==
  /\ embedder[t] = "load" /\ settings.importable
  /\ embedding' = [loaded |-> TRUE, error |-> FALSE, lock |-> None]
  /\ Embeds(t, "ok")
  /\ UNCHANGED <<settings, cross_encoder, free, loader, scoring, loads>>

\* The package is there, but the model cannot be built: the reason is kept for /ready and
\* the exception raised to the caller.
EmbeddingFails(t) ==
  /\ embedder[t] = "load" /\ settings.importable
  /\ embedding' = [embedding EXCEPT !.error = TRUE, !.lock = None]
  /\ Embeds(t, "failed")
  /\ UNCHANGED <<settings, cross_encoder, free, loader, scoring, loads>>

-----------------------------------------------------------------------------
(***************************************************************************)
(* CrossEncoderReranker._get_model.                                        *)
(***************************************************************************)
LoaderGoes(t, to) == loader' = [loader EXCEPT ![t] = to]
Resident == IF cross_encoder.loaded THEN "model" ELSE "none"

LookAtCrossEncoder(t) ==
  /\ loader[t] = "want"
  /\ LoaderGoes(t, IF cross_encoder.loaded \/ cross_encoder.attempted THEN Resident ELSE "wait")
  /\ UNCHANGED <<settings, embedding, cross_encoder, free, embedder, scoring, loads>>

LockCrossEncoder(t) ==
  /\ loader[t] = "wait" /\ cross_encoder.lock = None
  /\ IF cross_encoder.loaded \/ cross_encoder.attempted
     THEN LoaderGoes(t, Resident) /\ UNCHANGED <<cross_encoder, loads>>
     ELSE /\ cross_encoder' = [cross_encoder EXCEPT !.attempted = TRUE, !.lock = t]
          /\ LoaderGoes(t, "load")
          /\ loads' = [loads EXCEPT ![Candidates[1]] = @ + 1]
  /\ UNCHANGED <<settings, embedding, free, embedder, scoring>>

CrossEncoderLoads(t) ==
  /\ loader[t] = "load" /\ settings.importable
  /\ cross_encoder' = [cross_encoder EXCEPT !.loaded = TRUE, !.error = FALSE, !.lock = None]
  /\ LoaderGoes(t, "model")
  /\ UNCHANGED <<settings, embedding, free, embedder, scoring, loads>>

\* Here the import is part of the attempt, and so recorded like any other failure.
CrossEncoderFails(t) ==
  /\ loader[t] = "load"
  /\ IF cross_encoder.next < Len(Candidates)
     THEN /\ cross_encoder' = [cross_encoder EXCEPT !.error = TRUE, !.next = @ + 1]
          /\ loads' = [loads EXCEPT ![Candidates[cross_encoder.next + 1]] = @ + 1]
          /\ UNCHANGED loader
     ELSE /\ cross_encoder' = [cross_encoder EXCEPT !.error = TRUE, !.lock = None]
          /\ LoaderGoes(t, "none")
          /\ UNCHANGED loads
  /\ UNCHANGED <<settings, embedding, free, embedder, scoring>>

-----------------------------------------------------------------------------
(***************************************************************************)
(* One local scoring pass: rerank_with_diagnostics and its twin            *)
(* score_fixed_order_with_diagnostics take the same steps, and either      *)
(* score every candidate or give all of them back as they were.            *)
(***************************************************************************)
Scores(s, to) == scoring' = [scoring EXCEPT ![s] = to]
BeginScoring(s) == Scores(s, "model") /\ LoaderGoes(s, "want")

\* Past the request's deadline, remaining_seconds refuses.
Enqueue(s) ==
  /\ scoring[s] = "model" /\ loader[s] \in {"model", "none"}
  /\ \/ Scores(s, "degraded")
     \/ loader[s] = "model" /\ Scores(s, "queue")
  /\ LoaderGoes(s, "idle")
  /\ UNCHANGED <<settings, embedding, cross_encoder, free, embedder, loads>>

AcquirePermit(s) ==
  /\ scoring[s] = "queue" /\ free > 0
  /\ free' = free - 1
  /\ Scores(s, "predict")
  /\ UNCHANGED <<settings, embedding, cross_encoder, embedder, loader, loads>>

QueueTimeout(s) ==
  /\ scoring[s] = "queue"
  /\ Scores(s, "degraded")
  /\ UNCHANGED <<settings, embedding, cross_encoder, free, embedder, loader, loads>>

Predict(s) ==
  /\ scoring[s] = "predict"
  /\ free' = free + 1
  /\ Scores(s, "scored")
  /\ UNCHANGED <<settings, embedding, cross_encoder, embedder, loader, loads>>

\* An exception, a wrong number of scores, or a score that is not finite.
PredictFails(s) ==
  /\ scoring[s] = "predict"
  /\ free' = free + 1
  /\ Scores(s, "degraded")
  /\ UNCHANGED <<settings, embedding, cross_encoder, embedder, loader, loads>>

LoadStep(t) ==
  \/ LookAtEmbedding(t) \/ LockEmbedding(t)
  \/ ImportFails(t) \/ EmbeddingLoads(t) \/ EmbeddingFails(t)
  \/ LookAtCrossEncoder(t) \/ LockCrossEncoder(t) \/ CrossEncoderLoads(t) \/ CrossEncoderFails(t)

ScoreStep(s) ==
  \/ Enqueue(s) \/ AcquirePermit(s) \/ QueueTimeout(s) \/ Predict(s) \/ PredictFails(s)
=============================================================================
