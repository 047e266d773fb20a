# Verification of RAGuard

RAGuard answers policy questions over retrieved text. It answers only when the
evidence was graded sufficient and every claim of the draft was tied back to
the passages it cites; otherwise it clarifies, escalates or abstains. This
directory holds TLA+ models of the parts of it that are hard to test, what TLC
checks about them on small instances, and what TLAPS proves for every instance.

Paths below are relative to the repository.

## The system

| Part | Source | State | Operations | Talks to |
| --- | --- | --- | --- | --- |
| Self-healing graph | `src/self_healing/graph.py`, `state.py`, `retry_policy.py`, `abstention.py` | `GraphState` of a request; `_speculations` (request id -> inputs, future), a pool of four threads | thirteen nodes, their conditional edges, `SelfHealingGraph.invoke` | every part below |
| Execution budget | `src/self_healing/execution_budget.py` | `llm_calls_used`, first exhaustion reason, deadline; one lock | reserve, release, ensure time, snapshot | both threads of a request, through a context variable |
| Provider call | `src/generation/llm_factory.py` | locals of `invoke_with_failover` | call, fail over, claim another permit | route, budget |
| Provider routing | `src/generation/llm_routing.py` | `LLMRoute` of a request, `PROVIDER_HEALTH` of the process | `select_route`, `advance_route`, cooldowns | token budgets |
| Token budgets | `src/generation/rate_limit.py` | rolling tallies of the process | charge, test | routing |
| Evidence grading | `evidence_grader.py`, `evaluation/answerability_ablation.py` | none | two grading contracts and a deterministic gate | provider call |
| Generation | `src/generation/answer_chain.py` | none | one call, validation of the citation mapping | provider call |
| Verification | `verification.py`, `entailment.py`, `claims.py` | none | deterministic gates, one judge call per draft | provider call, budget |
| Rewriting | `query_rewriter.py` | none | one rewrite per retry, heuristic when the call fails | provider call |
| Query admission | `api/admission.py`, `admit_query` of `api/main.py` | slots and sliding windows, in the process or in Redis | acquire, release | Redis |
| Corpus indexes | `src/retrieval/memory_index.py`, `bm25.py` | the dense and the sparse index, the refresher thread | refresh, start, stop, search | vector store |
| Hybrid retrieval | `src/retrieval/hybrid.py`, `rrf.py`, `deduplication.py` | a BM25 future per retrieval | search both halves, fuse, deduplicate, truncate | indexes, embeddings |
| Vector store, ingestion | `vector_store.py`, `src/ingestion`, `src/maintenance` | PostgreSQL tables | ingest, fetch, fingerprint | PostgreSQL |
| Local models | `retrieval/embeddings.py`, `reranking/cross_encoder.py` | each model, its lock and load error; the inference permits | load, warm up, predict | `/ready` |
| Reranking | `reranking/provider.py` | hosted adapters, cooldowns, a pool for overlapped scoring | rerank, fall back, close | hosted rerankers, cross-encoder |
| API | `api/main.py`, `schemas.py`, `observability.py`, `tracing.py` | readiness, counters | `/query`, `/ready`, `/admin/*`, lifespan | all of the above |
| Evaluation | `src/evaluation/run_eval.py` and its layers | reports | layers, metrics, gates, exit code | retrieval, graph |
| Voyage scripts | `scripts/calibrate_voyage_confidence.py`, `evaluate_voyage_evidence_ablation.py` and their `src/evaluation` modules | records of a run | split, fit a threshold, compare three paths | Voyage, provider call, budget |
| Frontend | `frontend/app.py`, `presenter.py` | the browser session | edit, choose, ask, clear, reuse, probe | `/ready`, `/query` |
| Rest | legacy pipeline, prompts, deployment | none or files | | |

What makes it hard:

- **Two threads per request.** The draft is generated in a pool thread while
  the graph thread grades. They share the call budget and the provider route.
  A draft must not be used after the state it was generated from has changed,
  and its calls and failovers must not break the accounting.
- **Drafts of several requests** share one registry, whose keys a client may
  choose, and four workers.
- **Three nested loops** (retrieval retries, one regeneration, provider
  failover), each bounded by its own counter, and a deadline that may pass
  between any two steps.
- **Failures that look like verdicts.** A provider outage, a reply of the wrong
  shape, a refused permit and a real "not sufficient" leave four different
  marks in the state, read later by routers and by `abstain`; the evaluation
  has to tell them apart again.
- **Health kept by everybody.** Routes are chosen by reading one provider after
  another while other requests bench and clear them, and the provider blamed
  for a failure is not the one read when the call was sent.
- **Rebuilds nobody coordinates**: the warm-up, the refresher and admin requests
  each replace two indexes one after the other, from a table another process
  writes, under retrievals that read both.
- **Double-checked locks** around two models and the hosted adapters, taken by
  warm-up threads and by queries, with failures that must be remembered.
- **Shared slots across processes**: leases, lost replies, worker crashes.
- **A page that is a script**, run from the top after every interaction and cut
  off by the next, with what it had done so far half kept.
- **Requests that end outside their handler**: refused by the validation of their
  body after admission counted them, or lost by an exception around the handler.

## The modules

Each line of arrows is a chain of `EXTENDS`.

- `ExecutionBudget` <- `ProviderCall` <- `SelfHealingGraph` <- `GraphProperties`
  <- `MCGraph`; `GraphProperties` instantiates `AnswerGate` and `FailoverRoute`.
  One request.
- `SpeculationPool`. The drafts of several requests.
- `LLMRouting` <- `MCRouting`; `LLMRouting` instantiates `FailoverRoute`. The
  routes of several requests.
- `LocalModels` <- `Reranking` <- `QueryService` <- `MCService`; `QueryService`
  instantiates `SharedModel`, twice. The process around the graph.
- `RankFusion` <- `HybridRetrieval` <- `MCRetrieval`; `CorpusIndex`. Retrieval,
  and the indexes it reads.
- `QueryAdmission` <- `MCAdmission`; `QueryAdmission` instantiates
  `AdmissionPromise`.
- `EvaluationMetrics` <- `EvaluationRun` <- `MCEvaluation`; `VoyageConfidence`
  and `ExecutionBudget` <- `VoyageEvaluation` <- `MCVoyage`. Offline.
- `Frontend`.

They are separate systems where the code's only link is a value that the other
side may choose freely: to the graph, retrieval may yield any list of chunks;
to admission, a query is a slot that is taken before the graph starts and given
back after it ended; to `/query`, the graph ends as it may end. Where state is
shared the modules extend one another.

- **`ExecutionBudget`**: the operations of `execution_budget.py`. Each runs
  under the budget's lock, so each is one formula, conjoined with the step of
  the thread that calls it. Time is the one fact the code branches on, whether
  the clock has reached the deadline. What is allowed to a request is chosen when
  it starts, from `Allowances`.
- **`ProviderCall`**: `invoke_with_failover` and `advance_route`, for the two
  threads of a request. Reading the route, building the client from the route
  again and moving the route are separate steps, because another thread can run
  between them. `calls_made` counts the attempts sent, `forgiven` the slots
  handed back for attempts that were sent; both are history variables.
- **`SelfHealingGraph`**: one request. `pc` is the node the graph thread is
  in; a node that calls a provider, or waits, is split at the call, so that the
  draft thread and the clock may move meanwhile. A conditional edge is a state
  function applied to the state the node left (`pc' = RouteAfterGrading'`).
  `Nodes` are the nodes of `build_graph`; `Waits` are the waits inside them;
  `boundary` and `returning` are the two ends of `SelfHealingGraph.invoke`;
  `crashed` is an exception that leaves `invoke`.
- **`AnswerGate`**: what the graph promises its caller, without threads,
  providers, retries or time: evidence is approved once, a draft is vetted only
  if it was written from the approved evidence, and what is returned is the
  vetted draft.
- **`FailoverRoute`**: what the provider calls of one request promise each
  other over the route they share, without budgets, cooldowns or errors: the
  route only goes forward, only by a call that finds it where it took note of
  it, and a call that failed is tried again only on a later candidate.
- **`GraphProperties`**: the properties, the refinement mappings to `AnswerGate`
  and `FailoverRoute`, and the statements of the repository that the code breaks.
- **`SpeculationPool`**: `_start_speculative_generation`, `_take_speculation`,
  `_discard_speculation` and the pool. A request submits its draft before it
  takes the lock to register it; a request that was discarded leaves its draft
  in the queue.
- **`LLMRouting`**: `select_route` reads cooldown and token tally of one
  candidate per step; `advance_route` runs under its lock; the charge of a call
  and the recording of its success are two steps. `failed_at`, the providers at
  which calls of a request failed, is a history variable.
- **`LocalModels`**: the double-checked loads of the embedding model and of the
  cross-encoder (each model on each device, one attempt in all), a scoring pass
  with its permit and its queue timeout, and the inference that the reranker's
  warm-up runs without a permit. A load of the embedding model that fails is
  recorded; an import of its package that fails (`ImportFails`) is not.
- **`Reranking`**: `rerank_with_diagnostics`: the chain of hosted providers,
  their retries and cooldown, the local scoring overlapped with the request, the
  confirmation of a hosted order by local scores, and every fallback.
- **`QueryService`**: `lifespan`, `/query`, `/admin/warmup`, the model checks of
  `/ready`, and the request counters. A request that admission counted may also
  end before its handler (`TurnBack`: a body that fails validation, a service
  that cannot be had) or after its `try` (`ProjectionFails`).
- **`RankFusion`**, **`HybridRetrieval`**: fusion with exact sums of reciprocal
  ranks and deduplication with the cap on runs, as operators whose loops are
  recursive functions; one retrieval for one query or several, its BM25 search
  in a thread, under a table that is ingested into and indexes that are rebuilt
  between the searches.
- **`QueryAdmission`**: both backends of `api/admission.py` with `admit_query`.
  The body of the local `acquire` (under the lock) and the Lua script are both
  atomic and do the same, so they are one operator `Decide`, on the store of
  the worker or the shared one.
- **`AdmissionPromise`**: what admission promises, told from the history of the
  queries alone, without lists, marks, purges or leases: a query starts exactly
  when fewer than the limit started lately and fewer than the limit hold a slot.
- **`SharedModel`**: what a model that many threads share promises them, without
  the locks: one load at a time, handed out only when loaded, and after a failed
  load tried again by the next that asks (`TriedAgain`), or never.
- **`CorpusIndex`**: `memory_index.py` and `bm25.py`. A thread that rebuilds
  (the warm-up of a start of the app, an admin request, the refresher) takes the
  fingerprint, fetches the rows, installs BM25 and installs the dense index, one
  step each, and any other thread may run in between. The refresher's wait,
  comparison and end are steps of their own, as are the miss, the lock, the
  fetch and the install of a query that finds no BM25 index. `Startup` and
  `Shutdown` are the two halves of `lifespan`.
- **`EvaluationMetrics`**, **`EvaluationRun`**: every metric that a gate reads,
  over the results of a run; and the run, layer by layer and case by case, to
  its exit code. A score is in sixtieths, a metric a fraction of whole numbers.
- **`VoyageConfidence`**, **`VoyageEvaluation`**: the stratified split, the
  metrics of a threshold and the choice of one, as operators; and both scripts
  from their command line to their exit code, with each path's budget and route.
- **`Frontend`**: one session. A run of the script goes through its callbacks
  (`Begin`), the probe of the service and the selector (`Sync`), the text area
  (`Draw`), the buttons (`Submit`) and the reply (`Receive`), and an interaction
  may come between any two. `onlyText` is a history variable: since the composer
  was last drawn the user has edited or asked, at most.

### Correspondence and abstraction

- Texts are identities. A query is which query it is, the retrieved chunks are
  which list of chunk ids they are, a draft is the inputs it was generated from
  and its pass. `_speculation_inputs` compares exactly these. `"none"` is the
  empty string of the code. Sanitising the question keeps its identity.
- The deterministic gate is a set of inputs, `GatePassing`. Scores and
  thresholds only decide membership.
- In the graph, retrieval and reranking may yield any list, nothing (retrieval
  only) or fail. The remaining-time tests inside the embedding and reranking
  clients coincide with the guards around those calls.
- A provider call is answered, failed or refused. What a reply says is a free
  choice of the node that reads it, over the outcomes that the code tells
  apart. A failed call is one for which `advance_route` returned False, which a
  non-retryable error does at any attempt.
- A refused failover is caught differently by each caller, and is modelled so:
  the rewriter falls back to its heuristics, the generator reports
  `provider_error`, the judge passes it to its node, the condition-aware grader
  records it as a failure of the provider, the simple grader lets it leave the
  graph and `invoke` turns it into an abstention.
- A draft that raises (`outcome = "raised"`) is kept, although
  `generate_grounded_answer` turns the exceptions of its chain into outcomes,
  because `generate_answer` handles it.
- In `SpeculationPool` a query and its chunks together are one input, grading
  and verification are free choices, and there is one retry and one
  regeneration, after which nothing new can happen to a draft.
- In `LLMRouting` a provider's cooldown is the time it ends, and a failure comes
  with its category and its hint. A tally is the tokens charged at each time.
  The call budget of a request is left to `ProviderCall`.
- In `Reranking` a result is reduced to whose order and whose scores it
  carries. A retry is bounded by `MaxRetries`; waiting between retries, payloads
  and latencies are left out.
- In `HybridRetrieval` a search returns any ranking of the chunks it reads, and
  two chunks of one passage share their tokens, under two ids if the passage
  was ingested again. A row that is overwritten in place keeps its id and has
  other tokens. No two rows of one table share an id, its primary key.
- In `QueryAdmission` a token is the query it was made for, and the expiry of
  a lease is computed from the time of its admission. The local backend's
  `reset` and `try_acquire` are called by tests only and left out. `Tick`
  keeps a running query within its deadline: the settings validator requires
  the deadline to be shorter than the lease, and the deadline is cooperative,
  so a query that overstays it inside one uninterruptible call is not modelled.
- In `CorpusIndex` the table is which rows it holds and the largest id handed
  out; the fingerprint, a digest of rows and ids, is the table itself. A read is
  one SQL statement, hence atomic, and may fail at any time. The expression
  `_index.fingerprint if _index is not None` reads `_index` twice; if it becomes
  `None` in between, the loop's `except` makes it an idle tick. That the
  refresher's pool may be reopened after `close_pool` is left out.
  `interleaved` is a history variable: the last BM25 install happened while
  another thread was between its two installs.
- In `EvaluationRun` what retrieval and the graph return for a case is any of a
  set of results that cover what the gates look at. A percentile is the least
  latency that enough others do not exceed, which is what sorting and indexing
  come to. In `VoyageEvaluation` the
  scores of Voyage and the replies of the providers are free, and the hash that
  orders the cases is a constant of the command line.
- `leaks` of a workflow result is a prompt in its `answer_preview`, the first 200
  characters of the answer (`safety_eval.py:96`, `generation_eval.py:105`): what
  is behind them no gate looks at.
- The local backend of admission reads the clock just before it takes its lock; in
  the model both are one step. The calibration's `RuntimeError` when no case has a
  top score, which ends it with exit code 2, is left out.
- Streamlit is external to `Frontend`: a run executes the callbacks first, then
  the page, and is ended at its next use of the page if the user acted
  meanwhile. A run that was cut off has lost the clicks it was begun for and what
  it meant to draw; the next one begins with what the widgets hold in the
  browser. What it wrote to the session stays. Of the buttons with a callback,
  one is pressed at a time.

## The runs

| Run | Instance | States | Checks |
| --- | --- | --- | --- |
| `graph` | every configuration; 2 queries, 2 chunk lists, 2 providers, an allowance of 3, 4 or 6 calls, 2 retries, 1 regeneration | 720 988 | six invariants and action properties, the refinements of `AnswerGate` and `FailoverRoute`, `RequestEnds`, `DraftEnds` under `FairSpec` |
| `speculation` | 2 requests with one id, 2 inputs, 1 worker | 377 456 | `DraftsStayOwn`, `RequestsEnd` under `FairSpec` |
| `admission` | both backends, 4 queries of 2 peers, 2 workers, limits 1 and 2, window 2, lease 3, deadline 2, clock to 4 | 441 033 | `SlotsAccounted`, `LimitsEnforced`, the refinement of `AdmissionPromise` |
| `corpus` | every setting; 3 corpora (one empty, one above the limit), 1 ingestion, 2 starts of the app, the refresher, 1 query | 140 250 | `NoFalseCurrency`, `HalvesAgree`, `LazyBuildYields`, `ReadinessIsKept`, `Freshness` under `FairSpec` |
| `routing` | 6 configurations; 2 requests, one with two threads, up to 3 candidates, cooldowns of 1, a token limit of 1, clock to 1 | 981 650 | `NoCandidatePassedUntried`, `CoolingIsDeserved`, `CallsAreBounded`, `EvaluationIsComparable`, each request's refinement of `FailoverRoute` |
| `service` | a cold start with the local reranker, a warm one with two hosted; 2 queries, 3 warm-up threads, 1 permit, 1 pool worker, 1 retry | 1 059 774 | `SharedSafely`, `OrdersAreScored`, `NothingLeftBehind`, `CountersAddUp`, the two refinements of `SharedModel` |
| `service_live` | 7 configurations, one without the embedding package, 1 query | 110 285 | `QueryEnds`, `LoadingEnds` under `FairSpec` |
| `retrieval` | a policy of 3 chunks replaced, a notice that repeats one and is overwritten in place; 2 hits of each search, up to 2 queries; both indexes and pgvector | 1 505 976 | `EvidenceIsDistinct`, `RanksAreRespected` |
| `evaluation` | 3 pairs of cases, a set of four and one that retrieval cannot be measured by, 5 retrieval results, 10 workflow results, every choice of layers that matters | 279 208 | `GreenIsSafe`, `ExitHasAReason` |
| `voyage` | 4 calibrations (up to 10 cases, 3 score lists), 10 ablations (up to 2 cases), 3 calls, 2 providers, 1 retry | 3 482 793 | `ProfileIsSafest`, `ReportIsWhole`, `OutagesAreRecorded` |
| `composer` | 1 example, 2 typed texts (one too short), a history of 2 | 6 213 312 | `EditsSurvive` |
| `finding_swapped_limits` | the Redis backend of `admission` | | `ConcurrencyBounded`, violated |

The bounds, and why they are enough for the cases the properties are about:

- `graph`: six calls let a request grade, speculate, fail over on either
  thread, rewrite and grade again, and still run out; fewer permits than the
  longest run wants (two retries, a regeneration and four failovers) make the
  limit bite at every stage. A bet is placed after the grader's reservation and
  wants three calls left: with an allowance of four (the cap of the pilot
  profile) it is placed with nothing to spare, with three it is not, so these
  are the two sides of the headroom guard. Two providers let the route move under a thread that has read it. One chunk list
  passes the gate for both queries and the other only for the rewritten one, so
  evidence becomes good enough by a retry, and a stale draft can differ from
  the state in the query alone.
- `speculation`: with one id, every entry may be the other request's; with one
  worker, every draft may wait for the other's.
- `admission` has two limits that differ (so that swapping them shows) and that
  both can be reached, and a clock that runs past a window and a lease.
- `corpus`: one ingestion gives the table two states besides the choice of
  rows, enough for a rebuild to be older than another and for a fingerprint to
  be older than its rows; up to three threads rebuild at once; with two starts
  of the app the refresher of the first may still be alive at the second. Admin
  rebuilds are those of a start without the start; the proofs cover any number.
- `routing`: three candidates are what it takes to pass one over; one request
  with two threads and a second one to bench a provider in between; a token
  limit that one call fills.
- `service`: two queries and three warm-ups contend for each lock, the queries
  for the only permit, and one pool worker lets an overlapped scoring wait.
- `retrieval`: two hits a side give four candidates for three places, and the
  copy, the neighbour and the re-ingested row that deduplication looks for, and
  one row whose two copies differ in their tokens.
- `evaluation`: results for every gate on either side of its floor; the set of
  four has a miss that stays above the floor of accuracy.
- `voyage`: strata smaller than, equal to and larger than a fifth of their
  split; three calls are fewer than a path with a failover at each stage wants.
- `composer`: an example, a text and one too short are the ways in which what is
  in the box may differ from what was asked; any number of runs may be cut off
  one after the other, at any place.

`CHECK_DEADLOCK FALSE` is used where the instance comes to rest: finitely many
requests, queries, cases or ticks of a bounded clock (`admission`,
`speculation`, `routing`, `service`, `service_live`, `retrieval`, `evaluation`,
`voyage`). The graph ends in `Terminated`, the indexes in `Stopped`, the page
never ends; anything else without a step is reported.

What the properties say:

- `AnswerIsVerified`: the answer is the draft that was verified, generated from
  exactly what was graded sufficient, which passes the gate and is what the
  final state holds (the citations are resolved from there). It carries no
  `failure_reason` of an earlier pass, on which `/query` would answer 503.
- `CallsAccounted`: every slot counted is a call sent or a permit held, except
  the slots handed back for calls that were sent (`LedgerBalances`), of which
  there is at most one (simple grader) or one per grading (`OverrunBounded`).
- `ExhaustionFailsClosed`: a node that ran out of budget leads only to an
  abstention for that reason, and the snapshot, which overwrites the flag,
  agrees.
- `RetryStaysAffordable`: a request, whether it bet on a draft or not, can pay
  its first rewrite and re-grade, as far as its allowance had the slots for them
  after one slot for each provider that the grade, the draft and the rewrite got
  to. With no failover that is both slots, whatever was bet, if the allowance is
  three or more. The failover of a bet is what it cannot make good, contrary to
  the comment (`SpeculationNeverStarves` below).
- `DraftsOnce`, `OutageIsNoVerdict`: one draft per request; a grader that
  failed approves nothing.
- `AnswerGateSpec`: the graph refines `AnswerGate`. `FailoverRouteSpec`: the
  calls of its two threads refine `FailoverRoute`. `RequestEnds`, `DraftEnds`:
  the request and its draft thread come to an end.
- `DraftsStayOwn`: a request goes on only with a draft of its own inputs, even
  if the entry it took was another's; an entry stays behind only for a request
  that raised. `RequestsEnd`: nobody waits for ever for a draft.
- `SlotsAccounted`: the slots counted are those of the queries that run and of
  those orphaned within the last lease. No slot expires under a running query
  and capacity lost to a crash comes back.
- `LimitsEnforced`: no store exceeds the limits it tests, of queries that run
  (`ConcurrencyEnforced`) and of queries started in a window (`RateEnforced`).
- `AdmissionPromiseSpec`: whether a query starts, and the reason it is given, is
  what the history of the queries says; the lists kept for it are never behind.
- `NoFalseCurrency`: a dense index whose fingerprint is the table's holds the
  table's rows, whatever order rebuilds and ingestion took.
- `HalvesAgree`: between rebuilds BM25 and the dense index describe one corpus,
  unless the last rebuild was interleaved with another.
- `LazyBuildYields`: a query that builds BM25 itself never replaces an index.
- `ReadinessIsKept`: what `/ready` asks of the indexes, once true, is lost only
  by a rebuild of a corpus above the limit.
- `Freshness`: while the refresher polls, the dense half ends up with the last
  corpus ingested (or with pgvector, above the limit). Nothing of the kind holds
  of the BM25 half.
- `NoCandidatePassedUntried`: a route leaves behind only providers that failed
  the request or were seen cooling: two calls failing together do not skip one.
- `CoolingIsDeserved`: whoever is benched failed a call, whatever name the
  blame went by. `CallsAreBounded`: a call is sent at most once per candidate,
  and once if all were cooling. `EvaluationIsComparable`: the breaker of other
  requests never shortens the route of an evaluation. `RoutesAreFollowed`: the
  calls of each request refine `FailoverRoute`, whatever others do meanwhile.
- `SharedSafely`: one load of the embedding model at a time and never on a
  query's thread, no second attempt at a cross-encoder, all permits returned,
  one adapter per provider.
- `OrdersAreScored`: what reaches the confidence gate is scored by the
  cross-encoder or is the fused order, and names the provider whose order it is.
- `NothingLeftBehind`: a pass that returned left nothing in the scoring pool.
- `SharedModelSpecs`: the look, the lock and the second look are together one
  look at the model: a thread is turned away only by its own failed load, or, of
  the cross-encoder, by an attempt that was begun and is not a model.
- `CountersAddUp`: every admitted request is counted as completed, failed or
  under way, except those that ended outside the handler's `try`, which are
  counted as neither (`FailuresAreCounted` below); the gauge counts those that
  hold their slot, by whichever exit they leave.
- `QueryEnds`, `LoadingEnds`: a query is answered; `/ready` does not say
  "loading" for ever once a warm-up has begun, if of the embedding model the
  package can be imported (`FailureIsRecorded` below).
- `EvidenceIsDistinct`: no chunk twice, no passage twice, no longer run of
  neighbours than configured, whatever ingestion fell between the searches.
- `RanksAreRespected`: fusion loses nothing without a reason and puts no chunk
  above one that every search ranked higher. Its reference is the rankings, not
  the sums. Of a row that was overwritten between the searches the dense copy
  counts.
- `GreenIsSafe`: exit 0 under `--fail-on-regression` means that every gated layer
  asked for was measured and, if safety was one of them, that no case seen through
  breached a boundary, as far as the previews of the answers show.
  `ExitHasAReason`: such a run found a source for all but
  one in twenty of the answerable cases, and exit 1 has a case at fault other
  than one lost to an outage, or the run was blocked or had no case to measure a
  metric by; both said case by case and of no metric.
- `ProfileIsSafest`: the threshold chosen is the best of all thresholds, not
  only of those tried, on the calibration split alone.
- `ReportIsWhole`: a report has every selected case once for every path;
  `OutagesAreRecorded`: a path that lost a reply did not answer, and a path that
  lost nothing reports no failure.
- `EditsSurvive`: if since the composer was last drawn the user has only edited
  and asked, drawing it leaves the text alone, however many runs were cut off in
  between; and what is asked is what the box holds.

**Fairness.** It asks that threads that can run do run, nothing of users,
clients, tables, failures or the clock.

- `SelfHealingGraph`: the graph thread and the draft thread keep running. A
  node has no blocking step without a finite timeout: provider calls carry the
  permit's timeout, which is positive and at most the time left; retrieval and
  reranking calls carry their own. The deadline need not ever pass: termination
  follows from the counters.
- `SpeculationPool`: the request threads, the workers, and a provider call that
  has a timeout. Here the wait for a worker is not assumed away.
- `CorpusIndex`: the refresher and the queries keep running, and strong fairness
  of the refresher's reads and of its turn at BM25's lock: a read that fails now
  and then, or a lock that others also want, is retried at the next tick or
  granted at last. It asks nothing of the other threads, nor that the app stays
  up.
- `QueryService`: each thread keeps running, loads and predictions end, with or
  without success, and hosted requests have timeouts.

## What the code does not do

Each of these is a statement of the repository that the code breaks.

One has a run: `finding_swapped_limits`. The Lua script reads the two limits in
the opposite order to the one `acquire` passes them in. With Redis, a peer may
start `query_max_concurrency` queries a minute, and
`query_rate_limit_per_minute` queries may run at once. The model keeps the
limits the store *tests* (`RateLimit`, `SlotLimit`) apart from the ones that
were configured, so that the other properties are checked of the code as it is.

The others are definitions of the modules, with the line they quote. To see one
refuted, put its name under `INVARIANT` or `PROPERTY` of the configuration
named.

| Statement | Add to | What happens |
| --- | --- | --- |
| `LedgerMatchesCalls` | `graph.cfg`, INVARIANT | `llm_calls_used` misses grader calls that were sent and failed. |
| `SpeculationNeverStarves` | `graph.cfg`, INVARIANT | "Speculation therefore never starves the retry loop" (`graph.py:366-371`): the headroom is tested before the bet, and a failover of the grade or of the draft afterwards takes a slot of it. |
| `GraderOutageNeverRetries` | `graph.cfg`, PROPERTY | A condition-aware grader whose provider rejected the key retries retrieval as if the evidence were weak: the classifier of failures (`answerability_ablation.py:321`) raises a `KeyError` on the category `unauthorized`. |
| `SpeculationDiscarded` | `graph.cfg`, INVARIANT | A grader or judge reply with a field of the wrong type raises out of the graph, and the registered draft stays behind. |
| `HalvesNeverDiffer` | `corpus.cfg`, INVARIANT | Two rebuilds that interleave their installs leave BM25 and the dense index describing different corpora, and the refresher sees nothing wrong if the newer dense index landed last. |
| `RebuildOpensReadiness` | `corpus.cfg`, PROPERTY | With a corpus above `MAX_IN_MEMORY_CHUNKS`, `/ready` waits for ever for a dense index that is not going to be built. |
| `BlameIsTrue` | `routing.cfg`, INVARIANT | `advance_route` takes `failed_provider` for the provider the call used; `invoke_with_failover` reads it before `build_once` reads the route again, and the other thread may move it in between. A success is then charged to, and clears, the wrong provider. |
| `NoneMeansFailed` | `service.cfg`, INVARIANT | `_get_model` sets `_load_attempted` before it loads, and tests it before it takes the lock: a query that comes while the cross-encoder loads is told there is none, and is reranked without it. |
| `FailureIsRecorded` | `service_live.cfg`, INVARIANT | "`get_embedding_model` has already logged and recorded the reason" (`embeddings.py:192`): the import at line 39 is outside the `try` that records it, so where the package cannot be imported `/ready` says "loading" for ever. |
| `FailuresAreCounted` | `service.cfg`, INVARIANT | "Queries that failed after admission" (`observability.py:250`) are not those whose body is refused after admission, whose service cannot be had, or whose answer cannot be projected. |
| `RegressionIsRed` | `evaluation.cfg`, INVARIANT | The generation layer's `citation_id_validity` overwrites the retrieval layer's, so a corrupted index can be listed as a regression by the report of a run that exits 0. |
| `JudgeOutageIsReported` | `voyage.cfg`, INVARIANT | An outage of the judge becomes an abstention that is not among the path's `provider_failures`. |
| `RerunKeepsText` | `composer.cfg`, PROPERTY | A rerun "caused by editing the textarea" shall not overwrite the text (`app.py:287-289`, `494-496`). If the user edits while the run that is to apply an example probes the service, that run ends before it writes the marker, and the run for the edit applies the example over the text. |
| `ReuseFillsComposer` | `composer.cfg`, PROPERTY | After an example was applied, a question put back from the session's history is wiped: the callback resets the selector and not the marker, so the rerun applies "no example". |

Met while modelling, and promised otherwise nowhere: a later, shorter cooldown
replaces a longer one; of several providers blocked, the probe prefers one
blocked by its token budget, which counts as due back at once; when the database
was down or empty at startup, nothing warms the models up until an operator
does, and every query until then is refused; the fallback from any hosted
reranker says the provider requested was `voyage`; the 503 of a workflow that
failed reaches the client as `service_busy`; an answer that arrives after the
user touched the page is lost, and so is a click when the next one comes before
its run has handled it; the warm-up's own inference takes no permit, so that one
more than `reranker_max_concurrency` may run; a Voyage path that runs out of its budget
outside the stages that catch it ends the whole comparison without a report; an
outage of the generator counts as a correct abstention there.

## The proofs

| Module | About | Assumes |
| --- | --- | --- |
| `SelfHealingGraphProofs` | one request, and its refinements of `AnswerGate` and `FailoverRoute`; the drafts of several requests | positive allowances (`AllowancesAssumption`) and providers, natural retry bounds, `None` not a value of the data (`GraphAssumption`); for the drafts a positive number of workers, `Nothing` neither a request nor an input (`PoolAssumption`) |
| `RoutingProofs` | the routes of several requests, and their refinements of `FailoverRoute` | natural times and token counts, configurations of the types that the settings have (`RoutingAssumption`) |
| `ServiceProofs` | `LocalModels`, `Reranking` and `QueryService` together, and the refinements of `SharedModel`; the page | finitely many queries, natural bounds, configurations of the types that the settings have (`ServiceAssumption`); for the page nothing |
| `QueryAdmissionProofs` | admission, and its refinement of `AdmissionPromise` | finitely many queries, positive limits, a deadline shorter than the lease (`AdmissionAssumption`) |
| `CorpusIndexProofs` | the indexes | distinct kinds of threads, an empty corpus below the limit (`CorpusAssumption`) |
| `EvaluationProofs` | the evaluation command | sequences of cases with finite sources, natural keyword counts and latencies, `None` no number or metric, a workflow's citations of a kind that `evaluate_case` knows (`EvaluationAssumption`) |
| `VoyageProofs` | the Voyage scripts | `None` is no exit code and a score is a number (`VoyageAssumption`) |
| `RetrievalProofs` | one retrieval, with its fusion and deduplication | finite tables, whose rows are numbered and share no id within a table, natural caps, `MaxRank` no less than a ranking's length (`FusionAssumption`, `RetrievalAssumption`) |

Each theorem holds for all values of the constants that satisfy these, so for
any number of requests, threads, providers, retries or cases. TLC evaluates the
assumptions in every run, and checked each inductive invariant on an instance
before it was proved.

- *Types* (`TypeCorrect`, `TypesAreCorrect`). `retry_count <= MaxRetries` is not
  inductive by itself: that the counter only advances from a state where
  `may_retry` held needs the fact that the rewriting nodes are entered through
  `RouteAfterGrading`. The inductive invariant carries it, with what a call's
  record may be at each `pc`.
- *Answers* (`AnswersAreVerified`, `OutageApprovesNothing`). The invariant says,
  for each place on the path from the grader to the terminal, what is known by
  then: after grading, the grade is of the current inputs; after generation,
  the draft is of the graded inputs; after verification, the verdict is of the
  draft. The speculative draft enters through `DraftUsable`, whose equality of
  inputs is what the step of `TakeDraft` needs.
- *Ledger* (`LedgerIsKept`, `OverrunIsBounded`, `CallsAreAccounted`). `Cardinality(Holders)` is
  expanded over the two threads; each operation of the budget changes one side
  and the matching step of the call the other. The bound on `forgiven` counts
  gradings by `retry_count`, and needs that a simple grader's outage is
  terminal.
- *Exhaustion* (`ExhaustionIsSafe`). Once the flag is set the recorded reason
  is set too, and the nodes that can still run are those that the deadline also
  stops.
- *Speculation* (`OneDraftPerRequest`). A draft is started only at
  `retry_count = 0`, once per grading, and a second grading has a higher count.
- *Drafts of several requests* (`DraftsAreOwn`). What a waiting request was
  promised was its own inputs when it took the future; that this stays so needs
  that a request bets once, so what the owner bet on does not change under
  whoever waits for it. That entries are live needs that an entry is under its
  owner's id, so that the owner's own discard finds it.
- *Affordability* (`BetLeavesRetryAffordable`). The route is shared by the two
  threads and only goes forward, and a call is at or behind its index, so what a
  stage has taken is at most a slot per provider that the route got to. The
  invariant (`HeadroomInv`) follows what is left of the allowance from stage to
  stage; that the draft takes part at all needs the test at the bet, which is
  what keeps two slots where the route has not moved.
- *Refinement* (`GraphImplementsAnswerGate`). Each step of the graph is one step
  of the gate or a stutter under the mapping of `GraphProperties`.
- *Routes* (`GraphFollowsItsRoute`, `RequestsFollowTheirRoutes`). What has to be
  shown of each step is that a call which goes on after a failure goes on later
  than where it took note of the route. The route never goes back, so an unlike
  place is a later one. In `LLMRouting` a call takes note of a provider's name,
  which tells two places apart only because the candidates of a route are
  distinct (`NothingTwice`, `CandidatesAreDistinct`). The steps of one request
  leave the routes of the others alone (`OwnSteps`).
- *Admission* (`SlotsAreAccounted`, `ConcurrencyIsEnforced`, `RateIsEnforced`,
  `LimitsAreEnforced`, `AdmissionKeepsItsPromise`). The invariant ties slots and
  marks to where the queries are; that a running query is within its deadline,
  and the deadline shorter than the lease, makes its slot outlive it. For the
  promise the converse is needed as well, that a mark in a store is that of a
  query which started there (`PromiseInv`): then the sets a store counts are the
  sets the history gives (`StoresAreHistory`), and its verdict is the one
  promised.
- *Indexes* (`CurrencyIsTrue`, `HalvesDescribeOneCorpus`,
  `QueriesReplaceNoIndex`, `ReadinessStaysOpen`). For currency: everything a
  thread holds was the table at some time, and is the table if its ids are the
  latest, and a fingerprint is no later than its rows; this needs that
  ingestion hands out new ids (`~InPlaceUpserts`, the default of the ingestion
  command) and is false without. For the halves: unless interleaved, at most
  one thread is between its installs and BM25 holds what that thread read. The
  lock invariant (one building query, and only while BM25 is missing) is what
  keeps the lazy build from disturbing it.

- *Routing* (`RoutingIsTyped`, `NobodyIsPassedUntried`, `BenchingIsDeserved`,
  `CallsEnd`, `EvaluationsCompare`). A call whose thread read the i-th candidate
  was sent fewer than i times before, and if the route has moved on since, that
  candidate failed: from this follow the bound on the calls sent and that the
  candidates behind the index failed or were skipped. That the probe and the next
  warm candidate exist needs that a set of numbers has a least element.
- *Shared things* (`SharedThingsAreSafe`). Whoever loads the embedding model holds
  its lock, and a query passes the gate only when the model is loaded. The
  candidates for the cross-encoder are loaded in order, each once, by the thread
  that set `attempted`; those after the next have not been loaded. The free
  permits and the passes that predict add up to the limit over a finite set of
  passes, so that a step changes both by one. An adapter that was built is
  registered until the process closes it, when no request is under way.
- *Promise of the models* (`ModelsAreShared`, `SharedModelsPromise`). A step of
  a load is one of the promise once it is known that whoever loads holds the lock
  of a model that is not there yet, and that a thread asks only when it has no
  request under way (`LoaderInv`): a scorer has one only in the first step of a
  pass, and by the invariant of the passes none is begun before the last is over.
  The promise's model has failed if a load of it was begun and is not under way,
  whether or not the code recorded it (`EmbeddingTried`, `TriedInv`).
- *Scored results* (`ResultsAreScored`, `PoolIsLeftAlone`). One invariant says for
  each place of a pass what its scoring and its overlapped scoring may be doing
  there. A pass returns in a few places; each returns a sound result, and none
  while its work is queued or running.
- *Counters* (`RequestsAreCounted`). The counters, and the number of those that
  ended outside the `try`, are cardinalities of where the requests are; a step
  moves one request, which one of these sets loses and another gains.
- *The page* (`TypedTextIsKept`). As long as the user has only edited and asked
  since the composer was drawn, the selector shows what was applied last, and so
  does whatever a run means to draw (`ComposerInv`): no choice waits to be
  applied. An edit changes the text under a run that has begun, but leaves its
  event, and a run with an event waiting is cut off before it draws or asks. The
  proof is about an instance of `Frontend`.
- *Evidence* (`EvidenceHasNoRepeats`, `FusionRespectsRanks`). A loop over a
  ranking is a recursive function; that it exists and keeps what each turn keeps
  follows from the least element of the turns that would not (`EveryTurn`,
  `LoopIsDefined`). So a score is the sum of the shares of all rankings, a fused
  list is sorted and complete, and what deduplication keeps is what it did not
  drop for a prefix of what it kept, in the order it came. The cut leaves a
  prefix, of which the same is true. The cap on runs holds of every source,
  because it held when the source's last chunk was kept, and a run only grows,
  so what broke the cap then breaks it in the result. A chunk above another in
  one ranking has a share larger by at least one, because every possible rank
  divides `Unit`.
- *The comparison of paths* (`OutagesAreNamed`, `ReportsAreWhole`). Every action
  is one of eleven kinds by what it does to the report (`StepKinds`). Between two
  cases the three paths are level, within one those before the path that runs are
  one case ahead; the n-th result is of the n-th case. The counts of a summary
  are cardinalities of four classes that partition the results, and a set with
  more elements than another has one that the other lacks, which is the case that
  a failed safety gate points at.
- *The profile* (`ProfilesAreSafest`). The script tries the best scores it saw
  and no other threshold. That is enough because any threshold between two of
  them lets through exactly what the least of them not below it does
  (`CandidateForAny`), and because the keys that the candidates are sorted by are
  a transitive order in which two differ at the latest in the threshold itself, so
  that finitely many have a first, and its first part is the accuracy. That the
  stored profile stays the one of these records needs that nothing is measured
  after the choice (`ProfileInv`).
- *The evaluation command* (`GreenRunsAreSafe`, `ExitsHaveReasons`). A layer that
  is behind the run has a status, and whatever was generated was generated for a
  layer that was selected and has the status it deserves (`RunInv`). So a run that
  exits with 0 measured the generation layer if it measured safety; a count under
  a ceiling of zero counts nothing, a share above a floor of all is everything,
  and no later metric takes the place of those. For the other direction, a sum
  over a finite set of cases exists and is at least a full score for each if every
  score is full (`SumIsLoop`, `SumAtLeast`), a perfect retrieval has full scores
  under every metric (`PerfectScores`), and a metric that two layers report has
  the same floor in both, so that nothing fails whichever value is read
  (`UpdatedIsAcceptable`). A sum of scores that are full or nothing counts the
  full ones (`SumOfOnes`), whence the one in twenty.

Model-checked only is all liveness (`RequestEnds`, `DraftEnds`, `RequestsEnd`,
`Freshness`, `QueryEnds`, `LoadingEnds`): the proof system does not do fairness.
Every safety property that a passing run checks is proved.

## What is not modelled

- Text: patterns, prompts, wording, claim extraction, the parsers of model
  replies, the arithmetic of confidence and of BM25. The models take their
  verdicts as free choices, so the routers of risk and ambiguity, the graders'
  sufficiency rules and the citation mapping are only as good as their tests.
- The clients: SQL and the connection pool, HTTP to providers and rerankers,
  Redis beyond its replies, SentenceTransformers.
- Reports and their formats, bootstrap statistics, RAGAS scores, the benchmarks,
  the commands `golden_eval` and `reranking_eval` of their own, deployment.
- Logs, spans and latencies: nothing branches on them.
- The legacy pipeline, a sequential predecessor of the graph.
- A deadline overstayed inside one uninterruptible call, and the time a draft
  spends in the pool's queue, which its timeout does not count.

## Plan

1. The commands `golden_eval` and `reranking_eval` of their own, and the per-case
   reports of the evaluation command.
2. The connection pool and its retries in `vector_store.py`.
