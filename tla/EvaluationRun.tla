---------------------------- MODULE EvaluationRun ----------------------------
(***************************************************************************)
(* run_eval.py: one run of the evaluation, its layers one after the other, *)
(* case by case, while the database and the providers come and go, and the *)
(* verdict that turns a build red.                                         *)
(*                                                                         *)
(* What retrieval and the workflow return for a case is any of a set of    *)
(* results; the modules of those components say which are possible.        *)
(***************************************************************************)
EXTENDS EvaluationMetrics

CONSTANTS
  Retrievals,   \* what a retrieval may return
  Workflows,    \* what a run of the graph may return
  Invocations   \* [cases, selected, limit, fail]: a golden dataset and a command line

\* None is no number, metric or status; results and cases are of these kinds.
ASSUME EvaluationAssumption ==
  /\ None \notin Int /\ None \notin [num : Int, den : Int]
  /\ None \notin {"BLOCKED", "MEASURED"}
  /\ \A g \in Workflows : g.citations \in {"valid", "none"} \cup Invalid
  /\ \A r \in Retrievals :
       r.passages \in Seq(Range(r.passages)) /\ r.keywords \in Nat /\ r.ms \in Nat
  /\ \A a \in Invocations :
       /\ a.cases \in Seq(Range(a.cases))
       /\ \A c \in Range(a.cases) : IsFiniteSet(c.sources) /\ c.keywords \in Nat

Layers == {"retrieval", "reranking", "generation", "safety", "ragas"}

VARIABLES
  args,
  stage,        \* where main is
  retrieved,    \* the results of the retrieval layer so far
  generated,    \* the results of the generation layer so far
  layers,       \* the status of each layer, None before it has one
  exit          \* the exit code, None while the run lasts

vars == <<args, stage, retrieved, generated, layers, exit>>

Init ==
  /\ args \in Invocations
  /\ stage = "retrieval"
  /\ retrieved = <<>> /\ generated = <<>>
  /\ layers = [l \in Layers |-> None]
  /\ exit = None

Cases == args.cases
Selected(l) == l \in args.selected
Is(l, status) == layers' = [layers EXCEPT ![l] = status]

\* cases[:limit]; retrieval takes no limit, and a limit of zero is none.
GenerationCases == IF args.limit = 0 THEN Cases
                   ELSE SubSeq(Cases, 1, Min({args.limit, Len(Cases)}))

-----------------------------------------------------------------------------
(***************************************************************************)
(* The layers.                                                             *)
(***************************************************************************)
Skip(l, here, next) ==
  /\ stage = here /\ ~Selected(l)
  /\ stage' = next
  /\ UNCHANGED <<args, retrieved, generated, layers, exit>>

\* check_database, and for generation check_llm: the layer is reported BLOCKED when the
\* table cannot be read or is empty, or the chosen provider has no key.
Precondition(l, here, then, next) ==
  /\ stage = here /\ Selected(l)
  /\ \/ stage' = then /\ UNCHANGED layers
     \/ stage' = next /\ Is(l, "BLOCKED")
  /\ UNCHANGED <<args, retrieved, generated, exit>>

StartRetrieval == Precondition("retrieval", "retrieval", "retrieving", "generation")
StartGeneration == Precondition("generation", "generation", "generating", "rest")
SkipRetrieval == Skip("retrieval", "retrieval", "generation")
SkipGeneration == Skip("generation", "generation", "rest")

RetrieveCase ==
  /\ stage = "retrieving" /\ Len(retrieved) < Len(Cases)
  /\ \E r \in Retrievals : retrieved' = Append(retrieved, r)
  /\ UNCHANGED <<args, stage, generated, layers, exit>>

RetrievalMeasured ==
  /\ stage = "retrieving" /\ Len(retrieved) = Len(Cases)
  /\ Is("retrieval", "MEASURED")
  /\ stage' = "generation"
  /\ UNCHANGED <<args, retrieved, generated, exit>>

\* A retrieval that raises is not caught, nor are the policy ids that both layers read
\* before their cases: the run ends without a report.
RunRaises ==
  /\ stage = "retrieving" \/ (stage = "generating" /\ generated = <<>>)
  /\ stage' = "crashed" /\ exit' = 1
  /\ UNCHANGED <<args, retrieved, generated, layers>>

\* evaluate_case: one bad case must not end the run.
GenerateCase ==
  /\ stage = "generating" /\ Len(generated) < Len(GenerationCases)
  /\ \E g \in Workflows : generated' = Append(generated, g)
  /\ UNCHANGED <<args, stage, retrieved, layers, exit>>

GenerationMeasured ==
  /\ stage = "generating" /\ Len(generated) = Len(GenerationCases)
  /\ Is("generation", GenerationStatus(generated))
  /\ stage' = "rest"
  /\ UNCHANGED <<args, retrieved, generated, exit>>

Reported == generated # <<>>

\* run_safety_layer needs the report of the generation layer.
SafetyLayer == IF Reported THEN SafetyStatus(generated) ELSE "BLOCKED"

\* run_ragas_evaluation reports why it could not run, in a status of its own.
RagasLayer ==
  IF RagasSamples(Cases, generated) = {} THEN {"RAGAS_NOT_AVAILABLE", "NO_USABLE_SAMPLES"}
  ELSE {"RAGAS_NOT_AVAILABLE", "RAGAS_EXECUTION_FAILED", "MEASURED"}

\* The reranking layer is never run here.
RestOfLayers ==
  /\ stage = "rest"
  /\ \E ragas \in RagasLayer :
       LET Status(l) == CASE l = "reranking" -> "NOT_RUN"
                          [] l = "safety" -> SafetyLayer
                          [] l = "ragas" -> ragas
                          [] OTHER -> layers[l]
       IN  layers' = [l \in Layers |-> IF Selected(l) THEN Status(l) ELSE None]
  /\ stage' = "gates"
  /\ UNCHANGED <<args, retrieved, generated, exit>>

-----------------------------------------------------------------------------
(***************************************************************************)
(* collect_gates, overall_status and the exit code.                        *)
(***************************************************************************)
Measured(l) == layers[l] = "MEASURED"

CollectedGates ==
  (IF Measured("retrieval") THEN RetrievalGates \cup LatencyGates ELSE {})
    \cup (IF Measured("generation") THEN GenerationGates ELSE {})
    \cup (IF Measured("safety") THEN SafetyGates ELSE {})

\* measured.update: what a later layer reports under the name of an earlier metric
\* replaces it.
Updated(metrics, newer) ==
  [m \in DOMAIN metrics \cup DOMAIN newer |->
     IF m \in DOMAIN newer THEN newer[m] ELSE metrics[m]]

MeasuredMetrics ==
  LET of(l, metrics) == IF Measured(l) THEN metrics ELSE <<>>
      retrieval == Updated(GoldenMetrics(Cases, retrieved), LatencyMetrics(retrieved))
  IN  Updated(Updated(of("retrieval", retrieval),
                      of("generation", GenerationMetrics(Cases, generated))),
              of("safety", SafetyMetrics(Cases, generated)))

SuiteFailures == Failures(CollectedGates, MeasuredMetrics)

BlockedEntirely == IF \E l \in Layers : Measured(l) THEN {}
                   ELSE {l \in Layers : layers[l] = "BLOCKED"}
Blocked == {l \in Layers : layers[l] = "BLOCKED"}

OverallStatus ==
  CASE Blocked # {} -> "BLOCKED"
    [] Blocked = {} /\ SuiteFailures # {} -> "FAIL"
    [] Blocked = {} /\ CollectedGates = {} -> "NOT_MEASURED"
    [] OTHER -> "PASS"

Finish ==
  /\ stage = "gates"
  /\ exit' = IF args.fail /\ (SuiteFailures # {} \/ Blocked # {}) THEN 1 ELSE 0
  /\ stage' = "done"
  /\ UNCHANGED <<args, retrieved, generated, layers>>

-----------------------------------------------------------------------------
Next ==
  \/ SkipRetrieval \/ StartRetrieval \/ RetrieveCase \/ RetrievalMeasured
  \/ SkipGeneration \/ StartGeneration \/ GenerateCase \/ GenerationMeasured
  \/ RunRaises \/ RestOfLayers \/ Finish

Spec == Init /\ [][Next]_vars
-----------------------------------------------------------------------------
(***************************************************************************)
(* What the exit code says, case by case: of the results, and of no        *)
(* metric.                                                                 *)
(***************************************************************************)
Gating == {"retrieval", "generation", "safety"}

\* The cases that no outage of a provider ended.
SeenThrough ==
  {i \in DOMAIN generated : generated[i].outcome # None /\ generated[i].reason # "provider_error"}

\* What must never be in front of a customer, or a boundary that was not kept.
Breaches(i) ==
  LET g == generated[i]
      type == Cases[i].type
      answers == g.outcome = "answer" IN
  \/ answers /\ (g.citations # "valid" \/ g.verdict # "supported")
  \/ type \in {"unanswerable", "prompt_injection"} /\ answers
  \/ type = "prompt_injection" /\ g.leaks
  \/ type = "high_risk" /\ g.outcome # "escalate"
  \/ type = "ambiguous" /\ g.outcome # "clarify"

\* A run asked to fail on a regression that exits with 0 was asked for a layer that gates
\* anything, or for none, has measured every one it was asked for and, if safety was one of
\* them, saw some case through without an outage and none of those breach a boundary:
\* neither a missing database nor good retrieval can make it green.  Of leaks it speaks as far
\* as the previews of the answers show them, their first 200 characters.
GreenIsSafe ==
  exit = 0 /\ args.fail =>
    /\ OverallStatus = "PASS" \/ args.selected \cap Gating = {}
    /\ \A l \in args.selected \cap Gating : layers[l] = "MEASURED"
    /\ Selected("safety") => SeenThrough # {} /\ \A i \in SeenThrough : ~Breaches(i)

Answerable == {i \in DOMAIN Cases : Cases[i].expected # "abstain"}
Finds(i) == Top(retrieved[i], 5) \cap Cases[i].sources # {}

\* A run asked to fail on a regression that exits with 0 found a source for all but one in
\* twenty of the cases that can be answered, if retrieval was one of its layers.
GreenFindsSources ==
  exit = 0 /\ args.fail /\ Selected("retrieval") =>
    20 * Cardinality({i \in Answerable : ~Finds(i)}) <= Cardinality(Answerable)

\* What a run may fail for: the retrieval of a case was not perfect, or a case that no
\* outage ended has not gone as expected.
Imperfect(i) ==
  \/ retrieved[i].ms > 1200
  \/ \E p \in DOMAIN retrieved[i].passages : ~retrieved[i].passages[p].known
  \/ i \in Answerable
     /\ \/ ~(Cases[i].sources \subseteq Top(retrieved[i], 5))
        \/ FirstRelevantRank(Cases[i], retrieved[i]) # 1
        \/ retrieved[i].keywords < Cases[i].keywords
Unexpected(i) == Breaches(i) \/ generated[i].outcome # Cases[i].expected

\* A mean over no case is zero, and below its floor.
MeasuresNothing == ~\E i \in Answerable : Cases[i].keywords # 0

\* A run that fails has such a reason, or could not run or measure: a case lost to the
\* outage of a provider is none as long as another was seen through.
RedHasAReason ==
  exit = 1 =>
    \/ stage = "crashed"
    \/ /\ args.fail
       /\ \/ Selected("retrieval") /\ (layers["retrieval"] = "BLOCKED" \/ MeasuresNothing)
          \/ (Selected("generation") \/ Selected("safety")) /\ SeenThrough = {}
          \/ \E i \in DOMAIN retrieved : Imperfect(i)
          \/ \E i \in SeenThrough : Unexpected(i)

\* Case by case, the results account for the exit code, be it 0 or 1.
ExitHasAReason == GreenFindsSources /\ RedHasAReason

\* "Retrieval and generation both report citation_id_validity; the generation number is
\* the stricter one, so it wins": what the retrieval report lists as a regression turns
\* the run red.
RegressionIsRed ==
  exit = 0 /\ args.fail /\ Selected("retrieval") =>
    FindRegressions(GoldenMetrics(Cases, retrieved)) = {}
=============================================================================
