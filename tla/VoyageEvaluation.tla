--------------------------- MODULE VoyageEvaluation ---------------------------
(***************************************************************************)
(* The two scripts that try Voyage's reranker on the golden cases, each    *)
(* one process from its command line to its exit code:                     *)
(* calibrate_voyage_confidence.py, which fits a threshold, and             *)
(* evaluate_voyage_evidence_ablation.py, which runs three ways of judging  *)
(* the same Voyage passages.  Both call Voyage through one retry loop that *)
(* only waits for rate limits.                                             *)
(*                                                                         *)
(* Each path of the ablation has a route and a budget of its own           *)
(* (ExecutionBudget), and a refusal of that budget is a RuntimeError: who  *)
(* catches it decides whether a stage fails closed or the run is given up. *)
(* What retrieval, Voyage, the local model and the providers say is free.  *)
(* args.order is the order in which their hashes put the cases.            *)
(***************************************************************************)
EXTENDS ExecutionBudget, VoyageConfidence

CONSTANTS
  None,
  NumProviders,   \* len(route.candidates)
  ScoreLists,     \* the scores Voyage may return for a case
  Invocations     \* command lines, each with the dataset it is run on

\* None is not an exit code, and a score is a number.
ASSUME VoyageAssumption == None \notin 0..2 /\ ScoreLists \subseteq Seq(Int)

Calibration == "calibration"
Ablation == "ablation"
Paths == {"candidate", "enhanced_candidate", "baseline"}

VARIABLES
  args,
  stage,          \* where the script is
  cases,          \* the selected cases, as positions in the dataset
  records,        \* calibration: the cases measured so far
  profile,        \* the threshold that was chosen
  cited,          \* answers found by the live citation check
  retries,        \* rate limits Voyage answered this case with
  gate,           \* candidate_gate.permitted of this case
  path,           \* the path being evaluated
  call,           \* its provider call: "idle", "sent", "failed", "refused"
  route_index,    \* its route, counted from 1
  results,        \* the PathEvaluations so far, each with the stages that lost their reply
  exit            \* the exit code, None while the script runs

callVars == <<call, route_index>>
pathVars == <<budgetVars, callVars>>
vars == <<args, stage, cases, records, profile, cited, retries, gate, path, pathVars,
          results, exit>>

Init ==
  /\ args \in Invocations
  /\ stage = "options" /\ cases = <<>> /\ records = <<>> /\ profile = None /\ cited = <<>>
  /\ retries = 0 /\ gate = TRUE /\ path = None
  /\ BudgetInit /\ call = "idle" /\ route_index = 1
  /\ results = [p \in Paths |-> <<>>]
  /\ exit = None

Exits(code) == stage' = "exited" /\ exit' = code
\* main turns every RuntimeError into exit 2; any other exception is a traceback.
Blocked == Exits(2)
Raised == Exits(1)

-----------------------------------------------------------------------------
(***************************************************************************)
(* The command line and the selection.                                     *)
(***************************************************************************)
Explicit == args.ids # <<>>
Stratified == args.counts # <<>>

\* parser.error: live calls must be confirmed, and one way of selecting be chosen.
OptionsValid ==
  /\ args.confirmed
  /\ Explicit => args.limit = 0 /\ ~Stratified
  /\ Stratified => args.limit = 0

\* The selections that the options may lead to; none when the selection raises.
Selections ==
  IF Explicit THEN IF ExplicitIsValid(args.dataset, args.ids) THEN {args.ids} ELSE {}
  ELSE IF ~Stratified THEN {SelectCases(args.dataset, args.limit)}
  ELSE IF CountsAvailable(args.dataset, args.counts[1], args.counts[2])
       THEN StratifiedSelections(args.dataset, args.counts[1], args.counts[2]) ELSE {}

RejectOptions ==
  /\ stage = "options" /\ ~OptionsValid
  /\ Blocked
  /\ UNCHANGED <<args, cases, records, profile, cited, retries, gate, path, pathVars,
                 results>>

SelectionRaises ==
  /\ stage = "options" /\ OptionsValid /\ Selections = {}
  /\ Raised
  /\ UNCHANGED <<args, cases, records, profile, cited, retries, gate, path, pathVars,
                 results>>

\* Without a case, or without Voyage configured and allowed, nothing is called.
Start ==
  /\ stage = "options" /\ OptionsValid
  /\ cases' \in Selections
  /\ IF cases' = <<>> \/ ~args.configured THEN Blocked
     ELSE stage' = "retrieve" /\ UNCHANGED exit
  /\ UNCHANGED <<args, records, profile, cited, retries, gate, path, pathVars, results>>

-----------------------------------------------------------------------------
(***************************************************************************)
(* The loop over the cases, as far as both scripts share it.               *)
(***************************************************************************)
Done == IF args.script = Calibration THEN Len(records) ELSE Len(results["baseline"])
Current == cases[Done + 1]
Expected == args.dataset[Current].expected

\* retriever.retrieve, after which Voyage is paced.
Retrieve ==
  /\ stage = "retrieve"
  /\ stage' = "voyage"
  /\ UNCHANGED <<args, cases, records, profile, cited, retries, gate, path, pathVars,
                 results, exit>>

RetrieveRaises ==
  /\ stage = "retrieve"
  /\ Raised
  /\ UNCHANGED <<args, cases, records, profile, cited, retries, gate, path, pathVars,
                 results>>

\* rerank_voyage_with_rate_limit_retry: only a 429 is tried again.
RetryVoyage ==
  /\ stage = "voyage" /\ retries < args.maxRetries
  /\ retries' = retries + 1
  /\ UNCHANGED <<args, stage, cases, records, profile, cited, gate, path, pathVars,
                 results, exit>>

\* No candidates, a failure of another kind, or one rate limit too many: a case without
\* Voyage's order ends the run.
VoyageFails ==
  /\ stage = "voyage"
  /\ Blocked
  /\ UNCHANGED <<args, cases, records, profile, cited, retries, gate, path, pathVars,
                 results>>

-----------------------------------------------------------------------------
(***************************************************************************)
(* Calibration.                                                            *)
(***************************************************************************)
\* Whether the local model would let the case through is reported, and decides nothing.
CalibrateCase ==
  /\ stage = "voyage" /\ args.script = Calibration
  /\ \E scores \in ScoreLists :
       records' = Append(records,
         [expected |-> Expected, scores |-> scores,
          split |-> SplitOf(args.dataset, cases, args.order, Current)])
  /\ stage' = IF Len(records') = Len(cases) THEN "choose" ELSE "retrieve"
  /\ retries' = 0
  /\ UNCHANGED <<args, cases, profile, cited, gate, path, pathVars, results, exit>>

\* The local model is unavailable: its ranking is part of every record.
CalibrationWithoutLocal ==
  /\ stage = "voyage" /\ args.script = Calibration
  /\ Blocked
  /\ UNCHANGED <<args, cases, records, profile, cited, retries, gate, path, pathVars,
                 results>>

\* Where none of the records it may choose by has a top score the script ends with 2, as after
\* VoyageFails: left out; in the run every case has one.
ChooseProfile ==
  /\ stage = "choose"
  /\ profile' = ChooseSafetyFirstProfile(records, SelectionRecords(records, DOMAIN records),
                                         args.minimumRecall, args.maximumFalsePermits)
  /\ stage' = IF args.withLLM /\ profile'.valid THEN "cite" ELSE "report"
  /\ UNCHANGED <<args, cases, records, cited, retries, gate, path, pathVars, results,
                 exit>>

\* _citation_evaluation, outside of any budget: a case the profile lets through is
\* answered when a draft was generated and verified.
Cite ==
  /\ stage = "cite"
  /\ LET record == records[Len(cited) + 1]
         permitted == Permits(record.scores, profile.threshold)
     IN  \E answer \in BOOLEAN :
           /\ answer => permitted
           /\ cited' = Append(cited, [permitted |-> permitted, answer |-> answer])
  /\ stage' = IF Len(cited') = Len(records) THEN "report" ELSE "cite"
  /\ UNCHANGED <<args, cases, records, profile, retries, gate, path, pathVars, results,
                 exit>>

\* A judge whose reply does not validate raises.
CiteRaises ==
  /\ stage = "cite"
  /\ Permits(records[Len(cited) + 1].scores, profile.threshold)
  /\ Raised
  /\ UNCHANGED <<args, cases, records, profile, cited, retries, gate, path, pathVars,
                 results>>

-----------------------------------------------------------------------------
(***************************************************************************)
(* The paths of the ablation.                                              *)
(***************************************************************************)
Fixed == UNCHANGED <<args, cases, records, profile, cited, retries, gate>>
SameRun == Fixed /\ UNCHANGED <<path, results, exit>>

\* A PathEvaluation; lost, no field of the code's, names the stages whose call, or
\* scoring, brought no usable reply.
Result(outcome, reason, failures, lost) ==
  [case |-> Current, outcome |-> outcome, reason |-> reason, failures |-> failures,
   lost |-> lost]

\* _evaluate_in_graph_context: a route and a budget for one path, dropped with it.
FreshContext ==
  /\ llm_calls_used' = 0 /\ exhausted_reason' = "none" /\ deadline_passed' = FALSE
  /\ UNCHANGED max_llm_calls
  /\ route_index' = 1 /\ call' = "idle"

\* The paths of a case come in this order, then the next case.
EndPath(result) ==
  /\ FreshContext
  /\ results' = [results EXCEPT ![path] = Append(@, result)]
  /\ CASE path = "candidate" -> path' = "enhanced_candidate" /\ stage' = "gate"
       [] path = "enhanced_candidate" -> path' = "baseline" /\ stage' = "bge"
       [] OTHER -> /\ path' = None
                   /\ stage' = IF Len(results[path]) + 1 = Len(cases) THEN "report"
                               ELSE "retrieve"
  /\ retries' = IF path = "baseline" THEN 0 ELSE retries
  /\ UNCHANGED <<args, cases, records, profile, cited, gate, exit>>

Abstains(reason, failures, lost) == EndPath(Result("abstain", reason, failures, lost))

\* Voyage answered: candidate_minimal_sanity_gate.
RankCase ==
  /\ stage = "voyage" /\ args.script = Ablation
  /\ gate' \in BOOLEAN
  /\ path' = "candidate" /\ stage' = "gate"
  /\ UNCHANGED <<args, cases, records, profile, cited, retries, pathVars, results, exit>>

PassGate ==
  /\ stage = "gate" /\ gate
  /\ stage' = "grade"
  /\ UNCHANGED pathVars /\ SameRun
RunCandidate == path = "candidate" /\ PassGate
RunEnhanced == path = "enhanced_candidate" /\ PassGate

FailGate ==
  /\ stage = "gate" /\ ~gate
  /\ Abstains("gate_rejected", {}, {})

\* score_fixed_order_with_diagnostics: the baseline has no gate, but needs its scores.
ScoreBaseline ==
  /\ stage = "bge"
  /\ stage' = "grade"
  /\ UNCHANGED pathVars /\ SameRun

BlockBaseline ==
  /\ stage = "bge"
  /\ Abstains("bge_confidence_unavailable", {"bge"}, {"bge"})

-----------------------------------------------------------------------------
(***************************************************************************)
(* A provider call of a path: the permit, the call, and its failover.      *)
(***************************************************************************)
Stages == {"grade", "generate", "verify"}

Reserve ==
  /\ stage \in Stages /\ call = "idle"
  /\ ReserveCall /\ call' = "sent"
  /\ UNCHANGED <<stage, route_index>> /\ SameRun

\* Nothing in a path catches the refusal of the permit it reserves itself.
RefuseReservation ==
  /\ stage \in Stages /\ call = "idle"
  /\ RefuseCall
  /\ Blocked
  /\ UNCHANGED <<callVars, path, results>> /\ Fixed

\* A retryable failure, with a candidate left and a permit for it.
FailOver ==
  /\ call = "sent" /\ route_index < NumProviders
  /\ ReserveCall
  /\ route_index' \in (route_index + 1)..NumProviders
  /\ UNCHANGED <<stage, call>> /\ SameRun

FallbackRefused ==
  /\ call = "sent" /\ route_index < NumProviders
  /\ RefuseCall
  /\ route_index' \in (route_index + 1)..NumProviders
  /\ call' = "refused"
  /\ UNCHANGED <<stage>> /\ SameRun

CallFails ==
  /\ call = "sent"
  /\ call' = "failed"
  /\ UNCHANGED <<budgetVars, stage, route_index>> /\ SameRun

Late ==
  /\ stage \in Stages
  /\ DeadlinePasses
  /\ UNCHANGED <<stage, callVars>> /\ SameRun

\* A reply that lets the path go on.
Hears == call' = "idle" /\ UNCHANGED <<budgetVars, route_index>>

-----------------------------------------------------------------------------
(***************************************************************************)
(* evaluate_path.                                                          *)
(***************************************************************************)
Sufficient ==
  /\ stage = "grade" /\ call = "sent"
  /\ Hears
  /\ stage' = "generate" /\ SameRun

\* The baseline's deterministic guard may reject before the call, whose permit is kept.
Insufficient ==
  /\ stage = "grade" /\ call = "sent"
  /\ Abstains("grader_rejected", {}, {})

\* How a call may end that leaves the graders without a verdict and still fails closed:
\* with a reply that is none, an outage, or, but for the baseline, a refused fallback.
CandidateClosesOn == {"sent", "failed", "refused"}
EnhancedClosesOn == {"sent", "failed", "refused"}
BaselineClosesOn == {"sent", "failed"}
ClosesOn ==
  CASE path = "candidate" -> CandidateClosesOn
    [] path = "enhanced_candidate" -> EnhancedClosesOn
    [] OTHER -> BaselineClosesOn

\* Mutation: a grader that fails is a grader that rejects.
GradeLostSilently ==
  /\ stage = "grade" /\ call \in ClosesOn
  /\ Abstains("grader_rejected", {}, {"grade"})

GradeLost ==
  /\ stage = "grade" /\ call \in ClosesOn
  /\ Abstains("grader_rejected", {"grade"}, {"grade"})

\* A verdict of the wrong shape is validated outside of every handler, and the enhanced
\* grader's own handler has no entry for a rejected key.
GradeRaises ==
  /\ stage = "grade"
  /\ IF path = "enhanced_candidate" THEN call = "failed" ELSE call = "sent"
  /\ Raised
  /\ UNCHANGED <<pathVars, path, results>> /\ Fixed

Drafted ==
  /\ stage = "generate" /\ call = "sent"
  /\ Hears
  /\ stage' = "verify" /\ SameRun

\* The model declined, or cited what it was not given.
Declined ==
  /\ stage = "generate" /\ call = "sent"
  /\ Abstains("generation_declined", {}, {})

\* provider_error, refused fallbacks included, or invalid_output.
DraftLost ==
  /\ stage = "generate" /\ call \in {"sent", "failed", "refused"}
  /\ Abstains("generation_failed", {"generate"}, {"generate"})

Unverified(lost) == Abstains("citation_verification_failed", {}, lost)
Verdict ==
  \/ EndPath(Result("answer", "verified_answer", {}, {}))
  \/ Unverified({})

\* Without a call: every claim is verbatim, or one is refuted by its tokens or uncited.
VerifyAlone ==
  /\ stage = "verify" /\ call = "idle"
  /\ Verdict

VerifyJudged ==
  /\ stage = "verify" /\ call = "sent"
  /\ Verdict

\* The judge failed or its batch is unusable: the claims are unsupported, the result
\* counts as checked, and no failure is recorded.
JudgeLost ==
  /\ stage = "verify" /\ call \in {"sent", "failed"}
  /\ Unverified({"verify"})

\* An item of the batch that does not validate raises.
VerifyRaises ==
  /\ stage = "verify" /\ call = "sent"
  /\ Raised
  /\ UNCHANGED <<pathVars, path, results>> /\ Fixed

\* Mutation: a refused fallback skips the case, and the report is written all the same.
RefusalSkipsCase ==
  /\ call = "refused"
  /\ stage = "verify" \/ (stage = "grade" /\ path = "baseline")
  /\ path' = None
  /\ stage' = IF Len(results["candidate"]) = Len(cases) THEN "report" ELSE "retrieve"
  /\ FreshContext /\ UNCHANGED <<results, exit>> /\ Fixed

\* grade_evidence of the baseline and judge_claim_batch raise a refusal again.
RefusalEscapes ==
  /\ call = "refused"
  /\ stage = "verify" \/ (stage = "grade" /\ path = "baseline")
  /\ Blocked
  /\ UNCHANGED <<pathVars, path, results>> /\ Fixed

-----------------------------------------------------------------------------
(***************************************************************************)
(* The report.                                                             *)
(***************************************************************************)
WriteReport ==
  /\ stage = "report"
  /\ Exits(0)
  /\ UNCHANGED <<args, cases, records, profile, cited, retries, gate, path, pathVars,
                 results>>

Classification(r) ==
  IF args.dataset[r.case].expected = "answer"
  THEN IF r.outcome = "answer" THEN "correct_answer" ELSE "unnecessary_abstention"
  ELSE IF r.outcome = "answer" THEN "unsafe_incorrect_answer" ELSE "correct_abstention"

\* aggregate_path: the counts that every rate of a path's summary is made of.
Summary(p) ==
  LET Those(class) == Count(results[p], LAMBDA r : Classification(r) = class)
      Because(reason) == Count(results[p], LAMBDA r : r.reason = reason)
      Failed(stg) == Count(results[p], LAMBDA r : stg \in r.failures) IN
  [total |-> Len(results[p]),
   correct |-> Those("correct_answer") + Those("correct_abstention"),
   unsafe |-> Those("unsafe_incorrect_answer"),
   unnecessary |-> Those("unnecessary_abstention"),
   unverified |-> Because("citation_verification_failed"),
   rejected |-> Because("grader_rejected"),
   failures |-> [stg \in {"grade", "generate", "bge"} |-> Failed(stg)]]

\* disagreement_diagnostics: the baseline's results beside the candidate's of the same case.
Beside(r) == {c \in Range(results["candidate"]) : c.case = r.case}
Disagreements ==
  {r.case : r \in {b \in Range(results["baseline"]) :
     \E c \in Beside(b) : <<b.outcome, b.reason>> # <<c.outcome, c.reason>>}}

\* safety_gate: a candidate must not give more unsafe answers than the baseline.
SafetyGate(p) == Summary(p).unsafe <= Summary("baseline").unsafe

-----------------------------------------------------------------------------
Next ==
  \/ RejectOptions \/ SelectionRaises \/ Start
  \/ Retrieve \/ RetrieveRaises \/ RetryVoyage \/ VoyageFails
  \/ CalibrateCase \/ CalibrationWithoutLocal \/ ChooseProfile \/ Cite \/ CiteRaises
  \/ RankCase \/ RunCandidate \/ RunEnhanced \/ FailGate \/ ScoreBaseline \/ BlockBaseline
  \/ Reserve \/ RefuseReservation \/ FailOver \/ FallbackRefused \/ CallFails \/ Late
  \/ Sufficient \/ Insufficient \/ GradeLost \/ GradeRaises
  \/ Drafted \/ Declined \/ DraftLost
  \/ VerifyAlone \/ VerifyJudged \/ JudgeLost \/ VerifyRaises \/ RefusalEscapes
  \/ WriteReport

Spec == Init /\ [][Next]_vars

-----------------------------------------------------------------------------
(***************************************************************************)
(* What a report may be relied on for.                                     *)
(***************************************************************************)
\* A report compares like with like: every selected case, in order, was measured by
\* calibration, or judged once by each of the three paths of the ablation.  A path that
\* runs out of its budget, or a case without Voyage, leaves no report and not a hole; so the
\* safety gate fails only for a case that a path answered and the baseline did not.
ReportIsWhole ==
  exit = 0 =>
    IF args.script = Calibration
    THEN /\ profile.valid \in BOOLEAN /\ Len(records) = Len(cases)
         /\ \A i \in DOMAIN records : records[i].expected = args.dataset[cases[i]].expected
    ELSE \A p \in Paths :
           /\ Len(results[p]) = Len(cases)
           /\ \A i \in DOMAIN results[p] : results[p][i].case = cases[i]
           /\ Summary(p).correct + Summary(p).unsafe + Summary(p).unnecessary = Len(cases)
           /\ ~SafetyGate(p) =>
                \E i \in DOMAIN results[p] :
                  /\ results[p][i].outcome = "answer" /\ args.dataset[cases[i]].expected # "answer"
                  /\ results["baseline"][i].outcome = "abstain"
                  /\ p = "candidate" => cases[i] \in Disagreements

\* A path that lost the reply of its grader or generator, or the local scores, has not
\* answered and says so in provider_failures; a path that lost nothing reports nothing.
OutagesAreRecorded ==
  \A p \in Paths : \A i \in DOMAIN results[p] :
    LET r == results[p][i] IN
    /\ r.lost # {} => r.outcome = "abstain"
    /\ r.lost \ {"verify"} # {} => r.failures # {}
    /\ r.failures \subseteq r.lost

-----------------------------------------------------------------------------
(***************************************************************************)
(* What the profile may be relied on for.                                  *)
(***************************************************************************)
Fitting == {i \in DOMAIN records : records[i].split = "calibration"}
Answers == {i \in Fitting : records[i].expected = "answer"}
Abstentions == {i \in Fitting : records[i].expected = "abstain"}

BestScores == {Head(records[i].scores) : i \in {j \in Fitting : records[j].scores # <<>>}}
LetThrough(S, t) == {i \in S : records[i].scores # <<>> /\ Head(records[i].scores) >= t}

\* What both constraints ask of a threshold, and how good it is, in hits per case; the
\* recall of no cases is zero.
Satisfies(t) ==
  /\ 100 * Cardinality(LetThrough(Answers, t))
       >= args.minimumRecall * Max({1, Cardinality(Answers)})
  /\ 100 * Cardinality(LetThrough(Abstentions, t))
       <= args.maximumFalsePermits * Max({1, Cardinality(Abstentions)})
Balanced(t) ==
  Cardinality(LetThrough(Answers, t)) * Max({1, Cardinality(Abstentions)})
    + Cardinality(Abstentions \ LetThrough(Abstentions, t)) * Max({1, Cardinality(Answers)})

\* Every threshold from one best score to another, itself observed or not.  A lower one
\* lets through what the lowest of these does, and a higher one nothing.
Thresholds == UNION {UNION {low..high : high \in BestScores} : low \in BestScores}

\* The profile is the best any threshold can do on the calibration split: it meets both
\* constraints, no threshold that meets them is more accurate, and when none is chosen
\* none meets them.  Nothing of the other two splits enters into it, and only a profile
\* that was chosen is tried on live answers.
ProfileIsSafest ==
  /\ profile # None =>
       IF profile.valid
       THEN /\ Satisfies(profile.threshold)
            /\ \A t \in Thresholds : Satisfies(t) => Balanced(t) <= Balanced(profile.threshold)
       ELSE \A t \in Thresholds : ~Satisfies(t)
  /\ cited # <<>> => profile.valid
=============================================================================
