--------------------------- MODULE SelfHealingGraph ---------------------------
(***************************************************************************)
(* src/self_healing/graph.py: one request through the LangGraph workflow,  *)
(* with the speculative draft that a pool thread generates meanwhile.      *)
(*                                                                         *)
(* The graph thread runs one node at a time.  A node that calls a provider *)
(* or waits for one is split where another thread can run in between; the  *)
(* conditional edge after a node is a state function of the state the node *)
(* left, so a node's action ends with  pc' = Route...'.                    *)
(*                                                                         *)
(* Texts are abstracted to identities.  A query is which query it is, the  *)
(* retrieved chunks are which list of chunks they are (their chunk_ids), a *)
(* draft is the inputs it was generated from and the generation pass.      *)
(***************************************************************************)
EXTENDS ProviderCall

CONSTANTS
  MaxRetries,        \* settings.graph_max_retries
  MaxRegenerations,  \* settings.graph_max_regenerations
  Queries,           \* the question and what it may be rewritten to
  Question,          \* original_query
  Evidence,          \* non-empty chunk lists that retrieval may return
  GatePassing,       \* the inputs that passes_deterministic_gate accepts
  Settings,          \* the configurations explored, a subset of Configurations
  None               \* an absent draft, an empty chunk list, no inputs

Configurations ==
  [graph_use_llm : BOOLEAN,
   evidence_grading_mode : {"simple", "condition_aware"},
   graph_speculative_generation : BOOLEAN]

\* (current_query, chunk ids): _speculation_inputs.
Inputs == Queries \X (Evidence \cup {None})

Drafts == [inputs : Inputs, pass : 0..MaxRegenerations]

ASSUME GraphAssumption ==
  /\ MaxRetries \in Nat
  /\ MaxRegenerations \in Nat
  /\ Question \in Queries
  /\ GatePassing \subseteq Queries \X Evidence
  /\ Settings \subseteq Configurations
  /\ None \notin Queries \cup Evidence \cup Inputs \cup Drafts

VARIABLES
  settings,             \* get_settings(), fixed for the request
  pc,                   \* the node, or the wait inside a node, of the graph thread
  triage,               \* risk_level and ambiguity: "pending", "clear" or why it stopped
  current_query, retrieved_chunks, retry_count,
  evidence_grade,       \* verdict; on: history, the inputs that were graded
  answer_draft, generation_outcome, regeneration_count,
  verification_result,  \* verdict; of: history, the draft that was verified
  budget_exhausted, failure_reason,
  final_outcome, abstain_reason,
  speculation,          \* the future: inputs of the draft and what generation returned
  registered            \* the request has an entry in _speculations

evidenceVars == <<current_query, retrieved_chunks, retry_count>>
answerVars == <<answer_draft, generation_outcome, regeneration_count>>
flagVars == <<budget_exhausted, failure_reason>>
endVars == <<final_outcome, abstain_reason>>
specVars == <<speculation, registered>>
fixedVars == <<settings, triage>>

vars == <<budgetVars, routeVars, pc, evidenceVars, evidence_grade, answerVars,
          verification_result, flagVars, endVars, specVars, fixedVars>>

GenerationOutcomes ==
  {"answered", "insufficient_evidence", "provider_error", "invalid_output",
   "rejected_invalid_citation"}

AbstainReasons ==
  {"no_evidence", "insufficient_evidence", "retries_exhausted", "generation_failed",
   "unverified_citations", "provider_error", "request_budget_exhausted"}

FailureReasons ==
  {"none", "retrieval_failed", "declined"} \cup GenerationOutcomes \cup AbstainReasons

Nodes ==
  {"sanitize_and_classify", "risk_router", "ambiguity_detector", "hybrid_retrieve",
   "rerank", "evidence_grader", "query_rewriter", "generate_answer",
   "verify_citations", "finalize_answer", "abstain", "clarify", "escalate",
   "_count_regeneration"}

\* Waits inside a node, and what invoke does around the graph.
Waits == {"retrieving", "reranking", "speculate", "grading", "rewriting",
          "awaiting_draft", "generating", "judging"}
Around == {"boundary", "returning", "done", "crashed"}

\* _speculation_inputs of the state: what is graded, and what is generated from.
CurrentInputs == <<current_query, retrieved_chunks>>
GateAccepts == CurrentInputs \in GatePassing

Grade(verdict) == [verdict |-> verdict, on |-> CurrentInputs]
NoGrade == [verdict |-> "none", on |-> None]
NoVerification == [verdict |-> "none", of |-> None]
NoSpeculation == [inputs |-> None, outcome |-> "none"]

TypeOK ==
  /\ BudgetTypeOK
  /\ CallTypeOK
  /\ settings \in Configurations
  /\ pc \in Nodes \cup Waits \cup Around
  /\ triage \in {"pending", "clear", "escalate", "clarify"}
  /\ current_query \in Queries
  /\ retrieved_chunks \in Evidence \cup {None}
  /\ retry_count \in 0..MaxRetries
  /\ evidence_grade \in [verdict : {"none", "sufficient", "insufficient", "unavailable"},
                         on : Inputs \cup {None}]
  /\ answer_draft \in Drafts \cup {None}
  /\ generation_outcome \in GenerationOutcomes \cup {"none"}
  /\ regeneration_count \in 0..MaxRegenerations
  /\ verification_result \in [verdict : {"none", "supported", "unsupported", "unavailable"},
                              of : Drafts \cup {None}]
  /\ budget_exhausted \in BOOLEAN
  /\ failure_reason \in FailureReasons
  /\ final_outcome \in {"error", "answer", "clarify", "abstain", "escalate"}
  /\ abstain_reason \in AbstainReasons \cup {"none"}
  /\ speculation \in [inputs : Inputs \cup {None},
                      outcome : GenerationOutcomes \cup {"none", "pending", "raised"}]
  /\ registered \in BOOLEAN

\* initial_state, and the budget and route invoke creates for the request.
Init ==
  /\ BudgetInit
  /\ CallInit
  /\ settings \in Settings
  /\ pc = "sanitize_and_classify"
  /\ triage = "pending"
  /\ current_query = Question
  /\ retrieved_chunks = None
  /\ retry_count = 0
  /\ evidence_grade = NoGrade
  /\ answer_draft = None
  /\ generation_outcome = "none"
  /\ regeneration_count = 0
  /\ verification_result = NoVerification
  /\ budget_exhausted = FALSE
  /\ failure_reason = "none"
  /\ final_outcome = "error"
  /\ abstain_reason = "none"
  /\ speculation = NoSpeculation
  /\ registered = FALSE

-----------------------------------------------------------------------------
(***************************************************************************)
(* Routing: pure functions of the state.  The first operators are          *)
(* mutations of the ones that follow.                                      *)
(***************************************************************************)
MayRetry == retry_count < MaxRetries

MayRegenerate == regeneration_count < MaxRegenerations

RouteAfterGradingRetriesOutage ==
  IF budget_exhausted THEN "abstain"
  ELSE IF evidence_grade.verdict = "sufficient" THEN "generate_answer"
  ELSE IF MayRetry THEN "query_rewriter" ELSE "abstain"
RouteAfterGradingIgnoresBudget ==
  IF evidence_grade.verdict = "sufficient" THEN "generate_answer"
  ELSE IF evidence_grade.verdict = "insufficient" /\ MayRetry
       THEN "query_rewriter" ELSE "abstain"

RouteAfterGrading ==
  IF budget_exhausted \/ evidence_grade.verdict = "unavailable" THEN "abstain"
  ELSE IF evidence_grade.verdict = "sufficient" THEN "generate_answer"
  ELSE IF MayRetry THEN "query_rewriter" ELSE "abstain"

RouteAfterGeneration ==
  IF budget_exhausted THEN "abstain"
  ELSE IF generation_outcome = "answered" /\ answer_draft # None THEN "verify_citations"
  ELSE IF generation_outcome = "rejected_invalid_citation" /\ MayRegenerate
       THEN "_count_regeneration" ELSE "abstain"

RouteAfterVerificationIgnoresVerdict ==
  IF budget_exhausted \/ verification_result.verdict = "unavailable" THEN "abstain"
  ELSE "finalize_answer"

RouteAfterVerification ==
  IF budget_exhausted \/ verification_result.verdict = "unavailable" THEN "abstain"
  ELSE IF verification_result.verdict = "supported" THEN "finalize_answer"
  ELSE IF MayRegenerate THEN "_count_regeneration" ELSE "abstain"

-----------------------------------------------------------------------------
(***************************************************************************)
(* What nodes share.                                                       *)
(***************************************************************************)

\* _budget_exhausted_update.
BudgetExhaustedUpdate ==
  /\ budget_exhausted' = TRUE
  /\ failure_reason' = "request_budget_exhausted"

\* _provider_permit for thread t.
Reserve(t) ==
  /\ ReserveCall
  /\ call' = [call EXCEPT ![t] = Permit]
  /\ UNCHANGED <<route_index, calls_made, forgiven>>

\* A node takes what its chain returned; the slot stays spent.
Collect(t) ==
  /\ call' = [call EXCEPT ![t] = NoCall]
  /\ UNCHANGED <<budgetVars, route_index, calls_made, forgiven>>

\* ... or hands one slot back, which forgives a call if one was sent.
CollectAndRelease(t, sent) ==
  /\ ReleaseCall
  /\ call' = [call EXCEPT ![t] = NoCall]
  /\ forgiven' = forgiven + sent
  /\ UNCHANGED <<route_index, calls_made>>

-----------------------------------------------------------------------------
(***************************************************************************)
(* Before retrieval: the deterministic routers.                            *)
(***************************************************************************)
Sanitize ==
  /\ pc = "sanitize_and_classify"
  /\ pc' = "risk_router"
  /\ UNCHANGED <<budgetVars, routeVars, evidenceVars, evidence_grade, answerVars,
                 verification_result, flagVars, endVars, specVars, fixedVars>>

RiskRouter ==
  /\ pc = "risk_router"
  /\ \/ triage' = "escalate" /\ pc' = "escalate"
     \/ UNCHANGED triage /\ pc' = "ambiguity_detector"
  /\ UNCHANGED <<budgetVars, routeVars, evidenceVars, evidence_grade, answerVars,
                 verification_result, flagVars, endVars, specVars, settings>>

AmbiguityDetector ==
  /\ pc = "ambiguity_detector"
  /\ \/ triage' = "clarify" /\ pc' = "clarify"
     \/ triage' = "clear" /\ pc' = "hybrid_retrieve"
  /\ UNCHANGED <<budgetVars, routeVars, evidenceVars, evidence_grade, answerVars,
                 verification_result, flagVars, endVars, specVars, settings>>

-----------------------------------------------------------------------------
(***************************************************************************)
(* Retrieval and reranking.                                                *)
(***************************************************************************)
HybridRetrieve ==
  /\ pc = "hybrid_retrieve"
  /\ \/ RefuseLate /\ BudgetExhaustedUpdate /\ pc' = "rerank"
     \/ TimeRemains /\ UNCHANGED flagVars /\ pc' = "retrieving"
  /\ UNCHANGED <<routeVars, evidenceVars, evidence_grade, answerVars,
                 verification_result, endVars, specVars, fixedVars>>

\* Chunks found too late are dropped, an outage is not: it empties the list.
RetrieveDone ==
  /\ pc = "retrieving"
  /\ pc' = "rerank"
  /\ \/ RefuseLate /\ BudgetExhaustedUpdate /\ UNCHANGED retrieved_chunks
     \/ /\ TimeRemains
        /\ retrieved_chunks' \in Evidence \cup {None}
        /\ UNCHANGED flagVars
     \/ /\ retrieved_chunks' = None
        /\ failure_reason' = "retrieval_failed"
        /\ UNCHANGED <<budgetVars, budget_exhausted>>
  /\ UNCHANGED <<routeVars, current_query, retry_count, evidence_grade, answerVars,
                 verification_result, endVars, specVars, fixedVars>>

Rerank ==
  /\ pc = "rerank"
  /\ \/ RefuseLate /\ BudgetExhaustedUpdate /\ pc' = "evidence_grader"
     \/ /\ TimeRemains
        /\ pc' = IF retrieved_chunks = None THEN "evidence_grader" ELSE "reranking"
        /\ UNCHANGED flagVars
  /\ UNCHANGED <<routeVars, evidenceVars, evidence_grade, answerVars,
                 verification_result, endVars, specVars, fixedVars>>

\* The reranker reorders and truncates: another list, never an empty one.
RerankDone ==
  /\ pc = "reranking"
  /\ pc' = "evidence_grader"
  /\ \/ RefuseLate /\ BudgetExhaustedUpdate /\ UNCHANGED retrieved_chunks
     \/ TimeRemains /\ retrieved_chunks' \in Evidence /\ UNCHANGED flagVars
  /\ UNCHANGED <<routeVars, current_query, retry_count, evidence_grade, answerVars,
                 verification_result, endVars, specVars, fixedVars>>

-----------------------------------------------------------------------------
(***************************************************************************)
(* evidence_grader.  It reserves its own call before it bets one on a      *)
(* speculative draft, then asks the grader.                                *)
(***************************************************************************)
NeedsGrader == settings.graph_use_llm /\ retrieved_chunks # None

EvidenceGrader ==
  /\ pc = "evidence_grader"
  /\ UNCHANGED <<evidenceVars, answerVars, verification_result, endVars, specVars, fixedVars>>
  /\ \/ /\ NeedsGrader
        /\ Reserve("node")
        /\ UNCHANGED <<evidence_grade, flagVars>>
        /\ pc' = "speculate"
     \/ /\ IF NeedsGrader THEN RefuseCall ELSE RefuseLate
        /\ BudgetExhaustedUpdate
        /\ UNCHANGED <<routeVars, evidence_grade>>
        /\ pc' = RouteAfterGrading'
     \/ /\ ~NeedsGrader
        /\ TimeRemains
        /\ evidence_grade' = Grade("insufficient")
        /\ UNCHANGED <<routeVars, flagVars>>
        /\ pc' = RouteAfterGrading'

HeadroomForTheRetryAlone == max_llm_calls - llm_calls_used >= 2

\* _SPECULATION_MIN_REMAINING_CALLS: the bet, and a rewrite and a re-grade.
BudgetHasHeadroom == max_llm_calls - llm_calls_used >= 3

SpeculatesOnRetry ==
  /\ settings.graph_speculative_generation
  /\ settings.graph_use_llm
  /\ retrieved_chunks # None
  /\ GateAccepts
  /\ BudgetHasHeadroom

ShouldSpeculate ==
  /\ settings.graph_speculative_generation
  /\ settings.graph_use_llm
  /\ retrieved_chunks # None
  /\ retry_count = 0
  /\ regeneration_count = 0
  /\ GateAccepts
  /\ BudgetHasHeadroom

\* A refused reservation gives up the bet, not the request.
Speculate ==
  /\ pc = "speculate"
  /\ pc' = "grading"
  /\ \/ /\ ShouldSpeculate
        /\ Reserve("draft")
        /\ speculation' = [inputs |-> CurrentInputs, outcome |-> "pending"]
        /\ registered' = TRUE
     \/ ShouldSpeculate /\ RefuseCall /\ UNCHANGED <<routeVars, specVars>>
     \/ ~ShouldSpeculate /\ UNCHANGED <<budgetVars, routeVars, specVars>>
  /\ UNCHANGED <<evidenceVars, evidence_grade, answerVars, verification_result,
                 flagVars, endVars, fixedVars>>

\* The grader ends with this verdict and this failure_reason.
GradedAs(verdict, reason) ==
  /\ pc = "grading"
  /\ evidence_grade' = Grade(verdict)
  /\ failure_reason' = reason
  /\ UNCHANGED <<evidenceVars, answerVars, verification_result, budget_exhausted,
                 endVars, specVars, fixedVars>>
  /\ pc' = RouteAfterGrading'

\* No passage is even marginally relevant: decided without the provider.
GradeIrrelevant ==
  /\ call["node"].st = "permit"
  /\ ~GateAccepts
  /\ CollectAndRelease("node", 0)
  /\ GradedAs("insufficient", failure_reason)

\* A usable reply; sufficiency is a conjunction with the deterministic gate.
GradeVerdict ==
  /\ call["node"].st = "answered"
  /\ Collect("node")
  /\ \/ GateAccepts /\ GradedAs("sufficient", failure_reason)
     \/ GradedAs("insufficient", failure_reason)

\* A reply of the wrong shape is no verdict; it counts as deterministic_only.
GradeMalformed ==
  /\ call["node"].st = "answered"
  /\ CollectAndRelease("node", 1)
  /\ GradedAs("unavailable", "provider_error")

\* The simple grader's reply is a dict that EvidenceGrade.model_validate rejects.
GradeCrash ==
  /\ pc = "grading"
  /\ settings.evidence_grading_mode = "simple"
  /\ call["node"].st = "answered"
  /\ Collect("node")
  /\ pc' = "crashed"
  /\ UNCHANGED <<evidenceVars, evidence_grade, answerVars, verification_result,
                 flagVars, endVars, specVars, fixedVars>>

\* The provider failed.  Only the condition-aware grader reads a refused
\* fallback as a failure of its provider.
GradeUnavailable ==
  /\ \/ call["node"].st = "failed"
     \/ call["node"].st = "refused" /\ settings.evidence_grading_mode = "condition_aware"
  /\ CollectAndRelease("node", 1)
  /\ GradedAs("unavailable", "provider_error")

\* _exception_category has no text for one category of failure: the KeyError is
\* caught by grade_evidence, which then records no failure_category.
GradeUnclassified ==
  /\ settings.evidence_grading_mode = "condition_aware"
  /\ call["node"].st = "failed"
  /\ CollectAndRelease("node", 1)
  /\ GradedAs("insufficient", failure_reason)

\* The simple grader re-raises ExecutionBudgetExceeded and no node handles it.
GradeRefused ==
  /\ pc = "grading"
  /\ settings.evidence_grading_mode = "simple"
  /\ call["node"].st = "refused"
  /\ Collect("node")
  /\ pc' = "boundary"
  /\ UNCHANGED <<evidenceVars, evidence_grade, answerVars, verification_result,
                 flagVars, endVars, specVars, fixedVars>>

-----------------------------------------------------------------------------
(***************************************************************************)
(* query_rewriter: one rewrite per retry.                                  *)
(***************************************************************************)
QueryRewriter ==
  /\ pc = "query_rewriter"
  /\ \/ /\ settings.graph_use_llm
        /\ Reserve("node")
        /\ UNCHANGED flagVars
        /\ pc' = "rewriting"
     \/ /\ IF settings.graph_use_llm THEN RefuseCall ELSE RefuseLate
        /\ BudgetExhaustedUpdate
        /\ UNCHANGED routeVars
        /\ pc' = "abstain"
     \/ /\ ~settings.graph_use_llm
        /\ TimeRemains
        /\ UNCHANGED <<routeVars, flagVars>>
        /\ pc' = "rewriting"
  /\ UNCHANGED <<evidenceVars, evidence_grade, answerVars, verification_result,
                 endVars, specVars, fixedVars>>

RetryUncounted == UNCHANGED retry_count

\* record_retry.
RecordRetry == retry_count' = retry_count + 1

\* Whatever the chain did, refused included, a rewrite comes out of it.
RewriteDone ==
  /\ pc = "rewriting"
  /\ settings.graph_use_llm => Returned("node")
  /\ Collect("node")
  /\ current_query' \in Queries
  /\ RecordRetry
  /\ pc' = "hybrid_retrieve"
  /\ UNCHANGED <<retrieved_chunks, evidence_grade, answerVars, verification_result,
                 flagVars, endVars, specVars, fixedVars>>

-----------------------------------------------------------------------------
(***************************************************************************)
(* generate_answer, from the speculative draft or afresh.                  *)
(***************************************************************************)

\* What generate_grounded_answer makes of a reply; it turns every exception of
\* the chain, a refused fallback included, into provider_error.
OutcomesOf(st) ==
  IF st = "answered" THEN GenerationOutcomes \ {"provider_error"} ELSE {"provider_error"}

FailureReasonKept(outcome) == IF outcome = "answered" THEN failure_reason ELSE outcome
FailureReasonOf(outcome) == IF outcome = "answered" THEN "none" ELSE outcome

Generated(outcome, inputs) ==
  /\ generation_outcome' = outcome
  /\ answer_draft' = IF outcome = "answered"
                     THEN [inputs |-> inputs, pass |-> regeneration_count] ELSE None
  /\ failure_reason' = FailureReasonOf(outcome)
  /\ UNCHANGED <<regeneration_count, budget_exhausted>>

TakesAnyDraft == registered

\* _take_speculation returns the future: it was generated from exactly this state.
DraftUsable ==
  /\ registered
  /\ speculation.inputs = CurrentInputs
  /\ regeneration_count = 0

\* Reserve and generate, or stop for want of a permit.
GenerateAfresh ==
  \/ Reserve("node") /\ UNCHANGED flagVars /\ pc' = "generating"
  \/ RefuseCall /\ BudgetExhaustedUpdate /\ UNCHANGED routeVars /\ pc' = "abstain"

GenerateAnswer ==
  /\ pc = "generate_answer"
  /\ \/ /\ RefuseLate
        /\ BudgetExhaustedUpdate
        /\ pc' = "abstain"
        /\ UNCHANGED <<routeVars, registered>>
     \/ /\ ~deadline_passed
        /\ registered' = FALSE
        /\ IF DraftUsable
           THEN pc' = "awaiting_draft" /\ UNCHANGED <<budgetVars, routeVars, flagVars>>
           ELSE GenerateAfresh
  /\ UNCHANGED <<evidenceVars, evidence_grade, answerVars, verification_result,
                 endVars, speculation, fixedVars>>

\* pending.result() returns or raises.
TakeDraft ==
  /\ pc = "awaiting_draft"
  /\ UNCHANGED <<evidenceVars, evidence_grade, verification_result, endVars, specVars,
                 fixedVars>>
  /\ \/ /\ speculation.outcome \in GenerationOutcomes
        /\ Generated(speculation.outcome, speculation.inputs)
        /\ UNCHANGED <<budgetVars, routeVars>>
        /\ pc' = RouteAfterGeneration'
     \/ /\ speculation.outcome = "raised"
        /\ GenerateAfresh
        /\ UNCHANGED answerVars

GenerateDone ==
  /\ pc = "generating"
  /\ Returned("node")
  /\ Collect("node")
  /\ \E outcome \in OutcomesOf(call["node"].st) : Generated(outcome, CurrentInputs)
  /\ UNCHANGED <<evidenceVars, evidence_grade, verification_result, endVars, specVars,
                 fixedVars>>
  /\ pc' = RouteAfterGeneration'

-----------------------------------------------------------------------------
(***************************************************************************)
(* verify_citations.  The claims that the deterministic gates do not       *)
(* settle go to the entailment judge in one budgeted call.                 *)
(***************************************************************************)
Verified(verdict) ==
  /\ verification_result' = [verdict |-> verdict, of |-> answer_draft]
  /\ UNCHANGED flagVars

VerifyCitations ==
  /\ pc = "verify_citations"
  /\ UNCHANGED <<evidenceVars, evidence_grade, answerVars, endVars, specVars, fixedVars>>
  /\ \/ /\ TimeRemains
        /\ \E verdict \in {"supported", "unsupported"} : Verified(verdict)
        /\ UNCHANGED routeVars
        /\ pc' = RouteAfterVerification'
     \/ /\ Reserve("node")
        /\ UNCHANGED <<verification_result, flagVars>>
        /\ pc' = "judging"
     \/ /\ RefuseCall
        /\ BudgetExhaustedUpdate
        /\ UNCHANGED <<routeVars, verification_result>>
        /\ pc' = RouteAfterVerification'

\* judge_claim_batch: a malformed or incomplete batch, like an unreachable
\* judge, leaves the draft unjudged.
JudgeDone ==
  /\ pc = "judging"
  /\ Collect("node")
  /\ UNCHANGED <<evidenceVars, evidence_grade, answerVars, endVars, specVars, fixedVars>>
  /\ \/ /\ call["node"].st = "answered"
        /\ \E verdict \in {"supported", "unsupported", "unavailable"} : Verified(verdict)
        /\ pc' = RouteAfterVerification'
     \/ /\ call["node"].st = "failed"
        /\ Verified("unavailable")
        /\ pc' = RouteAfterVerification'
     \/ /\ call["node"].st = "refused"
        /\ BudgetExhaustedUpdate
        /\ UNCHANGED verification_result
        /\ pc' = RouteAfterVerification'

\* EntailmentVerdict.model_validate rejects an item of the judge's reply.
JudgeCrash ==
  /\ pc = "judging"
  /\ call["node"].st = "answered"
  /\ Collect("node")
  /\ pc' = "crashed"
  /\ UNCHANGED <<evidenceVars, evidence_grade, answerVars, verification_result,
                 flagVars, endVars, specVars, fixedVars>>

CountRegeneration ==
  /\ pc = "_count_regeneration"
  /\ regeneration_count' = regeneration_count + 1
  /\ pc' = "generate_answer"
  /\ UNCHANGED <<budgetVars, routeVars, evidenceVars, evidence_grade, answer_draft,
                 generation_outcome, verification_result, flagVars, endVars, specVars,
                 fixedVars>>

-----------------------------------------------------------------------------
(***************************************************************************)
(* Terminal nodes, and what invoke does after the graph.                   *)
(***************************************************************************)
Terminal(outcome, why, reason) ==
  /\ pc' = "returning"
  /\ final_outcome' = outcome
  /\ abstain_reason' = why
  /\ failure_reason' = reason
  /\ UNCHANGED <<budgetVars, routeVars, evidenceVars, evidence_grade, answerVars,
                 verification_result, budget_exhausted, specVars, fixedVars>>

FinalizeAnswer == pc = "finalize_answer" /\ Terminal("answer", abstain_reason, failure_reason)

\* The declining node's own reason is text; "declined" stands for it.
Clarify == pc = "clarify" /\ Terminal("clarify", abstain_reason, "declined")
Escalate == pc = "escalate" /\ Terminal("escalate", abstain_reason, "declined")

AbstainReason ==
  IF budget_exhausted THEN "request_budget_exhausted"
  ELSE IF verification_result.verdict = "unavailable" THEN "provider_error"
  ELSE IF verification_result.verdict = "unsupported" THEN "unverified_citations"
  ELSE IF \/ failure_reason = "retrieval_failed"
          \/ generation_outcome \in {"provider_error", "invalid_output"}
       THEN "provider_error"
  ELSE IF answer_draft = None /\ generation_outcome # "none" THEN "generation_failed"
  ELSE IF retrieved_chunks = None THEN "no_evidence"
  ELSE IF retry_count >= MaxRetries /\ MaxRetries > 0 THEN "retries_exhausted"
  ELSE "insufficient_evidence"

Abstain ==
  /\ pc = "abstain"
  /\ Terminal("abstain", AbstainReason,
              IF failure_reason = "none" THEN AbstainReason ELSE failure_reason)

\* invoke's defensive boundary: the abstention is built from the initial state.
Boundary ==
  /\ pc = "boundary"
  /\ pc' = "returning"
  /\ triage' = "pending"
  /\ current_query' = Question
  /\ retrieved_chunks' = None
  /\ retry_count' = 0
  /\ evidence_grade' = NoGrade
  /\ answer_draft' = None
  /\ generation_outcome' = "none"
  /\ regeneration_count' = 0
  /\ verification_result' = NoVerification
  /\ BudgetExhaustedUpdate
  /\ final_outcome' = "abstain"
  /\ abstain_reason' = "request_budget_exhausted"
  /\ UNCHANGED <<budgetVars, routeVars, specVars, settings>>

\* _discard_speculation.
DiscardSpeculation == registered' = FALSE

\* The graph returned.  budget.snapshot() has the last word on budget_exhausted.
Finish ==
  /\ pc = "returning"
  /\ pc' = "done"
  /\ DiscardSpeculation
  /\ budget_exhausted' = (exhausted_reason # "none")
  /\ UNCHANGED <<budgetVars, routeVars, evidenceVars, evidence_grade, answerVars,
                 verification_result, failure_reason, endVars, speculation, fixedVars>>

-----------------------------------------------------------------------------
(***************************************************************************)
(* The threads and the clock.                                              *)
(***************************************************************************)
RequestVars == <<pc, evidenceVars, evidence_grade, answerVars, verification_result,
                 flagVars, endVars, specVars, fixedVars>>

\* The provider call of the node that is waiting for one.
NodeCall ==
  /\ pc \in {"grading", "rewriting", "generating", "judging"}
  /\ CallStep("node")
  /\ UNCHANGED RequestVars

DraftCall == CallStep("draft") /\ UNCHANGED RequestVars

\* The pool thread completes the future, discarded or not.
DraftDone ==
  /\ Returned("draft")
  /\ \E outcome \in OutcomesOf(call["draft"].st) \cup {"raised"} :
       speculation' = [speculation EXCEPT !.outcome = outcome]
  /\ Collect("draft")
  /\ UNCHANGED <<pc, evidenceVars, evidence_grade, answerVars, verification_result,
                 flagVars, endVars, registered, fixedVars>>

GraphStep ==
  \/ Sanitize \/ RiskRouter \/ AmbiguityDetector
  \/ HybridRetrieve \/ RetrieveDone \/ Rerank \/ RerankDone
  \/ EvidenceGrader \/ Speculate
  \/ GradeIrrelevant \/ GradeVerdict \/ GradeMalformed \/ GradeCrash
  \/ GradeUnavailable \/ GradeUnclassified \/ GradeRefused
  \/ QueryRewriter \/ RewriteDone
  \/ GenerateAnswer \/ TakeDraft \/ GenerateDone
  \/ VerifyCitations \/ JudgeDone \/ JudgeCrash \/ CountRegeneration
  \/ FinalizeAnswer \/ Abstain \/ Clarify \/ Escalate
  \/ Boundary \/ Finish
  \/ NodeCall

DraftStep == DraftCall \/ DraftDone

Clock == DeadlinePasses /\ UNCHANGED <<routeVars, RequestVars>>

\* The request is over and its draft thread has ended.
Terminated ==
  /\ pc \in {"done", "crashed"}
  /\ call["draft"].st = "idle"
  /\ UNCHANGED vars

Next == GraphStep \/ DraftStep \/ Clock \/ Terminated

Spec == Init /\ [][Next]_vars

(***************************************************************************)
(* Both threads keep running: every provider call, retrieval and rerank    *)
(* returns because a finite timeout bounds it, and a pool worker gets to   *)
(* the draft because the drafts before it end.  The deadline need not      *)
(* ever pass.                                                              *)
(***************************************************************************)
FairSpec == Spec /\ WF_vars(GraphStep) /\ WF_vars(DraftStep)
=============================================================================
