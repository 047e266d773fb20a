------------------------ MODULE SelfHealingGraphProofs ------------------------
(***************************************************************************)
(* Proofs about SelfHealingGraph, for every number of retries,             *)
(* regenerations, providers and permitted calls, and every set of queries, *)
(* chunk lists and settings.                                               *)
(*                                                                         *)
(* Each invariant is shown inductive by one step per action of Next; the   *)
(* action is named by the step's CASE, and the definitions it is built     *)
(* from are cited there.  The end of the module is about SpeculationPool,  *)
(* the drafts of all requests.                                             *)
(***************************************************************************)
EXTENDS GraphProperties, SpeculationPool, FiniteSetTheorems, TLAPS

USE AllowancesAssumption, NumProvidersAssumption, GraphAssumption
    DEF AllowancesAssumption, NumProvidersAssumption, GraphAssumption

\* The frame conditions, in every step below.
USE DEF budgetVars, routeVars, evidenceVars, answerVars, flagVars, endVars, specVars,
        fixedVars, RequestVars, vars

-----------------------------------------------------------------------------
(***************************************************************************)
(* Type correctness.  The counters stay in range because the nodes that    *)
(* advance them are entered only while the limit allows it, and a draft    *)
(* taken from the pool has the type of a draft because it is awaited only  *)
(* when it was generated from the current inputs.                          *)
(***************************************************************************)
CountersMayAdvance ==
  /\ pc \in {"query_rewriter", "rewriting"} => MayRetry
  /\ pc = "_count_regeneration" => MayRegenerate

AwaitedDraftIsCurrent == pc = "awaiting_draft" => speculation.inputs = CurrentInputs

TypeInv == TypeOK /\ CountersMayAdvance /\ AwaitedDraftIsCurrent

\* What is graded, and generated from, is a query with its chunks.
LEMMA CurrentInputsType == TypeOK => CurrentInputs \in Inputs /\ CurrentInputs # None
  BY DEF TypeOK, CurrentInputs, Inputs

\* The flags on their own: they need another prover than the counters.
FlagsOK ==
  /\ deadline_passed \in BOOLEAN
  /\ budget_exhausted \in BOOLEAN
  /\ registered \in BOOLEAN

\* The values that initial_state and the request's budget and route start from.
LEMMA InitTypeInv == Init => TypeInv
<1> SUFFICES ASSUME Init PROVE TypeInv
  OBVIOUS
<1>1. FlagsOK
  BY Zenon DEF Init, BudgetInit, FlagsOK
<1>2. BudgetTypeOK
  BY <1>1 DEF Init, BudgetInit, BudgetTypeOK, FlagsOK
<1>3. CallTypeOK
  BY DEF Init, CallInit, CallTypeOK, CallRecord, CallStates, NoCall, Threads
<1>4. TypeOK
  BY <1>1, <1>2, <1>3 DEF Init, TypeOK, FlagsOK, Nodes, NoGrade, NoVerification,
                          NoSpeculation, FailureReasons
<1> QED
  BY <1>4 DEF Init, TypeInv, CountersMayAdvance, AwaitedDraftIsCurrent

\* Every operation on the three flags sets them to a truth value.
LEMMA FlagsStep == ASSUME FlagsOK, Next PROVE FlagsOK'
  BY Zenon DEF FlagsOK, Next, GraphStep, DraftStep, Sanitize, RiskRouter,
     AmbiguityDetector, HybridRetrieve, RefuseLate, Exhaust, TimeRemains,
     BudgetExhaustedUpdate, RetrieveDone, Rerank, RerankDone, EvidenceGrader,
     Reserve, ReserveCall, Admits, RefuseCall, Grade, NeedsGrader,
     RouteAfterGrading, Speculate, ShouldSpeculate, GradeIrrelevant,
     CollectAndRelease, ReleaseCall, GradedAs, GradeVerdict, Collect,
     GradeMalformed, GradeCrash, GradeUnavailable, GradeUnclassified, GradeRefused,
     QueryRewriter, RewriteDone, RecordRetry, Returned, GenerateAnswer, DraftUsable,
     GenerateAfresh, TakeDraft, Generated, FailureReasonOf, RouteAfterGeneration,
     GenerateDone, OutcomesOf, VerifyCitations, Verified, RouteAfterVerification,
     JudgeDone, JudgeCrash, CountRegeneration, FinalizeAnswer, Terminal, Abstain,
     AbstainReason, Clarify, Escalate, Boundary, Finish, DiscardSpeculation,
     NodeCall, CallStep, ReadRoute, Send, Answer, Fail, AdvanceRoute, ClaimFallback,
     RefuseFallback, DraftCall, DraftDone, Clock, DeadlinePasses, Terminated

\* Every step of either thread, and of the clock, keeps the types.
LEMMA TypeStep == ASSUME TypeInv, [Next]_vars PROVE TypeInv'
<1> USE DEF TypeInv, TypeOK, BudgetTypeOK, CallTypeOK, CallRecord, CallStates, Threads,
            CountersMayAdvance, MayRetry, MayRegenerate, AwaitedDraftIsCurrent,
            CurrentInputs, Inputs, Drafts, Nodes, Waits, Around, ExhaustionReasons,
            FailureReasons, GenerationOutcomes, AbstainReasons, NoCall, Permit, FlagsOK
<1>0. FlagsOK'
  BY FlagsStep
<1>1. CASE Sanitize
  BY <1>1, <1>0 DEF Sanitize
<1>2. CASE RiskRouter
  BY <1>2, <1>0 DEF RiskRouter
<1>3. CASE AmbiguityDetector
  BY <1>3, <1>0 DEF AmbiguityDetector
<1>4. CASE HybridRetrieve
  BY <1>4, <1>0 DEF HybridRetrieve, RefuseLate, Exhaust, TimeRemains,
     BudgetExhaustedUpdate
<1>5. CASE RetrieveDone
  BY <1>5, <1>0 DEF RetrieveDone, RefuseLate, Exhaust, TimeRemains,
     BudgetExhaustedUpdate
<1>6. CASE Rerank
  BY <1>6, <1>0 DEF Rerank, RefuseLate, Exhaust, TimeRemains, BudgetExhaustedUpdate
<1>7. CASE RerankDone
  BY <1>7, <1>0 DEF RerankDone, RefuseLate, Exhaust, TimeRemains,
     BudgetExhaustedUpdate
<1>8. CASE EvidenceGrader
  BY <1>8, <1>0 DEF EvidenceGrader, Reserve, ReserveCall, Admits, RefuseCall,
     RefuseLate, Exhaust, TimeRemains, BudgetExhaustedUpdate, Grade, NeedsGrader,
     RouteAfterGrading
<1>9. CASE Speculate
  BY <1>9, <1>0 DEF Speculate, ShouldSpeculate, Reserve, ReserveCall, Admits,
     RefuseCall, Exhaust
<1>10. CASE GradeIrrelevant
  BY <1>10, <1>0 DEF GradeIrrelevant, CollectAndRelease, ReleaseCall, GradedAs,
     Grade, RouteAfterGrading
<1>11. CASE GradeVerdict
  BY <1>11, <1>0 DEF GradeVerdict, Collect, GradedAs, Grade, RouteAfterGrading
<1>12. CASE GradeMalformed
  BY <1>12, <1>0 DEF GradeMalformed, CollectAndRelease, ReleaseCall, GradedAs,
     Grade, RouteAfterGrading
<1>13. CASE GradeCrash
  BY <1>13, <1>0 DEF GradeCrash, Collect
<1>14. CASE GradeUnavailable
  BY <1>14, <1>0 DEF GradeUnavailable, CollectAndRelease, ReleaseCall, GradedAs,
     Grade, RouteAfterGrading
<1>15. CASE GradeUnclassified
  BY <1>15, <1>0 DEF GradeUnclassified, CollectAndRelease, ReleaseCall, GradedAs,
     Grade, RouteAfterGrading
<1>16. CASE GradeRefused
  BY <1>16, <1>0 DEF GradeRefused, Collect
<1>17. CASE QueryRewriter
  BY <1>17, <1>0 DEF QueryRewriter, Reserve, ReserveCall, Admits, RefuseCall,
     RefuseLate, Exhaust, TimeRemains, BudgetExhaustedUpdate
<1>18. CASE RewriteDone
  BY <1>18, <1>0 DEF RewriteDone, RecordRetry, Collect, Returned
<1>19. CASE GenerateAnswer
  BY <1>19, <1>0 DEF GenerateAnswer, DraftUsable, GenerateAfresh, Reserve,
     ReserveCall, Admits, RefuseCall, RefuseLate, Exhaust, BudgetExhaustedUpdate
<1>20. CASE TakeDraft
  <2>1. CASE speculation.outcome \in GenerationOutcomes
    <3>1. answer_draft' \in Drafts \cup {None}
      <4>1. /\ answer_draft' \in {None, [inputs |-> speculation.inputs,
                                         pass |-> regeneration_count]}
            /\ pc = "awaiting_draft"
        BY <1>20, <2>1 DEF TakeDraft, Generated
      <4>2. speculation.inputs \in Inputs /\ regeneration_count \in 0..MaxRegenerations
        BY <4>1, CurrentInputsType
      <4> QED
        BY <4>1, <4>2
    <3>2. failure_reason' \in FailureReasons
      BY <1>20, <2>1 DEF TakeDraft, Generated, FailureReasonOf
    <3> QED
      BY <1>20, <1>0, <2>1, <3>1, <3>2 DEF TakeDraft, Generated, RouteAfterGeneration
  <2>2. CASE speculation.outcome = "raised"
    BY <1>20, <1>0, <2>2 DEF TakeDraft, GenerateAfresh, Reserve, ReserveCall, Admits,
       RefuseCall, Exhaust, BudgetExhaustedUpdate
  <2> QED
    BY <1>20, <2>1, <2>2 DEF TakeDraft
<1>21. CASE GenerateDone
  BY <1>21, <1>0 DEF GenerateDone, Returned, Collect, OutcomesOf, Generated,
     FailureReasonOf, RouteAfterGeneration
<1>22. CASE VerifyCitations
  BY <1>22, <1>0 DEF VerifyCitations, Verified, Reserve, ReserveCall, Admits,
     RefuseCall, Exhaust, TimeRemains, BudgetExhaustedUpdate, RouteAfterVerification
<1>23. CASE JudgeDone
  BY <1>23, <1>0 DEF JudgeDone, Collect, Verified, BudgetExhaustedUpdate,
     RouteAfterVerification
<1>24. CASE JudgeCrash
  BY <1>24, <1>0 DEF JudgeCrash, Collect
<1>25. CASE CountRegeneration
  BY <1>25, <1>0 DEF CountRegeneration
<1>26. CASE FinalizeAnswer
  BY <1>26, <1>0 DEF FinalizeAnswer, Terminal
<1>27. CASE Abstain
  BY <1>27, <1>0 DEF Abstain, Terminal, AbstainReason
<1>28. CASE Clarify
  BY <1>28, <1>0 DEF Clarify, Terminal
<1>29. CASE Escalate
  BY <1>29, <1>0 DEF Escalate, Terminal
<1>30. CASE Boundary
  BY <1>30, <1>0 DEF Boundary, BudgetExhaustedUpdate, NoGrade, NoVerification
<1>31. CASE Finish
  BY <1>31, <1>0 DEF Finish, DiscardSpeculation
<1>32. CASE NodeCall
  BY <1>32, <1>0 DEF NodeCall, CallStep, ReadRoute, Send, Answer, Fail,
     AdvanceRoute, ClaimFallback, RefuseFallback, ReserveCall, Admits, RefuseCall,
     Exhaust
<1>33. CASE DraftCall
  BY <1>33, <1>0 DEF DraftCall, CallStep, ReadRoute, Send, Answer, Fail,
     AdvanceRoute, ClaimFallback, RefuseFallback, ReserveCall, Admits, RefuseCall,
     Exhaust
<1>34. CASE DraftDone
  BY <1>34, <1>0 DEF DraftDone, Returned, Collect, OutcomesOf
<1>35. CASE Clock
  BY <1>35, <1>0 DEF Clock, DeadlinePasses
<1>36. CASE Terminated
  BY <1>36, <1>0 DEF Terminated
<1>37. CASE UNCHANGED vars
  BY <1>37
<1> QED
  BY <1>1, <1>2, <1>3, <1>4, <1>5, <1>6, <1>7, <1>8, <1>9, <1>10, <1>11, <1>12,
     <1>13, <1>14, <1>15, <1>16, <1>17, <1>18, <1>19, <1>20, <1>21, <1>22, <1>23,
     <1>24, <1>25, <1>26, <1>27, <1>28, <1>29, <1>30, <1>31, <1>32, <1>33, <1>34,
     <1>35, <1>36, <1>37 DEF Next, GraphStep, DraftStep

(***************************************************************************)
(* Type correctness of the whole request, graph thread, draft thread,      *)
(* route and budget.                                                       *)
(***************************************************************************)
THEOREM TypeCorrect == Spec => []TypeOK
<1>1. TypeInv => TypeOK
  BY DEF TypeInv
<1> QED
  BY InitTypeInv, TypeStep, <1>1, PTL DEF Spec

-----------------------------------------------------------------------------
(***************************************************************************)
(* The answer is verified.  The argument follows the request: from         *)
(* generation on, the grade is sufficient for the inputs still in the      *)
(* state (a retry goes back to retrieval, and leaves this path); a draft   *)
(* under verification is of those inputs, the speculative one because      *)
(* _take_speculation compared them; and finalize_answer is reached only    *)
(* from a verdict on that draft.                                           *)
(***************************************************************************)
AnswerPath == {"generate_answer", "awaiting_draft", "generating", "verify_citations",
               "judging", "_count_regeneration", "finalize_answer"}

EvidenceInv ==
  /\ pc \in AnswerPath =>
       /\ evidence_grade = [verdict |-> "sufficient", on |-> CurrentInputs]
       /\ GateAccepts
  /\ pc \in {"verify_citations", "judging", "finalize_answer"} =>
       /\ answer_draft # None
       /\ answer_draft.inputs = CurrentInputs
       /\ failure_reason = "none"
  /\ pc = "finalize_answer" =>
       verification_result = [verdict |-> "supported", of |-> answer_draft]
  /\ final_outcome = "answer" => Over
  /\ AnswerIsVerified

\* A request starts with no answer.
LEMMA InitEvidenceInv == Init => EvidenceInv
  BY DEF Init, EvidenceInv, AnswerPath, Over, AnswerIsVerified

\* No step of either thread puts unapproved inputs under a draft on its way out.
LEMMA EvidenceStep == ASSUME TypeInv, EvidenceInv, [Next]_vars PROVE EvidenceInv'
<1> USE DEF EvidenceInv, AnswerPath, Over, AnswerIsVerified,
            CurrentInputs, GateAccepts, TypeInv, AwaitedDraftIsCurrent
<1>1. CASE Sanitize
  BY <1>1 DEF Sanitize
<1>2. CASE RiskRouter
  BY <1>2 DEF RiskRouter
<1>3. CASE AmbiguityDetector
  BY <1>3 DEF AmbiguityDetector
<1>4. CASE HybridRetrieve
  BY <1>4 DEF HybridRetrieve, RefuseLate, Exhaust, TimeRemains,
     BudgetExhaustedUpdate
<1>5. CASE RetrieveDone
  BY <1>5 DEF RetrieveDone, RefuseLate, Exhaust, TimeRemains, BudgetExhaustedUpdate
<1>6. CASE Rerank
  BY <1>6 DEF Rerank, RefuseLate, Exhaust, TimeRemains, BudgetExhaustedUpdate
<1>7. CASE RerankDone
  BY <1>7 DEF RerankDone, RefuseLate, Exhaust, TimeRemains, BudgetExhaustedUpdate
<1>8. CASE EvidenceGrader
  BY <1>8 DEF EvidenceGrader, Reserve, ReserveCall, Admits, RefuseCall, RefuseLate,
     Exhaust, TimeRemains, BudgetExhaustedUpdate, Grade, NeedsGrader,
     RouteAfterGrading
<1>9. CASE Speculate
  BY <1>9 DEF Speculate, ShouldSpeculate, Reserve, ReserveCall, Admits, RefuseCall,
     Exhaust
<1>10. CASE GradeIrrelevant
  BY <1>10 DEF GradeIrrelevant, CollectAndRelease, ReleaseCall, GradedAs, Grade,
     RouteAfterGrading
<1>11. CASE GradeVerdict
  BY <1>11 DEF GradeVerdict, Collect, GradedAs, Grade, RouteAfterGrading
<1>12. CASE GradeMalformed
  BY <1>12 DEF GradeMalformed, CollectAndRelease, ReleaseCall, GradedAs, Grade,
     RouteAfterGrading
<1>13. CASE GradeCrash
  BY <1>13 DEF GradeCrash, Collect
<1>14. CASE GradeUnavailable
  BY <1>14 DEF GradeUnavailable, CollectAndRelease, ReleaseCall, GradedAs, Grade,
     RouteAfterGrading
<1>15. CASE GradeUnclassified
  BY <1>15 DEF GradeUnclassified, CollectAndRelease, ReleaseCall, GradedAs, Grade,
     RouteAfterGrading
<1>16. CASE GradeRefused
  BY <1>16 DEF GradeRefused, Collect
<1>17. CASE QueryRewriter
  BY <1>17 DEF QueryRewriter, Reserve, ReserveCall, Admits, RefuseCall, RefuseLate,
     Exhaust, TimeRemains, BudgetExhaustedUpdate
<1>18. CASE RewriteDone
  BY <1>18 DEF RewriteDone, RecordRetry, Collect, Returned
<1>19. CASE GenerateAnswer
  BY <1>19 DEF GenerateAnswer, DraftUsable, GenerateAfresh, Reserve, ReserveCall,
     Admits, RefuseCall, RefuseLate, Exhaust, BudgetExhaustedUpdate
<1>20. CASE TakeDraft
  BY <1>20 DEF TakeDraft, Generated, FailureReasonOf, GenerateAfresh, Reserve,
     ReserveCall, Admits, RefuseCall, Exhaust, BudgetExhaustedUpdate,
     RouteAfterGeneration
<1>21. CASE GenerateDone
  BY <1>21 DEF GenerateDone, Returned, Collect, OutcomesOf, Generated,
     FailureReasonOf, RouteAfterGeneration
<1>22. CASE VerifyCitations
  BY <1>22 DEF VerifyCitations, Verified, Reserve, ReserveCall, Admits, RefuseCall,
     Exhaust, TimeRemains, BudgetExhaustedUpdate, RouteAfterVerification
<1>23. CASE JudgeDone
  BY <1>23 DEF JudgeDone, Collect, Verified, BudgetExhaustedUpdate,
     RouteAfterVerification
<1>24. CASE JudgeCrash
  BY <1>24 DEF JudgeCrash, Collect
<1>25. CASE CountRegeneration
  BY <1>25 DEF CountRegeneration
<1>26. CASE FinalizeAnswer
  BY <1>26 DEF FinalizeAnswer, Terminal
<1>27. CASE Abstain
  BY <1>27 DEF Abstain, Terminal, AbstainReason
<1>28. CASE Clarify
  BY <1>28 DEF Clarify, Terminal
<1>29. CASE Escalate
  BY <1>29 DEF Escalate, Terminal
<1>30. CASE Boundary
  BY <1>30 DEF Boundary, BudgetExhaustedUpdate
<1>31. CASE Finish
  BY <1>31 DEF Finish, DiscardSpeculation
<1>32. CASE NodeCall
  BY <1>32 DEF NodeCall, CallStep, ReadRoute, Send, Answer, Fail, AdvanceRoute,
     ClaimFallback, RefuseFallback, ReserveCall, Admits, RefuseCall, Exhaust
<1>33. CASE DraftCall
  BY <1>33 DEF DraftCall, CallStep, ReadRoute, Send, Answer, Fail, AdvanceRoute,
     ClaimFallback, RefuseFallback, ReserveCall, Admits, RefuseCall, Exhaust
<1>34. CASE DraftDone
  BY <1>34 DEF DraftDone, Returned, Collect, OutcomesOf
<1>35. CASE Clock
  BY <1>35 DEF Clock, DeadlinePasses
<1>36. CASE Terminated
  BY <1>36 DEF Terminated
<1>37. CASE UNCHANGED vars
  BY <1>37
<1> QED
  BY <1>1, <1>2, <1>3, <1>4, <1>5, <1>6, <1>7, <1>8, <1>9, <1>10, <1>11, <1>12,
     <1>13, <1>14, <1>15, <1>16, <1>17, <1>18, <1>19, <1>20, <1>21, <1>22, <1>23,
     <1>24, <1>25, <1>26, <1>27, <1>28, <1>29, <1>30, <1>31, <1>32, <1>33, <1>34,
     <1>35, <1>36, <1>37 DEF Next, GraphStep, DraftStep

(***************************************************************************)
(* The draft returned as the answer is the verified one, generated from    *)
(* the graded inputs, and no failure travels with it.                      *)
(***************************************************************************)
THEOREM AnswersAreVerified == Spec => []AnswerIsVerified
<1>1. EvidenceInv => AnswerIsVerified
  BY DEF EvidenceInv
<1> QED
  BY InitTypeInv, TypeStep, InitEvidenceInv, EvidenceStep, <1>1, PTL DEF Spec

-----------------------------------------------------------------------------
(***************************************************************************)
(* The ledger.  A slot is either a permit held or a call sent, so the      *)
(* invariant also says who may hold a permit: the graph thread only inside *)
(* the waits of a node that reserved one, the draft thread only once it    *)
(* has been started, which happens at most once, before any retry.  That   *)
(* a call given back was sent keeps release_llm_call off its floor of zero.*)
(***************************************************************************)
HasPermit(t) == IF call[t].st \in {"permit", "routed"} THEN 1 ELSE 0
WasSent(t) == IF call[t].st \in {"sent", "failover", "answered", "failed", "refused"}
              THEN 1 ELSE 0

BeforeDraft == {"sanitize_and_classify", "risk_router", "ambiguity_detector",
                "hybrid_retrieve", "retrieving", "rerank", "reranking",
                "evidence_grader", "speculate"}

LedgerInv ==
  /\ llm_calls_used + forgiven = calls_made + HasPermit("node") + HasPermit("draft")
  /\ forgiven + WasSent("node") + WasSent("draft") <= calls_made
  /\ pc \notin {"speculate", "grading", "rewriting", "generating", "judging"} =>
       call["node"].st = "idle"
  /\ pc = "speculate" => call["node"].st = "permit"
  /\ pc = "rewriting" /\ ~settings.graph_use_llm => call["node"].st = "idle"
  /\ speculation.inputs = None => call["draft"].st = "idle"
  /\ retry_count = 0 /\ pc \in BeforeDraft => speculation.inputs = None

\* The history counters and slots are numbers, and a draft's inputs are not None.
LedgerTypes ==
  /\ llm_calls_used \in Nat /\ calls_made \in Nat /\ forgiven \in Nat
  /\ retry_count \in Nat
  /\ call \in [Threads -> CallRecord]
  /\ CurrentInputs # None

\* The part of type correctness that the arithmetic below needs.
LEMMA TypesOfLedger == TypeOK => LedgerTypes
<1> SUFFICES ASSUME TypeOK PROVE LedgerTypes
  OBVIOUS
<1>1. CurrentInputs # None
  BY CurrentInputsType
<1> QED
  BY <1>1 DEF TypeOK, LedgerTypes, BudgetTypeOK, CallTypeOK

\* A fresh budget is balanced: nothing reserved, nothing sent.
LEMMA InitLedgerInv == Init => LedgerInv
  BY DEF Init, LedgerInv, BudgetInit, CallInit, HasPermit, WasSent, NoCall, Threads,
         NoSpeculation

\* Reserving, sending, failing over and handing back each keep the balance.
LEMMA LedgerStep == ASSUME TypeInv, LedgerInv, [Next]_vars PROVE LedgerInv'
<1>0. LedgerTypes
  BY TypesOfLedger DEF TypeInv
<1> USE DEF LedgerInv, LedgerTypes, BeforeDraft, HasPermit, WasSent, Threads, CallRecord,
            CallStates, NoCall, Permit
<1>1. CASE Sanitize
  BY <1>1, <1>0 DEF Sanitize
<1>2. CASE RiskRouter
  BY <1>2, <1>0 DEF RiskRouter
<1>3. CASE AmbiguityDetector
  BY <1>3, <1>0 DEF AmbiguityDetector
<1>4. CASE HybridRetrieve
  BY <1>4, <1>0 DEF HybridRetrieve, RefuseLate, Exhaust, TimeRemains,
     BudgetExhaustedUpdate
<1>5. CASE RetrieveDone
  BY <1>5, <1>0 DEF RetrieveDone, RefuseLate, Exhaust, TimeRemains,
     BudgetExhaustedUpdate
<1>6. CASE Rerank
  BY <1>6, <1>0 DEF Rerank, RefuseLate, Exhaust, TimeRemains, BudgetExhaustedUpdate
<1>7. CASE RerankDone
  BY <1>7, <1>0 DEF RerankDone, RefuseLate, Exhaust, TimeRemains,
     BudgetExhaustedUpdate
<1>8. CASE EvidenceGrader
  BY <1>8, <1>0 DEF EvidenceGrader, Reserve, ReserveCall, Admits, RefuseCall,
     RefuseLate, Exhaust, TimeRemains, BudgetExhaustedUpdate, Grade, NeedsGrader,
     RouteAfterGrading
<1>9. CASE Speculate
  BY <1>9, <1>0 DEF Speculate, ShouldSpeculate, Reserve, ReserveCall, Admits,
     RefuseCall, Exhaust
<1>10. CASE GradeIrrelevant
  BY <1>10, <1>0 DEF GradeIrrelevant, CollectAndRelease, ReleaseCall, GradedAs,
     Grade, RouteAfterGrading
<1>11. CASE GradeVerdict
  BY <1>11, <1>0 DEF GradeVerdict, Collect, GradedAs, Grade, RouteAfterGrading
<1>12. CASE GradeMalformed
  BY <1>12, <1>0 DEF GradeMalformed, CollectAndRelease, ReleaseCall, GradedAs,
     Grade, RouteAfterGrading
<1>13. CASE GradeCrash
  BY <1>13, <1>0 DEF GradeCrash, Collect
<1>14. CASE GradeUnavailable
  BY <1>14, <1>0 DEF GradeUnavailable, CollectAndRelease, ReleaseCall, GradedAs,
     Grade, RouteAfterGrading
<1>15. CASE GradeUnclassified
  BY <1>15, <1>0 DEF GradeUnclassified, CollectAndRelease, ReleaseCall, GradedAs,
     Grade, RouteAfterGrading
<1>16. CASE GradeRefused
  BY <1>16, <1>0 DEF GradeRefused, Collect
<1>17. CASE QueryRewriter
  BY <1>17, <1>0 DEF QueryRewriter, Reserve, ReserveCall, Admits, RefuseCall,
     RefuseLate, Exhaust, TimeRemains, BudgetExhaustedUpdate
<1>18. CASE RewriteDone
  BY <1>18, <1>0 DEF RewriteDone, RecordRetry, Collect, Returned
<1>19. CASE GenerateAnswer
  BY <1>19, <1>0 DEF GenerateAnswer, DraftUsable, GenerateAfresh, Reserve,
     ReserveCall, Admits, RefuseCall, RefuseLate, Exhaust, BudgetExhaustedUpdate
<1>20. CASE TakeDraft
  BY <1>20, <1>0 DEF TakeDraft, Generated, FailureReasonOf, GenerateAfresh, Reserve,
     ReserveCall, Admits, RefuseCall, Exhaust, BudgetExhaustedUpdate,
     RouteAfterGeneration
<1>21. CASE GenerateDone
  BY <1>21, <1>0 DEF GenerateDone, Returned, Collect, OutcomesOf, Generated,
     FailureReasonOf, RouteAfterGeneration
<1>22. CASE VerifyCitations
  BY <1>22, <1>0 DEF VerifyCitations, Verified, Reserve, ReserveCall, Admits,
     RefuseCall, Exhaust, TimeRemains, BudgetExhaustedUpdate, RouteAfterVerification
<1>23. CASE JudgeDone
  BY <1>23, <1>0 DEF JudgeDone, Collect, Verified, BudgetExhaustedUpdate,
     RouteAfterVerification
<1>24. CASE JudgeCrash
  BY <1>24, <1>0 DEF JudgeCrash, Collect
<1>25. CASE CountRegeneration
  BY <1>25, <1>0 DEF CountRegeneration
<1>26. CASE FinalizeAnswer
  BY <1>26, <1>0 DEF FinalizeAnswer, Terminal
<1>27. CASE Abstain
  BY <1>27, <1>0 DEF Abstain, Terminal, AbstainReason
<1>28. CASE Clarify
  BY <1>28, <1>0 DEF Clarify, Terminal
<1>29. CASE Escalate
  BY <1>29, <1>0 DEF Escalate, Terminal
<1>30. CASE Boundary
  BY <1>30, <1>0 DEF Boundary, BudgetExhaustedUpdate
<1>31. CASE Finish
  BY <1>31, <1>0 DEF Finish, DiscardSpeculation
<1>32. CASE NodeCall
  BY <1>32, <1>0 DEF NodeCall, CallStep, ReadRoute, Send, Answer, Fail,
     AdvanceRoute, ClaimFallback, RefuseFallback, ReserveCall, Admits, RefuseCall,
     Exhaust
<1>33. CASE DraftCall
  BY <1>33, <1>0 DEF DraftCall, CallStep, ReadRoute, Send, Answer, Fail,
     AdvanceRoute, ClaimFallback, RefuseFallback, ReserveCall, Admits, RefuseCall,
     Exhaust
<1>34. CASE DraftDone
  BY <1>34, <1>0 DEF DraftDone, Returned, Collect, OutcomesOf
<1>35. CASE Clock
  BY <1>35, <1>0 DEF Clock, DeadlinePasses
<1>36. CASE Terminated
  BY <1>36, <1>0 DEF Terminated
<1>37. CASE UNCHANGED vars
  BY <1>37
<1> QED
  BY <1>1, <1>2, <1>3, <1>4, <1>5, <1>6, <1>7, <1>8, <1>9, <1>10, <1>11, <1>12,
     <1>13, <1>14, <1>15, <1>16, <1>17, <1>18, <1>19, <1>20, <1>21, <1>22, <1>23,
     <1>24, <1>25, <1>26, <1>27, <1>28, <1>29, <1>30, <1>31, <1>32, <1>33, <1>34,
     <1>35, <1>36, <1>37 DEF Next, GraphStep, DraftStep

\* Two threads, so at most two permits.
LEMMA HoldersCounted == Cardinality(Holders) = HasPermit("node") + HasPermit("draft")
<1>1. Cardinality({}) = 0
  BY FS_EmptySet
<1>2. /\ Cardinality({"node"}) = 1
      /\ Cardinality({"draft"}) = 1
  BY FS_Singleton
<1>3. Cardinality({"node", "draft"}) = 2
  <2>1. Cardinality({"node"} \cup {"draft"}) = Cardinality({"node"}) + 1
    BY FS_Singleton, FS_AddElement
  <2>2. {"node"} \cup {"draft"} = {"node", "draft"}
    OBVIOUS
  <2> QED
    BY <1>2, <2>1, <2>2
<1>4. CASE HasPermit("node") = 1 /\ HasPermit("draft") = 1
  <2>1. Holders = {"node", "draft"}
    BY <1>4 DEF Holders, HasPermit, Threads
  <2> QED
    BY <1>3, <1>4, <2>1
<1>5. CASE HasPermit("node") = 1 /\ HasPermit("draft") = 0
  <2>1. Holders = {"node"}
    BY <1>5 DEF Holders, HasPermit, Threads
  <2> QED
    BY <1>2, <1>5, <2>1
<1>6. CASE HasPermit("node") = 0 /\ HasPermit("draft") = 1
  <2>1. Holders = {"draft"}
    BY <1>6 DEF Holders, HasPermit, Threads
  <2> QED
    BY <1>2, <1>6, <2>1
<1>7. CASE HasPermit("node") = 0 /\ HasPermit("draft") = 0
  <2>1. Holders = {}
    BY <1>7 DEF Holders, HasPermit, Threads
  <2> QED
    BY <1>1, <1>7, <2>1
<1> QED
  BY <1>4, <1>5, <1>6, <1>7 DEF HasPermit

(***************************************************************************)
(* llm_calls_used accounts for every call sent and every permit held, up   *)
(* to the calls the grader made and gave back.                             *)
(***************************************************************************)
THEOREM LedgerIsKept == Spec => []LedgerBalances
<1>1. TypeInv /\ LedgerInv => LedgerBalances
  BY HoldersCounted, TypesOfLedger DEF TypeInv, LedgerInv, LedgerBalances, LedgerTypes,
     HasPermit
<1> QED
  BY InitTypeInv, TypeStep, InitLedgerInv, LedgerStep, <1>1, PTL DEF Spec

-----------------------------------------------------------------------------
(***************************************************************************)
(* The overrun.  A simple grader gives a slot back for a call it sent only *)
(* on its way to the abstention; a condition-aware one at most once per    *)
(* grading, and there is one grading before each retry and one after the   *)
(* last.                                                                   *)
(***************************************************************************)
Ungraded == BeforeDraft \cup {"grading"}

ForgivenInv ==
  /\ settings.evidence_grading_mode = "simple" =>
       forgiven = 0 \/ (forgiven = 1 /\ pc \in {"abstain", "returning", "done"})
  /\ settings.evidence_grading_mode = "condition_aware" =>
       /\ forgiven <= IF pc \in Ungraded THEN retry_count ELSE retry_count + 1
       /\ pc # "boundary"

\* No call has been given back when the request starts.
LEMMA InitForgivenInv == Init => ForgivenInv
  BY DEF Init, CallInit, ForgivenInv

\* Only a grading that ends gives a call back, and each retry allows one more.
LEMMA ForgivenStep == ASSUME TypeInv, ForgivenInv, [Next]_vars PROVE ForgivenInv'
<1>0. LedgerTypes
  BY TypesOfLedger DEF TypeInv
<1> USE DEF ForgivenInv, LedgerTypes, Ungraded, BeforeDraft
<1>1. CASE Sanitize
  BY <1>1, <1>0 DEF Sanitize
<1>2. CASE RiskRouter
  BY <1>2, <1>0 DEF RiskRouter
<1>3. CASE AmbiguityDetector
  BY <1>3, <1>0 DEF AmbiguityDetector
<1>4. CASE HybridRetrieve
  BY <1>4, <1>0 DEF HybridRetrieve, RefuseLate, Exhaust, TimeRemains,
     BudgetExhaustedUpdate
<1>5. CASE RetrieveDone
  BY <1>5, <1>0 DEF RetrieveDone, RefuseLate, Exhaust, TimeRemains,
     BudgetExhaustedUpdate
<1>6. CASE Rerank
  BY <1>6, <1>0 DEF Rerank, RefuseLate, Exhaust, TimeRemains, BudgetExhaustedUpdate
<1>7. CASE RerankDone
  BY <1>7, <1>0 DEF RerankDone, RefuseLate, Exhaust, TimeRemains,
     BudgetExhaustedUpdate
<1>8. CASE EvidenceGrader
  BY <1>8, <1>0 DEF EvidenceGrader, Reserve, ReserveCall, Admits, RefuseCall,
     RefuseLate, Exhaust, TimeRemains, BudgetExhaustedUpdate, Grade, NeedsGrader,
     RouteAfterGrading
<1>9. CASE Speculate
  BY <1>9, <1>0 DEF Speculate, ShouldSpeculate, Reserve, ReserveCall, Admits,
     RefuseCall, Exhaust
<1>10. CASE GradeIrrelevant
  BY <1>10, <1>0 DEF GradeIrrelevant, CollectAndRelease, ReleaseCall, GradedAs,
     Grade, RouteAfterGrading
<1>11. CASE GradeVerdict
  BY <1>11, <1>0 DEF GradeVerdict, Collect, GradedAs, Grade, RouteAfterGrading
<1>12. CASE GradeMalformed
  BY <1>12, <1>0 DEF GradeMalformed, CollectAndRelease, ReleaseCall, GradedAs,
     Grade, RouteAfterGrading
<1>13. CASE GradeCrash
  BY <1>13, <1>0 DEF GradeCrash, Collect
<1>14. CASE GradeUnavailable
  BY <1>14, <1>0 DEF GradeUnavailable, CollectAndRelease, ReleaseCall, GradedAs,
     Grade, RouteAfterGrading
<1>15. CASE GradeUnclassified
  BY <1>15, <1>0 DEF GradeUnclassified, CollectAndRelease, ReleaseCall, GradedAs,
     Grade, RouteAfterGrading
<1>16. CASE GradeRefused
  BY <1>16, <1>0 DEF GradeRefused, Collect
<1>17. CASE QueryRewriter
  BY <1>17, <1>0 DEF QueryRewriter, Reserve, ReserveCall, Admits, RefuseCall,
     RefuseLate, Exhaust, TimeRemains, BudgetExhaustedUpdate
<1>18. CASE RewriteDone
  BY <1>18, <1>0 DEF RewriteDone, RecordRetry, Collect, Returned
<1>19. CASE GenerateAnswer
  BY <1>19, <1>0 DEF GenerateAnswer, DraftUsable, GenerateAfresh, Reserve,
     ReserveCall, Admits, RefuseCall, RefuseLate, Exhaust, BudgetExhaustedUpdate
<1>20. CASE TakeDraft
  BY <1>20, <1>0 DEF TakeDraft, Generated, FailureReasonOf, GenerateAfresh, Reserve,
     ReserveCall, Admits, RefuseCall, Exhaust, BudgetExhaustedUpdate,
     RouteAfterGeneration
<1>21. CASE GenerateDone
  BY <1>21, <1>0 DEF GenerateDone, Returned, Collect, OutcomesOf, Generated,
     FailureReasonOf, RouteAfterGeneration
<1>22. CASE VerifyCitations
  BY <1>22, <1>0 DEF VerifyCitations, Verified, Reserve, ReserveCall, Admits,
     RefuseCall, Exhaust, TimeRemains, BudgetExhaustedUpdate, RouteAfterVerification
<1>23. CASE JudgeDone
  BY <1>23, <1>0 DEF JudgeDone, Collect, Verified, BudgetExhaustedUpdate,
     RouteAfterVerification
<1>24. CASE JudgeCrash
  BY <1>24, <1>0 DEF JudgeCrash, Collect
<1>25. CASE CountRegeneration
  BY <1>25, <1>0 DEF CountRegeneration
<1>26. CASE FinalizeAnswer
  BY <1>26, <1>0 DEF FinalizeAnswer, Terminal
<1>27. CASE Abstain
  BY <1>27, <1>0 DEF Abstain, Terminal, AbstainReason
<1>28. CASE Clarify
  BY <1>28, <1>0 DEF Clarify, Terminal
<1>29. CASE Escalate
  BY <1>29, <1>0 DEF Escalate, Terminal
<1>30. CASE Boundary
  BY <1>30, <1>0 DEF Boundary, BudgetExhaustedUpdate
<1>31. CASE Finish
  BY <1>31, <1>0 DEF Finish, DiscardSpeculation
<1>32. CASE NodeCall
  BY <1>32, <1>0 DEF NodeCall, CallStep, ReadRoute, Send, Answer, Fail,
     AdvanceRoute, ClaimFallback, RefuseFallback, ReserveCall, Admits, RefuseCall,
     Exhaust
<1>33. CASE DraftCall
  BY <1>33, <1>0 DEF DraftCall, CallStep, ReadRoute, Send, Answer, Fail,
     AdvanceRoute, ClaimFallback, RefuseFallback, ReserveCall, Admits, RefuseCall,
     Exhaust
<1>34. CASE DraftDone
  BY <1>34, <1>0 DEF DraftDone, Returned, Collect, OutcomesOf
<1>35. CASE Clock
  BY <1>35, <1>0 DEF Clock, DeadlinePasses
<1>36. CASE Terminated
  BY <1>36, <1>0 DEF Terminated
<1>37. CASE UNCHANGED vars
  BY <1>37
<1> QED
  BY <1>1, <1>2, <1>3, <1>4, <1>5, <1>6, <1>7, <1>8, <1>9, <1>10, <1>11, <1>12,
     <1>13, <1>14, <1>15, <1>16, <1>17, <1>18, <1>19, <1>20, <1>21, <1>22, <1>23,
     <1>24, <1>25, <1>26, <1>27, <1>28, <1>29, <1>30, <1>31, <1>32, <1>33, <1>34,
     <1>35, <1>36, <1>37 DEF Next, GraphStep, DraftStep

(***************************************************************************)
(* However the request runs, the calls sent exceed max_llm_calls by at     *)
(* most the calls its graders gave back, and those are bounded.            *)
(***************************************************************************)
THEOREM OverrunIsBounded == Spec => []OverrunBounded
<1>1. TypeInv /\ LedgerInv /\ ForgivenInv => OverrunBounded
  <2> SUFFICES ASSUME TypeInv, LedgerInv, ForgivenInv PROVE OverrunBounded
    OBVIOUS
  <2>1. LedgerTypes
    BY TypesOfLedger DEF TypeInv
  <2>2. calls_made <= max_llm_calls + forgiven
    BY <2>1 DEF TypeInv, TypeOK, BudgetTypeOK, LedgerTypes, LedgerInv, HasPermit
  <2>3. settings.evidence_grading_mode \in {"simple", "condition_aware"}
    BY DEF TypeInv, TypeOK, Configurations
  <2>4. retry_count <= MaxRetries
    BY DEF TypeInv, TypeOK
  <2> QED
    BY <2>1, <2>2, <2>3, <2>4 DEF OverrunBounded, ForgivenInv, LedgerTypes
<1> QED
  BY InitTypeInv, TypeStep, InitLedgerInv, LedgerStep, InitForgivenInv, ForgivenStep, <1>1,
     PTL DEF Spec

\* llm_calls_used and max_llm_calls account for the calls of both threads.
THEOREM CallsAreAccounted == Spec => []CallsAccounted
BY LedgerIsKept, OverrunIsBounded, PTL DEF CallsAccounted

-----------------------------------------------------------------------------
(***************************************************************************)
(* The first retry stays affordable.  A call costs one slot, and one more  *)
(* for each failover; a failover moves the route past the provider that    *)
(* the call had read, so Slack, what a call may have claimed by then, is   *)
(* bounded by the places it has moved.  The bet is a slot of its own, and  *)
(* is placed only with two more to spare.                                  *)
(***************************************************************************)
Slack(t) == IF call[t].st \in {"routed", "sent"} THEN call[t].attempt - 1
            ELSE IF call[t].st = "failover" THEN route_index - 2
            ELSE route_index - 1

Bet == IF speculation.inputs = None THEN 0 ELSE 1

AttemptsTrailRoute ==
  \A t \in Threads :
    /\ call[t].st \in {"routed", "sent"} => call[t].attempt \in 1..route_index
    /\ call[t].st = "failover" => route_index >= 2

HeadroomInv ==
  /\ AttemptsTrailRoute
  /\ speculation.inputs # None => max_llm_calls >= 4
  /\ retry_count = 0 =>
       /\ pc \in BeforeDraft =>
            route_index = 1 /\ llm_calls_used = IF pc = "speculate" THEN 1 ELSE 0
       /\ pc \in {"grading", "query_rewriter"} =>
            llm_calls_used <= 1 + Bet + Slack("node") + Slack("draft")
       /\ pc = "rewriting" =>
            llm_calls_used <= 2 + Bet + (route_index - 1) + Slack("node") + Slack("draft")
  /\ retry_count = 1 /\ pc \in BeforeDraft \ {"speculate"} =>
       llm_calls_used <= 2 + Bet + 2 * (route_index - 1) + Slack("draft")

\* Nobody has bet, and no call has been made.
LEMMA InitHeadroomInv == Init => HeadroomInv
  BY DEF Init, BudgetInit, CallInit, NoCall, Threads, NoSpeculation, HeadroomInv,
         AttemptsTrailRoute, BeforeDraft

\* A step of a call claims no more than its own slack grows by, and takes none from the
\* call of the other thread.
LEMMA CallKeepsSlack ==
  ASSUME LedgerTypes, AttemptsTrailRoute, route_index \in 1..NumProviders, NEW t \in Threads,
         CallStep(t)
  PROVE  /\ AttemptsTrailRoute'
         /\ route_index' \in route_index..NumProviders
         /\ llm_calls_used' - llm_calls_used <= Slack(t)' - Slack(t)
         /\ \A u \in Threads \ {t} : Slack(u)' >= Slack(u)
         /\ \A u \in Threads : Slack(u) \in Int /\ Slack(u)' \in Int
<1>1. PICK u \in Threads : Threads = {t, u} /\ u # t
  BY DEF Threads
<1>2. SUFFICES /\ AttemptsTrailRoute'
               /\ route_index' \in route_index..NumProviders
               /\ llm_calls_used' - llm_calls_used <= Slack(t)' - Slack(t)
               /\ Slack(u)' >= Slack(u)
               /\ Slack(t) \in Int /\ Slack(t)' \in Int
               /\ Slack(u) \in Int /\ Slack(u)' \in Int
  BY <1>1
<1>3. /\ call[t] \in CallRecord /\ call[u] \in CallRecord /\ llm_calls_used \in Nat
      /\ \A v \in Threads : v = t \/ v = u
  BY <1>1 DEF LedgerTypes
<1>4. call[u]' = call[u] /\ DOMAIN call = Threads
  BY <1>1 DEF LedgerTypes, CallStep, ReadRoute, Send, Answer, Fail, AdvanceRoute,
     ClaimFallback, RefuseFallback
<1> USE <1>1, <1>3, <1>4 DEF AttemptsTrailRoute, Slack, CallRecord, CallStates, Permit
<1>5. CASE ReadRoute(t)
  BY <1>5 DEF ReadRoute, LedgerTypes
<1>6. CASE Send(t)
  BY <1>6 DEF Send, LedgerTypes
<1>7. CASE Answer(t)
  BY <1>7 DEF Answer, LedgerTypes
<1>8. CASE Fail(t)
  BY <1>8 DEF Fail, LedgerTypes
<1>9. CASE AdvanceRoute(t)
  BY <1>9 DEF AdvanceRoute, LedgerTypes
<1>10. CASE ClaimFallback(t)
  BY <1>10 DEF ClaimFallback, ReserveCall, LedgerTypes
<1>11. CASE RefuseFallback(t)
  BY <1>11 DEF RefuseFallback, RefuseCall, Exhaust, LedgerTypes
<1> QED
  BY <1>5, <1>6, <1>7, <1>8, <1>9, <1>10, <1>11 DEF CallStep

\* A slot is claimed before the bet, for the bet, or for the retry itself.
LEMMA HeadroomStep == ASSUME TypeInv, LedgerInv, HeadroomInv, [Next]_vars PROVE HeadroomInv'
<1>0. /\ LedgerTypes /\ max_llm_calls \in Nat /\ llm_calls_used \in 0..max_llm_calls
      /\ route_index \in 1..NumProviders
  BY TypesOfLedger DEF TypeInv, TypeOK, BudgetTypeOK, CallTypeOK
<1>0b. retry_count = 0 /\ pc \in BeforeDraft => speculation.inputs = None
  BY DEF LedgerInv
<1>0c. pc \in {"speculate", "grading", "rewriting", "generating", "judging"}
          \/ call["node"].st = "idle"
  BY DEF LedgerInv
<1> USE DEF HeadroomInv, AttemptsTrailRoute, Slack, Bet, LedgerTypes, BeforeDraft, Threads,
            CallRecord, CallStates, NoCall, Permit
<1>1. CASE Sanitize
  BY <1>1, <1>0, <1>0b, <1>0c DEF Sanitize
<1>2. CASE RiskRouter
  BY <1>2, <1>0, <1>0b, <1>0c DEF RiskRouter
<1>3. CASE AmbiguityDetector
  BY <1>3, <1>0, <1>0b, <1>0c DEF AmbiguityDetector
<1>4. CASE HybridRetrieve
  BY <1>4, <1>0, <1>0b, <1>0c DEF HybridRetrieve, RefuseLate, Exhaust, TimeRemains,
     BudgetExhaustedUpdate
<1>5. CASE RetrieveDone
  BY <1>5, <1>0, <1>0b, <1>0c DEF RetrieveDone, RefuseLate, Exhaust, TimeRemains,
     BudgetExhaustedUpdate
<1>6. CASE Rerank
  BY <1>6, <1>0, <1>0b, <1>0c DEF Rerank, RefuseLate, Exhaust, TimeRemains, BudgetExhaustedUpdate
<1>7. CASE RerankDone
  BY <1>7, <1>0, <1>0b, <1>0c DEF RerankDone, RefuseLate, Exhaust, TimeRemains,
     BudgetExhaustedUpdate
<1>8. CASE EvidenceGrader
  BY <1>8, <1>0, <1>0b, <1>0c DEF EvidenceGrader, Reserve, ReserveCall, Admits, RefuseCall,
     RefuseLate, Exhaust, TimeRemains, BudgetExhaustedUpdate, Grade, NeedsGrader,
     RouteAfterGrading
<1>9. CASE Speculate
  BY <1>9, <1>0, <1>0b, <1>0c DEF Speculate, ShouldSpeculate, BudgetHasHeadroom, Reserve,
     ReserveCall, Admits, RefuseCall, Exhaust
<1>10. CASE GradeIrrelevant
  BY <1>10, <1>0, <1>0b, <1>0c DEF GradeIrrelevant, CollectAndRelease, ReleaseCall, GradedAs,
     Grade, RouteAfterGrading
<1>11. CASE GradeVerdict
  BY <1>11, <1>0, <1>0b, <1>0c DEF GradeVerdict, Collect, GradedAs, Grade, RouteAfterGrading
<1>12. CASE GradeMalformed
  BY <1>12, <1>0, <1>0b, <1>0c DEF GradeMalformed, CollectAndRelease, ReleaseCall, GradedAs,
     Grade, RouteAfterGrading
<1>13. CASE GradeCrash
  BY <1>13, <1>0, <1>0b, <1>0c DEF GradeCrash, Collect
<1>14. CASE GradeUnavailable
  BY <1>14, <1>0, <1>0b, <1>0c DEF GradeUnavailable, CollectAndRelease, ReleaseCall, GradedAs,
     Grade, RouteAfterGrading
<1>15. CASE GradeUnclassified
  BY <1>15, <1>0, <1>0b, <1>0c DEF GradeUnclassified, CollectAndRelease, ReleaseCall, GradedAs,
     Grade, RouteAfterGrading
<1>16. CASE GradeRefused
  BY <1>16, <1>0, <1>0b, <1>0c DEF GradeRefused, Collect
<1>17. CASE QueryRewriter
  BY <1>17, <1>0, <1>0b, <1>0c DEF QueryRewriter, Reserve, ReserveCall, Admits, RefuseCall,
     RefuseLate, Exhaust, TimeRemains, BudgetExhaustedUpdate
<1>18. CASE RewriteDone
  BY <1>18, <1>0, <1>0b, <1>0c DEF RewriteDone, RecordRetry, Collect, Returned
<1>19. CASE GenerateAnswer
  BY <1>19, <1>0, <1>0b, <1>0c DEF GenerateAnswer, DraftUsable, GenerateAfresh, Reserve,
     ReserveCall, Admits, RefuseCall, RefuseLate, Exhaust, BudgetExhaustedUpdate
<1>20. CASE TakeDraft
  BY <1>20, <1>0, <1>0b, <1>0c DEF TakeDraft, Generated, FailureReasonOf, GenerateAfresh, Reserve,
     ReserveCall, Admits, RefuseCall, Exhaust, BudgetExhaustedUpdate,
     RouteAfterGeneration
<1>21. CASE GenerateDone
  BY <1>21, <1>0, <1>0b, <1>0c DEF GenerateDone, Returned, Collect, OutcomesOf, Generated,
     FailureReasonOf, RouteAfterGeneration
<1>22. CASE VerifyCitations
  BY <1>22, <1>0, <1>0b, <1>0c DEF VerifyCitations, Verified, Reserve, ReserveCall, Admits,
     RefuseCall, Exhaust, TimeRemains, BudgetExhaustedUpdate, RouteAfterVerification
<1>23. CASE JudgeDone
  BY <1>23, <1>0, <1>0b, <1>0c DEF JudgeDone, Collect, Verified, BudgetExhaustedUpdate,
     RouteAfterVerification
<1>24. CASE JudgeCrash
  BY <1>24, <1>0, <1>0b, <1>0c DEF JudgeCrash, Collect
<1>25. CASE CountRegeneration
  BY <1>25, <1>0, <1>0b, <1>0c DEF CountRegeneration
<1>26. CASE FinalizeAnswer
  BY <1>26, <1>0, <1>0b, <1>0c DEF FinalizeAnswer, Terminal
<1>27. CASE Abstain
  BY <1>27, <1>0, <1>0b, <1>0c DEF Abstain, Terminal, AbstainReason
<1>28. CASE Clarify
  BY <1>28, <1>0, <1>0b, <1>0c DEF Clarify, Terminal
<1>29. CASE Escalate
  BY <1>29, <1>0, <1>0b, <1>0c DEF Escalate, Terminal
<1>30. CASE Boundary
  BY <1>30, <1>0, <1>0b, <1>0c DEF Boundary, BudgetExhaustedUpdate
<1>31. CASE Finish
  BY <1>31, <1>0, <1>0b, <1>0c DEF Finish, DiscardSpeculation
<1>32. CASE NodeCall
  <2>1. /\ pc \in {"grading", "rewriting", "generating", "judging"}
        /\ CallStep("node") /\ UNCHANGED <<pc, retry_count, speculation, max_llm_calls>>
        /\ llm_calls_used' \in Nat
    BY <1>32, <1>0 DEF NodeCall, CallStep, ReadRoute, Send, Answer, Fail, AdvanceRoute,
       ClaimFallback, RefuseFallback, ReserveCall, RefuseCall, Exhaust
  <2> HIDE DEF Slack, AttemptsTrailRoute, LedgerTypes
  <2>2. /\ AttemptsTrailRoute'
        /\ route_index' \in route_index..NumProviders
        /\ llm_calls_used' - llm_calls_used <= Slack("node")' - Slack("node")
        /\ Slack("draft")' >= Slack("draft")
        /\ \A t \in Threads : Slack(t) \in Int /\ Slack(t)' \in Int
    BY <1>0, <2>1, CallKeepsSlack
  <2> QED
    BY <1>0, <2>1, <2>2
<1>33. CASE DraftCall
  <2>1. /\ CallStep("draft") /\ UNCHANGED <<pc, retry_count, speculation, max_llm_calls>>
        /\ call["draft"].st # "idle"
        /\ llm_calls_used' \in Nat
    BY <1>33, <1>0 DEF DraftCall, CallStep, ReadRoute, Send, Answer, Fail, AdvanceRoute,
       ClaimFallback, RefuseFallback, ReserveCall, RefuseCall, Exhaust
  <2>2. ~(retry_count = 0 /\ pc \in BeforeDraft)
    BY <2>1 DEF LedgerInv
  <2> HIDE DEF Slack, AttemptsTrailRoute, LedgerTypes
  <2>3. /\ AttemptsTrailRoute'
        /\ route_index' \in route_index..NumProviders
        /\ llm_calls_used' - llm_calls_used <= Slack("draft")' - Slack("draft")
        /\ Slack("node")' >= Slack("node")
        /\ \A t \in Threads : Slack(t) \in Int /\ Slack(t)' \in Int
    BY <1>0, <2>1, CallKeepsSlack
  <2> QED
    BY <1>0, <2>1, <2>2, <2>3
<1>34. CASE DraftDone
  BY <1>34, <1>0, <1>0b, <1>0c DEF DraftDone, Returned, Collect, OutcomesOf
<1>35. CASE Clock
  BY <1>35, <1>0, <1>0b, <1>0c DEF Clock, DeadlinePasses
<1>36. CASE Terminated
  BY <1>36, <1>0, <1>0b, <1>0c DEF Terminated
<1>37. CASE UNCHANGED vars
  BY <1>37
<1> QED
  BY <1>1, <1>2, <1>3, <1>4, <1>5, <1>6, <1>7, <1>8, <1>9, <1>10, <1>11, <1>12,
     <1>13, <1>14, <1>15, <1>16, <1>17, <1>18, <1>19, <1>20, <1>21, <1>22, <1>23,
     <1>24, <1>25, <1>26, <1>27, <1>28, <1>29, <1>30, <1>31, <1>32, <1>33, <1>34,
     <1>35, <1>36, <1>37 DEF Next, GraphStep, DraftStep

(***************************************************************************)
(* Whatever its allowance and however its calls fail over, a request finds *)
(* the slots of its first retry as far as one slot per provider tried      *)
(* leaves them: the bet never costs it the retry.                          *)
(***************************************************************************)
THEOREM BetLeavesRetryAffordable == Spec => []RetryStaysAffordable
<1>1. TypeInv /\ LedgerInv /\ HeadroomInv => RetryStaysAffordable
  <2> SUFFICES ASSUME TypeInv, LedgerInv, HeadroomInv PROVE RetryStaysAffordable
    OBVIOUS
  <2> USE DEF RetryStaysAffordable, CallsLeft, Least
  <2>1. /\ max_llm_calls \in Nat /\ llm_calls_used \in 0..max_llm_calls
        /\ route_index \in 1..NumProviders /\ retry_count \in Nat
        /\ call["draft"].attempt \in Nat
    BY DEF TypeInv, TypeOK, BudgetTypeOK, CallTypeOK, CallRecord, Threads
  <2>2. Slack("draft") <= route_index - 1 /\ Slack("draft") \in Int
    BY <2>1 DEF Slack, HeadroomInv, AttemptsTrailRoute, Threads
  <2>3. Bet \in {0, 1} /\ (Bet = 1 => max_llm_calls >= 4)
    BY DEF Bet, HeadroomInv
  <2>4. pc = "query_rewriter" => Slack("node") = route_index - 1
    BY DEF Slack, LedgerInv
  <2>5. pc = "query_rewriter" /\ retry_count = 0 =>
          llm_calls_used <= 1 + Bet + 2 * (route_index - 1)
    BY <2>1, <2>2, <2>3, <2>4 DEF HeadroomInv
  <2>6. pc = "evidence_grader" /\ retry_count = 1 =>
          llm_calls_used <= 2 + Bet + 3 * (route_index - 1)
    BY <2>1, <2>2, <2>3 DEF HeadroomInv, BeforeDraft
  <2> QED
    BY <2>1, <2>3, <2>5, <2>6
<1> QED
  BY InitTypeInv, TypeStep, InitLedgerInv, LedgerStep, InitHeadroomInv, HeadroomStep, <1>1,
     PTL DEF Spec

-----------------------------------------------------------------------------
(***************************************************************************)
(* Exhaustion fails closed, and is reported.  After a refusal for time the *)
(* graph still walks to the grader, but every guard on that way refuses    *)
(* too, because the deadline stays passed; a refusal for the call limit    *)
(* routes to the abstention at once.                                       *)
(***************************************************************************)
ExhaustionInv ==
  /\ ExhaustionFailsClosed
  /\ \/ budget_exhausted
     \/ abstain_reason = "request_budget_exhausted"
     \/ pc = "boundary"
     \/ call["node"].st = "refused"
     => exhausted_reason # "none"

\* A request starts with its budget unspent.
LEMMA InitExhaustionInv == Init => ExhaustionInv
  BY DEF Init, BudgetInit, CallInit, NoCall, Threads, ExhaustionInv, ExhaustionFailsClosed

\* Every node that sets budget_exhausted leaves the request draining to abstain.
LEMMA ExhaustionStep == ASSUME TypeInv, ExhaustionInv, [Next]_vars PROVE ExhaustionInv'
<1>0. LedgerTypes
  BY TypesOfLedger DEF TypeInv
<1> USE DEF ExhaustionInv, ExhaustionFailsClosed, LedgerTypes, Threads,
            CallRecord, CallStates, NoCall, Permit
<1>1. CASE Sanitize
  BY <1>1, <1>0 DEF Sanitize
<1>2. CASE RiskRouter
  BY <1>2, <1>0 DEF RiskRouter
<1>3. CASE AmbiguityDetector
  BY <1>3, <1>0 DEF AmbiguityDetector
<1>4. CASE HybridRetrieve
  BY <1>4, <1>0 DEF HybridRetrieve, RefuseLate, Exhaust, TimeRemains,
     BudgetExhaustedUpdate
<1>5. CASE RetrieveDone
  BY <1>5, <1>0 DEF RetrieveDone, RefuseLate, Exhaust, TimeRemains,
     BudgetExhaustedUpdate
<1>6. CASE Rerank
  BY <1>6, <1>0 DEF Rerank, RefuseLate, Exhaust, TimeRemains, BudgetExhaustedUpdate
<1>7. CASE RerankDone
  BY <1>7, <1>0 DEF RerankDone, RefuseLate, Exhaust, TimeRemains,
     BudgetExhaustedUpdate
<1>8. CASE EvidenceGrader
  BY <1>8, <1>0 DEF EvidenceGrader, Reserve, ReserveCall, Admits, RefuseCall,
     RefuseLate, Exhaust, TimeRemains, BudgetExhaustedUpdate, Grade, NeedsGrader,
     RouteAfterGrading
<1>9. CASE Speculate
  BY <1>9, <1>0 DEF Speculate, ShouldSpeculate, Reserve, ReserveCall, Admits,
     RefuseCall, Exhaust
<1>10. CASE GradeIrrelevant
  BY <1>10, <1>0 DEF GradeIrrelevant, CollectAndRelease, ReleaseCall, GradedAs,
     Grade, RouteAfterGrading
<1>11. CASE GradeVerdict
  BY <1>11, <1>0 DEF GradeVerdict, Collect, GradedAs, Grade, RouteAfterGrading
<1>12. CASE GradeMalformed
  BY <1>12, <1>0 DEF GradeMalformed, CollectAndRelease, ReleaseCall, GradedAs,
     Grade, RouteAfterGrading
<1>13. CASE GradeCrash
  BY <1>13, <1>0 DEF GradeCrash, Collect
<1>14. CASE GradeUnavailable
  BY <1>14, <1>0 DEF GradeUnavailable, CollectAndRelease, ReleaseCall, GradedAs,
     Grade, RouteAfterGrading
<1>15. CASE GradeUnclassified
  BY <1>15, <1>0 DEF GradeUnclassified, CollectAndRelease, ReleaseCall, GradedAs,
     Grade, RouteAfterGrading
<1>16. CASE GradeRefused
  BY <1>16, <1>0 DEF GradeRefused, Collect
<1>17. CASE QueryRewriter
  BY <1>17, <1>0 DEF QueryRewriter, Reserve, ReserveCall, Admits, RefuseCall,
     RefuseLate, Exhaust, TimeRemains, BudgetExhaustedUpdate
<1>18. CASE RewriteDone
  BY <1>18, <1>0 DEF RewriteDone, RecordRetry, Collect, Returned
<1>19. CASE GenerateAnswer
  BY <1>19, <1>0 DEF GenerateAnswer, DraftUsable, GenerateAfresh, Reserve,
     ReserveCall, Admits, RefuseCall, RefuseLate, Exhaust, BudgetExhaustedUpdate
<1>20. CASE TakeDraft
  BY <1>20, <1>0 DEF TakeDraft, Generated, FailureReasonOf, GenerateAfresh, Reserve,
     ReserveCall, Admits, RefuseCall, Exhaust, BudgetExhaustedUpdate,
     RouteAfterGeneration
<1>21. CASE GenerateDone
  BY <1>21, <1>0 DEF GenerateDone, Returned, Collect, OutcomesOf, Generated,
     FailureReasonOf, RouteAfterGeneration
<1>22. CASE VerifyCitations
  BY <1>22, <1>0 DEF VerifyCitations, Verified, Reserve, ReserveCall, Admits,
     RefuseCall, Exhaust, TimeRemains, BudgetExhaustedUpdate, RouteAfterVerification
<1>23. CASE JudgeDone
  BY <1>23, <1>0 DEF JudgeDone, Collect, Verified, BudgetExhaustedUpdate,
     RouteAfterVerification
<1>24. CASE JudgeCrash
  BY <1>24, <1>0 DEF JudgeCrash, Collect
<1>25. CASE CountRegeneration
  BY <1>25, <1>0 DEF CountRegeneration
<1>26. CASE FinalizeAnswer
  BY <1>26, <1>0 DEF FinalizeAnswer, Terminal
<1>27. CASE Abstain
  BY <1>27, <1>0 DEF Abstain, Terminal, AbstainReason
<1>28. CASE Clarify
  BY <1>28, <1>0 DEF Clarify, Terminal
<1>29. CASE Escalate
  BY <1>29, <1>0 DEF Escalate, Terminal
<1>30. CASE Boundary
  BY <1>30, <1>0 DEF Boundary, BudgetExhaustedUpdate
<1>31. CASE Finish
  BY <1>31, <1>0 DEF Finish, DiscardSpeculation
<1>32. CASE NodeCall
  BY <1>32, <1>0 DEF NodeCall, CallStep, ReadRoute, Send, Answer, Fail,
     AdvanceRoute, ClaimFallback, RefuseFallback, ReserveCall, Admits, RefuseCall,
     Exhaust
<1>33. CASE DraftCall
  BY <1>33, <1>0 DEF DraftCall, CallStep, ReadRoute, Send, Answer, Fail,
     AdvanceRoute, ClaimFallback, RefuseFallback, ReserveCall, Admits, RefuseCall,
     Exhaust
<1>34. CASE DraftDone
  BY <1>34, <1>0 DEF DraftDone, Returned, Collect, OutcomesOf
<1>35. CASE Clock
  BY <1>35, <1>0 DEF Clock, DeadlinePasses
<1>36. CASE Terminated
  BY <1>36, <1>0 DEF Terminated
<1>37. CASE UNCHANGED vars
  BY <1>37
<1> QED
  BY <1>1, <1>2, <1>3, <1>4, <1>5, <1>6, <1>7, <1>8, <1>9, <1>10, <1>11, <1>12,
     <1>13, <1>14, <1>15, <1>16, <1>17, <1>18, <1>19, <1>20, <1>21, <1>22, <1>23,
     <1>24, <1>25, <1>26, <1>27, <1>28, <1>29, <1>30, <1>31, <1>32, <1>33, <1>34,
     <1>35, <1>36, <1>37 DEF Next, GraphStep, DraftStep

(***************************************************************************)
(* A request that ran out of budget abstains for that reason, and says so. *)
(***************************************************************************)
THEOREM ExhaustionIsSafe == Spec => []ExhaustionFailsClosed
<1>1. ExhaustionInv => ExhaustionFailsClosed
  BY DEF ExhaustionInv
<1> QED
  BY InitTypeInv, TypeStep, InitExhaustionInv, ExhaustionStep, <1>1, PTL DEF Spec

-----------------------------------------------------------------------------
(***************************************************************************)
(* A request starts at most one speculative draft: only Speculate starts   *)
(* one, before any retry, and until then LedgerInv knows of none.          *)
(***************************************************************************)
THEOREM OneDraftPerRequest == Spec => DraftsOnce
<1>1. ASSUME TypeInv, LedgerInv, [Next]_vars, speculation.inputs # None
      PROVE  speculation'.inputs = speculation.inputs
  <2>1. CASE Speculate
    BY <1>1, <2>1 DEF Speculate, ShouldSpeculate, LedgerInv, BeforeDraft
  <2>2. CASE DraftDone
    BY <1>1, <2>2 DEF DraftDone, TypeInv, TypeOK
  <2>3. CASE UNCHANGED speculation
    BY <2>3
  <2> QED
    BY <1>1, <2>1, <2>2, <2>3 DEF Next, GraphStep, DraftStep, Clock, Terminated,
       Sanitize, RiskRouter, AmbiguityDetector, HybridRetrieve, RetrieveDone, Rerank,
       RerankDone, EvidenceGrader, GradeIrrelevant, GradeVerdict, GradeMalformed,
       GradeCrash, GradeUnavailable, GradeUnclassified, GradeRefused, GradedAs,
       QueryRewriter, RewriteDone, GenerateAnswer, TakeDraft, GenerateDone,
       VerifyCitations, JudgeDone, JudgeCrash, CountRegeneration, FinalizeAnswer,
       Abstain, Clarify, Escalate, Terminal, Boundary, Finish, NodeCall, DraftCall
<1> QED
  BY InitTypeInv, TypeStep, InitLedgerInv, LedgerStep, <1>1, PTL DEF Spec, DraftsOnce

(***************************************************************************)
(* A failed or refused grader approves nothing, and the simple grader's    *)
(* outage takes no retry: of the actions that leave the grader, only those *)
(* of a failed or refused call are enabled then.                           *)
(***************************************************************************)
THEOREM OutageApprovesNothing == Spec => OutageIsNoVerdict
<1>1. ASSUME TypeInv, LedgerInv, [Next]_vars, pc = "grading",
             call["node"].st \in {"failed", "refused"}
      PROVE  /\ pc' # "generate_answer"
             /\ settings.evidence_grading_mode = "simple" => pc' # "query_rewriter"
  <2>1. CASE GradeUnavailable
    BY <1>1, <2>1 DEF GradeUnavailable, GradedAs, Grade, RouteAfterGrading
  <2>2. CASE GradeUnclassified
    BY <1>1, <2>2 DEF GradeUnclassified, GradedAs, Grade, RouteAfterGrading
  <2>3. CASE GradeRefused
    BY <1>1, <2>3 DEF GradeRefused
  <2>4. CASE pc' = pc
    BY <1>1, <2>4
  <2> QED
    BY <1>1, <2>1, <2>2, <2>3, <2>4 DEF Next, GraphStep, DraftStep, Clock, Terminated,
       Sanitize, RiskRouter, AmbiguityDetector, HybridRetrieve, RetrieveDone, Rerank,
       RerankDone, EvidenceGrader, Speculate, GradeIrrelevant, GradeVerdict,
       GradeMalformed, GradeCrash, QueryRewriter, RewriteDone, GenerateAnswer,
       TakeDraft, GenerateDone, VerifyCitations, JudgeDone, JudgeCrash,
       CountRegeneration, FinalizeAnswer, Abstain, Clarify, Escalate, Boundary,
       Finish, NodeCall, DraftCall, DraftDone
<1> QED
  BY InitTypeInv, TypeStep, InitLedgerInv, LedgerStep, <1>1, PTL
     DEF Spec, OutageIsNoVerdict

-----------------------------------------------------------------------------
(***************************************************************************)
(* SelfHealingGraph implements AnswerGate: every step of a request is one  *)
(* of the gate's steps under the mapping of GraphProperties, or a stutter. *)
(***************************************************************************)

(***************************************************************************)
(* When the gate's variables may have left None: evidence is approved on   *)
(* the answer path and after it, a draft is vetted only on the way to the  *)
(* answer.  In particular neither is taken back.                           *)
(***************************************************************************)
Ends == {"abstain", "returning", "done", "crashed"}

GateInv ==
  /\ evidence_grade.verdict = "sufficient" => pc \in AnswerPath \cup Ends
  /\ verification_result.verdict = "supported" =>
       pc \in {"finalize_answer", "returning", "done"}

\* A request starts with nothing graded and nothing verified.
LEMMA InitGateInv == Init => GateInv
  BY DEF Init, GateInv, NoGrade, NoVerification

\* Where evidence is approved and a draft is vetted, the request cannot go back.
LEMMA GateInvStep ==
  ASSUME TypeInv, EvidenceInv, ExhaustionInv, GateInv, [Next]_vars
  PROVE  GateInv'
<1> USE DEF GateInv, AnswerPath, Ends, EvidenceInv, ExhaustionInv, ExhaustionFailsClosed
<1>1. CASE Sanitize
  BY <1>1 DEF Sanitize
<1>2. CASE RiskRouter
  BY <1>2 DEF RiskRouter
<1>3. CASE AmbiguityDetector
  BY <1>3 DEF AmbiguityDetector
<1>4. CASE HybridRetrieve
  BY <1>4 DEF HybridRetrieve, RefuseLate, Exhaust, TimeRemains,
     BudgetExhaustedUpdate
<1>5. CASE RetrieveDone
  BY <1>5 DEF RetrieveDone, RefuseLate, Exhaust, TimeRemains, BudgetExhaustedUpdate
<1>6. CASE Rerank
  BY <1>6 DEF Rerank, RefuseLate, Exhaust, TimeRemains, BudgetExhaustedUpdate
<1>7. CASE RerankDone
  BY <1>7 DEF RerankDone, RefuseLate, Exhaust, TimeRemains, BudgetExhaustedUpdate
<1>8. CASE EvidenceGrader
  BY <1>8 DEF EvidenceGrader, Reserve, ReserveCall, Admits, RefuseCall, RefuseLate,
     Exhaust, TimeRemains, BudgetExhaustedUpdate, Grade, NeedsGrader,
     RouteAfterGrading
<1>9. CASE Speculate
  BY <1>9 DEF Speculate, ShouldSpeculate, Reserve, ReserveCall, Admits, RefuseCall,
     Exhaust
<1>10. CASE GradeIrrelevant
  BY <1>10 DEF GradeIrrelevant, CollectAndRelease, ReleaseCall, GradedAs, Grade,
     RouteAfterGrading
<1>11. CASE GradeVerdict
  BY <1>11 DEF GradeVerdict, Collect, GradedAs, Grade, RouteAfterGrading
<1>12. CASE GradeMalformed
  BY <1>12 DEF GradeMalformed, CollectAndRelease, ReleaseCall, GradedAs, Grade,
     RouteAfterGrading
<1>13. CASE GradeCrash
  BY <1>13 DEF GradeCrash, Collect
<1>14. CASE GradeUnavailable
  BY <1>14 DEF GradeUnavailable, CollectAndRelease, ReleaseCall, GradedAs, Grade,
     RouteAfterGrading
<1>15. CASE GradeUnclassified
  BY <1>15 DEF GradeUnclassified, CollectAndRelease, ReleaseCall, GradedAs, Grade,
     RouteAfterGrading
<1>16. CASE GradeRefused
  BY <1>16 DEF GradeRefused, Collect
<1>17. CASE QueryRewriter
  BY <1>17 DEF QueryRewriter, Reserve, ReserveCall, Admits, RefuseCall, RefuseLate,
     Exhaust, TimeRemains, BudgetExhaustedUpdate
<1>18. CASE RewriteDone
  BY <1>18 DEF RewriteDone, RecordRetry, Collect, Returned
<1>19. CASE GenerateAnswer
  BY <1>19 DEF GenerateAnswer, DraftUsable, GenerateAfresh, Reserve, ReserveCall,
     Admits, RefuseCall, RefuseLate, Exhaust, BudgetExhaustedUpdate
<1>20. CASE TakeDraft
  BY <1>20 DEF TakeDraft, Generated, FailureReasonOf, GenerateAfresh, Reserve,
     ReserveCall, Admits, RefuseCall, Exhaust, BudgetExhaustedUpdate,
     RouteAfterGeneration
<1>21. CASE GenerateDone
  BY <1>21 DEF GenerateDone, Returned, Collect, OutcomesOf, Generated,
     FailureReasonOf, RouteAfterGeneration
<1>22. CASE VerifyCitations
  BY <1>22 DEF VerifyCitations, Verified, Reserve, ReserveCall, Admits, RefuseCall,
     Exhaust, TimeRemains, BudgetExhaustedUpdate, RouteAfterVerification
<1>23. CASE JudgeDone
  BY <1>23 DEF JudgeDone, Collect, Verified, BudgetExhaustedUpdate,
     RouteAfterVerification
<1>24. CASE JudgeCrash
  BY <1>24 DEF JudgeCrash, Collect
<1>25. CASE CountRegeneration
  BY <1>25 DEF CountRegeneration
<1>26. CASE FinalizeAnswer
  BY <1>26 DEF FinalizeAnswer, Terminal
<1>27. CASE Abstain
  BY <1>27 DEF Abstain, Terminal, AbstainReason
<1>28. CASE Clarify
  BY <1>28 DEF Clarify, Terminal
<1>29. CASE Escalate
  BY <1>29 DEF Escalate, Terminal
<1>30. CASE Boundary
  BY <1>30 DEF Boundary, BudgetExhaustedUpdate, NoGrade,
     NoVerification
<1>31. CASE Finish
  BY <1>31 DEF Finish, DiscardSpeculation
<1>32. CASE NodeCall
  BY <1>32 DEF NodeCall, CallStep, ReadRoute, Send, Answer, Fail, AdvanceRoute,
     ClaimFallback, RefuseFallback, ReserveCall, Admits, RefuseCall, Exhaust
<1>33. CASE DraftCall
  BY <1>33 DEF DraftCall, CallStep, ReadRoute, Send, Answer, Fail, AdvanceRoute,
     ClaimFallback, RefuseFallback, ReserveCall, Admits, RefuseCall, Exhaust
<1>34. CASE DraftDone
  BY <1>34 DEF DraftDone, Returned, Collect, OutcomesOf
<1>35. CASE Clock
  BY <1>35 DEF Clock, DeadlinePasses
<1>36. CASE Terminated
  BY <1>36 DEF Terminated
<1>37. CASE UNCHANGED vars
  BY <1>37
<1> QED
  BY <1>1, <1>2, <1>3, <1>4, <1>5, <1>6, <1>7, <1>8, <1>9, <1>10, <1>11, <1>12,
     <1>13, <1>14, <1>15, <1>16, <1>17, <1>18, <1>19, <1>20, <1>21, <1>22, <1>23,
     <1>24, <1>25, <1>26, <1>27, <1>28, <1>29, <1>30, <1>31, <1>32, <1>33, <1>34,
     <1>35, <1>36, <1>37 DEF Next, GraphStep, DraftStep

-----------------------------------------------------------------------------
GateStutters == UNCHANGED <<Approved, Vetted, Outcome, Delivered>>

\* The initial state of a request is the gate's: nothing approved, nothing returned.
LEMMA InitGate == Init => Gate!Init
  BY DEF Init, Gate!Init, Approved, Vetted, Outcome, Delivered, Over, NoGrade,
         NoVerification

\* One step of the request is one step of the gate, or none.
LEMMA GateStep ==
  ASSUME TypeInv, EvidenceInv, ExhaustionInv, GateInv, [Next]_vars
  PROVE  Gate!Next \/ GateStutters
<1> USE DEF GateStutters, Approved, Vetted, Outcome, Delivered, Over, GateInv,
            EvidenceInv, AnswerPath, Ends
<1>1. CASE Sanitize
  BY <1>1 DEF Sanitize
<1>2. CASE RiskRouter
  BY <1>2 DEF RiskRouter
<1>3. CASE AmbiguityDetector
  BY <1>3 DEF AmbiguityDetector
<1>4. CASE HybridRetrieve
  BY <1>4 DEF HybridRetrieve, RefuseLate, Exhaust, TimeRemains,
     BudgetExhaustedUpdate
<1>5. CASE RetrieveDone
  BY <1>5 DEF RetrieveDone, RefuseLate, Exhaust, TimeRemains, BudgetExhaustedUpdate
<1>6. CASE Rerank
  BY <1>6 DEF Rerank, RefuseLate, Exhaust, TimeRemains, BudgetExhaustedUpdate
<1>7. CASE RerankDone
  BY <1>7 DEF RerankDone, RefuseLate, Exhaust, TimeRemains, BudgetExhaustedUpdate
<1>8. CASE EvidenceGrader
  BY <1>8 DEF EvidenceGrader, Reserve, ReserveCall, Admits, RefuseCall, RefuseLate,
     Exhaust, TimeRemains, BudgetExhaustedUpdate, Grade, NeedsGrader,
     RouteAfterGrading
<1>9. CASE Speculate
  BY <1>9 DEF Speculate, ShouldSpeculate, Reserve, ReserveCall, Admits, RefuseCall,
     Exhaust
<1>10. CASE GradeIrrelevant
  BY <1>10 DEF GradeIrrelevant, CollectAndRelease, ReleaseCall, GradedAs, Grade,
     RouteAfterGrading
<1>11. CASE GradeVerdict
  <2>1. CASE GradedAs("sufficient", failure_reason)
    <3>1. CurrentInputs \in Inputs
      BY DEF TypeInv, TypeOK, CurrentInputs, Inputs
    <3>2. Gate!Approve(CurrentInputs)
      BY <1>11, <2>1 DEF GradeVerdict, Collect, GradedAs, Grade, RouteAfterGrading,
         ExhaustionInv, ExhaustionFailsClosed, Gate!Approve
    <3> QED
      BY <3>1, <3>2 DEF Gate!Next
  <2>2. CASE GradedAs("insufficient", failure_reason)
    BY <1>11, <2>2 DEF GradeVerdict, Collect, GradedAs, Grade, RouteAfterGrading
  <2> QED
    BY <1>11, <2>1, <2>2 DEF GradeVerdict
<1>12. CASE GradeMalformed
  BY <1>12 DEF GradeMalformed, CollectAndRelease, ReleaseCall, GradedAs, Grade,
     RouteAfterGrading
<1>13. CASE GradeCrash
  <2>1. Gate!Decline
    BY <1>13 DEF GradeCrash, Collect, Gate!Decline
  <2> QED
    BY <2>1 DEF Gate!Next
<1>14. CASE GradeUnavailable
  BY <1>14 DEF GradeUnavailable, CollectAndRelease, ReleaseCall, GradedAs, Grade,
     RouteAfterGrading
<1>15. CASE GradeUnclassified
  BY <1>15 DEF GradeUnclassified, CollectAndRelease, ReleaseCall, GradedAs, Grade,
     RouteAfterGrading
<1>16. CASE GradeRefused
  BY <1>16 DEF GradeRefused, Collect
<1>17. CASE QueryRewriter
  BY <1>17 DEF QueryRewriter, Reserve, ReserveCall, Admits, RefuseCall, RefuseLate,
     Exhaust, TimeRemains, BudgetExhaustedUpdate
<1>18. CASE RewriteDone
  BY <1>18 DEF RewriteDone, RecordRetry, Collect, Returned
<1>19. CASE GenerateAnswer
  BY <1>19 DEF GenerateAnswer, DraftUsable, GenerateAfresh, Reserve, ReserveCall,
     Admits, RefuseCall, RefuseLate, Exhaust, BudgetExhaustedUpdate
<1>20. CASE TakeDraft
  BY <1>20 DEF TakeDraft, Generated, FailureReasonOf, GenerateAfresh, Reserve,
     ReserveCall, Admits, RefuseCall, Exhaust, BudgetExhaustedUpdate,
     RouteAfterGeneration
<1>21. CASE GenerateDone
  BY <1>21 DEF GenerateDone, Returned, Collect, OutcomesOf, Generated,
     FailureReasonOf, RouteAfterGeneration
<1>22. CASE VerifyCitations
  <2>1. CASE Verified("supported")
    <3>1. answer_draft \in Drafts
      BY <1>22 DEF VerifyCitations, TypeInv, TypeOK
    <3>2. Gate!Vet(answer_draft)
      BY <1>22, <2>1, <3>1, CurrentInputsType
         DEF VerifyCitations, Verified, Reserve, ReserveCall, Admits, RefuseCall,
             Exhaust, TimeRemains, BudgetExhaustedUpdate, RouteAfterVerification,
             TypeInv, Gate!Vet
    <3> QED
      BY <3>1, <3>2 DEF Gate!Next
  <2>2. CASE ~Verified("supported")
    BY <1>22, <2>2 DEF VerifyCitations, Verified, Reserve, ReserveCall, Admits,
       RefuseCall, Exhaust, TimeRemains, BudgetExhaustedUpdate, RouteAfterVerification
  <2> QED
    BY <2>1, <2>2
<1>23. CASE JudgeDone
  <2>1. CASE Verified("supported")
    <3>1. answer_draft \in Drafts
      BY <1>23 DEF JudgeDone, TypeInv, TypeOK
    <3>2. Gate!Vet(answer_draft)
      BY <1>23, <2>1, <3>1, CurrentInputsType
         DEF JudgeDone, Collect, Verified, BudgetExhaustedUpdate,
             RouteAfterVerification, TypeInv, Gate!Vet
    <3> QED
      BY <3>1, <3>2 DEF Gate!Next
  <2>2. CASE ~Verified("supported")
    BY <1>23, <2>2 DEF JudgeDone, Collect, Verified, BudgetExhaustedUpdate,
       RouteAfterVerification
  <2> QED
    BY <2>1, <2>2
<1>24. CASE JudgeCrash
  <2>1. Gate!Decline
    BY <1>24 DEF JudgeCrash, Collect, Gate!Decline
  <2> QED
    BY <2>1 DEF Gate!Next
<1>25. CASE CountRegeneration
  BY <1>25 DEF CountRegeneration
<1>26. CASE FinalizeAnswer
  <2>1. Gate!Return
    <3>1. Vetted = answer_draft /\ answer_draft # None
      BY <1>26 DEF FinalizeAnswer
    <3> QED
      BY <1>26, <3>1 DEF FinalizeAnswer, Terminal, Gate!Return
  <2> QED
    BY <2>1 DEF Gate!Next
<1>27. CASE Abstain
  <2>1. Gate!Decline
    BY <1>27 DEF Abstain, Terminal, Gate!Decline
  <2> QED
    BY <2>1 DEF Gate!Next
<1>28. CASE Clarify
  <2>1. Gate!Decline
    BY <1>28 DEF Clarify, Terminal, Gate!Decline
  <2> QED
    BY <2>1 DEF Gate!Next
<1>29. CASE Escalate
  <2>1. Gate!Decline
    BY <1>29 DEF Escalate, Terminal, Gate!Decline
  <2> QED
    BY <2>1 DEF Gate!Next
<1>30. CASE Boundary
  <2>1. Gate!Decline
    BY <1>30 DEF Boundary, BudgetExhaustedUpdate, NoGrade, NoVerification, Gate!Decline
  <2> QED
    BY <2>1 DEF Gate!Next
<1>31. CASE Finish
  BY <1>31 DEF Finish, DiscardSpeculation
<1>32. CASE NodeCall
  BY <1>32 DEF NodeCall, CallStep, ReadRoute, Send, Answer, Fail, AdvanceRoute,
     ClaimFallback, RefuseFallback, ReserveCall, Admits, RefuseCall, Exhaust
<1>33. CASE DraftCall
  BY <1>33 DEF DraftCall, CallStep, ReadRoute, Send, Answer, Fail, AdvanceRoute,
     ClaimFallback, RefuseFallback, ReserveCall, Admits, RefuseCall, Exhaust
<1>34. CASE DraftDone
  BY <1>34 DEF DraftDone, Returned, Collect, OutcomesOf
<1>35. CASE Clock
  BY <1>35 DEF Clock, DeadlinePasses
<1>36. CASE Terminated
  BY <1>36 DEF Terminated
<1>37. CASE UNCHANGED vars
  BY <1>37
<1> QED
  BY <1>1, <1>2, <1>3, <1>4, <1>5, <1>6, <1>7, <1>8, <1>9, <1>10, <1>11, <1>12,
     <1>13, <1>14, <1>15, <1>16, <1>17, <1>18, <1>19, <1>20, <1>21, <1>22, <1>23,
     <1>24, <1>25, <1>26, <1>27, <1>28, <1>29, <1>30, <1>31, <1>32, <1>33, <1>34,
     <1>35, <1>36, <1>37 DEF Next, GraphStep, DraftStep

(***************************************************************************)
(* Every behaviour of the graph is one of the gate: evidence is approved   *)
(* once, only a draft of the approved evidence is vetted, only the vetted  *)
(* draft is returned as an answer, and the request closes once.            *)
(***************************************************************************)
THEOREM GraphImplementsAnswerGate == Spec => AnswerGateSpec
<1>1. ASSUME TypeInv, EvidenceInv, ExhaustionInv, GateInv, [Next]_vars
      PROVE  [Gate!Next]_(Gate!gateVars)
  BY <1>1, GateStep DEF GateStutters, Gate!gateVars
<1> QED
  BY InitTypeInv, TypeStep, InitEvidenceInv, EvidenceStep, InitExhaustionInv,
     ExhaustionStep, InitGateInv, GateInvStep, InitGate, <1>1, PTL
     DEF Spec, AnswerGateSpec, Gate!Spec

-----------------------------------------------------------------------------
(***************************************************************************)
(* SelfHealingGraph implements FailoverRoute: the calls of its nodes and   *)
(* of its draft are the callers.                                           *)
(***************************************************************************)

\* What a node, or the draft, does with its call before and after it.
Begins(t) == call[t].st = "idle" /\ call' = [call EXCEPT ![t] = Permit]
Collects(t) ==
  /\ call[t].st \in {"idle", "permit", "answered", "failed", "refused"}
  /\ call' = [call EXCEPT ![t] = NoCall]

\* A thread that noted a candidate noted one the route has reached.
RouteInv ==
  \A t \in Threads : call[t].st \in {"routed", "sent"} => call[t].attempt \in 1..route_index

\* Every step of a request is one call's, begins or collects one, or leaves them alone.
LEMMA CallMoves ==
  ASSUME TypeInv, LedgerInv, [Next]_vars
  PROVE  \/ UNCHANGED <<call, route_index>>
         \/ \E t \in Threads : (Begins(t) \/ Collects(t)) /\ UNCHANGED route_index
         \/ \E t \in Threads : CallStep(t)
<1> USE DEF Threads
<1>1. CASE \/ Sanitize \/ RiskRouter \/ AmbiguityDetector \/ HybridRetrieve \/ RetrieveDone
           \/ Rerank \/ RerankDone
  BY <1>1 DEF Sanitize, RiskRouter, AmbiguityDetector, HybridRetrieve, RetrieveDone, Rerank,
     RerankDone
<1>2. CASE \/ CountRegeneration \/ FinalizeAnswer \/ Abstain \/ Clarify \/ Escalate
           \/ Boundary \/ Finish \/ Clock \/ Terminated \/ UNCHANGED vars
  BY <1>2 DEF CountRegeneration, FinalizeAnswer, Abstain, Clarify, Escalate, Terminal, Boundary,
     Finish, Clock, DeadlinePasses, Terminated
<1>3. CASE EvidenceGrader
  BY <1>3 DEF EvidenceGrader, Reserve, LedgerInv, Begins
<1>4. CASE Speculate
  <2>1. CASE ShouldSpeculate /\ Reserve("draft")
    <3>1. call["draft"].st = "idle"
      BY <1>4, <2>1 DEF Speculate, ShouldSpeculate, LedgerInv, BeforeDraft
    <3> QED BY <2>1, <3>1 DEF Reserve, Begins
  <2> QED BY <1>4, <2>1 DEF Speculate
<1>5. CASE GradeIrrelevant \/ GradeMalformed \/ GradeUnavailable \/ GradeUnclassified
  BY <1>5 DEF GradeIrrelevant, GradeMalformed, GradeUnavailable, GradeUnclassified,
     CollectAndRelease, Collects
<1>6. CASE GradeVerdict \/ GradeCrash \/ GradeRefused \/ JudgeDone \/ JudgeCrash
  BY <1>6 DEF GradeVerdict, GradeCrash, GradeRefused, JudgeDone, JudgeCrash, Collect, Collects
<1>7. CASE GenerateDone \/ DraftDone
  BY <1>7 DEF GenerateDone, DraftDone, Returned, Collect, Collects
<1>8. CASE RewriteDone
  BY <1>8 DEF RewriteDone, Returned, Collect, Collects, LedgerInv, TypeInv, TypeOK
<1>9. CASE QueryRewriter
  BY <1>9 DEF QueryRewriter, Reserve, LedgerInv, Begins
<1>10. CASE GenerateAnswer \/ TakeDraft
  BY <1>10 DEF GenerateAnswer, TakeDraft, GenerateAfresh, Reserve, LedgerInv, Begins
<1>11. CASE VerifyCitations
  BY <1>11 DEF VerifyCitations, Reserve, LedgerInv, Begins
<1>12. CASE NodeCall \/ DraftCall
  BY <1>12 DEF NodeCall, DraftCall
<1> QED BY <1>1, <1>2, <1>3, <1>4, <1>5, <1>6, <1>7, <1>8, <1>9, <1>10, <1>11, <1>12
           DEF Next, GraphStep, DraftStep

\* No thread has noted anything yet.
LEMMA InitRouteInv == Init => RouteInv /\ Route!Init
<1>1. Init => RouteInv
  BY DEF Init, CallInit, RouteInv, NoCall
<1>2. Init => Route!Init
  BY DEF Init, CallInit, Route!Init, StageOf, NoCall
<1> QED BY <1>1, <1>2

Stages == [t \in Threads |-> StageOf(t)]
Notes == [t \in Threads |-> IF call[t].st \in {"routed", "sent"} THEN call[t].attempt ELSE 0]

\* What a thread has noted once its call has gone on.
NotedIn(to) == IF to.st \in {"routed", "sent"} THEN to.attempt ELSE 0

\* Where a call goes next.
LEMMA CallGoesTo ==
  ASSUME TypeInv, NEW t \in Threads, NEW to, call' = [call EXCEPT ![t] = to]
  PROVE  /\ Stages' = [Stages EXCEPT ![t] = StageOf(t)']
         /\ Notes' = [Notes EXCEPT ![t] = NotedIn(to)]
<1>1. \A u \in Threads : call'[u] = IF u = t THEN to ELSE call[u]
  BY DEF TypeInv, TypeOK, CallTypeOK
<1>2. \A u \in Threads : StageOf(u)' = IF u = t THEN StageOf(t)' ELSE StageOf(u)
  BY <1>1 DEF StageOf
<1>3. Stages' = [Stages EXCEPT ![t] = StageOf(t)']
  BY <1>2 DEF Stages
<1>4. \A u \in Threads :
        (IF call[u].st \in {"routed", "sent"} THEN call[u].attempt ELSE 0)' =
          IF u = t THEN NotedIn(to)
          ELSE IF call[u].st \in {"routed", "sent"} THEN call[u].attempt ELSE 0
  BY <1>1 DEF NotedIn
<1>5. Notes' = [Notes EXCEPT ![t] = NotedIn(to)]
  BY <1>4 DEF Notes
<1> QED BY <1>3, <1>5

\* The steps of one call.
LEMMA CallFollows ==
  ASSUME TypeInv, RouteInv, NEW t \in Threads, CallStep(t)
  PROVE  RouteInv' /\ [Route!Next]_(Route!routeVars)
<1> USE DEF Route!Goes, Route!Next, Route!routeVars
<1>1. /\ call[t] \in CallRecord /\ DOMAIN call = Threads /\ route_index \in 1..NumProviders
      /\ NumProviders \in Nat \ {0}
  BY DEF TypeInv, TypeOK, CallTypeOK
<1>2. /\ Stages[t] = StageOf(t)
      /\ Notes[t] = IF call[t].st \in {"routed", "sent"} THEN call[t].attempt ELSE 0
      /\ DOMAIN Stages = Threads /\ DOMAIN Notes = Threads
  BY DEF Stages, Notes
<1>3. \A u \in Threads : call[u].st \in {"routed", "sent"} => call[u].attempt \in 1..route_index
  BY DEF RouteInv
<1>4. CASE ReadRoute(t)
  <2> DEFINE to == [st |-> "routed", attempt |-> route_index, callee |-> 0]
  <2>1. call' = [call EXCEPT ![t] = to] /\ call[t].st = "permit" /\ UNCHANGED route_index
    BY <1>4 DEF ReadRoute
  <2>2. StageOf(t)' = "noted" /\ StageOf(t) = "ready"
    BY <1>1, <2>1 DEF StageOf
  <2>3. Stages' = [Stages EXCEPT ![t] = "noted"] /\ Notes' = [Notes EXCEPT ![t] = route_index]
    <3>1. NotedIn(to) = route_index
      BY DEF NotedIn
    <3> HIDE DEF to
    <3> QED BY <2>1, <2>2, <3>1, CallGoesTo
  <2>4. Route!Note(t)
    BY <1>2, <2>1, <2>2, <2>3 DEF Route!Note, Stages, Notes
  <2>5. RouteInv'
    BY <1>1, <1>3, <2>1 DEF RouteInv
  <2> QED BY <2>4, <2>5
<1>5. CASE Send(t)
  <2> DEFINE to == [call[t] EXCEPT !.st = "sent", !.callee = route_index]
  <2>1. call' = [call EXCEPT ![t] = to] /\ call[t].st = "routed" /\ UNCHANGED route_index
    BY <1>1, <1>5 DEF Send
  <2>2. to.st = "sent" /\ to.attempt = call[t].attempt
    BY <1>1 DEF CallRecord
  <2> HIDE DEF to
  <2>3. StageOf(t)' = "sent" /\ StageOf(t) = "noted"
    BY <1>1, <2>1, <2>2 DEF StageOf
  <2>4. Stages' = [Stages EXCEPT ![t] = "sent"] /\ Notes' = [Notes EXCEPT ![t] = call[t].attempt]
    <3>1. NotedIn(to) = call[t].attempt
      BY <2>2 DEF NotedIn
    <3> QED BY <2>1, <2>3, <3>1, CallGoesTo
  <2>5. Notes' = Notes
    BY <1>2, <2>1, <2>4 DEF Notes
  <2>6. Route!Send(t)
    BY <1>2, <2>1, <2>3, <2>4, <2>5 DEF Route!Send, Stages, Notes
  <2>7. RouteInv'
    BY <1>1, <1>3, <2>1, <2>2 DEF RouteInv
  <2> QED BY <2>6, <2>7
<1>6. CASE Answer(t) \/ Fail(t) \/ RefuseFallback(t)
  <2>1. PICK st \in {"answered", "failed", "refused"} : call' = [call EXCEPT ![t].st = st]
    BY <1>6 DEF Answer, Fail, RefuseFallback
  <2>2. call[t].st \in {"sent", "failover"} /\ UNCHANGED route_index
    BY <1>6 DEF Answer, Fail, RefuseFallback
  <2> DEFINE to == [call[t] EXCEPT !.st = st]
  <2>3. call' = [call EXCEPT ![t] = to] /\ to.st = st
    BY <1>1, <2>1 DEF CallRecord
  <2> HIDE DEF to
  <2>4. StageOf(t)' = "over" /\ StageOf(t) \in {"sent", "ready"}
    BY <1>1, <2>1, <2>2, <2>3 DEF StageOf
  <2>5. Stages' = [Stages EXCEPT ![t] = "over"] /\ Notes' = [Notes EXCEPT ![t] = 0]
    <3>1. NotedIn(to) = 0
      BY <2>1, <2>3 DEF NotedIn
    <3> QED BY <2>3, <2>4, <3>1, CallGoesTo
  <2>6. Route!EndCall(t)
    BY <1>2, <2>2, <2>4, <2>5 DEF Route!EndCall, Stages, Notes
  <2>7. RouteInv'
    BY <1>1, <1>3, <2>1, <2>2, <2>3 DEF RouteInv
  <2> QED BY <2>6, <2>7
<1>7. CASE AdvanceRoute(t)
  <2> DEFINE to == [call[t] EXCEPT !.st = "failover"]
  <2>1. /\ call' = [call EXCEPT ![t] = to] /\ to.st = "failover" /\ call[t].st = "sent"
    BY <1>1, <1>7 DEF AdvanceRoute, CallRecord
  <2> HIDE DEF to
  <2>2. /\ route_index' \in route_index..NumProviders
        /\ route_index' # route_index => call[t].attempt = route_index
        /\ route_index' > call[t].attempt
    BY <1>1, <1>3, <1>7, <2>1 DEF AdvanceRoute
  <2>3. StageOf(t)' = "ready" /\ StageOf(t) = "sent"
    BY <1>1, <2>1 DEF StageOf
  <2>4. Stages' = [Stages EXCEPT ![t] = "ready"] /\ Notes' = [Notes EXCEPT ![t] = 0]
    <3>1. NotedIn(to) = 0
      BY <2>1 DEF NotedIn
    <3> QED BY <2>1, <2>3, <3>1, CallGoesTo
  <2>5. Route!MoveOn(t)
    BY <1>2, <2>1, <2>2, <2>3, <2>4 DEF Route!MoveOn, Stages, Notes
  <2>6. RouteInv'
    BY <1>1, <1>3, <2>1, <2>2 DEF RouteInv
  <2> QED BY <2>5, <2>6
<1>8. CASE ClaimFallback(t)
  <2>1. call' = [call EXCEPT ![t] = Permit] /\ call[t].st = "failover" /\ UNCHANGED route_index
    BY <1>8 DEF ClaimFallback
  <2>2. StageOf(t)' = "ready" /\ StageOf(t) = "ready" /\ Permit.st = "permit"
    BY <1>1, <2>1 DEF StageOf, Permit
  <2>3. Stages' = [Stages EXCEPT ![t] = "ready"] /\ Notes' = [Notes EXCEPT ![t] = 0]
    <3>1. NotedIn(Permit) = 0
      BY <2>2 DEF NotedIn
    <3> QED BY <2>1, <2>2, <3>1, CallGoesTo
  <2>4. Stages' = Stages /\ Notes' = Notes
    BY <1>2, <2>1, <2>2, <2>3 DEF Stages, Notes
  <2>5. RouteInv'
    BY <1>1, <1>3, <2>1, <2>2 DEF RouteInv
  <2> QED BY <2>1, <2>4, <2>5 DEF Stages, Notes
<1> QED BY <1>4, <1>5, <1>6, <1>7, <1>8 DEF CallStep

\* A call begins, or its outcome is collected.
LEMMA CallersFollow ==
  ASSUME TypeInv, RouteInv, NEW t \in Threads, Begins(t) \/ Collects(t), UNCHANGED route_index
  PROVE  RouteInv' /\ [Route!Next]_(Route!routeVars)
<1> USE DEF Route!Goes, Route!Next, Route!routeVars
<1>1. DOMAIN call = Threads /\ NumProviders > 0
  BY DEF TypeInv, TypeOK, CallTypeOK
<1>2. /\ Stages[t] = StageOf(t)
      /\ Notes[t] = IF call[t].st \in {"routed", "sent"} THEN call[t].attempt ELSE 0
      /\ DOMAIN Stages = Threads /\ DOMAIN Notes = Threads
  BY DEF Stages, Notes
<1>3. Permit.st = "permit" /\ NoCall.st = "idle"
  BY DEF Permit, NoCall
<1>4. RouteInv'
  BY <1>1, <1>3 DEF RouteInv, Begins, Collects
<1>5. CASE Begins(t)
  <2>1. StageOf(t)' = "ready" /\ StageOf(t) = "idle"
    BY <1>1, <1>3, <1>5 DEF StageOf, Begins
  <2>2. Stages' = [Stages EXCEPT ![t] = "ready"] /\ Notes' = [Notes EXCEPT ![t] = 0]
    BY <1>3, <1>5, <2>1, CallGoesTo DEF Begins, NotedIn
  <2>3. Notes' = Notes
    BY <1>2, <1>5, <2>2 DEF Begins, Notes
  <2>4. Route!Begin(t)
    BY <1>1, <1>2, <2>1, <2>2, <2>3 DEF Route!Begin, Stages, Notes
  <2> QED BY <1>4, <2>4
<1>6. CASE Collects(t)
  <2>1. StageOf(t)' = "idle" /\ StageOf(t) \in {"idle", "ready", "over"}
    BY <1>1, <1>3, <1>6 DEF StageOf, Collects
  <2>2. Stages' = [Stages EXCEPT ![t] = "idle"] /\ Notes' = [Notes EXCEPT ![t] = 0]
    BY <1>3, <1>6, <2>1, CallGoesTo DEF Collects, NotedIn
  <2>3. Notes' = Notes
    BY <1>2, <1>6, <2>2 DEF Collects, Notes
  <2>4. CASE StageOf(t) = "idle"
    <3>1. Stages' = Stages
      BY <1>2, <2>2, <2>4 DEF Stages
    <3> QED BY <1>4, <2>3, <3>1 DEF Stages, Notes
  <2>5. CASE StageOf(t) \in {"ready", "over"}
    <3>1. Route!Collect(t)
      BY <1>2, <2>2, <2>3, <2>5 DEF Route!Collect, Stages, Notes
    <3> QED BY <1>4, <3>1
  <2> QED BY <2>1, <2>4, <2>5
<1> QED BY <1>5, <1>6

\* One step of the request is one step of its calls, or none.
LEMMA RouteStep ==
  ASSUME TypeInv, LedgerInv, RouteInv, [Next]_vars
  PROVE  RouteInv' /\ [Route!Next]_(Route!routeVars)
<1>1. CASE UNCHANGED <<call, route_index>>
  BY <1>1 DEF RouteInv, Route!routeVars, StageOf
<1> QED BY <1>1, CallMoves, CallFollows, CallersFollow

(***************************************************************************)
(* The graph thread and the draft thread share one route, and implement    *)
(* FailoverRoute between them: the route goes forward only, is moved only  *)
(* by a call that finds it where it noted it, and a call that failed is    *)
(* sent again only further on, whatever the budget allows and whichever    *)
(* nodes the request visits meanwhile.                                     *)
(***************************************************************************)
THEOREM GraphFollowsItsRoute == Spec => FailoverRouteSpec
BY InitTypeInv, TypeStep, InitLedgerInv, LedgerStep, InitRouteInv, RouteStep, PTL
   DEF Spec, FailoverRouteSpec, Route!Spec

-----------------------------------------------------------------------------
(***************************************************************************)
(* The drafts of all requests of the process are not mixed up between      *)
(* them, for any number of requests, ids, inputs and workers.              *)
(***************************************************************************)
PoolStages == {"evidence", "register", "grading", "generate", "waiting", "generating", "verify",
           "ending", "done", "raised"}

PoolTypeOK ==
  /\ id \in [Requests -> Ids]
  /\ ownInputs \in [Requests -> BetInputs]
  /\ place \in [Requests -> PoolStages]
  /\ retried \in [Requests -> BOOLEAN]
  /\ registry \in [Ids -> Requests \cup {Nothing}]
  /\ pending \in [Requests -> Requests \cup {Nothing}]
  /\ answeredFrom \in [Requests -> BetInputs \cup {Nothing}]
  /\ betOn \in [Requests -> BetInputs \cup {Nothing}]

\* Before a draft is taken or written there is none.
Unanswered ==
  \A r \in Requests :
    place[r] \in {"evidence", "register", "grading", "generate", "waiting", "generating"} =>
      answeredFrom[r] = Nothing

\* A request bets once, so what it bet on does not change under whoever waits for it.
BetsOnce == \A r \in Requests : place[r] = "evidence" /\ ~retried[r] => betOn[r] = Nothing
WaitsForOwnInputs ==
  \A r \in Requests :
    place[r] = "waiting" => pending[r] \in Requests /\ betOn[pending[r]] = ownInputs[r]

\* An entry is under its owner's id, so the owner's discard finds it.
UnderOwnId == \A i \in Ids : registry[i] # Nothing => id[registry[i]] = i

PoolInv ==
  /\ PoolTypeOK /\ Unanswered /\ BetsOnce /\ WaitsForOwnInputs /\ UnderOwnId
  /\ OwnInputs /\ EntriesAreLive

\* At the start nothing is registered and nobody has bet.
LEMMA InitPoolInv == PoolInit => PoolInv
BY DEF PoolInit, PoolInv, PoolTypeOK, PoolStages, Unanswered, BetsOnce,
       WaitsForOwnInputs, UnderOwnId, OwnInputs, EntriesAreLive

\* The steps that only move a request on.
LEMMA MovesPreserve ==
  ASSUME PoolInv, NEW r \in Requests,
         NoBet(r) \/ Generate(r) \/ Verify(r) \/ Raise(r)
  PROVE  PoolInv'
<1> USE DEF PoolInv, PoolTypeOK, PoolStages
<1>1. PoolTypeOK'
  BY DEF NoBet, Generate, Verify, Raise, Goes
<1>2. Unanswered'
  BY DEF NoBet, Generate, Verify, Raise, Goes, Unanswered
<1>3. BetsOnce' /\ WaitsForOwnInputs'
  BY DEF NoBet, Generate, Verify, Raise, Goes, BetsOnce,
         WaitsForOwnInputs
<1>4. UnderOwnId' /\ EntriesAreLive'
  BY DEF NoBet, Generate, Verify, Raise, Goes, UnderOwnId,
         EntriesAreLive
<1>5. OwnInputs'
  BY DEF NoBet, Generate, Verify, Raise, Goes, OwnInputs,
         Unanswered
<1> QED BY <1>1, <1>2, <1>3, <1>4, <1>5

\* A rewrite changes the inputs of a request that has no answer and waits for nothing.
LEMMA GradePreserves == ASSUME PoolInv, NEW r \in Requests, Judge(r) PROVE PoolInv'
<1> USE DEF PoolInv, PoolTypeOK, PoolStages, Judge, Goes
<1>1. PoolTypeOK'
  <2>1. place' \in [Requests -> PoolStages] /\ ownInputs' \in [Requests -> BetInputs]
    OBVIOUS
  <2>2. retried' \in [Requests -> BOOLEAN]
    <3>1. CASE retried' = retried
      BY <3>1
    <3>2. CASE retried' = [retried EXCEPT ![r] = TRUE]
      BY <3>2, Zenon
    <3> QED BY <3>1, <3>2
  <2> QED BY <2>1, <2>2
<1>2. Unanswered'
  BY DEF Unanswered
<1>3. BetsOnce' /\ WaitsForOwnInputs'
  BY DEF BetsOnce, WaitsForOwnInputs
<1>4. UnderOwnId' /\ EntriesAreLive'
  BY DEF UnderOwnId, EntriesAreLive
<1>5. OwnInputs'
  BY DEF OwnInputs, Unanswered
<1> QED BY <1>1, <1>2, <1>3, <1>4, <1>5

\* The request that submits has not bet before, so nobody waits for its draft.
LEMMA SubmitPreserves ==
  ASSUME PoolInv, NEW r \in Requests, Submit(r) PROVE PoolInv'
<1> USE DEF PoolInv, PoolTypeOK, PoolStages, Submit, Goes
<1>1. PoolTypeOK'
  OBVIOUS
<1>2. Unanswered' /\ BetsOnce' /\ OwnInputs'
  BY DEF Unanswered, BetsOnce, OwnInputs
<1>3. WaitsForOwnInputs'
  BY PoolAssumption DEF BetsOnce, WaitsForOwnInputs, PoolAssumption
<1>4. UnderOwnId' /\ EntriesAreLive'
  BY DEF UnderOwnId, EntriesAreLive
<1> QED BY <1>1, <1>2, <1>3, <1>4

\* A registration replaces one entry by the live registering request's.
LEMMA RegisterPreserves == ASSUME PoolInv, NEW r \in Requests, Register(r) PROVE PoolInv'
<1> USE DEF PoolInv, PoolTypeOK, PoolStages, Register, Goes
<1>1. PoolTypeOK'
  OBVIOUS
<1>2. Unanswered' /\ BetsOnce' /\ WaitsForOwnInputs' /\ OwnInputs'
  BY DEF Unanswered, BetsOnce, WaitsForOwnInputs, OwnInputs
<1>3. UnderOwnId' /\ EntriesAreLive'
  BY DEF UnderOwnId, EntriesAreLive
<1> QED BY <1>1, <1>2, <1>3

\* Only a draft of the same inputs is waited for.
LEMMA TakePreserves == ASSUME PoolInv, NEW r \in Requests, Take(r) PROVE PoolInv'
<1> USE DEF PoolInv, PoolTypeOK, PoolStages, Take, Goes, Usable
<1>1. PoolTypeOK'
  OBVIOUS
<1>2. Unanswered' /\ BetsOnce' /\ OwnInputs'
  BY DEF Unanswered, BetsOnce, OwnInputs
<1>3. WaitsForOwnInputs'
  BY DEF WaitsForOwnInputs
<1>4. UnderOwnId' /\ EntriesAreLive'
  BY DEF UnderOwnId, EntriesAreLive
<1> QED BY <1>1, <1>2, <1>3, <1>4

\* What is collected was generated from the inputs of the request that waited.
LEMMA CollectPreserves == ASSUME PoolInv, NEW r \in Requests, CollectDraft(r) PROVE PoolInv'
<1> USE DEF PoolInv, PoolTypeOK, PoolStages, CollectDraft, Goes
<1>1. PoolTypeOK'
  BY DEF WaitsForOwnInputs
<1>2. Unanswered' /\ BetsOnce' /\ WaitsForOwnInputs'
  BY DEF Unanswered, BetsOnce, WaitsForOwnInputs
<1>3. OwnInputs'
  BY DEF OwnInputs, WaitsForOwnInputs, Unanswered
<1>4. UnderOwnId' /\ EntriesAreLive'
  BY DEF UnderOwnId, EntriesAreLive
<1> QED BY <1>1, <1>2, <1>3, <1>4

\* A request that ends takes its entry along, which can only be under its id.
LEMMA DiscardPreserves == ASSUME PoolInv, NEW r \in Requests, Discard(r) PROVE PoolInv'
<1> USE DEF PoolInv, PoolTypeOK, PoolStages, Discard, Goes
<1>1. PoolTypeOK'
  OBVIOUS
<1>2. Unanswered' /\ BetsOnce' /\ WaitsForOwnInputs' /\ OwnInputs'
  BY DEF Unanswered, BetsOnce, WaitsForOwnInputs, OwnInputs
<1>3. UnderOwnId' /\ EntriesAreLive'
  BY DEF UnderOwnId, EntriesAreLive
<1> QED BY <1>1, <1>2, <1>3

\* The pool moves drafts and nothing that the invariant speaks of.
LEMMA PoolPreserves ==
  ASSUME PoolInv, UNCHANGED <<requestVars, registry, betOn>> PROVE PoolInv'
BY DEF PoolInv, requestVars, PoolTypeOK, Unanswered, BetsOnce, WaitsForOwnInputs,
       UnderOwnId, OwnInputs, EntriesAreLive

\* Every step preserves the invariant.
LEMMA PoolStep ==
  ASSUME PoolInv, [PoolNext]_poolVars PROVE PoolInv'
<1>1. ASSUME NEW r \in Requests, RequestStep(r) PROVE PoolInv'
  BY <1>1, MovesPreserve, GradePreserves, SubmitPreserves, RegisterPreserves, TakePreserves,
     CollectPreserves, DiscardPreserves DEF RequestStep
<1>2. ASSUME NEW r \in Requests, Raise(r) PROVE PoolInv'
  BY <1>2, MovesPreserve
<1>3. ASSUME NEW r \in Requests, FinishDraft(r) PROVE PoolInv'
  BY <1>3, PoolPreserves DEF FinishDraft
<1>4. CASE StartDraft
  BY <1>4, PoolPreserves DEF StartDraft
<1>5. CASE UNCHANGED poolVars
  BY <1>5, PoolPreserves DEF poolVars
<1> QED BY <1>1, <1>2, <1>3, <1>4, <1>5 DEF PoolNext

\* A request never goes on with a draft of other inputs, and the entries of the registry
\* belong to requests that have not returned (_take_speculation, _discard_speculation).
THEOREM DraftsAreOwn == PoolSpec => []DraftsStayOwn
<1>1. PoolInv => DraftsStayOwn
  BY DEF PoolInv, DraftsStayOwn
<1>2. PoolInv /\ [PoolNext]_poolVars => PoolInv'
  BY PoolStep
<1> QED BY <1>1, <1>2, InitPoolInv, PTL DEF PoolSpec
=============================================================================
