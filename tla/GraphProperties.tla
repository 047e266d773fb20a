--------------------------- MODULE GraphProperties ---------------------------
(***************************************************************************)
(* What must hold of a request through the self-healing graph.             *)
(***************************************************************************)
EXTENDS SelfHealingGraph, FiniteSets

Over == pc \in {"returning", "done"}

(***************************************************************************)
(* The safety order that speculation must not change: the draft returned   *)
(* as the answer is the one the verifier found supported, it was generated *)
(* from exactly the query and chunks the grader found sufficient, those    *)
(* pass the deterministic gate, and they are the ones in the final state,  *)
(* from which the citations are resolved.  A stale speculative draft, a    *)
(* regeneration, or a retry between grading and generation could break it. *)
(* Nor is the failure_reason of a retrieval outage or of a rejected draft  *)
(* earlier in the request left on it, which /query would turn into an      *)
(* error.                                                                  *)
(***************************************************************************)
AnswerIsVerified ==
  Over /\ final_outcome = "answer" =>
    /\ answer_draft # None
    /\ verification_result = [verdict |-> "supported", of |-> answer_draft]
    /\ answer_draft.inputs = CurrentInputs
    /\ evidence_grade = [verdict |-> "sufficient", on |-> CurrentInputs]
    /\ GateAccepts
    /\ failure_reason = "none"

(***************************************************************************)
(* The budget's ledger against what really happened, over both threads:    *)
(* every slot in llm_calls_used is a call that was sent or a permit some   *)
(* thread still holds, except for the calls the grader made and gave back. *)
(***************************************************************************)
LedgerBalances == llm_calls_used + forgiven = calls_made + Cardinality(Holders)

(***************************************************************************)
(* How far the calls sent can exceed max_llm_calls.  The grader gives back *)
(* the slot of a call that failed: a simple grader's outage ends the       *)
(* request, so once; the condition-aware one may be read as weak evidence, *)
(* so once per grading.                                                    *)
(***************************************************************************)
OverrunBounded ==
  /\ calls_made <= max_llm_calls + forgiven
  /\ forgiven <= IF settings.evidence_grading_mode = "simple" THEN 1 ELSE MaxRetries + 1

\* What max_llm_calls is worth: the ledger is right up to the slots given back, and those
\* are few.
CallsAccounted == LedgerBalances /\ OverrunBounded

(***************************************************************************)
(* A node that ran out of budget ends the request: the graph only drains   *)
(* through nodes that the deadline also stops, to an abstention that gives *)
(* the budget as its reason; and the budget's snapshot, which overwrites   *)
(* the flag the nodes set, agrees with that abstention.                    *)
(***************************************************************************)
ExhaustionFailsClosed ==
  /\ budget_exhausted /\ pc # "done" =>
       /\ pc \in {"rerank", "evidence_grader", "abstain", "returning"}
       /\ pc \in {"rerank", "evidence_grader"} => deadline_passed
       /\ failure_reason = "request_budget_exhausted"
       /\ pc = "returning" => /\ final_outcome = "abstain"
                              /\ abstain_reason = "request_budget_exhausted"
  /\ pc = "done" /\ abstain_reason = "request_budget_exhausted" => budget_exhausted

\* One draft per request: a retry never starts a second one, whose future would
\* replace the first in the registry and in the pool.
DraftsOnce == [][speculation.inputs # None => speculation'.inputs = speculation.inputs]_vars

(***************************************************************************)
(* "Speculation never starves the retry loop of the permits it was sized   *)
(* for": at its first rewrite a request, whether it bet on a draft or not, *)
(* finds the slots for the rewrite and for the grade after it, and then    *)
(* the one for that grade, as far as its allowance ever had them.  What    *)
(* the grade, the draft and the rewrite can have cost by then is one slot  *)
(* for each provider of the route they got to, and the draft is there only *)
(* when the allowance leaves room for it.                                  *)
(***************************************************************************)
Least(a, b) == IF a <= b THEN a ELSE b
CallsLeft == max_llm_calls - llm_calls_used

RetryStaysAffordable ==
  /\ pc = "query_rewriter" /\ retry_count = 0 =>
       CallsLeft >= Least(2, IF route_index = 1 THEN max_llm_calls - 1
                             ELSE max_llm_calls - 2 * route_index)
  /\ pc = "evidence_grader" /\ retry_count = 1 =>
       CallsLeft >= Least(1, IF route_index = 1 THEN max_llm_calls - 2
                             ELSE max_llm_calls - 3 * route_index)

(***************************************************************************)
(* A grader whose provider failed, or whose failover was refused, approves *)
(* nothing; and the simple grader's outage ends the request instead of     *)
(* spending a retry.                                                       *)
(***************************************************************************)
OutageIsNoVerdict ==
  [][pc = "grading" /\ call["node"].st \in {"failed", "refused"} =>
       /\ pc' # "generate_answer"
       /\ settings.evidence_grading_mode = "simple" => pc' # "query_rewriter"]_vars

(***************************************************************************)
(* Every request returns or raises, and its draft thread ends too, however *)
(* the retry and regeneration loops, the failovers and the deadline play   *)
(* out.                                                                    *)
(***************************************************************************)
RequestEnds == <>(pc \in {"done", "crashed"})
DraftEnds == [](call["draft"].st # "idle" => <>(call["draft"].st = "idle"))

-----------------------------------------------------------------------------
(***************************************************************************)
(* The promise to the caller.                                              *)
(***************************************************************************)
Approved == IF evidence_grade.verdict = "sufficient" THEN evidence_grade.on ELSE None
Vetted == IF verification_result.verdict = "supported" THEN verification_result.of ELSE None
Outcome == IF pc = "crashed" THEN "failed"
           ELSE IF ~Over THEN "open"
           ELSE IF final_outcome = "answer" THEN "answer" ELSE "declined"
Delivered == IF Over /\ final_outcome = "answer" THEN answer_draft ELSE None

Gate == INSTANCE AnswerGate WITH
  approved <- Approved, vetted <- Vetted, outcome <- Outcome, answer <- Delivered

\* The graph implements AnswerGate.
AnswerGateSpec == Gate!Spec

(***************************************************************************)
(* The promise of the provider calls to each other.  A call that waits for *)
(* a permit to fail over is ready again in all but the permit.             *)
(***************************************************************************)
StageOf(t) ==
  CASE call[t].st = "idle" -> "idle"
    [] call[t].st \in {"permit", "failover"} -> "ready"
    [] call[t].st = "routed" -> "noted"
    [] call[t].st = "sent" -> "sent"
    [] OTHER -> "over"

Route == INSTANCE FailoverRoute WITH
  Callers <- Threads, length <- NumProviders, position <- route_index,
  stage <- [t \in Threads |-> StageOf(t)],
  noted <- [t \in Threads |-> IF call[t].st \in {"routed", "sent"} THEN call[t].attempt ELSE 0]

\* The calls of the nodes and of the draft implement FailoverRoute.
FailoverRouteSpec == Route!Spec

-----------------------------------------------------------------------------
(***************************************************************************)
(* What the repository says of the graph and the code does not do.         *)
(***************************************************************************)

\* tests/test_self_healing_graph.py:1615: `llm_calls_used` must report calls
\* made, not slots reserved.
LedgerMatchesCalls == pc = "done" /\ call["draft"].st = "idle" => llm_calls_used = calls_made

\* graph.py:366-371: speculation never starves the retry loop of the permits it was
\* sized for.  It does when a call fails over after the bet was taken.
SpeculationNeverStarves ==
  speculation.inputs # None /\ pc = "query_rewriter" /\ retry_count = 0 => CallsLeft >= 2

\* state.py:68-72: only a completed grader, never one that failed, may enter the
\* retrieval retry loop.
GraderOutageNeverRetries ==
  [][pc = "grading" /\ call["node"].st \in {"failed", "refused"} =>
       pc' # "query_rewriter"]_vars

\* graph.py:900: an unused draft never outlives its request.
SpeculationDiscarded == pc \in {"done", "crashed"} => ~registered
=============================================================================
