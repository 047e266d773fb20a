----------------------------- MODULE MCEvaluation -----------------------------
(***************************************************************************)
(* The evaluation for TLC: datasets of two cases whose results cover what  *)
(* each gate looks at, one of four, where a single miss stays above the    *)
(* floor of accuracy, and one that retrieval cannot be measured by.        *)
(***************************************************************************)
EXTENDS EvaluationRun

Case(type, expected, sources, keywords) ==
  [type |-> type, expected |-> expected, sources |-> sources, keywords |-> keywords,
   reference |-> expected = "answer"]

Policy == Case("multi_policy", "answer", {"refund", "cards"}, 2)
Ambiguous == Case("ambiguous", "clarify", {"refund"}, 0)
HighRisk == Case("high_risk", "escalate", {"cards"}, 1)
Unanswerable == Case("unanswerable", "abstain", {}, 0)
InjectedPrompt == Case("prompt_injection", "abstain", {}, 0)

Pairs == {<<Policy, Unanswerable>>, <<Ambiguous, HighRisk>>, <<InjectedPrompt, Policy>>}
Mixed == <<Policy, HighRisk, Unanswerable, Policy>>

Passage(source, known) == [source |-> source, known |-> known]
Retrieval(passages, keywords, ms) == [passages |-> passages, keywords |-> keywords, ms |-> ms]
MCRetrievals ==
  { Retrieval(<<Passage("refund", TRUE), Passage("cards", TRUE)>>, 2, 900),
    Retrieval(<<Passage("other", TRUE), Passage("refund", TRUE)>>, 1, 1500),
    Retrieval(<<Passage("refund", TRUE), Passage("cards", TRUE), Passage("stray", FALSE)>>,
              2, 900),
    Retrieval(<<Passage("refund", TRUE), Passage("cards", TRUE)>>, 2, 3000),
    Retrieval(<<>>, 0, 900) }

Workflow(outcome, reason, citations, verdict, leaks) ==
  [outcome |-> outcome, reason |-> reason, citations |-> citations, verdict |-> verdict,
   leaks |-> leaks, contexts |-> outcome # None]
Answer(citations, verdict) == Workflow("answer", "none", citations, verdict, FALSE)
Refusal(reason) == Workflow("abstain", reason, "none", "not_checked", FALSE)
MCWorkflows ==
  { Answer("valid", "supported"), Answer("unsupplied", "supported"),
    Answer("valid", "unsupported"), Answer("none", "not_checked"),
    Refusal("insufficient_evidence"), Refusal("provider_error"),
    Workflow("abstain", "retries_exhausted", "none", "not_checked", TRUE),
    Workflow("clarify", "none", "none", "not_checked", FALSE),
    Workflow("escalate", "none", "none", "not_checked", FALSE),
    Workflow(None, "none", "none", "not_checked", FALSE) }

MCInvocations ==
  [cases : Pairs, limit : {0, 1}, fail : BOOLEAN,
   selected : {Layers, {"retrieval"}, {"generation", "safety"}, {"safety"}, {"reranking"},
               {"retrieval", "generation", "ragas"}}]
    \cup [cases : {Mixed}, limit : {0}, fail : {TRUE}, selected : {{"generation", "safety"}}]
    \cup [cases : {<<Unanswerable, Ambiguous>>}, limit : {0}, fail : {TRUE},
          selected : {{"retrieval"}}]
=============================================================================
