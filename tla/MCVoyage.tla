------------------------------- MODULE MCVoyage -------------------------------
(***************************************************************************)
(* The Voyage evaluations for TLC, and their properties.  Calibration has  *)
(* seven cases in small strata, or ten with one that is split by fifths,   *)
(* so that answerable and unanswerable cases compete for a threshold;      *)
(* ablation has one or two cases, by every way of selecting them.          *)
(***************************************************************************)
EXTENDS VoyageEvaluation

Case(expected, type, category) == [expected |-> expected, type |-> type, category |-> category]
Direct == Case("answer", "direct", "refunds")
Missing == Case("abstain", "unanswerable", "uncovered")
Injected == Case("abstain", "prompt_injection", "uncovered")
Risky == Case("escalate", "high_risk", "fraud")

MCScoreLists == {<<1>>, <<2>>, <<3, 1>>}

Command(script, dataset, order) ==
  [script |-> script, dataset |-> dataset, order |-> order, confirmed |-> TRUE,
   configured |-> TRUE, limit |-> 0, ids |-> <<>>, counts |-> <<>>, maxRetries |-> 1,
   withLLM |-> TRUE, minimumRecall |-> 0, maximumFalsePermits |-> 0]

Small == <<Risky, Direct, Direct, Missing, Direct, Direct, Missing, Injected>>
Large == [i \in 1..8 |-> Direct] \o <<Missing, Injected>>
Fit(dataset, recall, permits) ==
  [Command(Calibration, dataset, [i \in DOMAIN dataset |-> i]) EXCEPT
     !.minimumRecall = recall, !.maximumFalsePermits = permits, !.maxRetries = 0]

Sampled == <<Missing, Direct, Injected, Risky, Direct>>
Try(ids) == [Command(Ablation, Sampled, <<1, 2, 3, 4, 5>>) EXCEPT !.ids = ids]

MCInvocations ==
  { [Fit(Small, 80, 0) EXCEPT !.order = Reverse(@)], [Fit(Small, 0, 100) EXCEPT !.limit = 4],
    [Fit(Large, 50, 50) EXCEPT !.withLLM = FALSE], Fit(<<Risky>>, 80, 0),
    Try(<<4>>), Try(<<2, 1>>), Try(<<2, 2>>), Try(<<9>>),
    [Try(<<2>>) EXCEPT !.confirmed = FALSE], [Try(<<2>>) EXCEPT !.configured = FALSE],
    [Try(<<>>) EXCEPT !.limit = 1], [Try(<<2>>) EXCEPT !.limit = 1],
    [Try(<<>>) EXCEPT !.counts = <<0, 1>>], [Try(<<>>) EXCEPT !.counts = <<3, 1>>] }

-----------------------------------------------------------------------------
(***************************************************************************)
(* Properties.                                                             *)
(***************************************************************************)
\* A judge outage "is an operational failure, not evidence that the draft is wrong": the
\* path that lost its judge says so.
JudgeOutageIsReported ==
  \A p \in Paths : \A i \in DOMAIN results[p] :
    "verify" \in results[p][i].lost => "verify" \in results[p][i].failures
=============================================================================
