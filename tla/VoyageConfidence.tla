--------------------------- MODULE VoyageConfidence ---------------------------
(***************************************************************************)
(* What the Voyage evaluations compute without a service: which golden     *)
(* cases they select, how a dataset is split, whether a threshold on the   *)
(* best score would let a case through, and which threshold is chosen.     *)
(*                                                                         *)
(* A case is [expected, type, category].  Scores and rates are integers:   *)
(* a score is a grade of relevance, a rate a number of percent, and two    *)
(* rates over the same records are compared by their numerators.  The      *)
(* order in which sha256 or a seeded shuffle puts the cases is a sequence  *)
(* `order` of their positions, the same for every run over one dataset.    *)
(***************************************************************************)
EXTENDS Integers, Sequences, FiniteSets, FiniteSetsExt, SequencesExt

Splits == {"calibration", "development", "held_out"}

-----------------------------------------------------------------------------
(***************************************************************************)
(* Selection: every one is a set of positions, taken in dataset order.     *)
(***************************************************************************)
InOrder(cases, S) == SelectSeq([i \in DOMAIN cases |-> i], LAMBDA i : i \in S)
Prefix(positions, limit) ==
  IF limit = 0 THEN positions ELSE SubSeq(positions, 1, Min({limit, Len(positions)}))

\* Ambiguous and high-risk questions are routed before retrieval.
Eligible(cases) == {i \in DOMAIN cases : cases[i].expected \in {"answer", "abstain"}}
SelectCases(cases, limit) == Prefix(InOrder(cases, Eligible(cases)), limit)

\* --case-id: each known and none twice; the outcome is not looked at.
ExplicitIsValid(cases, ids) == Range(ids) \subseteq DOMAIN cases /\ IsInjective(ids)

AbstentionCategory(case) ==
  IF case.type = "prompt_injection" THEN "injection_adversarial" ELSE case.category

Expecting(cases, outcome) == {i \in DOMAIN cases : cases[i].expected = outcome}
CountsAvailable(cases, answers, abstains) ==
  /\ answers <= Cardinality(Expecting(cases, "answer"))
  /\ abstains <= Cardinality(Expecting(cases, "abstain"))

\* Abstentions are dealt round by round over the categories, so two categories differ
\* by at most one case unless the smaller is used up.
Dealt(cases, picked) ==
  LET Of(S, c) == {i \in S : AbstentionCategory(cases[i]) = c}
      available == Expecting(cases, "abstain") IN
  \E rounds \in 0..Len(cases) : \A c \in {AbstentionCategory(cases[i]) : i \in available} :
    Cardinality(Of(picked, c)) \in {Min({rounds, Cardinality(Of(available, c))}),
                                    Min({rounds + 1, Cardinality(Of(available, c))})}

StratifiedSelections(cases, answers, abstains) ==
  {InOrder(cases, S) : S \in
     {A \cup B : A \in kSubset(answers, Expecting(cases, "answer")),
                 B \in {P \in kSubset(abstains, Expecting(cases, "abstain")) : Dealt(cases, P)}}}

-----------------------------------------------------------------------------
(***************************************************************************)
(* The split.                                                              *)
(***************************************************************************)
ConfidenceStratum(case) ==
  IF case.expected = "answer" THEN <<"answer", case.type>>
  ELSE <<"abstain",
         CASE case.type = "prompt_injection" \/ case.category = "security"
                -> "injection_adversarial"
           [] case.category = "conflicting_evidence" -> "conflict"
           [] OTHER -> case.category>>

\* One fifth, rounded, from eight cases on; round(0.2 * n) meets no tie.
Fifth(n) == (2 * n + 5) \div 10
HeldOutCount(n) == IF n >= 8 THEN Fifth(n) ELSE IF n >= 2 THEN 1 ELSE 0
DevelopmentCount(n) == IF n >= 8 THEN Fifth(n) ELSE IF n >= 3 THEN 1 ELSE 0

SplitOf(cases, chosen, order, i) ==
  LET Same(j) == j \in Range(chosen) /\ ConfidenceStratum(cases[j]) = ConfidenceStratum(cases[i])
      members == SelectSeq(order, Same)
      count == Len(members)
      calibration == count - DevelopmentCount(count) - HeldOutCount(count)
      index == CHOOSE k \in DOMAIN members : members[k] = i
  IN  IF index <= calibration THEN "calibration"
      ELSE IF index <= calibration + DevelopmentCount(count) THEN "development" ELSE "held_out"

-----------------------------------------------------------------------------
(***************************************************************************)
(* The gate: the best score alone decides; support and margin are shown.   *)
(***************************************************************************)
Permits(scores, threshold) == scores # <<>> /\ Head(scores) >= threshold

Count(records, Test(_)) == Cardinality({i \in DOMAIN records : Test(records[i])})

\* Of the records at the positions `among`.
ConfusionMatrix(records, among, threshold) ==
  LET Is(expected, permitted) ==
        Cardinality({i \in among : /\ records[i].expected = expected
                                   /\ Permits(records[i].scores, threshold) = permitted})
  IN  [TP |-> Is("answer", TRUE), FP |-> Is("abstain", TRUE),
       TN |-> Is("abstain", FALSE), FN |-> Is("answer", FALSE)]

\* Mutation: the false permits are taken over the wrong cases.
FalsePermitsOfAnswers(m, maximum) == 100 * m.FP <= maximum * Max({1, m.TP + m.FN})

\* A rate over no cases is zero.
Total(n) == Max({1, n})
Answerable(m) == Total(m.TP + m.FN)
Abstaining(m) == Total(m.FP + m.TN)

RecallReached(m, minimum) == 100 * m.TP >= minimum * Answerable(m)
FalsePermitsWithin(m, maximum) == 100 * m.FP <= maximum * Abstaining(m)

-----------------------------------------------------------------------------
(***************************************************************************)
(* The choice of a threshold.                                              *)
(***************************************************************************)
\* Records marked as development or held-out are left out.
SelectionRecords(records, among) == {i \in among : records[i].split = "calibration"}

ThresholdCandidates(records, among) ==
  {Head(records[i].scores) : i \in {j \in among : records[j].scores # <<>>}}

\* Balanced accuracy, then few false permits, then recall, then the higher threshold.
SelectionKey(m, threshold) ==
  <<-(m.TP * Abstaining(m) + m.TN * Answerable(m)), m.FP, -m.TP, -threshold>>

\* How far a threshold misses the two constraints.
Shortfall(m, minimum, maximum) ==
  Answerable(m) * Max({0, 100 * m.FP - maximum * Abstaining(m)})
    + Abstaining(m) * Max({0, minimum * Answerable(m) - 100 * m.TP})

Precedes(a, b) ==
  \E i \in DOMAIN a : a[i] < b[i] /\ \A j \in 1..(i - 1) : a[j] = b[j]
Best(thresholds, Key(_)) ==
  CHOOSE t \in thresholds : \A u \in thresholds \ {t} : Precedes(Key(t), Key(u))

ValidThresholds(records, among, minimum, maximum) ==
  {t \in ThresholdCandidates(records, among) :
     LET m == ConfusionMatrix(records, among, t)
     IN  RecallReached(m, minimum) /\ FalsePermitsWithin(m, maximum)}

\* The selected profile, or the diagnostic one when no threshold satisfies both.
ChooseSafetyFirstProfile(records, among, minimum, maximum) ==
  LET selection == SelectionRecords(records, among)
      valid == ValidThresholds(records, selection, minimum, maximum)
      Matrix(t) == ConfusionMatrix(records, selection, t)
      Diagnostic(t) == <<Shortfall(Matrix(t), minimum, maximum)>> \o SelectionKey(Matrix(t), t)
  IN  IF valid # {}
      THEN [valid |-> TRUE, threshold |-> Best(valid, LAMBDA t : SelectionKey(Matrix(t), t))]
      ELSE [valid |-> FALSE,
            threshold |-> Best(ThresholdCandidates(records, selection), Diagnostic)]
=============================================================================
