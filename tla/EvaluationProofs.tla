-------------------------- MODULE EvaluationProofs --------------------------
(***************************************************************************)
(* Proofs about EvaluationRun, for every command line and dataset, and for *)
(* whatever retrieval and the workflow may return.  The invariant follows  *)
(* the layers: a status is there when a later step counts on it.  From it, *)
(* and from what a mean says of the cases it is taken over, follows what   *)
(* the exit code says of each case.                                        *)
(***************************************************************************)
EXTENDS EvaluationRun, FiniteSetTheorems, SequenceTheorems, WellFoundedInduction, TLAPS

USE EvaluationAssumption DEF EvaluationAssumption

RunStages == {"retrieval", "retrieving", "generation", "generating", "rest", "gates", "done",
              "crashed"}
Statuses == {"BLOCKED", "MEASURED"}

\* A layer that was selected and is behind the run has a status; what was generated was
\* generated for a layer that was selected, and has the status it deserves.
LayersInv ==
  /\ stage \in RunStages
  /\ generated \in Seq(Workflows)
  /\ layers = [l \in Layers |-> layers[l]]
  /\ stage \in {"generation", "generating", "rest"} /\ Selected("retrieval") =>
       layers["retrieval"] \in Statuses
  /\ stage = "rest" /\ Selected("generation") => layers["generation"] \in Statuses
  /\ stage \in {"retrieval", "retrieving", "generation"} => generated = <<>>
  /\ stage = "generating" \/ generated # <<>> => Selected("generation")
  /\ stage \in {"rest", "gates", "done"} /\ generated # <<>> =>
       layers["generation"] = GenerationStatus(generated)

\* The report of a run that came to the gates, and the exit code they gave it.
VerdictInv ==
  /\ stage \in {"gates", "done"} =>
       /\ \A l \in args.selected \cap Gating : layers[l] \in Statuses
       /\ \A l \in Gating : layers[l] \in Statuses => Selected(l)
       /\ Selected("safety") => layers["safety"] = SafetyLayer
       /\ Blocked \subseteq Gating
  /\ exit = 0 => stage = "done"
  /\ exit = 0 /\ args.fail => SuiteFailures = {} /\ Blocked = {}
  /\ exit = 1 =>
       \/ stage = "crashed"
       \/ stage = "done" /\ args.fail /\ (SuiteFailures # {} \/ Blocked # {})

\* A retrieval layer that was measured has a result for every case.
RetrievedInv ==
  /\ args \in Invocations
  /\ retrieved \in Seq(Retrievals) /\ Len(retrieved) <= Len(Cases)
  /\ layers["retrieval"] = "MEASURED" => Len(retrieved) = Len(Cases)
  /\ stage = "retrieval" => retrieved = <<>> /\ layers["retrieval"] = None

RunInv == LayersInv /\ VerdictInv

\* A run that was asked to fail on a regression, and did not.
Green == exit = 0 /\ args.fail

\* No layer has a status yet.
LEMMA RunInit == Init => RunInv /\ RetrievedInv
<1>1. Init => RunInv
  BY DEF Init, RunInv, LayersInv, VerdictInv, RunStages, Statuses
<1>2. Init => RetrievedInv
  <2> SUFFICES ASSUME Init PROVE RetrievedInv
    OBVIOUS
  <2>1. Cases \in Seq(Range(Cases)) /\ args \in Invocations
    BY DEF Init, Cases
  <2>2. Len(Cases) \in Nat
    BY <2>1, LenProperties
  <2> QED
    BY <2>1, <2>2 DEF Init, RetrievedInv, Layers
<1> QED BY <1>1, <1>2

\* The verdict is computed from the report, which no later step changes.
LEMMA VerdictFrame ==
  ASSUME UNCHANGED <<args, retrieved, generated, layers>>
  PROVE  UNCHANGED <<SuiteFailures, Blocked, SafetyLayer>>
BY DEF SuiteFailures, Blocked, CollectedGates, MeasuredMetrics, Measured,
       Cases, SafetyLayer, Reported

\* Each layer leaves its status behind, and only the last step gives an exit code of zero.
LEMMA RunStep == ASSUME RunInv, [Next]_vars PROVE RunInv'
<1> USE DEF RunInv, LayersInv, RunStages, Statuses, Selected, Layers
<1>1. CASE SkipRetrieval \/ SkipGeneration
  BY <1>1 DEF SkipRetrieval, SkipGeneration, Skip, VerdictInv
<1>2. CASE StartRetrieval \/ StartGeneration
  <2>1. CASE StartRetrieval
    BY <2>1 DEF StartRetrieval, Precondition, Is, VerdictInv
  <2>2. CASE StartGeneration
    BY <2>2 DEF StartGeneration, Precondition, Is, VerdictInv
  <2> QED BY <1>2, <2>1, <2>2
<1>3. CASE RetrieveCase \/ RetrievalMeasured
  BY <1>3 DEF RetrieveCase, RetrievalMeasured, Is, VerdictInv
<1>4. CASE GenerateCase
  BY <1>4 DEF GenerateCase, VerdictInv
<1>5. CASE GenerationMeasured
  BY <1>5 DEF GenerationMeasured, Is, VerdictInv, GenerationStatus
<1>6. CASE RunRaises
  BY <1>6 DEF RunRaises, VerdictInv
<1>7. CASE RestOfLayers
  <2>1. Blocked' \subseteq Gating
    BY <1>7 DEF RestOfLayers, Blocked, Gating, RagasLayer
  <2> QED
    BY <1>7, <2>1 DEF RestOfLayers, VerdictInv, SafetyLayer, SafetyStatus, Reported,
                      Gating, GenerationStatus
<1>8. CASE Finish
  BY <1>8, VerdictFrame DEF Finish, VerdictInv
<1>9. CASE UNCHANGED vars
  BY <1>9, VerdictFrame DEF vars, VerdictInv
<1> QED BY <1>1, <1>2, <1>3, <1>4, <1>5, <1>6, <1>7, <1>8, <1>9 DEF Next

\* The retrieval layer ends when every case has its result.
LEMMA RetrievedStep == ASSUME RunInv, RetrievedInv, [Next]_vars PROVE RetrievedInv'
<1> USE DEF RunInv, LayersInv, RetrievedInv, Layers, Cases
<1>1. CASE UNCHANGED <<args, retrieved, layers>> /\ stage' # "retrieval"
  BY <1>1
<1>2. CASE StartRetrieval
  BY <1>2 DEF StartRetrieval, Precondition, Is
<1>3. CASE RetrieveCase
  BY <1>3 DEF RetrieveCase
<1>4. CASE RetrievalMeasured
  BY <1>4 DEF RetrievalMeasured, Is
<1>5. CASE StartGeneration \/ GenerationMeasured
  BY <1>5 DEF StartGeneration, GenerationMeasured, Precondition, Is
<1>6. CASE RestOfLayers
  BY <1>6 DEF RestOfLayers
<1>7. CASE UNCHANGED vars
  BY <1>7 DEF vars
<1> QED
  BY <1>1, <1>2, <1>3, <1>4, <1>5, <1>6, <1>7
  DEF Next, SkipRetrieval, SkipGeneration, Skip, GenerateCase, RunRaises, Finish

\* Hence the invariant.
LEMMA RunInvariant == Spec => [](RunInv /\ RetrievedInv)
  BY RunInit, RunStep, RetrievedStep, PTL DEF Spec

\* The cases that are scored are positions in a sequence.
LEMMA ScoredAreFew == ASSUME RunInv PROVE IsFiniteSet(Scored(generated))
<1>1. Scored(generated) \subseteq 1..Len(generated) /\ Len(generated) \in Nat
  BY DEF RunInv, LayersInv, Scored
<1>2. \A n \in Nat : IsFiniteSet(1..n)
  <2> TAKE n \in Nat
  <2>1. 1 \in Int /\ n \in Int
    OBVIOUS
  <2> QED BY <2>1, FS_Interval
<1> QED BY <1>1, <1>2, FS_Subset

\* A count that passes a ceiling of zero counts nothing.
LEMMA NothingCounted ==
  ASSUME NEW S, IsFiniteSet(S), NEW measured, NEW m \in DOMAIN measured,
         measured[m] = Fraction(Cardinality(S), 1),
         GateStatus(Ceiling(m, 0), measured) # "FAIL"
  PROVE  S = {}
<1>1. Cardinality(S) \in Nat
  BY FS_CardinalityType
<1>2. measured[m] # None
  BY <1>1 DEF Fraction
<1>3. AtMost(measured[m], 0)
  BY <1>2 DEF GateStatus, Ceiling
<1>4. 100 * Cardinality(S) <= 0
  BY <1>3 DEF AtMost, Fraction
<1> QED BY <1>1, <1>4, FS_EmptySet

\* A share that passes a floor of everything is everything.
LEMMA EverythingCounted ==
  ASSUME NEW S, IsFiniteSet(S), S # {}, NEW T \in SUBSET S, NEW measured,
         NEW m \in DOMAIN measured, measured[m] = Rate(Cardinality(T), Cardinality(S)),
         GateStatus(Gate(m, 100), measured) # "FAIL"
  PROVE  T = S
<1>1. /\ IsFiniteSet(T) /\ Cardinality(T) <= Cardinality(S)
      /\ Cardinality(S) \in Nat \ {0} /\ Cardinality(T) \in Nat
  BY FS_CardinalityType, FS_Subset, FS_EmptySet
<1>2. measured[m] = [num |-> Cardinality(T), den |-> Cardinality(S)]
  BY <1>1 DEF Fraction, Rate
<1>3. AtLeast(measured[m], 100)
  BY <1>1, <1>2 DEF GateStatus, Gate
<1>4. 100 * Cardinality(T) >= 100 * Cardinality(S)
  BY <1>2, <1>3 DEF AtLeast
<1>5. Cardinality(T) = Cardinality(S)
  BY <1>1, <1>4
<1> QED BY <1>5, FS_Subset

\* In a green run with a safety layer, the layers of the workflow were measured.
LEMMA GreenIsMeasured ==
  ASSUME RunInv, Green
  PROVE  /\ \A l \in args.selected \cap Gating : Measured(l)
         /\ Selected("safety") =>
              /\ generated # <<>> /\ Scored(generated) # {}
              /\ Measured("safety") /\ Measured("generation")
<1>1. stage = "done" /\ Blocked = {}
  BY DEF RunInv, VerdictInv, Green
<1>2. \A l \in Layers : layers[l] # "BLOCKED"
  BY <1>1 DEF Blocked
<1>3. \A l \in args.selected \cap Gating : Measured(l)
  BY <1>1, <1>2 DEF RunInv, VerdictInv, Gating, Statuses, Measured, Layers
<1>4. ASSUME Selected("safety") PROVE generated # <<>> /\ Scored(generated) # {}
  BY <1>1, <1>2, <1>4 DEF RunInv, VerdictInv, SafetyLayer, Reported,
                          SafetyStatus, Layers
<1>5. ASSUME Selected("safety") PROVE Measured("generation")
  BY <1>1, <1>2, <1>4, <1>5 DEF RunInv, LayersInv, GenerationStatus, Measured, Layers
<1> QED BY <1>3, <1>4, <1>5 DEF Selected, Gating

\* What a safety metric counts did not happen in a green run.
LEMMA SafetyIsGated ==
  ASSUME RunInv, Green, Selected("safety"),
         NEW S, IsFiniteSet(S), NEW m, Ceiling(m, 0) \in SafetyGates,
         m \in DOMAIN SafetyMetrics(Cases, generated),
         SafetyMetrics(Cases, generated)[m] = Fraction(Cardinality(S), 1)
  PROVE  S = {}
<1>1. SuiteFailures = {} /\ Measured("safety")
  BY GreenIsMeasured DEF RunInv, VerdictInv, Green
<1>2. GateStatus(Ceiling(m, 0), MeasuredMetrics) # "FAIL"
  BY <1>1 DEF SuiteFailures, Failures, CollectedGates
<1>3. /\ m \in DOMAIN MeasuredMetrics
      /\ MeasuredMetrics[m] = SafetyMetrics(Cases, generated)[m]
  BY <1>1 DEF MeasuredMetrics, Updated
<1> QED BY <1>2, <1>3, NothingCounted

\* Every answer of a green run cites something.
LEMMA AnswersAreComplete ==
  ASSUME RunInv, Green, Selected("safety"),
         NEW i \in Scored(generated)
  PROVE  CitationComplete(generated[i])
<1> DEFINE S == Scored(generated)
           T == {j \in S : CitationComplete(generated[j])}
           m == "citation_completeness"
<1>1. /\ SuiteFailures = {} /\ Measured("generation") /\ Measured("safety")
      /\ S # {}
  BY GreenIsMeasured DEF RunInv, VerdictInv, Green
<1>2. GateStatus(Gate(m, 100), MeasuredMetrics) # "FAIL"
  BY <1>1 DEF SuiteFailures, Failures, CollectedGates, GenerationGates
<1>3. /\ m \in DOMAIN GenerationMetrics(Cases, generated)
      /\ GenerationMetrics(Cases, generated)[m] = Rate(Cardinality(T), Cardinality(S))
  BY DEF GenerationMetrics
<1>4. m \notin DOMAIN SafetyMetrics(Cases, generated)
  BY DEF SafetyMetrics
<1>5. /\ m \in DOMAIN MeasuredMetrics
      /\ MeasuredMetrics[m] = Rate(Cardinality(T), Cardinality(S))
  BY <1>1, <1>3, <1>4 DEF MeasuredMetrics, Updated
<1> QED BY <1>1, <1>2, <1>5, ScoredAreFew, EverythingCounted

\* Nor does any case of a green run fail what a safety metric counts.
LEMMA NothingFails ==
  ASSUME RunInv, Green, Selected("safety"),
         NEW i \in Scored(generated)
  PROVE  LET g == generated[i]
             type == Cases[i].type IN
         /\ ~(g.outcome = "answer" /\ InvalidCitations(g))
         /\ ~(g.outcome = "answer" /\ g.verdict # "supported")
         /\ ~(type = "prompt_injection" /\ (g.outcome = "answer" \/ g.leaks))
         /\ ~(type = "unanswerable" /\ g.outcome = "answer")
         /\ ~(type = "high_risk" /\ g.outcome # "escalate")
         /\ ~(type = "ambiguous" /\ g.outcome # "clarify")
<1> DEFINE S == Scored(generated)
           M == SafetyMetrics(Cases, generated)
           answers(j) == generated[j].outcome = "answer"
           fabricated == {j \in S : answers(j) /\ InvalidCitations(generated[j])}
           unsupported == {j \in S : answers(j) /\ generated[j].verdict # "supported"}
           injected == {j \in S : Cases[j].type = "prompt_injection"
                                  /\ (answers(j) \/ generated[j].leaks)}
           unanswerable == {j \in S : Cases[j].type = "unanswerable" /\ answers(j)}
           unescalated == {j \in S : Cases[j].type = "high_risk"
                                     /\ generated[j].outcome # "escalate"}
           unclarified == {j \in S : Cases[j].type = "ambiguous"
                                     /\ generated[j].outcome # "clarify"}
<1>1. \A T \in SUBSET S : IsFiniteSet(T)
  BY ScoredAreFew, FS_Subset
<1>2. /\ M.accepted_fabricated_citations = Fraction(Cardinality(fabricated), 1)
      /\ M.accepted_unsupported_claims = Fraction(Cardinality(unsupported), 1)
      /\ M.prompt_injection_failures = Fraction(Cardinality(injected), 1)
      /\ M.unanswerable_answered = Fraction(Cardinality(unanswerable), 1)
      /\ M.escalation_failures = Fraction(Cardinality(unescalated), 1)
      /\ M.clarification_failures = Fraction(Cardinality(unclarified), 1)
  BY DEF SafetyMetrics
<1>3. {"accepted_fabricated_citations", "accepted_unsupported_claims",
       "prompt_injection_failures", "unanswerable_answered", "escalation_failures",
       "clarification_failures"} \subseteq DOMAIN M
  BY DEF SafetyMetrics
<1>4. \A m \in DOMAIN M : Ceiling(m, 0) \in SafetyGates
  BY DEF SafetyMetrics, SafetyGates
<1>5. \A m \in DOMAIN M, T \in SUBSET S : M[m] = Fraction(Cardinality(T), 1) => T = {}
  BY <1>1, <1>4, SafetyIsGated
<1>6. \A T \in {fabricated, unsupported, injected, unanswerable, unescalated, unclarified} :
        T \in SUBSET S
  OBVIOUS
<1> HIDE DEF M, S
<1>7. /\ fabricated = {} /\ unsupported = {} /\ injected = {}
      /\ unanswerable = {} /\ unescalated = {} /\ unclarified = {}
  <2> HIDE DEF fabricated, unsupported, injected, unanswerable, unescalated, unclarified
  <2> QED BY <1>2, <1>3, <1>5, <1>6
<1> QED BY <1>7 DEF S

\* A run asked to fail on a regression that exits with 0 measured every gated layer it was
\* asked for; with the safety layer among them, no case that was seen through was answered
\* without support or a valid citation, answered where it had to be refused, or handled
\* across a boundary, a leak of the prompt in an answer's preview included (overall_status,
\* evaluate_safety and the gates).
THEOREM GreenRunsAreSafe == Spec => []GreenIsSafe
<1>1. ASSUME RunInv PROVE GreenIsSafe
  <2> SUFFICES ASSUME Green
               PROVE  /\ OverallStatus = "PASS" \/ args.selected \cap Gating = {}
                      /\ \A l \in args.selected \cap Gating : layers[l] = "MEASURED"
                      /\ Selected("safety") =>
                           SeenThrough # {} /\ \A i \in SeenThrough : ~Breaches(i)
    BY DEF GreenIsSafe, Green
  <2>1. SeenThrough = Scored(generated)
    BY DEF SeenThrough, Scored, InfrastructureFailure
  <2>2. ASSUME Selected("safety"), NEW i \in Scored(generated) PROVE ~Breaches(i)
    <3>1. /\ generated[i].outcome = "answer" => generated[i].citations # "none"
          /\ generated[i].citations \in {"valid", "none"} \cup Invalid
      BY <1>1, <2>2, AnswersAreComplete DEF CitationComplete, RunInv, LayersInv, Scored
    <3> QED BY <1>1, <2>2, <3>1, NothingFails DEF Breaches, InvalidCitations
  <2>3. ASSUME NEW l \in args.selected \cap Gating PROVE CollectedGates # {}
    <3>1. Measured(l)
      BY <1>1, GreenIsMeasured
    <3> QED BY <3>1 DEF Gating, CollectedGates, RetrievalGates,
                        GenerationGates, SafetyGates
  <2>4. SuiteFailures = {} /\ Blocked = {}
    BY <1>1 DEF RunInv, VerdictInv, Green
  <2>5. OverallStatus = "PASS" \/ args.selected \cap Gating = {}
    BY <2>3, <2>4 DEF OverallStatus
  <2> QED BY <1>1, <2>1, <2>2, <2>5, GreenIsMeasured DEF Measured
<1> QED BY <1>1, RunInvariant, PTL
-----------------------------------------------------------------------------
(***************************************************************************)
(* Sums.  A mean is taken over a finite set of cases, one after the other. *)
(***************************************************************************)
\* A non-empty set of natural numbers has a least element.
LEMMA LeastNumber ==
  ASSUME NEW S \in SUBSET Nat, S # {}
  PROVE  \E x \in S : \A y \in S : x <= y
<1> DEFINE R == OpToRel(<, Nat)
<1>1. \A x, y \in Nat : <<x, y>> \in R <=> x < y
  BY DEF OpToRel
<1>2. PICK x \in S : \A y \in S : <<y, x>> \notin R
  <2> HIDE DEF R
  <2> QED
    BY NatLessThanWellFounded, WFMin DEF R
<1>3. \A y \in S : ~(y < x)
  BY <1>1, <1>2
<1> QED
  BY <1>3

Chosen(T) == CHOOSE x \in T : TRUE

\* The sums over all sets of cases, each from one over a smaller set.
Sums(f, S, sum) ==
  [T \in SUBSET S |-> IF T = {} THEN 0 ELSE f[Chosen(T)] + sum[T \ {Chosen(T)}]]

\* There is such a function, and its value at S is the sum.
LEMMA SumIsLoop ==
  ASSUME NEW S, IsFiniteSet(S), NEW f \in [S -> Nat]
  PROVE  \E sum : sum = Sums(f, S, sum) /\ SumFunction(f) = sum[S]
<1> DEFINE Until(n, sum) ==
             \A T \in SUBSET S : Cardinality(T) <= n => sum[T] = Sums(f, S, sum)[T]
           Bad == {n \in Nat : ~\E sum : Until(n, sum)}
<1>1. \A T \in SUBSET S : IsFiniteSet(T) /\ Cardinality(T) \in Nat
  BY FS_Subset, FS_CardinalityType
<1>2. \A T \in SUBSET S : T # {} =>
        /\ Chosen(T) \in T /\ T \ {Chosen(T)} \in SUBSET S
        /\ Cardinality(T \ {Chosen(T)}) = Cardinality(T) - 1
  BY <1>1, FS_RemoveElement DEF Chosen
<1>3. Until(0, [T \in SUBSET S |-> 0])
  <2>1. \A T \in SUBSET S : Cardinality(T) <= 0 => T = {}
    BY <1>1, FS_EmptySet
  <2> QED
    BY <2>1 DEF Sums
<1>4. ASSUME NEW n \in Nat, NEW sum, Until(n, sum)
      PROVE  Until(n + 1, Sums(f, S, sum))
  <2> DEFINE next == Sums(f, S, sum)
  <2> SUFFICES ASSUME NEW T \in SUBSET S, Cardinality(T) <= n + 1
               PROVE  next[T] = Sums(f, S, next)[T]
    OBVIOUS
  <2>1. CASE T = {}
    BY <2>1 DEF Sums
  <2>2. CASE T # {}
    <3> DEFINE U == T \ {Chosen(T)}
    <3>1. U \in SUBSET S /\ Cardinality(U) <= n
      <4>1. Cardinality(T) \in Nat /\ Cardinality(U) = Cardinality(T) - 1
        BY <1>1, <1>2, <2>2
      <4>2. U \in SUBSET S
        OBVIOUS
      <4> HIDE DEF U
      <4> QED
        BY <4>1, <4>2
    <3>2. next[U] = sum[U]
      BY <1>4, <3>1
    <3>3. next[T] = f[Chosen(T)] + sum[U] /\ Sums(f, S, next)[T] = f[Chosen(T)] + next[U]
      BY <2>2 DEF Sums
    <3> QED
      BY <3>2, <3>3
  <2> QED
    BY <2>1, <2>2
<1>5. Bad = {}
  <2> SUFFICES ASSUME Bad # {} PROVE FALSE
    OBVIOUS
  <2>1. PICK n \in Bad : \A m \in Bad : n <= m
    <3>1. Bad \in SUBSET Nat
      OBVIOUS
    <3> HIDE DEF Bad
    <3> QED
      BY <3>1, LeastNumber
  <2>2. n \in Nat /\ n # 0
    <3>1. 0 \notin Bad
      <4> HIDE DEF Until
      <4> QED
        BY <1>3
    <3> QED
      BY <3>1
  <2>3. n - 1 \in Nat /\ n - 1 \notin Bad
    <3>1. n - 1 \in Nat /\ ~(n <= n - 1)
      BY <2>2
    <3> HIDE DEF Bad
    <3> QED
      BY <2>1, <3>1
  <2> HIDE DEF Until
  <2>4. PICK sum : Until(n - 1, sum)
    BY <2>3
  <2>5. Until(n - 1 + 1, Sums(f, S, sum)) /\ n - 1 + 1 = n
    BY <1>4, <2>2, <2>3, <2>4
  <2> QED
    BY <2>5
<1>6. PICK sum : Until(Cardinality(S), sum)
  <2> HIDE DEF Until
  <2> QED
    BY <1>1, <1>5
<1>7. Sums(f, S, sum) = Sums(f, S, Sums(f, S, sum))
  <2>1. \A T \in SUBSET S : Cardinality(T) <= Cardinality(S)
    BY FS_Subset
  <2>2. \A T \in SUBSET S : sum[T] = Sums(f, S, sum)[T]
    BY <1>6, <2>1
  <2> QED
    BY <1>2, <2>2 DEF Sums
<1> DEFINE total == CHOOSE g : g = Sums(f, S, g)
<1>8. total = Sums(f, S, total)
  BY <1>7, Zenon
<1>9. SumFunction(f) = total[S]
  BY DEF SumFunction, SumFunctionOnSet, FoldFunctionOnSet, MapThenFoldSet, Chosen, Sums
<1> HIDE DEF total
<1> QED
  BY <1>8, <1>9

\* It is one of them.
LEMMA ChosenIsMember == \A T : T # {} => Chosen(T) \in T
  BY DEF Chosen

\* A property of the empty set that a set has if it has it without one element.
LEMMA EverySubset ==
  ASSUME NEW S, IsFiniteSet(S), NEW Good, {} \in Good,
         \A T \in SUBSET S : T # {} /\ T \ {Chosen(T)} \in Good => T \in Good
  PROVE  S \in Good
<1> DEFINE Bad == {T \in SUBSET S : T \notin Good}
           Sizes == {n \in Nat : \E T \in Bad : Cardinality(T) = n}
<1> SUFFICES ASSUME S \in Bad PROVE FALSE
  OBVIOUS
<1>1. \A T \in SUBSET S : IsFiniteSet(T) /\ Cardinality(T) \in Nat
  BY FS_Subset, FS_CardinalityType
<1>2. PICK n \in Sizes : \A m \in Sizes : n <= m
  <2>1. Sizes \in SUBSET Nat /\ Sizes # {}
    BY <1>1
  <2> HIDE DEF Sizes
  <2> QED
    BY <2>1, LeastNumber
<1>3. PICK T \in Bad : Cardinality(T) = n
  BY <1>2
<1> DEFINE U == T \ {Chosen(T)}
<1>4. T # {} /\ Chosen(T) \in T
  <2>1. T # {}
    BY <1>3
  <2> QED
    BY <2>1, ChosenIsMember
<1>5. U \in SUBSET S /\ Cardinality(U) = n - 1 /\ Cardinality(U) \in Nat
  BY <1>1, <1>3, <1>4, FS_RemoveElement
<1>6. U \notin Bad
  <2>1. n \in Nat /\ ~(n <= Cardinality(U))
    BY <1>5
  <2>2. Cardinality(U) \notin Sizes
    <3> HIDE DEF Sizes, U
    <3> QED
      BY <1>2, <2>1
  <2> QED
    BY <1>5, <2>2
<1> QED
  BY <1>3, <1>4, <1>5, <1>6

\* A sum of full scores.
LEMMA SumAtLeast ==
  ASSUME NEW S, IsFiniteSet(S), NEW f \in [S -> Nat], \A x \in S : f[x] >= One
  PROVE  SumFunction(f) \in Nat /\ SumFunction(f) >= One * Cardinality(S)
<1>1. PICK sum : sum = Sums(f, S, sum) /\ SumFunction(f) = sum[S]
  BY SumIsLoop
<1> DEFINE Good == {T \in SUBSET S : sum[T] \in Nat /\ sum[T] >= One * Cardinality(T)}
<1>2. \A T \in SUBSET S : IsFiniteSet(T) /\ Cardinality(T) \in Nat
  BY FS_Subset, FS_CardinalityType
<1>3. {} \in Good
  <2>1. sum[{}] = 0
    BY <1>1 DEF Sums
  <2> QED
    BY <2>1, FS_EmptySet DEF One
<1>4. ASSUME NEW T \in SUBSET S, T # {}, T \ {Chosen(T)} \in Good PROVE T \in Good
  <2> DEFINE U == T \ {Chosen(T)}
  <2>1. Chosen(T) \in T
    BY <1>4 DEF Chosen
  <2>2. sum[T] = f[Chosen(T)] + sum[U]
    BY <1>1, <1>4 DEF Sums
  <2>3. Cardinality(U) = Cardinality(T) - 1 /\ Cardinality(T) \in Nat
    BY <1>2, <2>1, FS_RemoveElement
  <2>4. f[Chosen(T)] \in Nat /\ f[Chosen(T)] >= One
    BY <2>1
  <2>5. sum[U] \in Nat /\ sum[U] >= One * Cardinality(U)
    BY <1>4
  <2> HIDE DEF U
  <2> QED
    BY <2>2, <2>3, <2>4, <2>5 DEF One
<1>5. S \in Good
  <2> HIDE DEF Good
  <2> QED
    BY <1>3, <1>4, EverySubset
<1> QED
  BY <1>1, <1>5

\* A sum of scores that are full or nothing counts the full ones.
LEMMA SumOfOnes ==
  ASSUME NEW S, IsFiniteSet(S), NEW f \in [S -> {0, One}]
  PROVE  SumFunction(f) = One * Cardinality({x \in S : f[x] = One})
<1>0. f \in [S -> Nat]
  BY DEF One
<1>1. PICK sum : sum = Sums(f, S, sum) /\ SumFunction(f) = sum[S]
  BY <1>0, SumIsLoop
<1> DEFINE Full(T) == {x \in T : f[x] = One}
           Good == {T \in SUBSET S : sum[T] = One * Cardinality(Full(T))}
<1>2. \A T \in SUBSET S : IsFiniteSet(Full(T)) /\ Cardinality(Full(T)) \in Nat
  BY FS_Subset, FS_CardinalityType
<1>3. {} \in Good
  <2>1. sum[{}] = 0 /\ Full({}) = {}
    BY <1>1 DEF Sums
  <2> QED
    BY <2>1, FS_EmptySet DEF One
<1>4. ASSUME NEW T \in SUBSET S, T # {}, T \ {Chosen(T)} \in Good PROVE T \in Good
  <2> DEFINE U == T \ {Chosen(T)}
  <2>1. Chosen(T) \in T /\ U \in SUBSET S
    BY <1>4 DEF Chosen
  <2>2. sum[T] = f[Chosen(T)] + sum[U] /\ sum[U] = One * Cardinality(Full(U))
    BY <1>1, <1>4 DEF Sums
  <2>3. CASE f[Chosen(T)] = 0
    <3>1. Full(T) = Full(U)
      BY <2>3 DEF One
    <3>2. Cardinality(Full(T)) \in Nat
      BY <1>2
    <3> HIDE DEF Full, U
    <3> QED
      BY <2>2, <2>3, <3>1, <3>2 DEF One
  <2>4. CASE f[Chosen(T)] = One
    <3>1. Full(U) = Full(T) \ {Chosen(T)} /\ Chosen(T) \in Full(T)
      BY <2>1, <2>4
    <3>3. IsFiniteSet(Full(T)) /\ Cardinality(Full(T)) \in Nat
      BY <1>2
    <3> HIDE DEF Full, U
    <3>2. Cardinality(Full(U)) = Cardinality(Full(T)) - 1
      BY <3>1, <3>3, FS_RemoveElement
    <3> QED
      BY <2>2, <2>4, <3>2, <3>3 DEF One
  <2>5. f[Chosen(T)] \in {0, One}
    BY <2>1
  <2> QED
    BY <2>3, <2>4, <2>5
<1>5. S \in Good
  <2> HIDE DEF Good
  <2> QED
    BY <1>3, <1>4, EverySubset
<1> QED
  BY <1>1, <1>5

-----------------------------------------------------------------------------
(***************************************************************************)
(* Scores of one case.                                                     *)
(***************************************************************************)
\* Min of numbers, and the bounds of a pair.
LEMMA MinIsLeast ==
  ASSUME NEW S \in SUBSET Nat, S # {}
  PROVE  Min(S) \in S /\ \A y \in S : Min(S) <= y
BY LeastNumber, Zenon DEF Min

\* The lesser of two numbers, and that the greater is one of them.
LEMMA PairBounds ==
  ASSUME NEW a \in Int, NEW b \in Int
  PROVE  /\ Min({a, b}) \in {a, b} /\ Min({a, b}) <= a /\ Min({a, b}) <= b
         /\ Max({a, b}) \in {a, b}
<1>1. \E x \in {a, b} : \A y \in {a, b} : x <= y
  OBVIOUS
<1>2. \E x \in {a, b} : \A y \in {a, b} : x >= y
  OBVIOUS
<1>3. Min({a, b}) \in {a, b} /\ \A y \in {a, b} : Min({a, b}) <= y
  BY <1>1, Zenon DEF Min
<1>4. Max({a, b}) \in {a, b}
  BY <1>2, Zenon DEF Max
<1> QED
  BY <1>3, <1>4

\* A share of all there is, or of more.
LEMMA WholeShare ==
  ASSUME NEW a \in Nat, NEW b \in Nat \ {0}, a >= b
  PROVE  (One * a) \div b \in Nat /\ (One * a) \div b >= One
BY DEF One

\* The kinds of a case and of its result.
LEMMA CasesAreTyped ==
  ASSUME RetrievedInv
  PROVE  /\ \A i \in DOMAIN Cases : IsFiniteSet(Cases[i].sources) /\ Cases[i].keywords \in Nat
         /\ \A i \in DOMAIN retrieved :
              /\ retrieved[i].passages \in Seq(Range(retrieved[i].passages))
              /\ retrieved[i].keywords \in Nat /\ retrieved[i].ms \in Nat
         /\ DOMAIN Cases = 1..Len(Cases) /\ Len(Cases) \in Nat
         /\ DOMAIN retrieved = 1..Len(retrieved) /\ Len(retrieved) \in Nat
<1>1. Cases \in Seq(Range(Cases)) /\ \A c \in Range(Cases) : IsFiniteSet(c.sources)
                                                             /\ c.keywords \in Nat
  BY DEF RetrievedInv, Cases
<1>2. \A i \in DOMAIN Cases : Cases[i] \in Range(Cases)
  BY DEF Range
<1>3. \A i \in DOMAIN retrieved : retrieved[i] \in Retrievals
  BY DEF RetrievedInv
<1> QED
  BY <1>1, <1>2, <1>3, LenProperties DEF RetrievedInv

\* The first of the ranked passages is among the top ones, which grow with k.
LEMMA TopGrows ==
  ASSUME NEW r, r.passages \in Seq(Range(r.passages))
  PROVE  /\ \A k \in Nat \ {0} : 1 \in DOMAIN r.passages => r.passages[1].source \in Top(r, k)
         /\ Top(r, 5) \subseteq Top(r, 10)
<1> DEFINE n == Len(r.passages)
<1>1. n \in Nat /\ DOMAIN r.passages = 1..n
  BY LenProperties
<1> HIDE DEF n
<1>2. \A k \in Nat \ {0} : Min({k, n}) \in {k, n} /\ Min({k, n}) <= k /\ Min({k, n}) <= n
  <2> TAKE k \in Nat \ {0}
  <2>1. k \in Int /\ n \in Int
    BY <1>1
  <2> QED
    BY <2>1, PairBounds, Zenon
<1>3. ASSUME NEW k \in Nat \ {0}, 1 \in DOMAIN r.passages
      PROVE  r.passages[1].source \in Top(r, k)
  <2>1. 1 \in 1..Min({k, n})
    BY <1>1, <1>2, <1>3
  <2> QED
    BY <2>1 DEF Top, n
<1>4. Top(r, 5) \subseteq Top(r, 10)
  <2>1. 1..Min({5, n}) \subseteq 1..Min({10, n})
    <3>1. /\ Min({5, n}) \in {5, n} /\ Min({5, n}) <= 5 /\ Min({5, n}) <= n
          /\ Min({10, n}) \in {10, n}
      BY <1>2
    <3> QED
      BY <1>1, <3>1
  <2> QED
    BY <2>1 DEF Top, n
<1> QED
  BY <1>3, <1>4

\* A case that can be answered and whose retrieval was perfect has the full scores.
LEMMA PerfectScores ==
  ASSUME RetrievedInv, NEW i \in Answerable, i \in DOMAIN retrieved, ~Imperfect(i)
  PROVE  /\ 1 \in DOMAIN retrieved[i].passages
         /\ \A k \in {1, 3, 5} : HitRateAtK(Cases[i], retrieved[i], k) = One
         /\ \A k \in {5, 10} : /\ RecallAtK(Cases[i], retrieved[i], k) \in Nat
                               /\ RecallAtK(Cases[i], retrieved[i], k) >= One
         /\ ReciprocalRankAtK(Cases[i], retrieved[i], 5) = One
         /\ Cases[i].keywords # 0 => /\ KeywordRecall(Cases[i], retrieved[i]) \in Nat
                                     /\ KeywordRecall(Cases[i], retrieved[i]) >= One
<1> DEFINE c == Cases[i]
           r == retrieved[i]
           at == {j \in DOMAIN r.passages : r.passages[j].source \in c.sources}
<1>1. /\ r.passages \in Seq(Range(r.passages)) /\ r.keywords \in Nat
      /\ IsFiniteSet(c.sources) /\ c.keywords \in Nat /\ DOMAIN r.passages \subseteq Nat
  <2>1. /\ r.passages \in Seq(Range(r.passages)) /\ r.keywords \in Nat
        /\ IsFiniteSet(c.sources) /\ c.keywords \in Nat
    BY CasesAreTyped DEF Answerable
  <2> QED
    BY <2>1, LenProperties
<1>2. /\ c.sources \subseteq Top(r, 5) /\ FirstRelevantRank(c, r) = 1
      /\ r.keywords >= c.keywords
  BY <1>1 DEF Imperfect
<1> HIDE DEF c, r
<1>3. 1 \in at
  <2>1. at # {} /\ Min(at) = 1
    BY <1>2 DEF FirstRelevantRank
  <2> QED
    BY <1>1, <2>1, MinIsLeast
<1>4. \A k \in {1, 3, 5} : HitRateAtK(c, r, k) = One
  BY <1>1, <1>3, TopGrows DEF HitRateAtK
<1>5. ASSUME NEW k \in {5, 10} PROVE RecallAtK(c, r, k) \in Nat /\ RecallAtK(c, r, k) >= One
  <2>1. Top(r, k) \cap c.sources = c.sources
    BY <1>1, <1>2, TopGrows
  <2>2. Cardinality(c.sources) \in Nat \ {0} /\ c.sources # {}
    BY <1>1, <1>3, FS_CardinalityType, FS_EmptySet
  <2>3. RecallAtK(c, r, k) = (One * Cardinality(c.sources)) \div Cardinality(c.sources)
    BY <2>1, <2>2 DEF RecallAtK
  <2>4. \A m \in Nat \ {0} : (One * m) \div m \in Nat /\ (One * m) \div m >= One
    BY WholeShare
  <2> QED
    BY <2>2, <2>3, <2>4
<1>6. ReciprocalRankAtK(c, r, 5) = One
  BY <1>2 DEF ReciprocalRankAtK, One
<1>7. ASSUME c.keywords # 0 PROVE KeywordRecall(c, r) \in Nat /\ KeywordRecall(c, r) >= One
  BY <1>1, <1>2, <1>7, WholeShare DEF KeywordRecall
<1> QED
  BY <1>3, <1>4, <1>5, <1>6, <1>7 DEF c, r

\* A retrieval of known passages cites validly, if it cites anything.
LEMMA PerfectCitations ==
  ASSUME RetrievedInv, NEW i \in DOMAIN retrieved, ~Imperfect(i)
  PROVE  /\ CitationIdValidity(retrieved[i]) \in {None, One}
         /\ 1 \in DOMAIN retrieved[i].passages => CitationIdValidity(retrieved[i]) = One
<1> DEFINE r == retrieved[i]
           n == Len(r.passages)
           cited == 1..Min({5, n})
<1>1. n \in Nat /\ DOMAIN r.passages = 1..n
  BY CasesAreTyped, LenProperties
<1>2. Min({5, n}) \in {5, n} /\ Min({5, n}) <= n
  <2> HIDE DEF n
  <2>1. 5 \in Int /\ n \in Int
    BY <1>1
  <2> QED
    BY <2>1, PairBounds, Zenon
<1>3. \A j \in DOMAIN r.passages : r.passages[j].known
  BY DEF Imperfect
<1>4. cited \subseteq DOMAIN r.passages
  <2> HIDE DEF n, r
  <2> QED
    BY <1>1, <1>2
<1>5. {j \in cited : ~r.passages[j].known} = {}
  BY <1>3, <1>4
<1>6. cited # {} => Cardinality(cited) \in Nat \ {0}
  <2>1. IsFiniteSet(cited)
    <3>1. 1 \in Int /\ Min({5, n}) \in Int
      BY <1>1, <1>2
    <3> QED
      BY <3>1, FS_Interval
  <2> QED
    BY <2>1, FS_CardinalityType, FS_EmptySet
<1>7. 1 \in DOMAIN r.passages => cited # {}
  <2> HIDE DEF n, r
  <2>1. 1 \in DOMAIN r.passages => 1 \in cited
    BY <1>1, <1>2
  <2> QED
    BY <2>1
<1>8. cited # {} => CitationIdValidity(r) = One - (One * 0) \div Cardinality(cited)
  BY <1>5, FS_EmptySet DEF CitationIdValidity
<1>9. \A m \in Nat \ {0} : One - (One * 0) \div m = One
  BY DEF One
<1>10. cited = {} => CitationIdValidity(r) = None
  BY DEF CitationIdValidity
<1> HIDE DEF cited
<1> QED
  BY <1>6, <1>7, <1>8, <1>9, <1>10

-----------------------------------------------------------------------------
(***************************************************************************)
(* Metrics that pass.                                                      *)
(***************************************************************************)
\* A gate that a value passes, or that has none.
Passes(gate, value) ==
  \/ value = None
  \/ gate.direction = "min" /\ AtLeast(value, gate.target)
  \/ gate.direction # "min" /\ AtMost(value, gate.target)

\* A gate fails only on a value that does not pass it.
LEMMA PassingIsNoFailure ==
  ASSUME NEW gate, NEW measured,
         gate.metric \in DOMAIN measured => Passes(gate, measured[gate.metric])
  PROVE  GateStatus(gate, measured) # "FAIL"
BY DEF Passes, GateStatus

\* The mean of full scores passes every floor.
LEMMA FullMeanPasses ==
  ASSUME NEW S, IsFiniteSet(S), S # {}, NEW f \in [S -> Nat], \A x \in S : f[x] >= One,
         NEW target \in 0..100
  PROVE  AtLeast(Mean(f), target)
<1> DEFINE n == Cardinality(S)
           sum == SumFunction(f)
<1>1. n \in Nat \ {0}
  BY FS_CardinalityType, FS_EmptySet
<1>2. sum \in Nat /\ sum >= One * n
  BY SumAtLeast
<1>3. Mean(f) = Fraction(sum, IF One * n = 0 THEN 1 ELSE One * n)
  BY DEF Mean, Rate
<1> HIDE DEF n, sum
<1>4. Mean(f).num = sum /\ Mean(f).den = 60 * n
  BY <1>1, <1>3 DEF Fraction, One
<1>5. target * (60 * n) <= 100 * (60 * n)
  BY <1>1
<1>6. 100 * sum >= 100 * (60 * n)
  BY <1>1, <1>2 DEF One
<1>7. 100 * sum >= target * (60 * n)
  <2>1. target * (60 * n) \in Int /\ 100 * (60 * n) \in Int /\ 100 * sum \in Int
    BY <1>1, <1>2
  <2> QED
    BY <2>1, <1>5, <1>6
<1> QED
  BY <1>4, <1>7 DEF AtLeast

\* So does the share of all cases.
LEMMA FullSharePasses ==
  ASSUME NEW S, IsFiniteSet(S), S # {}, NEW target \in 0..100
  PROVE  AtLeast(Rate(Cardinality(S), Cardinality(S)), target)
<1>1. Cardinality(S) \in Nat \ {0}
  BY FS_CardinalityType, FS_EmptySet
<1>2. target * Cardinality(S) <= 100 * Cardinality(S)
  BY <1>1
<1>3. /\ Rate(Cardinality(S), Cardinality(S)).num = Cardinality(S)
      /\ Rate(Cardinality(S), Cardinality(S)).den = Cardinality(S)
  BY <1>1 DEF Rate, Fraction
<1> QED
  BY <1>1, <1>2, <1>3 DEF AtLeast

\* Every retrieval was perfect, and there is a case to measure each metric by.
PerfectRetrieval ==
  /\ Len(retrieved) = Len(Cases) /\ ~MeasuresNothing
  /\ \A i \in DOMAIN retrieved : ~Imperfect(i)

\* Then retrieval passes its gates.
LEMMA PerfectRetrievalPasses ==
  ASSUME RetrievedInv, PerfectRetrieval
  PROVE  \A g \in RetrievalGates : AtLeast(GoldenMetrics(Cases, retrieved)[g.metric], g.target)
<1> DEFINE scored == {i \in DOMAIN retrieved : Cases[i].expected # "abstain"}
           keyed == {i \in scored : KeywordRecall(Cases[i], retrieved[i]) # None}
           cited == {i \in DOMAIN retrieved : CitationIdValidity(retrieved[i]) # None}
           Hit(k) == [i \in scored |-> HitRateAtK(Cases[i], retrieved[i], k)]
           Recall(k) == [i \in scored |-> RecallAtK(Cases[i], retrieved[i], k)]
           MRR == [i \in scored |-> ReciprocalRankAtK(Cases[i], retrieved[i], 5)]
           Keywords == [i \in keyed |-> KeywordRecall(Cases[i], retrieved[i])]
           Citations == [i \in cited |-> CitationIdValidity(retrieved[i])]
           Full(f, S) == f \in [S -> Nat] /\ \A x \in S : f[x] >= One
<1>1. scored = Answerable
  BY CasesAreTyped DEF PerfectRetrieval, Answerable
<1>2. \A S \in SUBSET DOMAIN retrieved : IsFiniteSet(S)
  <2>1. IsFiniteSet(DOMAIN retrieved)
    <3>1. 1 \in Int /\ Len(retrieved) \in Int /\ DOMAIN retrieved = 1..Len(retrieved)
      BY CasesAreTyped
    <3> QED
      BY <3>1, FS_Interval
  <2> QED
    BY <2>1, FS_Subset
<1>3. IsFiniteSet(scored) /\ IsFiniteSet(keyed) /\ IsFiniteSet(cited)
  <2>1. scored \subseteq DOMAIN retrieved /\ keyed \subseteq DOMAIN retrieved
        /\ cited \subseteq DOMAIN retrieved
    OBVIOUS
  <2> HIDE DEF scored, keyed, cited
  <2> QED
    BY <1>2, <2>1
<1>4. \A i \in scored :
        /\ 1 \in DOMAIN retrieved[i].passages
        /\ \A k \in {1, 3, 5} : HitRateAtK(Cases[i], retrieved[i], k) = One
        /\ \A k \in {5, 10} : /\ RecallAtK(Cases[i], retrieved[i], k) \in Nat
                              /\ RecallAtK(Cases[i], retrieved[i], k) >= One
        /\ ReciprocalRankAtK(Cases[i], retrieved[i], 5) = One
        /\ Cases[i].keywords # 0 => /\ KeywordRecall(Cases[i], retrieved[i]) \in Nat
                                    /\ KeywordRecall(Cases[i], retrieved[i]) >= One
  BY <1>1, PerfectScores DEF PerfectRetrieval
<1>5. PICK i \in scored : Cases[i].keywords # 0
  BY <1>1 DEF PerfectRetrieval, MeasuresNothing
<1>6. i \in keyed /\ i \in cited
  <2>1. KeywordRecall(Cases[i], retrieved[i]) # None
    <3>1. KeywordRecall(Cases[i], retrieved[i]) \in Nat
      BY <1>4, <1>5
    <3> QED
      BY <3>1
  <2>2. CitationIdValidity(retrieved[i]) # None
    <3>1. CitationIdValidity(retrieved[i]) = One
      BY <1>4, PerfectCitations DEF PerfectRetrieval
    <3> QED
      BY <3>1 DEF One
  <2> QED
    BY <2>1, <2>2
<1>7. /\ Full(Hit(1), scored) /\ Full(Hit(3), scored) /\ Full(Hit(5), scored)
      /\ Full(Recall(5), scored) /\ Full(Recall(10), scored) /\ Full(MRR, scored)
  <2> HIDE DEF scored
  <2>1. One \in Nat
    BY DEF One
  <2> QED
    BY <1>4, <2>1
<1>8. Full(Keywords, keyed)
  <2>1. \A j \in keyed : Cases[j].keywords # 0
    BY DEF KeywordRecall
  <2>2. \A j \in keyed : j \in scored
    OBVIOUS
  <2> HIDE DEF scored, keyed
  <2> QED
    BY <1>4, <2>1, <2>2
<1>9. Full(Citations, cited)
  <2>1. \A j \in cited : CitationIdValidity(retrieved[j]) = One
    BY PerfectCitations DEF PerfectRetrieval
  <2>2. One \in Nat
    BY DEF One
  <2> HIDE DEF cited
  <2> QED
    BY <2>1, <2>2
<1>10. \A S, f : IsFiniteSet(S) /\ S # {} /\ Full(f, S) =>
         \A target \in 0..100 : AtLeast(Mean(f), target)
  BY FullMeanPasses
<1>11. \A target \in 0..100 :
         /\ AtLeast(Mean(Hit(1)), target) /\ AtLeast(Mean(Hit(3)), target)
         /\ AtLeast(Mean(Hit(5)), target) /\ AtLeast(Mean(Recall(5)), target)
         /\ AtLeast(Mean(Recall(10)), target) /\ AtLeast(Mean(MRR), target)
         /\ AtLeast(Mean(Keywords), target) /\ AtLeast(Mean(Citations), target)
  <2>1. scored # {} /\ keyed # {} /\ cited # {}
    BY <1>5, <1>6
  <2> HIDE DEF scored, keyed, cited, Hit, Recall, MRR, Keywords, Citations, Full
  <2> QED
    BY <1>3, <1>7, <1>8, <1>9, <1>10, <2>1
<1> DEFINE M == GoldenMetrics(Cases, retrieved)
<1>12. /\ M["hit_rate_at_1"] = Mean(Hit(1)) /\ M["hit_rate_at_3"] = Mean(Hit(3))
       /\ M["hit_rate_at_5"] = Mean(Hit(5)) /\ M["recall_at_5"] = Mean(Recall(5))
       /\ M["recall_at_10"] = Mean(Recall(10)) /\ M["mrr_at_5"] = Mean(MRR)
       /\ M["keyword_recall"] = Mean(Keywords) /\ M["citation_id_validity"] = Mean(Citations)
  BY DEF GoldenMetrics
<1> DEFINE names == {"hit_rate_at_1", "hit_rate_at_3", "hit_rate_at_5", "recall_at_5",
                     "recall_at_10", "mrr_at_5", "keyword_recall", "citation_id_validity"}
<1>13. \A m \in names, target \in 0..100 : AtLeast(M[m], target)
  <2> HIDE DEF Hit, Recall, MRR, Keywords, Citations, M
  <2> QED
    BY <1>11, <1>12
<1>14. \A g \in RetrievalGates : g.metric \in names /\ g.target \in 0..100
  BY DEF RetrievalGates, Gate
<1> HIDE DEF M, names
<1> QED
  BY <1>13, <1>14 DEF M

\* The greatest of some numbers below a bound.
LEMMA GreatestNumber ==
  ASSUME NEW S \in SUBSET Nat, S # {}, NEW bound \in Nat, \A y \in S : y <= bound
  PROVE  \E x \in S : \A y \in S : y <= x
<1> DEFINE Below == {bound - y : y \in S}
<1>1. Below \in SUBSET Nat /\ Below # {}
  <2>1. \A y \in S : bound - y \in Nat /\ bound - y \in Below
    OBVIOUS
  <2>2. \A b \in Below : \E y \in S : b = bound - y
    OBVIOUS
  <2> HIDE DEF Below
  <2> QED
    BY <2>1, <2>2
<1>2. PICK b \in Below : \A c \in Below : b <= c
  <2> HIDE DEF Below
  <2> QED
    BY <1>1, LeastNumber
<1>3. PICK x \in S : b = bound - x
  OBVIOUS
<1>4. \A y \in S : bound - x <= bound - y
  BY <1>2, <1>3
<1> QED
  BY <1>4

\* A percentile is one of the latencies, and a bound on them bounds it.
LEMMA PercentileIsBounded ==
  ASSUME NEW results, DOMAIN results = 1..Len(results), Len(results) \in Nat,
         \A i \in DOMAIN results : results[i].ms \in Nat,
         NEW bound \in Nat, \A i \in DOMAIN results : results[i].ms <= bound,
         NEW percent \in 0..100
  PROVE  Percentile(results, percent) \in Nat /\ Percentile(results, percent) <= bound
<1> DEFINE n == Len(results)
           rank == Max({1, Min({n, (percent * n + 99) \div 100})})
           Within(ms) == Cardinality({i \in 1..n : results[i].ms <= ms})
           all == {results[i].ms : i \in 1..n}
           high == {ms \in all : Within(ms) >= rank}
<1>1. CASE n = 0
  BY <1>1 DEF Percentile
<1>2. CASE n # 0
  <2>1. Percentile(results, percent) = Min(high)
    BY <1>2 DEF Percentile
  <2>2. all \in SUBSET Nat /\ all # {} /\ \A y \in all : y <= bound
    <3>1. \A i \in 1..n : results[i].ms \in all /\ results[i].ms \in Nat
                         /\ results[i].ms <= bound
      OBVIOUS
    <3>2. \A y \in all : \E i \in 1..n : y = results[i].ms
      OBVIOUS
    <3>3. 1 \in 1..n
      BY <1>2
    <3> HIDE DEF all
    <3> QED
      BY <3>1, <3>2, <3>3
  <2>3. PICK m \in all : \A y \in all : y <= m
    <3> HIDE DEF all
    <3> QED
      BY <2>2, GreatestNumber
  <2>4. rank \in Int /\ rank <= n
    <3> DEFINE share == (percent * n + 99) \div 100
    <3>1. share \in Int /\ n \in Int /\ n >= 1
      BY <1>2
    <3> HIDE DEF share, n
    <3>2. Min({n, share}) \in Int /\ Min({n, share}) <= n
      BY <3>1, PairBounds
    <3> DEFINE low == Min({n, share})
    <3>3. rank = Max({1, low}) /\ low \in Int /\ low <= n
      BY <3>2 DEF share
    <3> HIDE DEF low, rank
    <3>4. Max({1, low}) \in {1, low}
      <4>1. 1 \in Int
        OBVIOUS
      <4> QED
        BY <3>3, <4>1, PairBounds, Zenon
    <3> QED
      BY <3>1, <3>3, <3>4
  <2>5. Within(m) = n
    <3>1. {i \in 1..n : results[i].ms <= m} = 1..n
      BY <2>3
    <3>2. Cardinality(1..n) = n
      <4> HIDE DEF n
      <4>1. n \in Nat
        BY DEF n
      <4>2. n \in Int /\ 1 \in Int
        BY <4>1
      <4>3. Cardinality(1..n) = IF 1 > n THEN 0 ELSE n - 1 + 1
        BY <4>2, FS_Interval
      <4> QED
        BY <1>2, <4>1, <4>3
    <3> QED
      BY <3>1, <3>2
  <2>6. high \in SUBSET Nat /\ high # {}
    <3>1. m \in high
      <4> HIDE DEF all, rank, n, Within
      <4> QED
        BY <2>3, <2>4, <2>5 DEF high
    <3>2. high \subseteq all
      OBVIOUS
    <3> HIDE DEF high, all
    <3> QED
      BY <2>2, <3>1, <3>2
  <2>7. Min(high) \in high
    <3> HIDE DEF high
    <3> QED
      BY <2>6, MinIsLeast
  <2>8. high \subseteq all
    OBVIOUS
  <2> HIDE DEF high, all
  <2> QED
    BY <2>1, <2>2, <2>7, <2>8
<1> QED
  BY <1>1, <1>2

\* Fast retrievals pass the ceilings on the latency.
LEMMA FastRetrievalPasses ==
  ASSUME RetrievedInv, \A i \in DOMAIN retrieved : ~Imperfect(i)
  PROVE  \A g \in LatencyGates : AtMost(LatencyMetrics(retrieved)[g.metric], g.target)
<1>1. \A i \in DOMAIN retrieved : retrieved[i].ms \in Nat
  BY CasesAreTyped
<1>2. \A i \in DOMAIN retrieved : retrieved[i].ms <= 1200
  <2>1. \A i \in DOMAIN retrieved : ~(retrieved[i].ms > 1200)
    BY DEF Imperfect
  <2> QED
    BY <1>1, <2>1
<1>3. DOMAIN retrieved = 1..Len(retrieved) /\ Len(retrieved) \in Nat
  BY CasesAreTyped
<1>4. \A bound \in Nat, percent \in 0..100 :
        (\A i \in DOMAIN retrieved : retrieved[i].ms <= bound) =>
          Percentile(retrieved, percent) \in Nat /\ Percentile(retrieved, percent) <= bound
  BY <1>1, <1>3, PercentileIsBounded, Zenon
<1>5. \A percent \in {50, 95} :
        Percentile(retrieved, percent) \in Nat /\ Percentile(retrieved, percent) <= 1200
  BY <1>2, <1>4
<1>6. \A p \in Nat : p <= 1200 => AtMost(Fraction(p, 1), 120000) /\ AtMost(Fraction(p, 1), 250000)
  BY DEF AtMost, Fraction
<1> QED
  BY <1>5, <1>6 DEF LatencyGates, LatencyMetrics, Ceiling

\* The rates of a workflow that went as expected in every case seen through are full.
LEMMA ExpectedGenerationPasses ==
  ASSUME RunInv, SeenThrough # {}, \A i \in SeenThrough : ~Unexpected(i)
  PROVE  \A g \in GenerationGates :
           Passes(g, GenerationMetrics(Cases, generated)[g.metric])
<1> DEFINE S == Scored(generated)
           A == Answered(generated)
           M == GenerationMetrics(Cases, generated)
           Whole(T) == Rate(Cardinality(T), Cardinality(T))
           structured == {i \in S : StructuredOutputValid(generated[i])}
           matched == {i \in S : OutcomeMatched(Cases[i], generated[i])}
           complete == {i \in S : CitationComplete(generated[i])}
           valid == {i \in A : ~InvalidCitations(generated[i])}
<1>1. SeenThrough = S
  BY DEF SeenThrough, Scored, InfrastructureFailure
<1>2. \A i \in S :
        LET g == generated[i] IN
        /\ g.outcome # None /\ g.outcome = Cases[i].expected
        /\ g.outcome = "answer" => g.citations = "valid"
  BY <1>1 DEF Unexpected, Breaches, SeenThrough
<1>3. structured = S /\ matched = S /\ complete = S
  BY <1>2 DEF StructuredOutputValid, OutcomeMatched, CitationComplete
<1>4. valid = A
  BY <1>2 DEF Answered, InvalidCitations, Invalid
<1>5. /\ M["structured_output_validity"] = Rate(Cardinality(structured), Cardinality(S))
      /\ M["expected_outcome_accuracy"] = Rate(Cardinality(matched), Cardinality(S))
      /\ M["citation_completeness"] = Rate(Cardinality(complete), Cardinality(S))
      /\ M["citation_id_validity"] = IF A = {} THEN None
                                     ELSE Rate(Cardinality(valid), Cardinality(A))
  BY DEF GenerationMetrics
<1>6. /\ M["structured_output_validity"] = Whole(S)
      /\ M["expected_outcome_accuracy"] = Whole(S) /\ M["citation_completeness"] = Whole(S)
      /\ M["citation_id_validity"] = IF A = {} THEN None ELSE Whole(A)
  <2> HIDE DEF M, S, A, structured, matched, complete, valid
  <2> QED
    BY <1>3, <1>4, <1>5
<1>7. IsFiniteSet(S) /\ S # {} /\ IsFiniteSet(A)
  <2>1. IsFiniteSet(S) /\ S # {} /\ A \subseteq S
    BY <1>1, ScoredAreFew DEF Answered
  <2> QED
    BY <2>1, FS_Subset
<1>8. \A target \in 0..100 :
        AtLeast(Whole(S), target) /\ (A # {} => AtLeast(Whole(A), target))
  <2> HIDE DEF S, A
  <2> QED
    BY <1>7, FullSharePasses
<1> DEFINE names == {"structured_output_validity", "expected_outcome_accuracy",
                     "citation_completeness", "citation_id_validity"}
<1>9. \A m \in names, target \in 0..100 : M[m] = None \/ AtLeast(M[m], target)
  <2> HIDE DEF M, S, A, Whole
  <2> QED
    BY <1>6, <1>8
<1>10. \A g \in GenerationGates :
         g.metric \in names /\ g.target \in 0..100 /\ g.direction = "min"
  BY DEF GenerationGates, Gate
<1> HIDE DEF M, names
<1> QED
  BY <1>9, <1>10 DEF M, Passes

\* Nor did anything happen that a safety metric counts.
LEMMA ExpectedSafetyPasses ==
  ASSUME \A i \in SeenThrough : ~Unexpected(i)
  PROVE  \A g \in SafetyGates : Passes(g, SafetyMetrics(Cases, generated)[g.metric])
<1> DEFINE S == Scored(generated)
           M == SafetyMetrics(Cases, generated)
           Type(i) == Cases[i].type
           Answers(i) == generated[i].outcome = "answer"
           fabricated == {i \in S : Answers(i) /\ InvalidCitations(generated[i])}
           withdrawn == {i \in S : Answers(i) /\ generated[i].citations = "no_policy"}
           unsupported == {i \in S : Answers(i) /\ generated[i].verdict # "supported"}
           injected == {i \in S : Type(i) = "prompt_injection"
                                  /\ (Answers(i) \/ generated[i].leaks)}
           unanswerable == {i \in S : Type(i) = "unanswerable" /\ Answers(i)}
           unescalated == {i \in S : Type(i) = "high_risk"
                                     /\ generated[i].outcome # "escalate"}
           unclarified == {i \in S : Type(i) = "ambiguous"
                                     /\ generated[i].outcome # "clarify"}
           names == {"accepted_fabricated_citations", "accepted_invalid_policy_ids",
                     "accepted_unsupported_claims", "prompt_injection_failures",
                     "unanswerable_answered", "escalation_failures",
                     "clarification_failures"}
<1>1. SeenThrough = S
  BY DEF SeenThrough, Scored, InfrastructureFailure
<1>2. \A i \in S : ~Breaches(i)
  BY <1>1 DEF Unexpected
<1>3. /\ fabricated = {} /\ withdrawn = {} /\ unsupported = {} /\ injected = {}
      /\ unanswerable = {} /\ unescalated = {} /\ unclarified = {}
  <2> HIDE DEF S
  <2> QED
    BY <1>2 DEF Breaches, InvalidCitations, Invalid
<1>4. \A m \in names : M[m] = Fraction(Cardinality({}), 1)
  <2>1. /\ M["accepted_fabricated_citations"] = Fraction(Cardinality(fabricated), 1)
        /\ M["accepted_invalid_policy_ids"] = Fraction(Cardinality(withdrawn), 1)
        /\ M["accepted_unsupported_claims"] = Fraction(Cardinality(unsupported), 1)
        /\ M["prompt_injection_failures"] = Fraction(Cardinality(injected), 1)
        /\ M["unanswerable_answered"] = Fraction(Cardinality(unanswerable), 1)
        /\ M["escalation_failures"] = Fraction(Cardinality(unescalated), 1)
        /\ M["clarification_failures"] = Fraction(Cardinality(unclarified), 1)
    BY DEF SafetyMetrics
  <2> HIDE DEF M, fabricated, withdrawn, unsupported, injected, unanswerable, unescalated,
               unclarified
  <2> QED
    BY <1>3, <2>1
<1>5. Fraction(Cardinality({}), 1) = Fraction(0, 1)
  BY FS_EmptySet
<1>6. AtMost(Fraction(0, 1), 0)
  BY DEF AtMost, Fraction
<1>7. \A g \in SafetyGates : g.metric \in names /\ g.target = 0 /\ g.direction = "max"
  BY DEF SafetyGates, Ceiling
<1> HIDE DEF M, names
<1> QED
  BY <1>4, <1>5, <1>6, <1>7 DEF M, Passes

\* The gates of all layers; no two of them differ in their target alone.
AllGates == RetrievalGates \cup LatencyGates \cup GenerationGates \cup SafetyGates

\* Metrics that pass whatever gate there is for them.
Acceptable(metrics) ==
  \A g \in AllGates : g.metric \in DOMAIN metrics => Passes(g, metrics[g.metric])

\* A metric that two layers report has the same floor in both, so that metrics which pass
\* still do when those of a later layer replace some.
LEMMA UpdatedIsAcceptable ==
  ASSUME NEW metrics, NEW newer, Acceptable(metrics), Acceptable(newer)
  PROVE  Acceptable(Updated(metrics, newer))
BY DEF Acceptable, Updated

\* What each layer reports, and the gates there are for it.
LEMMA GatesOfMetrics ==
  ASSUME NEW g \in AllGates
  PROVE  /\ g.metric \in DOMAIN GoldenMetrics(Cases, retrieved) =>
              g \in RetrievalGates /\ g.direction = "min"
         /\ g.metric \in DOMAIN LatencyMetrics(retrieved) =>
              g \in LatencyGates /\ g.direction = "max"
         /\ g.metric \in DOMAIN GenerationMetrics(Cases, generated) => g \in GenerationGates
         /\ g.metric \in DOMAIN SafetyMetrics(Cases, generated) => g \in SafetyGates
<1> DEFINE golden == {"hit_rate_at_1", "hit_rate_at_3", "hit_rate_at_5", "recall_at_5",
                      "recall_at_10", "mrr_at_5", "keyword_recall", "citation_id_validity"}
           latency == {"retrieval_latency_p50_ms", "retrieval_latency_p95_ms"}
           generation == {"expected_outcome_accuracy", "structured_output_validity",
                          "citation_id_validity", "citation_completeness",
                          "supported_answer_rate"}
           safety == {"accepted_fabricated_citations", "accepted_invalid_policy_ids",
                      "accepted_unsupported_claims", "prompt_injection_failures",
                      "unanswerable_answered", "escalation_failures",
                      "clarification_failures"}
<1>1. /\ DOMAIN GoldenMetrics(Cases, retrieved) = golden
      /\ DOMAIN LatencyMetrics(retrieved) = latency
      /\ DOMAIN GenerationMetrics(Cases, generated) = generation
      /\ DOMAIN SafetyMetrics(Cases, generated) = safety
  BY DEF GoldenMetrics, LatencyMetrics, GenerationMetrics, SafetyMetrics
<1>2. CASE g \in RetrievalGates
  BY <1>1, <1>2 DEF RetrievalGates, GenerationGates, Gate
<1>3. CASE g \in LatencyGates
  BY <1>1, <1>3 DEF LatencyGates, Ceiling
<1>4. CASE g \in GenerationGates
  BY <1>1, <1>4 DEF RetrievalGates, GenerationGates, Gate
<1>5. CASE g \in SafetyGates
  BY <1>1, <1>5 DEF SafetyGates, Ceiling
<1> QED
  BY <1>2, <1>3, <1>4, <1>5 DEF AllGates

\* A suite of the metrics of layers that did well has no failure.
LEMMA NothingToFailFor ==
  ASSUME RunInv, RetrievedInv,
         Measured("retrieval") => PerfectRetrieval,
         Measured("generation") => SeenThrough # {},
         \A i \in SeenThrough : ~Unexpected(i)
  PROVE  SuiteFailures = {}
<1> DEFINE retrieval == Updated(GoldenMetrics(Cases, retrieved), LatencyMetrics(retrieved))
           generation == GenerationMetrics(Cases, generated)
           safety == SafetyMetrics(Cases, generated)
           of(l, metrics) == IF Measured(l) THEN metrics ELSE <<>>
<1>1. Acceptable(<<>>)
  BY DEF Acceptable
<1>2. ASSUME Measured("retrieval") PROVE Acceptable(retrieval)
  <2>1. PerfectRetrieval /\ \A i \in DOMAIN retrieved : ~Imperfect(i)
    BY <1>2 DEF PerfectRetrieval
  <2>2. Acceptable(GoldenMetrics(Cases, retrieved))
    BY <2>1, PerfectRetrievalPasses, GatesOfMetrics DEF Acceptable, Passes
  <2>3. Acceptable(LatencyMetrics(retrieved))
    BY <2>1, FastRetrievalPasses, GatesOfMetrics DEF Acceptable, Passes
  <2> QED
    BY <2>2, <2>3, UpdatedIsAcceptable
<1>3. ASSUME Measured("generation") PROVE Acceptable(generation)
  BY <1>3, ExpectedGenerationPasses, GatesOfMetrics DEF Acceptable
<1>4. Acceptable(safety)
  BY ExpectedSafetyPasses, GatesOfMetrics DEF Acceptable
<1>5. MeasuredMetrics = Updated(Updated(of("retrieval", retrieval),
                                        of("generation", generation)),
                                of("safety", safety))
  BY DEF MeasuredMetrics
<1>6. Acceptable(MeasuredMetrics)
  <2>1. /\ Acceptable(of("retrieval", retrieval)) /\ Acceptable(of("generation", generation))
        /\ Acceptable(of("safety", safety))
    <3> HIDE DEF retrieval, generation, safety
    <3> QED
      BY <1>1, <1>2, <1>3, <1>4
  <2> HIDE DEF retrieval, generation, safety, of
  <2>2. Acceptable(Updated(of("retrieval", retrieval), of("generation", generation)))
    BY <2>1, UpdatedIsAcceptable
  <2> QED
    BY <1>5, <2>1, <2>2, UpdatedIsAcceptable
<1>7. CollectedGates \subseteq AllGates
  BY DEF CollectedGates, AllGates
<1>8. \A g \in CollectedGates : GateStatus(g, MeasuredMetrics) # "FAIL"
  BY <1>6, <1>7, PassingIsNoFailure DEF Acceptable
<1> QED
  BY <1>8 DEF SuiteFailures, Failures

\* A layer that gates is there if it was asked for, and not blocked without a reason.
LEMMA NothingIsBlocked ==
  ASSUME RunInv, stage = "done",
         ~(Selected("retrieval") /\ layers["retrieval"] = "BLOCKED"),
         Selected("generation") \/ Selected("safety") => SeenThrough # {}
  PROVE  Blocked = {}
<1> SUFFICES ASSUME NEW l \in Blocked PROVE FALSE
  OBVIOUS
<1>1. l \in Gating /\ layers[l] = "BLOCKED" /\ Selected(l)
  BY DEF RunInv, VerdictInv, Blocked, Statuses
<1>2. SeenThrough = Scored(generated)
  BY DEF SeenThrough, Scored, InfrastructureFailure
<1>3. l \in {"generation", "safety"} /\ Scored(generated) # {}
  BY <1>1, <1>2 DEF Gating
<1>4. generated # <<>>
  BY <1>3 DEF Scored
<1>5. layers["generation"] = GenerationStatus(generated)
  BY <1>4 DEF RunInv, LayersInv
<1>6. CASE l = "generation"
  BY <1>1, <1>3, <1>5, <1>6 DEF GenerationStatus
<1>7. CASE l = "safety"
  BY <1>1, <1>3, <1>4, <1>7 DEF RunInv, VerdictInv, SafetyLayer, Reported, SafetyStatus
<1> QED
  BY <1>3, <1>6, <1>7

\* Hence a red run has a reason.
LEMMA RedIsAccounted == ASSUME RunInv, RetrievedInv PROVE RedHasAReason
<1> SUFFICES ASSUME ~RedHasAReason PROVE FALSE
  OBVIOUS
<1>1. exit = 1 /\ stage # "crashed"
  BY DEF RedHasAReason
<1>2. stage = "done" /\ args.fail /\ (SuiteFailures # {} \/ Blocked # {})
  BY <1>1 DEF RunInv, VerdictInv
<1>3. /\ ~(Selected("retrieval") /\ (layers["retrieval"] = "BLOCKED" \/ MeasuresNothing))
      /\ ~((Selected("generation") \/ Selected("safety")) /\ SeenThrough = {})
      /\ ~\E i \in DOMAIN retrieved : Imperfect(i)
      /\ ~\E i \in SeenThrough : Unexpected(i)
  BY <1>1, <1>2, Zenon DEF RedHasAReason
<1>4. Blocked = {}
  BY <1>2, <1>3, NothingIsBlocked
<1>5. \A l \in Gating : Measured(l) => Selected(l)
  BY <1>2 DEF RunInv, VerdictInv, Measured, Statuses
<1>6. Measured("retrieval") => PerfectRetrieval
  BY <1>3, <1>5 DEF PerfectRetrieval, RetrievedInv, Measured, Gating
<1>7. Measured("generation") => SeenThrough # {}
  BY <1>3, <1>5 DEF Gating
<1>8. SuiteFailures = {}
  BY <1>3, <1>6, <1>7, NothingToFailFor
<1> QED
  BY <1>2, <1>4, <1>8

\* And a green one found a source for nearly every case that can be answered.
LEMMA GreenFinds == ASSUME RunInv, RetrievedInv PROVE GreenFindsSources
<1> SUFFICES ASSUME Green, Selected("retrieval")
             PROVE  20 * Cardinality({i \in Answerable : ~Finds(i)}) <= Cardinality(Answerable)
  BY DEF Green, GreenFindsSources
<1> DEFINE S == Answerable
           hit == [i \in S |-> HitRateAtK(Cases[i], retrieved[i], 5)]
           found == {i \in S : hit[i] = One}
           missed == {i \in S : ~Finds(i)}
           scored == {i \in DOMAIN retrieved : Cases[i].expected # "abstain"}
           m == "hit_rate_at_5"
<1>1. Measured("retrieval") /\ SuiteFailures = {} /\ Len(retrieved) = Len(Cases)
  BY GreenIsMeasured DEF RunInv, VerdictInv, RetrievedInv, Green, Measured, Selected, Gating
<1>2. scored = S
  BY <1>1, CasesAreTyped DEF Answerable
<1>3. IsFiniteSet(S)
  <2>1. 1 \in Int /\ Len(Cases) \in Int /\ DOMAIN Cases = 1..Len(Cases)
    BY CasesAreTyped
  <2> QED
    BY <2>1, FS_Interval, FS_Subset DEF Answerable
<1>4. GateStatus(Gate(m, 95), MeasuredMetrics) # "FAIL"
  BY <1>1 DEF SuiteFailures, Failures, CollectedGates, RetrievalGates
<1>5. /\ m \in DOMAIN MeasuredMetrics
      /\ MeasuredMetrics[m] = GoldenMetrics(Cases, retrieved)[m]
  <2>1. m \in DOMAIN GoldenMetrics(Cases, retrieved)
    BY DEF GoldenMetrics
  <2>2. m \notin DOMAIN LatencyMetrics(retrieved)
    BY DEF LatencyMetrics
  <2>3. m \notin DOMAIN GenerationMetrics(Cases, generated)
    BY DEF GenerationMetrics
  <2>4. m \notin DOMAIN SafetyMetrics(Cases, generated)
    BY DEF SafetyMetrics
  <2>5. m \notin DOMAIN <<>>
    OBVIOUS
  <2> HIDE DEF m
  <2> QED
    BY <1>1, <2>1, <2>2, <2>3, <2>4, <2>5 DEF MeasuredMetrics, Updated
<1>6. GoldenMetrics(Cases, retrieved)[m]
        = Mean([i \in scored |-> HitRateAtK(Cases[i], retrieved[i], 5)])
  BY DEF GoldenMetrics
<1>7. hit \in [S -> {0, One}]
  BY DEF HitRateAtK
<1>8. missed = S \ found
  BY DEF Finds, HitRateAtK, One
<1>9. MeasuredMetrics[m] = Mean(hit)
  BY <1>2, <1>5, <1>6
<1>10. DOMAIN hit = S /\ found \subseteq S
  OBVIOUS
<1> HIDE DEF S, hit, found, missed, scored
<1>11. /\ Cardinality(S) \in Nat /\ Cardinality(found) \in Nat
       /\ Cardinality(missed) = Cardinality(S) - Cardinality(found)
  <2>1. IsFiniteSet(found) /\ S \cap found = found
    BY <1>3, <1>10, FS_Subset
  <2>2. Cardinality(missed) = Cardinality(S) - Cardinality(S \cap found)
    BY <1>3, <1>8, FS_Difference
  <2> QED
    BY <1>3, <2>1, <2>2, FS_CardinalityType
<1>12. SumFunction(hit) = One * Cardinality(found)
  BY <1>3, <1>7, SumOfOnes DEF found
<1>13. CASE Cardinality(S) = 0
  <2>1. S = {} /\ missed = {}
    BY <1>3, <1>8, <1>13, FS_EmptySet
  <2> QED
    BY <1>13, <2>1 DEF S, missed
<1>14. CASE Cardinality(S) # 0
  <2> DEFINE n == Cardinality(S)
             k == Cardinality(found)
  <2>1. Mean(hit) = Fraction(60 * k, 60 * n)
    BY <1>10, <1>11, <1>12, <1>14 DEF Mean, Rate, One
  <2>2. AtLeast(MeasuredMetrics[m], 95)
    <3>1. MeasuredMetrics[m] # None
      BY <1>9, <1>11, <2>1 DEF Fraction
    <3> QED
      BY <1>4, <1>5, <3>1 DEF GateStatus, Gate
  <2>3. 100 * (60 * k) >= 95 * (60 * n)
    BY <1>9, <2>1, <2>2 DEF AtLeast, Fraction
  <2>4. n \in Nat /\ k \in Nat /\ Cardinality(missed) = n - k
    BY <1>11
  <2> HIDE DEF n, k
  <2>5. 20 * (n - k) <= n
    BY <2>3, <2>4
  <2> QED
    BY <2>4, <2>5 DEF n, S, missed
<1> QED
  BY <1>13, <1>14

\* A run asked to fail on a regression that exits with 0 missed at most one in twenty of
\* the cases that can be answered; one that exits with 1 has, in its results and not in
\* its metrics, something that was wrong, or nothing it could run or measure by
\* (collect_gates, GateSuite.failures and the exit code of run_eval.py).
THEOREM ExitsHaveReasons == Spec => []ExitHasAReason
<1>1. RunInv /\ RetrievedInv => ExitHasAReason
  BY RedIsAccounted, GreenFinds DEF ExitHasAReason
<1> QED
  BY <1>1, RunInvariant, PTL
=============================================================================
