---------------------------- MODULE VoyageProofs ----------------------------
(***************************************************************************)
(* Proofs about VoyageEvaluation, for every set of command lines and       *)
(* datasets, every length of a path's route and of its budget, and all     *)
(* lists of numbers Voyage may return as scores.                           *)
(*                                                                         *)
(* Most of the many actions of the script leave its report alone, or give  *)
(* the run up.  StepKinds sorts them by what they do to it, once, and the  *)
(* proofs that follow have one step per kind.                              *)
(***************************************************************************)
EXTENDS VoyageEvaluation, FiniteSetTheorems, WellFoundedInduction, TLAPS

USE VoyageAssumption DEF VoyageAssumption

PathStages == {"gate", "bge"} \cup Stages

\* What a path may say of a case: the reasons, and the stages that may lose their reply.
Reasons == {"gate_rejected", "bge_confidence_unavailable", "grader_rejected",
            "generation_declined", "generation_failed", "citation_verification_failed",
            "verified_answer"}
Scorers == {"bge", "grade", "generate", "verify"}

PathEvaluations ==
  [case : {cases[i] : i \in Nat}, outcome : {"answer", "abstain"}, reason : Reasons,
   failures : SUBSET Scorers, lost : SUBSET Scorers]

\* OutagesAreRecorded, of one result.
Recorded(r) ==
  /\ r.lost # {} => r.outcome = "abstain"
  /\ r.lost \ {"verify"} # {} => r.failures # {}
  /\ r.failures \subseteq r.lost

Evaluations == {r \in PathEvaluations : Recorded(r)}

Measured ==
  [expected : {args.dataset[cases[i]].expected : i \in Nat}, scores : ScoreLists,
   split : Splits]

-----------------------------------------------------------------------------
(***************************************************************************)
(* The invariants.                                                         *)
(***************************************************************************)
\* Every result is recorded as it should be, and results belong to selected cases.
TypeInv ==
  /\ records \in Seq(Measured)
  /\ results \in [Paths -> Seq(Evaluations)]
  /\ stage \in PathStages => path \in Paths /\ args.script = Ablation
  /\ stage = "options" => records = <<>> /\ results = [p \in Paths |-> <<>>]

\* The n-th record, and the n-th result of each path, is about the n-th selected case.
PlacesInv ==
  /\ \A i \in DOMAIN records : records[i].expected = args.dataset[cases[i]].expected
  /\ \A p \in Paths : \A i \in DOMAIN results[p] : results[p][i].case = cases[i]

Judged(p) == Len(results[p])

\* The paths take turns: between two cases they are level, within one those before the
\* path that runs are one case ahead of those that did not run yet.
TurnsInv ==
  /\ stage \in {"options", "retrieve", "voyage"} =>
       \A p \in Paths : Judged(p) = Judged("baseline")
  /\ stage \in PathStages =>
       /\ Judged("candidate")
            = IF path = "candidate" THEN Judged("baseline") ELSE Judged("baseline") + 1
       /\ Judged("enhanced_candidate")
            = IF path = "baseline" THEN Judged("baseline") + 1 ELSE Judged("baseline")

\* All there is to report is there.
Complete ==
  IF args.script = Calibration
  THEN profile.valid \in BOOLEAN /\ Len(records) = Len(cases)
  ELSE \A p \in Paths : Judged(p) = Len(cases)

\* The report is reached with nothing missing, and exit 0 only through it.
ReportInv ==
  /\ stage \in {"choose", "cite"} => args.script = Calibration /\ Len(records) = Len(cases)
  /\ stage = "cite" => profile.valid \in BOOLEAN
  /\ stage = "report" => Complete
  /\ exit = 0 => stage = "exited" /\ Complete

VoyageInv == TypeInv /\ PlacesInv /\ TurnsInv /\ ReportInv

-----------------------------------------------------------------------------
(***************************************************************************)
(* The kinds of steps.                                                     *)
(***************************************************************************)
\* Voyage is asked again, or a provider call moves on: the report is as far as it was.
Idles == UNCHANGED <<args, stage, cases, records, profile, cited, path, results, exit>>

\* A path goes on to its next stage.
Proceeds ==
  /\ stage \in PathStages /\ stage' \in PathStages
  /\ UNCHANGED <<args, cases, records, profile, cited, path, results, exit>>

\* A path ends with a result of the case it is at.
Judges ==
  /\ stage \in PathStages
  /\ \E r \in Evaluations : r.case = Current /\ EndPath(r)

\* The run is given up, and no report written.
Quits ==
  /\ stage' = "exited" /\ exit' \in {1, 2}
  /\ UNCHANGED <<args, cases, records, profile, cited, results>>

\* In a path, the cases done are those of the baseline.
LEMMA DoneInPath ==
  ASSUME TypeInv, args.script = Ablation
  PROVE  Done = Judged("baseline") /\ Done \in Nat
  BY DEF TypeInv, Done, Judged, Calibration, Ablation, Paths

\* A path's result has the type of one when what it records is what was lost.
LEMMA ResultIsEvaluation ==
  ASSUME TypeInv, stage \in PathStages,
         NEW outcome \in {"answer", "abstain"}, NEW reason \in Reasons,
         NEW failures \in SUBSET Scorers, NEW lost \in SUBSET Scorers,
         lost # {} => outcome = "abstain",
         lost \ {"verify"} # {} => failures # {},
         failures \subseteq lost
  PROVE  /\ Result(outcome, reason, failures, lost) \in Evaluations
         /\ Result(outcome, reason, failures, lost).case = Current
<1>1. Current \in {cases[i] : i \in Nat}
  BY DoneInPath DEF TypeInv, Current
<1> QED
  BY <1>1 DEF Result, Evaluations, PathEvaluations, Recorded

\* An abstention, whatever it lost and says it lost, ends the path.
LEMMA AbstentionJudges ==
  ASSUME TypeInv, stage \in PathStages,
         NEW reason \in Reasons,
         NEW failures \in SUBSET Scorers, NEW lost \in SUBSET Scorers,
         lost \ {"verify"} # {} => failures # {},
         failures \subseteq lost,
         Abstains(reason, failures, lost)
  PROVE  Judges
<1>1. Result("abstain", reason, failures, lost) \in Evaluations
  BY ResultIsEvaluation
<1>2. Result("abstain", reason, failures, lost).case = Current
  BY ResultIsEvaluation
<1> QED
  BY <1>1, <1>2 DEF Judges, Abstains

\* A verdict on a draft ends the path, with the answer or without.
LEMMA VerdictJudges ==
  ASSUME TypeInv, stage \in PathStages, Verdict
  PROVE  Judges
<1>1. CASE EndPath(Result("answer", "verified_answer", {}, {}))
  <2>1. Result("answer", "verified_answer", {}, {}) \in Evaluations
    BY ResultIsEvaluation DEF Reasons
  <2>2. Result("answer", "verified_answer", {}, {}).case = Current
    BY ResultIsEvaluation DEF Reasons
  <2> QED
    BY <1>1, <2>1, <2>2 DEF Judges
<1>2. CASE Unverified({})
  BY <1>2, AbstentionJudges DEF Unverified, Reasons
<1> QED
  BY <1>1, <1>2 DEF Verdict

\* Every step of a script is of one of these kinds.
LEMMA StepKinds ==
  ASSUME TypeInv, [Next]_vars
  PROVE  \/ Idles \/ Proceeds \/ Judges \/ Quits
         \/ Start \/ Retrieve \/ RankCase \/ CalibrateCase \/ ChooseProfile \/ Cite
         \/ WriteReport
<1> USE DEF Blocked, Raised, Exits, Fixed, SameRun, pathVars, budgetVars, callVars
<1>1. CASE \/ RejectOptions \/ SelectionRaises \/ RetrieveRaises \/ VoyageFails
           \/ CalibrationWithoutLocal \/ CiteRaises
  BY <1>1 DEF RejectOptions, SelectionRaises, RetrieveRaises, VoyageFails,
     CalibrationWithoutLocal, CiteRaises, Quits
<1>2. CASE RefuseReservation \/ GradeRaises \/ VerifyRaises \/ RefusalEscapes
  BY <1>2 DEF RefuseReservation, GradeRaises, VerifyRaises, RefusalEscapes, Quits
<1>3. CASE RetryVoyage \/ Reserve \/ FailOver \/ FallbackRefused \/ CallFails \/ Late
  BY <1>3 DEF RetryVoyage, Reserve, FailOver, FallbackRefused, CallFails, Late, Idles
<1>4. CASE RunCandidate \/ RunEnhanced \/ ScoreBaseline \/ Sufficient \/ Drafted
  BY <1>4 DEF RunCandidate, RunEnhanced, PassGate, ScoreBaseline, Sufficient, Drafted,
     Proceeds, PathStages, Stages
<1>5. CASE FailGate
  BY <1>5, AbstentionJudges DEF FailGate, PathStages, Reasons
<1>6. CASE BlockBaseline
  BY <1>6, AbstentionJudges DEF BlockBaseline, PathStages, Reasons, Scorers
<1>7. CASE Insufficient
  BY <1>7, AbstentionJudges DEF Insufficient, PathStages, Stages, Reasons
<1>8. CASE GradeLost
  BY <1>8, AbstentionJudges DEF GradeLost, PathStages, Stages, Reasons, Scorers
<1>9. CASE Declined
  BY <1>9, AbstentionJudges DEF Declined, PathStages, Stages, Reasons
<1>10. CASE DraftLost
  BY <1>10, AbstentionJudges DEF DraftLost, PathStages, Stages, Reasons, Scorers
<1>11. CASE VerifyAlone \/ VerifyJudged
  BY <1>11, VerdictJudges DEF VerifyAlone, VerifyJudged, PathStages, Stages
<1>12. CASE JudgeLost
  BY <1>12, AbstentionJudges DEF JudgeLost, Unverified, PathStages, Stages, Reasons, Scorers
<1>13. CASE UNCHANGED vars
  BY <1>13 DEF vars, Idles
<1> QED
  BY <1>1, <1>2, <1>3, <1>4, <1>5, <1>6, <1>7, <1>8, <1>9, <1>10, <1>11, <1>12, <1>13
     DEF Next

-----------------------------------------------------------------------------
(***************************************************************************)
(* The invariants hold: at the start, and after a step of each kind.       *)
(***************************************************************************)
\* What types a record and a result is fixed with the selection.
LEMMA SameTypes ==
  ASSUME UNCHANGED <<args, cases>>
  PROVE  Measured' = Measured /\ Evaluations' = Evaluations
  BY DEF Measured, Evaluations, PathEvaluations, Recorded

\* A script starts with nothing measured and no exit code.
LEMMA InitVoyageInv == Init => VoyageInv
<1> SUFFICES ASSUME Init PROVE VoyageInv
  OBVIOUS
<1>1. TypeInv
  BY DEF Init, TypeInv, PathStages, Stages
<1>2. PlacesInv
  BY DEF Init, PlacesInv
<1>3. TurnsInv
  BY DEF Init, TurnsInv, Judged, PathStages, Stages, Paths
<1>4. ReportInv
  BY DEF Init, ReportInv
<1> QED
  BY <1>1, <1>2, <1>3, <1>4 DEF VoyageInv

\* Starting selects the cases, of which none has a record or a result.
LEMMA StartKeeps ==
  ASSUME VoyageInv, Start
  PROVE  VoyageInv'
<1> USE DEF Start, Blocked, Exits, pathVars, VoyageInv
<1>1. records' = <<>> /\ results' = [p \in Paths |-> <<>>]
  BY DEF TypeInv
<1>2. stage' \in {"retrieve", "exited"} /\ exit' # 0
  BY DEF ReportInv
<1>3. TypeInv'
  BY <1>1, <1>2 DEF TypeInv, PathStages, Stages
<1>4. PlacesInv'
  BY <1>1 DEF PlacesInv
<1>5. TurnsInv'
  BY <1>1, <1>2 DEF TurnsInv, Judged, PathStages, Stages, Paths
<1>6. ReportInv'
  BY <1>2 DEF ReportInv
<1> QED
  BY <1>3, <1>4, <1>5, <1>6

\* A calibration record is about the case whose turn it is.
LEMMA CalibrateKeeps ==
  ASSUME VoyageInv, CalibrateCase
  PROVE  VoyageInv'
<1> USE DEF CalibrateCase, pathVars, VoyageInv
<1>1. PICK scores \in ScoreLists :
        records' = Append(records,
          [expected |-> Expected, scores |-> scores,
           split |-> SplitOf(args.dataset, cases, args.order, Current)])
  OBVIOUS
<1> DEFINE record == [expected |-> Expected, scores |-> scores,
                      split |-> SplitOf(args.dataset, cases, args.order, Current)]
<1>2. Done = Len(records) /\ Len(records) \in Nat
  BY DEF Done, TypeInv
<1>3. SplitOf(args.dataset, cases, args.order, Current) \in Splits
  BY DEF SplitOf, Splits
<1>4. Expected = args.dataset[cases[Len(records) + 1]].expected
  BY <1>2 DEF Expected, Current
<1>5. record \in Measured
  BY <1>2, <1>3, <1>4 DEF Measured
<1>6. stage' \in {"choose", "retrieve"} /\ (stage' = "choose" => Len(records') = Len(cases))
  OBVIOUS
<1>7. TypeInv'
  <2>1. records' \in Seq(Measured)
    BY <1>1, <1>5 DEF TypeInv
  <2> QED
    BY <2>1, <1>6, SameTypes DEF TypeInv, PathStages, Stages
<1>8. PlacesInv'
  <2>1. \A i \in DOMAIN records' : records'[i].expected = args.dataset[cases[i]].expected
    <3> SUFFICES ASSUME NEW i \in DOMAIN records'
                 PROVE  records'[i].expected = args.dataset[cases[i]].expected
      OBVIOUS
    <3>1. CASE i \in DOMAIN records
      <4>1. records'[i] = records[i]
        BY <3>1, <1>1, <1>2, <1>5 DEF TypeInv
      <4> QED
        BY <3>1, <4>1 DEF PlacesInv
    <3>2. CASE i = Len(records) + 1
      <4>1. records'[i] = record
        BY <3>2, <1>1, <1>2, <1>5 DEF TypeInv
      <4> QED
        BY <3>2, <4>1, <1>4
    <3> QED
      BY <3>1, <3>2, <1>1, <1>2, <1>5 DEF TypeInv
  <2> QED
    BY <2>1 DEF PlacesInv
<1>9. TurnsInv'
  BY <1>6 DEF TurnsInv, Judged, PathStages, Stages
<1>10. ReportInv'
  BY <1>6 DEF ReportInv
<1> QED
  BY <1>7, <1>8, <1>9, <1>10

\* Voyage's order of the next case is there: the candidate begins, and all are level.
LEMMA RankKeeps ==
  ASSUME VoyageInv, RankCase
  PROVE  VoyageInv'
<1> USE DEF RankCase, pathVars, VoyageInv
<1>1. TypeInv'
  BY SameTypes DEF TypeInv, Paths
<1>2. PlacesInv'
  BY DEF PlacesInv
<1>3. TurnsInv'
  BY DEF TurnsInv, Judged, Paths
<1>4. ReportInv'
  BY DEF ReportInv
<1> QED
  BY <1>1, <1>2, <1>3, <1>4

\* The other steps outside of a path leave the records and results as they are.
LEMMA QuietKeeps ==
  ASSUME VoyageInv, Idles \/ Proceeds \/ Quits \/ Retrieve \/ ChooseProfile \/ Cite \/ WriteReport
  PROVE  VoyageInv'
<1> USE DEF Idles, Proceeds, Quits, Retrieve, ChooseProfile, Cite, WriteReport, Exits,
            pathVars, VoyageInv
<1>1. TypeInv'
  BY SameTypes DEF TypeInv, PathStages, Stages
<1>2. PlacesInv'
  BY DEF PlacesInv
<1>3. TurnsInv'
  BY DEF TurnsInv, Judged, PathStages, Stages
<1>4. ReportInv'
  <2>1. CASE ChooseProfile
    <3>1. profile'.valid \in BOOLEAN
      BY <2>1 DEF ChooseSafetyFirstProfile
    <3>2. stage' \in {"cite", "report"} /\ args.script = Calibration /\ Len(records) = Len(cases)
      BY <2>1 DEF ReportInv
    <3> QED
      BY <2>1, <3>1, <3>2 DEF ReportInv, Complete
  <2>2. CASE Cite
    BY <2>2 DEF ReportInv, Complete
  <2>3. CASE WriteReport
    BY <2>3 DEF ReportInv, Complete, Judged
  <2>4. CASE Quits
    BY <2>4 DEF ReportInv
  <2>5. CASE Idles \/ Retrieve
    BY <2>5 DEF ReportInv, Complete, Judged
  <2>6. CASE Proceeds
    BY <2>6 DEF ReportInv, PathStages, Stages
  <2> QED
    BY <2>1, <2>2, <2>3, <2>4, <2>5, <2>6
<1> QED
  BY <1>1, <1>2, <1>3, <1>4

\* A path's result is about the case whose turn it is, and hands the turn on.
LEMMA JudgeKeeps ==
  ASSUME VoyageInv, Judges
  PROVE  VoyageInv'
<1> USE DEF VoyageInv
<1>1. PICK r \in Evaluations : r.case = Current /\ EndPath(r)
  BY DEF Judges
<1>2. /\ path \in Paths /\ args.script = Ablation
      /\ stage \in PathStages
      /\ UNCHANGED <<args, cases, records, profile, exit>>
      /\ results' = [results EXCEPT ![path] = Append(@, r)]
  BY <1>1 DEF Judges, TypeInv, EndPath
<1>3. /\ results[path] \in Seq(Evaluations)
      /\ results'[path] = Append(results[path], r)
      /\ \A p \in Paths \ {path} : results'[p] = results[p]
  BY <1>2 DEF TypeInv
<1>4. /\ Len(results'[path]) = Judged(path) + 1
      /\ \A p \in Paths \ {path} : Len(results'[p]) = Judged(p)
  BY <1>3 DEF Judged
<1>5. \A p \in Paths : Judged(p) \in Nat
  BY DEF TypeInv, Judged
<1>6. Judged(path) = Judged("baseline")
  BY <1>2 DEF TurnsInv, Paths
<1>7. /\ path = "candidate" => path' = "enhanced_candidate" /\ stage' = "gate"
      /\ path = "enhanced_candidate" => path' = "baseline" /\ stage' = "bge"
      /\ path = "baseline" =>
           stage' = IF Judged(path) + 1 = Len(cases) THEN "report" ELSE "retrieve"
  BY <1>1 DEF EndPath, Judged
<1>8. TypeInv'
  <2>1. results' \in [Paths -> Seq(Evaluations)]
    BY <1>2, <1>3 DEF TypeInv
  <2>2. stage' \in PathStages => path' \in Paths
    BY <1>2, <1>7 DEF Paths, PathStages, Stages
  <2>3. stage' # "options"
    BY <1>2, <1>7 DEF Paths
  <2> QED
    BY <2>1, <2>2, <2>3, <1>2, SameTypes DEF TypeInv
<1>9. PlacesInv'
  <2>1. ASSUME NEW p \in Paths, NEW i \in DOMAIN results'[p]
        PROVE  results'[p][i].case = cases[i]
    <3>1. CASE p # path
      BY <3>1, <2>1, <1>3 DEF PlacesInv
    <3>2. CASE p = path /\ i \in DOMAIN results[path]
      <4>1. results'[p][i] = results[p][i]
        BY <3>2, <1>3
      <4> QED
        BY <3>2, <4>1 DEF PlacesInv
    <3>3. CASE p = path /\ i = Len(results[path]) + 1
      <4>1. results'[p][i] = r
        BY <3>3, <1>3
      <4>2. i = Done + 1
        BY <3>3, <1>2, <1>6, DoneInPath DEF Judged
      <4> QED
        BY <4>1, <4>2, <1>1 DEF Current
    <3> QED
      BY <2>1, <3>1, <3>2, <3>3, <1>3
  <2> QED
    BY <2>1, <1>2 DEF PlacesInv
<1>10. TurnsInv'
  <2>1. CASE path = "candidate"
    BY <2>1, <1>2, <1>4, <1>5, <1>7 DEF TurnsInv, Judged, Paths, PathStages, Stages
  <2>2. CASE path = "enhanced_candidate"
    BY <2>2, <1>2, <1>4, <1>5, <1>7 DEF TurnsInv, Judged, Paths, PathStages, Stages
  <2>3. CASE path = "baseline"
    BY <2>3, <1>2, <1>4, <1>5, <1>7 DEF TurnsInv, Judged, Paths, PathStages, Stages
  <2> QED
    BY <2>1, <2>2, <2>3, <1>2 DEF Paths
<1>11. ReportInv'
  <2>1. exit' # 0
    BY <1>2 DEF ReportInv, PathStages, Stages
  <2>2. stage' = "report" => Complete'
    <3> SUFFICES ASSUME stage' = "report" PROVE Complete'
      OBVIOUS
    <3>1. path = "baseline" /\ Judged(path) + 1 = Len(cases)
      BY <1>2, <1>7 DEF Paths
    <3>2. \A p \in Paths : Judged(p) + (IF p = path THEN 1 ELSE 0) = Len(cases)
      BY <3>1, <1>2, <1>5 DEF TurnsInv, Paths
    <3>3. \A p \in Paths : Len(results'[p]) = Len(cases)
      BY <3>2, <1>4, <1>5
    <3> QED
      BY <3>3, <1>2 DEF Complete, Judged, Calibration, Ablation
  <2>3. stage' \notin {"choose", "cite"}
    BY <1>2, <1>7 DEF Paths
  <2> QED
    BY <2>1, <2>2, <2>3 DEF ReportInv
<1> QED
  BY <1>8, <1>9, <1>10, <1>11

\* Every step keeps the invariants.
LEMMA VoyageStep == VoyageInv /\ [Next]_vars => VoyageInv'
<1> SUFFICES ASSUME VoyageInv, [Next]_vars PROVE VoyageInv'
  OBVIOUS
<1>1. \/ Idles \/ Proceeds \/ Judges \/ Quits
      \/ Start \/ Retrieve \/ RankCase \/ CalibrateCase \/ ChooseProfile \/ Cite
      \/ WriteReport
  BY StepKinds DEF VoyageInv
<1> QED
  BY <1>1, StartKeeps, CalibrateKeeps, RankKeeps, QuietKeeps, JudgeKeeps

\* The invariants hold of every run.
LEMMA VoyageInvariant == Spec => []VoyageInv
  BY InitVoyageInv, VoyageStep, PTL DEF Spec

-----------------------------------------------------------------------------
(***************************************************************************)
(* Whoever reads provider_failures learns of every grader, generator and   *)
(* local model that was lost, and of nothing else (_evaluate_path).        *)
(***************************************************************************)
THEOREM OutagesAreNamed == Spec => []OutagesAreRecorded
<1>1. VoyageInv => OutagesAreRecorded
  <2> SUFFICES ASSUME VoyageInv, NEW p \in Paths, NEW i \in DOMAIN results[p]
               PROVE  Recorded(results[p][i])
    BY DEF OutagesAreRecorded, Recorded
  <2>1. results[p][i] \in Evaluations
    BY DEF VoyageInv, TypeInv
  <2> QED
    BY <2>1 DEF Evaluations
<1> QED
  BY <1>1, VoyageInvariant, PTL

-----------------------------------------------------------------------------
(***************************************************************************)
(* The counts of a summary.                                                *)
(***************************************************************************)
\* Two sets that share nothing count what they make up together.
LEMMA DisjointUnion ==
  ASSUME NEW S, NEW T, IsFiniteSet(S), IsFiniteSet(T), S \cap T = {}
  PROVE  IsFiniteSet(S \cup T) /\ Cardinality(S \cup T) = Cardinality(S) + Cardinality(T)
<1>1. /\ IsFiniteSet(S \cup T)
      /\ Cardinality(S \cup T) = Cardinality(S) + Cardinality(T) - Cardinality(S \cap T)
  BY FS_Union, Zenon
<1>2. Cardinality(S \cap T) = 0
  BY FS_EmptySet
<1>3. Cardinality(S) \in Nat /\ Cardinality(T) \in Nat
  BY FS_CardinalityType
<1> QED
  BY <1>1, <1>2, <1>3

\* Four classes that share nothing count what they make up together.
LEMMA FourClasses ==
  ASSUME NEW D, IsFiniteSet(D),
         NEW S1 \in SUBSET D, NEW S2 \in SUBSET D, NEW S3 \in SUBSET D, NEW S4 \in SUBSET D,
         S1 \cap S2 = {}, (S1 \cup S2) \cap S3 = {}, ((S1 \cup S2) \cup S3) \cap S4 = {},
         ((S1 \cup S2) \cup S3) \cup S4 = D
  PROVE  Cardinality(S1) + Cardinality(S2) + Cardinality(S3) + Cardinality(S4)
           = Cardinality(D)
<1>1. IsFiniteSet(S1) /\ IsFiniteSet(S2) /\ IsFiniteSet(S3) /\ IsFiniteSet(S4)
  BY FS_Subset
<1>2. /\ Cardinality(S1) \in Nat /\ Cardinality(S2) \in Nat
      /\ Cardinality(S3) \in Nat /\ Cardinality(S4) \in Nat
  BY <1>1, FS_CardinalityType
<1>3. /\ IsFiniteSet(S1 \cup S2)
      /\ Cardinality(S1 \cup S2) = Cardinality(S1) + Cardinality(S2)
  BY <1>1, DisjointUnion
<1>4. /\ IsFiniteSet((S1 \cup S2) \cup S3)
      /\ Cardinality((S1 \cup S2) \cup S3) = Cardinality(S1 \cup S2) + Cardinality(S3)
  BY <1>1, <1>3, DisjointUnion
<1>5. Cardinality(((S1 \cup S2) \cup S3) \cup S4)
        = Cardinality((S1 \cup S2) \cup S3) + Cardinality(S4)
  BY <1>1, <1>4, DisjointUnion
<1> QED
  BY <1>2, <1>3, <1>4, <1>5

\* A set with more elements than another has one that the other has not.
LEMMA MoreElements ==
  ASSUME NEW S, NEW T, IsFiniteSet(S), IsFiniteSet(T),
         ~(Cardinality(S) <= Cardinality(T))
  PROVE  \E x \in S : x \notin T
<1> SUFFICES ASSUME S \subseteq T PROVE FALSE
  OBVIOUS
<1> QED
  BY FS_Subset

\* The results of a path that fall in a class, by their positions.
Those(p, class) == {i \in DOMAIN results[p] : Classification(results[p][i]) = class}

\* A path's results are counted by their positions, of which there are finitely many.
LEMMA PositionsAreFinite ==
  ASSUME TypeInv, NEW p \in Paths
  PROVE  /\ IsFiniteSet(DOMAIN results[p]) /\ Cardinality(DOMAIN results[p]) = Judged(p)
         /\ \A class : IsFiniteSet(Those(p, class)) /\ Cardinality(Those(p, class)) \in Nat
<1>1. DOMAIN results[p] = 1..Judged(p) /\ Judged(p) \in Nat
  BY DEF TypeInv, Judged
<1>2. IsFiniteSet(1..Judged(p)) /\ Cardinality(1..Judged(p)) = Judged(p)
  BY <1>1, FS_Interval
<1>3. ASSUME NEW class
      PROVE  IsFiniteSet(Those(p, class))
  <2>1. Those(p, class) \in SUBSET DOMAIN results[p]
    BY DEF Those
  <2> QED
    BY <2>1, <1>1, <1>2, FS_Subset
<1> QED
  BY <1>1, <1>2, <1>3, FS_CardinalityType

\* The counts of aggregate_path are those of the classes.
LEMMA SummaryCounts ==
  ASSUME NEW p \in Paths
  PROVE  /\ Summary(p).correct = Cardinality(Those(p, "correct_answer"))
                                   + Cardinality(Those(p, "correct_abstention"))
         /\ Summary(p).unsafe = Cardinality(Those(p, "unsafe_incorrect_answer"))
         /\ Summary(p).unnecessary = Cardinality(Those(p, "unnecessary_abstention"))
  BY DEF Summary, Count, Those

\* Every result is in one class: right, wrong, or needlessly withheld.
LEMMA SummaryAddsUp ==
  ASSUME TypeInv, NEW p \in Paths
  PROVE  Summary(p).correct + Summary(p).unsafe + Summary(p).unnecessary = Judged(p)
<1> DEFINE S1 == Those(p, "correct_answer")
           S2 == Those(p, "correct_abstention")
           S3 == Those(p, "unsafe_incorrect_answer")
           S4 == Those(p, "unnecessary_abstention")
<1>1. /\ S1 \in SUBSET DOMAIN results[p] /\ S2 \in SUBSET DOMAIN results[p]
      /\ S3 \in SUBSET DOMAIN results[p] /\ S4 \in SUBSET DOMAIN results[p]
  BY DEF Those
<1>2. S1 \cap S2 = {} /\ (S1 \cup S2) \cap S3 = {} /\ ((S1 \cup S2) \cup S3) \cap S4 = {}
  BY DEF Those
<1>3. ((S1 \cup S2) \cup S3) \cup S4 = DOMAIN results[p]
  BY DEF Those, Classification
<1>4. /\ Cardinality(S1) \in Nat /\ Cardinality(S2) \in Nat
      /\ Cardinality(S3) \in Nat /\ Cardinality(S4) \in Nat
  BY PositionsAreFinite
<1> HIDE DEF S1, S2, S3, S4
<1>5. Cardinality(S1) + Cardinality(S2) + Cardinality(S3) + Cardinality(S4) = Judged(p)
  <2>1. IsFiniteSet(DOMAIN results[p]) /\ Cardinality(DOMAIN results[p]) = Judged(p)
    BY PositionsAreFinite
  <2>2. Cardinality(S1) + Cardinality(S2) + Cardinality(S3) + Cardinality(S4)
          = Cardinality(DOMAIN results[p])
    BY <1>1, <1>2, <1>3, <2>1, FourClasses
  <2> QED
    BY <2>1, <2>2
<1>6. /\ Summary(p).correct = Cardinality(S1) + Cardinality(S2)
      /\ Summary(p).unsafe = Cardinality(S3)
      /\ Summary(p).unnecessary = Cardinality(S4)
  BY SummaryCounts DEF S1, S2, S3, S4
<1> QED
  BY <1>4, <1>5, <1>6

\* The safety gate fails for a case: one answered against its expectation, and not by the
\* baseline, beside which disagreement_diagnostics shows it.
LEMMA GateFailsForACase ==
  ASSUME VoyageInv, NEW p \in Paths, ~SafetyGate(p),
         \A q \in Paths : Judged(q) = Len(cases)
  PROVE  \E i \in DOMAIN results[p] :
           /\ results[p][i].outcome = "answer" /\ args.dataset[cases[i]].expected # "answer"
           /\ results["baseline"][i].outcome = "abstain"
           /\ p = "candidate" => cases[i] \in Disagreements
<1> DEFINE unsafe == "unsafe_incorrect_answer"
<1>1. TypeInv /\ "baseline" \in Paths /\ "candidate" \in Paths
  BY DEF VoyageInv, Paths
<1>2. PICK i \in Those(p, unsafe) : i \notin Those("baseline", unsafe)
  <2>1. ~(Cardinality(Those(p, unsafe)) <= Cardinality(Those("baseline", unsafe)))
    BY <1>1, SummaryCounts DEF SafetyGate
  <2>2. IsFiniteSet(Those(p, unsafe)) /\ IsFiniteSet(Those("baseline", unsafe))
    BY <1>1, PositionsAreFinite
  <2> QED
    BY <2>1, <2>2, MoreElements
<1>3. i \in DOMAIN results[p] /\ Classification(results[p][i]) = unsafe
  BY <1>2 DEF Those
<1>4. i \in DOMAIN results["baseline"]
  BY <1>1, <1>3 DEF TypeInv, Judged
<1>5. results[p][i].case = cases[i] /\ results["baseline"][i].case = cases[i]
  BY <1>1, <1>3, <1>4 DEF VoyageInv, PlacesInv
<1>6. results[p][i].outcome = "answer" /\ args.dataset[cases[i]].expected # "answer"
  BY <1>3, <1>5 DEF Classification
<1>7. Classification(results["baseline"][i]) # unsafe
  BY <1>2, <1>4 DEF Those
<1>8. results["baseline"][i].outcome = "abstain"
  <2>1. results["baseline"][i].outcome # "answer"
    BY <1>5, <1>6, <1>7 DEF Classification
  <2>2. results["baseline"][i] \in Evaluations
    BY <1>1, <1>4 DEF TypeInv
  <2> QED
    BY <2>1, <2>2 DEF Evaluations, PathEvaluations
<1>9. ASSUME p = "candidate"
      PROVE  cases[i] \in Disagreements
  <2>1. results["baseline"][i] \in Range(results["baseline"])
    BY <1>4 DEF Range
  <2>2. results[p][i] \in Beside(results["baseline"][i])
    BY <1>3, <1>5, <1>9 DEF Range, Beside
  <2>3. results["baseline"][i].outcome # results[p][i].outcome
    BY <1>6, <1>8
  <2> QED
    BY <2>1, <2>2, <2>3, <1>5 DEF Disagreements
<1> QED
  BY <1>3, <1>6, <1>8, <1>9

(***************************************************************************)
(* A report that is written has every selected case in its place, measured *)
(* once or judged once by each path; its counts add up to those cases, and *)
(* a failed safety gate points at one of them.                             *)
(***************************************************************************)
THEOREM ReportsAreWhole == Spec => []ReportIsWhole
<1>1. VoyageInv => ReportIsWhole
  <2> SUFFICES ASSUME VoyageInv, exit = 0
               PROVE  ReportIsWhole
    BY DEF ReportIsWhole
  <2>1. Complete /\ PlacesInv /\ TypeInv
    BY DEF VoyageInv, ReportInv
  <2>2. CASE args.script = Calibration
    BY <2>1, <2>2 DEF Complete, PlacesInv, ReportIsWhole
  <2>3. CASE args.script # Calibration
    <3>1. \A p \in Paths : Judged(p) = Len(cases)
      BY <2>1, <2>3 DEF Complete
    <3>2. ASSUME NEW p \in Paths
          PROVE  /\ Summary(p).correct + Summary(p).unsafe + Summary(p).unnecessary = Len(cases)
                 /\ \A i \in DOMAIN results[p] : results[p][i].case = cases[i]
      BY <2>1, <3>1, SummaryAddsUp DEF PlacesInv
    <3> QED
      BY <2>3, <3>1, <3>2, GateFailsForACase DEF ReportIsWhole, Judged
  <2> QED
    BY <2>2, <2>3
<1> QED
  BY <1>1, VoyageInvariant, PTL

-----------------------------------------------------------------------------
(***************************************************************************)
(* The best of finitely many.                                              *)
(***************************************************************************)
\* A non-empty set of natural numbers has a least element.
LEMMA LeastNumber ==
  ASSUME NEW S \in SUBSET Nat, S # {}
  PROVE  \E x \in S : \A y \in S : x <= y
<1> DEFINE R == OpToRel(<, Nat)
<1>1. \A x, y \in Nat : <<x, y>> \in R <=> x < y
  BY DEF OpToRel
<1>2. PICK x \in S : \A y \in S : <<y, x>> \notin R
  <2> HIDE DEF R
  <2> QED
    BY NatLessThanWellFounded, WFMin DEF R
<1>3. \A y \in S : ~(y < x)
  BY <1>1, <1>2
<1> QED
  BY <1>3

\* Of the integers of a set that are not below some bound there is a least.
LEMMA LeastFrom ==
  ASSUME NEW S \in SUBSET Int, NEW t \in Int, NEW b \in S, t <= b
  PROVE  \E c \in S : t <= c /\ \A s \in S : t <= s => c <= s
<1> DEFINE Gaps == {n \in Nat : t + n \in S}
<1>1. Gaps \in SUBSET Nat /\ b - t \in Gaps
  OBVIOUS
<1>2. PICK n \in Gaps : \A k \in Gaps : n <= k
  <2> HIDE DEF Gaps
  <2> QED
    BY <1>1, LeastNumber
<1>3. t + n \in S /\ n \in Nat
  OBVIOUS
<1>4. \A s \in S : t <= s => n <= s - t
  <2> SUFFICES ASSUME NEW s \in S, t <= s PROVE n <= s - t
    OBVIOUS
  <2>1. s - t \in Gaps
    OBVIOUS
  <2> QED
    BY <2>1, <1>2
<1> QED
  BY <1>3, <1>4

\* Any two elements are related, and the relation is transitive.
Orders(R, S) ==
  /\ \A x \in S : \A y \in S : x # y => <<x, y>> \in R \/ <<y, x>> \in R
  /\ \A x \in S : \A y \in S : \A z \in S :
       <<x, y>> \in R /\ <<y, z>> \in R => <<x, z>> \in R

\* A finite set that is ordered has a first element.
LEMMA FirstOfFinite ==
  ASSUME NEW S, NEW R, IsFiniteSet(S), S # {}, Orders(R, S)
  PROVE  \E x \in S : \A y \in S \ {x} : <<x, y>> \in R
<1> DEFINE First(T) == \E x \in T : \A y \in T \ {x} : <<x, y>> \in R
           Sizes == {n \in Nat : \E T \in SUBSET S : T # {} /\ Cardinality(T) = n /\ ~First(T)}
<1> USE DEF Orders
<1> SUFFICES ASSUME ~First(S) PROVE FALSE
  OBVIOUS
<1>1. \A T \in SUBSET S : IsFiniteSet(T) /\ Cardinality(T) \in Nat
  BY FS_Subset, FS_CardinalityType
<1>2. Sizes \in SUBSET Nat /\ Sizes # {}
  <2>1. Cardinality(S) \in Sizes
    BY <1>1
  <2> QED
    BY <2>1
<1>3. PICK n \in Sizes : \A k \in Sizes : n <= k
  <2> HIDE DEF Sizes
  <2> QED
    BY <1>2, LeastNumber
<1>4. PICK T \in SUBSET S : T # {} /\ Cardinality(T) = n /\ ~First(T)
  BY <1>3
<1>5. PICK x \in T : TRUE
  BY <1>4
<1> DEFINE U == T \ {x}
<1>6. U \in SUBSET S /\ Cardinality(U) = n - 1
  BY <1>1, <1>4, <1>5, FS_RemoveElement
<1>7. CASE U = {}
  <2>1. First(T)
    BY <1>5, <1>7
  <2> QED
    BY <1>4, <2>1
<1>8. CASE U # {}
  <2>1. n - 1 \in Nat /\ n - 1 \notin Sizes
    <3>2. n \in Nat
      OBVIOUS
    <3> HIDE DEF Sizes, U
    <3>1. n - 1 \in Nat
      <4>1. Cardinality(U) \in Nat
        BY <1>1, <1>6
      <4> QED
        BY <4>1, <1>6
    <3> QED
      BY <3>1, <3>2, <1>3
  <2>2. First(U)
    BY <2>1, <1>6, <1>8
  <2>3. PICK y \in U : \A z \in U \ {y} : <<y, z>> \in R
    BY <2>2
  <2>4. CASE <<y, x>> \in R
    <3>1. \A z \in T \ {y} : <<y, z>> \in R
      BY <2>3, <2>4
    <3> QED
      BY <3>1, <2>3, <1>4
  <2>5. CASE <<x, y>> \in R
    <3>1. \A z \in T \ {x} : <<x, z>> \in R
      BY <2>3, <2>5, <1>4, <1>5
    <3> QED
      BY <3>1, <1>4, <1>5
  <2> QED
    BY <2>3, <2>4, <2>5, <1>4, <1>5
<1> QED
  BY <1>7, <1>8
-----------------------------------------------------------------------------
(***************************************************************************)
(* The keys that thresholds are compared by, lexicographically.            *)
(***************************************************************************)
Keys == Int \X Int \X Int \X Int

\* Four-part keys are compared by the first part they differ in.
LEMMA PrecedesByParts ==
  ASSUME NEW a \in Keys, NEW b \in Keys
  PROVE  Precedes(a, b) <=>
           \/ a[1] < b[1]
           \/ a[1] = b[1] /\ a[2] < b[2]
           \/ a[1] = b[1] /\ a[2] = b[2] /\ a[3] < b[3]
           \/ a[1] = b[1] /\ a[2] = b[2] /\ a[3] = b[3] /\ a[4] < b[4]
<1>1. DOMAIN a = {1, 2, 3, 4}
  BY DEF Keys
<1>2. 1..(1 - 1) = {} /\ 1..(2 - 1) = {1} /\ 1..(3 - 1) = {1, 2} /\ 1..(4 - 1) = {1, 2, 3}
  OBVIOUS
<1> QED
  BY <1>1, <1>2, Zenon DEF Precedes

\* It is an order: transitive, and total up to equal last parts.
LEMMA PrecedesIsOrder ==
  /\ \A a \in Keys : \A b \in Keys : a[4] # b[4] => Precedes(a, b) \/ Precedes(b, a)
  /\ \A a \in Keys : \A b \in Keys : \A c \in Keys :
       Precedes(a, b) /\ Precedes(b, c) => Precedes(a, c)
  /\ \A a \in Keys : \A b \in Keys : Precedes(a, b) => a[1] <= b[1]
<1>1. \A a \in Keys : a[1] \in Int /\ a[2] \in Int /\ a[3] \in Int /\ a[4] \in Int
  BY DEF Keys
<1>2. ASSUME NEW a \in Keys, NEW b \in Keys
      PROVE  /\ a[4] # b[4] => Precedes(a, b) \/ Precedes(b, a)
             /\ Precedes(a, b) => a[1] <= b[1]
  BY <1>1, <1>2, PrecedesByParts
<1>3. ASSUME NEW a \in Keys, NEW b \in Keys, NEW c \in Keys, Precedes(a, b), Precedes(b, c)
      PROVE  Precedes(a, c)
  BY <1>1, <1>3, PrecedesByParts
<1> QED
  BY <1>2, <1>3

-----------------------------------------------------------------------------
(***************************************************************************)
(* The threshold of the profile.                                           *)
(***************************************************************************)
\* The calibration records are left by both times they are selected.
LEMMA SelectionIsFitting ==
  SelectionRecords(records, SelectionRecords(records, DOMAIN records)) = Fitting
  BY DEF SelectionRecords, Fitting

\* A best score is a number, and there are finitely many.
LEMMA BestScoresAreNumbers ==
  ASSUME TypeInv
  PROVE  /\ IsFiniteSet(Fitting) /\ IsFiniteSet(BestScores) /\ BestScores \subseteq Int
         /\ \A i \in Fitting : records[i].scores # <<>> => Head(records[i].scores) \in Int
         /\ ThresholdCandidates(records, Fitting) = BestScores
<1>1. IsFiniteSet(Fitting)
  <2>1. Fitting \in SUBSET (1..Len(records)) /\ Len(records) \in Nat
    BY DEF Fitting, TypeInv
  <2>2. IsFiniteSet(1..Len(records))
    <3>1. 1 \in Int /\ Len(records) \in Int
      BY <2>1
    <3> QED
      BY <3>1, FS_Interval
  <2> QED
    BY <2>1, <2>2, FS_Subset
<1>2. \A i \in Fitting : records[i].scores # <<>> => Head(records[i].scores) \in Int
  <2> SUFFICES ASSUME NEW i \in Fitting, records[i].scores # <<>>
               PROVE  Head(records[i].scores) \in Int
    OBVIOUS
  <2>1. records[i] \in Measured
    BY DEF Fitting, TypeInv
  <2>2. records[i].scores \in Seq(Int)
    BY <2>1 DEF Measured
  <2> QED
    BY <2>2
<1> DEFINE Scored == {j \in Fitting : records[j].scores # <<>>}
<1>3. IsFiniteSet(Scored)
  <2>1. Scored \in SUBSET Fitting
    OBVIOUS
  <2> QED
    BY <1>1, <2>1, FS_Subset
<1>4. IsFiniteSet({Head(records[i].scores) : i \in Scored})
  <2> DEFINE T == {Head(records[i].scores) : i \in Scored}
             f == [i \in Scored |-> Head(records[i].scores)]
  <2>1. f \in Surjection(Scored, T)
    BY DEF Surjection
  <2> HIDE DEF f, Scored, T
  <2>2. IsFiniteSet(T)
    BY <2>1, <1>3, FS_Surjection
  <2> QED
    BY <2>2 DEF T
<1>5. BestScores = {Head(records[i].scores) : i \in Scored}
  BY DEF BestScores
<1>6. BestScores \subseteq Int
  BY <1>2 DEF BestScores
<1>7. ThresholdCandidates(records, Fitting) = BestScores
  BY DEF ThresholdCandidates, BestScores
<1> QED
  BY <1>1, <1>2, <1>4, <1>5, <1>6, <1>7

\* The confusion matrix of a threshold, on the records it is fitted on.
Matrix(t) == ConfusionMatrix(records, Fitting, t)

\* Its counts are of what the threshold lets through, so its rates are over the answerable
\* and the unanswerable records.
LEMMA MatrixCounts ==
  ASSUME TypeInv, NEW t
  PROVE  /\ Matrix(t).TP = Cardinality(LetThrough(Answers, t))
         /\ Matrix(t).FP = Cardinality(LetThrough(Abstentions, t))
         /\ Matrix(t).TN = Cardinality(Abstentions \ LetThrough(Abstentions, t))
         /\ Matrix(t).TP \in Nat /\ Matrix(t).FP \in Nat /\ Matrix(t).TN \in Nat
         /\ Answerable(Matrix(t)) = Max({1, Cardinality(Answers)})
         /\ Abstaining(Matrix(t)) = Max({1, Cardinality(Abstentions)})
<1> DEFINE A == LetThrough(Answers, t)
           B == LetThrough(Abstentions, t)
<1>1. /\ A \in SUBSET Fitting /\ Answers \ A \in SUBSET Fitting
      /\ B \in SUBSET Fitting /\ Abstentions \ B \in SUBSET Fitting
  BY DEF LetThrough, Answers, Abstentions
<1>2. /\ IsFiniteSet(A) /\ IsFiniteSet(Answers \ A)
      /\ IsFiniteSet(B) /\ IsFiniteSet(Abstentions \ B)
  <2> HIDE DEF A, B
  <2> QED
    BY <1>1, BestScoresAreNumbers, FS_Subset
<1>3. /\ A \cup (Answers \ A) = Answers /\ A \cap (Answers \ A) = {}
      /\ B \cup (Abstentions \ B) = Abstentions /\ B \cap (Abstentions \ B) = {}
  BY DEF LetThrough
<1>4. /\ Matrix(t).TP = Cardinality(A) /\ Matrix(t).FN = Cardinality(Answers \ A)
      /\ Matrix(t).FP = Cardinality(B) /\ Matrix(t).TN = Cardinality(Abstentions \ B)
  <2> DEFINE Is(expected, permitted) ==
        {i \in Fitting : /\ records[i].expected = expected
                         /\ Permits(records[i].scores, t) = permitted}
  <2>1. /\ Is("answer", TRUE) = A /\ Is("answer", FALSE) = Answers \ A
        /\ Is("abstain", TRUE) = B /\ Is("abstain", FALSE) = Abstentions \ B
    BY Zenon DEF Permits, LetThrough, Answers, Abstentions
  <2>2. Matrix(t) = [TP |-> Cardinality(Is("answer", TRUE)),
                     FP |-> Cardinality(Is("abstain", TRUE)),
                     TN |-> Cardinality(Is("abstain", FALSE)),
                     FN |-> Cardinality(Is("answer", FALSE))]
    BY DEF Matrix, ConfusionMatrix
  <2>3. Matrix(t) = [TP |-> Cardinality(A), FP |-> Cardinality(B),
                     TN |-> Cardinality(Abstentions \ B), FN |-> Cardinality(Answers \ A)]
    <3> HIDE DEF Is, A, B
    <3> QED
      BY <2>1, <2>2, Zenon
  <2> QED
    BY <2>3
<1> HIDE DEF A, B
<1>5. /\ Cardinality(A) + Cardinality(Answers \ A) = Cardinality(Answers)
      /\ Cardinality(B) + Cardinality(Abstentions \ B) = Cardinality(Abstentions)
  BY <1>2, <1>3, DisjointUnion
<1>6. /\ Cardinality(A) \in Nat /\ Cardinality(Answers \ A) \in Nat
      /\ Cardinality(B) \in Nat /\ Cardinality(Abstentions \ B) \in Nat
  BY <1>2, FS_CardinalityType
<1>7. /\ Matrix(t).TP + Matrix(t).FN = Cardinality(Answers)
      /\ Matrix(t).FP + Matrix(t).TN = Cardinality(Abstentions)
  BY <1>4, <1>5, <1>6
<1>8. /\ Answerable(Matrix(t)) = Max({1, Cardinality(Answers)})
      /\ Abstaining(Matrix(t)) = Max({1, Cardinality(Abstentions)})
  BY <1>7 DEF Answerable, Abstaining, Total
<1> QED
  BY <1>4, <1>6, <1>8 DEF A, B

\* A rate has a denominator that is a number.
LEMMA DenominatorsAreNumbers ==
  ASSUME TypeInv
  PROVE  Max({1, Cardinality(Answers)}) \in Nat /\ Max({1, Cardinality(Abstentions)}) \in Nat
<1>1. \A n \in Nat : Max({1, n}) \in Nat
  <2> TAKE n \in Nat
  <2>1. \E x \in {1, n} : \A y \in {1, n} : x >= y
    OBVIOUS
  <2>2. Max({1, n}) \in {1, n}
    BY <2>1, Zenon DEF Max
  <2> QED
    BY <2>2
<1>2. Answers \in SUBSET Fitting /\ Abstentions \in SUBSET Fitting
  BY DEF Answers, Abstentions
<1>3. Cardinality(Answers) \in Nat /\ Cardinality(Abstentions) \in Nat
  BY <1>2, BestScoresAreNumbers, FS_Subset, FS_CardinalityType
<1> QED
  BY <1>1, <1>3

\* What a threshold is compared by.
Key(t) == SelectionKey(Matrix(t), t)

\* It starts with the accuracy and ends with the threshold.
LEMMA KeyParts ==
  ASSUME TypeInv, NEW t \in Int
  PROVE  Key(t) \in Keys /\ Key(t)[1] = -Balanced(t) /\ Key(t)[4] = -t /\ Balanced(t) \in Int
<1> DEFINE a == Max({1, Cardinality(Answers)})
           b == Max({1, Cardinality(Abstentions)})
<1>1. a \in Nat /\ b \in Nat
  BY DenominatorsAreNumbers
<1>2. Key(t) = <<-(Matrix(t).TP * b + Matrix(t).TN * a), Matrix(t).FP, -Matrix(t).TP, -t>>
  BY MatrixCounts DEF Key, SelectionKey
<1>3. Balanced(t) = Matrix(t).TP * b + Matrix(t).TN * a
  BY MatrixCounts DEF Balanced
<1>4. Matrix(t).TP \in Nat /\ Matrix(t).FP \in Nat /\ Matrix(t).TN \in Nat
  BY MatrixCounts
<1> HIDE DEF a, b
<1>5. Matrix(t).TP * b + Matrix(t).TN * a \in Nat
  BY <1>1, <1>4
<1> QED
  BY <1>2, <1>3, <1>4, <1>5 DEF Keys

\* The valid candidates are the best scores that satisfy both constraints.
LEMMA ValidAreSatisfying ==
  ASSUME TypeInv
  PROVE  ValidThresholds(records, Fitting, args.minimumRecall, args.maximumFalsePermits)
           = {t \in BestScores : Satisfies(t)}
<1>1. \A t : /\ RecallReached(Matrix(t), args.minimumRecall)
             /\ FalsePermitsWithin(Matrix(t), args.maximumFalsePermits)
             <=> Satisfies(t)
  BY MatrixCounts DEF RecallReached, FalsePermitsWithin, Satisfies
<1> QED
  BY <1>1, BestScoresAreNumbers DEF ValidThresholds, Matrix

\* Any threshold lets through what some candidate does.
LEMMA CandidateForAny ==
  ASSUME TypeInv, NEW t \in Thresholds
  PROVE  \E c \in BestScores : (Satisfies(t) <=> Satisfies(c)) /\ Balanced(t) = Balanced(c)
<1>1. PICK a \in BestScores : \E b \in BestScores : t \in a..b
  BY DEF Thresholds
<1>2. PICK b \in BestScores : t \in a..b
  BY <1>1
<1>3. a \in Int /\ b \in Int /\ t \in Int /\ t <= b
  BY <1>2, BestScoresAreNumbers
<1>4. PICK c \in BestScores : t <= c /\ \A s \in BestScores : t <= s => c <= s
  BY <1>3, BestScoresAreNumbers, LeastFrom
<1>5. ASSUME NEW S \in SUBSET Fitting
      PROVE  LetThrough(S, t) = LetThrough(S, c)
  <2>1. ASSUME NEW i \in S, records[i].scores # <<>>
        PROVE  Head(records[i].scores) >= t <=> Head(records[i].scores) >= c
    <3>1. Head(records[i].scores) \in BestScores
      BY <2>1 DEF BestScores
    <3>2. Head(records[i].scores) \in Int /\ c \in Int
      BY <3>1, <1>4, BestScoresAreNumbers
    <3>3. Head(records[i].scores) >= t => Head(records[i].scores) >= c
      BY <3>1, <3>2, <1>3, <1>4
    <3>4. Head(records[i].scores) >= c => Head(records[i].scores) >= t
      BY <3>2, <1>3, <1>4
    <3> QED
      BY <3>3, <3>4
  <2> QED
    BY <2>1 DEF LetThrough
<1>6. /\ LetThrough(Answers, t) = LetThrough(Answers, c)
      /\ LetThrough(Abstentions, t) = LetThrough(Abstentions, c)
  BY <1>5 DEF Answers, Abstentions
<1> QED
  BY <1>6 DEF Satisfies, Balanced

\* Of some candidates, the one whose key comes first.
FirstOf(V) == CHOOSE t \in V : \A u \in V \ {t} : Precedes(Key(t), Key(u))

\* There is one, and none of the others is more accurate.
LEMMA FirstIsMostAccurate ==
  ASSUME TypeInv, NEW V \in SUBSET BestScores, V # {}
  PROVE  FirstOf(V) \in V /\ \A u \in V : Balanced(u) <= Balanced(FirstOf(V))
<1> DEFINE R == {p \in V \X V : Precedes(Key(p[1]), Key(p[2]))}
<1>1. IsFiniteSet(V) /\ V \subseteq Int
  BY BestScoresAreNumbers, FS_Subset
<1>2. \A t \in V : /\ Key(t) \in Keys /\ Key(t)[1] = -Balanced(t) /\ Key(t)[4] = -t
                   /\ Balanced(t) \in Int
  BY <1>1, KeyParts
<1>3. \A t \in V : \A u \in V : <<t, u>> \in R <=> Precedes(Key(t), Key(u))
  OBVIOUS
<1>4. \A t \in V : \A u \in V : t # u => <<t, u>> \in R \/ <<u, t>> \in R
  <2> SUFFICES ASSUME NEW t \in V, NEW u \in V, t # u
               PROVE  <<t, u>> \in R \/ <<u, t>> \in R
    OBVIOUS
  <2>1. Key(t)[4] # Key(u)[4]
    BY <1>1, <1>2
  <2> HIDE DEF R
  <2> QED
    BY <2>1, <1>2, <1>3, PrecedesIsOrder
<1>5. \A t \in V : \A u \in V : \A v \in V :
        <<t, u>> \in R /\ <<u, v>> \in R => <<t, v>> \in R
  <2> HIDE DEF R
  <2> QED
    BY <1>2, <1>3, PrecedesIsOrder
<1>6. \E t \in V : \A u \in V \ {t} : <<t, u>> \in R
  <2> HIDE DEF R
  <2>1. Orders(R, V)
    BY <1>4, <1>5 DEF Orders
  <2>2. IsFiniteSet(V)
    BY <1>1
  <2>3. \A Q : Orders(Q, V) => \E t \in V : \A u \in V \ {t} : <<t, u>> \in Q
    BY <2>2, FirstOfFinite
  <2> QED
    BY <2>3, <2>1
<1>7. \E t \in V : \A u \in V \ {t} : Precedes(Key(t), Key(u))
  <2> HIDE DEF R
  <2> QED
    BY <1>3, <1>6
<1>8. FirstOf(V) \in V /\ \A u \in V \ {FirstOf(V)} : Precedes(Key(FirstOf(V)), Key(u))
  BY <1>7, Zenon DEF FirstOf
<1>9. ASSUME NEW u \in V
      PROVE  Balanced(u) <= Balanced(FirstOf(V))
  <2>1. CASE u = FirstOf(V)
    BY <2>1, <1>2
  <2>2. CASE u # FirstOf(V)
    <3>1. Key(FirstOf(V))[1] <= Key(u)[1]
      BY <2>2, <1>2, <1>8, PrecedesIsOrder
    <3> QED
      BY <3>1, <1>2, <1>8
  <2> QED
    BY <2>1, <2>2
<1> QED
  BY <1>8, <1>9

\* The profile that ChooseProfile stores.
Chosen ==
  ChooseSafetyFirstProfile(records, SelectionRecords(records, DOMAIN records),
                           args.minimumRecall, args.maximumFalsePermits)

\* It is the first of the candidates that satisfy both constraints, if any does.
LEMMA ChosenIsFirst ==
  ASSUME TypeInv
  PROVE  LET valid == {t \in BestScores : Satisfies(t)} IN
         IF valid # {} THEN Chosen.valid = TRUE /\ Chosen.threshold = FirstOf(valid)
         ELSE Chosen.valid = FALSE
<1> DEFINE valid == ValidThresholds(records, Fitting, args.minimumRecall,
                                    args.maximumFalsePermits)
<1>1. valid = {t \in BestScores : Satisfies(t)}
  BY ValidAreSatisfying
<1>2. CASE valid # {}
  <2>1. Chosen = [valid |-> TRUE, threshold |-> FirstOf(valid)]
    BY <1>2, SelectionIsFitting
       DEF Chosen, ChooseSafetyFirstProfile, Best, FirstOf, Key, Matrix
  <2> HIDE DEF valid
  <2> QED
    BY <1>1, <1>2, <2>1
<1>3. CASE valid = {}
  <2>1. Chosen.valid = FALSE
    BY <1>3, SelectionIsFitting DEF Chosen, ChooseSafetyFirstProfile
  <2> HIDE DEF valid
  <2> QED
    BY <1>1, <1>3, <2>1
<1> QED
  BY <1>2, <1>3

\* What is said of the profile holds of the one that is chosen.
LEMMA ChosenIsSafest ==
  ASSUME TypeInv
  PROVE  IF Chosen.valid
         THEN /\ Satisfies(Chosen.threshold)
              /\ \A t \in Thresholds : Satisfies(t) => Balanced(t) <= Balanced(Chosen.threshold)
         ELSE \A t \in Thresholds : ~Satisfies(t)
<1> DEFINE valid == {t \in BestScores : Satisfies(t)}
<1>1. valid \in SUBSET BestScores
  OBVIOUS
<1>2. CASE valid # {}
  <2>1. Chosen.valid = TRUE /\ Chosen.threshold = FirstOf(valid)
    BY <1>2, ChosenIsFirst
  <2>2. FirstOf(valid) \in valid /\ \A u \in valid : Balanced(u) <= Balanced(FirstOf(valid))
    <3> HIDE DEF valid
    <3> QED
      BY <1>1, <1>2, FirstIsMostAccurate
  <2>3. ASSUME NEW t \in Thresholds, Satisfies(t)
        PROVE  Balanced(t) <= Balanced(FirstOf(valid))
    <3>1. PICK c \in BestScores : Satisfies(c) /\ Balanced(t) = Balanced(c)
      BY <2>3, CandidateForAny
    <3> QED
      BY <3>1, <2>2
  <2>4. Satisfies(FirstOf(valid))
    BY <2>2
  <2> HIDE DEF valid
  <2> QED
    BY <2>1, <2>3, <2>4
<1>3. CASE valid = {}
  <2>1. Chosen.valid = FALSE
    BY <1>3, ChosenIsFirst
  <2> QED
    BY <2>1, <1>3, CandidateForAny
<1> QED
  BY <1>2, <1>3

\* A profile, once there, is the chosen one, and nothing it was chosen from changes any
\* more; live answers are only tried with a valid one.
Settled == {"cite", "report", "exited"}
ProfileInv ==
  /\ profile # None => stage \in Settled /\ profile = Chosen
  /\ stage = "cite" => profile.valid
  /\ cited # <<>> => stage \in Settled /\ profile.valid

\* Before the choice there is no profile and nothing cited; after it, only Cite adds.
LEMMA ProfileStep ==
  ASSUME VoyageInv, ProfileInv, [Next]_vars
  PROVE  ProfileInv'
<1> USE DEF ProfileInv, Settled, pathVars
<1>1. \/ Idles \/ Proceeds \/ Judges \/ Quits
      \/ Start \/ Retrieve \/ RankCase \/ CalibrateCase \/ ChooseProfile \/ Cite
      \/ WriteReport
  BY StepKinds DEF VoyageInv
<1>2. CASE ChooseProfile
  BY <1>2 DEF ChooseProfile, Chosen
<1>3. CASE Cite
  BY <1>3 DEF Cite, Chosen
<1>4. CASE Start \/ Retrieve \/ RankCase \/ CalibrateCase
  BY <1>4 DEF Start, Retrieve, RankCase, CalibrateCase, Exits, Blocked, Chosen
<1>5. CASE WriteReport
  BY <1>5 DEF WriteReport, Exits, Chosen
<1>6. CASE Idles \/ Proceeds \/ Quits
  BY <1>6 DEF Idles, Proceeds, Quits, Chosen, PathStages, Stages
<1>7. CASE Judges
  BY <1>7 DEF Judges, EndPath, Chosen, PathStages, Stages
<1> QED
  BY <1>1, <1>2, <1>3, <1>4, <1>5, <1>6, <1>7

(***************************************************************************)
(* The profile is the best any threshold can do on the calibration split,  *)
(* whatever the scores: select_threshold tries the observed best scores    *)
(* only, and that is enough.                                               *)
(***************************************************************************)
THEOREM ProfilesAreSafest == Spec => []ProfileIsSafest
<1>1. Init => ProfileInv
  BY DEF Init, ProfileInv
<1>2. VoyageInv /\ ProfileInv /\ [Next]_vars => ProfileInv'
  BY ProfileStep
<1>3. VoyageInv /\ ProfileInv => ProfileIsSafest
  BY ChosenIsSafest DEF VoyageInv, ProfileInv, ProfileIsSafest
<1> QED
  BY <1>1, <1>2, <1>3, VoyageInvariant, PTL DEF Spec
=============================================================================
