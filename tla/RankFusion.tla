----------------------------- MODULE RankFusion -----------------------------
(***************************************************************************)
(* retrieval/rrf.py and retrieval/deduplication.py: several ranked lists   *)
(* of chunks become one, by the sum of the reciprocals of their ranks, and *)
(* of what says the same thing twice the better ranked copy stays.         *)
(*                                                                         *)
(* A chunk is its id, its source and place there, and the set of its       *)
(* tokens.  Scores are exact: multiples of 1 / Unit.  The scores that the  *)
(* chunks carry along are left out.                                        *)
(***************************************************************************)
EXTENDS Integers, SequencesExt

CONSTANTS
  K,            \* rrf_k
  MaxRank,      \* a bound: no ranking is longer
  NearPercent,  \* dedup_near_duplicate_threshold
  AdjacentPercent  \* dedup_adjacent_threshold

ASSUME FusionAssumption ==
  /\ K \in Nat \ {0} /\ MaxRank \in Nat \ {0}
  /\ NearPercent \in 0..100 /\ AdjacentPercent \in 0..100

Ids(chunks) == {chunks[i].id : i \in DOMAIN chunks}
RankIn(ranking, id) == CHOOSE i \in DOMAIN ranking : ranking[i].id = id

\* chunks[:top_k], where a top_k of zero or None keeps all.
TopK(chunks, n) == IF n = 0 THEN chunks ELSE SubSeq(chunks, 1, Min({n, Len(chunks)}))

-----------------------------------------------------------------------------
(***************************************************************************)
(* reciprocal_rank_fusion.                                                 *)
(***************************************************************************)
Unit ==
  LET product[n \in 0..MaxRank] == IF n = 0 THEN 1 ELSE (K + n) * product[n - 1]
  IN  product[MaxRank]
RrfContribution(rank) == Unit \div (K + rank)

\* The rankings contribute in turn.
FusionScore(rankings, id) ==
  LET Share(ranking) ==
        IF id \in Ids(ranking) THEN RrfContribution(RankIn(ranking, id)) ELSE 0
      score[r \in 0..Len(rankings)] ==
        IF r = 0 THEN 0 ELSE score[r - 1] + Share(rankings[r])
  IN  score[Len(rankings)]

\* The copy of the first retriever that found the id.
FirstCopy(rankings, id) ==
  LET r == Min({i \in DOMAIN rankings : id \in Ids(rankings[i])})
  IN  rankings[r][RankIn(rankings[r], id)]

\* sorted by score, then by id: each time, the best of the ids that are left.
Fuse(rankings) ==
  LET ids == UNION {Ids(rankings[r]) : r \in DOMAIN rankings}
      score == [id \in ids |-> FusionScore(rankings, id)]
      Above(a, b) == score[a] > score[b] \/ (score[a] = score[b] /\ a < b)
      Best(left) == CHOOSE a \in left : \A b \in left \ {a} : Above(a, b)
      fused[n \in 0..Cardinality(ids)] ==
        IF n = 0 THEN <<>>
        ELSE LET before == fused[n - 1]
             IN  Append(before, FirstCopy(rankings, Best(ids \ Ids(before))))
  IN  fused[Cardinality(ids)]

-----------------------------------------------------------------------------
(***************************************************************************)
(* deduplicate.                                                            *)
(***************************************************************************)
\* jaccard_similarity is at least the threshold.  Without tokens it is zero.
Overlaps(left, right, percent) ==
  IF left.tokens = {} \/ right.tokens = {} THEN percent = 0
  ELSE 100 * Cardinality(left.tokens \cap right.tokens)
         >= percent * Cardinality(left.tokens \cup right.tokens)

Adjacent(left, right) ==
  left.source = right.source /\ left.index - right.index \in {-1, 1}

SaysTheSame(left, right) ==
  Overlaps(left, right, IF Adjacent(left, right) THEN AdjacentPercent ELSE NearPercent)

LongestRun(indices) ==
  Max({n \in 0..Cardinality(indices) : \E i \in indices : i..(i + n - 1) \subseteq indices})

IndicesOf(chunks, source) ==
  {chunks[i].index : i \in {j \in DOMAIN chunks : chunks[j].source = source}}

\* _violates_run_cap, where a cap of zero is none.
ViolatesRunCap(kept, candidate, cap) ==
  /\ cap # 0
  /\ LongestRun(IndicesOf(kept, candidate.source) \cup {candidate.index}) > cap

\* What is dropped when `kept` was kept before it.
IsDropped(kept, candidate, cap) ==
  \/ candidate.id \in Ids(kept)
  \/ \E i \in DOMAIN kept : SaysTheSame(candidate, kept[i])
  \/ ViolatesRunCap(kept, candidate, cap)

Deduplicate(chunks, cap) ==
  LET kept[i \in 0..Len(chunks)] ==
        IF i = 0 THEN <<>>
        ELSE LET before == kept[i - 1]
                 candidate == chunks[i]
             IN  IF IsDropped(before, candidate, cap) THEN before ELSE Append(before, candidate)
  IN  kept[Len(chunks)]
=============================================================================
