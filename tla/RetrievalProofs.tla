--------------------------- MODULE RetrievalProofs ---------------------------
(***************************************************************************)
(* Proofs about HybridRetrieval and the operators of RankFusion, for any   *)
(* tables, settings, limits and number of queries.                         *)
(*                                                                         *)
(* Fusion and deduplication are loops, written as recursive functions.     *)
(* LoopIsDefined says that such a function exists, EveryTurn is induction  *)
(* over its turns, and each loop has one lemma that says what it returns.  *)
(***************************************************************************)
EXTENDS HybridRetrieval, FiniteSetTheorems, SequenceTheorems, WellFoundedInduction, TLAPS

USE FusionAssumption DEF FusionAssumption

-----------------------------------------------------------------------------
(***************************************************************************)
(* Numbers, orders, and loops.                                             *)
(***************************************************************************)
\* A non-empty set of natural numbers has a least element.
LEMMA LeastNumber ==
  ASSUME NEW S \in SUBSET Nat, S # {}
  PROVE  \E x \in S : \A y \in S : x <= y
<1> DEFINE R == OpToRel(<, Nat)
<1>1. \A x, y \in Nat : <<x, y>> \in R <=> x < y
  BY DEF OpToRel
<1>2. PICK x \in S : \A y \in S : <<y, x>> \notin R
  <2> HIDE DEF R
  <2> QED
    BY NatLessThanWellFounded, WFMin DEF R
<1>3. \A y \in S : ~(y < x)
  BY <1>1, <1>2
<1> QED
  BY <1>3

\* Min and Max of numbers.
LEMMA MinIsLeast ==
  ASSUME NEW S \in SUBSET Nat, S # {}
  PROVE  Min(S) \in S /\ \A y \in S : Min(S) <= y
BY LeastNumber, Zenon DEF Min

\* Max of a set that has a bound.
LEMMA MaxIsGreatest ==
  ASSUME NEW m \in Nat, NEW S \in SUBSET (0..m), S # {}
  PROVE  Max(S) \in S /\ \A y \in S : Max(S) >= y
<1> DEFINE Gaps == {n \in 0..m : m - n \in S}
<1>1. Gaps \in SUBSET Nat /\ Gaps # {}
  <2>1. PICK x \in S : TRUE
    OBVIOUS
  <2>2. m - x \in 0..m /\ m - (m - x) = x
    BY <2>1
  <2>3. m - x \in Gaps
    BY <2>1, <2>2
  <2>4. Gaps \in SUBSET Nat
    OBVIOUS
  <2> HIDE DEF Gaps
  <2> QED
    BY <2>3, <2>4
<1>2. PICK n \in Gaps : \A k \in Gaps : n <= k
  <2> HIDE DEF Gaps
  <2> QED
    BY <1>1, LeastNumber
<1>3. m - n \in S /\ \A y \in S : m - n >= y
  <2>1. ASSUME NEW y \in S PROVE m - n >= y
    <3>1. m - y \in Gaps
      OBVIOUS
    <3> QED
      BY <3>1, <1>2
  <2> QED
    BY <2>1
<1>4. \E x \in S : \A y \in S : x >= y
  BY <1>3
<1> QED
  BY <1>4, Zenon DEF Max

\* Any two elements are related, and the relation is transitive.
Orders(R, S) ==
  /\ \A x \in S : \A y \in S : x # y => <<x, y>> \in R \/ <<y, x>> \in R
  /\ \A x \in S : \A y \in S : \A z \in S :
       <<x, y>> \in R /\ <<y, z>> \in R => <<x, z>> \in R

\* A finite set that is ordered has a first element.
LEMMA FirstOfFinite ==
  ASSUME NEW S, NEW R, IsFiniteSet(S), S # {}, Orders(R, S)
  PROVE  \E x \in S : \A y \in S \ {x} : <<x, y>> \in R
<1> DEFINE First(T) == \E x \in T : \A y \in T \ {x} : <<x, y>> \in R
           Sizes == {n \in Nat : \E T \in SUBSET S : T # {} /\ Cardinality(T) = n /\ ~First(T)}
<1> USE DEF Orders
<1> SUFFICES ASSUME ~First(S) PROVE FALSE
  OBVIOUS
<1>1. \A T \in SUBSET S : IsFiniteSet(T) /\ Cardinality(T) \in Nat
  BY FS_Subset, FS_CardinalityType
<1>2. Sizes \in SUBSET Nat /\ Sizes # {}
  <2>1. Cardinality(S) \in Sizes
    BY <1>1
  <2> QED
    BY <2>1
<1>3. PICK n \in Sizes : \A k \in Sizes : n <= k
  <2> HIDE DEF Sizes
  <2> QED
    BY <1>2, LeastNumber
<1>4. PICK T \in SUBSET S : T # {} /\ Cardinality(T) = n /\ ~First(T)
  BY <1>3
<1>5. PICK x \in T : TRUE
  BY <1>4
<1> DEFINE U == T \ {x}
<1>6. U \in SUBSET S /\ Cardinality(U) = n - 1
  BY <1>1, <1>4, <1>5, FS_RemoveElement
<1>7. CASE U = {}
  <2>1. First(T)
    BY <1>5, <1>7
  <2> QED
    BY <1>4, <2>1
<1>8. CASE U # {}
  <2>1. n - 1 \in Nat /\ n - 1 \notin Sizes
    <3>2. n \in Nat
      OBVIOUS
    <3> HIDE DEF Sizes, U
    <3>1. n - 1 \in Nat
      <4>1. Cardinality(U) \in Nat
        BY <1>1, <1>6
      <4> QED
        BY <4>1, <1>6
    <3> QED
      BY <3>1, <3>2, <1>3
  <2>2. First(U)
    BY <2>1, <1>6, <1>8
  <2>3. PICK y \in U : \A z \in U \ {y} : <<y, z>> \in R
    BY <2>2
  <2>4. CASE <<y, x>> \in R
    <3>1. \A z \in T \ {y} : <<y, z>> \in R
      BY <2>3, <2>4
    <3> QED
      BY <3>1, <2>3, <1>4
  <2>5. CASE <<x, y>> \in R
    <3>1. \A z \in T \ {x} : <<x, z>> \in R
      BY <2>3, <2>5, <1>4, <1>5
    <3> QED
      BY <3>1, <1>4, <1>5
  <2> QED
    BY <2>3, <2>4, <2>5, <1>4, <1>5
<1> QED
  BY <1>7, <1>8
\* A set of turns of a loop that has the start, and every turn after one it has.
Inductive(n, Good) == 0 \in Good /\ \A i \in 1..n : i - 1 \in Good => i \in Good

\* It has all turns.
LEMMA EveryTurn ==
  ASSUME NEW n \in Nat, NEW Good, Inductive(n, Good)
  PROVE  \A i \in 0..n : i \in Good
<1> USE DEF Inductive
<1> DEFINE Bad == {i \in 0..n : i \notin Good}
<1> SUFFICES ASSUME Bad # {} PROVE FALSE
  OBVIOUS
<1>1. PICK i \in Bad : \A k \in Bad : i <= k
  <2>1. Bad \in SUBSET Nat
    OBVIOUS
  <2> HIDE DEF Bad
  <2> QED
    BY <2>1, LeastNumber
<1>2. i \in 1..n /\ i - 1 \in 0..n /\ i - 1 \notin Bad
  <2>1. i \in 1..n
    OBVIOUS
  <2>2. i - 1 \in Bad => i <= i - 1
    BY <1>1
  <2> QED
    BY <2>1, <2>2
<1> QED
  BY <1>2

\* g has the values of a loop of n turns, which starts from a base.
Loop(n, base, F, g) == g[0] = base /\ \A i \in 1..n : g[i] = F[i][g[i - 1]]

\* A loop over values of D has its values.
LEMMA LoopIsDefined ==
  ASSUME NEW D, NEW n \in Nat, NEW base \in D, NEW F, F \in [1..n -> [D -> D]]
  PROVE  \E g \in [0..n -> D] : Loop(n, base, F, g)
<1> DEFINE Runs(m) == \E g \in [0..m -> D] :
                        g[0] = base /\ \A i \in 1..m : g[i] = F[i][g[i - 1]]
           Good == {m \in 0..n : Runs(m)}
<1>1. 0 \in Good
  <2>1. /\ [i \in 0..0 |-> base] \in [0..0 -> D]
        /\ [i \in 0..0 |-> base][0] = base
        /\ 1..0 = {}
    OBVIOUS
  <2>2. Runs(0)
    BY <2>1
  <2> HIDE DEF Runs
  <2> QED
    BY <2>2
<1>2. ASSUME NEW m \in 1..n, m - 1 \in Good
      PROVE  m \in Good
  <2>1. PICK g \in [0..(m - 1) -> D] :
          g[0] = base /\ \A i \in 1..(m - 1) : g[i] = F[i][g[i - 1]]
    BY <1>2
  <2> DEFINE h == [i \in 0..m |-> IF i = m THEN F[m][g[m - 1]] ELSE g[i]]
  <2>2. F[m][g[m - 1]] \in D
    <3>1. g[m - 1] \in D /\ F[m] \in [D -> D]
      OBVIOUS
    <3> QED
      BY <3>1
  <2>3. h \in [0..m -> D]
    BY <2>2
  <2>4. h[0] = base
    BY <2>1
  <2>5. ASSUME NEW i \in 1..m PROVE h[i] = F[i][h[i - 1]]
    <3>1. h[i - 1] = g[i - 1]
      OBVIOUS
    <3>2. CASE i = m
      BY <3>1, <3>2
    <3>3. CASE i # m
      BY <2>1, <3>1, <3>3
    <3> QED
      BY <3>2, <3>3
  <2> HIDE DEF h
  <2>6. Runs(m)
    BY <2>3, <2>4, <2>5
  <2> HIDE DEF Runs
  <2> QED
    BY <2>6
<1>3. Runs(n)
  <2>1. Inductive(n, Good)
    <3> HIDE DEF Good
    <3> QED
      BY <1>1, <1>2 DEF Inductive
  <2>2. n \in Good
    <3> HIDE DEF Good
    <3> QED
      BY <2>1, EveryTurn
  <2> HIDE DEF Runs
  <2> QED
    BY <2>2
<1> QED
  BY <1>3 DEF Loop

-----------------------------------------------------------------------------
(***************************************************************************)
(* Fusion.                                                                 *)
(***************************************************************************)
\* All rows there ever are.
Rows == UNION Range(Tables)

\* The numbers by which rows are identified and ordered are numbers.
LEMMA RowsHaveNumbers == \A c \in Rows : c.id \in Int /\ c.index \in Int
  BY RetrievalAssumption DEF RetrievalAssumption, Rows, Range

\* RankIn is the rank of a chunk with that id.
LEMMA RankIsThere ==
  ASSUME NEW ranking \in Seq(Rows), NEW id \in Ids(ranking)
  PROVE  /\ RankIn(ranking, id) \in DOMAIN ranking
         /\ ranking[RankIn(ranking, id)].id = id /\ ranking[RankIn(ranking, id)] \in Rows
         /\ RankIn(ranking, id) \in Nat \ {0}
<1>1. \E i \in DOMAIN ranking : ranking[i].id = id
  BY DEF Ids
<1>2. RankIn(ranking, id) \in DOMAIN ranking /\ ranking[RankIn(ranking, id)].id = id
  BY <1>1, Zenon DEF RankIn
<1> QED
  BY <1>2

\* The unit of the scores is a number that every rank divides.
LEMMA UnitIsShared ==
  Unit \in Nat \ {0} /\ \A r \in 1..MaxRank : \E q \in Nat \ {0} : Unit = (K + r) * q
<1> DEFINE F == [n \in 1..MaxRank |-> [d \in Nat |-> (K + n) * d]]
           Product(f) == [n \in 0..MaxRank |-> IF n = 0 THEN 1 ELSE (K + n) * f[n - 1]]
           product == CHOOSE f : f = Product(f)
           Shared(n) == /\ product[n] \in Nat \ {0}
                        /\ \A r \in 1..n : \E q \in Nat \ {0} : product[n] = (K + r) * q
           Good == {n \in 0..MaxRank : Shared(n)}
<1>1. Unit = product[MaxRank]
  BY DEF Unit
<1>2. F \in [1..MaxRank -> [Nat -> Nat]]
  OBVIOUS
<1>3. PICK g \in [0..MaxRank -> Nat] : Loop(MaxRank, 1, F, g)
  <2> HIDE DEF F
  <2> QED
    BY <1>2, LoopIsDefined
<1>4. g = Product(g)
  <2>1. \A n \in 1..MaxRank : g[n] = (K + n) * g[n - 1]
    <3> SUFFICES ASSUME NEW n \in 1..MaxRank PROVE g[n] = (K + n) * g[n - 1]
      OBVIOUS
    <3>1. g[n - 1] \in Nat
      OBVIOUS
    <3>2. g[n] = F[n][g[n - 1]]
      BY <1>3 DEF Loop
    <3> QED
      BY <3>1, <3>2
  <2>2. g[0] = 1
    BY <1>3 DEF Loop
  <2>3. \A n \in 0..MaxRank : g[n] = IF n = 0 THEN 1 ELSE (K + n) * g[n - 1]
    BY <2>1, <2>2
  <2> QED
    BY <2>3
<1>5. product = Product(product)
  <2> HIDE DEF Product
  <2> QED
    BY <1>4, Zenon
<1>6. product[0] = 1 /\ \A n \in 1..MaxRank : product[n] = (K + n) * product[n - 1]
  <2> HIDE DEF product
  <2> QED
    BY <1>5
<1> HIDE DEF product
<1>7. Shared(0)
  BY <1>6
<1>8. ASSUME NEW n \in 1..MaxRank, Shared(n - 1) PROVE Shared(n)
  <2> DEFINE p == product[n - 1]
  <2>1. p \in Nat \ {0} /\ product[n] = (K + n) * p
    BY <1>6, <1>8
  <2>2. \A r \in 1..(n - 1) : \E q \in Nat \ {0} : p = (K + r) * q
    BY <1>8
  <2> HIDE DEF p
  <2>3. product[n] \in Nat \ {0}
    BY <2>1
  <2>4. ASSUME NEW r \in 1..n PROVE \E q \in Nat \ {0} : product[n] = (K + r) * q
    <3>1. CASE r = n
      BY <2>1, <3>1
    <3>2. CASE r \in 1..(n - 1)
      <4>1. PICK q \in Nat \ {0} : p = (K + r) * q
        BY <2>2, <3>2
      <4>2. (K + n) * q \in Nat \ {0}
        OBVIOUS
      <4>3. (K + n) * ((K + r) * q) = (K + r) * ((K + n) * q)
        OBVIOUS
      <4> QED
        BY <2>1, <4>1, <4>2, <4>3
    <3> QED
      BY <3>1, <3>2
  <2> QED
    BY <2>3, <2>4
<1>9. Inductive(MaxRank, Good)
  <2> HIDE DEF Shared
  <2>1. 0 \in Good
    BY <1>7
  <2>2. ASSUME NEW n \in 1..MaxRank, n - 1 \in Good PROVE n \in Good
    BY <1>8, <2>2
  <2> HIDE DEF Good
  <2> QED
    BY <2>1, <2>2 DEF Inductive
<1>10. MaxRank \in Good
  <2> HIDE DEF Good
  <2> QED
    BY <1>9, EveryTurn
<1> QED
  BY <1>1, <1>10

\* A lower rank gives more.
LEMMA ContributionsFall ==
  ASSUME NEW a \in 1..MaxRank
  PROVE  /\ RrfContribution(a) \in Nat \ {0}
         /\ \A b \in 1..MaxRank : a < b => RrfContribution(a) > RrfContribution(b)
<1>1. ASSUME NEW r \in 1..MaxRank
      PROVE  RrfContribution(r) \in Nat \ {0} /\ Unit = (K + r) * RrfContribution(r)
  <2>1. PICK q \in Nat \ {0} : Unit = (K + r) * q
    BY UnitIsShared
  <2>2. K + r \in Nat \ {0}
    OBVIOUS
  <2>3. \A m \in Nat \ {0} : (m * q) \div m = q
    OBVIOUS
  <2> QED
    BY <2>1, <2>2, <2>3 DEF RrfContribution
<1>2. ASSUME NEW b \in 1..MaxRank, a < b PROVE RrfContribution(a) > RrfContribution(b)
  <2> DEFINE p == RrfContribution(a)
             q == RrfContribution(b)
             m == K + a
             n == K + b
  <2>1. p \in Nat \ {0} /\ q \in Nat \ {0} /\ m * p = n * q
    BY <1>1
  <2>2. m \in Nat \ {0} /\ n \in Nat \ {0} /\ m < n
    BY <1>2
  <2> HIDE DEF p, q, m, n
  <2>3. m * q < n * q
    BY <2>1, <2>2
  <2>4. p <= q => m * p <= m * q
    BY <2>1, <2>2
  <2>5. p > q
    BY <2>1, <2>2, <2>3, <2>4
  <2> QED
    BY <2>5 DEF p, q
<1> QED
  BY <1>1, <1>2

\* What one ranking contributes to the score of an id.
Share(ranking, id) ==
  IF id \in Ids(ranking) THEN RrfContribution(RankIn(ranking, id)) ELSE 0

\* It is a number.
LEMMA ShareIsNumber ==
  ASSUME NEW ranking \in Seq(Rows), NEW id
  PROVE  Share(ranking, id) \in Int
<1> SUFFICES ASSUME id \in Ids(ranking)
             PROVE  RrfContribution(RankIn(ranking, id)) \in Int
  BY DEF Share
<1>1. RankIn(ranking, id) \in Nat \ {0}
  BY RankIsThere
<1>2. Unit \in Int
  BY UnitIsShared
<1>3. K + RankIn(ranking, id) \in Nat /\ K + RankIn(ranking, id) > 0
  BY <1>1
<1> QED
  BY <1>2, <1>3 DEF RrfContribution

\* A score is the sum of the shares.
LEMMA ScoreIsSum ==
  ASSUME NEW lists \in Seq(Seq(Rows)), NEW id
  PROVE  \E sum \in [0..Len(lists) -> Int] :
           /\ FusionScore(lists, id) = sum[Len(lists)] /\ sum[0] = 0
           /\ \A r \in 1..Len(lists) : sum[r] = sum[r - 1] + Share(lists[r], id)
<1> DEFINE N == Len(lists)
           F == [r \in 1..N |-> [d \in Int |-> d + Share(lists[r], id)]]
           Sums(f) == [r \in 0..N |-> IF r = 0 THEN 0 ELSE f[r - 1] + Share(lists[r], id)]
           score == CHOOSE f : f = Sums(f)
           Good == {r \in 0..N : score[r] \in Int}
<1>0. N \in Nat /\ \A r \in 1..N : lists[r] \in Seq(Rows)
  BY ElementOfSeq, LenProperties
<1>1. FusionScore(lists, id) = score[N]
  BY DEF FusionScore, Share
<1>2. \A r \in 1..N : Share(lists[r], id) \in Int
  BY <1>0, ShareIsNumber
<1>3. F \in [1..N -> [Int -> Int]]
  <2> HIDE DEF N
  <2> QED
    BY <1>2
<1>4. PICK g \in [0..N -> Int] : Loop(N, 0, F, g)
  <2>1. N \in Nat /\ 0 \in Int
    BY <1>0
  <2> HIDE DEF F, N
  <2> QED
    BY <2>1, <1>3, LoopIsDefined
<1> HIDE DEF N
<1>5. g = Sums(g)
  <2>1. \A r \in 1..N : g[r] = g[r - 1] + Share(lists[r], id)
    <3> SUFFICES ASSUME NEW r \in 1..N PROVE g[r] = g[r - 1] + Share(lists[r], id)
      OBVIOUS
    <3>1. g[r - 1] \in Int
      BY <1>0
    <3>2. g[r] = F[r][g[r - 1]]
      BY <1>4 DEF Loop
    <3> QED
      BY <3>1, <3>2
  <2>2. g[0] = 0
    BY <1>4 DEF Loop
  <2>3. \A r \in 0..N : g[r] = IF r = 0 THEN 0 ELSE g[r - 1] + Share(lists[r], id)
    BY <1>0, <2>1, <2>2
  <2> QED
    BY <2>3
<1>6. score = Sums(score)
  <2> HIDE DEF Sums
  <2> QED
    BY <1>5, Zenon
<1>7. score[0] = 0 /\ \A r \in 1..N : score[r] = score[r - 1] + Share(lists[r], id)
  <2> HIDE DEF score
  <2> QED
    BY <1>0, <1>6
<1>8. Inductive(N, Good)
  <2> HIDE DEF score
  <2>1. 0 \in Good
    BY <1>0, <1>7
  <2>2. ASSUME NEW r \in 1..N, r - 1 \in Good PROVE r \in Good
    <3>1. score[r - 1] \in Int /\ score[r] = score[r - 1] + Share(lists[r], id)
      BY <1>7, <2>2
    <3> QED
      BY <1>0, <1>2, <3>1
  <2> HIDE DEF Good
  <2> QED
    BY <2>1, <2>2 DEF Inductive
<1>9. score \in [0..N -> Int]
  <2>1. \A r \in 0..N : score[r] \in Int
    <3>1. Inductive(N, Good)
      BY <1>8
    <3>2. \A r \in 0..N : r \in Good
      <4> HIDE DEF Good
      <4> QED
        BY <1>0, <3>1, EveryTurn
    <3> HIDE DEF score
    <3> QED
      BY <3>2
  <2>2. score = [r \in 0..N |-> score[r]]
    <3> HIDE DEF score
    <3> QED
      BY <1>6
  <2> HIDE DEF score
  <2> QED
    BY <2>1, <2>2
<1> HIDE DEF score
<1> QED
  BY <1>0, <1>1, <1>7, <1>9 DEF N

\* So it is a number.
LEMMA ScoreIsNumber ==
  ASSUME NEW lists \in Seq(Seq(Rows)), NEW id
  PROVE  FusionScore(lists, id) \in Int
<1>1. Len(lists) \in Nat
  BY LenProperties
<1> QED
  BY <1>1, ScoreIsSum

\* All that the rankings found.
AllIds(lists) == UNION {Ids(lists[r]) : r \in DOMAIN lists}

\* A higher score, or the same and a lower id.
Above(lists, a, b) ==
  \/ FusionScore(lists, a) > FusionScore(lists, b)
  \/ FusionScore(lists, a) = FusionScore(lists, b) /\ a < b

\* An id that was found is a number, and its first copy is a row with that id.
LEMMA FirstCopyIsFound ==
  ASSUME NEW lists \in Seq(Seq(Rows)), NEW id \in AllIds(lists)
  PROVE  /\ id \in Int
         /\ FirstCopy(lists, id) \in Rows /\ FirstCopy(lists, id).id = id
         /\ \E r \in DOMAIN lists : FirstCopy(lists, id) \in Range(lists[r])
<1> DEFINE Finders == {i \in DOMAIN lists : id \in Ids(lists[i])}
           r == Min(Finders)
<1>1. Finders \in SUBSET Nat /\ Finders # {}
  <2>1. DOMAIN lists \in SUBSET Nat
    BY LenProperties
  <2> QED
    BY <2>1 DEF AllIds
<1>2. r \in Finders
  <2> HIDE DEF Finders
  <2> QED
    BY <1>1, MinIsLeast
<1>3. r \in DOMAIN lists /\ lists[r] \in Seq(Rows) /\ id \in Ids(lists[r])
  BY <1>2
<1>4. FirstCopy(lists, id) = lists[r][RankIn(lists[r], id)]
  BY DEF FirstCopy
<1> HIDE DEF r
<1>5. /\ RankIn(lists[r], id) \in DOMAIN lists[r]
      /\ lists[r][RankIn(lists[r], id)].id = id
      /\ lists[r][RankIn(lists[r], id)] \in Rows
  BY <1>3, RankIsThere
<1>6. lists[r][RankIn(lists[r], id)] \in Range(lists[r])
  BY <1>5 DEF Range
<1> QED
  BY <1>3, <1>4, <1>5, <1>6, RowsHaveNumbers

\* Sequences have finitely many elements, and so few ids.
LEMMA IdsAreFinite ==
  ASSUME NEW chunks \in Seq(Rows)
  PROVE  IsFiniteSet(Ids(chunks))
<1> DEFINE f == [i \in 1..Len(chunks) |-> chunks[i].id]
<1>1. Len(chunks) \in Nat /\ DOMAIN chunks = 1..Len(chunks)
  BY LenProperties
<1>2. f \in Surjection(1..Len(chunks), Ids(chunks))
  BY <1>1 DEF Ids, Surjection
<1>3. IsFiniteSet(1..Len(chunks))
  <2>1. 1 \in Int /\ Len(chunks) \in Int
    BY <1>1
  <2> QED
    BY <2>1, FS_Interval
<1> HIDE DEF f
<1> QED
  BY <1>2, <1>3, FS_Surjection

\* So have several.
LEMMA AllIdsAreFinite ==
  ASSUME NEW lists \in Seq(Seq(Rows))
  PROVE  IsFiniteSet(AllIds(lists))
<1> DEFINE S == {Ids(lists[r]) : r \in DOMAIN lists}
           f == [r \in 1..Len(lists) |-> Ids(lists[r])]
<1>1. Len(lists) \in Nat /\ DOMAIN lists = 1..Len(lists)
  BY LenProperties
<1>2. f \in Surjection(1..Len(lists), S)
  BY <1>1 DEF Surjection
<1>3. IsFiniteSet(1..Len(lists))
  <2>1. 1 \in Int /\ Len(lists) \in Int
    BY <1>1
  <2> QED
    BY <2>1, FS_Interval
<1>4. \A T \in S : IsFiniteSet(T)
  BY <1>1, IdsAreFinite
<1>5. IsFiniteSet(S)
  <2> HIDE DEF f, S
  <2> QED
    BY <1>2, <1>3, FS_Surjection
<1>6. IsFiniteSet(UNION S)
  <2> HIDE DEF S
  <2> QED
    BY <1>4, <1>5, FS_UNION
<1> QED
  BY <1>6 DEF AllIds

\* Of some ids, one is above the others.
LEMMA OneIsAbove ==
  ASSUME NEW lists \in Seq(Seq(Rows)), NEW S \in SUBSET AllIds(lists), S # {}
  PROVE  \E a \in S : \A b \in S \ {a} : Above(lists, a, b)
<1> DEFINE R == {p \in S \X S : Above(lists, p[1], p[2])}
<1>1. IsFiniteSet(S)
  BY AllIdsAreFinite, FS_Subset
<1>2. \A a \in S : a \in Int /\ FusionScore(lists, a) \in Int
  BY FirstCopyIsFound, ScoreIsNumber
<1>3. \A a, b \in S : <<a, b>> \in R <=> Above(lists, a, b)
  OBVIOUS
<1> HIDE DEF R
<1>4. Orders(R, S)
  <2>1. ASSUME NEW a \in S, NEW b \in S, a # b
        PROVE  Above(lists, a, b) \/ Above(lists, b, a)
    BY <1>2, <2>1 DEF Above
  <2>2. ASSUME NEW a \in S, NEW b \in S, NEW c \in S,
               Above(lists, a, b), Above(lists, b, c)
        PROVE  Above(lists, a, c)
    BY <1>2, <2>2 DEF Above
  <2> QED
    BY <1>3, <2>1, <2>2 DEF Orders
<1>5. \A Q : Orders(Q, S) => \E a \in S : \A b \in S \ {a} : <<a, b>> \in Q
  BY <1>1, FirstOfFinite
<1> QED
  BY <1>3, <1>4, <1>5

\* The ids of a longer sequence.
LEMMA IdsOfAppend ==
  ASSUME NEW chunks \in Seq(Rows), NEW c \in Rows
  PROVE  Ids(Append(chunks, c)) = Ids(chunks) \cup {c.id}
<1> DEFINE s == Append(chunks, c)
<1>1. /\ s \in Seq(Rows) /\ Len(s) = Len(chunks) + 1
      /\ \A i \in 1..Len(chunks) : s[i] = chunks[i]
      /\ s[Len(chunks) + 1] = c
  BY AppendProperties
<1>2. Len(chunks) \in Nat /\ DOMAIN chunks = 1..Len(chunks) /\ DOMAIN s = 1..(Len(chunks) + 1)
  BY <1>1, LenProperties
<1> HIDE DEF s
<1>3. Ids(s) \subseteq Ids(chunks) \cup {c.id}
  BY <1>1, <1>2 DEF Ids
<1>4. Ids(chunks) \subseteq Ids(s)
  <2> SUFFICES ASSUME NEW i \in 1..Len(chunks) PROVE chunks[i].id \in Ids(s)
    BY <1>2 DEF Ids
  <2>1. i \in DOMAIN s /\ s[i] = chunks[i]
    BY <1>1, <1>2
  <2> QED
    BY <2>1 DEF Ids
<1>5. c.id \in Ids(s)
  <2>1. Len(chunks) + 1 \in DOMAIN s
    BY <1>2
  <2> QED
    BY <1>1, <2>1 DEF Ids
<1> QED
  BY <1>3, <1>4, <1>5 DEF s

\* A part of what the rankings found, best first: it is ranked, and nothing is left out
\* that is above one of it.
Fused(lists, chunks) ==
  /\ chunks \in Seq(Rows)
  /\ Cardinality(Ids(chunks)) = Len(chunks) /\ Ids(chunks) \subseteq AllIds(lists)
  /\ \A i \in DOMAIN chunks : chunks[i] = FirstCopy(lists, chunks[i].id)
  /\ \A i, j \in DOMAIN chunks : i < j => Above(lists, chunks[i].id, chunks[j].id)
  /\ \A a \in Ids(chunks) : \A b \in AllIds(lists) \ Ids(chunks) : Above(lists, a, b)

\* So it remains when the best of what is left is appended.
LEMMA FusedByOne ==
  ASSUME NEW lists \in Seq(Seq(Rows)), NEW chunks, Fused(lists, chunks),
         NEW a \in AllIds(lists) \ Ids(chunks),
         \A b \in (AllIds(lists) \ Ids(chunks)) \ {a} : Above(lists, a, b)
  PROVE  /\ Fused(lists, Append(chunks, FirstCopy(lists, a)))
         /\ Len(Append(chunks, FirstCopy(lists, a))) = Len(chunks) + 1
<1> DEFINE c == FirstCopy(lists, a)
           s == Append(chunks, c)
<1>1. chunks \in Seq(Rows) /\ c \in Rows /\ c.id = a
  BY FirstCopyIsFound DEF Fused
<1> HIDE DEF c
<1>2. /\ s \in Seq(Rows) /\ Len(s) = Len(chunks) + 1
      /\ \A i \in 1..Len(chunks) : s[i] = chunks[i]
      /\ s[Len(chunks) + 1] = c
  BY <1>1, AppendProperties
<1>3. Len(chunks) \in Nat /\ DOMAIN chunks = 1..Len(chunks) /\ DOMAIN s = 1..(Len(chunks) + 1)
  BY <1>1, <1>2, LenProperties
<1>4. Ids(s) = Ids(chunks) \cup {a}
  BY <1>1, IdsOfAppend
<1> HIDE DEF s
<1>5. Cardinality(Ids(s)) = Len(s) /\ Ids(s) \subseteq AllIds(lists)
  <2>1. Cardinality(Ids(chunks) \cup {a}) = Cardinality(Ids(chunks)) + 1
    BY <1>1, IdsAreFinite, FS_AddElement
  <2> QED
    BY <1>2, <1>4, <2>1 DEF Fused
<1>6. \A i \in DOMAIN s : s[i] = FirstCopy(lists, s[i].id)
  <2> SUFFICES ASSUME NEW i \in 1..(Len(chunks) + 1) PROVE s[i] = FirstCopy(lists, s[i].id)
    BY <1>3
  <2>1. CASE i \in 1..Len(chunks)
    BY <1>2, <1>3, <2>1 DEF Fused
  <2>2. CASE i = Len(chunks) + 1
    BY <1>1, <1>2, <2>2 DEF c
  <2> QED
    BY <1>3, <2>1, <2>2
<1>7. \A i, j \in DOMAIN s : i < j => Above(lists, s[i].id, s[j].id)
  <2> SUFFICES ASSUME NEW i \in 1..(Len(chunks) + 1), NEW j \in 1..(Len(chunks) + 1), i < j
               PROVE  Above(lists, s[i].id, s[j].id)
    BY <1>3
  <2>0. i \in 1..Len(chunks) /\ s[i] = chunks[i] /\ chunks[i].id \in Ids(chunks)
    <3>1. i \in 1..Len(chunks)
      BY <1>3
    <3> QED
      BY <1>2, <1>3, <3>1 DEF Ids
  <2>1. CASE j \in 1..Len(chunks)
    <3>1. Above(lists, chunks[i].id, chunks[j].id)
      BY <1>3, <2>0, <2>1 DEF Fused
    <3> QED
      BY <1>2, <2>0, <2>1, <3>1
  <2>2. CASE j = Len(chunks) + 1
    <3>1. Above(lists, chunks[i].id, a)
      BY <2>0 DEF Fused
    <3> QED
      BY <1>1, <1>2, <2>0, <2>2, <3>1
  <2> QED
    BY <1>3, <2>1, <2>2
<1>8. \A d \in Ids(s) : \A b \in AllIds(lists) \ Ids(s) : Above(lists, d, b)
  BY <1>4 DEF Fused
<1> QED
  BY <1>2, <1>5, <1>6, <1>7, <1>8 DEF Fused, s, c

\* Fuse returns everything the rankings found, best first.
LEMMA FuseIsRanked ==
  ASSUME NEW lists \in Seq(Seq(Rows))
  PROVE  Fused(lists, Fuse(lists)) /\ Ids(Fuse(lists)) = AllIds(lists)
<1> DEFINE ids == AllIds(lists)
           N == Cardinality(ids)
           score == [id \in ids |-> FusionScore(lists, id)]
           Best(some) == CHOOSE a \in some : \A b \in some \ {a} :
                           score[a] > score[b] \/ (score[a] = score[b] /\ a < b)
           Longer(chunks) == Append(chunks, FirstCopy(lists, Best(ids \ Ids(chunks))))
           Steps(f) == [n \in 0..N |-> IF n = 0 THEN <<>> ELSE Longer(f[n - 1])]
           fused == CHOOSE f : f = Steps(f)
           Good == {n \in 0..N : Fused(lists, fused[n]) /\ Len(fused[n]) = n}
<1>0. N \in Nat /\ IsFiniteSet(ids)
  BY AllIdsAreFinite, FS_CardinalityType
<1>1. Fuse(lists) = fused[N]
  BY DEF Fuse, AllIds
<1>2. ASSUME NEW some \in SUBSET ids, some # {}
      PROVE  Best(some) \in some /\ \A b \in some \ {Best(some)} : Above(lists, Best(some), b)
  <2>1. \A a \in some : score[a] = FusionScore(lists, a)
    OBVIOUS
  <2>2. \E a \in some : \A b \in some \ {a} : Above(lists, a, b)
    BY <1>2, OneIsAbove
  <2>3. \E a \in some : \A b \in some \ {a} :
          score[a] > score[b] \/ (score[a] = score[b] /\ a < b)
    BY <2>1, <2>2 DEF Above
  <2> HIDE DEF score
  <2>4. /\ Best(some) \in some
        /\ \A b \in some \ {Best(some)} :
             \/ score[Best(some)] > score[b]
             \/ score[Best(some)] = score[b] /\ Best(some) < b
    BY <2>3, Zenon
  <2> HIDE DEF Best
  <2> QED
    BY <2>1, <2>4 DEF Above
<1> HIDE DEF Best
<1> DEFINE X == Rows \cup {FirstCopy(lists, Best(some)) : some \in SUBSET ids}
           F == [n \in 1..N |-> [chunks \in Seq(X) |-> Longer(chunks)]]
<1>3. F \in [1..N -> [Seq(X) -> Seq(X)]]
  <2>1. ASSUME NEW chunks \in Seq(X) PROVE Longer(chunks) \in Seq(X)
    <3>1. ids \ Ids(chunks) \in SUBSET ids
      OBVIOUS
    <3>2. FirstCopy(lists, Best(ids \ Ids(chunks))) \in X
      BY <3>1
    <3> HIDE DEF X
    <3> QED
      BY <3>2, AppendProperties
  <2> HIDE DEF X, Longer, N
  <2> QED
    BY <2>1
<1> HIDE DEF X
<1>4. PICK g \in [0..N -> Seq(X)] : Loop(N, <<>>, F, g)
  <2>1. N \in Nat /\ <<>> \in Seq(X)
    BY <1>0
  <2> HIDE DEF F, N
  <2> QED
    BY <2>1, <1>3, LoopIsDefined
<1> HIDE DEF N
<1>5. g = Steps(g)
  <2>1. \A n \in 1..N : g[n] = Longer(g[n - 1])
    <3> SUFFICES ASSUME NEW n \in 1..N PROVE g[n] = Longer(g[n - 1])
      OBVIOUS
    <3> HIDE DEF Longer
    <3>1. g[n - 1] \in Seq(X)
      BY <1>0
    <3>2. g[n] = F[n][g[n - 1]]
      BY <1>4 DEF Loop
    <3> QED
      BY <3>1, <3>2
  <2>2. g[0] = <<>>
    BY <1>4 DEF Loop
  <2> HIDE DEF Longer
  <2>3. \A n \in 0..N : g[n] = IF n = 0 THEN <<>> ELSE Longer(g[n - 1])
    BY <1>0, <2>1, <2>2
  <2> QED
    BY <2>3
<1>6. fused = Steps(fused)
  <2> HIDE DEF Steps
  <2> QED
    BY <1>5, Zenon
<1>7. fused[0] = <<>> /\ \A n \in 1..N : fused[n] = Longer(fused[n - 1])
  <2> HIDE DEF fused, Longer
  <2> QED
    BY <1>0, <1>6
<1> HIDE DEF fused
<1>8. 0 \in Good
  <2>1. Ids(<<>>) = {}
    BY DEF Ids
  <2>2. Cardinality(Ids(<<>>)) = 0
    BY <2>1, FS_EmptySet
  <2>3. <<>> \in Seq(Rows) /\ Len(<<>>) = 0 /\ DOMAIN <<>> = {}
    BY EmptySeq
  <2>4. Fused(lists, <<>>)
    BY <2>1, <2>2, <2>3 DEF Fused
  <2> QED
    BY <1>0, <1>7, <2>3, <2>4
<1>9. ASSUME NEW n \in 1..N, n - 1 \in Good PROVE n \in Good
  <2> DEFINE before == fused[n - 1]
             some == ids \ Ids(before)
  <2>1. Fused(lists, before) /\ Len(before) = n - 1
    BY <1>9
  <2>2. fused[n] = Append(before, FirstCopy(lists, Best(some)))
    BY <1>7
  <2> HIDE DEF before
  <2>3. some \in SUBSET ids /\ some # {}
    <3>1. Cardinality(Ids(before)) = n - 1 /\ Ids(before) \subseteq ids
      BY <2>1 DEF Fused
    <3>2. SUFFICES Ids(before) # ids
      BY <3>1
    <3> QED
      BY <1>0, <3>1 DEF N
  <2>4. /\ Best(some) \in some
        /\ \A b \in some \ {Best(some)} : Above(lists, Best(some), b)
    BY <1>2, <2>3
  <2>5. Fused(lists, fused[n]) /\ Len(fused[n]) = Len(before) + 1
    <3>1. Best(some) \in AllIds(lists) \ Ids(before)
      BY <2>4
    <3>2. \A b \in (AllIds(lists) \ Ids(before)) \ {Best(some)} : Above(lists, Best(some), b)
      BY <2>4
    <3> QED
      BY <2>1, <2>2, <3>1, <3>2, FusedByOne
  <2> QED
    BY <2>1, <2>5, <1>0
<1>10. N \in Good
  <2>1. Inductive(N, Good)
    <3> HIDE DEF Good
    <3> QED
      BY <1>8, <1>9 DEF Inductive
  <2> HIDE DEF Good
  <2> QED
    BY <1>0, <2>1, EveryTurn
<1>11. Fused(lists, fused[N]) /\ Len(fused[N]) = N
  BY <1>10
<1>12. Ids(fused[N]) = ids
  <2>1. Ids(fused[N]) \in SUBSET ids /\ Cardinality(Ids(fused[N])) = Cardinality(ids)
    BY <1>11 DEF Fused, N
  <2> QED
    BY <1>0, <2>1, FS_Subset
<1> QED
  BY <1>1, <1>11, <1>12

-----------------------------------------------------------------------------
(***************************************************************************)
(* Deduplication.                                                          *)
(***************************************************************************)
\* The first elements of a sequence.
LEMMA Prefix ==
  ASSUME NEW chunks \in Seq(Rows), NEW k \in 0..Len(chunks)
  PROVE  /\ SubSeq(chunks, 1, k) \in Seq(Rows) /\ Len(SubSeq(chunks, 1, k)) = k
         /\ DOMAIN SubSeq(chunks, 1, k) = 1..k
         /\ \A i \in 1..k : SubSeq(chunks, 1, k)[i] = chunks[i]
<1>1. Len(chunks) \in Nat /\ \A i \in 1..k : chunks[i] \in Rows
  BY LenProperties
<1>2. 1 \in Int /\ k \in Int /\ k >= 0
  BY <1>1
<1>3. /\ SubSeq(chunks, 1, k) \in Seq(Rows)
      /\ Len(SubSeq(chunks, 1, k)) = IF 1 <= k THEN k - 1 + 1 ELSE 0
      /\ \A i \in 1..(k - 1 + 1) : SubSeq(chunks, 1, k)[i] = chunks[1 + i - 1]
  BY <1>1, <1>2, SubSeqProperties
<1>4. Len(SubSeq(chunks, 1, k)) = k
  BY <1>2, <1>3
<1>5. DOMAIN SubSeq(chunks, 1, k) = 1..k
  BY <1>3, <1>4, LenProperties
<1>6. \A i \in 1..k : SubSeq(chunks, 1, k)[i] = chunks[i]
  BY <1>2, <1>3
<1> QED
  BY <1>3, <1>4, <1>5, <1>6

\* They do not change when the sequence gets longer.
LEMMA PrefixOfAppend ==
  ASSUME NEW chunks \in Seq(Rows), NEW c \in Rows, NEW k \in 0..Len(chunks)
  PROVE  SubSeq(Append(chunks, c), 1, k) = SubSeq(chunks, 1, k)
<1> DEFINE s == Append(chunks, c)
<1>1. /\ s \in Seq(Rows) /\ Len(s) = Len(chunks) + 1
      /\ \A i \in 1..Len(chunks) : s[i] = chunks[i]
  BY AppendProperties
<1>2. Len(chunks) \in Nat
  BY LenProperties
<1> HIDE DEF s
<1>3. k \in 0..Len(s)
  BY <1>1, <1>2
<1>4. /\ SubSeq(s, 1, k) \in Seq(Rows) /\ Len(SubSeq(s, 1, k)) = k
      /\ \A i \in 1..k : SubSeq(s, 1, k)[i] = s[i]
  BY <1>1, <1>3, Prefix
<1>5. /\ SubSeq(chunks, 1, k) \in Seq(Rows) /\ Len(SubSeq(chunks, 1, k)) = k
      /\ \A i \in 1..k : SubSeq(chunks, 1, k)[i] = chunks[i]
  BY Prefix
<1>6. \A i \in 1..k : SubSeq(s, 1, k)[i] = SubSeq(chunks, 1, k)[i]
  BY <1>1, <1>2, <1>4, <1>5
<1>7. SubSeq(s, 1, k) = SubSeq(chunks, 1, k)
  BY <1>4, <1>5, <1>6, SeqEqual
<1> QED
  BY <1>7 DEF s

\* Nothing in it would be dropped because of what precedes it.
Accepted(chunks, cap) ==
  \A i \in DOMAIN chunks : ~IsDropped(SubSeq(chunks, 1, i - 1), chunks[i], cap)

\* What is kept of the first n chunks and from where, and what was dropped when.
Kept(chunks, n, cap, kept, at) ==
  /\ kept \in Seq(Rows) /\ at \in [DOMAIN kept -> 1..n]
  /\ \A i \in DOMAIN kept : kept[i] = chunks[at[i]]
  /\ \A i, j \in DOMAIN kept : i < j => at[i] < at[j]
  /\ Accepted(kept, cap)
  /\ \A m \in 1..n :
       \/ \E i \in DOMAIN kept : at[i] = m
       \/ \E k \in 0..Len(kept) :
            (\A i \in 1..k : at[i] < m) /\ IsDropped(SubSeq(kept, 1, k), chunks[m], cap)

\* The next chunk is dropped.
LEMMA KeptWithout ==
  ASSUME NEW chunks, NEW n \in Nat, NEW cap, NEW kept, NEW at, Kept(chunks, n, cap, kept, at),
         IsDropped(kept, chunks[n + 1], cap)
  PROVE  Kept(chunks, n + 1, cap, kept, at)
<1>1. kept \in Seq(Rows) /\ Len(kept) \in Nat /\ DOMAIN kept = 1..Len(kept)
  BY LenProperties DEF Kept
<1>2. SubSeq(kept, 1, Len(kept)) = kept
  BY <1>1, SubSeqFull
<1>3. \A i \in DOMAIN kept : at[i] \in 1..n
  BY DEF Kept
<1>4. \A i \in 1..Len(kept) : at[i] < n + 1
  BY <1>1, <1>3
<1>5. \E k \in 0..Len(kept) :
        (\A i \in 1..k : at[i] < n + 1) /\ IsDropped(SubSeq(kept, 1, k), chunks[n + 1], cap)
  <2>1. Len(kept) \in 0..Len(kept)
    BY <1>1
  <2> QED
    BY <1>2, <1>4, <2>1
<1>6. at \in [DOMAIN kept -> 1..(n + 1)]
  BY <1>3 DEF Kept
<1>7. ASSUME NEW m \in 1..(n + 1)
      PROVE  \/ \E i \in DOMAIN kept : at[i] = m
             \/ \E k \in 0..Len(kept) :
                  (\A i \in 1..k : at[i] < m) /\ IsDropped(SubSeq(kept, 1, k), chunks[m], cap)
  <2>1. CASE m = n + 1
    BY <1>5, <2>1
  <2>2. CASE m \in 1..n
    BY <2>2 DEF Kept
  <2> QED
    BY <2>1, <2>2
<1> QED
  BY <1>6, <1>7 DEF Kept

\* The next chunk is kept.
LEMMA KeptWith ==
  ASSUME NEW chunks, NEW n \in Nat, NEW cap, NEW kept, NEW at, Kept(chunks, n, cap, kept, at),
         ~IsDropped(kept, chunks[n + 1], cap), chunks[n + 1] \in Rows
  PROVE  \E to : Kept(chunks, n + 1, cap, Append(kept, chunks[n + 1]), to)
<1> DEFINE c == chunks[n + 1]
           s == Append(kept, c)
           L == Len(kept)
           to == [i \in 1..(L + 1) |-> IF i = L + 1 THEN n + 1 ELSE at[i]]
<1>1. kept \in Seq(Rows) /\ L \in Nat /\ DOMAIN kept = 1..L
  BY LenProperties DEF Kept
<1>2. /\ s \in Seq(Rows) /\ Len(s) = L + 1
      /\ \A i \in 1..L : s[i] = kept[i]
      /\ s[L + 1] = c
  BY <1>1, AppendProperties
<1>3. DOMAIN s = 1..(L + 1)
  BY <1>1, <1>2, LenProperties
<1>4. \A k \in 0..L : SubSeq(s, 1, k) = SubSeq(kept, 1, k)
  BY <1>1, PrefixOfAppend
<1>5. SubSeq(kept, 1, L) = kept
  BY <1>1, SubSeqFull
<1>6. \A i \in 1..L : at[i] \in 1..n
  BY <1>1 DEF Kept
<1>7. /\ to[L + 1] = n + 1 /\ \A i \in 1..L : to[i] = at[i]
      /\ to \in [1..(L + 1) -> 1..(n + 1)]
  BY <1>1, <1>6
<1> HIDE DEF s, L, to
<1>8. \A i \in 1..(L + 1) : s[i] = chunks[to[i]]
  <2> SUFFICES ASSUME NEW i \in 1..(L + 1) PROVE s[i] = chunks[to[i]]
    OBVIOUS
  <2>1. CASE i = L + 1
    BY <1>2, <1>7, <2>1
  <2>2. CASE i \in 1..L
    BY <1>1, <1>2, <1>7, <2>2 DEF Kept
  <2> QED
    BY <1>1, <2>1, <2>2
<1>9. \A i, j \in 1..(L + 1) : i < j => to[i] < to[j]
  <2> SUFFICES ASSUME NEW i \in 1..(L + 1), NEW j \in 1..(L + 1), i < j PROVE to[i] < to[j]
    OBVIOUS
  <2>0. i \in 1..L
    BY <1>1
  <2>1. CASE j = L + 1
    BY <1>6, <1>7, <2>0, <2>1
  <2>2. CASE j \in 1..L
    <3>1. at[i] < at[j]
      BY <1>1, <2>0, <2>2 DEF Kept
    <3> QED
      BY <1>7, <2>0, <2>2, <3>1
  <2> QED
    BY <1>1, <2>1, <2>2
<1>10. Accepted(s, cap)
  <2> SUFFICES ASSUME NEW i \in 1..(L + 1) PROVE ~IsDropped(SubSeq(s, 1, i - 1), s[i], cap)
    BY <1>3 DEF Accepted
  <2>0. i - 1 \in 0..L
    BY <1>1
  <2>1. CASE i = L + 1
    <3>1. i - 1 = L
      BY <1>1, <2>1
    <3> QED
      BY <1>2, <1>4, <1>5, <2>0, <2>1, <3>1
  <2>2. CASE i \in 1..L
    <3>1. ~IsDropped(SubSeq(kept, 1, i - 1), kept[i], cap)
      BY <1>1, <2>2 DEF Kept, Accepted
    <3> QED
      BY <1>2, <1>4, <2>0, <2>2, <3>1
  <2> QED
    BY <1>1, <2>1, <2>2
<1>11. ASSUME NEW m \in 1..(n + 1)
       PROVE  \/ \E i \in 1..(L + 1) : to[i] = m
              \/ \E k \in 0..(L + 1) :
                   (\A i \in 1..k : to[i] < m) /\ IsDropped(SubSeq(s, 1, k), chunks[m], cap)
  <2>1. CASE m = n + 1
    <3>1. L + 1 \in 1..(L + 1)
      BY <1>1
    <3> QED
      BY <1>7, <2>1, <3>1
  <2>2. CASE m \in 1..n
    <3>1. CASE \E i \in 1..L : at[i] = m
      <4>1. PICK i \in 1..L : at[i] = m
        BY <3>1
      <4>2. i \in 1..(L + 1)
        BY <1>1
      <4> QED
        BY <1>7, <4>1, <4>2
    <3>2. CASE \E k \in 0..L :
                 (\A i \in 1..k : at[i] < m) /\ IsDropped(SubSeq(kept, 1, k), chunks[m], cap)
      <4>1. PICK k \in 0..L :
              (\A i \in 1..k : at[i] < m) /\ IsDropped(SubSeq(kept, 1, k), chunks[m], cap)
        BY <3>2
      <4>2. k \in 0..(L + 1) /\ \A i \in 1..k : i \in 1..L
        BY <1>1
      <4> QED
        BY <1>4, <1>7, <4>1, <4>2
    <3> QED
      BY <1>1, <2>2, <3>1, <3>2 DEF Kept, L
  <2> QED
    BY <2>1, <2>2
<1>12. Kept(chunks, n + 1, cap, s, to)
  BY <1>2, <1>3, <1>7, <1>8, <1>9, <1>10, <1>11 DEF Kept
<1> QED
  BY <1>12 DEF s

\* deduplicate keeps chunks in their order, and what it drops it drops for what it kept.
LEMMA DeduplicateKeeps ==
  ASSUME NEW chunks \in Seq(Rows), NEW cap
  PROVE  \E at : Kept(chunks, Len(chunks), cap, Deduplicate(chunks, cap), at)
<1> DEFINE N == Len(chunks)
           After(before, candidate) ==
             IF IsDropped(before, candidate, cap) THEN before ELSE Append(before, candidate)
           F == [n \in 1..N |-> [before \in Seq(Rows) |-> After(before, chunks[n])]]
           Steps(f) == [n \in 0..N |-> IF n = 0 THEN <<>> ELSE After(f[n - 1], chunks[n])]
           kept == CHOOSE f : f = Steps(f)
           Good == {n \in 0..N : \E at : Kept(chunks, n, cap, kept[n], at)}
<1>0. N \in Nat /\ \A n \in 1..N : chunks[n] \in Rows
  BY LenProperties
<1>1. Deduplicate(chunks, cap) = kept[N]
  BY DEF Deduplicate
<1>2. F \in [1..N -> [Seq(Rows) -> Seq(Rows)]]
  <2>1. ASSUME NEW before \in Seq(Rows), NEW n \in 1..N
        PROVE  After(before, chunks[n]) \in Seq(Rows)
    <3>1. Append(before, chunks[n]) \in Seq(Rows)
      BY <1>0, AppendProperties
    <3> QED
      BY <3>1
  <2> HIDE DEF After, N
  <2> QED
    BY <2>1
<1>3. PICK g \in [0..N -> Seq(Rows)] : Loop(N, <<>>, F, g)
  <2>1. N \in Nat /\ <<>> \in Seq(Rows)
    BY <1>0
  <2> HIDE DEF F, N
  <2> QED
    BY <2>1, <1>2, LoopIsDefined
<1> HIDE DEF N
<1>4. g = Steps(g)
  <2> HIDE DEF After
  <2>1. \A n \in 1..N : g[n] = After(g[n - 1], chunks[n])
    <3> SUFFICES ASSUME NEW n \in 1..N PROVE g[n] = After(g[n - 1], chunks[n])
      OBVIOUS
    <3>1. g[n - 1] \in Seq(Rows)
      BY <1>0
    <3>2. g[n] = F[n][g[n - 1]]
      BY <1>3 DEF Loop
    <3> QED
      BY <3>1, <3>2
  <2>2. g[0] = <<>>
    BY <1>3 DEF Loop
  <2>3. \A n \in 0..N : g[n] = IF n = 0 THEN <<>> ELSE After(g[n - 1], chunks[n])
    BY <1>0, <2>1, <2>2
  <2> QED
    BY <2>3
<1>5. kept = Steps(kept)
  <2> HIDE DEF Steps
  <2> QED
    BY <1>4, Zenon
<1>6. kept[0] = <<>> /\ \A n \in 1..N : kept[n] = After(kept[n - 1], chunks[n])
  <2> HIDE DEF kept, After
  <2> QED
    BY <1>0, <1>5
<1> HIDE DEF kept
<1>7. 0 \in Good
  <2>1. <<>> \in Seq(Rows) /\ Len(<<>>) = 0 /\ DOMAIN <<>> = {}
    BY EmptySeq
  <2>2. 1..0 = {} /\ <<>> \in [{} -> {}]
    BY <2>1
  <2>3. Kept(chunks, 0, cap, <<>>, <<>>)
    BY <2>1, <2>2 DEF Kept, Accepted
  <2> QED
    BY <1>0, <1>6, <2>3
<1>8. ASSUME NEW n \in 1..N, n - 1 \in Good PROVE n \in Good
  <2> DEFINE m == n - 1
             before == kept[m]
  <2>0. m \in Nat /\ m + 1 = n
    BY <1>0
  <2>1. PICK at : Kept(chunks, m, cap, before, at)
    BY <1>8
  <2>2. kept[n] = After(before, chunks[n])
    BY <1>6
  <2> HIDE DEF before, m
  <2>3. CASE IsDropped(before, chunks[n], cap)
    <3>1. Kept(chunks, m + 1, cap, before, at)
      BY <2>0, <2>1, <2>3, KeptWithout
    <3>2. kept[n] = before
      BY <2>2, <2>3
    <3>3. \E to : Kept(chunks, n, cap, kept[n], to)
      <4> HIDE DEF After
      <4> QED
        BY <2>0, <3>1, <3>2
    <3> QED
      BY <1>0, <3>3
  <2>4. CASE ~IsDropped(before, chunks[n], cap)
    <3>1. \E to : Kept(chunks, m + 1, cap, Append(before, chunks[m + 1]), to)
      BY <1>0, <2>0, <2>1, <2>4, KeptWith
    <3>2. kept[n] = Append(before, chunks[m + 1])
      BY <2>0, <2>2, <2>4
    <3>3. \E to : Kept(chunks, n, cap, kept[n], to)
      <4> HIDE DEF After
      <4> QED
        BY <2>0, <3>1, <3>2
    <3> QED
      BY <1>0, <3>3
  <2> QED
    BY <2>3, <2>4
<1>9. N \in Good
  <2>1. Inductive(N, Good)
    <3> HIDE DEF Good
    <3> QED
      BY <1>7, <1>8 DEF Inductive
  <2> HIDE DEF Good
  <2> QED
    BY <1>0, <2>1, EveryTurn
<1> QED
  BY <1>1, <1>9 DEF N

\* The beginning of what was accepted was accepted.
LEMMA AcceptedPrefix ==
  ASSUME NEW chunks \in Seq(Rows), NEW cap, Accepted(chunks, cap), NEW k \in 0..Len(chunks)
  PROVE  Accepted(SubSeq(chunks, 1, k), cap)
<1> DEFINE s == SubSeq(chunks, 1, k)
<1>1. /\ s \in Seq(Rows) /\ Len(s) = k /\ DOMAIN s = 1..k
      /\ \A i \in 1..k : s[i] = chunks[i]
  BY Prefix
<1>2. Len(chunks) \in Nat /\ DOMAIN chunks = 1..Len(chunks)
  BY LenProperties
<1> HIDE DEF s
<1>3. ASSUME NEW i \in 1..k PROVE SubSeq(s, 1, i - 1) = SubSeq(chunks, 1, i - 1)
  <2>1. i - 1 \in 0..k /\ i - 1 \in 0..Len(chunks)
    BY <1>2
  <2>2. /\ SubSeq(s, 1, i - 1) \in Seq(Rows) /\ Len(SubSeq(s, 1, i - 1)) = i - 1
        /\ \A j \in 1..(i - 1) : SubSeq(s, 1, i - 1)[j] = s[j]
    BY <1>1, <2>1, Prefix
  <2>3. /\ SubSeq(chunks, 1, i - 1) \in Seq(Rows) /\ Len(SubSeq(chunks, 1, i - 1)) = i - 1
        /\ \A j \in 1..(i - 1) : SubSeq(chunks, 1, i - 1)[j] = chunks[j]
    BY <2>1, Prefix
  <2>4. \A j \in 1..(i - 1) : j \in 1..k
    BY <2>1
  <2> QED
    BY <1>1, <2>2, <2>3, <2>4, SeqEqual
<1>4. ASSUME NEW i \in 1..k PROVE ~IsDropped(SubSeq(s, 1, i - 1), s[i], cap)
  <2>1. i \in DOMAIN chunks
    BY <1>2
  <2> QED
    BY <1>1, <1>3, <2>1 DEF Accepted
<1> QED
  BY <1>1, <1>4 DEF Accepted, s

\* Saying the same is mutual.
LEMMA SameIsMutual ==
  ASSUME NEW a \in Rows, NEW b \in Rows, SaysTheSame(a, b)
  PROVE  SaysTheSame(b, a)
<1>1. Adjacent(a, b) <=> Adjacent(b, a)
  <2>1. a.index \in Int /\ b.index \in Int
    BY RowsHaveNumbers
  <2> QED
    BY <2>1 DEF Adjacent
<1>2. /\ a.tokens \cap b.tokens = b.tokens \cap a.tokens
      /\ a.tokens \cup b.tokens = b.tokens \cup a.tokens
  OBVIOUS
<1> QED
  BY <1>1, <1>2, Zenon DEF SaysTheSame, Overlaps

\* Of what was accepted no two have one id or say the same.
LEMMA AcceptedAreDistinct ==
  ASSUME NEW chunks \in Seq(Rows), NEW cap, Accepted(chunks, cap),
         NEW i \in DOMAIN chunks, NEW j \in DOMAIN chunks, i # j
  PROVE  chunks[i].id # chunks[j].id /\ ~SaysTheSame(chunks[i], chunks[j])
<1>0. Len(chunks) \in Nat /\ DOMAIN chunks = 1..Len(chunks)
  BY LenProperties
<1>1. ASSUME NEW a \in DOMAIN chunks, NEW b \in DOMAIN chunks, a < b
      PROVE  chunks[b].id # chunks[a].id /\ ~SaysTheSame(chunks[b], chunks[a])
  <2> DEFINE s == SubSeq(chunks, 1, b - 1)
  <2>1. b - 1 \in 0..Len(chunks) /\ a \in 1..(b - 1)
    BY <1>0, <1>1
  <2>2. a \in DOMAIN s /\ s[a] = chunks[a]
    BY <2>1, Prefix
  <2>3. ~IsDropped(s, chunks[b], cap)
    BY DEF Accepted
  <2> HIDE DEF s
  <2> QED
    BY <2>2, <2>3 DEF IsDropped, Ids
<1>2. chunks[i] \in Rows /\ chunks[j] \in Rows
  BY <1>0
<1>3. CASE i < j
  BY <1>1, <1>2, <1>3, SameIsMutual
<1>4. CASE j < i
  BY <1>1, <1>4
<1> QED
  BY <1>0, <1>3, <1>4

\* Places in one source are finitely many numbers.
LEMMA IndicesAreFinite ==
  ASSUME NEW chunks \in Seq(Rows), NEW source
  PROVE  IsFiniteSet(IndicesOf(chunks, source)) /\ IndicesOf(chunks, source) \subseteq Int
<1> DEFINE P == {j \in DOMAIN chunks : chunks[j].source = source}
           f == [i \in P |-> chunks[i].index]
<1>0. Len(chunks) \in Nat /\ DOMAIN chunks = 1..Len(chunks)
  BY LenProperties
<1>1. f \in Surjection(P, IndicesOf(chunks, source))
  BY DEF Surjection, IndicesOf
<1>2. IsFiniteSet(P)
  <2>1. 1 \in Int /\ Len(chunks) \in Int
    BY <1>0
  <2>2. IsFiniteSet(1..Len(chunks))
    BY <2>1, FS_Interval
  <2>3. P \in SUBSET (1..Len(chunks))
    BY <1>0
  <2> HIDE DEF P
  <2> QED
    BY <2>2, <2>3, FS_Subset
<1>3. IndicesOf(chunks, source) \subseteq Int
  BY RowsHaveNumbers DEF IndicesOf
<1> HIDE DEF f, P
<1> QED
  BY <1>1, <1>2, <1>3, FS_Surjection

\* A run of n places.
HasRun(indices, n) == \E i \in indices : i..(i + n - 1) \subseteq indices

\* LongestRun is the length of one, and none is longer.
LEMMA LongestRunIsLongest ==
  ASSUME NEW indices \in SUBSET Int, IsFiniteSet(indices), indices # {}
  PROVE  /\ LongestRun(indices) \in 0..Cardinality(indices)
         /\ HasRun(indices, LongestRun(indices))
         /\ \A n \in 0..Cardinality(indices) : HasRun(indices, n) => n <= LongestRun(indices)
<1> DEFINE m == Cardinality(indices)
           S == {n \in 0..m : HasRun(indices, n)}
<1>0. m \in Nat
  BY FS_CardinalityType
<1>1. LongestRun(indices) = Max(S)
  BY DEF LongestRun, HasRun
<1>2. S \in SUBSET (0..m) /\ S # {}
  <2>1. PICK i \in indices : TRUE
    OBVIOUS
  <2>2. i \in Int /\ i..(i + 0 - 1) = {}
    BY <2>1
  <2>3. HasRun(indices, 0)
    BY <2>1, <2>2 DEF HasRun
  <2>4. 0 \in S
    BY <1>0, <2>3
  <2> QED
    BY <2>4
<1>3. Max(S) \in S /\ \A y \in S : Max(S) >= y
  <2> HIDE DEF m, S
  <2> QED
    BY <1>0, <1>2, MaxIsGreatest
<1> QED
  BY <1>0, <1>1, <1>3

\* Of what was accepted no source has a longer run than the cap.
LEMMA AcceptedRunsAreCapped ==
  ASSUME NEW chunks \in Seq(Rows), NEW cap \in Nat \ {0}, Accepted(chunks, cap),
         NEW i \in DOMAIN chunks
  PROVE  LongestRun(IndicesOf(chunks, chunks[i].source)) <= cap
<1> DEFINE source == chunks[i].source
           P == {j \in DOMAIN chunks : chunks[j].source = source}
           last == Max(P)
<1>0. Len(chunks) \in Nat /\ DOMAIN chunks = 1..Len(chunks)
  BY LenProperties
<1>1. last \in P /\ \A j \in P : last >= j
  <2>1. P \in SUBSET (0..Len(chunks)) /\ P # {}
    BY <1>0
  <2> HIDE DEF P
  <2> QED
    BY <1>0, <2>1, MaxIsGreatest
<1>2. last \in 1..Len(chunks) /\ chunks[last].source = source
  BY <1>0, <1>1
<1>3. \A j \in DOMAIN chunks : chunks[j].source = source => last >= j
  BY <1>1
<1> HIDE DEF last, source
<1> DEFINE s == SubSeq(chunks, 1, last - 1)
<1>4. /\ last - 1 \in 0..Len(chunks) /\ s \in Seq(Rows) /\ DOMAIN s = 1..(last - 1)
      /\ \A j \in 1..(last - 1) : s[j] = chunks[j]
  <2>1. last - 1 \in 0..Len(chunks)
    BY <1>0, <1>2
  <2> QED
    BY <2>1, Prefix
<1>5. ~IsDropped(s, chunks[last], cap)
  BY <1>0, <1>2 DEF Accepted
<1> HIDE DEF s
<1>6. IndicesOf(chunks, source) = IndicesOf(s, source) \cup {chunks[last].index}
  <2>1. ASSUME NEW j \in DOMAIN chunks, chunks[j].source = source
        PROVE  chunks[j].index \in IndicesOf(s, source) \cup {chunks[last].index}
    <3>1. j = last \/ j \in 1..(last - 1)
      BY <1>0, <1>2, <1>3, <2>1
    <3>2. CASE j \in 1..(last - 1)
      BY <1>4, <2>1, <3>2 DEF IndicesOf
    <3> QED
      BY <3>1, <3>2
  <2>2. ASSUME NEW j \in DOMAIN s, s[j].source = source
        PROVE  s[j].index \in IndicesOf(chunks, source)
    <3>1. j \in DOMAIN chunks /\ s[j] = chunks[j]
      BY <1>0, <1>2, <1>4
    <3> QED
      BY <2>2, <3>1 DEF IndicesOf
  <2>3. chunks[last].index \in IndicesOf(chunks, source)
    BY <1>0, <1>2 DEF IndicesOf
  <2>4. IndicesOf(chunks, source) \subseteq IndicesOf(s, source) \cup {chunks[last].index}
    BY <2>1 DEF IndicesOf
  <2>5. IndicesOf(s, source) \subseteq IndicesOf(chunks, source)
    BY <2>2 DEF IndicesOf
  <2> QED
    BY <2>3, <2>4, <2>5
<1>7. ~(LongestRun(IndicesOf(chunks, source)) > cap)
  BY <1>2, <1>5, <1>6 DEF IsDropped, ViolatesRunCap
<1>8. LongestRun(IndicesOf(chunks, source)) \in Int
  <2> DEFINE indices == IndicesOf(chunks, source)
  <2>1. IsFiniteSet(indices) /\ indices \in SUBSET Int /\ indices # {}
    BY <1>6, IndicesAreFinite
  <2>2. Cardinality(indices) \in Nat
    BY <2>1, FS_CardinalityType
  <2> HIDE DEF indices
  <2>3. LongestRun(indices) \in 0..Cardinality(indices)
    BY <2>1, LongestRunIsLongest
  <2> QED
    BY <2>2, <2>3 DEF indices
<1>9. LongestRun(IndicesOf(chunks, source)) <= cap
  BY <1>7, <1>8
<1> QED
  BY <1>9 DEF source

-----------------------------------------------------------------------------
(***************************************************************************)
(* What a retrieval returns.                                               *)
(***************************************************************************)
\* No chunk twice.
HasDistinctIds(chunks) ==
  \A i, j \in DOMAIN chunks : i # j => chunks[i].id # chunks[j].id

\* A ranking that may be returned under a configuration.
Sound(chunks, c) ==
  /\ chunks \in Seq(Rows) /\ Len(chunks) <= FinalTopK
  /\ HasDistinctIds(chunks)
  /\ c.dedup => Accepted(chunks, c.cap)

\* The cut takes the beginning of a ranking.
LEMMA CutIsPrefix ==
  ASSUME NEW chunks \in Seq(Rows)
  PROVE  \E k \in 0..Len(chunks) :
           /\ TopK(chunks, FinalTopK) = SubSeq(chunks, 1, k)
           /\ k <= FinalTopK /\ (k = Len(chunks) \/ k = FinalTopK)
<1> DEFINE k == Min({FinalTopK, Len(chunks)})
<1>1. FinalTopK \in Nat \ {0} /\ Len(chunks) \in Nat
  BY RetrievalAssumption, LenProperties DEF RetrievalAssumption
<1>2. k \in {FinalTopK, Len(chunks)} /\ k <= FinalTopK /\ k <= Len(chunks)
  <2>1. {FinalTopK, Len(chunks)} \in SUBSET Nat /\ {FinalTopK, Len(chunks)} # {}
    BY <1>1
  <2> QED
    BY <2>1, MinIsLeast
<1>3. TopK(chunks, FinalTopK) = SubSeq(chunks, 1, k)
  BY <1>1 DEF TopK
<1> HIDE DEF k
<1>4. k \in 0..Len(chunks)
  BY <1>1, <1>2
<1> QED
  BY <1>2, <1>3, <1>4

\* What fusion returns has no chunk twice.
LEMMA FuseHasDistinctIds ==
  ASSUME NEW lists \in Seq(Seq(Rows))
  PROVE  HasDistinctIds(Fuse(lists))
<1> DEFINE s == Fuse(lists)
<1>1. Fused(lists, s)
  BY FuseIsRanked
<1>2. s \in Seq(Rows) /\ Len(s) \in Nat /\ DOMAIN s = 1..Len(s)
  BY <1>1, LenProperties DEF Fused
<1> HIDE DEF s
<1>3. ASSUME NEW i \in DOMAIN s, NEW j \in DOMAIN s, i < j
      PROVE  s[i].id # s[j].id
  <2>1. Above(lists, s[i].id, s[j].id)
    BY <1>1, <1>3 DEF Fused
  <2>2. s[i].id \in Int /\ FusionScore(lists, s[i].id) \in Int
    BY <1>2, RowsHaveNumbers, ScoreIsNumber
  <2> QED
    BY <2>1, <2>2 DEF Above
<1>4. \A i, j \in DOMAIN s : i # j => s[i].id # s[j].id
  BY <1>2, <1>3
<1> QED
  BY <1>4 DEF HasDistinctIds, s

\* Whatever was found, what is left of it in the end may be returned.
LEMMA FinalIsSound ==
  ASSUME NEW lists \in Seq(Seq(Rows)), settings \in Configurations
  PROVE  Sound(Final(lists), settings)
<1> DEFINE all == Distinct(Fuse(lists))
<1>1. Fuse(lists) \in Seq(Rows) /\ HasDistinctIds(Fuse(lists))
  BY FuseIsRanked, FuseHasDistinctIds DEF Fused
<1>2. /\ all \in Seq(Rows) /\ HasDistinctIds(all)
      /\ settings.dedup => Accepted(all, settings.cap)
  <2>1. CASE settings.dedup
    <3>1. all = Deduplicate(Fuse(lists), settings.cap)
      BY <2>1 DEF Distinct
    <3>2. \E at : Kept(Fuse(lists), Len(Fuse(lists)), settings.cap, all, at)
      BY <1>1, <3>1, DeduplicateKeeps
    <3> HIDE DEF all
    <3>3. all \in Seq(Rows) /\ Accepted(all, settings.cap)
      BY <3>2 DEF Kept
    <3> QED
      BY <3>3, AcceptedAreDistinct DEF HasDistinctIds
  <2>2. CASE ~settings.dedup
    BY <1>1, <2>2 DEF Distinct
  <2> QED
    BY <2>1, <2>2
<1>3. Final(lists) = TopK(all, FinalTopK)
  BY DEF Final
<1> HIDE DEF all
<1>4. PICK k \in 0..Len(all) : TopK(all, FinalTopK) = SubSeq(all, 1, k) /\ k <= FinalTopK
  BY <1>2, CutIsPrefix
<1> DEFINE s == SubSeq(all, 1, k)
<1>5. /\ s \in Seq(Rows) /\ Len(s) = k /\ DOMAIN s = 1..k
      /\ \A i \in 1..k : s[i] = all[i]
  BY <1>2, Prefix
<1>6. settings.dedup => Accepted(s, settings.cap)
  BY <1>2, AcceptedPrefix
<1>7. HasDistinctIds(s)
  <2>1. DOMAIN all = 1..Len(all) /\ Len(all) \in Nat
    BY <1>2, LenProperties
  <2>2. \A i \in 1..k : i \in DOMAIN all
    BY <2>1
  <2> HIDE DEF s
  <2> QED
    BY <1>2, <1>5, <2>2 DEF HasDistinctIds
<1> HIDE DEF s
<1> QED
  BY <1>3, <1>4, <1>5, <1>6, <1>7 DEF Sound, s

-----------------------------------------------------------------------------
(***************************************************************************)
(* What one query's searches are fused to.                                 *)
(***************************************************************************)
\* What one search returns: rows with ids of their own, not too many.
Ranking(chunks) ==
  chunks \in Seq(Rows) /\ Len(chunks) <= MaxRank /\ HasDistinctIds(chunks)

\* The rank of the i-th is i.
LEMMA RankIsPosition ==
  ASSUME NEW chunks, Ranking(chunks), NEW i \in DOMAIN chunks
  PROVE  /\ RankIn(chunks, chunks[i].id) = i /\ chunks[i].id \in Ids(chunks)
         /\ i \in 1..MaxRank
<1>1. chunks \in Seq(Rows) /\ chunks[i].id \in Ids(chunks)
  BY DEF Ranking, Ids
<1>2. /\ RankIn(chunks, chunks[i].id) \in DOMAIN chunks
      /\ chunks[RankIn(chunks, chunks[i].id)].id = chunks[i].id
  BY <1>1, RankIsThere
<1>3. DOMAIN chunks = 1..Len(chunks) /\ Len(chunks) \in Nat
  BY <1>1, LenProperties
<1>4. RankIn(chunks, chunks[i].id) = i
  BY <1>2 DEF Ranking, HasDistinctIds
<1> QED
  BY <1>1, <1>3, <1>4 DEF Ranking

\* Where a dominates b, its share is no less, and more if b is found.
LEMMA DominantShare ==
  ASSUME NEW chunks, Ranking(chunks), NEW a, NEW b,
         b \in Ids(chunks) => Before(chunks, a, b)
  PROVE  /\ Share(chunks, a) >= Share(chunks, b)
         /\ b \in Ids(chunks) => Share(chunks, a) > Share(chunks, b)
<1>1. CASE b \in Ids(chunks)
  <2>1. PICK i \in DOMAIN chunks, j \in DOMAIN chunks :
          i < j /\ chunks[i].id = a /\ chunks[j].id = b
    BY <1>1 DEF Before
  <2>2. /\ RankIn(chunks, a) = i /\ a \in Ids(chunks) /\ i \in 1..MaxRank
        /\ RankIn(chunks, b) = j /\ j \in 1..MaxRank
    BY <2>1, RankIsPosition
  <2>3. RrfContribution(i) > RrfContribution(j)
    BY <2>1, <2>2, ContributionsFall
  <2>4. RrfContribution(i) \in Int /\ RrfContribution(j) \in Int
    BY <2>2, ContributionsFall
  <2>5. Share(chunks, a) = RrfContribution(i) /\ Share(chunks, b) = RrfContribution(j)
    BY <1>1, <2>2 DEF Share
  <2> QED
    BY <2>3, <2>4, <2>5
<1>2. CASE b \notin Ids(chunks)
  <2>1. Share(chunks, b) = 0
    BY <1>2 DEF Share
  <2>2. Share(chunks, a) >= 0
    <3>1. CASE a \in Ids(chunks)
      <4>1. PICK i \in DOMAIN chunks : chunks[i].id = a
        BY <3>1 DEF Ids
      <4>2. RankIn(chunks, a) = i /\ i \in 1..MaxRank
        BY <4>1, RankIsPosition
      <4>3. RrfContribution(i) \in Nat
        BY <4>2, ContributionsFall
      <4>4. Share(chunks, a) = RrfContribution(i)
        BY <3>1, <4>2 DEF Share
      <4> QED
        BY <4>3, <4>4
    <3>2. CASE a \notin Ids(chunks)
      BY <3>2 DEF Share
    <3> QED
      BY <3>1, <3>2
  <2> QED
    BY <1>2, <2>1, <2>2
<1> QED
  BY <1>1, <1>2

\* Of two rankings' scores the one that dominates is above.
LEMMA DominantIsAbove ==
  ASSUME NEW first, NEW second, Ranking(first), Ranking(second), NEW a, NEW b,
         b \in Ids(first) => Before(first, a, b),
         b \in Ids(second) => Before(second, a, b),
         b \in Ids(first) \cup Ids(second)
  PROVE  Above(<<first, second>>, a, b)
<1> DEFINE lists == <<first, second>>
<1>1. first \in Seq(Rows) /\ second \in Seq(Rows)
  BY DEF Ranking
<1>2. lists \in Seq(Seq(Rows)) /\ Len(lists) = 2 /\ lists[1] = first /\ lists[2] = second
  BY <1>1
<1> HIDE DEF lists
<1>3. ASSUME NEW id
      PROVE  FusionScore(lists, id) = Share(first, id) + Share(second, id)
  <2>1. PICK sum \in [0..Len(lists) -> Int] :
           /\ FusionScore(lists, id) = sum[Len(lists)] /\ sum[0] = 0
           /\ \A r \in 1..Len(lists) : sum[r] = sum[r - 1] + Share(lists[r], id)
    BY <1>2, ScoreIsSum
  <2>2. 1 \in 1..Len(lists) /\ 2 \in 1..Len(lists) /\ 1 - 1 = 0 /\ 2 - 1 = 1
    BY <1>2
  <2>3. Share(first, id) \in Int /\ Share(second, id) \in Int
    BY <1>1, ShareIsNumber
  <2>4. sum[1] = sum[0] + Share(first, id) /\ sum[2] = sum[1] + Share(second, id)
    BY <1>2, <2>1, <2>2
  <2> QED
    BY <1>2, <2>1, <2>3, <2>4
<1>4. /\ Share(first, a) \in Int /\ Share(first, b) \in Int
      /\ Share(second, a) \in Int /\ Share(second, b) \in Int
  BY <1>1, ShareIsNumber
<1>5. /\ Share(first, a) >= Share(first, b)
      /\ b \in Ids(first) => Share(first, a) > Share(first, b)
  BY DominantShare
<1>6. /\ Share(second, a) >= Share(second, b)
      /\ b \in Ids(second) => Share(second, a) > Share(second, b)
  BY DominantShare
<1>7. Share(first, a) + Share(second, a) > Share(first, b) + Share(second, b)
  BY <1>4, <1>5, <1>6
<1>8. FusionScore(lists, a) > FusionScore(lists, b)
  BY <1>3, <1>7
<1> QED
  BY <1>8 DEF Above, lists

\* Of two that were found the one that is above comes first.
LEMMA AboveComesFirst ==
  ASSUME NEW lists \in Seq(Seq(Rows)),
         NEW i \in DOMAIN Fuse(lists), NEW j \in DOMAIN Fuse(lists),
         Above(lists, Fuse(lists)[i].id, Fuse(lists)[j].id)
  PROVE  i < j
<1> DEFINE s == Fuse(lists)
<1>1. Fused(lists, s)
  BY FuseIsRanked
<1>2. s \in Seq(Rows) /\ Len(s) \in Nat /\ DOMAIN s = 1..Len(s)
  BY <1>1, LenProperties DEF Fused
<1>3. \A m \in DOMAIN s : s[m].id \in Int /\ FusionScore(lists, s[m].id) \in Int
  <2> HIDE DEF s
  <2> QED
    BY <1>2, RowsHaveNumbers, ScoreIsNumber
<1>4. i \in DOMAIN s /\ j \in DOMAIN s /\ Above(lists, s[i].id, s[j].id)
  OBVIOUS
<1> HIDE DEF s
<1>5. CASE i = j
  BY <1>3, <1>4, <1>5 DEF Above
<1>6. CASE j < i
  <2>1. Above(lists, s[j].id, s[i].id)
    BY <1>1, <1>4, <1>6 DEF Fused
  <2> QED
    BY <1>3, <1>4, <2>1 DEF Above
<1> QED
  BY <1>2, <1>4, <1>5, <1>6

\* What was found, with the copy of the first search of what both found.
LEMMA FoundAreFirstCopies ==
  ASSUME NEW first, NEW second, Ranking(first), Ranking(second)
  PROVE  LET lists == <<first, second>>
             found == Range(first) \cup {c \in Range(second) : c.id \notin Ids(first)} IN
         /\ \A id \in AllIds(lists) : FirstCopy(lists, id) \in found
         /\ \A x \in found : x.id \in AllIds(lists) /\ x = FirstCopy(lists, x.id)
<1> DEFINE lists == <<first, second>>
           found == Range(first) \cup {c \in Range(second) : c.id \notin Ids(first)}
           Finders(id) == {i \in DOMAIN lists : id \in Ids(lists[i])}
<1>1. first \in Seq(Rows) /\ second \in Seq(Rows)
  BY DEF Ranking
<1>2. DOMAIN lists = {1, 2} /\ lists[1] = first /\ lists[2] = second
  BY <1>1
<1>3. AllIds(lists) = Ids(first) \cup Ids(second)
  BY <1>2 DEF AllIds
<1> HIDE DEF lists
<1>4. ASSUME NEW id \in AllIds(lists)
      PROVE  FirstCopy(lists, id) =
               IF id \in Ids(first) THEN first[RankIn(first, id)] ELSE second[RankIn(second, id)]
  <2>1. Finders(id) \in SUBSET Nat /\ Finders(id) # {}
    BY <1>2, <1>3
  <2>2. Min(Finders(id)) \in Finders(id) /\ \A i \in Finders(id) : Min(Finders(id)) <= i
    <3> HIDE DEF Finders
    <3> QED
      BY <2>1, MinIsLeast
  <2>3. FirstCopy(lists, id) = lists[Min(Finders(id))][RankIn(lists[Min(Finders(id))], id)]
    BY DEF FirstCopy
  <2>4. CASE id \in Ids(first)
    <3>1. 1 \in Finders(id)
      BY <1>2, <2>4
    <3>2. Min(Finders(id)) \in {1, 2} /\ Min(Finders(id)) <= 1
      BY <1>2, <2>2, <3>1
    <3>3. Min(Finders(id)) = 1
      <4> HIDE DEF Finders
      <4> QED
        BY <3>2
    <3> QED
      BY <1>2, <2>3, <2>4, <3>3
  <2>5. CASE id \notin Ids(first)
    <3>1. Min(Finders(id)) = 2
      BY <1>2, <2>2, <2>5
    <3> QED
      BY <1>2, <2>3, <2>5, <3>1
  <2> QED
    BY <2>4, <2>5
<1>5. ASSUME NEW id \in AllIds(lists) PROVE FirstCopy(lists, id) \in found
  <2>1. CASE id \in Ids(first)
    <3>1. RankIn(first, id) \in DOMAIN first
      BY <1>1, <2>1, RankIsThere
    <3> QED
      BY <1>4, <2>1, <3>1 DEF Range
  <2>2. CASE id \notin Ids(first)
    <3>1. RankIn(second, id) \in DOMAIN second /\ second[RankIn(second, id)].id = id
      BY <1>1, <1>3, <2>2, RankIsThere
    <3> QED
      BY <1>4, <2>2, <3>1 DEF Range
  <2> QED
    BY <2>1, <2>2
<1>6. ASSUME NEW x \in found PROVE x.id \in AllIds(lists) /\ x = FirstCopy(lists, x.id)
  <2>1. CASE x \in Range(first)
    <3>1. PICK i \in DOMAIN first : x = first[i]
      BY <2>1 DEF Range
    <3>2. RankIn(first, x.id) = i /\ x.id \in Ids(first)
      BY <3>1, RankIsPosition
    <3> QED
      BY <1>3, <1>4, <3>1, <3>2
  <2>2. CASE x \in Range(second) /\ x.id \notin Ids(first)
    <3>1. PICK i \in DOMAIN second : x = second[i]
      BY <2>2 DEF Range
    <3>2. RankIn(second, x.id) = i /\ x.id \in Ids(second)
      BY <3>1, RankIsPosition
    <3> QED
      BY <1>3, <1>4, <2>2, <3>1, <3>2
  <2> QED
    BY <2>1, <2>2
<1> QED
  BY <1>5, <1>6 DEF lists

\* Places do not get fewer, nor runs shorter.
LEMMA RunsGrow ==
  ASSUME NEW B \in SUBSET Int, IsFiniteSet(B), NEW A \in SUBSET B, A # {}
  PROVE  LongestRun(A) <= LongestRun(B) /\ LongestRun(A) \in Int /\ LongestRun(B) \in Int
<1>1. IsFiniteSet(A) /\ Cardinality(A) <= Cardinality(B)
  BY FS_Subset
<1>2. Cardinality(A) \in Nat /\ Cardinality(B) \in Nat
  BY <1>1, FS_CardinalityType
<1>3. LongestRun(A) \in 0..Cardinality(A) /\ HasRun(A, LongestRun(A))
  BY <1>1, LongestRunIsLongest
<1>4. HasRun(B, LongestRun(A))
  BY <1>3 DEF HasRun
<1>5. /\ LongestRun(B) \in 0..Cardinality(B)
      /\ \A n \in 0..Cardinality(B) : HasRun(B, n) => n <= LongestRun(B)
  BY LongestRunIsLongest
<1>6. LongestRun(A) \in 0..Cardinality(B)
  BY <1>1, <1>2, <1>3
<1> QED
  BY <1>2, <1>3, <1>4, <1>5, <1>6

\* What fills a run for the beginning of a ranking fills it for the ranking.
LEMMA ViolationsRemain ==
  ASSUME NEW chunks \in Seq(Rows), NEW k \in 0..Len(chunks), NEW x \in Rows, NEW cap \in Nat,
         ViolatesRunCap(SubSeq(chunks, 1, k), x, cap)
  PROVE  ViolatesRunCap(chunks, x, cap)
<1> DEFINE s == SubSeq(chunks, 1, k)
           A == IndicesOf(s, x.source) \cup {x.index}
           B == IndicesOf(chunks, x.source) \cup {x.index}
<1>1. /\ s \in Seq(Rows) /\ DOMAIN s = 1..k
      /\ \A i \in 1..k : s[i] = chunks[i]
  BY Prefix
<1>2. DOMAIN chunks = 1..Len(chunks) /\ Len(chunks) \in Nat
  BY LenProperties
<1>3. \A i \in 1..k : i \in DOMAIN chunks
  BY <1>2
<1>4. cap # 0 /\ LongestRun(A) > cap
  BY DEF ViolatesRunCap
<1> HIDE DEF s
<1>5. A \in SUBSET B /\ A # {}
  BY <1>1, <1>3 DEF IndicesOf
<1>6. IsFiniteSet(B) /\ B \in SUBSET Int
  <2>1. x.index \in Int
    BY RowsHaveNumbers
  <2> QED
    BY <2>1, IndicesAreFinite, FS_AddElement
<1> HIDE DEF A
<1>7. LongestRun(A) <= LongestRun(B) /\ LongestRun(A) \in Int /\ LongestRun(B) \in Int
  <2> HIDE DEF B
  <2> QED
    BY <1>5, <1>6, RunsGrow
<1>8. LongestRun(B) > cap
  <2> HIDE DEF B
  <2> QED
    BY <1>4, <1>7
<1> QED
  BY <1>4, <1>8 DEF ViolatesRunCap

\* What remains of chunks, from where, and why the others do not: they came too late, or
\* were dropped for what remains of those before them.
Remains(all, chunks, at) ==
  /\ chunks \in Seq(Rows) /\ at \in [DOMAIN chunks -> DOMAIN all]
  /\ \A i \in DOMAIN chunks : chunks[i] = all[at[i]]
  /\ \A i, j \in DOMAIN chunks : i < j => at[i] < at[j]
  /\ \A m \in DOMAIN all :
       \/ \E i \in DOMAIN chunks : at[i] = m
       \/ Len(chunks) = FinalTopK /\ \A i \in DOMAIN chunks : at[i] < m
       \/ settings.dedup /\ \E k \in 0..Len(chunks) :
            /\ \A i \in 1..k : at[i] < m
            /\ IsDropped(SubSeq(chunks, 1, k), all[m], settings.cap)

\* Of the chunks that are distinct.
LEMMA DistinctRemain ==
  ASSUME NEW all \in Seq(Rows)
  PROVE  \E at : Remains(all, Distinct(all), at)
<1>0. DOMAIN all = 1..Len(all) /\ Len(all) \in Nat
  BY LenProperties
<1>1. CASE settings.dedup
  <2>1. Distinct(all) = Deduplicate(all, settings.cap)
    BY <1>1 DEF Distinct
  <2>2. PICK at : Kept(all, Len(all), settings.cap, Distinct(all), at)
    BY <2>1, DeduplicateKeeps
  <2>3. Remains(all, Distinct(all), at)
    BY <1>0, <1>1, <2>2 DEF Kept, Remains
  <2> QED
    BY <2>3
<1>2. CASE ~settings.dedup
  <2> DEFINE at == [i \in DOMAIN all |-> i]
  <2>1. Distinct(all) = all
    BY <1>2 DEF Distinct
  <2>2. at \in [DOMAIN all -> DOMAIN all] /\ \A i \in DOMAIN all : at[i] = i
    OBVIOUS
  <2> HIDE DEF at
  <2>3. Remains(all, all, at)
    BY <2>2 DEF Remains
  <2> QED
    BY <2>1, <2>3
<1> QED
  BY <1>1, <1>2

\* And of those the cut leaves.
LEMMA CutRemains ==
  ASSUME NEW all \in Seq(Rows), NEW chunks, NEW at, Remains(all, chunks, at)
  PROVE  \E to : Remains(all, TopK(chunks, FinalTopK), to)
<1>1. chunks \in Seq(Rows)
  BY DEF Remains
<1>2. DOMAIN chunks = 1..Len(chunks) /\ Len(chunks) \in Nat
  BY <1>1, LenProperties
<1>3. PICK k \in 0..Len(chunks) :
        /\ TopK(chunks, FinalTopK) = SubSeq(chunks, 1, k)
        /\ k = Len(chunks) \/ k = FinalTopK
  BY <1>1, CutIsPrefix
<1>4. CASE k = Len(chunks)
  <2>1. TopK(chunks, FinalTopK) = chunks
    BY <1>1, <1>3, <1>4, SubSeqFull
  <2> QED
    BY <2>1
<1>5. CASE k = FinalTopK
  <2> DEFINE s == SubSeq(chunks, 1, k)
             to == [i \in 1..k |-> at[i]]
  <2>1. /\ s \in Seq(Rows) /\ Len(s) = k /\ DOMAIN s = 1..k
        /\ \A i \in 1..k : s[i] = chunks[i]
    BY <1>1, Prefix
  <2>2. \A i \in 1..k : i \in DOMAIN chunks
    BY <1>2
  <2>3. \A i \in DOMAIN chunks : at[i] \in DOMAIN all
    BY DEF Remains
  <2>4. to \in [1..k -> DOMAIN all] /\ \A i \in 1..k : to[i] = at[i]
    BY <2>2, <2>3
  <2>5. \A j \in 0..k : SubSeq(s, 1, j) = SubSeq(chunks, 1, j)
    <3> SUFFICES ASSUME NEW j \in 0..k PROVE SubSeq(s, 1, j) = SubSeq(chunks, 1, j)
      OBVIOUS
    <3>1. j \in 0..Len(chunks) /\ j \in 0..Len(s) /\ \A i \in 1..j : i \in 1..k
      BY <1>2, <2>1
    <3> HIDE DEF s
    <3>2. /\ SubSeq(s, 1, j) \in Seq(Rows) /\ Len(SubSeq(s, 1, j)) = j
          /\ \A i \in 1..j : SubSeq(s, 1, j)[i] = s[i]
      BY <2>1, <3>1, Prefix
    <3>3. /\ SubSeq(chunks, 1, j) \in Seq(Rows) /\ Len(SubSeq(chunks, 1, j)) = j
          /\ \A i \in 1..j : SubSeq(chunks, 1, j)[i] = chunks[i]
      BY <1>1, <3>1, Prefix
    <3> QED
      BY <2>1, <3>1, <3>2, <3>3, SeqEqual
  <2> HIDE DEF s, to
  <2>6. ASSUME NEW m \in DOMAIN all
        PROVE  \/ \E i \in 1..k : to[i] = m
               \/ \A i \in 1..k : to[i] < m
               \/ settings.dedup /\ \E j \in 0..k :
                    /\ \A i \in 1..j : to[i] < m
                    /\ IsDropped(SubSeq(s, 1, j), all[m], settings.cap)
    <3>1. CASE \E i \in DOMAIN chunks : at[i] = m
      <4>1. PICK i \in DOMAIN chunks : at[i] = m
        BY <3>1
      <4>2. CASE i \in 1..k
        BY <2>4, <4>1, <4>2
      <4>3. CASE i > k
        <5>1. \A j \in 1..k : j < i
          BY <1>2, <4>3
        <5>2. \A j \in 1..k : at[j] < at[i]
          BY <2>2, <5>1 DEF Remains
        <5> QED
          BY <2>4, <4>1, <5>2
      <4> QED
        BY <1>2, <4>2, <4>3
    <3>2. CASE \A i \in DOMAIN chunks : at[i] < m
      BY <2>2, <2>4, <3>2
    <3>3. CASE settings.dedup /\ \E j \in 0..Len(chunks) :
                 /\ \A i \in 1..j : at[i] < m
                 /\ IsDropped(SubSeq(chunks, 1, j), all[m], settings.cap)
      <4>1. PICK j \in 0..Len(chunks) :
              /\ \A i \in 1..j : at[i] < m
              /\ IsDropped(SubSeq(chunks, 1, j), all[m], settings.cap)
        BY <3>3
      <4>2. CASE j <= k
        <5>1. j \in 0..k /\ \A i \in 1..j : i \in 1..k
          BY <1>2, <4>2
        <5>2. SubSeq(s, 1, j) = SubSeq(chunks, 1, j)
          BY <2>5, <5>1
        <5>3. \A i \in 1..j : to[i] < m
          BY <2>4, <4>1, <5>1
        <5> QED
          BY <3>3, <4>1, <5>1, <5>2, <5>3
      <4>3. CASE j > k
        <5>1. \A i \in 1..k : i \in 1..j
          BY <1>2, <4>3
        <5> QED
          BY <2>4, <4>1, <5>1
      <4> QED
        BY <1>2, <4>2, <4>3
    <3> QED
      BY <3>1, <3>2, <3>3 DEF Remains
  <2>7. \A i, j \in 1..k : i < j => to[i] < to[j]
    BY <2>2, <2>4 DEF Remains
  <2>8. \A i \in 1..k : s[i] = all[to[i]]
    BY <2>1, <2>2, <2>4 DEF Remains
  <2>9. Remains(all, s, to)
    BY <1>5, <2>1, <2>4, <2>6, <2>7, <2>8 DEF Remains
  <2> QED
    BY <1>3, <2>9 DEF s
<1> QED
  BY <1>3, <1>4, <1>5

\* What does not remain is explained.
LEMMA AbsenceIsExplained ==
  ASSUME NEW all \in Seq(Rows), HasDistinctIds(all), settings.cap \in Nat,
         NEW chunks, NEW at, Remains(all, chunks, at), NEW m \in DOMAIN all,
         ~\E i \in DOMAIN chunks : at[i] = m
  PROVE  \/ Len(chunks) = FinalTopK /\ \A i \in DOMAIN chunks : at[i] < m
         \/ settings.dedup /\ ViolatesRunCap(chunks, all[m], settings.cap)
         \/ settings.dedup /\ \E i \in DOMAIN chunks : at[i] < m /\ SaysTheSame(all[m], chunks[i])
<1> SUFFICES ASSUME settings.dedup,
                    NEW k \in 0..Len(chunks), \A i \in 1..k : at[i] < m,
                    IsDropped(SubSeq(chunks, 1, k), all[m], settings.cap)
             PROVE  \/ ViolatesRunCap(chunks, all[m], settings.cap)
                    \/ \E i \in DOMAIN chunks : at[i] < m /\ SaysTheSame(all[m], chunks[i])
  BY DEF Remains
<1>1. /\ chunks \in Seq(Rows) /\ DOMAIN chunks = 1..Len(chunks) /\ Len(chunks) \in Nat
      /\ DOMAIN all = 1..Len(all) /\ Len(all) \in Nat /\ all[m] \in Rows
  BY LenProperties, ElementOfSeq DEF Remains
<1> DEFINE s == SubSeq(chunks, 1, k)
<1>2. DOMAIN s = 1..k /\ \A i \in 1..k : s[i] = chunks[i]
  BY <1>1, Prefix
<1>3. \A i \in 1..k : i \in DOMAIN chunks
  BY <1>1
<1>4. CASE ViolatesRunCap(s, all[m], settings.cap)
  BY <1>1, <1>4, ViolationsRemain
<1> HIDE DEF s
<1>5. CASE \E i \in DOMAIN s : SaysTheSame(all[m], s[i])
  BY <1>2, <1>3, <1>5
<1>6. all[m].id \notin Ids(s)
  <2>1. ASSUME NEW i \in 1..k, s[i].id = all[m].id PROVE FALSE
    <3>1. s[i] = all[at[i]] /\ at[i] \in DOMAIN all /\ at[i] < m
      BY <1>2, <1>3 DEF Remains
    <3>2. at[i] # m
      BY <1>1, <3>1
    <3> QED
      BY <2>1, <3>1, <3>2 DEF HasDistinctIds
  <2> QED
    BY <1>2, <2>1 DEF Ids
<1> QED
  BY <1>4, <1>5, <1>6 DEF IsDropped, s

\* What has been searched is of the tables, and what has been returned is sound.
RetrievalInv ==
  /\ settings \in Configurations /\ table \in DOMAIN Tables
  /\ {bm25, dense} \subseteq {None, {}} \cup Range(Tables)
  /\ refresh.chunks \in {{}} \cup Range(Tables)
  /\ Ranking(hits) /\ Ranking(sparse.hits)
  /\ rankings \in Seq(Seq(Rows)) /\ \A i \in DOMAIN rankings : Sound(rankings[i], settings)
  /\ results # None => Sound(results, settings)

\* What a search ranks is a sequence of the rows it reads, each at most once.
LEMMA SearchesRank ==
  ASSUME NEW chunks \in {{}} \cup Range(Tables)
  PROVE  \A ranking \in Nearest(chunks) \cup Matching(chunks) : Ranking(ranking)
<1>1. /\ chunks \subseteq Rows /\ IsFiniteSet(chunks)
      /\ \A c, d \in chunks : c.id = d.id => c = d
  <2>1. CASE chunks = {}
    BY <2>1, FS_EmptySet
  <2>2. CASE chunks \in Range(Tables)
    BY <2>2, RetrievalAssumption DEF RetrievalAssumption, Rows, Range
  <2> QED
    BY <2>1, <2>2
<1>2. Cardinality(chunks) \in Nat
  BY <1>1, FS_CardinalityType
<1>3. /\ DenseTopK \in Nat /\ SparseTopK \in Nat
      /\ DenseTopK <= MaxRank /\ SparseTopK <= MaxRank
  BY RetrievalAssumption DEF RetrievalAssumption
<1>4. ASSUME NEW lengths \in SUBSET (0..MaxRank), NEW ranking \in Ranked(chunks, lengths)
      PROVE  Ranking(ranking)
  <2>1. PICK n \in lengths : ranking \in [1..n -> chunks]
    BY DEF Ranked
  <2>2. ranking \in [1..n -> Rows] /\ n \in Nat /\ n <= MaxRank
    BY <1>1, <2>1
  <2>3. ranking \in Seq(Rows) /\ Len(ranking) = n
    BY <2>2
  <2>4. \A i, j \in DOMAIN ranking : ranking[i] = ranking[j] => i = j
    BY DEF Ranked, IsInjective
  <2>5. \A i \in DOMAIN ranking : ranking[i] \in chunks
    BY <2>1
  <2> QED
    BY <1>1, <2>2, <2>3, <2>4, <2>5 DEF Ranking, HasDistinctIds
<1>5. ASSUME NEW limit \in Nat, limit <= MaxRank
      PROVE  Min({limit, Cardinality(chunks)}) \in 0..MaxRank
  <2>1. {limit, Cardinality(chunks)} \in SUBSET Nat /\ {limit, Cardinality(chunks)} # {}
    BY <1>2
  <2> QED
    BY <1>5, <2>1, MinIsLeast
<1>6. {0, Min({DenseTopK, Cardinality(chunks)})} \in SUBSET (0..MaxRank)
  BY <1>3, <1>5
<1>7. 0..Min({SparseTopK, Cardinality(chunks)}) \in SUBSET (0..MaxRank)
  <2>1. Min({SparseTopK, Cardinality(chunks)}) \in 0..MaxRank
    BY <1>3, <1>5
  <2> QED
    BY <2>1
<1> QED
  BY <1>4, <1>6, <1>7 DEF Nearest, Matching

\* No search, no ranks.
LEMMA NothingIsRanking == Ranking(<<>>)
<1>1. <<>> \in Seq(Rows) /\ Len(<<>>) = 0 /\ DOMAIN <<>> = {}
  BY EmptySeq
<1> QED
  BY <1>1 DEF Ranking, HasDistinctIds

\* Nothing was searched and nothing returned.
LEMMA InitRetrievalInv == Init => RetrievalInv
<1> SUFFICES ASSUME Init PROVE RetrievalInv
  OBVIOUS
<1>1. 1 \in DOMAIN Tables
  <2>1. Tables \in Seq(Range(Tables)) /\ Tables # <<>>
    BY RetrievalAssumption DEF RetrievalAssumption
  <2>2. Len(Tables) \in Nat \ {0} /\ DOMAIN Tables = 1..Len(Tables)
    BY <2>1, EmptySeq, LenProperties
  <2> QED
    BY <2>2
<1>2. Tables[1] \in Range(Tables)
  BY <1>1 DEF Range
<1>3. \A S : <<>> \in Seq(S) /\ DOMAIN <<>> = {}
  BY EmptySeq
<1>4. Ranking(<<>>) /\ <<>> \in Seq(Seq(Rows)) /\ DOMAIN <<>> = {}
  BY <1>3, NothingIsRanking
<1> QED
  BY <1>1, <1>2, <1>4 DEF Init, RetrievalInv, NoSearch

\* Every search, every fusion and every rebuild in between keeps to that.
LEMMA RetrievalStep == ASSUME RetrievalInv, [Next]_vars PROVE RetrievalInv'
<1> USE DEF RetrievalInv
<1>0. /\ Tables[table] \in Range(Tables)
      /\ Ranking(<<>>)
  BY NothingIsRanking DEF Range
<1>1. CASE Ingest
  <2>1. table' \in DOMAIN Tables
    <3>1. Tables \in Seq(Range(Tables))
      BY RetrievalAssumption DEF RetrievalAssumption
    <3>2. DOMAIN Tables = 1..Len(Tables) /\ Len(Tables) \in Nat
      BY <3>1, LenProperties
    <3> QED
      BY <1>1, <3>2 DEF Ingest
  <2> QED
    BY <1>1, <2>1 DEF Ingest, retrieval
<1>2. CASE Fetch \/ InstallBM25 \/ InstallDense
  <2>1. CASE Fetch
    BY <1>0, <2>1 DEF Fetch, retrieval
  <2>2. CASE InstallBM25
    BY <2>2 DEF InstallBM25, retrieval
  <2>3. CASE InstallDense
    BY <2>3 DEF InstallDense, retrieval
  <2> QED
    BY <1>2, <2>1, <2>2, <2>3
<1>3. CASE Submit \/ SparseSearchFails \/ Embed \/ DenseSearchFails
  <2>1. UNCHANGED indexes /\ UNCHANGED <<hits, rankings, results>>
    BY <1>3 DEF Submit, SparseSearchFails, Embed, DenseSearchFails, retrieval
  <2>2. sparse'.hits = <<>> \/ sparse' = sparse
    BY <1>3 DEF Submit, SparseSearchFails, Embed, DenseSearchFails
  <2> QED
    BY <1>0, <2>1, <2>2 DEF indexes
<1>4. CASE SparseSearch
  <2> DEFINE index == IF bm25 = None THEN Tables[table] ELSE bm25
  <2>1. index \in {{}} \cup Range(Tables)
    BY <1>0
  <2>2. PICK found \in Matching(index) : sparse' = [st |-> "done", hits |-> found]
    BY <1>4 DEF SparseSearch
  <2>3. bm25' = index
    BY <1>4 DEF SparseSearch
  <2> HIDE DEF index
  <2>4. Ranking(found)
    BY <2>1, <2>2, SearchesRank
  <2> QED
    BY <1>4, <2>1, <2>2, <2>3, <2>4 DEF SparseSearch
<1>5. CASE DenseSearch
  <2> DEFINE chunks == IF InMemory THEN dense ELSE Tables[table]
  <2>1. chunks \in {{}} \cup Range(Tables)
    BY <1>0 DEF InMemory
  <2>2. hits' \in Nearest(chunks)
    BY <1>5 DEF DenseSearch
  <2> HIDE DEF chunks
  <2>3. Ranking(hits')
    BY <2>1, <2>2, SearchesRank
  <2> QED
    BY <1>5, <2>3 DEF DenseSearch, indexes
<1>6. CASE Join
  <2> DEFINE ranking == Final(<<hits, sparse.hits>>)
  <2>0. hits \in Seq(Rows) /\ sparse.hits \in Seq(Rows)
    BY DEF Ranking
  <2>1. <<hits, sparse.hits>> \in Seq(Seq(Rows))
    BY <2>0
  <2>2. Sound(ranking, settings)
    BY <2>1, FinalIsSound
  <2> HIDE DEF ranking
  <2>3. ranking \in Seq(Rows)
    BY <2>2 DEF Sound
  <2>4. rankings' = Append(rankings, ranking)
    BY <1>6 DEF Join, ranking
  <2>5. /\ rankings' \in Seq(Seq(Rows)) /\ Len(rankings') = Len(rankings) + 1
        /\ \A i \in 1..Len(rankings) : rankings'[i] = rankings[i]
        /\ rankings'[Len(rankings) + 1] = ranking
    BY <2>3, <2>4, AppendProperties
  <2>6. \A i \in DOMAIN rankings' : Sound(rankings'[i], settings)
    <3>1. /\ Len(rankings) \in Nat /\ DOMAIN rankings = 1..Len(rankings)
          /\ DOMAIN rankings' = 1..(Len(rankings) + 1)
      BY <2>5, LenProperties
    <3> SUFFICES ASSUME NEW i \in 1..(Len(rankings) + 1) PROVE Sound(rankings'[i], settings)
      BY <3>1
    <3>2. CASE i = Len(rankings) + 1
      BY <2>2, <2>5, <3>2
    <3>3. CASE i \in 1..Len(rankings)
      BY <2>5, <3>1, <3>3
    <3> QED
      BY <3>1, <3>2, <3>3
  <2> QED
    BY <1>0, <1>6, <2>5, <2>6 DEF Join, NoSearch, indexes
<1>7. CASE RetrievalFails
  BY <1>0, <1>7 DEF RetrievalFails, NoSearch, indexes
<1>8. CASE Finish
  <2>1. Sound(results', settings)
    <3>1. CASE Len(rankings) = 1
      <4>1. 1 \in DOMAIN rankings
        BY <3>1, LenProperties
      <4> QED
        BY <1>8, <3>1, <4>1 DEF Finish
    <3>2. CASE Len(rankings) # 1
      BY <1>8, <3>2, FinalIsSound DEF Finish, Combined
    <3> QED
      BY <3>1, <3>2
  <2> QED
    BY <1>8, <2>1 DEF Finish, indexes
<1>9. CASE UNCHANGED vars
  BY <1>9 DEF vars
<1> QED
  BY <1>1, <1>2, <1>3, <1>4, <1>5, <1>6, <1>7, <1>8, <1>9 DEF Next

\* In every behaviour.
LEMMA RetrievalInvariant == Spec => []RetrievalInv
BY InitRetrievalInv, RetrievalStep, PTL DEF Spec

\* Whatever rows ingestions replace and rebuilds index between its searches, and however the
\* searches rank, what retrieve or retrieve_many returns has no chunk twice and no more than
\* the final top_k; and under deduplication no two that say the same, and from no source a
\* longer run of neighbours than the cap.
THEOREM EvidenceHasNoRepeats == Spec => []EvidenceIsDistinct
<1>1. ASSUME RetrievalInv PROVE EvidenceIsDistinct
  <2> SUFFICES ASSUME results # None PROVE EvidenceIsDistinct!2
    BY DEF EvidenceIsDistinct
  <2>1. Sound(results, settings) /\ settings \in Configurations
    BY <1>1 DEF RetrievalInv
  <2>2. results \in Seq(Rows)
    BY <2>1 DEF Sound
  <2>3. settings.cap \in Nat
    BY <2>1, RetrievalAssumption DEF RetrievalAssumption
  <2>4. settings.dedup => \A i, j \in DOMAIN results : i # j => ~SaysTheSame(results[i], results[j])
    BY <2>1, <2>2, AcceptedAreDistinct DEF Sound
  <2>5. settings.dedup /\ settings.cap # 0 =>
          \A i \in DOMAIN results :
            LongestRun(IndicesOf(results, results[i].source)) <= settings.cap
    BY <2>1, <2>2, <2>3, AcceptedRunsAreCapped DEF Sound
  <2> QED
    BY <2>1, <2>4, <2>5 DEF Sound, HasDistinctIds
<1> QED
  BY <1>1, RetrievalInvariant, PTL

\* Of any two searches of one query: everything fused was found, what is missing was dropped
\* for what is there or found no place, and what both searches rank below another chunk never
\* comes out above it, unless that one was dropped for what precedes.
THEOREM FusionRespectsRanks == Spec => []RanksAreRespected
<1>1. ASSUME RetrievalInv PROVE RanksAreRespected
  <2> DEFINE second == sparse.hits
             lists == <<hits, second>>
             found == Range(hits) \cup {c \in Range(second) : c.id \notin Ids(hits)}
             all == Fuse(lists)
             fused == Final(lists)
  <2>1. Ranking(hits) /\ Ranking(second) /\ settings.cap \in Nat
    BY <1>1, RetrievalAssumption DEF RetrievalInv, RetrievalAssumption
  <2> SUFFICES
        /\ Range(fused) \subseteq found
        /\ \A x \in found \ Range(fused) : Explained(x, fused)
        /\ \A y \in Range(fused), x \in found :
             x # y /\ Dominates(x, y, lists) =>
               \/ Before(fused, x.id, y.id)
               \/ x \notin Range(fused) /\ settings.dedup
                  /\ \/ ViolatesRunCap(fused, x, settings.cap)
                     \/ \E c \in Range(fused) : Before(fused, c.id, y.id) /\ SaysTheSame(x, c)
    BY DEF RanksAreRespected
  <2>2. lists \in Seq(Seq(Rows))
    <3>1. hits \in Seq(Rows) /\ second \in Seq(Rows)
      BY <2>1 DEF Ranking
    <3> QED
      BY <3>1
  <2>3. /\ \A id \in AllIds(lists) : FirstCopy(lists, id) \in found
        /\ \A x \in found : x.id \in AllIds(lists) /\ x = FirstCopy(lists, x.id)
    BY <2>1, FoundAreFirstCopies
  <2>4. Fused(lists, all) /\ Ids(all) = AllIds(lists) /\ HasDistinctIds(all)
    BY <2>2, FuseIsRanked, FuseHasDistinctIds
  <2>5. all \in Seq(Rows)
    BY <2>4 DEF Fused
  <2>6. PICK at : Remains(all, fused, at)
    <3>1. fused = TopK(Distinct(all), FinalTopK)
      BY DEF Final
    <3> HIDE DEF all, fused
    <3> QED
      BY <2>5, <3>1, DistinctRemain, CutRemains
  <2>7. ASSUME NEW a, NEW b, Dominates(a, b, lists), b.id \in AllIds(lists)
        PROVE  Above(lists, a.id, b.id)
    <3>1. DOMAIN lists = {1, 2} /\ lists[1] = hits /\ lists[2] = second
      OBVIOUS
    <3> HIDE DEF second
    <3>2. /\ b.id \in Ids(hits) => Before(hits, a.id, b.id)
          /\ b.id \in Ids(second) => Before(second, a.id, b.id)
          /\ b.id \in Ids(hits) \cup Ids(second)
      BY <2>7, <3>1 DEF Dominates, AllIds
    <3> HIDE DEF lists
    <3> QED
      BY <2>1, <3>2, DominantIsAbove DEF lists
  <2>8. \A i \in DOMAIN all, j \in DOMAIN all : Above(lists, all[i].id, all[j].id) => i < j
    BY <2>2, AboveComesFirst
  <2>9. ASSUME NEW x \in found PROVE \E m \in DOMAIN all : all[m] = x
    <3>1. x.id \in AllIds(lists) /\ x = FirstCopy(lists, x.id)
      BY <2>3
    <3> HIDE DEF all
    <3>2. PICK m \in DOMAIN all : all[m].id = x.id
      BY <2>4, <3>1 DEF Ids
    <3>3. all[m] = FirstCopy(lists, all[m].id)
      BY <2>4 DEF Fused
    <3> QED
      BY <3>1, <3>2, <3>3
  <2>10. ASSUME NEW m \in DOMAIN all PROVE all[m] \in found /\ all[m].id \in AllIds(lists)
    <3> HIDE DEF all
    <3>1. all[m] = FirstCopy(lists, all[m].id) /\ all[m].id \in AllIds(lists)
      BY <2>4 DEF Fused, Ids
    <3> QED
      BY <2>3, <3>1
  <2> HIDE DEF all, found, lists, fused
  <2>11. \A i \in DOMAIN fused : fused[i] = all[at[i]] /\ at[i] \in DOMAIN all
    BY <2>6 DEF Remains
  <2>12. DOMAIN fused = 1..Len(fused) /\ Len(fused) \in Nat
    BY <2>6, LenProperties DEF Remains
  <2>13. DOMAIN all = 1..Len(all) /\ Len(all) \in Nat
    BY <2>5, LenProperties
  <2>14. Range(fused) \subseteq found
    BY <2>10, <2>11 DEF Range
  <2>15. ASSUME NEW x \in found, x \notin Range(fused),
                NEW m \in DOMAIN all, all[m] = x
         PROVE  \/ Len(fused) = FinalTopK /\ \A i \in DOMAIN fused : at[i] < m
                \/ settings.dedup /\ ViolatesRunCap(fused, x, settings.cap)
                \/ settings.dedup /\ \E i \in DOMAIN fused : at[i] < m /\ SaysTheSame(x, fused[i])
    <3>1. ~\E i \in DOMAIN fused : at[i] = m
      BY <2>11, <2>15 DEF Range
    <3> QED
      BY <2>1, <2>4, <2>5, <2>6, <2>15, <3>1, AbsenceIsExplained
  <2>16. ASSUME NEW x \in found \ Range(fused) PROVE Explained(x, fused)
    <3>1. PICK m \in DOMAIN all : all[m] = x
      BY <2>9
    <3> QED
      BY <2>15, <3>1 DEF Explained, Range
  <2>17. ASSUME NEW y \in Range(fused), NEW x \in found, x # y, Dominates(x, y, lists)
         PROVE  \/ Before(fused, x.id, y.id)
                \/ x \notin Range(fused) /\ settings.dedup
                   /\ \/ ViolatesRunCap(fused, x, settings.cap)
                      \/ \E c \in Range(fused) : Before(fused, c.id, y.id) /\ SaysTheSame(x, c)
    <3>1. PICK j \in DOMAIN fused : fused[j] = y
      BY DEF Range
    <3>2. PICK m \in DOMAIN all : all[m] = x
      BY <2>9
    <3>3. y = all[at[j]] /\ at[j] \in DOMAIN all
      BY <2>11, <3>1
    <3>4. m < at[j]
      <4>1. Above(lists, x.id, y.id)
        BY <2>7, <2>10, <2>17, <3>3
      <4> QED
        BY <2>8, <3>2, <3>3, <4>1
    <3>5. \A i \in DOMAIN fused : at[i] <= m => i < j
      <4> SUFFICES ASSUME NEW i \in DOMAIN fused, at[i] <= m, ~(i < j) PROVE FALSE
        OBVIOUS
      <4>1. at[i] \in Nat /\ at[j] \in Nat /\ m \in Nat
        BY <2>11, <2>13
      <4>2. j <= i
        BY <2>12
      <4>3. at[j] <= at[i]
        BY <2>6, <2>12, <4>1, <4>2 DEF Remains
      <4> QED
        BY <3>4, <4>1, <4>3
    <3>6. CASE \E i \in DOMAIN fused : at[i] = m
      <4>1. PICK i \in DOMAIN fused : at[i] = m
        BY <3>6
      <4>2. i < j /\ fused[i] = x
        BY <2>11, <2>13, <3>2, <3>5, <4>1
      <4> QED
        BY <3>1, <4>2 DEF Before
    <3>7. CASE ~\E i \in DOMAIN fused : at[i] = m
      <4>1. x \notin Range(fused)
        <5>1. ASSUME NEW i \in DOMAIN fused, fused[i] = x PROVE FALSE
          <6>1. all[at[i]].id = all[m].id /\ at[i] \in DOMAIN all
            BY <2>11, <3>2, <5>1
          <6> QED
            BY <2>4, <3>7, <6>1 DEF HasDistinctIds
        <5> QED
          BY <5>1 DEF Range
      <4>2. ~\A i \in DOMAIN fused : at[i] < m
        BY <2>11, <2>13, <3>1, <3>4
      <4>3. CASE settings.dedup /\ \E i \in DOMAIN fused : at[i] < m /\ SaysTheSame(x, fused[i])
        <5>1. PICK i \in DOMAIN fused : at[i] < m /\ SaysTheSame(x, fused[i])
          BY <4>3
        <5>2. i < j
          BY <2>11, <2>13, <3>5, <5>1
        <5>3. fused[i] \in Range(fused) /\ Before(fused, fused[i].id, y.id)
          BY <3>1, <5>2 DEF Range, Before
        <5> QED
          BY <4>1, <4>3, <5>1, <5>3
      <4> QED
        BY <2>15, <3>2, <4>1, <4>2, <4>3
    <3> QED
      BY <3>6, <3>7
  <2> QED
    BY <2>14, <2>16, <2>17
<1> QED
  BY <1>1, RetrievalInvariant, PTL
=============================================================================
