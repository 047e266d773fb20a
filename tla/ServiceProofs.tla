---------------------------- MODULE ServiceProofs ----------------------------
(***************************************************************************)
(* Proofs about QueryService and the components it is made of, Reranking   *)
(* and LocalModels, for any number of queries, permits, workers and        *)
(* retries, and every configuration; and about the page that asks the      *)
(* service, Frontend, at the end, under an instance.                       *)
(*                                                                         *)
(* Each invariant speaks of a few variables.  A lemma says which actions   *)
(* touch those, and the step of the invariant looks at these actions only. *)
(***************************************************************************)
EXTENDS QueryService, FiniteSetTheorems, SequenceTheorems, TLAPS

\* The frame conditions, in every step below.
USE DEF modelVars, rerankVars, serviceVars

-----------------------------------------------------------------------------
(***************************************************************************)
(* Counting the members of a finite set.                                   *)
(***************************************************************************)
\* One member moves, so it joins those counted, leaves them, or neither.
LEMMA CountMoves ==
  ASSUME NEW F, NEW G, NEW x, IsFiniteSet(F), \A y : y # x => (y \in F <=> y \in G)
  PROVE  /\ Cardinality(F) \in Nat /\ Cardinality(G) \in Nat
         /\ (x \in F <=> x \in G) => Cardinality(G) = Cardinality(F)
         /\ x \in F /\ x \notin G => Cardinality(F) = Cardinality(G) + 1
         /\ x \notin F /\ x \in G => Cardinality(G) = Cardinality(F) + 1
<1>0. IsFiniteSet(F \cup {x})
  BY FS_AddElement
<1>1. IsFiniteSet(F) /\ IsFiniteSet(G)
  <2>1. G \subseteq F \cup {x}
    OBVIOUS
  <2> QED BY <1>0, <2>1, FS_Subset
<1>2. Cardinality(F) \in Nat /\ Cardinality(G) \in Nat
  BY <1>1, FS_CardinalityType
<1>3. CASE x \in F <=> x \in G
  <2>1. F = G
    BY <1>3
  <2> QED BY <1>2, <1>3, <2>1
<1>4. CASE x \in F /\ x \notin G
  <2>1. F = G \cup {x} /\ x \notin G
    BY <1>4
  <2>2. Cardinality(G \cup {x}) = Cardinality(G) + 1
    BY <1>1, <2>1, FS_AddElement
  <2> QED BY <1>2, <1>4, <2>1, <2>2
<1>5. CASE x \notin F /\ x \in G
  <2>1. G = F \cup {x} /\ x \notin F
    BY <1>5
  <2>2. Cardinality(F \cup {x}) = Cardinality(F) + 1
    BY <1>1, <2>1, FS_AddElement
  <2> QED BY <1>2, <1>5, <2>1, <2>2
<1> QED BY <1>3, <1>4, <1>5

\* There are as many scorers as queries, twice.
LEMMA ScorersAreFinite == IsFiniteSet(Scorers)
<1>1. IsFiniteSet(Queries)
  BY ServiceAssumption DEF ServiceAssumption
<1>2. IsFiniteSet({"own", "pool"})
  <2>1. IsFiniteSet({} \cup {"own"}) /\ {} \cup {"own"} = {"own"}
    BY FS_EmptySet, FS_AddElement
  <2>2. {"own"} \cup {"pool"} = {"own", "pool"}
    OBVIOUS
  <2> QED BY <2>1, <2>2, FS_AddElement
<1> QED BY <1>1, <1>2, FS_Product DEF Scorers

\* Two scorers for each query, and none of them warms a model up.
LEMMA ScorersAreThreads ==
  /\ Scorers \subseteq Threads /\ Warmers \subseteq Threads /\ None \notin Threads
  /\ \A q \in Queries : Own(q) \in Scorers /\ Pool(q) \in Scorers
  /\ \A q, r \in Queries : Own(q) # Pool(r) /\ (q # r => Own(q) # Own(r) /\ Pool(q) # Pool(r))
  /\ \A t \in Warmers : t \notin Scorers
<1>1. \A t \in Warmers : t \notin Scorers
  BY DEF Warmers, Scorers
<1> QED BY <1>1, ServiceAssumption DEF ServiceAssumption, Threads, Scorers, Own, Pool

-----------------------------------------------------------------------------
(***************************************************************************)
(* The embedding model.  Whoever loads it holds its lock, so there is one; *)
(* and a query gets past the gate only when it is loaded, which it stays.  *)
(***************************************************************************)
EmbeddingInv ==
  /\ embedding \in [loaded : BOOLEAN, error : BOOLEAN, lock : Threads \cup {None}]
  /\ embedder \in [Threads -> EmbedderStates]
  /\ \A t \in Threads : embedder[t] = "load" => embedding.lock = t /\ ~embedding.loaded
  /\ LoadsStayOffQueries
  /\ \A s \in Scorers : embedder[s] = "want" => embedding.loaded
  /\ \A q \in Queries : serving[q] = "embed" => embedding.loaded

EmbeddingVars == <<embedding, embedder, serving>>

\* The actions that touch them.
LEMMA EmbeddingFrame ==
  ASSUME [Next]_vars
  PROVE  \/ \E t \in Threads : /\ \/ LookAtEmbedding(t) \/ LockEmbedding(t)
                                   \/ ImportFails(t) \/ EmbeddingLoads(t) \/ EmbeddingFails(t)
                                /\ UNCHANGED serviceVars
         \/ \E q \in Queries : QueryStep(q)
         \/ \E t \in Warmers : BeginWarmup(t) \/ EmbeddingWarm(t)
         \/ UNCHANGED EmbeddingVars
BY DEF Next, vars, ModelStep, LoadStep, ScoreStep, LookAtCrossEncoder, LockCrossEncoder,
       CrossEncoderLoads, CrossEncoderFails, Enqueue, AcquirePermit, QueueTimeout, Predict,
       PredictFails, RerankStep, StartRerank, TryProvider, LookAtAdapter, BuildAdapter,
       HostedOrders, HostedOutage, HostedRefusal, UsePrescore, Confirm, GiveUpOnHosted,
       LocalResult, PrescoreStep, StartPrescore, EndPrescore, CooldownEnds, WarmStep,
       RerankerWarm, WarmInference, CallWarmup, Close, EmbeddingVars

\* A warm process starts with the model loaded.
LEMMA EmbeddingInit == Init => EmbeddingInv
<1> SUFFICES ASSUME Init PROVE EmbeddingInv
  OBVIOUS
<1>1. settings.warm \in BOOLEAN
  BY ServiceAssumption DEF ServiceAssumption, Init
<1> QED BY <1>1, ScorersAreThreads
        DEF Init, ModelInit, EmbeddingInv, LoadsStayOffQueries, EmbedderStates

\* Loading is done under the lock, and by nobody who serves a query.
LEMMA EmbeddingStep == ASSUME EmbeddingInv, [Next]_vars PROVE EmbeddingInv'
<1> USE ScorersAreThreads DEF EmbeddingInv, LoadsStayOffQueries, EmbedderStates
<1>1. ASSUME NEW t \in Threads, LookAtEmbedding(t), UNCHANGED serviceVars PROVE EmbeddingInv'
  BY <1>1 DEF LookAtEmbedding, Embeds
<1>2. ASSUME NEW t \in Threads, LockEmbedding(t), UNCHANGED serviceVars PROVE EmbeddingInv'
  BY <1>2 DEF LockEmbedding, Embeds
<1>3. ASSUME NEW t \in Threads, EmbeddingLoads(t), UNCHANGED serviceVars PROVE EmbeddingInv'
  BY <1>3 DEF EmbeddingLoads, Embeds
<1>4. ASSUME NEW t \in Threads, EmbeddingFails(t) \/ ImportFails(t), UNCHANGED serviceVars
      PROVE  EmbeddingInv'
  BY <1>4 DEF EmbeddingFails, ImportFails, Embeds
<1>5. ASSUME NEW q \in Queries, Embed(q) PROVE EmbeddingInv'
  BY <1>5 DEF Embed, WantsEmbedding
<1>6. ASSUME NEW q \in Queries, Retrieve(q) PROVE EmbeddingInv'
  BY <1>6 DEF Retrieve, Embeds, Serves
<1>7. ASSUME NEW q \in Queries, Gate(q) PROVE EmbeddingInv'
  BY <1>7 DEF Gate, Serves
<1>8. ASSUME NEW q \in Queries,
             \/ Admit(q) \/ RefuseAdmission(q) \/ TurnBack(q) \/ RejectUnready(q)
             \/ Reranked(q) \/ Complete(q) \/ Fail(q) \/ ProjectionFails(q) \/ Release(q)
      PROVE  EmbeddingInv'
  <2>1. /\ UNCHANGED <<embedding, embedder>>
        /\ \E to : to # "embed" /\ Serves(q, to)
    BY <1>8 DEF Admit, RefuseAdmission, TurnBack, RejectUnready, Reranked, Complete, Fail,
                ProjectionFails, Release, Answer
  <2> QED BY <2>1 DEF Serves
<1>9. ASSUME NEW t \in Warmers, BeginWarmup(t) PROVE EmbeddingInv'
  BY <1>9 DEF BeginWarmup, WantsEmbedding
<1>10. ASSUME NEW t \in Warmers, EmbeddingWarm(t) PROVE EmbeddingInv'
  BY <1>10 DEF EmbeddingWarm, Embeds
<1>11. CASE UNCHANGED EmbeddingVars
  BY <1>11 DEF EmbeddingVars
<1> QED BY <1>1, <1>2, <1>3, <1>4, <1>5, <1>6, <1>7, <1>8, <1>9, <1>10, <1>11, EmbeddingFrame
        DEF QueryStep

-----------------------------------------------------------------------------
(***************************************************************************)
(* The cross-encoder.  Its candidates are tried one after the other, and   *)
(* an attempt is remembered before it is made.                             *)
(***************************************************************************)
CrossEncoderLoadsOf == Loads \ {<<"embedding", "device">>}

\* Two sequences without repeats and without a common element follow each other so.
LEMMA DistinctConcat ==
  ASSUME NEW S, NEW s \in Seq(S), NEW t \in Seq(S),
         \A i, j \in 1..Len(s) : s[i] = s[j] => i = j,
         \A i, j \in 1..Len(t) : t[i] = t[j] => i = j,
         \A i \in 1..Len(s), j \in 1..Len(t) : s[i] # t[j]
  PROVE  /\ s \o t \in Seq(S) /\ Len(s \o t) = Len(s) + Len(t)
         /\ \A i, j \in 1..Len(s \o t) : (s \o t)[i] = (s \o t)[j] => i = j
<1> DEFINE c == s \o t
<1>1. /\ c \in Seq(S) /\ Len(c) = Len(s) + Len(t)
      /\ \A i \in 1..Len(s) + Len(t) : c[i] = IF i <= Len(s) THEN s[i] ELSE t[i - Len(s)]
  BY ConcatProperties
<1>2. Len(s) \in Nat /\ Len(t) \in Nat
  OBVIOUS
<1> HIDE DEF c
<1>3. ASSUME NEW i \in 1..Len(c), NEW j \in 1..Len(c), c[i] = c[j]
      PROVE  i = j
  <2>1. CASE i <= Len(s) /\ j <= Len(s)
    BY <1>1, <1>2, <1>3, <2>1
  <2>2. CASE i <= Len(s) /\ ~(j <= Len(s))
    <3>1. i \in 1..Len(s) /\ j - Len(s) \in 1..Len(t)
      BY <1>1, <1>2, <2>2
    <3> QED BY <1>1, <1>2, <1>3, <2>2, <3>1
  <2>3. CASE ~(i <= Len(s)) /\ j <= Len(s)
    <3>1. j \in 1..Len(s) /\ i - Len(s) \in 1..Len(t)
      BY <1>1, <1>2, <2>3
    <3> QED BY <1>1, <1>2, <1>3, <2>3, <3>1
  <2>4. CASE ~(i <= Len(s)) /\ ~(j <= Len(s))
    <3>1. i - Len(s) \in 1..Len(t) /\ j - Len(s) \in 1..Len(t)
      BY <1>1, <1>2, <2>4
    <3>2. t[i - Len(s)] = t[j - Len(s)]
      BY <1>1, <1>2, <1>3, <2>4
    <3>3. i - Len(s) = j - Len(s)
      BY <3>1, <3>2
    <3> QED BY <1>2, <3>3
  <2> QED BY <2>1, <2>2, <2>3, <2>4
<1> QED BY <1>1, <1>3 DEF c

\* The models and devices that may be tried are at most four, all different.
LEMMA CandidatesAreDistinct ==
  /\ Len(Candidates) \in 1..4 /\ DOMAIN Candidates = 1..Len(Candidates)
  /\ \A i \in DOMAIN Candidates : Candidates[i] \in CrossEncoderLoadsOf
  /\ \A i, j \in DOMAIN Candidates : Candidates[i] = Candidates[j] => i = j
<1> DEFINE on(model) == IF settings.auto_cuda THEN <<<<model, "cuda">>, <<model, "cpu">>>>
                                              ELSE <<<<model, "device">>>>
           s == on("primary")
           t == on("fallback")
<1>1. ASSUME NEW m \in {"primary", "fallback"}
      PROVE  /\ on(m) \in Seq(CrossEncoderLoadsOf) /\ Len(on(m)) \in 1..2
             /\ \A i \in 1..Len(on(m)) : on(m)[i][1] = m
             /\ \A i, j \in 1..Len(on(m)) : on(m)[i] = on(m)[j] => i = j
  <2>1. CASE settings.auto_cuda
    <3>1. on(m) = <<<<m, "cuda">>, <<m, "cpu">>>>
      BY <2>1
    <3>2. <<m, "cuda">> \in CrossEncoderLoadsOf /\ <<m, "cpu">> \in CrossEncoderLoadsOf
      BY DEF CrossEncoderLoadsOf, Loads
    <3> HIDE DEF on
    <3> QED BY <3>1, <3>2
  <2>2. CASE ~settings.auto_cuda
    <3>1. on(m) = <<<<m, "device">>>>
      BY <2>2
    <3>2. <<m, "device">> \in CrossEncoderLoadsOf
      BY DEF CrossEncoderLoadsOf, Loads
    <3> HIDE DEF on
    <3> QED BY <3>1, <3>2
  <2> QED BY <2>1, <2>2
<1>2. Candidates = IF settings.compact THEN s ELSE s \o t
  BY DEF Candidates
<1> HIDE DEF on
<1>3. \A i \in 1..Len(s), j \in 1..Len(t) : s[i] # t[j]
  BY <1>1
<1>4. /\ s \o t \in Seq(CrossEncoderLoadsOf) /\ Len(s \o t) = Len(s) + Len(t)
      /\ \A i, j \in 1..Len(s \o t) : (s \o t)[i] = (s \o t)[j] => i = j
  <2>1. s \in Seq(CrossEncoderLoadsOf) /\ t \in Seq(CrossEncoderLoadsOf)
    BY <1>1
  <2> QED BY <1>1, <1>3, <2>1, DistinctConcat
<1>5. /\ s \in Seq(CrossEncoderLoadsOf) /\ Len(s) \in 1..2 /\ Len(t) \in 1..2
      /\ \A i, j \in 1..Len(s) : s[i] = s[j] => i = j
  BY <1>1
<1> DEFINE u == s \o t
<1>6. /\ u \in Seq(CrossEncoderLoadsOf) /\ Len(u) \in 1..4
      /\ \A i, j \in 1..Len(u) : u[i] = u[j] => i = j
  <2>1. Len(u) \in 1..4
    BY <1>4, <1>5
  <2> QED BY <1>4, <2>1
<1>7. Candidates = s \/ Candidates = u
  BY <1>2
<1> HIDE DEF s, u
<1> QED BY <1>5, <1>6, <1>7

CrossEncoderInv ==
  /\ cross_encoder \in [loaded : BOOLEAN, attempted : BOOLEAN, error : BOOLEAN,
                        lock : Threads \cup {None}, next : Nat]
  /\ loader \in [Threads -> LoaderStates]
  /\ \A t \in Threads : loader[t] = "load" => cross_encoder.attempted
  /\ loads \in [Loads -> Nat]
  /\ cross_encoder.next \in DOMAIN Candidates
  /\ \A l \in CrossEncoderLoadsOf : loads[l] <= 1
  /\ ~cross_encoder.attempted => /\ cross_encoder.next = 1
                                 /\ \A l \in CrossEncoderLoadsOf : loads[l] = 0
  /\ \A i \in DOMAIN Candidates : i > cross_encoder.next => loads[Candidates[i]] = 0

CrossEncoderVars == <<settings, cross_encoder, loads>>
LoaderOnly == /\ UNCHANGED CrossEncoderVars
              /\ \/ UNCHANGED loader
                 \/ \E t \in Threads, to \in LoaderStates \ {"load"} : LoaderGoes(t, to)

\* The actions that touch them.
LEMMA CrossEncoderFrame ==
  ASSUME [Next]_vars
  PROVE  \/ \E t \in Threads : \/ LockEmbedding(t) \/ LockCrossEncoder(t)
                                \/ CrossEncoderLoads(t) \/ CrossEncoderFails(t)
         \/ LoaderOnly
<1> USE ScorersAreThreads DEF CrossEncoderVars, LoaderStates
<1>1. ASSUME NEW t \in Threads, LoadStep(t)
      PROVE  \/ LockEmbedding(t) \/ LockCrossEncoder(t)
             \/ CrossEncoderLoads(t) \/ CrossEncoderFails(t) \/ LoaderOnly
  BY <1>1 DEF LoadStep, LookAtEmbedding, ImportFails, EmbeddingLoads, EmbeddingFails,
              LookAtCrossEncoder, Resident, LoaderOnly
<1>2. ASSUME NEW s \in Scorers, ScoreStep(s) PROVE LoaderOnly
  BY <1>2 DEF ScoreStep, Enqueue, AcquirePermit, QueueTimeout, Predict, PredictFails, LoaderOnly
<1>3. ASSUME NEW q \in Queries, RerankStep(q) \/ PrescoreStep(q) PROVE LoaderOnly
  <2>1. UNCHANGED CrossEncoderVars /\ (UNCHANGED loader \/ LoaderGoes(Own(q), "want")
                                        \/ LoaderGoes(Pool(q), "want"))
    BY <1>3 DEF RerankStep, StartRerank, TryProvider, LookAtAdapter, BuildAdapter, HostedOrders,
                HostedOutage, HostedRefusal, UsePrescore, Confirm, GiveUpOnHosted, LocalResult,
                PrescoreStep, StartPrescore, EndPrescore, ScoresItself, BeginScoring
  <2> QED BY <2>1 DEF LoaderOnly
<1>4. ASSUME NEW q \in Queries, QueryStep(q) PROVE LoaderOnly
  BY <1>4 DEF QueryStep, Admit, RefuseAdmission, TurnBack, Gate, RejectUnready, Embed, Retrieve,
              Reranked, Complete, Fail, ProjectionFails, Release, LoaderOnly
<1>5. ASSUME NEW t \in Warmers, WarmStep(t) PROVE LoaderOnly
  BY <1>5 DEF WarmStep, BeginWarmup, EmbeddingWarm, RerankerWarm, WarmInference, LoaderOnly
<1>6. ASSUME NEW p \in Hosted, CooldownEnds(p) PROVE LoaderOnly
  BY <1>6 DEF CooldownEnds, LoaderOnly
<1>7. CallWarmup \/ Close => LoaderOnly
  BY DEF CallWarmup, Close, LoaderOnly
<1>8. UNCHANGED vars => LoaderOnly
  BY DEF vars, LoaderOnly
<1> QED BY <1>1, <1>2, <1>3, <1>4, <1>5, <1>6, <1>7, <1>8 DEF Next, ModelStep

\* Nothing was attempted, or everything is loaded, when the process starts.
LEMMA CrossEncoderInit == Init => CrossEncoderInv
<1> SUFFICES ASSUME Init PROVE CrossEncoderInv
  OBVIOUS
<1>1. settings.warm \in BOOLEAN
  BY ServiceAssumption DEF ServiceAssumption, Init
<1> QED BY <1>1, CandidatesAreDistinct
        DEF Init, ModelInit, CrossEncoderInv, CrossEncoderLoadsOf, LoaderStates

\* Every load is the next candidate's, and the first one's only when none was attempted.
LEMMA CrossEncoderStep == ASSUME CrossEncoderInv, [Next]_vars PROVE CrossEncoderInv'
<1> USE CandidatesAreDistinct DEF CrossEncoderInv, LoaderStates
<1>0. UNCHANGED settings => Candidates' = Candidates
  BY DEF Candidates
<1>a. CrossEncoderLoadsOf \subseteq Loads /\ CrossEncoderLoadsOf' = CrossEncoderLoadsOf
  BY DEF CrossEncoderLoadsOf
<1>1. ASSUME NEW t \in Threads, LockEmbedding(t) PROVE CrossEncoderInv'
  <2>1. /\ UNCHANGED <<settings, cross_encoder>> /\ loads' \in [Loads -> Nat]
        /\ UNCHANGED loader
        /\ \A l \in CrossEncoderLoadsOf : loads'[l] = loads[l]
    <3> DEFINE it == <<"embedding", "device">>
    <3>1. UNCHANGED <<settings, cross_encoder, loader>>
      BY <1>1 DEF LockEmbedding
    <3>2. loads' = loads \/ loads' = [loads EXCEPT ![it] = @ + 1]
      BY <1>1 DEF LockEmbedding
    <3>3. it \in Loads /\ it \notin CrossEncoderLoadsOf
      BY DEF Loads, CrossEncoderLoadsOf
    <3> HIDE DEF it
    <3>4. /\ loads' \in [Loads -> Nat]
          /\ \A l \in CrossEncoderLoadsOf : loads'[l] = loads[l]
      BY <1>a, <3>2, <3>3
    <3> QED BY <3>1, <3>4
  <2> QED BY <1>0, <1>a, <2>1
<1>2. ASSUME NEW t \in Threads, LockCrossEncoder(t) PROVE CrossEncoderInv'
  <2>1. CASE cross_encoder.loaded \/ cross_encoder.attempted
    BY <1>0, <1>a, <1>2, <2>1 DEF LockCrossEncoder, LoaderGoes, Resident
  <2>2. CASE ~(cross_encoder.loaded \/ cross_encoder.attempted)
    <3>0. loader' \in [Threads -> LoaderStates]
      BY <1>2, <2>2 DEF LockCrossEncoder, LoaderGoes
    <3> DEFINE first == Candidates[1]
    <3>1. /\ first \in CrossEncoderLoadsOf
          /\ \A i \in DOMAIN Candidates : i > 1 => Candidates[i] # first
      OBVIOUS
    <3>2. /\ UNCHANGED settings /\ loads' = [loads EXCEPT ![first] = @ + 1]
          /\ cross_encoder' = [cross_encoder EXCEPT !.attempted = TRUE, !.lock = t]
      BY <1>2, <2>2 DEF LockCrossEncoder
    <3> HIDE DEF first
    <3>3. /\ loads' \in [Loads -> Nat] /\ loads'[first] = 1
          /\ \A l \in CrossEncoderLoadsOf \ {first} : loads'[l] = 0
      BY <1>a, <2>2, <3>1, <3>2
    <3>4. /\ cross_encoder'.attempted /\ cross_encoder'.next = 1
          /\ cross_encoder' \in [loaded : BOOLEAN, attempted : BOOLEAN, error : BOOLEAN,
                                 lock : Threads \cup {None}, next : Nat]
      BY <2>2, <3>2
    <3>5. Candidates' = Candidates
      BY <1>0, <3>2
    <3>6. \A i \in DOMAIN Candidates : i > 1 => loads'[Candidates[i]] = 0
      BY <3>1, <3>3
    <3>7. \A l \in CrossEncoderLoadsOf : loads'[l] <= 1
      BY <3>3
    <3> QED BY ONLY <1>a, <3>0, <3>3, <3>4, <3>5, <3>6, <3>7, CandidatesAreDistinct
            DEF CrossEncoderInv
  <2> QED BY <2>1, <2>2
<1>3. ASSUME NEW t \in Threads, CrossEncoderLoads(t) PROVE CrossEncoderInv'
  <2>1. /\ UNCHANGED <<settings, loads>> /\ LoaderGoes(t, "model")
        /\ cross_encoder' = [cross_encoder EXCEPT !.loaded = TRUE, !.error = FALSE,
                                                  !.lock = None]
    BY <1>3 DEF CrossEncoderLoads
  <2> QED BY <1>0, <1>a, <2>1 DEF LoaderGoes
<1>4. ASSUME NEW t \in Threads, CrossEncoderFails(t) PROVE CrossEncoderInv'
  <2>0. cross_encoder.attempted
    BY <1>4 DEF CrossEncoderFails
  <2>1. CASE cross_encoder.next < Len(Candidates)
    <3> DEFINE n == cross_encoder.next + 1
               next == Candidates[n]
    <3>1. /\ n \in DOMAIN Candidates /\ next \in CrossEncoderLoadsOf /\ loads[next] = 0
          /\ \A i \in DOMAIN Candidates : i > n => Candidates[i] # next
      BY <2>1
    <3>2. /\ UNCHANGED <<settings, loader>> /\ loads' = [loads EXCEPT ![next] = @ + 1]
          /\ cross_encoder' = [cross_encoder EXCEPT !.error = TRUE, !.next = n]
      BY <1>4, <2>1 DEF CrossEncoderFails
    <3>3. n \in Nat /\ cross_encoder.next < n
      OBVIOUS
    <3> HIDE DEF n, next
    <3>4. /\ loads' \in [Loads -> Nat] /\ loads'[next] = 1
          /\ \A l \in CrossEncoderLoadsOf \ {next} : loads'[l] = loads[l]
      BY <1>a, <3>1, <3>2
    <3>5. /\ cross_encoder'.attempted /\ cross_encoder'.next = n
          /\ cross_encoder' \in [loaded : BOOLEAN, attempted : BOOLEAN, error : BOOLEAN,
                                 lock : Threads \cup {None}, next : Nat]
      BY <2>0, <3>2, <3>3
    <3>6. Candidates' = Candidates
      BY <1>0, <3>2
    <3>7. \A i \in DOMAIN Candidates : i > n => loads'[Candidates[i]] = 0
      BY <3>1, <3>3, <3>4
    <3>8. \A l \in CrossEncoderLoadsOf : loads'[l] <= 1
      BY <3>4
    <3>9. loader' = loader
      BY <3>2
    <3> QED BY <1>a, <2>0, <3>1, <3>4, <3>5, <3>6, <3>7, <3>8, <3>9
  <2>2. CASE ~(cross_encoder.next < Len(Candidates))
    <3>1. /\ UNCHANGED <<settings, loads>> /\ LoaderGoes(t, "none")
          /\ cross_encoder' = [cross_encoder EXCEPT !.error = TRUE, !.lock = None]
      BY <1>4, <2>2 DEF CrossEncoderFails
    <3>2. /\ cross_encoder'.attempted /\ cross_encoder'.next = cross_encoder.next
          /\ cross_encoder' \in [loaded : BOOLEAN, attempted : BOOLEAN, error : BOOLEAN,
                                 lock : Threads \cup {None}, next : Nat]
      BY <2>0, <3>1
    <3>3. /\ loader' \in [Threads -> LoaderStates]
          /\ \A u \in Threads : loader'[u] = "load" => cross_encoder'.attempted
      BY <3>1, <3>2 DEF LoaderGoes
    <3>4. Candidates' = Candidates
      BY <1>0, <3>1
    <3> QED BY <1>a, <3>1, <3>2, <3>3, <3>4
  <2> QED BY <2>1, <2>2
<1>5. CASE LoaderOnly
  <2>1. UNCHANGED <<settings, cross_encoder, loads>>
    BY <1>5 DEF LoaderOnly, CrossEncoderVars
  <2>2. /\ loader' \in [Threads -> LoaderStates]
        /\ \A t \in Threads : loader'[t] = "load" => loader[t] = "load"
    BY <1>5 DEF LoaderOnly, LoaderGoes
  <2> QED BY <1>0, <1>a, <2>1, <2>2
<1> QED BY <1>1, <1>2, <1>3, <1>4, <1>5, CrossEncoderFrame

-----------------------------------------------------------------------------
(***************************************************************************)
(* The passes.  A query is in a pass while its request is being reranked;  *)
(* what it left to the pool is still wanted, and a scoring pass is begun   *)
(* only by those who wait for its end.                                     *)
(***************************************************************************)
Active == {"model", "queue", "predict"}
Early == {"chain", "adapter", "build", "request", "used"}
Asking == {"adapter", "build", "request", "used", "confirm"}
Records == [pc : PassStates, at : Nat \ {0}, retries : Nat, result : Results \cup {None}]

PassOf(q) ==
  /\ At(q, "idle") <=> serving[q] # "rerank"
  /\ reranking[q].pc \in Asking => reranking[q].at <= Len(Chain)
  /\ prescore[q] \in {"queued", "running"} => reranking[q].pc \in Early
  /\ scoring[Own(q)] \in Active => reranking[q].pc \in {"local", "confirm", "fallback"}
  /\ scoring[Pool(q)] \in Active => prescore[q] = "running"

PassTypes ==
  /\ settings \in Configurations
  /\ serving \in [Queries -> RequestStates]
  /\ reranking \in [Queries -> Records]
  /\ prescore \in [Queries -> PrescoreStates]
  /\ scoring \in [Scorers -> ScoringStates]

PassInv == PassTypes /\ \A q \in Queries : PassOf(q)

PassVars == <<settings, serving, reranking, prescore, scoring>>

\* The settings of a configuration, with their types.
LEMMA SettingsAreTyped ==
  ASSUME settings \in Configurations
  PROVE  /\ settings.warm \in BOOLEAN /\ settings.enabled \in BOOLEAN
         /\ settings.provider \in Hosted \cup {"local"}
         /\ settings.second \in Hosted \cup {"local", "none"}
BY ServiceAssumption DEF ServiceAssumption

\* The chain names hosted providers only.
LEMMA ChainIsHosted ==
  ASSUME settings \in Configurations
  PROVE  Len(Chain) \in Nat /\ \A i \in 1..Len(Chain) : Chain[i] \in Hosted
<1>1. /\ settings.provider \in Hosted \cup {"local"}
      /\ settings.second \in Hosted \cup {"local", "none"}
  BY SettingsAreTyped
<1>2. ASSUME NEW p \in Hosted \cup {"local"} PROVE Hosting(p) \in Seq(Hosted)
  <2>1. p = "local" => Hosting(p) = <<>>
    BY DEF Hosting
  <2>2. p # "local" => Hosting(p) = <<p>> /\ p \in Hosted
    BY <1>2 DEF Hosting
  <2>3. <<>> \in Seq(Hosted) /\ (p \in Hosted => <<p>> \in Seq(Hosted))
    OBVIOUS
  <2> QED BY <2>1, <2>2, <2>3
<1>3. Chain \in Seq(Hosted)
  <2>1. CASE settings.second \in {"none", settings.provider}
    BY <1>1, <1>2, <2>1 DEF Chain
  <2>2. CASE settings.second \notin {"none", settings.provider}
    <3>1. Hosting(settings.provider) \in Seq(Hosted) /\ Hosting(settings.second) \in Seq(Hosted)
      BY <1>1, <1>2, <2>2
    <3>2. Hosting(settings.provider) \o Hosting(settings.second) \in Seq(Hosted)
      BY <3>1, ConcatProperties
    <3> QED BY <2>2, <3>2 DEF Chain
  <2> QED BY <2>1, <2>2
<1> QED BY <1>3

\* The actions that touch the variables of a pass.
LEMMA PassFrame ==
  ASSUME [Next]_vars
  PROVE  \/ \E s \in Scorers : ScoreStep(s) /\ UNCHANGED <<rerankVars, serviceVars>>
         \/ \E q \in Queries :
              \/ QueryStep(q)
              \/ (RerankStep(q) \/ PrescoreStep(q)) /\ UNCHANGED serviceVars
         \/ UNCHANGED PassVars
<1> USE DEF PassVars
<1>1. ASSUME NEW t \in Threads, LoadStep(t), UNCHANGED <<rerankVars, serviceVars>>
      PROVE  UNCHANGED PassVars
  BY <1>1 DEF LoadStep, LookAtEmbedding, LockEmbedding, ImportFails, EmbeddingLoads,
              EmbeddingFails,
              LookAtCrossEncoder, LockCrossEncoder, CrossEncoderLoads, CrossEncoderFails
<1>2. ASSUME NEW t \in Warmers, WarmStep(t) PROVE UNCHANGED PassVars
  BY <1>2 DEF WarmStep, BeginWarmup, EmbeddingWarm, RerankerWarm, WarmInference
<1>3. ASSUME NEW p \in Hosted, CooldownEnds(p), UNCHANGED serviceVars PROVE UNCHANGED PassVars
  BY <1>3 DEF CooldownEnds
<1>4. CallWarmup \/ Close => UNCHANGED PassVars
  BY DEF CallWarmup, Close
<1>5. UNCHANGED vars => UNCHANGED PassVars
  BY DEF vars
<1> QED BY <1>1, <1>2, <1>3, <1>4, <1>5 DEF Next, ModelStep

\* A pass is begun by nobody at the start.
LEMMA PassInit == Init => PassInv
BY ScorersAreThreads, ServiceAssumption
   DEF Init, ModelInit, RerankInit, PassInv, PassTypes, PassOf, Records, PassStates,
       PrescoreStates, ScoringStates, RequestStates, AtRest, At, Asking, Early, Active

\* What changes for one query changes for no other: the invariant is shown for it alone.
LEMMA Elsewhere ==
  ASSUME PassInv, UNCHANGED settings, NEW q \in Queries, PassTypes', PassOf(q)',
         \A r \in Queries \ {q} :
           /\ serving'[r] = serving[r] /\ reranking'[r] = reranking[r]
           /\ prescore'[r] = prescore[r]
           /\ scoring'[Own(r)] = scoring[Own(r)] /\ scoring'[Pool(r)] = scoring[Pool(r)]
  PROVE  PassInv'
<1>1. Chain' = Chain
  BY DEF Chain
<1>2. ASSUME NEW r \in Queries \ {q} PROVE PassOf(r)'
  BY <1>1, <1>2 DEF PassInv, PassOf, At
<1> QED BY <1>2 DEF PassInv

\* The same, given the values the query is left with.
LEMMA OnePass ==
  ASSUME PassInv, UNCHANGED settings, NEW q \in Queries,
         NEW request \in RequestStates, NEW pass \in Records, NEW pool \in PrescoreStates,
         NEW own \in ScoringStates, NEW pools \in ScoringStates,
         serving' = [serving EXCEPT ![q] = request],
         reranking' = [reranking EXCEPT ![q] = pass],
         prescore' = [prescore EXCEPT ![q] = pool],
         scoring' = [scoring EXCEPT ![Own(q)] = own, ![Pool(q)] = pools],
         pass.pc = "idle" <=> request # "rerank",
         pass.pc \in Asking => pass.at <= Len(Chain),
         pool \in {"queued", "running"} => pass.pc \in Early,
         own \in Active => pass.pc \in {"local", "confirm", "fallback"},
         pools \in Active => pool = "running"
  PROVE  PassInv'
<1> USE ScorersAreThreads DEF PassInv, PassTypes
<1>1. PassTypes'
  OBVIOUS
<1>2. Chain' = Chain
  BY DEF Chain
<1>3. PassOf(q)'
  <2>1. /\ serving'[q] = request /\ reranking'[q] = pass /\ prescore'[q] = pool
        /\ scoring'[Own(q)] = own /\ scoring'[Pool(q)] = pools
    OBVIOUS
  <2> QED BY <1>2, <2>1 DEF PassOf, At
<1>4. ASSUME NEW r \in Queries \ {q}
      PROVE  /\ serving'[r] = serving[r] /\ reranking'[r] = reranking[r]
             /\ prescore'[r] = prescore[r]
             /\ scoring'[Own(r)] = scoring[Own(r)] /\ scoring'[Pool(r)] = scoring[Pool(r)]
  OBVIOUS
<1> QED BY <1>1, <1>3, <1>4, Elsewhere

\* The same for a step of the pass itself: the request is still being reranked.
LEMMA PassGoes ==
  ASSUME PassInv, UNCHANGED <<settings, serving>>, NEW q \in Queries, ~At(q, "idle"),
         NEW pass \in Records, NEW pool \in PrescoreStates,
         reranking' = [reranking EXCEPT ![q] = pass],
         prescore' = [prescore EXCEPT ![q] = pool],
         \/ UNCHANGED scoring
            /\ (scoring[Own(q)] \in Active => pass.pc \in {"local", "confirm", "fallback"})
         \/ Scores(Own(q), "model") /\ pass.pc \in {"local", "confirm", "fallback"},
         pass.pc # "idle",
         pass.pc \in Asking => pass.at <= Len(Chain),
         pool \in {"queued", "running"} => pass.pc \in Early,
         prescore[q] = "running" => pool = "running"
  PROVE  PassInv'
<1> DEFINE own == IF UNCHANGED scoring THEN scoring[Own(q)] ELSE "model"
<1> USE ScorersAreThreads
<1>1. PassTypes /\ PassOf(q)
  BY DEF PassInv
<1>2. scoring' = [scoring EXCEPT ![Own(q)] = own, ![Pool(q)] = scoring[Pool(q)]]
  BY <1>1 DEF PassTypes, Scores
<1>3. /\ own \in ScoringStates /\ scoring[Pool(q)] \in ScoringStates
      /\ own \in Active => pass.pc \in {"local", "confirm", "fallback"}
      /\ scoring[Pool(q)] \in Active => pool = "running"
  BY <1>1 DEF PassTypes, PassOf, ScoringStates, Scores
<1>4. serving' = [serving EXCEPT ![q] = "rerank"] /\ "rerank" \in RequestStates
  BY <1>1 DEF PassTypes, PassOf, RequestStates
<1> HIDE DEF own
<1> QED BY <1>2, <1>3, <1>4, OnePass

\* A pass goes on, and the query is still in it.
LEMMA RerankKeepsPasses ==
  ASSUME PassInv, NEW q \in Queries, RerankStep(q), UNCHANGED serviceVars
  PROVE  PassInv'
<1> DEFINE pass == reranking[q]
           Locally == {"local", "confirm", "fallback"}
<1>0. /\ pass \in Records /\ PassTypes /\ PassOf(q) /\ prescore[q] \in PrescoreStates
      /\ prescore = [prescore EXCEPT ![q] = prescore[q]]
  BY DEF PassInv, PassTypes
<1>1. ASSUME NEW pc \in PassStates \ {"idle"}, Goes(q, pc), ~At(q, "idle"),
             UNCHANGED <<settings, prescore>>,
             \/ UNCHANGED scoring /\ scoring[Own(q)] \notin Active
             \/ Scores(Own(q), "model") /\ pc \in Locally,
             pc \in Asking => pass.at <= Len(Chain),
             prescore[q] \in {"queued", "running"} => pc \in Early
      PROVE  PassInv'
  <2> DEFINE to == [pass EXCEPT !.pc = pc]
  <2>1. to \in Records /\ to.pc = pc /\ to.at = pass.at
    BY <1>0 DEF Records
  <2>2. reranking' = [reranking EXCEPT ![q] = to]
    BY <1>0, <1>1 DEF PassTypes, Records, Goes
  <2> HIDE DEF to
  <2> QED BY <1>0, <1>1, <2>1, <2>2, PassGoes
<1>2. ASSUME NEW result \in Results, Returns(q, result), ~At(q, "idle"),
             UNCHANGED <<settings, prescore, scoring>>, scoring[Own(q)] \notin Active,
             prescore[q] \notin {"queued", "running"}
      PROVE  PassInv'
  <2> DEFINE to == [pass EXCEPT !.pc = "done", !.result = result]
  <2>1. to \in Records /\ to.pc = "done"
    BY <1>0 DEF Records, PassStates
  <2>2. reranking' = [reranking EXCEPT ![q] = to]
    BY <1>0, <1>2 DEF PassTypes, Records, Returns
  <2> HIDE DEF to
  <2> QED BY <1>0, <1>2, <2>1, <2>2, PassGoes DEF Asking, Active
<1>3. ASSUME reranking[q].pc \in Asking PROVE Asked(q) \in Hosted
  BY <1>0, <1>3, ChainIsHosted DEF PassTypes, PassOf, Records, Asked
<1>4. ASSUME NEW order \in {"rrf", "hosted", "bge"}, NEW scores \in {"none", "bge"},
             NEW actual \in Hosted \cup {"local", "rrf"}, NEW used \in BOOLEAN,
             NEW fallback \in BOOLEAN
      PROVE  Result(used, order, scores, actual, fallback) \in Results
  BY DEF Result, Results
<1>5. Ended(Own(q)) => scoring[Own(q)] \notin Active
  BY DEF Ended, Active
<1> USE DEF At, Asking, Early, PassStates
<1>6. CASE StartRerank(q)
  <2>1. /\ At(q, "start") /\ prescore[q] \notin {"queued", "running"}
        /\ scoring[Own(q)] \notin Active /\ UNCHANGED <<settings, prescore>>
    BY <1>0, <1>6 DEF PassOf, StartRerank
  <2>2. \/ Returns(q, Untouched("rrf", FALSE)) /\ UNCHANGED scoring
        \/ Goes(q, "local") /\ Scores(Own(q), "model")
        \/ Goes(q, "chain") /\ UNCHANGED scoring
    BY <1>6 DEF StartRerank, ScoresItself, BeginScoring
  <2> QED BY <1>1, <1>2, <1>4, <2>1, <2>2 DEF Untouched
<1>7. CASE TryProvider(q)
  <2>1. /\ At(q, "chain") /\ pass.at <= Len(Chain) /\ UNCHANGED <<settings, scoring>>
        /\ scoring[Own(q)] \notin Active
    BY <1>0, <1>7 DEF PassOf, TryProvider
  <2>2. CASE reranking' = [reranking EXCEPT ![q].at = @ + 1] /\ UNCHANGED prescore
    <3> DEFINE to == [pass EXCEPT !.at = pass.at + 1]
    <3>0. pass \in Records /\ pass.at + 1 \in Nat \ {0}
      BY <1>0 DEF PassTypes, Records
    <3>1. to \in Records /\ to.pc = "chain"
      BY <2>1, <3>0 DEF Records
    <3>2. reranking' = [reranking EXCEPT ![q] = to]
      BY <2>2
    <3> HIDE DEF to
    <3> QED BY <1>0, <2>1, <2>2, <3>1, <3>2, PassGoes
  <2>3. CASE Goes(q, "adapter") /\ UNCHANGED prescore
    BY <1>1, <2>1, <2>3
  <2>4. CASE /\ Goes(q, "adapter") /\ prescore[q] = "none"
             /\ prescore' = [prescore EXCEPT ![q] = "queued"]
    <3> DEFINE to == [pass EXCEPT !.pc = "adapter"]
    <3>1. /\ to \in Records /\ to.pc = "adapter" /\ to.at = pass.at
          /\ reranking' = [reranking EXCEPT ![q] = to]
      BY <1>0, <2>4 DEF PassTypes, Records, Goes
    <3> HIDE DEF to
    <3>2. "queued" \in PrescoreStates
      BY DEF PrescoreStates
    <3> QED BY <2>1, <2>4, <3>1, <3>2, PassGoes
  <2> QED BY <1>7, <2>2, <2>3, <2>4 DEF TryProvider
<1>8. CASE LookAtAdapter(q)
  <2>1. /\ At(q, "adapter") /\ scoring[Own(q)] \notin Active /\ pass.at <= Len(Chain)
        /\ UNCHANGED <<settings, prescore, scoring>>
        /\ Goes(q, "request") \/ Goes(q, "build")
    BY <1>0, <1>8 DEF PassOf, LookAtAdapter
  <2> QED BY <1>1, <2>1
<1>9. CASE BuildAdapter(q)
  <2>1. /\ At(q, "build") /\ scoring[Own(q)] \notin Active /\ pass.at <= Len(Chain)
        /\ UNCHANGED <<settings, prescore, scoring>> /\ Goes(q, "request")
    BY <1>0, <1>9 DEF PassOf, BuildAdapter
  <2> QED BY <1>1, <2>1
<1>10. CASE HostedOrders(q)
  <2>1. /\ At(q, "request") /\ scoring[Own(q)] \notin Active /\ pass.at <= Len(Chain)
        /\ UNCHANGED <<settings, prescore, scoring>> /\ Goes(q, "used")
    BY <1>0, <1>10 DEF PassOf, HostedOrders
  <2> QED BY <1>1, <2>1
<1>11. CASE HostedOutage(q) \/ HostedRefusal(q)
  <2>1. /\ At(q, "request") /\ scoring[Own(q)] \notin Active /\ pass.at <= Len(Chain)
        /\ UNCHANGED <<settings, prescore, scoring>>
    BY <1>0, <1>11 DEF PassOf, HostedOutage, HostedRefusal
  <2>2. \/ reranking' = [reranking EXCEPT ![q].retries = @ + 1]
        \/ reranking' = [reranking EXCEPT ![q].pc = "chain", ![q].at = @ + 1,
                                          ![q].retries = 0]
    BY <1>11 DEF HostedOutage, HostedRefusal
  <2>3. CASE reranking' = [reranking EXCEPT ![q].retries = @ + 1]
    <3> DEFINE to == [pass EXCEPT !.retries = @ + 1]
    <3>0. pass \in Records /\ pass.retries + 1 \in Nat
      BY <1>0 DEF PassTypes, Records
    <3>1. to \in Records /\ to.pc = "request" /\ to.at = pass.at
      BY <2>1, <3>0 DEF Records
    <3>2. reranking' = [reranking EXCEPT ![q] = to]
      BY <2>3
    <3> HIDE DEF to
    <3> QED BY <1>0, <2>1, <3>1, <3>2, PassGoes
  <2>4. CASE reranking' = [reranking EXCEPT ![q].pc = "chain", ![q].at = @ + 1,
                                            ![q].retries = 0]
    <3> DEFINE to == [pass EXCEPT !.pc = "chain", !.at = @ + 1, !.retries = 0]
    <3>1. /\ to \in Records /\ to.pc = "chain" /\ reranking' = [reranking EXCEPT ![q] = to]
      BY <1>0, <2>4 DEF PassTypes, Records
    <3> HIDE DEF to
    <3> QED BY <1>0, <2>1, <3>1, PassGoes
  <2> QED BY <2>2, <2>3, <2>4
<1>12. CASE UsePrescore(q)
  <2>1. /\ At(q, "used") /\ scoring[Own(q)] \notin Active /\ pass.at <= Len(Chain)
        /\ UNCHANGED <<settings, prescore>> /\ prescore[q] \notin {"queued", "running"}
    BY <1>0, <1>12 DEF PassOf, UsePrescore, Collected
  <2>2. \/ /\ Returns(q, Result(TRUE, "hosted", "bge", Asked(q), Asked(q) # settings.provider))
           /\ UNCHANGED scoring
        \/ Goes(q, "confirm") /\ Scores(Own(q), "model")
    BY <1>12 DEF UsePrescore, ScoresItself, BeginScoring
  <2> QED BY <1>1, <1>2, <1>3, <1>4, <2>1, <2>2
<1>13. CASE Confirm(q)
  <2>1. /\ At(q, "confirm") /\ scoring[Own(q)] \notin Active
        /\ UNCHANGED <<settings, prescore>> /\ prescore[q] \notin {"queued", "running"}
    BY <1>0, <1>5, <1>13 DEF PassOf, Confirm
  <2>2. \/ /\ Returns(q, Result(TRUE, "hosted", "bge", Asked(q), Asked(q) # settings.provider))
           /\ UNCHANGED scoring
        \/ Goes(q, "fallback") /\ Scores(Own(q), "model")
    BY <1>13 DEF Confirm, ScoresItself, BeginScoring
  <2> QED BY <1>1, <1>2, <1>3, <1>4, <2>1, <2>2
<1>14. CASE GiveUpOnHosted(q)
  <2>1. /\ At(q, "chain") /\ scoring[Own(q)] \notin Active
        /\ UNCHANGED <<settings, prescore>> /\ prescore[q] \notin {"queued", "running"}
    BY <1>0, <1>14 DEF PassOf, GiveUpOnHosted, Collected
  <2>2. \/ Returns(q, Untouched("rrf", TRUE)) /\ UNCHANGED scoring
        \/ Goes(q, "fallback") /\ Scores(Own(q), "model")
    BY <1>14 DEF GiveUpOnHosted, ScoresItself, BeginScoring
  <2> QED BY <1>1, <1>2, <1>4, <2>1, <2>2 DEF Untouched
<1>15. CASE LocalResult(q)
  <2>1. /\ At(q, "local") \/ At(q, "fallback")
        /\ scoring[Own(q)] \notin Active /\ UNCHANGED <<settings, prescore, scoring>>
        /\ prescore[q] \notin {"queued", "running"}
    BY <1>0, <1>5, <1>15 DEF PassOf, LocalResult
  <2>2. \/ Returns(q, Result(TRUE, "bge", "bge", "local", At(q, "fallback")))
        \/ Returns(q, Untouched("local", At(q, "fallback")))
    BY <1>15 DEF LocalResult
  <2> QED BY <1>2, <1>4, <2>1, <2>2 DEF Untouched
<1> QED BY <1>6, <1>7, <1>8, <1>9, <1>10, <1>11, <1>12, <1>13, <1>14, <1>15 DEF RerankStep

\* The pool takes up what a pass waits for, and a scoring pass that ended is over.
LEMMA ScoringKeepsPasses ==
  ASSUME PassInv, UNCHANGED <<settings, serving, reranking>>,
         \/ \E q \in Queries : PrescoreStep(q)
         \/ \E s \in Scorers : ScoreStep(s) /\ UNCHANGED prescore
  PROVE  PassInv'
<1> USE ScorersAreThreads
<1>0. ASSUME NEW q \in Queries
      PROVE  /\ serving[q] \in RequestStates /\ reranking[q] \in Records
             /\ scoring[Own(q)] \in ScoringStates /\ scoring[Pool(q)] \in ScoringStates
             /\ reranking[q].pc = "idle" <=> serving[q] # "rerank"
             /\ reranking[q].pc \in Asking => reranking[q].at <= Len(Chain)
             /\ prescore[q] \in {"queued", "running"} => reranking[q].pc \in Early
             /\ scoring[Own(q)] \in Active => reranking[q].pc \in {"local", "confirm", "fallback"}
             /\ scoring[Pool(q)] \in Active => prescore[q] = "running"
             /\ serving' = [serving EXCEPT ![q] = serving[q]]
             /\ reranking' = [reranking EXCEPT ![q] = reranking[q]]
  BY DEF PassInv, PassTypes, PassOf, At
<1> USE DEF PassInv, PassTypes, PrescoreStates, ScoringStates
<1>a. Chain' = Chain
  BY DEF Chain
<1>1. ASSUME NEW q \in Queries, StartPrescore(q) PROVE PassInv'
  <2>1. /\ prescore' = [prescore EXCEPT ![q] = "running"] /\ prescore[q] = "queued"
        /\ scoring' = [scoring EXCEPT ![Pool(q)] = "model"]
    BY <1>1 DEF StartPrescore, BeginScoring, Scores
  <2>2. PassTypes'
    BY <2>1
  <2>3. PassOf(q)'
    BY <1>0, <1>a, <2>1 DEF PassOf, At
  <2> QED BY <2>1, <2>2, <2>3, Elsewhere
<1>2. ASSUME NEW q \in Queries, EndPrescore(q) PROVE PassInv'
  <2>1. /\ prescore' = [prescore EXCEPT ![q] = "done"] /\ scoring[Pool(q)] \notin Active
        /\ UNCHANGED scoring
    BY <1>2 DEF EndPrescore, Ended, Active
  <2>2. PassTypes'
    BY <2>1
  <2>3. PassOf(q)'
    BY <1>0, <1>a, <2>1 DEF PassOf, At
  <2> QED BY <2>1, <2>2, <2>3, Elsewhere
<1>3. ASSUME NEW s \in Scorers, ScoreStep(s), UNCHANGED prescore PROVE PassInv'
  <2>1. \E to \in ScoringStates : Scores(s, to)
    BY <1>3 DEF ScoreStep, Enqueue, AcquirePermit, QueueTimeout, Predict, PredictFails,
                ScoringStates
  <2>2. scoring[s] \in Active
    BY <1>3 DEF ScoreStep, Enqueue, AcquirePermit, QueueTimeout, Predict, PredictFails, Active
  <2>3. \E q \in Queries : s = Own(q) \/ s = Pool(q)
    BY DEF Scorers, Own, Pool
  <2>4. Chain' = Chain
    BY DEF Chain
  <2>5. ASSUME NEW r \in Queries
        PROVE  /\ scoring'[Own(r)] \in Active => scoring[Own(r)] \in Active
               /\ scoring'[Pool(r)] \in Active => scoring[Pool(r)] \in Active
    BY <2>1, <2>2 DEF Scores, PassInv, PassTypes
  <2>6. PassTypes'
    BY <1>3, <2>1 DEF Scores, PassInv, PassTypes
  <2> QED BY <1>3, <2>4, <2>5, <2>6 DEF PassInv, PassOf, At
<1> QED BY <1>1, <1>2, <1>3 DEF PrescoreStep

\* A request enters its one pass, and leaves when the pass is done.
LEMMA RequestKeepsPasses ==
  ASSUME PassInv, NEW q \in Queries, QueryStep(q)
  PROVE  PassInv'
<1> USE ScorersAreThreads
<1>0. /\ serving[q] \in RequestStates /\ reranking[q] \in Records
      /\ prescore[q] \in PrescoreStates
      /\ scoring[Own(q)] \in ScoringStates /\ scoring[Pool(q)] \in ScoringStates
      /\ reranking[q].pc = "idle" <=> serving[q] # "rerank"
      /\ reranking[q].pc \in Asking => reranking[q].at <= Len(Chain)
      /\ prescore[q] \in {"queued", "running"} => reranking[q].pc \in Early
      /\ scoring[Own(q)] \in Active => reranking[q].pc \in {"local", "confirm", "fallback"}
      /\ scoring[Pool(q)] \in Active => prescore[q] = "running"
      /\ prescore = [prescore EXCEPT ![q] = prescore[q]]
      /\ serving = [serving EXCEPT ![q] = serving[q]]
      /\ reranking = [reranking EXCEPT ![q] = reranking[q]]
      /\ scoring = [scoring EXCEPT ![Own(q)] = scoring[Own(q)], ![Pool(q)] = scoring[Pool(q)]]
  BY DEF PassInv, PassTypes, PassOf, At
<1>1. ASSUME NEW to \in RequestStates \ {"rerank"}, serving[q] # "rerank", Serves(q, to),
             UNCHANGED <<settings, reranking, prescore, scoring>>
      PROVE  PassInv'
  <2>1. /\ serving' = [serving EXCEPT ![q] = to] /\ reranking[q].pc = "idle"
        /\ to \in RequestStates /\ to # "rerank"
    BY <1>0, <1>1 DEF Serves
  <2>2. PassTypes' /\ serving'[q] # "rerank"
    BY <1>1, <2>1 DEF PassInv, PassTypes
  <2>3. Chain' = Chain
    BY <1>1 DEF Chain
  <2>4. PassOf(q)'
    BY <1>0, <1>1, <2>1, <2>2, <2>3 DEF PassOf, At
  <2> QED BY <1>1, <2>1, <2>2, <2>4, Elsewhere DEF PassInv, PassTypes
<1>2. CASE Retrieve(q) /\ Serves(q, "rerank")
  <2> DEFINE to == [reranking[q] EXCEPT !.pc = "start"]
  <2>1. /\ to \in Records /\ to.pc = "start"
    BY <1>0 DEF Records, PassStates
  <2>2. /\ serving[q] = "embed" /\ UNCHANGED <<settings, prescore, scoring>>
    BY <1>2 DEF Retrieve
  <2>3. serving'[q] = "rerank"
    BY <1>2 DEF Serves, PassInv, PassTypes
  <2>4. reranking' = [reranking EXCEPT ![q].pc = "start"]
    BY <1>2, <2>3 DEF Retrieve, Serves, PassInv, PassTypes
  <2>5. reranking' = [reranking EXCEPT ![q] = to]
    BY <2>4
  <2> HIDE DEF to
  <2>6. "rerank" \in RequestStates /\ serving' = [serving EXCEPT ![q] = "rerank"]
    BY <1>2 DEF RequestStates, Serves
  <2>7. /\ ~(to.pc \in Asking) /\ ~(to.pc = "idle")
        /\ scoring[Own(q)] \notin Active /\ prescore[q] \notin {"queued", "running"}
    BY <1>0, <2>1, <2>2 DEF Asking, Early
  <2>8. PassTypes'
    BY <2>1, <2>2, <2>5, <2>6 DEF PassInv, PassTypes
  <2>9. PassOf(q)'
    BY <2>2, <2>3, <2>5, <2>7 DEF PassOf, At, PassInv, PassTypes
  <2> QED BY <2>2, <2>5, <2>6, <2>8, <2>9, Elsewhere DEF PassInv, PassTypes
<1>3. CASE Reranked(q)
  <2>1. /\ serving' = [serving EXCEPT ![q] = "graph"] /\ "graph" \in RequestStates
        /\ reranking' = [reranking EXCEPT ![q] = AtRest] /\ UNCHANGED settings
        /\ prescore' = [prescore EXCEPT ![q] = "none"] /\ "none" \in PrescoreStates
        /\ scoring' = [scoring EXCEPT ![Own(q)] = "idle", ![Pool(q)] = "idle"]
        /\ "idle" \in ScoringStates
    BY <1>3 DEF Reranked, Serves, RequestStates, PrescoreStates, ScoringStates
  <2>2. AtRest \in Records /\ AtRest.pc = "idle"
    BY DEF AtRest, Records, PassStates
  <2> QED BY <2>1, <2>2, OnePass DEF Asking, Active
<1>4. CASE Embed(q)
  <2>1. UNCHANGED PassVars
    BY <1>4 DEF Embed, PassVars
  <2>2. Chain' = Chain
    BY <2>1 DEF Chain, PassVars
  <2> QED BY <2>1, <2>2 DEF PassVars, PassInv, PassTypes, PassOf, At
<1>5. CASE ~Embed(q) /\ ~Reranked(q) /\ ~(Retrieve(q) /\ Serves(q, "rerank"))
  <2>1. /\ serving[q] # "rerank" /\ UNCHANGED <<settings, reranking, prescore, scoring>>
        /\ \E to \in RequestStates \ {"rerank"} : Serves(q, to)
    BY <1>5 DEF QueryStep, Admit, RefuseAdmission, TurnBack, Gate, RejectUnready, Retrieve,
                Complete, Fail, ProjectionFails, Release, Answer, RequestStates
  <2> QED BY <1>1, <2>1
<1> QED BY <1>2, <1>3, <1>4, <1>5

\* The rest leaves the passes as they are.
LEMMA PassStep == ASSUME PassInv, [Next]_vars PROVE PassInv'
<1>1. ASSUME UNCHANGED PassVars PROVE PassInv'
  <2>1. Chain' = Chain
    BY <1>1 DEF Chain, PassVars
  <2> QED BY <1>1, <2>1 DEF PassVars, PassInv, PassTypes, PassOf, At
<1>2. ASSUME NEW s \in Scorers, ScoreStep(s), UNCHANGED <<rerankVars, serviceVars>> PROVE PassInv'
  <2>1. UNCHANGED settings
    BY <1>2 DEF ScoreStep, Enqueue, AcquirePermit, QueueTimeout, Predict, PredictFails
  <2> QED BY <1>2, <2>1, ScoringKeepsPasses
<1>3. ASSUME NEW q \in Queries, PrescoreStep(q), UNCHANGED serviceVars PROVE PassInv'
  <2>1. UNCHANGED <<settings, reranking>>
    BY <1>3 DEF PrescoreStep, StartPrescore, EndPrescore
  <2> QED BY <1>3, <2>1, ScoringKeepsPasses
<1> QED BY <1>1, <1>2, <1>3, PassFrame, RerankKeepsPasses, RequestKeepsPasses

-----------------------------------------------------------------------------
(***************************************************************************)
(* The permits of the limiter.                                             *)
(***************************************************************************)
PermitInv == free \in Nat /\ PermitsReturn

\* At the start nobody predicts, and every permit is free.
LEMMA PermitInit == Init => PermitInv
<1> SUFFICES ASSUME Init PROVE PermitInv
  OBVIOUS
<1>1. {s \in Scorers : scoring[s] = "predict"} = {}
  BY DEF Init, ModelInit
<1>2. Cardinality({s \in Scorers : scoring[s] = "predict"}) = 0
  BY <1>1, FS_EmptySet
<1>3. free = MaxConcurrency /\ MaxConcurrency \in Nat
  BY ServiceAssumption DEF ServiceAssumption, Init, ModelInit
<1> QED BY <1>2, <1>3 DEF PermitInv, PermitsReturn

\* The actions that touch them; what a query forgets when it leaves its pass has ended.
LEMMA PermitFrame ==
  ASSUME PassInv, [Next]_vars
  PROVE  \/ \E s \in Scorers : ScoreStep(s)
         \/ /\ UNCHANGED free
            /\ \A s \in Scorers : scoring'[s] = "predict" <=> scoring[s] = "predict"
<1> USE ScorersAreThreads
<1> DEFINE Unmoved ==
             /\ UNCHANGED free
             /\ \A s \in Scorers : scoring'[s] = "predict" <=> scoring[s] = "predict"
<1>0. scoring \in [Scorers -> ScoringStates]
  BY DEF PassInv, PassTypes
<1>1. ASSUME NEW t \in Threads, LoadStep(t) PROVE Unmoved
  BY <1>1 DEF LoadStep, LookAtEmbedding, LockEmbedding, ImportFails, EmbeddingLoads,
              EmbeddingFails,
              LookAtCrossEncoder, LockCrossEncoder, CrossEncoderLoads, CrossEncoderFails
<1>2. ASSUME NEW s \in Scorers, scoring[s] # "predict", UNCHANGED free, Scores(s, "model")
      PROVE  Unmoved
  BY <1>0, <1>2 DEF Scores
<1>3. ASSUME NEW q \in Queries, RerankStep(q) PROVE Unmoved
  <2>1. scoring[Own(q)] = "predict" => reranking[q].pc \in {"local", "confirm", "fallback"}
    BY DEF PassInv, PassOf, Active
  <2>2. /\ UNCHANGED free
        /\ UNCHANGED scoring \/ (Scores(Own(q), "model") /\ scoring[Own(q)] # "predict")
    BY <1>3, <2>1
       DEF RerankStep, StartRerank, TryProvider, LookAtAdapter, BuildAdapter, HostedOrders,
           HostedOutage, HostedRefusal, UsePrescore, Confirm, GiveUpOnHosted, LocalResult,
           ScoresItself, BeginScoring, At, Ended
  <2> QED BY <1>2, <2>2
<1>4. ASSUME NEW q \in Queries, PrescoreStep(q) PROVE Unmoved
  <2>1. scoring[Pool(q)] = "predict" => prescore[q] = "running"
    BY DEF PassInv, PassOf, Active
  <2>2. /\ UNCHANGED free
        /\ UNCHANGED scoring \/ (Scores(Pool(q), "model") /\ scoring[Pool(q)] # "predict")
    BY <1>4, <2>1 DEF PrescoreStep, StartPrescore, EndPrescore, BeginScoring
  <2> QED BY <1>2, <2>2
<1>5. ASSUME NEW q \in Queries, Reranked(q) PROVE Unmoved
  <2>1. scoring[Own(q)] # "predict" /\ scoring[Pool(q)] # "predict"
    BY <1>5 DEF Reranked, PassInv, PassOf, Active, Early, At
  <2>2. /\ UNCHANGED free
        /\ scoring' = [scoring EXCEPT ![Own(q)] = "idle", ![Pool(q)] = "idle"]
    BY <1>5 DEF Reranked
  <2> QED BY <1>0, <2>1, <2>2
<1>6. ASSUME NEW q \in Queries, QueryStep(q), ~Reranked(q) PROVE Unmoved
  BY <1>6 DEF QueryStep, Admit, RefuseAdmission, TurnBack, Gate, RejectUnready, Embed, Retrieve,
              Complete, Fail, ProjectionFails, Release
<1>7. ASSUME NEW t \in Warmers, WarmStep(t) PROVE Unmoved
  BY <1>7 DEF WarmStep, BeginWarmup, EmbeddingWarm, RerankerWarm, WarmInference
<1>8. ASSUME NEW p \in Hosted, CooldownEnds(p) PROVE Unmoved
  BY <1>8 DEF CooldownEnds
<1>9. CallWarmup \/ Close \/ UNCHANGED vars => Unmoved
  BY DEF CallWarmup, Close, vars
<1> HIDE DEF Unmoved
<1> QED BY <1>1, <1>3, <1>4, <1>5, <1>6, <1>7, <1>8, <1>9 DEF Next, ModelStep, Unmoved

\* A permit is taken and given back by the scorer that enters or leaves an inference.
LEMMA PermitStep == ASSUME PassInv, PermitInv, [Next]_vars PROVE PermitInv'
<1> DEFINE F == {s \in Scorers : scoring[s] = "predict"}
           G == {s \in Scorers : scoring'[s] = "predict"}
           before == Cardinality(F)
           after == Cardinality(G)
<1>0. scoring \in [Scorers -> ScoringStates] /\ IsFiniteSet(F)
  BY ScorersAreFinite, FS_Subset DEF PassInv, PassTypes
<1>1. free \in Nat /\ free + before = MaxConcurrency
  BY DEF PermitInv, PermitsReturn
<1>2. ASSUME free' \in Nat, free' + after = MaxConcurrency PROVE PermitInv'
  BY <1>2 DEF PermitInv, PermitsReturn
<1>3. ASSUME NEW s \in Scorers, NEW to, Scores(s, to)
      PROVE  /\ before \in Nat /\ after \in Nat
             /\ (scoring[s] = "predict" <=> to = "predict") => after = before
             /\ scoring[s] = "predict" /\ to # "predict" => before = after + 1
             /\ scoring[s] # "predict" /\ to = "predict" => after = before + 1
  <2>1. /\ \A y : y # s => (y \in F <=> y \in G)
        /\ s \in F <=> scoring[s] = "predict"
        /\ s \in G <=> to = "predict"
    BY <1>0, <1>3 DEF Scores
  <2> HIDE DEF F, G
  <2> QED BY <1>0, <2>1, CountMoves
<1> HIDE DEF before, after
<1>4. ASSUME NEW s \in Scorers, Enqueue(s) \/ QueueTimeout(s) PROVE PermitInv'
  <2>1. UNCHANGED free /\ scoring[s] # "predict" /\ \E to : to # "predict" /\ Scores(s, to)
    BY <1>4 DEF Enqueue, QueueTimeout
  <2> QED BY <1>1, <1>2, <1>3, <2>1
<1>5. ASSUME NEW s \in Scorers, AcquirePermit(s) PROVE PermitInv'
  <2>1. /\ free > 0 /\ free' = free - 1 /\ scoring[s] # "predict"
        /\ Scores(s, "predict")
    BY <1>5 DEF AcquirePermit
  <2>2. after = before + 1 /\ before \in Nat /\ after \in Nat
    BY <1>3, <2>1
  <2> QED BY <1>1, <1>2, <2>1, <2>2
<1>6. ASSUME NEW s \in Scorers, Predict(s) \/ PredictFails(s) PROVE PermitInv'
  <2>1. /\ free' = free + 1 /\ scoring[s] = "predict"
        /\ \E to : to # "predict" /\ Scores(s, to)
    BY <1>6 DEF Predict, PredictFails
  <2>2. before = after + 1 /\ before \in Nat /\ after \in Nat
    BY <1>3, <2>1
  <2> QED BY <1>1, <1>2, <2>1, <2>2
<1>7. CASE /\ UNCHANGED free
           /\ \A s \in Scorers : scoring'[s] = "predict" <=> scoring[s] = "predict"
  <2>1. F = G
    BY <1>7
  <2>2. after = before
    BY <2>1 DEF before, after
  <2> QED BY <1>1, <1>2, <1>7, <2>2
<1> QED BY <1>4, <1>5, <1>6, <1>7, PermitFrame DEF ScoreStep

-----------------------------------------------------------------------------
(***************************************************************************)
(* The adapters.  One that was built is registered until the process       *)
(* closes it, and nobody builds then: no request is being reranked.        *)
(***************************************************************************)
AdapterInv ==
  /\ process \in {"serving", "stopped"}
  /\ adapters \in [Hosted -> [registered : BOOLEAN, built : Nat]]
  /\ \A p \in Hosted :
       /\ adapters[p].built <= 1
       /\ process = "serving" /\ ~adapters[p].registered => adapters[p].built = 0
  /\ process = "stopped" => \A q \in Queries : serving[q] \in {"new", "end"}

AdapterVars == <<process, adapters, serving>>

\* The actions that touch them.
LEMMA AdapterFrame ==
  ASSUME [Next]_vars
  PROVE  \/ \E q \in Queries : QueryStep(q) \/ (BuildAdapter(q) /\ UNCHANGED serviceVars)
         \/ Close
         \/ UNCHANGED AdapterVars
<1> USE DEF AdapterVars
<1>1. ModelStep => UNCHANGED AdapterVars
  BY DEF ModelStep
<1>2. ASSUME NEW q \in Queries, RerankStep(q) \/ PrescoreStep(q), ~BuildAdapter(q),
             UNCHANGED serviceVars
      PROVE  UNCHANGED AdapterVars
  BY <1>2 DEF RerankStep, StartRerank, TryProvider, LookAtAdapter, HostedOrders,
              HostedOutage, HostedRefusal, UsePrescore, Confirm, GiveUpOnHosted, LocalResult,
              PrescoreStep, StartPrescore, EndPrescore
<1>3. ASSUME NEW p \in Hosted, CooldownEnds(p), UNCHANGED serviceVars
      PROVE  UNCHANGED AdapterVars
  BY <1>3 DEF CooldownEnds
<1>4. ASSUME NEW t \in Warmers, WarmStep(t) PROVE UNCHANGED AdapterVars
  BY <1>4 DEF WarmStep, BeginWarmup, EmbeddingWarm, RerankerWarm, WarmInference
<1>5. CallWarmup \/ UNCHANGED vars => UNCHANGED AdapterVars
  BY DEF CallWarmup, vars
<1> QED BY <1>1, <1>2, <1>3, <1>4, <1>5 DEF Next

\* Nothing is built at the start.
LEMMA AdapterInit == Init => AdapterInv
BY DEF Init, RerankInit, AdapterInv

\* An adapter is built while its request keeps the process serving.
LEMMA AdapterStep == ASSUME PassInv, AdapterInv, [Next]_vars PROVE AdapterInv'
<1> USE DEF AdapterInv
<1>0. serving \in [Queries -> RequestStates]
  BY DEF PassInv, PassTypes
<1>1. ASSUME NEW q \in Queries, QueryStep(q) PROVE AdapterInv'
  <2>1. UNCHANGED <<process, adapters>>
    BY <1>1 DEF QueryStep, Admit, RefuseAdmission, TurnBack, Gate, RejectUnready, Embed,
                Retrieve, Reranked, Complete, Fail, ProjectionFails, Release
  <2>2. process = "stopped" => UNCHANGED serving
    BY <1>1 DEF QueryStep, Admit, RefuseAdmission, TurnBack, Gate, RejectUnready, Embed,
                Retrieve, Reranked, Complete, Fail, ProjectionFails, Release
  <2> QED BY <2>1, <2>2
<1>2. ASSUME NEW q \in Queries, BuildAdapter(q), UNCHANGED serviceVars PROVE AdapterInv'
  <2> DEFINE p == Asked(q)
  <2>1. process = "serving"
    <3>1. serving[q] = "rerank"
      BY <1>2 DEF BuildAdapter, PassInv, PassOf, At
    <3> QED BY <3>1
  <2>2. p \in Hosted
    BY <1>2, ChainIsHosted DEF BuildAdapter, PassInv, PassTypes, PassOf, At, Asking, Asked,
                               Records
  <2>3. \/ UNCHANGED adapters
        \/ /\ ~adapters[p].registered
           /\ adapters' = [adapters EXCEPT ![p] = [registered |-> TRUE, built |-> @.built + 1]]
    BY <1>2 DEF BuildAdapter
  <2>4. UNCHANGED <<process, serving>>
    BY <1>2
  <2> HIDE DEF p
  <2>5. CASE UNCHANGED adapters
    BY <2>4, <2>5
  <2>6. CASE /\ ~adapters[p].registered
             /\ adapters' = [adapters EXCEPT ![p] = [registered |-> TRUE, built |-> @.built + 1]]
    <3>1. adapters[p] \in [registered : BOOLEAN, built : Nat]
      BY <2>2
    <3>2. /\ adapters' \in [Hosted -> [registered : BOOLEAN, built : Nat]]
          /\ \A h \in Hosted \ {p} : adapters'[h] = adapters[h]
          /\ adapters'[p] = [registered |-> TRUE, built |-> adapters[p].built + 1]
      BY <2>2, <2>6, <3>1
    <3>3. adapters[p].built = 0
      BY <2>1, <2>2, <2>6
    <3> QED BY <2>1, <2>2, <2>4, <3>1, <3>2, <3>3
  <2> QED BY <2>3, <2>5, <2>6
<1>3. CASE Close
  <2>1. /\ process' = "stopped" /\ UNCHANGED serving
        /\ \A q \in Queries : serving[q] \in {"new", "end"}
        /\ adapters' = [p \in Hosted |-> [adapters[p] EXCEPT !.registered = FALSE]]
    BY <1>3 DEF Close
  <2> QED BY <2>1
<1>4. CASE UNCHANGED AdapterVars
  BY <1>4 DEF AdapterVars
<1> QED BY <1>1, <1>2, <1>3, <1>4, AdapterFrame

-----------------------------------------------------------------------------
(***************************************************************************)
(* What a pass returns.                                                    *)
(***************************************************************************)
Sound(r) ==
  r # None =>
    /\ r.used <=> r.scores = "bge"
    /\ ~r.used => r.order = "rrf"
    /\ r.order = "hosted" <=> r.actual \in Hosted

\* Every return of a pass: the fused order, the cross-encoder's, or a provider's with the
\* cross-encoder's scores.
LEMMA ReturnsAreSound ==
  ASSUME PassInv, NEW q \in Queries, RerankStep(q)
  PROVE  \/ reranking'[q].result = reranking[q].result
         \/ Sound(reranking'[q].result)
<1> DEFINE same == reranking'[q].result = reranking[q].result
<1>0. reranking \in [Queries -> Records] /\ PassTypes /\ PassOf(q)
  BY DEF PassInv, PassTypes
<1>1. ASSUME NEW pc, Goes(q, pc) PROVE same
  BY <1>0, <1>1 DEF Goes, Records
<1>2. ASSUME NEW result, Returns(q, result) PROVE reranking'[q].result = result
  BY <1>0, <1>2 DEF Returns, Records
<1>3. ASSUME NEW actual \in {"rrf", "local"}, NEW fallback PROVE Sound(Untouched(actual, fallback))
  BY <1>3 DEF Sound, Untouched, Result, Hosted
<1>4. ASSUME NEW fallback PROVE Sound(Result(TRUE, "bge", "bge", "local", fallback))
  BY DEF Sound, Result, Hosted
<1>5. ASSUME NEW fallback, reranking[q].pc \in Asking
      PROVE  Sound(Result(TRUE, "hosted", "bge", Asked(q), fallback))
  <2>1. Asked(q) \in Hosted
    BY <1>0, <1>5, ChainIsHosted DEF PassTypes, PassOf, Records, Asked
  <2> QED BY <2>1 DEF Sound, Result
<1>6. CASE StartRerank(q) \/ GiveUpOnHosted(q)
  <2>1. (\E pc : Goes(q, pc)) \/ (\E fallback : Returns(q, Untouched("rrf", fallback)))
    BY <1>6 DEF StartRerank, GiveUpOnHosted, ScoresItself
  <2> QED BY <1>1, <1>2, <1>3, <2>1
<1>7. CASE LookAtAdapter(q) \/ BuildAdapter(q) \/ HostedOrders(q)
  <2>1. \E pc : Goes(q, pc)
    BY <1>7 DEF LookAtAdapter, BuildAdapter, HostedOrders
  <2> QED BY <1>1, <2>1
<1>8. CASE TryProvider(q) \/ HostedOutage(q) \/ HostedRefusal(q)
  BY <1>0, <1>1, <1>8 DEF TryProvider, HostedOutage, HostedRefusal, Records
<1>9. CASE UsePrescore(q) \/ Confirm(q)
  <2>1. reranking[q].pc \in Asking
    BY <1>9 DEF UsePrescore, Confirm, At, Asking
  <2>2. \/ \E pc : Goes(q, pc)
        \/ \E fallback : Returns(q, Result(TRUE, "hosted", "bge", Asked(q), fallback))
    BY <1>9 DEF UsePrescore, Confirm, ScoresItself
  <2> QED BY <1>1, <1>2, <1>5, <2>1, <2>2
<1>10. CASE LocalResult(q)
  <2>1. \E fallback : \/ Returns(q, Result(TRUE, "bge", "bge", "local", fallback))
                      \/ Returns(q, Untouched("local", fallback))
    BY <1>10 DEF LocalResult
  <2> QED BY <1>2, <1>3, <1>4, <2>1
<1> QED BY <1>6, <1>7, <1>8, <1>9, <1>10 DEF RerankStep

OrdersInv == \A q \in Queries : Sound(reranking[q].result)

\* No pass has returned yet.
LEMMA OrdersInit == Init => OrdersInv
BY DEF Init, RerankInit, AtRest, OrdersInv, Sound

\* A request that enters or leaves its pass brings no result along.
LEMMA OrdersStep == ASSUME PassInv, OrdersInv, [Next]_vars PROVE OrdersInv'
<1>0. reranking \in [Queries -> Records]
  BY DEF PassInv, PassTypes
<1>1. ASSUME NEW q \in Queries, RerankStep(q) PROVE OrdersInv'
  <2>1. \A r \in Queries \ {q} : reranking'[r] = reranking[r]
    BY <1>0, <1>1
       DEF RerankStep, StartRerank, TryProvider, LookAtAdapter, BuildAdapter, HostedOrders,
           HostedOutage, HostedRefusal, UsePrescore, Confirm, GiveUpOnHosted, LocalResult,
           ScoresItself, Goes, Returns
  <2> QED BY <1>1, <2>1, ReturnsAreSound DEF OrdersInv
<1>2. ASSUME NEW q \in Queries, QueryStep(q) PROVE OrdersInv'
  <2>1. \/ UNCHANGED reranking
        \/ reranking' = [reranking EXCEPT ![q].pc = "start"]
        \/ reranking' = [reranking EXCEPT ![q] = AtRest]
    BY <1>2 DEF QueryStep, Admit, RefuseAdmission, TurnBack, Gate, RejectUnready, Embed,
                Retrieve, Reranked, Complete, Fail, ProjectionFails, Release
  <2>2. \A r \in Queries : reranking'[r].result \in {reranking[r].result, None}
    BY <1>0, <2>1 DEF AtRest, Records
  <2> QED BY <2>2 DEF OrdersInv, Sound
<1>3. CASE UNCHANGED reranking
  BY <1>3 DEF OrdersInv
<1>4. ASSUME NEW q \in Queries, PrescoreStep(q) PROVE UNCHANGED reranking
  BY <1>4 DEF PrescoreStep, StartPrescore, EndPrescore
<1>5. ASSUME NEW p \in Hosted, CooldownEnds(p) PROVE UNCHANGED reranking
  BY <1>5 DEF CooldownEnds
<1>6. ASSUME NEW t \in Warmers, WarmStep(t) PROVE UNCHANGED reranking
  BY <1>6 DEF WarmStep, BeginWarmup, EmbeddingWarm, RerankerWarm, WarmInference
<1>7. ModelStep \/ CallWarmup \/ Close \/ UNCHANGED vars => UNCHANGED reranking
  BY DEF ModelStep, CallWarmup, Close, vars
<1> QED BY <1>1, <1>2, <1>3, <1>4, <1>5, <1>6, <1>7 DEF Next

-----------------------------------------------------------------------------
(***************************************************************************)
(* The counters of the requests.                                           *)
(***************************************************************************)
Counters == [admitted : Nat, completed : Nat, failed : Nat, rejected : Nat, in_flight : Nat]
Working == {"admitted", "gate", "embed", "rerank", "graph"}
Holding == Working \cup {"answered"}
In(states) == {q \in Queries : serving[q] \in states}
Missed == {q \in Queries : answers[q] = "error"}

\* A request is answered once.
AnswersInv ==
  /\ answers \in [Queries -> Responses]
  /\ \A q \in Queries : serving[q] \in {"new"} \cup Working => answers[q] = "none"

CountersInv == counters \in Counters /\ AnswersInv /\ CountersAddUp

\* What is counted, by its name.
LEMMA CountersNamed ==
  /\ CountersAddUp <=>
       /\ counters.admitted = counters.completed + counters.failed + Cardinality(Missed)
                              + Cardinality(In(Working))
       /\ counters.in_flight = Cardinality(In(Holding))
  /\ CountersAddUp' <=>
       /\ counters'.admitted = counters'.completed + counters'.failed + Cardinality(Missed')
                               + Cardinality(In(Working)')
       /\ counters'.in_flight = Cardinality(In(Holding)')
BY DEF CountersAddUp, In, Missed, Working, Holding

\* Nobody is under way at the start.
LEMMA CountersInit == Init => CountersInv
<1> SUFFICES ASSUME Init PROVE CountersInv
  OBVIOUS
<1>1. In(Working) = {} /\ In(Holding) = {} /\ Missed = {}
  BY DEF Init, In, Missed, Working, Holding
<1>2. Cardinality(In(Working)) = 0 /\ Cardinality(In(Holding)) = 0 /\ Cardinality(Missed) = 0
  BY <1>1, FS_EmptySet
<1>3. counters = [admitted |-> 0, completed |-> 0, failed |-> 0, rejected |-> 0,
                  in_flight |-> 0]
  BY DEF Init
<1>4. AnswersInv
  BY DEF Init, AnswersInv, Responses
<1> QED BY <1>2, <1>3, <1>4, CountersNamed DEF CountersInv, Counters

\* A request moves from one state to another.
LEMMA RequestMoves ==
  ASSUME PassInv, NEW q \in Queries, NEW to, Serves(q, to), NEW S
  PROVE  /\ Cardinality(In(S)) \in Nat /\ Cardinality(In(S)') \in Nat
         /\ (serving[q] \in S <=> to \in S) => Cardinality(In(S)') = Cardinality(In(S))
         /\ serving[q] \in S /\ to \notin S => Cardinality(In(S)) = Cardinality(In(S)') + 1
         /\ serving[q] \notin S /\ to \in S => Cardinality(In(S)') = Cardinality(In(S)) + 1
<1>1. IsFiniteSet(In(S))
  BY FS_Subset, ServiceAssumption DEF ServiceAssumption, In
<1>2. /\ \A y : y # q => (y \in In(S) <=> y \in In(S)')
      /\ q \in In(S) <=> serving[q] \in S
      /\ q \in In(S)' <=> to \in S
  BY DEF Serves, In, PassInv, PassTypes
<1> QED BY <1>1, <1>2, CountMoves

\* Its answer is an error, or is not.
LEMMA RequestAnswered ==
  ASSUME AnswersInv, NEW q \in Queries, serving[q] \in Working, NEW response, Answers(q, response)
  PROVE  /\ Cardinality(Missed) \in Nat
         /\ response # "error" => Cardinality(Missed') = Cardinality(Missed)
         /\ response = "error" => Cardinality(Missed') = Cardinality(Missed) + 1
<1>1. IsFiniteSet(Missed)
  BY FS_Subset, ServiceAssumption DEF ServiceAssumption, Missed
<1>2. /\ \A y : y # q => (y \in Missed <=> y \in Missed')
      /\ q \notin Missed
      /\ q \in Missed' <=> response = "error"
  BY DEF Answers, Missed, AnswersInv
<1> QED BY <1>1, <1>2, CountMoves

\* The actions that touch the counters or the requests.
LEMMA CountersFrame ==
  ASSUME [Next]_vars
  PROVE  (\E q \in Queries : QueryStep(q)) \/ UNCHANGED <<counters, serving, answers>>
<1>1. ModelStep => UNCHANGED <<counters, serving, answers>>
  BY DEF ModelStep
<1>2. ASSUME NEW t \in Warmers, WarmStep(t) PROVE UNCHANGED <<counters, serving, answers>>
  BY <1>2 DEF WarmStep, BeginWarmup, EmbeddingWarm, RerankerWarm, WarmInference
<1>3. CallWarmup \/ Close \/ UNCHANGED vars => UNCHANGED <<counters, serving, answers>>
  BY DEF CallWarmup, Close, vars
<1> QED BY <1>1, <1>2, <1>3 DEF Next

\* A request gets its answer when it stops being under way, or is refused.
LEMMA AnswersStep == ASSUME PassInv, AnswersInv, [Next]_vars PROVE AnswersInv'
<1> USE DEF AnswersInv, Working
<1>1. CASE UNCHANGED <<counters, serving, answers>>
  BY <1>1
<1>2. ASSUME NEW q \in Queries, QueryStep(q) PROVE AnswersInv'
  <2>1. \/ UNCHANGED serving /\ UNCHANGED answers
        \/ /\ UNCHANGED answers /\ serving[q] \in {"new"} \cup Working \cup {"answered"}
           /\ \E to \in Working : serving[q] # "answered" /\ Serves(q, to)
        \/ UNCHANGED answers /\ Serves(q, "end")
        \/ \E to \in {"answered", "end"}, response \in Responses :
             Serves(q, to) /\ Answers(q, response)
    BY <1>2 DEF QueryStep, Admit, RefuseAdmission, TurnBack, Gate, RejectUnready, Embed, Retrieve,
                Reranked, Complete, Fail, ProjectionFails, Release, Answer, Responses
  <2> QED BY <2>1 DEF Serves, Answers, PassInv, PassTypes
<1> QED BY <1>1, <1>2, CountersFrame

\* Each move is counted where it happens.
LEMMA CountersStep == ASSUME PassInv, CountersInv, [Next]_vars PROVE CountersInv'
<1> DEFINE working == Cardinality(In(Working))
           workingNow == Cardinality(In(Working)')
           holding == Cardinality(In(Holding))
           holdingNow == Cardinality(In(Holding)')
           missed == Cardinality(Missed)
           missedNow == Cardinality(Missed')
<1>0. /\ counters \in Counters /\ AnswersInv /\ AnswersInv'
      /\ counters.admitted = counters.completed + counters.failed + missed + working
      /\ counters.in_flight = holding
  BY CountersNamed, AnswersStep DEF CountersInv
<1>1. ASSUME counters' \in Counters,
             counters'.admitted = counters'.completed + counters'.failed + missedNow + workingNow,
             counters'.in_flight = holdingNow
      PROVE  CountersInv'
  BY <1>0, <1>1, CountersNamed DEF CountersInv, Counters
<1>2. ASSUME NEW q \in Queries, NEW to, Serves(q, to)
      PROVE  /\ working \in Nat /\ workingNow \in Nat /\ holding \in Nat /\ holdingNow \in Nat
             /\ (serving[q] \in Working <=> to \in Working) => workingNow = working
             /\ serving[q] \in Working /\ to \notin Working => working = workingNow + 1
             /\ serving[q] \notin Working /\ to \in Working => workingNow = working + 1
             /\ (serving[q] \in Holding <=> to \in Holding) => holdingNow = holding
             /\ serving[q] \in Holding /\ to \notin Holding => holding = holdingNow + 1
             /\ serving[q] \notin Holding /\ to \in Holding => holdingNow = holding + 1
  BY <1>2, RequestMoves
<1>a. ASSUME NEW q \in Queries, serving[q] \in Working, NEW response, Answers(q, response)
      PROVE  /\ response # "error" => missedNow = missed
             /\ response = "error" => missedNow = missed + 1
  BY <1>0, <1>a, RequestAnswered
<1>b. missed \in Nat
  BY FS_Subset, FS_CardinalityType, ServiceAssumption DEF ServiceAssumption, Missed
<1>c. UNCHANGED answers => missedNow = missed
  BY DEF Missed
<1>3. CASE UNCHANGED <<counters, serving, answers>>
  <2>1. In(Working)' = In(Working) /\ In(Holding)' = In(Holding)
    BY <1>3 DEF In
  <2> QED BY <1>0, <1>1, <1>3, <1>c, <2>1
<1>d. ASSUME NEW q \in Queries, RefuseAdmission(q) PROVE missedNow = missed
  <2>1. Missed' = Missed
    BY <1>0, <1>d DEF RefuseAdmission, Answers, Missed, AnswersInv
  <2> QED BY <2>1
<1> HIDE DEF working, workingNow, holding, holdingNow, missed, missedNow
<1> USE DEF Counters, Working, Holding
<1>4. ASSUME NEW q \in Queries, Admit(q) PROVE CountersInv'
  <2>1. /\ Serves(q, "admitted") /\ serving[q] = "new" /\ UNCHANGED answers
        /\ counters' = [counters EXCEPT !.admitted = @ + 1, !.in_flight = @ + 1]
    BY <1>4 DEF Admit
  <2>2. /\ working \in Nat /\ holding \in Nat /\ missedNow = missed
        /\ workingNow = working + 1 /\ holdingNow = holding + 1
    BY <1>2, <1>c, <2>1
  <2>3. counters.admitted + 1 \in Nat /\ counters.in_flight + 1 \in Nat
    BY <1>0
  <2>4. /\ counters' \in Counters /\ counters'.admitted = counters.admitted + 1
        /\ counters'.in_flight = counters.in_flight + 1
        /\ counters'.completed = counters.completed /\ counters'.failed = counters.failed
    BY <1>0, <2>1, <2>3
  <2> QED BY <1>0, <1>1, <1>b, <2>2, <2>4
<1>5. ASSUME NEW q \in Queries, RefuseAdmission(q) PROVE CountersInv'
  <2>1. /\ Serves(q, "end") /\ serving[q] = "new"
        /\ counters' = [counters EXCEPT !.rejected = @ + 1]
    BY <1>5 DEF RefuseAdmission
  <2>2. workingNow = working /\ holdingNow = holding /\ missedNow = missed
    BY <1>2, <1>5, <1>d, <2>1
  <2> QED BY <1>0, <1>1, <2>1, <2>2
<1>6. ASSUME NEW q \in Queries, Gate(q) \/ Retrieve(q) \/ Reranked(q) PROVE CountersInv'
  <2>1. /\ UNCHANGED <<counters, answers>> /\ serving[q] \in Working
        /\ \E to \in Working : Serves(q, to)
    BY <1>6 DEF Gate, Retrieve, Reranked
  <2>2. workingNow = working /\ holdingNow = holding /\ missedNow = missed
    BY <1>2, <1>c, <2>1
  <2> QED BY <1>0, <1>1, <2>1, <2>2
<1>7. ASSUME NEW q \in Queries, RejectUnready(q) \/ Complete(q) \/ Fail(q) PROVE CountersInv'
  <2>1. /\ Serves(q, "answered") /\ serving[q] \in Working
        /\ \E response : response # "error" /\ Answers(q, response)
        /\ \/ counters' = [counters EXCEPT !.completed = @ + 1]
           \/ counters' = [counters EXCEPT !.failed = @ + 1]
    BY <1>7 DEF RejectUnready, Complete, Fail, Answer
  <2>2. /\ working = workingNow + 1 /\ holdingNow = holding /\ workingNow \in Nat
        /\ missedNow = missed
    BY <1>2, <1>a, <2>1
  <2>3. CASE counters' = [counters EXCEPT !.completed = @ + 1]
    BY <1>0, <1>1, <1>b, <2>2, <2>3
  <2>4. CASE counters' = [counters EXCEPT !.failed = @ + 1]
    BY <1>0, <1>1, <1>b, <2>2, <2>4
  <2> QED BY <2>1, <2>3, <2>4
<1>8. ASSUME NEW q \in Queries, TurnBack(q) \/ ProjectionFails(q) PROVE CountersInv'
  <2>1. /\ Serves(q, "answered") /\ serving[q] \in Working /\ Answers(q, "error")
        /\ UNCHANGED counters
    BY <1>8 DEF TurnBack, ProjectionFails, Answer
  <2>2. /\ working = workingNow + 1 /\ holdingNow = holding /\ workingNow \in Nat
        /\ missedNow = missed + 1
    BY <1>2, <1>a, <2>1
  <2> QED BY <1>0, <1>1, <1>b, <2>1, <2>2
<1>9. ASSUME NEW q \in Queries, Release(q) PROVE CountersInv'
  <2>1. /\ Serves(q, "end") /\ serving[q] = "answered" /\ UNCHANGED answers
        /\ counters' = [counters EXCEPT !.in_flight = IF @ > 0 THEN @ - 1 ELSE 0]
    BY <1>9 DEF Release
  <2>2. /\ workingNow = working /\ holding = holdingNow + 1 /\ holdingNow \in Nat
        /\ missedNow = missed
    BY <1>2, <1>c, <2>1
  <2> QED BY <1>0, <1>1, <2>1, <2>2
<1>10. ASSUME NEW q \in Queries, Embed(q) PROVE CountersInv'
  BY <1>3, <1>10 DEF Embed
<1> QED BY <1>3, <1>4, <1>5, <1>6, <1>7, <1>8, <1>9, <1>10, CountersFrame DEF QueryStep

-----------------------------------------------------------------------------
(***************************************************************************)
(* What holds in every run of the process.                                 *)
(***************************************************************************)
ServiceInv == /\ EmbeddingInv /\ CrossEncoderInv /\ PassInv
              /\ PermitInv /\ AdapterInv /\ OrdersInv /\ CountersInv

\* The invariants hold together.
LEMMA ServiceInvariant == Spec => []ServiceInv
<1>1. Init => ServiceInv
  BY EmbeddingInit, CrossEncoderInit, PassInit, PermitInit, AdapterInit, OrdersInit, CountersInit
     DEF ServiceInv
<1>2. ServiceInv /\ [Next]_vars => ServiceInv'
  BY EmbeddingStep, CrossEncoderStep, PassStep, PermitStep, AdapterStep, OrdersStep, CountersStep
     DEF ServiceInv
<1> QED BY <1>1, <1>2, PTL DEF Spec

\* The double-checked locks of get_embedding_model and _get_model and the limiter of
\* score_fixed_order_with_diagnostics do what they are there for, for any number of threads:
\* one load of the embedding model at a time and none by a query, no candidate for the
\* cross-encoder loaded twice, every permit returned, every adapter built at most once.
THEOREM SharedThingsAreSafe == Spec => []SharedSafely
<1>1. ServiceInv => SharedSafely
  <2> SUFFICES ASSUME ServiceInv PROVE SharedSafely
    OBVIOUS
  <2>1. OneLoad /\ LoadsStayOffQueries
    BY DEF ServiceInv, EmbeddingInv, CrossEncoderInv, CrossEncoderLoadsOf, OneLoad
  <2>2. PermitsReturn /\ OneAdapter
    BY DEF ServiceInv, PermitInv, AdapterInv, OneAdapter
  <2> QED BY <2>1, <2>2 DEF SharedSafely
<1> QED BY <1>1, ServiceInvariant, PTL

\* A result of rerank_with_diagnostics is scored by the cross-encoder or keeps the fused
\* order, and names a hosted provider exactly when it has that provider's order.
THEOREM ResultsAreScored == Spec => []OrdersAreScored
<1>1. ServiceInv => OrdersAreScored
  BY DEF ServiceInv, OrdersInv, Sound, OrdersAreScored
<1> QED BY <1>1, ServiceInvariant, PTL

\* A pass that returned has no overlapped scoring left in the pool, however many workers it has.
THEOREM PoolIsLeftAlone == Spec => []NothingLeftBehind
<1>1. ServiceInv => NothingLeftBehind
  BY DEF ServiceInv, PassInv, PassOf, NothingLeftBehind, At, Early
<1> QED BY <1>1, ServiceInvariant, PTL

\* runtime_metrics accounts for every admitted request but those that ended outside the
\* handler's try, however many those are, and its gauge for every lease, theirs included.
THEOREM RequestsAreCounted == Spec => []CountersAddUp
<1>1. ServiceInv => CountersAddUp
  BY DEF ServiceInv, CountersInv
<1> QED BY <1>1, ServiceInvariant, PTL

-----------------------------------------------------------------------------
(***************************************************************************)
(* The models implement SharedModel.  A thread asks only when it has no    *)
(* request under way.  A scorer has one only while its pass is in its      *)
(* first step, and a pass is not begun again before it is over.            *)
(***************************************************************************)
LoaderInv ==
  /\ \A t \in Threads : loader[t] = "load" => cross_encoder.lock = t /\ ~cross_encoder.loaded
  /\ \A s \in Scorers : loader[s] # "idle" => scoring[s] = "model"
  /\ RerankerWarms \/ \A t \in Warmers : loader[t] = "idle"

\* What only LookAt-, Lock- and the two ends of a load may do otherwise.
LoaderAsks ==
  /\ UNCHANGED cross_encoder
  /\ \/ UNCHANGED loader
     \/ \E t \in Threads : loader[t] = "idle" /\ LoaderGoes(t, "want")
     \/ \E t \in Threads : loader[t] \in {"model", "none"} /\ LoaderGoes(t, "idle")
  /\ \A s \in Scorers : loader'[s] # "idle" => scoring'[s] = "model"
  /\ RerankerWarms' \/ \A t \in Warmers : loader'[t] = "idle"

\* The four steps of _get_model.
LoaderSteps(t) ==
  \/ LookAtCrossEncoder(t) \/ LockCrossEncoder(t) \/ CrossEncoderLoads(t) \/ CrossEncoderFails(t)

\* Nobody has asked when the process starts.
LEMMA InitLoaderInv == Init => LoaderInv
BY ScorersAreThreads DEF Init, ModelInit, LoaderInv

\* A thread that begins a scoring pass has no request for the model under way.
LEMMA ScoringBegins ==
  ASSUME PassInv, CrossEncoderInv, LoaderInv, NEW s \in Scorers,
         scoring[s] \notin Active, BeginScoring(s), UNCHANGED <<settings, cross_encoder>>
  PROVE  LoaderAsks
<1> USE ScorersAreThreads DEF PassInv, PassTypes, CrossEncoderInv, LoaderInv
<1>1. loader[s] = "idle" /\ LoaderGoes(s, "want") /\ Scores(s, "model")
  BY DEF Active, BeginScoring
<1>2. \A r \in Scorers : loader'[r] # "idle" => scoring'[r] = "model"
  BY <1>1 DEF LoaderGoes, Scores
<1>3. RerankerWarms' \/ \A t \in Warmers : loader'[t] = "idle"
  BY <1>1 DEF LoaderGoes, RerankerWarms
<1> QED BY <1>1, <1>2, <1>3 DEF LoaderAsks

\* A step that concerns neither the loaders nor the scorers.
LEMMA LoadersRest ==
  ASSUME LoaderInv, UNCHANGED <<settings, cross_encoder, loader>>,
         \A s \in Scorers : scoring[s] = "model" => scoring'[s] = "model"
  PROVE  LoaderAsks
BY DEF LoaderInv, LoaderAsks, RerankerWarms

\* A scoring pass asks at its start and leaves with what it was told.
LEMMA ScoringAsks ==
  ASSUME PassInv, CrossEncoderInv, LoaderInv, NEW s \in Scorers, ScoreStep(s)
  PROVE  LoaderAsks
<1> USE ScorersAreThreads DEF PassInv, PassTypes, CrossEncoderInv, LoaderInv
<1>1. CASE Enqueue(s)
  <2>1. /\ loader[s] \in {"model", "none"} /\ LoaderGoes(s, "idle")
        /\ UNCHANGED <<settings, cross_encoder>>
    BY <1>1 DEF Enqueue
  <2>2. \A r \in Scorers : loader'[r] # "idle" => scoring'[r] = "model"
    BY <1>1 DEF Enqueue, LoaderGoes, Scores
  <2>3. RerankerWarms' \/ \A t \in Warmers : loader'[t] = "idle"
    BY <2>1 DEF LoaderGoes, RerankerWarms
  <2> QED BY <2>1, <2>2, <2>3 DEF LoaderAsks
<1>2. CASE AcquirePermit(s) \/ QueueTimeout(s) \/ Predict(s) \/ PredictFails(s)
  <2>1. /\ UNCHANGED <<settings, cross_encoder, loader>>
        /\ scoring[s] # "model" /\ \E to : Scores(s, to)
    BY <1>2 DEF AcquirePermit, QueueTimeout, Predict, PredictFails
  <2>2. \A r \in Scorers : scoring[r] = "model" => scoring'[r] = "model"
    BY <2>1 DEF Scores
  <2> QED BY <2>1, <2>2, LoadersRest
<1> QED BY <1>1, <1>2 DEF ScoreStep

\* A pass begins its scoring when none of its own is under way.
LEMMA RerankAsks ==
  ASSUME PassInv, CrossEncoderInv, LoaderInv, NEW q \in Queries,
         RerankStep(q) \/ PrescoreStep(q)
  PROVE  LoaderAsks
<1>1. PassOf(q) /\ Own(q) \in Scorers /\ Pool(q) \in Scorers
  BY ScorersAreThreads DEF PassInv
<1>2. UNCHANGED <<settings, cross_encoder>>
  BY DEF RerankStep, StartRerank, TryProvider, LookAtAdapter, BuildAdapter, HostedOrders,
         HostedOutage, HostedRefusal, UsePrescore, Confirm, GiveUpOnHosted, LocalResult,
         PrescoreStep, StartPrescore, EndPrescore
<1>3. \/ UNCHANGED <<loader, scoring>>
      \/ /\ StartRerank(q) \/ UsePrescore(q) \/ Confirm(q) \/ GiveUpOnHosted(q)
         /\ BeginScoring(Own(q))
      \/ StartPrescore(q) /\ BeginScoring(Pool(q))
  BY DEF RerankStep, StartRerank, TryProvider, LookAtAdapter, BuildAdapter, HostedOrders,
         HostedOutage, HostedRefusal, UsePrescore, Confirm, GiveUpOnHosted, LocalResult,
         PrescoreStep, StartPrescore, EndPrescore, ScoresItself
<1>4. StartRerank(q) \/ UsePrescore(q) \/ Confirm(q) \/ GiveUpOnHosted(q)
        => scoring[Own(q)] \notin Active
  BY <1>1 DEF PassOf, At, Active, StartRerank, UsePrescore, Confirm, GiveUpOnHosted, Ended
<1>5. StartPrescore(q) => scoring[Pool(q)] \notin Active
  BY <1>1 DEF PassOf, StartPrescore
<1> QED BY <1>1, <1>2, <1>3, <1>4, <1>5, ScoringBegins, LoadersRest

\* The request itself asks for no cross-encoder, and ends a pass only when it is over.
LEMMA RequestAsks ==
  ASSUME PassInv, CrossEncoderInv, LoaderInv, NEW q \in Queries, QueryStep(q)
  PROVE  LoaderAsks
<1>1. UNCHANGED <<settings, cross_encoder, loader>>
  BY DEF QueryStep, Admit, RefuseAdmission, TurnBack, Gate, RejectUnready, Embed, Retrieve,
         Reranked, Complete, Fail, ProjectionFails, Release
<1>2. UNCHANGED scoring \/ Reranked(q)
  BY DEF QueryStep, Admit, RefuseAdmission, TurnBack, Gate, RejectUnready, Embed, Retrieve,
         Complete, Fail, ProjectionFails, Release
<1>3. ASSUME Reranked(q)
      PROVE  \A s \in Scorers : scoring[s] = "model" => scoring'[s] = "model"
  <2>1. PassOf(q) /\ At(q, "done")
    BY <1>3 DEF PassInv, Reranked
  <2>2. scoring[Own(q)] # "model" /\ scoring[Pool(q)] # "model"
    BY <2>1 DEF PassOf, At, Active, Early
  <2>3. scoring' = [scoring EXCEPT ![Own(q)] = "idle", ![Pool(q)] = "idle"]
    BY <1>3 DEF Reranked
  <2> QED BY <2>2, <2>3, ScorersAreThreads DEF PassInv, PassTypes
<1> QED BY <1>1, <1>2, <1>3, LoadersRest

\* A warm-up asks for the cross-encoder only if it may be loaded, and once at a time.
LEMMA WarmupAsks ==
  ASSUME PassInv, CrossEncoderInv, LoaderInv, NEW t \in Warmers, WarmStep(t)
  PROVE  LoaderAsks
<1> USE ScorersAreThreads DEF CrossEncoderInv, LoaderInv
<1>1. UNCHANGED <<settings, cross_encoder, scoring>>
  BY DEF WarmStep, BeginWarmup, EmbeddingWarm, RerankerWarm, WarmInference
<1>2. \/ UNCHANGED loader
      \/ RerankerWarms /\ loader[t] = "idle" /\ LoaderGoes(t, "want")
      \/ ~RerankerWarms /\ LoaderGoes(t, "idle")
      \/ RerankerWarms /\ loader[t] \in {"model", "none"} /\ LoaderGoes(t, "idle")
  BY DEF WarmStep, BeginWarmup, EmbeddingWarm, RerankerWarm, WarmInference
<1>3. UNCHANGED RerankerWarms
  BY <1>1 DEF RerankerWarms
<1>4. CASE UNCHANGED loader
  BY <1>1, <1>4, LoadersRest
<1>5. CASE ~RerankerWarms /\ LoaderGoes(t, "idle")
  <2>1. UNCHANGED loader
    BY <1>5 DEF LoaderGoes
  <2> QED BY <1>1, <2>1, LoadersRest
<1>6. CASE RerankerWarms /\ \E to : LoaderGoes(t, to)
  <2>1. \A s \in Scorers : loader'[s] # "idle" => scoring'[s] = "model"
    BY <1>1, <1>6 DEF LoaderGoes
  <2> QED BY <1>1, <1>2, <1>3, <1>6, <2>1 DEF LoaderAsks
<1> QED BY <1>2, <1>4, <1>5, <1>6

\* Every step of the process is one of _get_model or leaves the model alone.
LEMMA LoaderFrame ==
  ASSUME PassInv, CrossEncoderInv, LoaderInv, [Next]_vars
  PROVE  \/ \E t \in Threads : LoaderSteps(t)
         \/ LoaderAsks
<1>1. ASSUME NEW t \in Threads, LoadStep(t) PROVE LoaderSteps(t) \/ LoaderAsks
  <2>1. CASE \/ LookAtEmbedding(t) \/ LockEmbedding(t)
             \/ ImportFails(t) \/ EmbeddingLoads(t) \/ EmbeddingFails(t)
    <3>1. UNCHANGED <<settings, cross_encoder, loader, scoring>>
      BY <2>1 DEF LookAtEmbedding, LockEmbedding, ImportFails, EmbeddingLoads, EmbeddingFails
    <3> QED BY <3>1, LoadersRest
  <2> QED BY <1>1, <2>1 DEF LoadStep, LoaderSteps
<1>2. CASE CallWarmup \/ Close \/ UNCHANGED vars \/ \E p \in Hosted : CooldownEnds(p)
  <2>1. UNCHANGED <<settings, cross_encoder, loader, scoring>>
    BY <1>2 DEF CallWarmup, Close, CooldownEnds, vars
  <2> QED BY <2>1, LoadersRest
<1> QED BY <1>1, <1>2, ScoringAsks, RerankAsks, RequestAsks, WarmupAsks DEF Next, ModelStep

\* The steps of _get_model, with the lock of the one that loads.
LEMMA LoaderStep ==
  ASSUME PassInv, CrossEncoderInv, LoaderInv, [Next]_vars
  PROVE  LoaderInv'
<1> USE ScorersAreThreads DEF CrossEncoderInv, LoaderInv
<1>1. ASSUME LoaderAsks PROVE LoaderInv'
  <2>1. \A t \in Threads : loader'[t] = "load" => loader[t] = "load"
    BY <1>1 DEF LoaderAsks, LoaderGoes
  <2> QED BY <1>1, <2>1 DEF LoaderAsks
<1>2. ASSUME NEW t \in Threads, LoaderSteps(t) PROVE LoaderInv'
  <2>1. UNCHANGED <<settings, scoring>> /\ loader[t] # "idle"
    BY <1>2 DEF LoaderSteps, LookAtCrossEncoder, LockCrossEncoder, CrossEncoderLoads,
                CrossEncoderFails
  <2>2. UNCHANGED loader \/ \E to \in LoaderStates : LoaderGoes(t, to)
    BY <1>2 DEF LoaderSteps, LookAtCrossEncoder, LockCrossEncoder, CrossEncoderLoads,
                CrossEncoderFails, Resident, LoaderStates
  <2>3. \A s \in Scorers : loader'[s] # "idle" => scoring'[s] = "model"
    BY <2>1, <2>2 DEF LoaderGoes
  <2>4. RerankerWarms' \/ \A w \in Warmers : loader'[w] = "idle"
    BY <2>1, <2>2 DEF LoaderGoes, RerankerWarms
  <2>5. \A u \in Threads : loader'[u] = "load"
                             => cross_encoder'.lock = u /\ ~cross_encoder'.loaded
    <3>1. CASE LookAtCrossEncoder(t)
      BY <3>1 DEF LookAtCrossEncoder, LoaderGoes, Resident
    <3>2. CASE LockCrossEncoder(t)
      <4>1. \A u \in Threads : loader[u] # "load"
        BY <3>2 DEF LockCrossEncoder
      <4>2. CASE cross_encoder.loaded \/ cross_encoder.attempted
        BY <3>2, <4>1, <4>2 DEF LockCrossEncoder, LoaderGoes, Resident
      <4>3. CASE ~(cross_encoder.loaded \/ cross_encoder.attempted)
        <5>1. LoaderGoes(t, "load") /\ cross_encoder'.lock = t /\ ~cross_encoder'.loaded
          BY <3>2, <4>3 DEF LockCrossEncoder
        <5> QED BY <4>1, <5>1 DEF LoaderGoes
      <4> QED BY <4>2, <4>3
    <3>3. CASE CrossEncoderLoads(t)
      BY <3>3 DEF CrossEncoderLoads, LoaderGoes
    <3>4. CASE CrossEncoderFails(t)
      <4>1. loader[t] = "load" /\ cross_encoder'.loaded = cross_encoder.loaded
        BY <3>4 DEF CrossEncoderFails
      <4>2. \A u \in Threads : loader[u] = "load" => u = t
        BY <4>1
      <4>3. \/ UNCHANGED loader /\ cross_encoder'.lock = cross_encoder.lock
            \/ LoaderGoes(t, "none")
        BY <3>4 DEF CrossEncoderFails
      <4> QED BY <4>1, <4>2, <4>3 DEF LoaderGoes
    <3> QED BY <1>2, <3>1, <3>2, <3>3, <3>4 DEF LoaderSteps
  <2> QED BY <2>3, <2>4, <2>5
<1> QED BY <1>1, <1>2, LoaderFrame


\* A load of the embedding model that was begun stays begun, and only LockEmbedding begins one.
TriedInv == \A t \in Threads : embedder[t] = "load" => EmbeddingTried

LEMMA TriedFrame ==
  ASSUME CrossEncoderInv, [Next]_vars
  PROVE  \/ UNCHANGED EmbeddingTried
         \/ \E t \in Threads : LockEmbedding(t) /\ ~embedding.loaded
<1> DEFINE it == <<"embedding", "device">>
<1>1. it \notin CrossEncoderLoadsOf /\ CrossEncoderLoadsOf \subseteq Loads /\ loads \in [Loads -> Nat]
  BY DEF CrossEncoderLoadsOf, CrossEncoderInv
<1> HIDE DEF it
<1>2. ASSUME NEW l \in CrossEncoderLoadsOf, loads' = [loads EXCEPT ![l] = @ + 1]
      PROVE  loads'[it] = loads[it]
  BY <1>1, <1>2
<1>3. ASSUME NEW t \in Threads, LockCrossEncoder(t) PROVE loads'[it] = loads[it]
  <2>1. Candidates[1] \in CrossEncoderLoadsOf
    BY CandidatesAreDistinct
  <2>2. loads' = loads \/ loads' = [loads EXCEPT ![Candidates[1]] = @ + 1]
    BY <1>3 DEF LockCrossEncoder
  <2> QED BY <1>2, <2>1, <2>2
<1>4. ASSUME NEW t \in Threads, CrossEncoderFails(t) PROVE loads'[it] = loads[it]
  <2>1. CASE cross_encoder.next < Len(Candidates)
    <3>1. Candidates[cross_encoder.next + 1] \in CrossEncoderLoadsOf
      BY <2>1, CandidatesAreDistinct DEF CrossEncoderInv
    <3>2. loads' = [loads EXCEPT ![Candidates[cross_encoder.next + 1]] = @ + 1]
      BY <1>4, <2>1 DEF CrossEncoderFails
    <3> QED BY <1>2, <3>1, <3>2
  <2>2. CASE ~(cross_encoder.next < Len(Candidates))
    BY <1>4, <2>2 DEF CrossEncoderFails
  <2> QED BY <2>1, <2>2
<1>5. ASSUME NEW t \in Threads, LockEmbedding(t), embedding.loaded PROVE loads' = loads
  BY <1>5 DEF LockEmbedding
<1>6. ASSUME NEW t \in Threads, CrossEncoderLoads(t) PROVE loads' = loads
  BY <1>6 DEF CrossEncoderLoads
<1>7. LoaderOnly => loads' = loads
  BY DEF LoaderOnly, CrossEncoderVars
<1>8. loads'[it] = loads[it] => UNCHANGED EmbeddingTried
  BY DEF EmbeddingTried, it
<1> QED BY <1>3, <1>4, <1>5, <1>6, <1>7, <1>8, CrossEncoderFrame

\* Who loads the embedding model found it missing under the lock.
LEMMA LoadBegins ==
  ASSUME EmbeddingInv, [Next]_vars, NEW t \in Threads, embedder'[t] = "load"
  PROVE  \/ embedder[t] = "load"
         \/ \E u \in Threads : LockEmbedding(u) /\ ~embedding.loaded
<1> USE ScorersAreThreads DEF EmbeddingInv
<1>1. ASSUME NEW u \in Threads, LookAtEmbedding(u) \/ ImportFails(u) \/ EmbeddingLoads(u)
                                  \/ EmbeddingFails(u)
      PROVE  embedder[t] = "load"
  BY <1>1 DEF LookAtEmbedding, ImportFails, EmbeddingLoads, EmbeddingFails, Embeds
<1>2. ASSUME NEW u \in Threads, LockEmbedding(u), embedding.loaded PROVE embedder[t] = "load"
  BY <1>2 DEF LockEmbedding, Embeds
<1>3. ASSUME NEW q \in Queries, QueryStep(q) PROVE embedder[t] = "load"
  <2>1. CASE Embed(q)
    BY <2>1 DEF Embed, WantsEmbedding
  <2>2. CASE Retrieve(q)
    BY <2>2 DEF Retrieve, Embeds
  <2>3. CASE ~Embed(q) /\ ~Retrieve(q)
    BY <1>3, <2>3 DEF QueryStep, Admit, RefuseAdmission, TurnBack, Gate, RejectUnready, Reranked,
                      Complete, Fail, ProjectionFails, Release
  <2> QED BY <2>1, <2>2, <2>3
<1>4. ASSUME NEW w \in Warmers, BeginWarmup(w) \/ EmbeddingWarm(w) PROVE embedder[t] = "load"
  BY <1>4 DEF BeginWarmup, EmbeddingWarm, WantsEmbedding, Embeds
<1>5. UNCHANGED EmbeddingVars => embedder[t] = "load"
  BY DEF EmbeddingVars
<1> QED BY <1>1, <1>2, <1>3, <1>4, <1>5, EmbeddingFrame

LEMMA TriedStep ==
  ASSUME EmbeddingInv, CrossEncoderInv, TriedInv, [Next]_vars
  PROVE  TriedInv'
<1>1. ASSUME NEW t \in Threads, LockEmbedding(t), ~embedding.loaded PROVE EmbeddingTried'
  <2> DEFINE it == <<"embedding", "device">>
  <2>1. it \in Loads /\ loads \in [Loads -> Nat]
    BY DEF Loads, CrossEncoderInv
  <2>2. loads' = [loads EXCEPT ![it] = @ + 1]
    BY <1>1 DEF LockEmbedding
  <2> HIDE DEF it
  <2>3. loads'[it] = loads[it] + 1 /\ loads[it] \in Nat
    BY <2>1, <2>2
  <2> QED BY <2>3 DEF EmbeddingTried, it
<1> QED BY <1>1, TriedFrame, LoadBegins DEF TriedInv

\* What the process does to the embedding model, as its threads see it.
LEMMA EmbeddingIsShared ==
  ASSUME EmbeddingInv, CrossEncoderInv, TriedInv, [Next]_vars
  PROVE  [EmbeddingModel!Next]_(EmbeddingModel!modelVars)
<1> DEFINE at(t) == ClientAt(embedder[t])
           clients == [t \in Threads |-> ClientAt(embedder[t])]
           status == StatusOf(embedding.loaded, embedding.lock, EmbeddingTried)
<1> USE ScorersAreThreads DEF EmbeddingInv
<1>0. \/ UNCHANGED EmbeddingTried
      \/ \E t \in Threads : LockEmbedding(t) /\ ~embedding.loaded
  BY TriedFrame
<1>1. ASSUME NEW t \in Threads, NEW to \in EmbedderStates,
             embedder' = [embedder EXCEPT ![t] = to]
      PROVE  EmbeddingModel!Goes(t, ClientAt(to))
  <2>1. clients' = [clients EXCEPT ![t] = ClientAt(to)]
    BY <1>1
  <2> QED BY <2>1 DEF EmbeddingModel!Goes
<1>2. ASSUME NEW t \in Threads, LookAtEmbedding(t) \/ LockEmbedding(t), embedding.loaded,
             UNCHANGED EmbeddingTried
      PROVE  EmbeddingModel!Serve(t)
  <2>1. /\ embedder[t] \in {"want", "wait"} /\ embedder' = [embedder EXCEPT ![t] = "ok"]
        /\ UNCHANGED embedding
    BY <1>2 DEF LookAtEmbedding, LockEmbedding, Embeds
  <2>2. clients[t] = "asked" /\ status = "loaded" /\ UNCHANGED status
    BY <1>2, <2>1 DEF ClientAt, StatusOf
  <2>3. EmbeddingModel!Goes(t, "served")
    BY <1>1, <2>1 DEF EmbedderStates, ClientAt
  <2> QED BY <2>2, <2>3 DEF EmbeddingModel!Serve
<1>3. ASSUME NEW t \in Threads, LookAtEmbedding(t), ~embedding.loaded, UNCHANGED EmbeddingTried
      PROVE  UNCHANGED EmbeddingModel!modelVars
  <2>1. /\ embedder[t] = "want" /\ embedder' = [embedder EXCEPT ![t] = "wait"]
        /\ UNCHANGED embedding
    BY <1>3 DEF LookAtEmbedding, Embeds
  <2>2. clients' = clients
    BY <2>1 DEF ClientAt
  <2>3. status' = status
    BY <1>3, <2>1
  <2> QED BY <2>2, <2>3 DEF EmbeddingModel!modelVars
<1>4. ASSUME NEW t \in Threads, LockEmbedding(t), ~embedding.loaded
      PROVE  EmbeddingModel!BeginLoad(t)
  <2>1. /\ embedder[t] = "wait" /\ embedding.lock = None
        /\ embedder' = [embedder EXCEPT ![t] = "load"]
        /\ embedding' = [embedding EXCEPT !.lock = t]
    BY <1>4 DEF LockEmbedding, Embeds
  <2>2. /\ clients[t] = "asked" /\ status \in {"absent", "failed"} /\ status' = "loading"
    BY <1>4, <2>1 DEF ClientAt, StatusOf
  <2>3. EmbeddingModel!Goes(t, "loading")
    BY <1>1, <2>1 DEF EmbedderStates, ClientAt
  <2> QED BY <2>2, <2>3 DEF EmbeddingModel!BeginLoad
<1>5. ASSUME NEW t \in Threads, UNCHANGED EmbeddingTried,
             ImportFails(t) \/ EmbeddingLoads(t) \/ EmbeddingFails(t)
      PROVE  EmbeddingModel!EndLoad(t)
  <2>1. clients[t] = "loading" /\ status = "loading"
    BY <1>5 DEF ImportFails, EmbeddingLoads, EmbeddingFails, ClientAt, StatusOf
  <2>2. CASE EmbeddingLoads(t)
    <3>1. EmbeddingModel!Goes(t, "served")
      BY <1>1, <2>2 DEF EmbeddingLoads, Embeds, EmbedderStates, ClientAt
    <3>2. status' = "loaded"
      BY <2>2 DEF EmbeddingLoads, StatusOf
    <3> QED BY <2>1, <3>1, <3>2 DEF EmbeddingModel!EndLoad
  <2>3. CASE ImportFails(t) \/ EmbeddingFails(t)
    <3>0. /\ embedder[t] = "load" /\ embedder' = [embedder EXCEPT ![t] = "failed"]
          /\ embedding'.lock = None /\ embedding'.loaded = embedding.loaded
      BY <2>3 DEF ImportFails, EmbeddingFails, Embeds
    <3>1. EmbeddingModel!Goes(t, "refused")
      BY <1>1, <3>0 DEF EmbedderStates, ClientAt
    <3>2. status' = "failed"
      <4>1. EmbeddingTried'
        BY <1>5, <3>0 DEF TriedInv
      <4> QED BY <3>0, <4>1 DEF StatusOf
    <3> QED BY <2>1, <3>1, <3>2 DEF EmbeddingModel!EndLoad
  <2> QED BY <1>5, <2>2, <2>3
<1>6. ASSUME NEW t \in Threads, embedder[t] = "idle", UNCHANGED <<embedding, EmbeddingTried>>,
             embedder' = [embedder EXCEPT ![t] = "want"]
      PROVE  EmbeddingModel!Ask(t)
  <2>1. EmbeddingModel!Goes(t, "asked")
    BY <1>1, <1>6 DEF EmbedderStates, ClientAt
  <2> QED BY <1>6, <2>1 DEF EmbeddingModel!Ask, ClientAt
<1>7. ASSUME NEW t \in Threads, embedder[t] \in {"ok", "failed"},
             UNCHANGED <<embedding, EmbeddingTried>>,
             embedder' = [embedder EXCEPT ![t] = "idle"]
      PROVE  EmbeddingModel!Leave(t)
  <2>1. EmbeddingModel!Goes(t, "idle")
    BY <1>1, <1>7 DEF EmbedderStates, ClientAt
  <2> QED BY <1>7, <2>1 DEF EmbeddingModel!Leave, ClientAt
<1>8. UNCHANGED <<embedding, embedder, EmbeddingTried>> => UNCHANGED EmbeddingModel!modelVars
  BY DEF EmbeddingModel!modelVars
<1>9. ASSUME NEW q \in Queries, QueryStep(q), UNCHANGED EmbeddingTried
      PROVE  [EmbeddingModel!Next]_(EmbeddingModel!modelVars)
  <2>1. CASE Embed(q)
    BY <1>6, <1>9, <2>1 DEF Embed, WantsEmbedding, EmbeddingModel!Next
  <2>2. CASE Retrieve(q)
    BY <1>7, <1>9, <2>2 DEF Retrieve, Embeds, EmbeddingModel!Next
  <2>3. CASE ~Embed(q) /\ ~Retrieve(q)
    <3>1. UNCHANGED <<embedding, embedder>>
      BY <1>9, <2>3 DEF QueryStep, Admit, RefuseAdmission, TurnBack, Gate, RejectUnready,
                        Reranked, Complete, Fail, ProjectionFails, Release
    <3> QED BY <1>8, <1>9, <3>1
  <2> QED BY <2>1, <2>2, <2>3
<1>10. ASSUME NEW t \in Warmers, BeginWarmup(t) \/ EmbeddingWarm(t),
              UNCHANGED EmbeddingTried
       PROVE  [EmbeddingModel!Next]_(EmbeddingModel!modelVars)
  <2>1. \/ UNCHANGED <<embedding, embedder>>
        \/ /\ UNCHANGED embedding
           /\ \/ embedder[t] = "idle" /\ WantsEmbedding(t)
              \/ embedder[t] \in {"ok", "failed"} /\ Embeds(t, "idle")
    BY <1>10 DEF BeginWarmup, EmbeddingWarm
  <2> QED BY <1>6, <1>7, <1>8, <1>10, <2>1 DEF WantsEmbedding, Embeds, EmbeddingModel!Next
<1>11. UNCHANGED <<EmbeddingVars, EmbeddingTried>> => UNCHANGED EmbeddingModel!modelVars
  BY <1>8 DEF EmbeddingVars
<1>12. CASE \E t \in Threads : LockEmbedding(t) /\ ~embedding.loaded
  BY <1>4, <1>12 DEF EmbeddingModel!Next
<1>13. ASSUME UNCHANGED EmbeddingTried, ~\E t \in Threads : LockEmbedding(t) /\ ~embedding.loaded
       PROVE  [EmbeddingModel!Next]_(EmbeddingModel!modelVars)
  BY <1>2, <1>3, <1>5, <1>9, <1>10, <1>11, <1>13, EmbeddingFrame DEF EmbeddingModel!Next
<1> QED BY <1>0, <1>12, <1>13

\* What the process does to the cross-encoder, as its threads see it.
LEMMA CrossEncoderIsShared ==
  ASSUME PassInv, CrossEncoderInv, LoaderInv, [Next]_vars
  PROVE  [CrossEncoder!Next]_(CrossEncoder!modelVars)
<1> DEFINE clients == [t \in Threads |-> ClientAt(loader[t])]
           status == StatusOf(cross_encoder.loaded, cross_encoder.lock, cross_encoder.attempted)
<1> USE ScorersAreThreads DEF CrossEncoderInv, LoaderInv
<1>1. ASSUME NEW t \in Threads, NEW to \in LoaderStates, LoaderGoes(t, to)
      PROVE  CrossEncoder!Goes(t, ClientAt(to))
  <2>1. clients' = [clients EXCEPT ![t] = ClientAt(to)]
    BY <1>1 DEF LoaderGoes
  <2> QED BY <2>1 DEF CrossEncoder!Goes
<1>2. ASSUME NEW t \in Threads, LookAtCrossEncoder(t) \/ LockCrossEncoder(t),
             cross_encoder.loaded \/ cross_encoder.attempted
      PROVE  CrossEncoder!Serve(t) \/ CrossEncoder!TurnAway(t)
  <2>1. /\ loader[t] \in {"want", "wait"} /\ LoaderGoes(t, Resident)
        /\ UNCHANGED cross_encoder
    BY <1>2 DEF LookAtCrossEncoder, LockCrossEncoder
  <2>2. clients[t] = "asked" /\ UNCHANGED status
    BY <2>1 DEF ClientAt
  <2>3. CASE cross_encoder.loaded
    <3>1. status = "loaded"
      BY <2>3 DEF StatusOf
    <3>2. CrossEncoder!Goes(t, "served")
      BY <1>1, <2>1, <2>3 DEF LoaderStates, ClientAt, Resident
    <3> QED BY <2>2, <3>1, <3>2 DEF CrossEncoder!Serve
  <2>4. CASE ~cross_encoder.loaded
    <3>1. status \in {"loading", "failed"}
      BY <1>2, <2>4 DEF StatusOf
    <3>2. CrossEncoder!Goes(t, "refused")
      BY <1>1, <2>1, <2>4 DEF LoaderStates, ClientAt, Resident
    <3> QED BY <2>2, <3>1, <3>2 DEF CrossEncoder!TurnAway
  <2> QED BY <2>3, <2>4
<1>3. ASSUME NEW t \in Threads, LookAtCrossEncoder(t),
             ~(cross_encoder.loaded \/ cross_encoder.attempted)
      PROVE  UNCHANGED CrossEncoder!modelVars
  <2>1. loader[t] = "want" /\ LoaderGoes(t, "wait") /\ UNCHANGED cross_encoder
    BY <1>3 DEF LookAtCrossEncoder
  <2>2. clients' = clients
    BY <2>1 DEF ClientAt, LoaderGoes
  <2> QED BY <2>1, <2>2 DEF CrossEncoder!modelVars
<1>4. ASSUME NEW t \in Threads, LockCrossEncoder(t),
             ~(cross_encoder.loaded \/ cross_encoder.attempted)
      PROVE  CrossEncoder!BeginLoad(t)
  <2>1. /\ loader[t] = "wait" /\ cross_encoder.lock = None /\ LoaderGoes(t, "load")
        /\ cross_encoder' = [cross_encoder EXCEPT !.attempted = TRUE, !.lock = t]
    BY <1>4 DEF LockCrossEncoder
  <2>2. clients[t] = "asked" /\ status = "absent" /\ status' = "loading"
    BY <1>4, <2>1 DEF ClientAt, StatusOf
  <2>3. CrossEncoder!Goes(t, "loading")
    BY <1>1, <2>1 DEF LoaderStates, ClientAt
  <2> QED BY <2>2, <2>3 DEF CrossEncoder!BeginLoad
<1>5. ASSUME NEW t \in Threads, CrossEncoderLoads(t) PROVE CrossEncoder!EndLoad(t)
  <2>1. clients[t] = "loading" /\ status = "loading"
    BY <1>5 DEF CrossEncoderLoads, ClientAt, StatusOf
  <2>2. CrossEncoder!Goes(t, "served")
    BY <1>1, <1>5 DEF CrossEncoderLoads, LoaderStates, ClientAt
  <2>3. status' = "loaded"
    BY <1>5 DEF CrossEncoderLoads, StatusOf
  <2> QED BY <2>1, <2>2, <2>3 DEF CrossEncoder!EndLoad
<1>6. ASSUME NEW t \in Threads, CrossEncoderFails(t)
      PROVE  CrossEncoder!EndLoad(t) \/ UNCHANGED CrossEncoder!modelVars
  <2>1. clients[t] = "loading" /\ status = "loading" /\ loader[t] = "load"
    BY <1>6 DEF CrossEncoderFails, ClientAt, StatusOf
  <2>2. CASE UNCHANGED loader /\ cross_encoder'.lock = cross_encoder.lock
             /\ cross_encoder'.loaded = cross_encoder.loaded
    <3>1. UNCHANGED clients /\ status' = "loading"
      BY <2>1, <2>2 DEF StatusOf
    <3> QED BY <2>1, <3>1 DEF CrossEncoder!modelVars
  <2>3. CASE LoaderGoes(t, "none") /\ cross_encoder'.lock = None
             /\ cross_encoder'.loaded = cross_encoder.loaded /\ cross_encoder'.attempted
    <3>1. CrossEncoder!Goes(t, "refused")
      BY <1>1, <2>3 DEF LoaderStates, ClientAt
    <3>2. status' = "failed"
      BY <2>1, <2>3 DEF StatusOf
    <3> QED BY <2>1, <3>1, <3>2 DEF CrossEncoder!EndLoad
  <2>4. \/ /\ UNCHANGED loader
           /\ cross_encoder' = [cross_encoder EXCEPT !.error = TRUE, !.next = @ + 1]
        \/ /\ LoaderGoes(t, "none")
           /\ cross_encoder' = [cross_encoder EXCEPT !.error = TRUE, !.lock = None]
    BY <1>6 DEF CrossEncoderFails
  <2> QED BY <2>1, <2>2, <2>3, <2>4
<1>7. ASSUME LoaderAsks PROVE [CrossEncoder!Next]_(CrossEncoder!modelVars)
  <2>1. UNCHANGED status
    BY <1>7 DEF LoaderAsks
  <2>2. ASSUME UNCHANGED loader PROVE UNCHANGED CrossEncoder!modelVars
    BY <2>1, <2>2 DEF CrossEncoder!modelVars
  <2>3. ASSUME NEW t \in Threads, loader[t] = "idle", LoaderGoes(t, "want")
        PROVE  CrossEncoder!Ask(t)
    <3>1. CrossEncoder!Goes(t, "asked") /\ clients[t] = "idle"
      BY <1>1, <2>3 DEF LoaderStates, ClientAt
    <3> QED BY <2>1, <3>1 DEF CrossEncoder!Ask
  <2>4. ASSUME NEW t \in Threads, loader[t] \in {"model", "none"}, LoaderGoes(t, "idle")
        PROVE  CrossEncoder!Leave(t)
    <3>1. CrossEncoder!Goes(t, "idle") /\ clients[t] \in {"served", "refused"}
      BY <1>1, <2>4 DEF LoaderStates, ClientAt
    <3> QED BY <2>1, <3>1 DEF CrossEncoder!Leave
  <2> QED BY <1>7, <2>2, <2>3, <2>4 DEF LoaderAsks, CrossEncoder!Next
<1> QED BY <1>2, <1>3, <1>4, <1>5, <1>6, <1>7, LoaderFrame DEF LoaderSteps, CrossEncoder!Next

(***************************************************************************)
(* Each of the two models implements SharedModel, for any number of        *)
(* threads: the unlocked look, the lock and the second look are together   *)
(* one look, a load has one thread, the embedding model is tried again by  *)
(* the next thread that wants it, and the cross-encoder never.             *)
(***************************************************************************)
THEOREM ModelsAreShared == Spec => EmbeddingModel!Spec /\ CrossEncoder!Spec
<1>1. Init => EmbeddingModel!Init /\ CrossEncoder!Init
  <2> SUFFICES ASSUME Init PROVE EmbeddingModel!Init /\ CrossEncoder!Init
    OBVIOUS
  <2>1. settings.warm \in BOOLEAN
    BY ServiceAssumption DEF ServiceAssumption, Init
  <2>2. EmbeddingModel!Init
    <3>1. ~EmbeddingTried
      <4>1. loads = [l \in Loads |-> 0] /\ <<"embedding", "device">> \in Loads
        BY DEF Init, ModelInit, Loads
      <4> QED BY <4>1 DEF EmbeddingTried
    <3> QED BY <2>1, <3>1 DEF Init, ModelInit, EmbeddingModel!Init, StatusOf, ClientAt
  <2>3. CrossEncoder!Init
    BY <2>1 DEF Init, ModelInit, CrossEncoder!Init, StatusOf, ClientAt
  <2> QED BY <2>2, <2>3
<1>2. /\ Init => TriedInv
      /\ ServiceInv /\ TriedInv /\ [Next]_vars => TriedInv'
      /\ ServiceInv /\ LoaderInv /\ [Next]_vars => LoaderInv'
  <2>1. Init => TriedInv
    BY DEF Init, ModelInit, TriedInv
  <2> QED BY <2>1, TriedStep, LoaderStep DEF ServiceInv
<1>3. ServiceInv /\ TriedInv /\ LoaderInv /\ [Next]_vars
        => /\ [EmbeddingModel!Next]_(EmbeddingModel!modelVars)
           /\ [CrossEncoder!Next]_(CrossEncoder!modelVars)
  BY EmbeddingIsShared, CrossEncoderIsShared DEF ServiceInv
<1> QED BY <1>1, <1>2, <1>3, InitLoaderInv, ServiceInvariant, PTL
        DEF Spec, EmbeddingModel!Spec, CrossEncoder!Spec

\* The same, as the run checks it.
THEOREM SharedModelsPromise == Spec => SharedModelSpecs
<1>1. EmbeddingModel!Spec /\ CrossEncoder!Spec => SharedModelSpecs
  BY PTL DEF SharedModelSpecs, EmbeddingModel!Spec, CrossEncoder!Spec
<1> QED BY <1>1, ModelsAreShared, PTL

-----------------------------------------------------------------------------
(***************************************************************************)
(* The page that asks the service: its runs leave alone what the user      *)
(* typed, for any examples, any texts and any number of interactions.      *)
(***************************************************************************)
CONSTANTS Blank, NoExample, Examples, Typed, Askable, MaxRecent

VARIABLES question, example, applied, recent, view, status, service, pc, events, cause,
          composer, asked, onlyText

Page == INSTANCE Frontend

\* As long as the user only edits and asks, no selection waits to be applied, and a run that
\* nothing has cut off means to draw what is there; one that has drawn asks what is there.
ComposerInv ==
  /\ onlyText => events \subseteq {Page!EditEvent, Page!Ask} /\ example = applied
  /\ events = {} /\ onlyText /\ pc \in {"probing", "synced"} => composer = Page!Composer
  /\ events = {} /\ pc = "synced" => example = applied
  /\ events = {} /\ pc = "drawn" => composer.question = question
  /\ pc # "asking" => asked = None

\* A session starts without a selection and without a call.
LEMMA InitComposerInv == Page!Init => ComposerInv
  BY DEF Page!Init, ComposerInv

\* A run that is begun for edits and for Ask alone finds the composer as it is.
LEMMA NothingToApply ==
  ASSUME events \subseteq {Page!EditEvent, Page!Ask}
  PROVE  Page!AfterCallbacks = Page!Composer
<1>1. /\ Page!Clear \notin events
      /\ \A t \in Page!Texts : Page!Reuse(t) \notin events
  BY DEF Page!EditEvent, Page!Ask, Page!Clear, Page!Reuse
<1> QED BY <1>1 DEF Page!AfterCallbacks

\* An interaction leaves its event behind, and so a run it finds under way is cut off.
LEMMA InteractionStep ==
  ASSUME ComposerInv, NEW event, Page!Interact(event),
         event \in {Page!EditEvent, Page!Ask} => UNCHANGED example
  PROVE  ComposerInv'
<1>1. /\ events' = events \cup {event} /\ events' # {}
      /\ onlyText' = (onlyText /\ event \in {Page!EditEvent, Page!Ask})
      /\ UNCHANGED <<applied, asked>>
      /\ pc' # "asking" => pc # "asking"
  BY DEF Page!Interact, Page!session
<1>2. onlyText' => /\ events' \subseteq {Page!EditEvent, Page!Ask}
                   /\ example' = applied'
  BY <1>1 DEF ComposerInv
<1> QED BY <1>1, <1>2 DEF ComposerInv, Page!EditEvent, Page!Ask

\* Only a choice parts the selector from the marker, and what a run means to draw differs from
\* what is there only after a choice or a callback, which no later run forgets before it draws.
LEMMA ComposerStep == ASSUME ComposerInv, [Page!Next]_(Page!vars) PROVE ComposerInv'
<1> USE DEF Page!widgets, Page!session, Page!run, Page!CutOff
<1>1. ASSUME NEW t \in Typed, Page!Edit(t) PROVE ComposerInv'
  BY <1>1, InteractionStep DEF Page!Edit
<1>2. ASSUME NEW e \in Examples \cup {NoExample}, Page!Choose(e) PROVE ComposerInv'
  <2>1. Page!Interact(<<"choose">>) /\ <<"choose">> \notin {Page!EditEvent, Page!Ask}
    BY <1>2 DEF Page!Choose, Page!EditEvent, Page!Ask
  <2> QED BY <2>1, InteractionStep
<1>3. ASSUME NEW b, Page!Press(b) PROVE ComposerInv'
  BY <1>3, InteractionStep DEF Page!Press
<1>4. CASE (\E r \in Page!Readiness : Page!ServiceChanges(r)) \/ Page!ProbeExpires
  BY <1>4 DEF Page!ServiceChanges, Page!ProbeExpires, ComposerInv, Page!Composer,
              Page!EditEvent, Page!Ask
<1>5. CASE Page!Begin
  <2>1. onlyText => composer' = Page!Composer
    BY <1>5, NothingToApply DEF Page!Begin, ComposerInv
  <2>2. /\ pc' = "probing" /\ events' = {} /\ asked = None
        /\ UNCHANGED <<question, example, applied, asked, onlyText>>
    BY <1>5 DEF Page!Begin, ComposerInv
  <2> QED BY <2>1, <2>2 DEF ComposerInv, Page!Composer
<1>6. CASE Page!Sync
  <2>1. CASE events # {}
    <3>1. /\ pc' = "rerun" /\ asked = None
          /\ UNCHANGED <<question, example, applied, events, asked, onlyText>>
      BY <1>6, <2>1 DEF Page!Sync, ComposerInv
    <3> QED BY <3>1 DEF ComposerInv, Page!EditEvent, Page!Ask
  <2>2. CASE events = {}
    <3>1. /\ pc = "probing" /\ pc' = "synced" /\ asked = None
          /\ UNCHANGED <<question, events, asked, onlyText>>
          /\ example' = composer.example /\ applied' = composer.example
          /\ composer' = Page!SyncSelectedExample(composer)
      BY <1>6, <2>2 DEF Page!Sync, ComposerInv
    <3>2. onlyText => composer' = [question |-> question, example |-> example']
      BY <2>2, <3>1 DEF ComposerInv, Page!Composer, Page!SyncSelectedExample
    <3> QED BY <2>2, <3>1, <3>2 DEF ComposerInv, Page!Composer
  <2> QED BY <2>1, <2>2
<1>7. CASE Page!Draw
  <2>1. CASE events # {}
    <3>1. /\ pc' = "rerun" /\ asked = None
          /\ UNCHANGED <<question, example, applied, events, asked, onlyText>>
      BY <1>7, <2>1 DEF Page!Draw, ComposerInv
    <3> QED BY <3>1 DEF ComposerInv, Page!EditEvent, Page!Ask
  <2>2. CASE events = {}
    <3>1. /\ pc = "synced" /\ pc' = "drawn" /\ asked = None
          /\ UNCHANGED <<example, applied, events, asked, composer>>
          /\ question' = composer.question
      BY <1>7, <2>2 DEF Page!Draw, ComposerInv
    <3> QED BY <2>2, <3>1 DEF ComposerInv
  <2> QED BY <2>1, <2>2
<1>8. CASE Page!Submit
  <2>1. /\ UNCHANGED <<question, example, applied, events, onlyText>>
        /\ pc' \in {"rerun", "idle", "asking"}
        /\ pc' = "asking" \/ asked' = None
    BY <1>8 DEF Page!Submit, ComposerInv
  <2> QED BY <2>1 DEF ComposerInv, Page!EditEvent, Page!Ask
<1>9. ASSUME NEW r \in Page!Replies, Page!Receive(r) PROVE ComposerInv'
  <2>1. /\ UNCHANGED <<question, example, applied, events, onlyText>>
        /\ pc' \in {"rerun", "idle"} /\ asked' = None
    BY <1>9 DEF Page!Receive
  <2> QED BY <2>1 DEF ComposerInv, Page!EditEvent, Page!Ask
<1>10. CASE UNCHANGED Page!vars
  BY <1>10 DEF Page!vars, ComposerInv, Page!Composer, Page!EditEvent, Page!Ask
<1> QED BY <1>1, <1>2, <1>3, <1>4, <1>5, <1>6, <1>7, <1>8, <1>9, <1>10 DEF Page!Next

\* The step of EditsSurvive.
TextStays ==
  /\ Page!Draws /\ onlyText => question' = question
  /\ pc = "drawn" => asked' \in {None, question}

\* Drawing the composer keeps the text of the box when the user has only edited and asked
\* since it was drawn before, however many runs were cut off in between and whatever was
\* chosen, cleared or reused earlier; and Ask sends what the box holds.
THEOREM TypedTextIsKept == Page!Spec => Page!EditsSurvive
<1>1. ASSUME ComposerInv, [Page!Next]_(Page!vars) PROVE [TextStays]_(Page!vars)
  <2> SUFFICES ASSUME Page!Next PROVE TextStays
    BY <1>1
  <2> USE DEF Page!widgets, Page!session, Page!run, Page!CutOff
  <2>1. ASSUME NEW event, Page!Interact(event) PROVE TextStays
    BY <1>1, <2>1 DEF Page!Interact, Page!Draws, TextStays, ComposerInv
  <2>2. CASE (\E r \in Page!Readiness : Page!ServiceChanges(r)) \/ Page!ProbeExpires
    BY <1>1, <2>2 DEF Page!ServiceChanges, Page!ProbeExpires, Page!Draws, TextStays, ComposerInv
  <2>3. CASE Page!Begin \/ Page!Sync \/ \E r \in Page!Replies : Page!Receive(r)
    BY <2>3 DEF Page!Begin, Page!Sync, Page!Receive, Page!Draws, TextStays
  <2>4. CASE Page!Draw
    BY <1>1, <2>4 DEF Page!Draw, Page!Draws, Page!Composer, TextStays, ComposerInv
  <2>5. CASE Page!Submit
    BY <1>1, <2>5 DEF Page!Submit, Page!Draws, TextStays, ComposerInv
  <2> QED BY <2>1, <2>2, <2>3, <2>4, <2>5
          DEF Page!Next, Page!Edit, Page!Choose, Page!Press
<1> QED BY <1>1, InitComposerInv, ComposerStep, PTL DEF Page!Spec, Page!EditsSurvive, TextStays
=============================================================================
