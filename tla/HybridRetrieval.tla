--------------------------- MODULE HybridRetrieval ---------------------------
(***************************************************************************)
(* retrieval/hybrid.py: one retrieval, for one query or for several, with  *)
(* its BM25 search in a thread of its own while the query is embedded and  *)
(* the dense index is searched.  Meanwhile the table is ingested into and  *)
(* the two indexes are rebuilt, one after the other.                       *)
(*                                                                         *)
(* What a search ranks highest is any of the chunks it reads: scores are   *)
(* left out.  An ingestion that replaces a source gives its rows new ids;  *)
(* one that adds to it, with --no-reset, overwrites rows under their ids.  *)
(***************************************************************************)
EXTENDS RankFusion

CONSTANTS
  None,
  Tables,         \* the chunks table after each ingestion, a sequence
  DenseTopK, SparseTopK, FinalTopK,
  Configurations, \* [dedup, cap, memory], the settings that matter here
  MaxQueries      \* a bound: query variants of one retrieval

\* A table has finitely many rows, which have an id of their own and a place in their source.
ASSUME RetrievalAssumption ==
  /\ Tables # <<>> /\ Tables \in Seq(Range(Tables))
  /\ \A t \in DOMAIN Tables :
       /\ IsFiniteSet(Tables[t]) /\ \A c \in Tables[t] : c.id \in Int /\ c.index \in Int
       /\ \A c, d \in Tables[t] : c.id = d.id => c = d
  /\ \A c \in Configurations : c.cap \in Nat
  /\ {DenseTopK, SparseTopK, FinalTopK, MaxQueries} \subseteq Nat \ {0}
  /\ MaxRank >= DenseTopK /\ MaxRank >= SparseTopK /\ MaxRank >= FinalTopK
  /\ FinalTopK <= DenseTopK + SparseTopK

VARIABLES
  settings,
  table,     \* which of Tables the database holds
  bm25,      \* bm25._index: the chunks it was built over
  dense,     \* memory_index._index, likewise
  refresh,   \* refresh_corpus_indexes: the step it is at, the rows it fetched
  st,        \* where the thread of the retrieval is
  left,      \* queries it still has to search for
  sparse,    \* the future of the BM25 search, with its hits
  hits,      \* the hits of the dense search
  rankings,  \* the results of the queries so far
  results    \* what the retrieval returns

vars == <<settings, table, bm25, dense, refresh, st, left, sparse, hits, rankings, results>>
indexes == <<settings, table, bm25, dense, refresh>>
retrieval == <<st, left, sparse, hits, rankings, results>>

NoSearch == [st |-> "none", hits |-> <<>>]

Init ==
  /\ settings \in Configurations
  /\ table = 1
  /\ bm25 \in {None, Tables[1]}
  /\ dense \in IF settings.memory THEN {None, Tables[1]} ELSE {None}
  /\ refresh = [st |-> "idle", chunks |-> {}]
  /\ st = "submit" /\ left \in 1..MaxQueries
  /\ sparse = NoSearch /\ hits = <<>> /\ rankings = <<>> /\ results = None

-----------------------------------------------------------------------------
(***************************************************************************)
(* Around the retrieval: ingestion, and refresh_corpus_indexes.            *)
(***************************************************************************)
Ingest ==
  /\ table < Len(Tables)
  /\ table' = table + 1
  /\ UNCHANGED <<settings, bm25, dense, refresh>> /\ UNCHANGED retrieval

\* fetch_corpus_with_embeddings, one statement, which sees one state of the table.
Fetch ==
  /\ refresh.st = "idle"
  /\ refresh' = [st |-> "sparse", chunks |-> Tables[table]]
  /\ UNCHANGED <<settings, table, bm25, dense>> /\ UNCHANGED retrieval

InstallBM25 ==
  /\ refresh.st = "sparse"
  /\ bm25' = refresh.chunks
  /\ refresh' = [refresh EXCEPT !.st = "dense"]
  /\ UNCHANGED <<settings, table, dense>> /\ UNCHANGED retrieval

InstallDense ==
  /\ refresh.st = "dense"
  /\ dense' = IF settings.memory THEN refresh.chunks ELSE None
  /\ refresh' = [st |-> "idle", chunks |-> {}]
  /\ UNCHANGED <<settings, table, bm25>> /\ UNCHANGED retrieval

-----------------------------------------------------------------------------
(***************************************************************************)
(* retrieve_with_diagnostics.                                              *)
(***************************************************************************)
Ranked(chunks, lengths) ==
  {ranking \in UNION {[1..n -> chunks] : n \in lengths} : IsInjective(ranking)}

\* The nearest chunks there are, however far, unless the query has no vector.
Nearest(chunks) == Ranked(chunks, {0, Min({DenseTopK, Cardinality(chunks)})})

\* Only chunks with a word of the query.
Matching(chunks) == Ranked(chunks, 0..Min({SparseTopK, Cardinality(chunks)}))

Submit ==
  /\ st = "submit"
  /\ sparse' = [st |-> "running", hits |-> <<>>]
  /\ st' = "embed" /\ left' = left - 1
  /\ UNCHANGED <<hits, rankings, results>> /\ UNCHANGED indexes

\* sparse_search: get_bm25_index builds the index when there is none yet (CorpusIndex has
\* the steps of that).
SparseSearch ==
  LET index == IF bm25 = None THEN Tables[table] ELSE bm25 IN
  /\ sparse.st = "running"
  /\ bm25' = index
  /\ \E found \in Matching(index) : sparse' = [st |-> "done", hits |-> found]
  /\ UNCHANGED <<settings, table, dense, refresh, st, left, hits, rankings, results>>

SparseSearchFails ==
  /\ sparse.st = "running" /\ bm25 = None
  /\ sparse' = [st |-> "raised", hits |-> <<>>]
  /\ UNCHANGED <<st, left, hits, rankings, results>> /\ UNCHANGED indexes

Embed ==
  /\ st = "embed"
  /\ st' \in {"dense", "raised"}
  /\ UNCHANGED <<left, sparse, hits, rankings, results>> /\ UNCHANGED indexes

\* dense_search: in memory when there is an index, otherwise in the database.
InMemory == dense # None /\ settings.memory
DenseSearch ==
  /\ st = "dense"
  /\ hits' \in Nearest(IF InMemory THEN dense ELSE Tables[table])
  /\ st' = "join"
  /\ UNCHANGED <<left, sparse, rankings, results>> /\ UNCHANGED indexes

DenseSearchFails ==
  /\ st = "dense" /\ ~InMemory
  /\ st' = "raised"
  /\ UNCHANGED <<left, sparse, hits, rankings, results>> /\ UNCHANGED indexes

\* _dedupe, and the cut to the final top_k.
Distinct(chunks) == IF settings.dedup THEN Deduplicate(chunks, settings.cap) ELSE chunks
FinalCutFirst(lists) == Distinct(TopK(Fuse(lists), FinalTopK))
Final(lists) == TopK(Distinct(Fuse(lists)), FinalTopK)

\* Both searches are in: fuse, and go on to the next query, if there is one.
Searched == st = "join" /\ sparse.st = "done"
Join ==
  /\ Searched
  /\ rankings' = Append(rankings, Final(<<hits, sparse.hits>>))
  /\ st' = IF left = 0 THEN "fuse" ELSE "submit"
  /\ sparse' = NoSearch /\ hits' = <<>>
  /\ UNCHANGED <<left, results>> /\ UNCHANGED indexes

\* The executor waits for the search it started, also when the rest has raised, and
\* what the search raised comes out of its future.
RetrievalFails ==
  /\ \/ st = "raised" /\ sparse.st # "running"
     \/ st = "join" /\ sparse.st = "raised"
  /\ st' = "failed"
  /\ sparse' = NoSearch /\ hits' = <<>>
  /\ UNCHANGED <<left, rankings, results>> /\ UNCHANGED indexes

\* retrieve returns its one ranking; retrieve_many fuses and deduplicates again.
CombinedAsFused == TopK(Fuse(rankings), FinalTopK)
Combined == Final(rankings)
Finish ==
  /\ st = "fuse"
  /\ results' = IF Len(rankings) = 1 THEN rankings[1] ELSE Combined
  /\ st' = "done"
  /\ UNCHANGED <<left, sparse, hits, rankings>> /\ UNCHANGED indexes

-----------------------------------------------------------------------------
Next ==
  \/ Ingest \/ Fetch \/ InstallBM25 \/ InstallDense
  \/ Submit \/ SparseSearch \/ SparseSearchFails \/ Embed \/ DenseSearch \/ DenseSearchFails
  \/ Join \/ RetrievalFails \/ Finish

Spec == Init /\ [][Next]_vars

-----------------------------------------------------------------------------
(***************************************************************************)
(* What the evidence may be relied on for.                                 *)
(***************************************************************************)
\* Whatever ingestion and rebuild fall between its searches, a retrieval never hands the
\* grader one chunk or one passage twice, nor a longer run of neighbours than configured.
EvidenceIsDistinct ==
  results # None =>
    /\ Len(results) <= FinalTopK
    /\ \A i, j \in DOMAIN results : i # j => results[i].id # results[j].id
    /\ settings.dedup =>
         /\ \A i, j \in DOMAIN results : i # j => ~SaysTheSame(results[i], results[j])
         /\ settings.cap # 0 =>
              \A i \in DOMAIN results :
                LongestRun(IndicesOf(results, results[i].source)) <= settings.cap

\* The chunk with one id comes before the chunk with another.
Before(chunks, a, b) == \E i, j \in DOMAIN chunks : i < j /\ chunks[i].id = a /\ chunks[j].id = b

\* Found wherever y is, and ranked above it.
Dominates(x, y, lists) ==
  \A r \in DOMAIN lists : y.id \in Ids(lists[r]) => Before(lists[r], x.id, y.id)

\* A chunk is missing for a reason: the results are full, or one of them says the same, or
\* its neighbours fill the run.
Explained(x, chunks) ==
  \/ Len(chunks) = FinalTopK
  \/ settings.dedup /\ \E c \in Range(chunks) : SaysTheSame(x, c)
  \/ settings.dedup /\ ViolatesRunCap(chunks, x, settings.cap)

\* When a query's searches are fused nothing is lost without a reason, and no chunk
\* comes out above one that every search ranked higher, unless that one was dropped as
\* said already.  Of a row that was overwritten between the searches the dense copy counts.
RanksAreRespected ==
  Searched =>
    LET lists == <<hits, sparse.hits>>
        found == Range(hits) \cup {c \in Range(sparse.hits) : c.id \notin Ids(hits)}
        fused == Final(lists) IN
    /\ Range(fused) \subseteq found
    /\ \A x \in found \ Range(fused) : Explained(x, fused)
    /\ \A y \in Range(fused), x \in found :
         x # y /\ Dominates(x, y, lists) =>
           \/ Before(fused, x.id, y.id)
           \/ x \notin Range(fused) /\ settings.dedup
              /\ \/ ViolatesRunCap(fused, x, settings.cap)
                 \/ \E c \in Range(fused) : Before(fused, c.id, y.id) /\ SaysTheSame(x, c)
=============================================================================
