------------------------------ MODULE MCService ------------------------------
(***************************************************************************)
(* The query service for TLC: two requests and three warm-up threads       *)
(* around one cross-encoder permit and one worker for the overlapped       *)
(* scoring.                                                                *)
(***************************************************************************)
EXTENDS QueryService, TLC

CONSTANTS q1, q2

MCQueries == {q1, q2}
OneQuery == {q1}
Symmetry == Permutations(MCQueries)

\* A first start with the local reranker, and a process that warmed up long ago, with two
\* hosted rerankers and everything that protects them switched on.
Cold == [warm |-> FALSE, database |-> "corpus", enabled |-> TRUE, provider |-> "local",
         second |-> "none", remote |-> {}, backstop |-> "local", overlap |-> FALSE,
         cooldown |-> FALSE, auto_cuda |-> FALSE, compact |-> FALSE, importable |-> TRUE]
Warm == [Cold EXCEPT !.warm = TRUE, !.provider = "voyage", !.second = "cohere",
                     !.remote = Hosted, !.overlap = TRUE, !.cooldown = TRUE]
MCConfigurations == {Cold, Warm}

\* For liveness also a GPU chosen automatically, no corpus at the start, Voyage without
\* permission, no reranking, and no sentence_transformers to import.
LiveConfigurations ==
  {Cold, Warm,
   [Cold EXCEPT !.auto_cuda = TRUE, !.compact = TRUE],
   [Cold EXCEPT !.database = "empty"],
   [Cold EXCEPT !.provider = "voyage", !.backstop = "none"],
   [Cold EXCEPT !.enabled = FALSE],
   [Cold EXCEPT !.importable = FALSE]}
=============================================================================
