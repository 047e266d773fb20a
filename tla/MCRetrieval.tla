----------------------------- MODULE MCRetrieval -----------------------------
(***************************************************************************)
(* Hybrid retrieval for TLC: a policy of three chunks that is replaced by  *)
(* one with its last chunk rewritten, next to a notice that repeats one of *)
(* them and is overwritten in place.                                       *)
(***************************************************************************)
EXTENDS HybridRetrieval

Chunk(id, source, index, tokens) ==
  [id |-> id, source |-> source, index |-> index, tokens |-> tokens]

Notice(tokens) == Chunk(4, "notice", 0, tokens)
Refund(id, last) ==
  {Chunk(id, "refund", 0, {"refund", "days", "card"}),
   Chunk(id + 1, "refund", 1, {"refund", "cash"}),
   Chunk(id + 2, "refund", 2, last)}

MCTables ==
  << Refund(1, {"refund", "cash", "limit"}) \cup {Notice({"refund", "days", "card"})},
     Refund(5, {"limit"}) \cup {Notice({"refund", "days"})} >>

MCConfigurations ==
  {[dedup |-> TRUE, cap |-> 1, memory |-> TRUE],
   [dedup |-> TRUE, cap |-> 0, memory |-> FALSE]}
=============================================================================
