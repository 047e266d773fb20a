------------------------------- MODULE MCGraph -------------------------------
(***************************************************************************)
(* Small instances of the self-healing graph for TLC.  Two queries and two *)
(* chunk lists: one list passes the deterministic gate for both queries,   *)
(* the other for the rewritten query only, so evidence can become good     *)
(* enough by a retry, and a stale draft can differ in the query alone.     *)
(***************************************************************************)
EXTENDS GraphProperties

CONSTANTS q, rewritten, good, weak

MCQueries == {q, rewritten}
MCEvidence == {good, weak}
MCGatePassing == {<<q, good>>, <<rewritten, good>>, <<rewritten, weak>>}

\* The serving default, with and without the speculative draft, and the
\* deployment without a model.
SimpleSettings ==
  {s \in Configurations : s.evidence_grading_mode = "simple"}

ConditionAwareSettings ==
  {s \in Configurations : s.evidence_grading_mode = "condition_aware" /\ s.graph_use_llm}

AllSettings == SimpleSettings \cup ConditionAwareSettings
=============================================================================
