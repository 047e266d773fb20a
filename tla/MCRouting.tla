----------------------------- MODULE MCRouting -----------------------------
(***************************************************************************)
(* Instances of LLMRouting for TLC.                                        *)
(***************************************************************************)
EXTENDS LLMRouting, TLC

CONSTANTS r1, r2

MCSetting(mode, keys, fallback, cooldowns) ==
  [mode |-> mode, chosen |-> "groq", keys |-> keys, local_only |-> FALSE,
   local_fallback |-> fallback, cooldowns |-> cooldowns, budgets |-> TRUE]

\* Three candidates without a published budget, two with one; no breaker; one
\* static provider; and Ollama alone, for want of keys or by choice.
MCSettings ==
  {MCSetting("dynamic", {"gemini", "openrouter"}, TRUE, TRUE),
   MCSetting("dynamic", {"groq"}, TRUE, TRUE),
   MCSetting("dynamic", {"groq", "gemini"}, FALSE, FALSE),
   MCSetting("static", {"groq"}, FALSE, TRUE),
   MCSetting("dynamic", {}, FALSE, TRUE),
   [MCSetting("dynamic", {"groq"}, FALSE, TRUE) EXCEPT !.local_only = TRUE]}

\* One request speculates, the other does not.
MCCallers == r1 :> {"node", "draft"} @@ r2 :> {"node"}

\* A quota benches a provider, for longer if it says so; a malformed answer does
\* not.
MCCooldown == [rate_limited |-> 1, structured_output_failure |-> 0]
=============================================================================
