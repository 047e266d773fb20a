--------------------------- MODULE ExecutionBudget ---------------------------
(***************************************************************************)
(* src/self_healing/execution_budget.py: the deadline and the allowance of *)
(* provider calls that every thread of one request shares.  Each operation *)
(* runs under the budget's lock, so each is one atomic formula here, to be *)
(* conjoined with the step of the thread that calls it.                    *)
(*                                                                         *)
(* Time is abstracted to the one fact the code branches on: whether the    *)
(* monotonic clock has reached the deadline.  The timeout a permit carries *)
(* is not data here; that it is finite is the fairness of the graph.       *)
(*                                                                         *)
(* Here and in the modules that extend this one, "none" is the empty       *)
(* string of the code: a reason, category or verdict not set.              *)
(***************************************************************************)
EXTENDS Naturals

CONSTANT Allowances   \* values of settings.effective_graph_llm_call_limit

\* __post_init__ rejects a non-positive allowance.
ASSUME AllowancesAssumption == Allowances \subseteq Nat \ {0}

VARIABLES
  max_llm_calls,      \* fixed when the budget is created
  llm_calls_used,     \* slots reserved and not handed back
  exhausted_reason,   \* "none" until an operation was refused; then the first reason
  deadline_passed     \* deadline_monotonic - clock() <= 0

budgetVars == <<max_llm_calls, llm_calls_used, exhausted_reason, deadline_passed>>

ExhaustionReasons == {"deadline", "llm_call_limit"}

BudgetTypeOK ==
  /\ max_llm_calls \in Allowances
  /\ llm_calls_used \in 0..max_llm_calls
  /\ exhausted_reason \in ExhaustionReasons \cup {"none"}
  /\ deadline_passed \in BOOLEAN

BudgetInit ==
  /\ max_llm_calls \in Allowances
  /\ llm_calls_used = 0
  /\ exhausted_reason = "none"
  /\ deadline_passed = FALSE

-----------------------------------------------------------------------------
\* Mutations of the definitions below, for the checks that a property can fail.
AdmitsOneTooMany == ~deadline_passed /\ llm_calls_used <= max_llm_calls
ExhaustUnrecorded(reason) == UNCHANGED budgetVars
-----------------------------------------------------------------------------

\* A slot is admitted while time and allowance remain.
Admits == ~deadline_passed /\ llm_calls_used < max_llm_calls

\* reserve_llm_call returning a permit.
ReserveCall ==
  /\ Admits
  /\ llm_calls_used' = llm_calls_used + 1
  /\ UNCHANGED <<max_llm_calls, exhausted_reason, deadline_passed>>

\* _exhaust: the first reason recorded is the one every later refusal raises.
Exhaust(reason) ==
  /\ exhausted_reason' = IF exhausted_reason = "none" THEN reason ELSE exhausted_reason
  /\ UNCHANGED <<max_llm_calls, llm_calls_used, deadline_passed>>

\* reserve_llm_call raising ExecutionBudgetExceeded; the deadline is tested first.
RefuseCall ==
  /\ ~Admits
  /\ Exhaust(IF deadline_passed THEN "deadline" ELSE "llm_call_limit")

\* ensure_time_remaining raising.
RefuseLate == deadline_passed /\ Exhaust("deadline")

\* ensure_time_remaining returning: it records nothing.
TimeRemains == ~deadline_passed /\ UNCHANGED budgetVars

\* release_llm_call: hand a slot back, never below zero.
ReleaseCall ==
  /\ llm_calls_used' = IF llm_calls_used = 0 THEN 0 ELSE llm_calls_used - 1
  /\ UNCHANGED <<max_llm_calls, exhausted_reason, deadline_passed>>

\* The clock reaches the deadline; it never goes back.
DeadlinePasses ==
  /\ ~deadline_passed
  /\ deadline_passed' = TRUE
  /\ UNCHANGED <<max_llm_calls, llm_calls_used, exhausted_reason>>
=============================================================================
