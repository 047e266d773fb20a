---------------------------- MODULE FailoverRoute ----------------------------
(***************************************************************************)
(* What the provider calls of one request promise each other, although     *)
(* they share a route that any of them may move.  The route only goes      *)
(* forward and stays within its candidates; a call moves it only if it is  *)
(* still where the call found it; and a call that fails is tried again     *)
(* only on a later candidate than the one it took note of, so it ends.     *)
(*                                                                         *)
(* SelfHealingGraph is shown to implement it with the calls of its nodes   *)
(* and of its speculative draft, and LLMRouting with those of each         *)
(* request, where cooldowns and token budgets decide how far a route goes. *)
(***************************************************************************)
EXTENDS Naturals

CONSTANT Callers    \* the threads of the request that call providers

VARIABLES
  length,     \* the number of candidates, 0 until the route is selected
  position,   \* the candidate the route is at
  stage,      \* where each caller is with its call
  noted       \* the position a caller took note of before it sent its call, or 0

routeVars == <<length, position, stage, noted>>

Init ==
  /\ length \in Nat
  /\ position = 1
  /\ stage = [c \in Callers |-> "idle"]
  /\ noted = [c \in Callers |-> 0]

Select ==
  /\ length = 0
  /\ length' \in Nat \ {0}
  /\ UNCHANGED <<position, stage, noted>>

Goes(c, to) == stage' = [stage EXCEPT ![c] = to]

\* A caller has its permit.
Begin(c) ==
  /\ length > 0 /\ stage[c] = "idle"
  /\ Goes(c, "ready")
  /\ UNCHANGED <<length, position, noted>>

Note(c) ==
  /\ stage[c] = "ready"
  /\ Goes(c, "noted")
  /\ noted' = [noted EXCEPT ![c] = position]
  /\ UNCHANGED <<length, position>>

Send(c) ==
  /\ stage[c] = "noted"
  /\ Goes(c, "sent")
  /\ UNCHANGED <<length, position, noted>>

\* The call failed, and there is another candidate to try: one that the route has
\* reached meanwhile, or one that this call moves it to.
MoveOn(c) ==
  /\ stage[c] = "sent"
  /\ position' \in position..length
  /\ position' # position => noted[c] = position
  /\ position' > noted[c]
  /\ Goes(c, "ready")
  /\ noted' = [noted EXCEPT ![c] = 0]
  /\ UNCHANGED length

\* The call was answered, failed, or was refused another attempt.
EndCall(c) ==
  /\ stage[c] \in {"sent", "ready"}
  /\ Goes(c, "over")
  /\ noted' = [noted EXCEPT ![c] = 0]
  /\ UNCHANGED <<length, position>>

\* The caller takes what came of it, or needs no call after all.
Collect(c) ==
  /\ stage[c] \in {"over", "ready"}
  /\ Goes(c, "idle")
  /\ UNCHANGED <<length, position, noted>>

Next ==
  \/ Select
  \/ \E c \in Callers :
       Begin(c) \/ Note(c) \/ Send(c) \/ MoveOn(c) \/ EndCall(c) \/ Collect(c)

Spec == Init /\ [][Next]_routeVars
=============================================================================
