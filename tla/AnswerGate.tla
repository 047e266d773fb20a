------------------------------ MODULE AnswerGate ------------------------------
(***************************************************************************)
(* What the self-healing graph promises its caller, whatever the threads,  *)
(* the providers and the clock do.  Evidence is approved at most once and  *)
(* stays approved; only a draft written from the approved evidence can be  *)
(* vetted; the request closes once; and what an answered request returns   *)
(* is the vetted draft.  A request may close without an answer at any      *)
(* time, or fail.                                                          *)
(*                                                                         *)
(* SelfHealingGraph is shown to implement it (GraphProperties).            *)
(***************************************************************************)
CONSTANTS Inputs,   \* a query with the evidence retrieved for it
          Drafts,   \* records with the field inputs
          None

VARIABLES
  approved,   \* the inputs judged sufficient, or None
  vetted,     \* the draft found supported, or None
  outcome,    \* "open", "answer", "declined" or "failed"
  answer      \* what an answered request returns, or None

gateVars == <<approved, vetted, outcome, answer>>

Init == approved = None /\ vetted = None /\ outcome = "open" /\ answer = None

Approve(inputs) ==
  /\ outcome = "open" /\ approved = None
  /\ approved' = inputs
  /\ UNCHANGED <<vetted, outcome, answer>>

Vet(draft) ==
  /\ outcome = "open" /\ approved # None /\ vetted = None
  /\ draft.inputs = approved
  /\ vetted' = draft
  /\ UNCHANGED <<approved, outcome, answer>>

Return ==
  /\ outcome = "open" /\ vetted # None
  /\ outcome' = "answer" /\ answer' = vetted
  /\ UNCHANGED <<approved, vetted>>

Decline ==
  /\ outcome = "open"
  /\ outcome' \in {"declined", "failed"}
  /\ UNCHANGED <<approved, vetted, answer>>

Next ==
  \/ \E inputs \in Inputs : Approve(inputs)
  \/ \E draft \in Drafts : Vet(draft)
  \/ Return
  \/ Decline

Spec == Init /\ [][Next]_gateVars
=============================================================================
