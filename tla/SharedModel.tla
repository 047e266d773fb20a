----------------------------- MODULE SharedModel -----------------------------
(***************************************************************************)
(* What a model that many threads share promises them, without the locks:  *)
(* at most one thread loads it at a time, and once loaded it stays.  A     *)
(* thread that asks is handed the model only if it is loaded by then, and  *)
(* is turned away only if its own load failed; or, if a load is never      *)
(* tried again, because somebody else's has been begun and has not come to *)
(* an end in a model.                                                      *)
(*                                                                         *)
(* QueryService is shown to implement it twice, with the embedding model   *)
(* and with the cross-encoder.                                             *)
(***************************************************************************)
CONSTANTS
  Clients,       \* the threads that may ask
  TriedAgain     \* whether a load that failed is tried again

VARIABLES
  status,        \* "absent", "loading", "loaded" or "failed"
  client         \* where each thread is: loading, or what it was told

modelVars == <<status, client>>

Init ==
  /\ status \in {"absent", "loaded"}
  /\ client = [c \in Clients |-> "idle"]

Goes(c, to) == client' = [client EXCEPT ![c] = to]

Ask(c) == client[c] = "idle" /\ Goes(c, "asked") /\ UNCHANGED status

Serve(c) ==
  /\ client[c] = "asked" /\ status = "loaded"
  /\ Goes(c, "served")
  /\ UNCHANGED status

TurnAway(c) ==
  /\ client[c] = "asked" /\ ~TriedAgain /\ status \in {"loading", "failed"}
  /\ Goes(c, "refused")
  /\ UNCHANGED status

BeginLoad(c) ==
  /\ client[c] = "asked"
  /\ status = "absent" \/ (TriedAgain /\ status = "failed")
  /\ Goes(c, "loading")
  /\ status' = "loading"

EndLoad(c) ==
  /\ client[c] = "loading" /\ status = "loading"
  /\ \/ status' = "loaded" /\ Goes(c, "served")
     \/ status' = "failed" /\ Goes(c, "refused")

Leave(c) == client[c] \in {"served", "refused"} /\ Goes(c, "idle") /\ UNCHANGED status

Next ==
  \E c \in Clients :
    Ask(c) \/ Serve(c) \/ TurnAway(c) \/ BeginLoad(c) \/ EndLoad(c) \/ Leave(c)

Spec == Init /\ [][Next]_modelVars
=============================================================================
