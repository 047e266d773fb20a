--------------------------- MODULE SpeculationPool ---------------------------
(***************************************************************************)
(* The speculative drafts of all requests of a process: the registry       *)
(* _speculations, whose keys are request ids that a client may choose, and *)
(* the thread pool, whose few workers run the drafts first come first      *)
(* served (src/self_healing/graph.py).                                     *)
(*                                                                         *)
(* SelfHealingGraph has one request in full; here a request is only what   *)
(* it does to the registry and to the pool.  A text and the chunks         *)
(* retrieved for it are together an input.                                 *)
(***************************************************************************)
EXTENDS Naturals, Sequences, FiniteSets

CONSTANTS
  Nothing,
  Requests,
  Ids,              \* the request ids in use, possibly fewer than the requests
  BetInputs,        \* what a draft can be generated from
  Workers           \* max_workers of the pool

ASSUME PoolAssumption ==
  /\ Nothing \notin Requests \cup BetInputs
  /\ Workers \in Nat \ {0}

VARIABLES
  id,               \* the request_id of each request
  ownInputs,        \* _speculation_inputs of its state
  place,            \* where the thread of the request is
  retried, regenerated,
  registry,         \* _speculations: per id the request whose draft is registered, or Nothing
  pending,          \* the request whose draft a request has taken, or Nothing
  answeredFrom,     \* the inputs its own draft was generated from, or Nothing
  queue,            \* submitted drafts that no worker has taken up
  drafts,           \* per request, its speculative draft
  betOn             \* the inputs of that draft
requestVars == <<id, ownInputs, place, retried, regenerated, pending, answeredFrom>>
poolVars == <<requestVars, registry, queue, drafts, betOn>>

PoolInit ==
  /\ id \in [Requests -> Ids]
  /\ ownInputs \in [Requests -> BetInputs]
  /\ place = [r \in Requests |-> "evidence"]
  /\ retried = [r \in Requests |-> FALSE]
  /\ regenerated = [r \in Requests |-> FALSE]
  /\ registry = [i \in Ids |-> Nothing]
  /\ pending = [r \in Requests |-> Nothing]
  /\ answeredFrom = [r \in Requests |-> Nothing]
  /\ queue = <<>>
  /\ drafts = [r \in Requests |-> "none"]
  /\ betOn = [r \in Requests |-> Nothing]

Goes(r, to) == place' = [place EXCEPT ![r] = to]

-----------------------------------------------------------------------------
(***************************************************************************)
(* Starting a draft, and grading while it runs.                            *)
(***************************************************************************)
\* _should_speculate, or the permit, says no: the request goes on without a bet.
NoBet(r) ==
  /\ place[r] = "evidence"
  /\ Goes(r, "grading")
  /\ UNCHANGED <<id, ownInputs, retried, regenerated, pending, answeredFrom, registry, queue,
                 drafts, betOn>>

\* executor.submit, before the lock is taken to register the future.
Submit(r) ==
  /\ place[r] = "evidence" /\ ~retried[r]
  /\ queue' = Append(queue, r)
  /\ drafts' = [drafts EXCEPT ![r] = "queued"]
  /\ betOn' = [betOn EXCEPT ![r] = ownInputs[r]]
  /\ Goes(r, "register")
  /\ UNCHANGED <<id, ownInputs, retried, regenerated, pending, answeredFrom, registry>>

\* Whatever was registered under this id is replaced.
Register(r) ==
  /\ place[r] = "register"
  /\ registry' = [registry EXCEPT ![id[r]] = r]
  /\ Goes(r, "grading")
  /\ UNCHANGED <<id, ownInputs, retried, regenerated, pending, answeredFrom, queue, drafts, betOn>>

\* The evidence is sufficient; or a rewrite retrieves other evidence, once; or the request
\* ends without an answer.
Judge(r) ==
  /\ place[r] = "grading"
  /\ \/ Goes(r, "generate") /\ UNCHANGED <<ownInputs, retried>>
     \/ /\ ~retried[r] /\ retried' = [retried EXCEPT ![r] = TRUE]
        /\ \E i \in BetInputs : ownInputs' = [ownInputs EXCEPT ![r] = i]
        /\ Goes(r, "evidence")
     \/ Goes(r, "ending") /\ UNCHANGED <<ownInputs, retried>>
  /\ UNCHANGED <<id, regenerated, pending, answeredFrom, registry, queue, drafts, betOn>>

-----------------------------------------------------------------------------
(***************************************************************************)
(* generate_answer.                                                        *)
(***************************************************************************)
UsableById(r, owner) == ~regenerated[r]
Usable(r, owner) == betOn[owner] = ownInputs[r] /\ ~regenerated[r]

\* _take_speculation removes the entry of its id, and keeps its future only if it was
\* generated from exactly this state.
Take(r) ==
  /\ place[r] = "generate"
  /\ LET owner == registry[id[r]] IN
       IF owner # Nothing /\ Usable(r, owner)
       THEN Goes(r, "waiting") /\ pending' = [pending EXCEPT ![r] = owner]
       ELSE Goes(r, "generating") /\ UNCHANGED pending
  /\ registry' = [registry EXCEPT ![id[r]] = Nothing]
  /\ UNCHANGED <<id, ownInputs, retried, regenerated, answeredFrom, queue, drafts, betOn>>

\* pending.result(); if it raises, the request generates afresh, or ends when what was raised
\* says that the budget is exhausted.
CollectDraft(r) ==
  /\ place[r] = "waiting"
  /\ \/ /\ drafts[pending[r]] = "done"
        /\ answeredFrom' = [answeredFrom EXCEPT ![r] = betOn[pending[r]]]
        /\ Goes(r, "verify")
     \/ /\ drafts[pending[r]] = "raised"
        /\ (Goes(r, "generating") \/ Goes(r, "ending"))
        /\ UNCHANGED answeredFrom
  /\ pending' = [pending EXCEPT ![r] = Nothing]
  /\ UNCHANGED <<id, ownInputs, retried, regenerated, registry, queue, drafts, betOn>>

Generate(r) ==
  /\ place[r] = "generating"
  /\ \/ answeredFrom' = [answeredFrom EXCEPT ![r] = ownInputs[r]] /\ Goes(r, "verify")
     \/ Goes(r, "ending") /\ UNCHANGED answeredFrom
  /\ UNCHANGED <<id, ownInputs, retried, regenerated, pending, registry, queue, drafts, betOn>>

\* Verification ends the request, or asks once for another draft.
Verify(r) ==
  /\ place[r] = "verify"
  /\ \/ Goes(r, "ending") /\ UNCHANGED <<regenerated, answeredFrom>>
     \/ /\ ~regenerated[r] /\ regenerated' = [regenerated EXCEPT ![r] = TRUE]
        /\ answeredFrom' = [answeredFrom EXCEPT ![r] = Nothing]
        /\ Goes(r, "generate")
  /\ UNCHANGED <<id, ownInputs, retried, pending, registry, queue, drafts, betOn>>

-----------------------------------------------------------------------------
(***************************************************************************)
(* The end of a request, and the pool.                                     *)
(***************************************************************************)
DiscardDequeues(r) ==
  /\ place[r] = "ending"
  /\ registry' = [registry EXCEPT ![id[r]] = Nothing]
  /\ queue' = SelectSeq(queue, LAMBDA other : other # r)
  /\ Goes(r, "done")
  /\ UNCHANGED <<id, ownInputs, retried, regenerated, pending, answeredFrom, drafts, betOn>>

\* _discard_speculation: the entry of its id goes, whoever registered it; the draft itself,
\* queued or running, stays with the pool.
Discard(r) ==
  /\ place[r] = "ending"
  /\ registry' = [registry EXCEPT ![id[r]] = Nothing]
  /\ Goes(r, "done")
  /\ UNCHANGED <<id, ownInputs, retried, regenerated, pending, answeredFrom, queue, drafts, betOn>>

\* An exception other than ExecutionBudgetExceeded leaves the graph, and skips the discard.
Raise(r) ==
  /\ place[r] \in {"grading", "verify"}
  /\ Goes(r, "raised")
  /\ UNCHANGED <<id, ownInputs, retried, regenerated, pending, answeredFrom, registry, queue,
                 drafts, betOn>>

\* A worker that is free takes the draft that has waited longest.
StartDraft ==
  /\ queue # <<>>
  /\ Cardinality({r \in Requests : drafts[r] = "running"}) < Workers
  /\ drafts' = [drafts EXCEPT ![Head(queue)] = "running"]
  /\ queue' = Tail(queue)
  /\ UNCHANGED <<requestVars, registry, betOn>>

FinishDraft(r) ==
  /\ drafts[r] = "running"
  /\ \E outcome \in {"done", "raised"} : drafts' = [drafts EXCEPT ![r] = outcome]
  /\ UNCHANGED <<requestVars, registry, queue, betOn>>

RequestStep(r) ==
  \/ NoBet(r) \/ Submit(r) \/ Register(r) \/ Judge(r) \/ Take(r) \/ CollectDraft(r)
  \/ Generate(r) \/ Verify(r) \/ Discard(r)

PoolNext ==
  \/ \E r \in Requests : RequestStep(r) \/ Raise(r) \/ FinishDraft(r)
  \/ StartDraft

PoolSpec == PoolInit /\ [][PoolNext]_poolVars

\* The threads of the requests and of the pool run, and every provider call has a timeout.
FairPoolSpec ==
  /\ PoolSpec
  /\ \A r \in Requests : WF_poolVars(RequestStep(r)) /\ WF_poolVars(FinishDraft(r))
  /\ WF_poolVars(StartDraft)

-----------------------------------------------------------------------------
(***************************************************************************)
(* Properties.                                                             *)
(***************************************************************************)
\* The draft a request goes on with was generated from its own inputs, although the entry
\* it took may be another request's with the same id, registered at any time.
OwnInputs == \A r \in Requests : answeredFrom[r] # Nothing => answeredFrom[r] = ownInputs[r]

\* "An unused draft never outlives its request" (invoke), unless the request raised: an
\* entry's owner still runs, so the registry does not grow.
EntriesAreLive == \A i \in Ids : registry[i] # Nothing => place[registry[i]] # "done"

\* What the requests share of their drafts mixes up no two of them.
DraftsStayOwn == OwnInputs /\ EntriesAreLive

\* Every request ends, although its draft may wait for those of requests that ended long
\* ago, and although its entry may be taken or dropped by another.
RequestsEnd == \A r \in Requests : <>(place[r] \in {"done", "raised"})
=============================================================================
