----------------------------- MODULE MCAdmission -----------------------------
(***************************************************************************)
(* Four queries, three of one peer, at two workers.  The two limits differ *)
(* and can both be reached; the clock runs past the lease and the window.  *)
(***************************************************************************)
EXTENDS QueryAdmission, TLC

CONSTANTS r1, r2, r3, r4, p1, p2, w1, w2

MCWorkers == {w1, w2}
MCRequests == {r1, r2, r3, r4}
MCPeerOf == (r1 :> p1) @@ (r2 :> p1) @@ (r3 :> p1) @@ (r4 :> p2)
MCSymmetry == Permutations(MCWorkers)
=============================================================================
