------------------------ MODULE MCRemediationImpact ------------------------
(* Two actions on one finding, one that completes and one that fails, two runs and *)
(* two connections.                                                               *)
EXTENDS RemediationImpact, TLC

CONSTANTS a1, a2, r1, r2, f1, c1, c2

MCFindingOf == a1 :> f1 @@ a2 :> f1
MCOutcomes == a1 :> {"completed"} @@ a2 :> {"failed"}
MCRank == a1 :> 1 @@ a2 :> 2 @@ r1 :> 1 @@ r2 :> 2
\* No order is defined on connections.
MCSymmetry == Permutations(Clients)
=============================================================================
