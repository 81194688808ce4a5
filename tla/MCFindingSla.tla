---------------------------- MODULE MCFindingSla ----------------------------
(* Two findings of one group; findings and clients are interchangeable. *)
EXTENDS FindingSla, TLC

CONSTANTS f1, f2, g1, c1, c2

MCGroupOf == f1 :> g1 @@ f2 :> g1
Interchangeable == Permutations(Findings) \cup Permutations(Clients)
=============================================================================
