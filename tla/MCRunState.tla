----------------------------- MODULE MCRunState -----------------------------
(* Two ingesters, two overlapping runs whose files list the shared findings in
   opposite orders. *)
EXTENDS RunState, TLC

CONSTANTS r1, r2, f1, f2, w1, w2

MCFileRows == r1 :> <<f1, f2>> @@ r2 :> <<f2, f1>>
MCRunTs == r1 :> 1 @@ r2 :> 2
MCOwnerOf == w1 :> "ingest_parquet:1" @@ w2 :> "ingest_parquet:2"

\* Bound on what an ingest without COPY has left: r1 may be in any state and have any
\* first rows of its file; r2 has all its rows or none, and is not failed.
MCLegacy == status[r2] # "failed" /\ presence[r2] \in {{}, RowsOf(r2)}
MCInit == Init /\ MCLegacy
MCFairSpec == MCInit /\ [][Next]_vars /\ Fairness
=============================================================================
