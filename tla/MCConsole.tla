----------------------------- MODULE MCConsole -----------------------------
(* The console on small instances of its pages: one finding in two lists, two
   workspaces, two scopes, one user, four findings with recommendations, and
   all the queries with one change of address. *)
EXTENDS Console, TLC

CONSTANTS f1, all, opens, w1, w2, a1, n1, n2, s1, s2, u1

MCFilter == all :> {"open", "resolved"} @@ opens :> {"open"}

MCCatalog == <<"admin">>

\* The first three findings have resources 1 to 3, the fourth has none.
MCKeyOf == [r \in Rows |-> IF r = 4 THEN NoResource ELSE r]
MCSavings == 1 :> 3 @@ 2 :> 2 @@ 3 :> 2 @@ 4 :> 1
MCConfidence == [r \in Rows |-> IF r = 3 THEN 2 ELSE 1]
MCAge == [r \in Rows |-> r]

\* 1 and 2 meet in resource 4, 2 and 3 in resource 5; later 3 is of another
\* kind, 1 has 2 for its neighbour, and the fourth finding is closed.
Chain == {<<1, 4>>, <<2, 4>>, <<2, 5>>, <<3, 5>>}
MCEstates == <<[edges |-> Chain, open |-> Rows],
               [edges |-> Chain \cup {<<1, 2>>, <<3, 6>>}, open |-> {1, 2, 3}]>>

Endpoint == INSTANCE PackagedSavings

MCServed == Endpoint!Replies
=============================================================================
