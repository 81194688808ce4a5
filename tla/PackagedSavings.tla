-------------------------- MODULE PackagedSavings --------------------------
(* The recommendations endpoint (apps/flask_api, blueprints/recommendations.py):
   it says of every row of a page of findings which of them owns the savings of
   its package.

   A package gathers the rows whose resources have neighbours in common in the
   resource graph; the endpoint works it out anew for the rows of one page.  An
   estate is what a run has published, the graph's edges and the findings that
   are open.  A resource is a number, in the order of the resource keys, and so
   is a row, in the order of the fingerprints. *)
EXTENDS Naturals, Sequences, FiniteSetsExt

CONSTANTS
  Rows, Resources, NoResource,
  KeyOf,        \* [Rows -> Resources or NoResource]
  Savings,      \* [Rows -> Nat]: the row's own estimate
  Confidence,   \* [Rows -> Nat]
  Age,          \* [Rows -> Nat]: the order of detection, the newest first
  Volumes,      \* the resources whose type decides the kind of a package
  SampleLimit,  \* neighbours read of each resource
  Limit,        \* rows on a page
  MinSavings,   \* the values of the filter
  Estates       \* Seq of estates: the first, and what a run may publish after it

PackagesAssumption ==
  /\ Rows \subseteq Nat /\ IsFiniteSet(Rows) /\ Rows # {} /\ Resources \subseteq Nat
  /\ KeyOf \in [Rows -> Resources \cup {NoResource}]
  /\ Savings \in [Rows -> Nat] /\ Age \in [Rows -> Nat] /\ Confidence \in [Rows -> Nat]
  /\ Limit \in Nat \ {0} /\ SampleLimit \in Nat \ {0} /\ 0 \in MinSavings
  /\ Estates \in Seq([edges : SUBSET (Resources \X Resources), open : SUBSET Rows])
  /\ Len(Estates) > 0

Orders == {"savings_desc", "detected_desc"}
Pages == 1 .. (Cardinality(Rows) + Limit - 1) \div Limit
Addresses == [order : Orders, min : MinSavings, page : Pages]

Before(order, r, s) ==
  IF order = "savings_desc" /\ Savings[r] # Savings[s] THEN Savings[r] > Savings[s]
  ELSE IF Age[r] # Age[s] THEN Age[r] < Age[s] ELSE r < s

Matching(e, a) == {r \in e.open : Savings[r] >= a.min}

\* LIMIT and OFFSET come first: what follows knows the rows of one page.
PageRows(e, a) ==
  LET place(r) == Cardinality({s \in Matching(e, a) : Before(a.order, s, r)})
  IN {r \in Matching(e, a) : (a.page - 1) * Limit <= place(r) /\ place(r) < a.page * Limit}

\* An edge counts for the resource it starts from, if that is on the page.
Neighbours(e, P, x) ==
  LET roots == {KeyOf[r] : r \in P}
  IN {y \in Resources : <<x, y>> \in e.edges \/ (<<y, x>> \in e.edges /\ y \notin roots)}

Sampled(e, P, x) ==
  {y \in Neighbours(e, P, x) : Cardinality({z \in Neighbours(e, P, x) : z < y}) < SampleLimit}

Packaged(e, P) == {x \in {KeyOf[r] : r \in P} \ {NoResource} : Sampled(e, P, x) # {}}

PackageKind(e, P, x) == IF Sampled(e, P, x) \cap Volumes # {} THEN "storage_lineage" ELSE "resource_context"

Related(e, P, x) == {x} \cup Sampled(e, P, x)

\* Two packages are joined if they are of one kind and share a resource.
JoinedPackages(e, P) ==
  {p \in Packaged(e, P) \X Packaged(e, P) :
     /\ PackageKind(e, P, p[1]) = PackageKind(e, P, p[2])
     /\ Related(e, P, p[1]) \cap Related(e, P, p[2]) # {}}

Closed(pairs, S) == \A p \in pairs : p[1] \in S => p[2] \in S

\* Slip: packages are joined two by two, and never through a third.
PairPackageRows(e, P) == JoinedPackages(e, P)

\* The clusters: packages joined to each other, be it through others.
ClusterPackageRows(e, P) ==
  LET pairs == JoinedPackages(e, P)
      closed == {S \in SUBSET Packaged(e, P) : Closed(pairs, S)}
  IN {p \in Packaged(e, P) \X Packaged(e, P) : \A S \in closed : p[1] \in S => p[2] \in S}

\* The packages that the clusters c join to that of x: none if it has none.
ClusterKeys(c, x) == {p[2] : p \in {q \in c : q[1] = x}}

\* The rows of the package of r; r alone if it has none.
ClusterRows(c, P, r) == {r} \cup {s \in P : KeyOf[s] \in ClusterKeys(c, KeyOf[r])}

Owns(r, s) ==
  IF Savings[r] # Savings[s] THEN Savings[r] > Savings[s]
  ELSE IF Confidence[r] # Confidence[s] THEN Confidence[r] > Confidence[s] ELSE r <= s

ChooseClusterOwner(C) == CHOOSE r \in C : \A s \in C : Owns(r, s)

\* One item of the answer: its owner has the package's savings, the others none.
Item(c, P, r) ==
  LET C == ClusterRows(c, P, r)
      owner == ChooseClusterOwner(C)
      keys == ClusterKeys(c, KeyOf[r])
  IN [row |-> r, owner |-> r = owner, raw |-> Savings[r],
      effective |-> IF r # owner THEN 0 ELSE MapThenSumSet(LAMBDA s : Savings[s], C),
      package |-> IF keys = {} THEN NoResource ELSE Min(keys)]

Recommended(n, a) ==
  LET P == PageRows(Estates[n], a)
      c == ClusterPackageRows(Estates[n], P)
  IN [total |-> Cardinality(Matching(Estates[n], a)), items |-> {Item(c, P, r) : r \in P}]

\* What the endpoint answers, over each estate and to each address.
Replies == {[estate |-> n, address |-> a, answer |-> Recommended(n, a)] : n \in DOMAIN Estates, a \in Addresses}
=============================================================================
