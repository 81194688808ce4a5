-------------------------- MODULE Recommendations --------------------------
(* The recommendations page of one browser tab (apps/frontend,
   RecommendationsClientPage and useRecommendations) over its endpoint, which is
   PackagedSavings.  The page adds up and groups the rows it is answered, may
   hide those that own no savings, and keeps what it has folded. *)
EXTENDS QueryCache, PackagedSavings

CONSTANTS
  NoRow,
  Served,       \* what the endpoint answers: Replies, worked out once
  MaxMoves      \* changes of the address

RecommendationsAssumption == PackagesAssumption /\ NoRow \notin Rows /\ MaxMoves \in Nat

VARIABLES
  estate,          \* the number of the published one
  answers,         \* [Addresses -> cache entry]
  address,         \* the filters and the page
  brought,         \* is the page one the user has come with?
  hideSuppressed, groupByPackage,
  collapsed,       \* the package groups that are folded
  selectedRow,        \* the row in the drawer
  moves

vars == <<estate, answers, address, brought, hideSuppressed, groupByPackage, collapsed, selectedRow, moves>>

-----------------------------------------------------------------------------
(* The page *)

TypeOK ==
  /\ estate \in DOMAIN Estates
  /\ DOMAIN answers = Addresses /\ address \in Addresses
  /\ brought \in BOOLEAN /\ hideSuppressed \in BOOLEAN /\ groupByPackage \in BOOLEAN
  /\ DOMAIN collapsed \subseteq Resources \X {"package"} \cup Rows \X {"item"}
  /\ \A g \in DOMAIN collapsed : collapsed[g] \in BOOLEAN
  /\ selectedRow \in Rows \cup {NoRow} /\ moves \in 0 .. MaxMoves

FirstAddress == [order |-> "savings_desc", min |-> 0, page |-> 1]

\* The cache of a page that has been loaded at an address.
LoadedAt(address0) == [a \in Addresses |-> IF a = address0 THEN Mount(NewEntry) ELSE NewEntry]

Init ==
  /\ estate = 1
  /\ answers = LoadedAt(FirstAddress) /\ address = FirstAddress /\ brought = FALSE
  /\ hideSuppressed = FALSE /\ groupByPackage = TRUE /\ collapsed = [g \in {} |-> TRUE]
  /\ selectedRow = NoRow /\ moves = 0

Items(entry) == IF entry.data = NoData THEN {} ELSE entry.data.items

Visible(items, hidden) == IF hidden THEN {i \in items : i.owner} ELSE items

GroupKey(i) == IF i.package = NoResource THEN <<i.row, "item">> ELSE <<i.package, "package">>
Groups(items) == {GroupKey(i) : i \in items}
Members(items, g) == {i \in items : GroupKey(i) = g}

Total(items) == MapThenSumSet(LAMBDA i : i.effective, items)

\* A group seen for the first time is folded if it has several members.
Collapsed(items) ==
  [g \in Groups(items) |-> IF g \in DOMAIN collapsed THEN collapsed[g]
                           ELSE Cardinality(Members(items, g)) > 1]

Reselected(items) == IF selectedRow \in {i.row : i \in items} THEN selectedRow ELSE NoRow

\* The page is rendered with the items of an answer, and its effects run.
Rendered(items, hidden) ==
  /\ selectedRow' = Reselected(items) /\ collapsed' = Collapsed(Visible(items, hidden))
  /\ hideSuppressed' = hidden

\* The page is loaded anew, at an address that was kept or typed.
OpenAddress(a) ==
  /\ moves < MaxMoves /\ moves' = moves + 1
  /\ answers' = LoadedAt(a) /\ address' = a /\ brought' = (a.page # 1)
  /\ hideSuppressed' = FALSE /\ groupByPackage' = TRUE /\ collapsed' = [g \in {} |-> TRUE]
  /\ selectedRow' = NoRow
  /\ UNCHANGED estate

\* The address changes, by a button of the page.
PushWithParams(a) ==
  /\ moves < MaxMoves /\ a # address
  /\ address' = a /\ moves' = moves + 1 /\ brought' = (brought /\ a.page # 1)
  /\ answers' = [answers EXCEPT ![a] = Mount(@)]
  /\ Rendered(Items(answers[a]), hideSuppressed)
  /\ UNCHANGED <<estate, groupByPackage>>

\* Slip: the page is kept.
ApplySearchFiltersHere(m) == PushWithParams([address EXCEPT !.min = m])

ApplySearchFilters(m) == PushWithParams([address EXCEPT !.min = m, !.page = 1])

ChooseOrder(order) == PushWithParams([address EXCEPT !.order = order, !.page = 1])

TotalRows == IF answers[address].data = NoData THEN 0 ELSE answers[address].data.total
TotalPages == IF TotalRows = 0 THEN 1 ELSE (TotalRows + Limit - 1) \div Limit

\* The pager is there once there is an answer.
TurnPage ==
  /\ answers[address].data # NoData
  /\ \/ address.page < TotalPages /\ PushWithParams([address EXCEPT !.page = @ + 1])
     \/ address.page > 1 /\ PushWithParams([address EXCEPT !.page = @ - 1])

OpenRecommendation(r) ==
  /\ \E i \in Visible(Items(answers[address]), hideSuppressed) :
       /\ i.row = r /\ r # selectedRow
       /\ groupByPackage => ~collapsed[GroupKey(i)]
  /\ selectedRow' = r
  /\ UNCHANGED <<estate, answers, address, brought, hideSuppressed, groupByPackage, collapsed, moves>>

CloseDrawer ==
  /\ selectedRow # NoRow
  /\ selectedRow' = NoRow
  /\ UNCHANGED <<estate, answers, address, brought, hideSuppressed, groupByPackage, collapsed, moves>>

HideSuppressed ==
  /\ Rendered(Items(answers[address]), ~hideSuppressed)
  /\ UNCHANGED <<estate, answers, address, brought, groupByPackage, moves>>

GroupByPackage ==
  /\ ~hideSuppressed
  /\ groupByPackage' = ~groupByPackage
  /\ UNCHANGED <<estate, answers, address, brought, hideSuppressed, collapsed, selectedRow, moves>>

\* Owners only takes the groups away, and showing all does not bring them back.
TogglePrimaryOwnersMode ==
  /\ Rendered(Items(answers[address]), ~hideSuppressed)
  /\ groupByPackage' = (groupByPackage /\ hideSuppressed)
  /\ UNCHANGED <<estate, answers, address, brought, moves>>

ToggleGroupCollapsed(g) ==
  /\ groupByPackage /\ g \in Groups(Visible(Items(answers[address]), hideSuppressed))
  /\ collapsed' = [collapsed EXCEPT ![g] = ~@]
  /\ UNCHANGED <<estate, answers, address, brought, hideSuppressed, groupByPackage, selectedRow, moves>>

\* The button beside the error, there while old rows are read again too.
Retry ==
  /\ IsError(answers[address])
  /\ answers' = [answers EXCEPT ![address] = Invalidate(@)]
  /\ UNCHANGED <<estate, address, brought, hideSuppressed, groupByPackage, collapsed, selectedRow, moves>>

-----------------------------------------------------------------------------
(* The server *)

Publish(n) ==
  /\ estate = 1 /\ n # 1
  /\ estate' = n
  /\ UNCHANGED <<answers, address, brought, hideSuppressed, groupByPackage, collapsed, selectedRow, moves>>

\* A failure is heard of when it happens: it changes no answer that is shown.
ReadAnswer(a) ==
  /\ Unanswered(answers[a])
  /\ \/ \E r \in Served : /\ r.estate = estate /\ r.address = a
                          /\ answers' = [answers EXCEPT ![a] = Answer(@, r.answer)]
     \/ answers' = [answers EXCEPT ![a] = Deliver(Answer(@, Failure))]
  /\ UNCHANGED <<estate, address, brought, hideSuppressed, groupByPackage, collapsed, selectedRow, moves>>

DeliverAnswer(a) ==
  /\ Answered(answers[a])
  /\ answers' = [answers EXCEPT ![a] = Deliver(@)]
  /\ IF a = address THEN Rendered(Items(Deliver(answers[a])), hideSuppressed)
     ELSE UNCHANGED <<hideSuppressed, collapsed, selectedRow>>
  /\ UNCHANGED <<estate, address, brought, groupByPackage, moves>>

Next ==
  \/ \E m \in MinSavings : ApplySearchFilters(m)
  \/ \E order \in Orders : ChooseOrder(order)
  \/ \E r \in Rows : OpenRecommendation(r)
  \/ \E g \in DOMAIN collapsed : ToggleGroupCollapsed(g)
  \/ \E n \in DOMAIN Estates : Publish(n)
  \/ \E a \in Addresses : OpenAddress(a) \/ ReadAnswer(a) \/ DeliverAnswer(a)
  \/ TurnPage \/ CloseDrawer \/ HideSuppressed \/ GroupByPackage
  \/ TogglePrimaryOwnersMode \/ Retry

Spec == Init /\ [][Next]_vars

-----------------------------------------------------------------------------
(* Properties *)

Shown == Visible(Items(answers[address]), hideSuppressed)

(* However packages overlap, share owners and are cut by the page, and whether
   their suppressed members are shown or not, the savings the page adds up are
   the savings of its rows, each counted once, and the totals of the groups
   add up to the same. *)
SavingsCountedOnce ==
  LET raw == MapThenSumSet(LAMBDA i : i.raw, Items(answers[address]))
  IN /\ Total(Shown) = raw
     /\ MapThenSumSet(LAMBDA g : Total(Members(Shown, g)), Groups(Shown)) = raw

(* "No recommendation-eligible actions match the current filters": the page
   says so only if none does, or findings were closed since it was told how
   many there are, or the user came with a page beyond the last one; hiding the
   suppressed ones never leaves it empty. *)
NoneMeansNone ==
  (answers[address].data # NoData /\ Shown = {}) =>
    /\ Items(answers[address]) = {}
    /\ TotalRows = 0 \/ estate # 1 \/ brought
=============================================================================
