--------------------------- MODULE ConsoleQueries ---------------------------
(* The questions the console asks and the keys it keeps the answers under
   (apps/frontend: the hooks over useQuery, the pages that mount them, and the
   buttons that lead from one page to another).

   A hook names the parameters its key holds and the ones its request carries;
   the two lists are written apart in the source, and nothing but their
   agreement keeps a page from showing the answer to another question.  The
   tenant and the workspace, which every key has, are fixed here (Session
   changes them).  One hook of the page is followed at a time, over the cache
   that all of them share. *)
EXTENDS QueryCache, Naturals, Sequences

CONSTANTS
  Values,      \* the values of a filter: "" and what is typed or chosen
  Choices,       \* what can be selected
  NoPage, NoAnswer,
  Profiles,       \* the sets of rights that the users have, of those the pages ask for
  MaxTurns     \* see MayTurn

Scope == <<"acme", "prod">>

-----------------------------------------------------------------------------
(* The hooks.  `forgiving`: a refusal (403) or nothing there (404) is an
   answer, no error. *)

Hook(name, keyed, asks, right, forgiving) ==
  [name |-> name, keyed |-> keyed, asks |-> asks, right |-> right, forgiving |-> forgiving]

useRunCoverageLatest ==
  Hook(<<"runs", "latest", "coverage">>, <<>>, {}, "runs:read", TRUE)

useRunsLatest == Hook(<<"runs", "latest">>, <<>>, {}, "runs:read", TRUE)

useRunGraphContextLatest ==
  Hook(<<"runs", "latest", "graph", "context">>, <<"resource_key", "neighbor_limit">>,
       {"resource_key", "neighbor_limit"}, "runs:read", TRUE)

useFindingGraphContext ==
  Hook(<<"findings", "graph">>, <<"fingerprint", "neighbor_limit">>,
       {"fingerprint", "neighbor_limit"}, "runs:read", TRUE)

useRunCoverageCheckers ==
  Hook(<<"runs", "latest", "coverage", "checkers">>,
       <<"status", "service", "region", "account_id", "checker_id", "limit", "offset">>,
       {"status", "service", "region", "account_id", "checker_id", "limit", "offset"}, "runs:read", TRUE)

\* Slip: the type of issue, which the checkers do not have, is left out of the key.
untypedCoverageIssues ==
  Hook(<<"runs", "latest", "coverage", "issues">>,
       <<"service", "region", "account_id", "checker_id", "limit", "offset">>,
       {"service", "region", "account_id", "checker_id", "issue_type", "limit", "offset"}, "runs:read", TRUE)

useRunCoverageIssues ==
  Hook(<<"runs", "latest", "coverage", "issues">>,
       <<"service", "region", "account_id", "checker_id", "issue_type", "limit", "offset">>,
       {"service", "region", "account_id", "checker_id", "issue_type", "limit", "offset"}, "runs:read", TRUE)

useRunCoverageServices ==
  Hook(<<"runs", "latest", "coverage", "services">>, <<"status", "region", "account_id">>,
       {"status", "region", "account_id"}, "runs:read", TRUE)

useRunCoverageAccounts ==
  Hook(<<"runs", "latest", "coverage", "accounts">>, <<"status", "service", "region", "account_id">>,
       {"status", "service", "region", "account_id"}, "runs:read", TRUE)

useRunCoverageHistory ==
  Hook(<<"runs", "coverage", "history">>, <<"status", "date_from", "date_to", "history_limit">>,
       {"status", "date_from", "date_to", "history_limit"}, "runs:read", TRUE)

useRunCoverageRegressionLatest ==
  Hook(<<"runs", "coverage", "regressions", "latest">>, <<>>, {}, "runs:read", TRUE)

useInitialValueKpis == Hook(<<"kpis", "initial-value">>, <<>>, {}, "findings:read", FALSE)

useRemediationImpact ==
  Hook(<<"remediation-impact">>,
       <<"limit", "offset", "action_status", "verification_status", "action_type", "check_id", "refresh">>,
       {"limit", "offset", "action_status", "verification_status", "action_type", "check_id", "refresh"}, "any", FALSE)

useRecommendations ==
  Hook(<<"recommendations">>,
       <<"limit", "offset", "state", "severity", "service", "check_id", "q", "min_savings", "order">>,
       {"limit", "offset", "state", "severity", "service", "check_id", "q", "min_savings", "order"}, "any", FALSE)

useFindings ==
  Hook(<<"findings">>, <<"limit", "offset", "state", "severity", "q", "order">>,
       {"limit", "offset", "state", "severity", "q", "order"}, "any", FALSE)

useFindingsGroupedCategory ==
  Hook(<<"findings", "grouped", "category">>, <<"limit", "offset", "state", "severity", "q", "order">>,
       {"limit", "offset", "state", "severity", "q", "order"}, "any", FALSE)

useTenantWorkspaces == Hook(<<"tenant-admin", "workspaces">>, <<>>, {}, "admin:full", FALSE)

useTenantRoleBindings == Hook(<<"tenant-admin", "role-bindings">>, <<>>, {}, "admin:full", FALSE)

useTenantAdminAudit ==
  Hook(<<"tenant-admin", "audit">>,
       <<"limit", "offset", "event_category", "entity_type", "target_workspace", "q">>,
       {"limit", "offset", "event_category", "entity_type", "target_workspace", "q"}, "admin:full", FALSE)

useTenantDirectory ==
  Hook(<<"tenant-admin", "users">>, <<"limit", "offset", "q", "include_inactive">>,
       {"limit", "offset", "q", "include_inactive"}, "admin:full", FALSE)

useUsers ==
  Hook(<<"users">>, <<"limit", "offset", "q", "include_inactive">>,
       {"limit", "offset", "q", "include_inactive"}, "users:read", FALSE)

useUserRole == Hook(<<"users", "role">>, <<"user_id">>, {"user_id"}, "users:manage_roles", FALSE)

useRolesCatalog == Hook(<<"users", "roles">>, <<>>, {}, "users:manage_roles", FALSE)

-----------------------------------------------------------------------------
(* The pages: what they ask, what their controls write into the address (each
   set of parameters by one control, at once), what a row they select is asked
   by, and where their buttons lead.  A button needs a right of the user; the
   dashboard's links need none. *)

CoverageQueries ==
  {useRunCoverageLatest, useRunCoverageCheckers, useRunCoverageIssues, useRunCoverageServices,
   useRunCoverageAccounts, useRunCoverageHistory, useRunCoverageRegressionLatest}

CoverageForm == {"service", "region", "account_id", "checker_id"}

CoverageFilters == {{"status"}, {"issue_type"}, {"limit"}, {"history_limit"}, CoverageForm}

CoverageButtons ==
  [dashboard |-> "findings:read", findings |-> "findings:read", recommendations |-> "findings:read",
   remediations |-> "findings:read", users |-> "users:read"]

DashboardLinks ==
  [findings |-> "any", recommendations |-> "any", remediations |-> "any", coverage |-> "any",
   users |-> "users:read", tenant_admin |-> "admin:full"]

RemediationsFilters == {{"action_status"}, {"verification_status"}, {"action_type", "check_id"}}

RemediationsButtons ==
  [recommendations |-> "findings:read", dashboard |-> "findings:read", findings |-> "findings:read",
   users |-> "users:read"]

RecommendationsForm == {"service", "check_id", "q", "min_savings"}

RecommendationsFilters == {{"state"}, {"severity"}, {"order"}, {"limit"}, RecommendationsForm}

RecommendationsButtons ==
  [dashboard |-> "findings:read", findings |-> "findings:read", remediations |-> "findings:read",
   coverage |-> "runs:read", users |-> "users:read"]

\* The panel in the drawer: it has a finding's fingerprint and its resource, but of
\* a recommendation the resource only.
ResourceGraphContextPanel == {useFindingGraphContext, useRunGraphContextLatest}
FindingSelection == {"fingerprint", "resource_key"}
RecommendationSelection == {"resource_key"}

FindingsQueries == {useFindings, useFindingsGroupedCategory, useRunsLatest, useRunCoverageLatest}

FindingsFilters == {{"state"}, {"severity"}, {"order"}, {"group_by"}, {"limit"}, {"q"}}

FindingsButtons ==
  [recommendations |-> "findings:read", remediations |-> "findings:read", dashboard |-> "runs:read",
   coverage |-> "runs:read", users |-> "users:read"]

UsersQueries == {useUsers, useRolesCatalog, useUserRole}

UsersFilters == {{"q"}, {"limit"}, {"include_inactive"}}

UsersButtons ==
  [findings |-> "findings:read", recommendations |-> "findings:read", tenant_admin |-> "admin:full"]

TenantAdminQueries ==
  {useTenantWorkspaces, useTenantRoleBindings, useTenantAdminAudit, useTenantDirectory, useUsers}

\* The two lists have a filter state each, and so the search of one is not the
\* search of the other; one is followed at a time.
DirectoryFilters == {{"q"}, {"include_inactive"}}
AuditFilters == {{"q"}, {"target_workspace"}, {"event_category"}, {"entity_type"}}

TenantAdminButtons == [dashboard |-> "any", users |-> "any"]

Queries(p) ==
  CASE p = "coverage" -> CoverageQueries
    [] p = "dashboard" -> {useInitialValueKpis}
    [] p = "remediations" -> {useRemediationImpact}
    [] p = "recommendations" ->
         {useRecommendations, useRunCoverageLatest} \cup ResourceGraphContextPanel
    [] p = "findings" -> FindingsQueries \cup ResourceGraphContextPanel
    [] p = "users" -> UsersQueries
    [] p = "tenant_admin" -> TenantAdminQueries

Filters(p, h) ==
  CASE p = "coverage" -> CoverageFilters
    [] p = "remediations" -> RemediationsFilters
    [] p = "recommendations" -> RecommendationsFilters
    [] p = "findings" -> FindingsFilters
    [] p = "users" -> UsersFilters
    [] p = "tenant_admin" /\ h = useTenantDirectory -> DirectoryFilters
    [] p = "tenant_admin" /\ h = useTenantAdminAudit -> AuditFilters
    [] OTHER -> {}

Selections(p) ==
  CASE p = "findings" -> FindingSelection
    [] p = "recommendations" -> RecommendationSelection
    [] p = "users" -> {"user_id"}
    [] OTHER -> {}

Buttons(p) ==
  CASE p = "coverage" -> CoverageButtons
    [] p = "dashboard" -> DashboardLinks
    [] p = "remediations" -> RemediationsButtons
    [] p = "recommendations" -> RecommendationsButtons
    [] p = "findings" -> FindingsButtons
    [] p = "users" -> UsersButtons
    [] p = "tenant_admin" -> TenantAdminButtons

\* The pages that are turned go back to the first one when a filter changes.
Paged(p) == p \in {"remediations", "recommendations", "findings", "users", "tenant_admin"}

AllPages == {"coverage", "dashboard", "remediations", "recommendations", "findings", "users", "tenant_admin"}
Hooks == UNION {Queries(p) : p \in AllPages}
Selected == UNION {Selections(p) : p \in AllPages}
Params == UNION {h.asks : h \in Hooks} \cup {"group_by"}
Rights == {h.right : h \in Hooks} \ {"any"}

\* A question is never the mark of nothing.
QueriesAssumption ==
  /\ {"", "x"} \subseteq Values /\ "" \notin Choices
  /\ \A h \in Hooks : NoAnswer \notin [name : {h.name}, asked : [h.asks -> Values \cup Choices]]
  /\ MaxTurns \in Nat /\ {} \notin Profiles /\ Profiles \subseteq SUBSET Rights

-----------------------------------------------------------------------------
VARIABLES
  rights,   \* what the session's user may do, once it is known
  page,
  hook,     \* the query of the page that is followed
  url,      \* [Params -> a value]: the address, and what is selected
  store,    \* the cache: a function from the keys used so far to entries
  turns

vars == <<rights, page, hook, url, store, turns>>

Can(R, right) == right = "any" \/ right \in R \/ "admin:full" \in R

Plain == [p \in Params |-> ""]

\* Parameters that no page gives: the hook's own value stands.
Defaults == {"neighbor_limit", "refresh"}

\* An address the user has kept, with every filter of the query set.
Kept(h) == [p \in Params |-> IF p \in h.asks \ (Selected \cup Defaults) THEN "x" ELSE ""]

Key(h, u) == h.name \o Scope \o [i \in DOMAIN h.keyed |-> u[h.keyed[i]]]
Question(h, u) == [name |-> h.name, asked |-> [p \in h.asks |-> u[p]]]

\* A query is on if its user may ask it and what it asks about is selected; of
\* the two lists of findings one is on, and a selected row that has a fingerprint
\* is not asked about by its resource.
On(h, u, R) ==
  /\ Can(R, h.right)
  /\ \A p \in h.asks \cap Selected : u[p] # ""
  /\ h = useRunGraphContextLatest => u["fingerprint"] = ""
  /\ h = useFindings => u["group_by"] = ""
  /\ h = useFindingsGroupedCategory => u["group_by"] # ""

TypeOK ==
  /\ rights \subseteq Rights /\ page \in AllPages \cup {NoPage}
  /\ hook \in Hooks /\ url \in [Params -> Values \cup Choices] /\ turns \in 0 .. MaxTurns
  /\ \A k \in DOMAIN store : store[k].entry.busy => store[k].sent # NoAnswer

Init ==
  /\ rights = {} /\ page = NoPage /\ hook = useFindings /\ url = Plain
  /\ store = [k \in {} |-> NewEntry] /\ turns = 0

Stored(st, k) == IF k \in DOMAIN st THEN st[k] ELSE [entry |-> NewEntry, sent |-> NoAnswer]

\* The query is fetched, with the address it is rendered on.
Fetched(st, h, u) ==
  LET old == Stored(st, Key(h, u))
      slot == [entry |-> Mount(old.entry),
               sent |-> IF old.entry.busy THEN old.sent ELSE Question(h, u)]
  IN [k \in DOMAIN st \cup {Key(h, u)} |-> IF k = Key(h, u) THEN slot ELSE st[k]]

\* The followed query is rendered on an address: if it is on, and was not or
\* had another key, it is fetched.
Followed(st, u) ==
  IF /\ On(hook', u, rights')
     /\ \/ page' # page \/ hook' # hook \/ ~On(hook, url, rights)
        \/ Key(hook', u) # Key(hook, url)
  THEN Fetched(st, hook', u) ELSE st

\* Signed in, or back with a session: the page is there before what the user
\* may do is known.
EnterConsole(p, h) ==
  /\ page = NoPage /\ h \in Queries(p)
  /\ page' = p /\ hook' = h /\ url' \in {Plain, Kept(h)}
  /\ UNCHANGED <<rights, turns>>
  /\ store' = Followed(store, url')

LearnRights(R) ==
  /\ page # NoPage /\ rights = {}
  /\ rights' = R
  /\ UNCHANGED <<page, hook, url, turns>>
  /\ store' = Followed(store, url)

\* The bound: one change of page or of its address, or MaxTurns selections.
MayTurn == turns = 0 /\ turns' = MaxTurns

\* A button of the header.
GoTo(p, h) ==
  /\ page # NoPage /\ p \in DOMAIN Buttons(page) /\ Can(rights, Buttons(page)[p])
  /\ h \in Queries(p) /\ MayTurn
  /\ page' = p /\ hook' = h /\ url' = Plain
  /\ UNCHANGED rights
  /\ store' = Followed(store, url')

Written(S, v) == [p \in Params |-> IF p \in S THEN v[p] ELSE url[p]]

FirstPage(u) == [u EXCEPT !["offset"] = ""]

\* A control of the page.  On the tenant administration page the offset goes
\* back in an effect, so that the new filter is first asked for on the old page.
PushWithParams(S) ==
  /\ page # NoPage /\ MayTurn
  /\ UNCHANGED <<rights, page, hook>>
  /\ \E v \in [S -> Values] :
       LET u == Written(S, v)
       IN /\ u # url
          /\ url' = IF Paged(page) THEN FirstPage(u) ELSE u
          /\ store' = IF page = "tenant_admin" THEN Followed(Followed(store, u), url')
                      ELSE Followed(store, url')

Clear(S) ==
  /\ page \in {"coverage", "recommendations"} /\ MayTurn
  /\ UNCHANGED <<rights, page, hook>>
  /\ url' = Written(S, Plain) /\ url' # url
  /\ store' = Followed(store, url')

TurnPage ==
  /\ page # NoPage /\ Paged(page) /\ "offset" \in hook.asks /\ MayTurn
  /\ \E v \in Values : url["offset"] # v /\ url' = [url EXCEPT !["offset"] = v]
  /\ UNCHANGED <<rights, page, hook>>
  /\ store' = Followed(store, url')

\* A row is selected, or the drawer is closed.
Select(item) ==
  /\ page # NoPage /\ hook.asks \cap Selections(page) # {}
  /\ url' = Written(Selections(page), [p \in Selected |-> item]) /\ url' # url
  /\ turns < MaxTurns /\ turns' = turns + 1
  /\ UNCHANGED <<rights, page, hook>>
  /\ store' = Followed(store, url')

\* What may come back: the answer, an error, or, if the hook forgives it, nothing.
Outcomes(asked) ==
  {asked, Failure} \cup {NoAnswer : h \in {x \in Hooks : x.name = asked.name /\ x.forgiving}}

\* The question decides the answer, so that the moment it is read is no matter.
AnswerQuery(k) ==
  /\ store[k].entry.busy
  /\ \E answer \in Outcomes(store[k].sent) :
       store' = [store EXCEPT ![k].entry = Deliver(Answer(@, answer))]
  /\ UNCHANGED <<rights, page, hook, url, turns>>

Next ==
  \/ \E h \in Hooks , p \in AllPages : EnterConsole(p, h) \/ GoTo(p, h)
  \/ \E R \in Profiles : LearnRights(R)
  \/ \E S \in Filters(page, hook) : S \cap (hook.asks \cup {"group_by"}) # {} /\ PushWithParams(S)
  \/ Clear(hook.asks \ Selected)
  \/ \E item \in Choices \cup {""} : Select(item)
  \/ TurnPage
  \/ \E k \in DOMAIN store : AnswerQuery(k)

Spec == Init /\ [][Next]_vars

-----------------------------------------------------------------------------
(* Properties *)

(* Whatever page, filters and drawer the user has come through, and in whatever
   order the answers come, what a query shows was asked with the parameters
   that are on the screen, by that query: no key is short of a parameter of its
   request, and no two queries write under one key. *)
ShownAnswersTheQuestion ==
  LET shown == Stored(store, Key(hook, url)).entry.data
  IN shown \notin {NoData, NoAnswer} => shown = Question(hook, url)
=============================================================================
