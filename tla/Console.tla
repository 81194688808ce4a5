------------------------------ MODULE Console ------------------------------
(* The web console in one browser tab.  Each of its pages is a module of its
   own: they share the cache, but no two of them a key of it (ConsoleQueries
   has the keys), and what they hold besides is gone when they are left.  A tab
   is followed on one of them, from the moment it is opened. *)
EXTENDS Naturals, Sequences

CONSTANTS
  NoData, Failure,
  \* FindingTriage
  Findings, NoFinding, Views, FirstView, Filter, ActionStates, MaxClicks, MaxEvents,
  \* TenantAdmin
  Workspaces, Names, Admins, Registered, NoWorkspace, NoRow, NoTarget, MaxSaves, MaxForeign,
  \* Session
  Scopes, NoScope, MaxSignIns, MaxSignOuts,
  \* UsersAdmin
  Users, NoUser, Roles, NoRole, Catalog, MaxRoleSaves, MaxGrants,
  \* Recommendations
  Rows, Resources, NoResource, KeyOf, Savings, Confidence, Age, Volumes, SampleLimit,
  Limit, MinSavings, Estates, Served, MaxMoves,
  \* ConsoleQueries
  Values, Choices, NoPage, NoAnswer, Profiles, MaxTurns

VARIABLES
  tab,   \* the page that is followed
  history, lists, view, mounted, selected, clicks, current, events,
  registry, source, loaded, editing, form, saves, latest, foreign,
  stored, cookie, screen, rendered, cache, sent, signIn, signOut, signIns, signOuts,
  assigned, users, roles, catalog, drawer, picker, touched, save, due, roleSaves, grants,
  change,
  estate, answers, address, brought, hideSuppressed, groupByPackage, collapsed, selectedRow,
  moves,
  rights, page, hook, url, store, turns

Triage == INSTANCE FindingTriage
Tenants == INSTANCE TenantAdmin
Signing == INSTANCE Session
Directory == INSTANCE UsersAdmin
Advice == INSTANCE Recommendations
Queries == INSTANCE ConsoleQueries

ASSUME ConsoleAssumption ==
  /\ Triage!TriageAssumption /\ Tenants!TenantAssumption /\ Signing!SessionAssumption
  /\ Directory!UsersAssumption /\ Advice!RecommendationsAssumption /\ Queries!QueriesAssumption
  /\ Served = Advice!Replies

Tabs == {"findings", "tenant_admin", "login", "users", "recommendations", "queries"}

triageVars == <<history, lists, view, mounted, selected, clicks, current, events>>
tenantVars == <<registry, source, loaded, editing, form, saves, latest, foreign>>
signingVars ==
  <<stored, cookie, screen, rendered, cache, sent, signIn, signOut, signIns, signOuts>>
directoryVars ==
  <<assigned, users, roles, catalog, drawer, picker, touched, save, due, roleSaves,
    grants, change>>
adviceVars ==
  <<estate, answers, address, brought, hideSuppressed, groupByPackage, collapsed, selectedRow,
    moves>>
queriesVars == <<rights, page, hook, url, store, turns>>

vars == <<tab, triageVars, tenantVars, signingVars, directoryVars, adviceVars, queriesVars>>

\* A page that is not followed stays as it was at first.
ConsoleTypeOK ==
  CASE tab = "findings" -> Triage!TypeOK
    [] tab = "tenant_admin" -> Tenants!TypeOK
    [] tab = "login" -> Signing!TypeOK
    [] tab = "users" -> Directory!TypeOK
    [] tab = "recommendations" -> Advice!TypeOK
    [] tab = "queries" -> Queries!TypeOK
    [] tab = "none" ->
         /\ Triage!TypeOK /\ Tenants!TypeOK /\ Signing!TypeOK
         /\ Directory!TypeOK /\ Advice!TypeOK /\ Queries!TypeOK

Init ==
  /\ tab = "none"
  /\ Triage!Init /\ Tenants!Init /\ Signing!Init
  /\ Directory!Init /\ Advice!Init /\ Queries!Init

Open(t) ==
  /\ tab = "none" /\ tab' = t
  /\ UNCHANGED <<triageVars, tenantVars, signingVars, directoryVars, adviceVars, queriesVars>>

OnFindings ==
  /\ tab = "findings" /\ Triage!Next
  /\ UNCHANGED <<tab, tenantVars, signingVars, directoryVars, adviceVars, queriesVars>>

OnTenantAdmin ==
  /\ tab = "tenant_admin" /\ Tenants!Next
  /\ UNCHANGED <<tab, triageVars, signingVars, directoryVars, adviceVars, queriesVars>>

OnLogin ==
  /\ tab = "login" /\ Signing!Next
  /\ UNCHANGED <<tab, triageVars, tenantVars, directoryVars, adviceVars, queriesVars>>

OnUsers ==
  /\ tab = "users" /\ Directory!Next
  /\ UNCHANGED <<tab, triageVars, tenantVars, signingVars, adviceVars, queriesVars>>

OnRecommendations ==
  /\ tab = "recommendations" /\ Advice!Next
  /\ UNCHANGED <<tab, triageVars, tenantVars, signingVars, directoryVars, queriesVars>>

OnQueries ==
  /\ tab = "queries" /\ Queries!Next
  /\ UNCHANGED <<tab, triageVars, tenantVars, signingVars, directoryVars, adviceVars>>

Next ==
  \/ \E t \in Tabs : Open(t)
  \/ OnFindings \/ OnTenantAdmin \/ OnLogin \/ OnUsers \/ OnRecommendations \/ OnQueries

\* As FindingTriage has it, while its page is followed.
Fairness ==
  /\ \A k \in Views : WF_triageVars(tab = "findings" /\ Triage!Reading(k))
  /\ \A c \in Triage!Clicks : WF_triageVars(tab = "findings" /\ Triage!Answering(c))

Spec == Init /\ [][Next]_vars /\ Fairness

-----------------------------------------------------------------------------
(* The properties of the pages *)

(* FindingTriage: a list that has been read again is what the server served,
   after every change its reader has made. *)
QuietListIsServed == tab = "findings" => Triage!QuietListIsServed

(* FindingTriage: a press of a button changes the server at most once. *)
ImplementsContract == Triage!ImplementsContract

(* FindingTriage: the buttons come back. *)
EveryActionEnds == Triage!EveryActionEnds

(* TenantAdmin: a forced save is the save that was refused. *)
ForcedAsRefused == tab = "tenant_admin" => Tenants!ForcedAsRefused

(* Session: no answer outlives the sign-out, and none is another scope's. *)
NothingOutlivesSignOut == tab = "login" => Signing!NothingOutlivesSignOut

(* UsersAdmin: the picker proposes the role as it is after the save. *)
PickerFollowsTheSave == tab = "users" => Directory!PickerFollowsTheSave

(* Recommendations: the savings of a page's rows are counted once. *)
SavingsCountedOnce == tab = "recommendations" => Advice!SavingsCountedOnce

(* Recommendations: "no recommendations match" means that none did. *)
NoneMeansNone == tab = "recommendations" => Advice!NoneMeansNone

(* ConsoleQueries: what is shown answers the question on the screen. *)
ShownAnswersTheQuestion == tab = "queries" => Queries!ShownAnswersTheQuestion
=============================================================================
