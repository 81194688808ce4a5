---------------------------- MODULE ConsoleProofs ----------------------------
(* What the console guarantees, whatever page a tab is on.  The invariants of *)
(* the pages with proofs of their own are taken from there: a step of the     *)
(* console is a step of the page that is followed, and leaves the others      *)
(* alone.                                                                     *)
EXTENDS Console, FiniteSetTheorems, FunctionTheorems, SequenceTheorems, TLAPS

TriageP == INSTANCE FindingTriageProofs
TenantsP == INSTANCE TenantAdminProofs
SigningP == INSTANCE SessionProofs

-----------------------------------------------------------------------------
(* The pages that are proved about are those of the console: the same         *)
(* definitions, instantiated through the module of their proofs.              *)

LEMMA TenantsSame ==
  /\ TenantsP!TenantAssumption
  /\ Tenants!Init <=> TenantsP!Init
  /\ Tenants!Next <=> TenantsP!Next
  /\ Tenants!ForcedAsRefused <=> TenantsP!ForcedAsRefused
  /\ Tenants!TypeOK <=> TenantsP!TypeOK
  /\ UNCHANGED tenantVars <=> UNCHANGED TenantsP!vars
  <1>1. TenantsP!TenantAssumption
    BY ConsoleAssumption
    DEF Tenants!Statuses, TenantsP!Statuses, Tenants!TenantAssumption, TenantsP!TenantAssumption,
      Tenants!WorkspaceRows, TenantsP!WorkspaceRows
  <1>2. Tenants!Init <=> TenantsP!Init
    BY DEF Tenants!Blank, TenantsP!Blank, Tenants!Init, TenantsP!Init, Tenants!NoSave,
      TenantsP!NoSave, Tenants!Saves, TenantsP!Saves
  <1>3. Tenants!Next <=> TenantsP!Next
    BY DEF Tenants!Answering, TenantsP!Answering, Tenants!BeginEditWorkspace,
      TenantsP!BeginEditWorkspace, Tenants!Bind, TenantsP!Bind, Tenants!Blank, TenantsP!Blank,
      Tenants!Bound, TenantsP!Bound, Tenants!DeleteBinding, TenantsP!DeleteBinding,
      Tenants!FillForm, TenantsP!FillForm, Tenants!IsPending, TenantsP!IsPending,
      Tenants!LifecycleGuardConflict, TenantsP!LifecycleGuardConflict, Tenants!Listed,
      TenantsP!Listed, Tenants!LoadBindings, TenantsP!LoadBindings, Tenants!LoadWorkspaces,
      TenantsP!LoadWorkspaces, Tenants!MustMigrate, TenantsP!MustMigrate,
      Tenants!NeedsArchiveMigration, TenantsP!NeedsArchiveMigration, Tenants!Next,
      TenantsP!Next, Tenants!Next1, TenantsP!Next1, Tenants!NoSave, TenantsP!NoSave,
      Tenants!OtherBinding, TenantsP!OtherBinding, Tenants!OtherEdit, TenantsP!OtherEdit,
      Tenants!Override, TenantsP!Override, Tenants!Plain, TenantsP!Plain,
      Tenants!QuickSetWorkspaceStatus, TenantsP!QuickSetWorkspaceStatus, Tenants!ReadForSave,
      TenantsP!ReadForSave, Tenants!Refusal, TenantsP!Refusal, Tenants!Refusals,
      TenantsP!Refusals, Tenants!Resent, TenantsP!Resent, Tenants!ResetWorkspaceForm,
      TenantsP!ResetWorkspaceForm, Tenants!Retargeted, TenantsP!Retargeted, Tenants!SaveFails,
      TenantsP!SaveFails, Tenants!SaveSucceeds, TenantsP!SaveSucceeds, Tenants!Saves,
      TenantsP!Saves, Tenants!Server, TenantsP!Server, Tenants!Sourced, TenantsP!Sourced,
      Tenants!Started, TenantsP!Started, Tenants!StatusButtons, TenantsP!StatusButtons,
      Tenants!Statuses, TenantsP!Statuses, Tenants!SubmitBinding, TenantsP!SubmitBinding,
      Tenants!SubmitWorkspace, TenantsP!SubmitWorkspace, Tenants!WorkspaceRows,
      TenantsP!WorkspaceRows, Tenants!WriteSave, TenantsP!WriteSave
  <1>4. Tenants!ForcedAsRefused <=> TenantsP!ForcedAsRefused
    BY DEF Tenants!ForcedAsRefused, TenantsP!ForcedAsRefused, Tenants!Saves, TenantsP!Saves
  <1>5. Tenants!TypeOK <=> TenantsP!TypeOK
    BY DEF Tenants!Answers, TenantsP!Answers, Tenants!Payloads, TenantsP!Payloads, Tenants!Phases,
      TenantsP!Phases, Tenants!Saves, TenantsP!Saves, Tenants!Statuses, TenantsP!Statuses,
      Tenants!TypeOK, TenantsP!TypeOK, Tenants!WorkspaceRows, TenantsP!WorkspaceRows
  <1> QED BY <1>1, <1>2, <1>3, <1>4, <1>5 DEF tenantVars, TenantsP!vars

LEMMA SigningSame ==
  /\ SigningP!SessionAssumption
  /\ Signing!Init <=> SigningP!Init
  /\ Signing!Next <=> SigningP!Next
  /\ Signing!NothingOutlivesSignOut <=> SigningP!NothingOutlivesSignOut
  /\ Signing!TypeOK <=> SigningP!TypeOK
  /\ UNCHANGED signingVars <=> UNCHANGED SigningP!vars
  <1>1. SigningP!SessionAssumption
    BY ConsoleAssumption
    DEF Signing!SessionAssumption, SigningP!SessionAssumption
  <1>2. Signing!Init <=> SigningP!Init
    BY DEF Signing!Init, SigningP!Init, Signing!Keys, SigningP!Keys, Signing!NewEntry,
      SigningP!NewEntry, Signing!NoSignIn, SigningP!NoSignIn, Signing!Questions,
      SigningP!Questions
  <1>3. Signing!Next <=> SigningP!Next
    BY DEF Signing!Answer, SigningP!Answer, Signing!AnswerLogin, SigningP!AnswerLogin,
      Signing!AnswerLogout, SigningP!AnswerLogout, Signing!Answered, SigningP!Answered,
      Signing!Cancel, SigningP!Cancel, Signing!Deliver, SigningP!Deliver, Signing!DeliverQuery,
      SigningP!DeliverQuery, Signing!Forgotten, SigningP!Forgotten, Signing!GuardPage,
      SigningP!GuardPage, Signing!Invalidate, SigningP!Invalidate, Signing!IsAuthLoading,
      SigningP!IsAuthLoading, Signing!IsAuthenticated, SigningP!IsAuthenticated,
      Signing!IsLoading, SigningP!IsLoading, Signing!Keys, SigningP!Keys, Signing!LoginAccepted,
      SigningP!LoginAccepted, Signing!LoginEnds, SigningP!LoginEnds, Signing!LoginRefused,
      SigningP!LoginRefused, Signing!LogoutEnds, SigningP!LogoutEnds, Signing!Mount,
      SigningP!Mount, Signing!Mounted, SigningP!Mounted, Signing!NewEntry, SigningP!NewEntry,
      Signing!Next, SigningP!Next, Signing!NoSignIn, SigningP!NoSignIn, Signing!PressLogout,
      SigningP!PressLogout, Signing!Questions, SigningP!Questions, Signing!ReadQuery,
      SigningP!ReadQuery, Signing!Rendered, SigningP!Rendered, Signing!RetryRows,
      SigningP!RetryRows, Signing!SessionExpires, SigningP!SessionExpires, Signing!SetData,
      SigningP!SetData, Signing!Stamp, SigningP!Stamp, Signing!SubmitLogin,
      SigningP!SubmitLogin, Signing!Unanswered, SigningP!Unanswered
  <1>4. Signing!NothingOutlivesSignOut <=> SigningP!NothingOutlivesSignOut
    BY DEF Signing!Keys, SigningP!Keys, Signing!NothingOutlivesSignOut,
      SigningP!NothingOutlivesSignOut, Signing!Questions, SigningP!Questions
  <1>5. Signing!TypeOK <=> SigningP!TypeOK
    BY DEF Signing!Entries, SigningP!Entries, Signing!Keys, SigningP!Keys, Signing!Questions,
      SigningP!Questions, Signing!Stamps, SigningP!Stamps, Signing!TypeOK, SigningP!TypeOK
  <1> QED BY <1>1, <1>2, <1>3, <1>4, <1>5 DEF signingVars, SigningP!vars

LEMMA TriageSame ==
  /\ TriageP!TriageAssumption
  /\ Triage!Init <=> TriageP!Init
  /\ Triage!Next <=> TriageP!Next
  /\ Triage!QuietListIsServed <=> TriageP!QuietListIsServed
  /\ Triage!TypeOK <=> TriageP!TypeOK
  /\ UNCHANGED triageVars <=> UNCHANGED TriageP!vars
  <1>1. TriageP!TriageAssumption
    BY ConsoleAssumption
    DEF Triage!States, TriageP!States, Triage!Answers, TriageP!Answers, Triage!TriageAssumption,
      TriageP!TriageAssumption
  <1>2. Triage!Init <=> TriageP!Init
    BY DEF Triage!Clicks, TriageP!Clicks, Triage!Init, TriageP!Init, Triage!Mount, TriageP!Mount,
      Triage!NewEntry, TriageP!NewEntry, Triage!NoClick, TriageP!NoClick, Triage!Unpressed,
      TriageP!Unpressed
  <1>3. Triage!Next <=> TriageP!Next
    BY DEF Triage!Answer, TriageP!Answer, Triage!Answered, TriageP!Answered, Triage!Answering,
      TriageP!Answering, Triage!ApplyAction, TriageP!ApplyAction, Triage!Cancel, TriageP!Cancel,
      Triage!Changed, TriageP!Changed, Triage!Clicks, TriageP!Clicks, Triage!CloseFinding,
      TriageP!CloseFinding, Triage!Deliver, TriageP!Deliver, Triage!DeliverList,
      TriageP!DeliverList, Triage!FinishAction, TriageP!FinishAction, Triage!Invalidate,
      TriageP!Invalidate, Triage!IsError, TriageP!IsError, Triage!IsLoading, TriageP!IsLoading,
      Triage!IsPending, TriageP!IsPending, Triage!Latest, TriageP!Latest, Triage!LeavePage,
      TriageP!LeavePage, Triage!Listed, TriageP!Listed, Triage!Mount, TriageP!Mount,
      Triage!NewList, TriageP!NewList, Triage!Next, TriageP!Next, Triage!NoClick,
      TriageP!NoClick, Triage!OpenFinding, TriageP!OpenFinding, Triage!Optimistic,
      TriageP!Optimistic, Triage!OtherUser, TriageP!OtherUser, Triage!Page, TriageP!Page,
      Triage!ReadList, TriageP!ReadList, Triage!Reading, TriageP!Reading, Triage!RefuseAction,
      TriageP!RefuseAction, Triage!Released, TriageP!Released, Triage!Reselected,
      TriageP!Reselected, Triage!RetryList, TriageP!RetryList, Triage!ReturnToPage,
      TriageP!ReturnToPage, Triage!RolledBack, TriageP!RolledBack, Triage!RunAction,
      TriageP!RunAction, Triage!SetData, TriageP!SetData, Triage!SettleAction,
      TriageP!SettleAction, Triage!Settled, TriageP!Settled, Triage!Shown, TriageP!Shown,
      Triage!ShownFindings, TriageP!ShownFindings, Triage!States, TriageP!States,
      Triage!Strayed, TriageP!Strayed, Triage!SwitchView, TriageP!SwitchView, Triage!Unanswered,
      TriageP!Unanswered, Triage!Unpressed, TriageP!Unpressed
  <1>4. Triage!QuietListIsServed <=> TriageP!QuietListIsServed
    BY DEF Triage!QuietListIsServed, TriageP!QuietListIsServed, Triage!WasServed,
      TriageP!WasServed, Triage!Quiet, TriageP!Quiet, Triage!AtRest, TriageP!AtRest,
      Triage!Shown, TriageP!Shown, Triage!Listed, TriageP!Listed, Triage!Clicks, TriageP!Clicks
  <1>5. Triage!TypeOK <=> TriageP!TypeOK
    BY DEF Triage!Answers, TriageP!Answers, Triage!Clicks, TriageP!Clicks, Triage!NoClick,
      TriageP!NoClick, Triage!Phases, TriageP!Phases, Triage!States, TriageP!States,
      Triage!TypeOK, TriageP!TypeOK
  <1> QED BY <1>1, <1>2, <1>3, <1>4, <1>5 DEF triageVars, TriageP!vars

\* The contract of the buttons, likewise.
LEMMA ContractSame ==
  /\ Triage!Contract!Init <=> TriageP!Contract!Init
  /\ [Triage!Contract!Next]_<<Triage!Latest, Triage!Asked, Triage!Made>>
       <=> [TriageP!Contract!Next]_<<TriageP!Latest, TriageP!Asked, TriageP!Made>>
  BY DEF Triage!Contract!Init, TriageP!Contract!Init, Triage!Contract!Ask, TriageP!Contract!Ask,
      Triage!Contract!Make, TriageP!Contract!Make, Triage!Contract!Refuse,
      TriageP!Contract!Refuse, Triage!Contract!Others, TriageP!Contract!Others,
      Triage!Contract!Next, TriageP!Contract!Next, Triage!Cardinality, TriageP!Cardinality,
      Triage!Ask, TriageP!Ask, Triage!Asked, TriageP!Asked, Triage!ChangesBy, TriageP!ChangesBy,
      Triage!Clicks, TriageP!Clicks, Triage!Latest, TriageP!Latest, Triage!Made, TriageP!Made,
      Triage!States, TriageP!States

-----------------------------------------------------------------------------
(* The keys of the queries: a key names its query and carries every parameter *)
(* that the query is asked with.                                             *)

\* Every query of the console; the pages mount no other.
AllHooks ==
  {Queries!useRunCoverageLatest, Queries!useRunsLatest, Queries!useRunGraphContextLatest,
   Queries!useFindingGraphContext, Queries!useRunCoverageCheckers,
   Queries!useRunCoverageIssues, Queries!useRunCoverageServices,
   Queries!useRunCoverageAccounts, Queries!useRunCoverageHistory,
   Queries!useRunCoverageRegressionLatest, Queries!useInitialValueKpis,
   Queries!useRemediationImpact, Queries!useRecommendations, Queries!useFindings,
   Queries!useFindingsGroupedCategory, Queries!useTenantWorkspaces,
   Queries!useTenantRoleBindings, Queries!useTenantAdminAudit, Queries!useTenantDirectory,
   Queries!useUsers, Queries!useUserRole, Queries!useRolesCatalog}

LEMMA HooksAre == Queries!Hooks \subseteq AllHooks
  <1>1. \A p \in Queries!AllPages : Queries!Queries(p) \subseteq AllHooks
    BY DEF Queries!AllPages, Queries!Queries, Queries!CoverageQueries, Queries!FindingsQueries,
         Queries!UsersQueries, Queries!TenantAdminQueries, Queries!ResourceGraphContextPanel,
         AllHooks
  <1> QED BY <1>1 DEF Queries!Hooks

LEMMA HookNames ==
  /\ Queries!useRunCoverageLatest.name = <<"runs", "latest", "coverage">>
  /\ Queries!useRunsLatest.name = <<"runs", "latest">>
  /\ Queries!useRunGraphContextLatest.name = <<"runs", "latest", "graph", "context">>
  /\ Queries!useFindingGraphContext.name = <<"findings", "graph">>
  /\ Queries!useRunCoverageCheckers.name = <<"runs", "latest", "coverage", "checkers">>
  /\ Queries!useRunCoverageIssues.name = <<"runs", "latest", "coverage", "issues">>
  /\ Queries!useRunCoverageServices.name = <<"runs", "latest", "coverage", "services">>
  /\ Queries!useRunCoverageAccounts.name = <<"runs", "latest", "coverage", "accounts">>
  /\ Queries!useRunCoverageHistory.name = <<"runs", "coverage", "history">>
  /\ Queries!useRunCoverageRegressionLatest.name = <<"runs", "coverage", "regressions", "latest">>
  /\ Queries!useInitialValueKpis.name = <<"kpis", "initial-value">>
  /\ Queries!useRemediationImpact.name = <<"remediation-impact">>
  /\ Queries!useRecommendations.name = <<"recommendations">>
  /\ Queries!useFindings.name = <<"findings">>
  /\ Queries!useFindingsGroupedCategory.name = <<"findings", "grouped", "category">>
  /\ Queries!useTenantWorkspaces.name = <<"tenant-admin", "workspaces">>
  /\ Queries!useTenantRoleBindings.name = <<"tenant-admin", "role-bindings">>
  /\ Queries!useTenantAdminAudit.name = <<"tenant-admin", "audit">>
  /\ Queries!useTenantDirectory.name = <<"tenant-admin", "users">>
  /\ Queries!useUsers.name = <<"users">>
  /\ Queries!useUserRole.name = <<"users", "role">>
  /\ Queries!useRolesCatalog.name = <<"users", "roles">>
  BY DEF Queries!useRunCoverageLatest, Queries!useRunsLatest, Queries!useRunGraphContextLatest,
      Queries!useFindingGraphContext, Queries!useRunCoverageCheckers,
      Queries!useRunCoverageIssues, Queries!useRunCoverageServices,
      Queries!useRunCoverageAccounts, Queries!useRunCoverageHistory,
      Queries!useRunCoverageRegressionLatest, Queries!useInitialValueKpis,
      Queries!useRemediationImpact, Queries!useRecommendations, Queries!useFindings,
      Queries!useFindingsGroupedCategory, Queries!useTenantWorkspaces,
      Queries!useTenantRoleBindings, Queries!useTenantAdminAudit,
      Queries!useTenantDirectory, Queries!useUsers, Queries!useUserRole,
      Queries!useRolesCatalog, Queries!Hook

\* No two queries have the name of a key in common.
LEMMA NamesDiffer ==
  ASSUME NEW h \in AllHooks, NEW g \in AllHooks, h.name = g.name
  PROVE  h = g
  BY HookNames, SMTT(60) DEF AllHooks

\* A name is a short list without a tenant in it, and what is asked is keyed.
LEMMA HookFacts ==
  ASSUME NEW h \in AllHooks
  PROVE  /\ Len(h.name) \in 1 .. 4 /\ h.name = [i \in 1 .. Len(h.name) |-> h.name[i]]
         /\ \A i \in 1 .. Len(h.name) : h.name[i] # "acme"
         /\ Len(h.keyed) \in Nat /\ h.keyed = [i \in 1 .. Len(h.keyed) |-> h.keyed[i]]
         /\ \A p \in h.asks : \E i \in DOMAIN h.keyed : h.keyed[i] = p
  <1> USE DEF AllHooks, Queries!useRunCoverageLatest, Queries!useRunsLatest, Queries!useRunGraphContextLatest,
      Queries!useFindingGraphContext, Queries!useRunCoverageCheckers,
      Queries!useRunCoverageIssues, Queries!useRunCoverageServices,
      Queries!useRunCoverageAccounts, Queries!useRunCoverageHistory,
      Queries!useRunCoverageRegressionLatest, Queries!useInitialValueKpis,
      Queries!useRemediationImpact, Queries!useRecommendations, Queries!useFindings,
      Queries!useFindingsGroupedCategory, Queries!useTenantWorkspaces,
      Queries!useTenantRoleBindings, Queries!useTenantAdminAudit,
      Queries!useTenantDirectory, Queries!useUsers, Queries!useUserRole,
      Queries!useRolesCatalog, Queries!Hook
  <1>1. Len(h.name) \in 1 .. 4 /\ \A i \in 1 .. Len(h.name) : h.name[i] # "acme"
    OBVIOUS
  <1>2. h.name = [i \in 1 .. Len(h.name) |-> h.name[i]]
    OBVIOUS
  <1>3. Len(h.keyed) \in Nat /\ h.keyed = [i \in 1 .. Len(h.keyed) |-> h.keyed[i]]
    OBVIOUS
  <1>4. \A p \in h.asks : \E i \in DOMAIN h.keyed : h.keyed[i] = p
    OBVIOUS
  <1> QED BY <1>1, <1>2, <1>3, <1>4

LEMMA ListOf ==
  ASSUME NEW S, NEW n \in Nat, NEW s, s = [i \in 1 .. n |-> s[i]], \A i \in 1 .. n : s[i] \in S
  PROVE  s \in Seq(S) /\ Len(s) = n
  OBVIOUS

\* A key is the name, the tenant and the workspace, and the parameters.
LEMMA KeyParts ==
  ASSUME NEW h \in AllHooks, NEW u
  PROVE  /\ \A i \in 1 .. Len(h.name) : Queries!Key(h, u)[i] = h.name[i]
         /\ Queries!Key(h, u)[Len(h.name) + 1] = "acme"
         /\ \A i \in DOMAIN h.keyed : Queries!Key(h, u)[Len(h.name) + 2 + i] = u[h.keyed[i]]
  <1> DEFINE n == Len(h.name)
             l == Len(h.keyed)
             tail == [i \in DOMAIN h.keyed |-> u[h.keyed[i]]]
             S == {h.name[i] : i \in 1 .. n} \cup {Queries!Scope[1], Queries!Scope[2]}
                    \cup {tail[i] : i \in 1 .. l}
             head == h.name \o Queries!Scope
  <1>1. n \in Nat /\ l \in Nat /\ DOMAIN h.keyed = 1 .. l
    BY HookFacts
  <1>2. h.name \in Seq(S)
    <2>1. h.name = [i \in 1 .. n |-> h.name[i]] /\ \A i \in 1 .. n : h.name[i] \in S
      BY HookFacts
    <2> HIDE DEF S, n
    <2> QED BY <1>1, <2>1, ListOf
  <1>3. Queries!Scope = [i \in 1 .. 2 |-> Queries!Scope[i]] /\ Queries!Scope[1] = "acme"
    BY DEF Queries!Scope
  <1>4. Queries!Scope \in Seq(S) /\ Len(Queries!Scope) = 2
    <2>1. \A i \in 1 .. 2 : Queries!Scope[i] \in S
      OBVIOUS
    <2> HIDE DEF S
    <2> QED BY <1>3, <2>1, ListOf
  <1>5. tail \in Seq(S) /\ Len(tail) = l
    <2>1. tail = [i \in 1 .. l |-> tail[i]] /\ \A i \in 1 .. l : tail[i] \in S
      BY <1>1
    <2> HIDE DEF S, tail
    <2> QED BY <1>1, <2>1, ListOf
  <1>6. \A i \in 1 .. l : tail[i] = u[h.keyed[i]]
    BY <1>1
  <1>7. Queries!Key(h, u) = head \o tail
    BY DEF Queries!Key
  <1> HIDE DEF S, tail
  <1>8. /\ head \in Seq(S) /\ Len(head) = n + 2
        /\ \A i \in 1 .. n + 2 : head[i] = IF i <= n THEN h.name[i] ELSE Queries!Scope[i - n]
    <2>1. /\ head \in Seq(S) /\ Len(head) = Len(h.name) + Len(Queries!Scope)
          /\ \A i \in 1 .. Len(h.name) + Len(Queries!Scope) :
               head[i] = IF i <= Len(h.name) THEN h.name[i] ELSE Queries!Scope[i - Len(h.name)]
      BY <1>2, <1>4, ConcatProperties, Zenon
    <2> QED BY <1>4, <2>1
  <1> HIDE DEF head
  <1>9. \A i \in 1 .. n + 2 + l :
          Queries!Key(h, u)[i] = IF i <= n + 2 THEN head[i] ELSE tail[i - (n + 2)]
    <2>1. head \in Seq(S) /\ tail \in Seq(S)
      BY <1>5, <1>8
    <2>2. \A i \in 1 .. Len(head) + Len(tail) :
            (head \o tail)[i] = IF i <= Len(head) THEN head[i] ELSE tail[i - Len(head)]
      BY ONLY <2>1, ConcatProperties, Zenon
    <2> QED BY <1>5, <1>7, <1>8, <2>2
  <1> HIDE DEF n, l
  <1>10. \A i \in 1 .. n : Queries!Key(h, u)[i] = h.name[i]
    BY <1>1, <1>8, <1>9
  <1>11. Queries!Key(h, u)[n + 1] = "acme"
    <2>1. (n + 1) - n = 1 /\ n + 1 \in 1 .. n + 2 /\ ~(n + 1 <= n) /\ n + 1 \in 1 .. n + 2 + l
      BY <1>1
    <2> QED BY <1>1, <1>3, <1>8, <1>9, <2>1
  <1>12. \A i \in 1 .. l : Queries!Key(h, u)[n + 2 + i] = u[h.keyed[i]]
    <2> TAKE i \in 1 .. l
    <2>1. n + 2 + i \in 1 .. n + 2 + l /\ ~(n + 2 + i <= n + 2) /\ (n + 2 + i) - (n + 2) = i
      BY <1>1
    <2> QED BY <1>6, <1>9, <2>1
  <1> QED BY <1>1, <1>10, <1>11, <1>12 DEF n, l

\* One key is the key of one question.  The first place that holds the tenant
\* tells how long the name is, the name tells the query, and the rest the
\* parameters.
LEMMA SameKey ==
  ASSUME NEW h \in AllHooks, NEW g \in AllHooks, NEW u, NEW v,
         Queries!Key(h, u) = Queries!Key(g, v)
  PROVE  Queries!Question(h, u) = Queries!Question(g, v)
  <1> DEFINE K == Queries!Key(h, u)
  <1>1. /\ \A i \in 1 .. Len(h.name) : K[i] = h.name[i]
        /\ \A i \in 1 .. Len(g.name) : K[i] = g.name[i]
        /\ K[Len(h.name) + 1] = "acme" /\ K[Len(g.name) + 1] = "acme"
    BY KeyParts
  <1> HIDE DEF K
  <1>2. Len(h.name) = Len(g.name)
    <2>1. /\ Len(h.name) \in 1 .. 4 /\ \A i \in 1 .. Len(h.name) : h.name[i] # "acme"
          /\ Len(g.name) \in 1 .. 4 /\ \A i \in 1 .. Len(g.name) : g.name[i] # "acme"
      BY HookFacts, Zenon
    <2> DEFINE m == Len(h.name)
               n == Len(g.name)
    <2> HIDE DEF m, n
    <2>2. m \in 1 .. 4 /\ n \in 1 .. 4
      BY <2>1 DEF m, n
    <2>3. \A i \in 1 .. m : K[i] # "acme"
      BY <1>1, <2>1 DEF m
    <2>4. \A i \in 1 .. n : K[i] # "acme"
      BY <1>1, <2>1 DEF n
    <2>5. K[m + 1] = "acme" /\ K[n + 1] = "acme"
      BY <1>1 DEF m, n
    <2>6. m + 1 \notin 1 .. n /\ n + 1 \notin 1 .. m
      BY <2>3, <2>4, <2>5, Zenon
    <2> QED BY <2>2, <2>6 DEF m, n
  <1>3. h.name = g.name
    <2>1. /\ h.name = [i \in 1 .. Len(h.name) |-> h.name[i]]
          /\ g.name = [i \in 1 .. Len(g.name) |-> g.name[i]]
      BY HookFacts, Zenon
    <2>2. \A i \in 1 .. Len(h.name) : h.name[i] = g.name[i]
      BY <1>1, <1>2
    <2> QED BY <1>2, <2>1, <2>2
  <1>4. h = g
    BY <1>3, NamesDiffer
  <1>5. \A p \in h.asks : u[p] = v[p]
    <2> TAKE p \in h.asks
    <2>1. PICK i \in DOMAIN h.keyed : h.keyed[i] = p
      BY HookFacts
    <2> QED BY <1>4, <2>1, KeyParts
  <1> QED BY <1>4, <1>5 DEF Queries!Question

-----------------------------------------------------------------------------
(* What is in the cache of a query.                                          *)

\* An entry that a question is asked through, and what was asked: it holds no
\* answer but the question's own, and nothing else is on its way.
AnswersIt(s, q) ==
  /\ s \in [entry : SigningP!EntryRecords({q, NoAnswer}), sent : {q, NoAnswer}]
  /\ s.entry.answer = NoData
  /\ s.entry.busy => s.sent = q

\* Whatever is cached under a key answers the question whose key it is.
Filed(st) ==
  \A h \in AllHooks : \A u :
    Queries!Key(h, u) \in DOMAIN st => AnswersIt(st[Queries!Key(h, u)], Queries!Question(h, u))

QueriesInv == hook \in Queries!Hooks /\ Filed(store)

\* The cache of the queries is the one of the session.
LEMMA CacheSame ==
  ASSUME NEW e, NEW a
  PROVE  /\ Queries!NewEntry = SigningP!NewEntry
         /\ Queries!Mount(e) = SigningP!Mount(e)
         /\ Queries!Answer(e, a) = SigningP!Answer(e, a)
         /\ Queries!Deliver(e) = SigningP!Deliver(e)
  BY DEF Queries!NewEntry, SigningP!NewEntry, Queries!Mount, SigningP!Mount, Queries!Answer,
       SigningP!Answer, Queries!Deliver, SigningP!Deliver, Queries!Cancel, SigningP!Cancel,
       Queries!SetData, SigningP!SetData

\* A query that is fetched is asked with the parameters of its key.
LEMMA FetchedFiled ==
  ASSUME NEW st, Filed(st), NEW h \in AllHooks, NEW u
  PROVE  Filed(Queries!Fetched(st, h, u))
  <1> DEFINE k == Queries!Key(h, u)
             q == Queries!Question(h, u)
             old == Queries!Stored(st, k)
             slot == [entry |-> Queries!Mount(old.entry),
                      sent |-> IF old.entry.busy THEN old.sent ELSE q]
             now == Queries!Fetched(st, h, u)
  <1>1. AnswersIt(old, q)
    <2>1. CASE k \in DOMAIN st
      BY <2>1 DEF Filed, Queries!Stored
    <2>2. CASE k \notin DOMAIN st
      <3>1. old = [entry |-> Queries!NewEntry, sent |-> NoAnswer]
        BY <2>2 DEF Queries!Stored
      <3> QED BY <3>1, CacheSame, SigningP!NewEntryType DEF AnswersIt
    <2> QED BY <2>1, <2>2
  <1>2. AnswersIt(slot, q)
    <2> HIDE DEF old, q
    <2>1. /\ old.entry \in SigningP!EntryRecords({q, NoAnswer}) /\ old.entry.answer = NoData
          /\ old.sent \in {q, NoAnswer} /\ (old.entry.busy => old.sent = q)
      BY <1>1 DEF AnswersIt
    <2> DEFINE e == Queries!Mount(old.entry)
    <2> HIDE DEF e
    <2>2. e \in SigningP!EntryRecords({q, NoAnswer}) /\ e.answer = NoData
      <3>1. e = SigningP!Mount(old.entry)
        BY CacheSame DEF e
      <3> QED BY <2>1, <3>1, SigningP!MountType, Zenon
    <2>3. slot.sent = q
      BY <2>1
    <2>4. slot = [entry |-> e, sent |-> q]
      BY <2>1 DEF e
    <2> QED BY <2>2, <2>4 DEF AnswersIt
  <1>3. now = [x \in DOMAIN st \cup {k} |-> IF x = k THEN slot ELSE st[x]]
    BY DEF Queries!Fetched
  <1> SUFFICES ASSUME NEW g \in AllHooks, NEW v, Queries!Key(g, v) \in DOMAIN now
               PROVE  AnswersIt(now[Queries!Key(g, v)], Queries!Question(g, v))
    BY DEF Filed
  <1> HIDE DEF slot, now
  <1>4. CASE Queries!Key(g, v) = k
    <2>1. Queries!Question(g, v) = q
      BY <1>4, SameKey
    <2>2. now[Queries!Key(g, v)] = slot
      BY <1>3, <1>4
    <2> QED BY <1>2, <2>1, <2>2
  <1>5. CASE Queries!Key(g, v) # k
    <2> DEFINE j == Queries!Key(g, v)
    <2> HIDE DEF j, k
    <2>1. j \in DOMAIN st /\ now[j] = st[j]
      BY <1>3, <1>5 DEF j
    <2> QED BY <2>1 DEF Filed, j
  <1> QED BY <1>4, <1>5

LEMMA FollowedFiled ==
  ASSUME NEW st, Filed(st), hook' \in AllHooks, NEW u
  PROVE  Filed(Queries!Followed(st, u))
  BY FetchedFiled DEF Queries!Followed

\* The answer to what was asked is the answer to the question of its key.
LEMMA AnswerFiled ==
  ASSUME Filed(store), NEW k \in DOMAIN store, Queries!AnswerQuery(k)
  PROVE  Filed(store')
  <1>1. PICK answer \in Queries!Outcomes(store[k].sent) :
          store' = [store EXCEPT ![k].entry = Queries!Deliver(Queries!Answer(@, answer))]
    BY DEF Queries!AnswerQuery
  <1>2. store[k].entry.busy
    BY DEF Queries!AnswerQuery
  <1> DEFINE e == Queries!Deliver(Queries!Answer(store[k].entry, answer))
  <1>3. DOMAIN store' = DOMAIN store /\ \A x \in DOMAIN store : x # k => store'[x] = store[x]
    BY <1>1
  <1>4. store'[k] = [store[k] EXCEPT !.entry = e]
    BY <1>1
  <1> HIDE DEF e
  <1> SUFFICES ASSUME NEW h \in AllHooks, NEW u, Queries!Key(h, u) \in DOMAIN store
               PROVE  AnswersIt(store'[Queries!Key(h, u)], Queries!Question(h, u))
    BY <1>3 DEF Filed
  <1> DEFINE q == Queries!Question(h, u)
  <1>5. AnswersIt(store[Queries!Key(h, u)], q)
    BY DEF Filed
  <1>6. CASE Queries!Key(h, u) = k
    <2> HIDE DEF q
    <2>1. /\ store[k] \in [entry : SigningP!EntryRecords({q, NoAnswer}), sent : {q, NoAnswer}]
          /\ store[k].sent = q
      BY <1>2, <1>5, <1>6 DEF AnswersIt
    <2>2. answer \in {q, NoAnswer} \cup {Failure}
      BY <1>1, <2>1 DEF Queries!Outcomes
    <2> DEFINE a == Queries!Answer(store[k].entry, answer)
    <2>3. a \in SigningP!EntryRecords({q, NoAnswer})
      BY <2>1, <2>2, CacheSame, SigningP!AnswerType
    <2>4. /\ e \in SigningP!EntryRecords({q, NoAnswer}) /\ e.answer = NoData /\ ~e.busy
      BY <2>3, CacheSame, SigningP!DeliverType DEF e
    <2>5. AnswersIt([store[k] EXCEPT !.entry = e], q)
      BY <2>1, <2>4 DEF AnswersIt
    <2> QED BY <1>4, <1>6, <2>5 DEF q
  <1>7. CASE Queries!Key(h, u) # k
    BY <1>3, <1>5, <1>7
  <1> QED BY <1>6, <1>7

LEMMA QueriesStepInv ==
  ASSUME QueriesInv, Queries!Next
  PROVE  QueriesInv'
  <1>1. hook \in AllHooks /\ Filed(store)
    BY HooksAre DEF QueriesInv
  <1>2. ASSUME NEW h \in Queries!Hooks, NEW p, Queries!EnterConsole(p, h) PROVE QueriesInv'
    <2>1. hook' \in Queries!Hooks /\ store' = Queries!Followed(store, url')
      BY <1>2 DEF Queries!EnterConsole
    <2> QED BY <1>1, <2>1, HooksAre, FollowedFiled DEF QueriesInv
  <1>3. ASSUME NEW h \in Queries!Hooks, NEW p, Queries!GoTo(p, h) PROVE QueriesInv'
    <2>1. hook' \in Queries!Hooks /\ store' = Queries!Followed(store, url')
      BY <1>3 DEF Queries!GoTo
    <2> QED BY <1>1, <2>1, HooksAre, FollowedFiled DEF QueriesInv
  <1>4. ASSUME NEW R, Queries!LearnRights(R) PROVE QueriesInv'
    <2>1. hook' = hook /\ store' = Queries!Followed(store, url)
      BY <1>4 DEF Queries!LearnRights
    <2> QED BY <1>1, <2>1, FollowedFiled DEF QueriesInv
  <1>5. ASSUME NEW S, Queries!PushWithParams(S) PROVE QueriesInv'
    <2>1. hook' = hook
      BY <1>5 DEF Queries!PushWithParams
    <2>2. \E u : store' = Queries!Followed(store, u)
                 \/ store' = Queries!Followed(Queries!Followed(store, u), url')
      BY <1>5 DEF Queries!PushWithParams
    <2> QED BY <1>1, <2>1, <2>2, FollowedFiled DEF QueriesInv
  <1>6. ASSUME NEW S, Queries!Clear(S) PROVE QueriesInv'
    <2>1. hook' = hook /\ store' = Queries!Followed(store, url')
      BY <1>6 DEF Queries!Clear
    <2> QED BY <1>1, <2>1, FollowedFiled DEF QueriesInv
  <1>7. ASSUME NEW item, Queries!Select(item) PROVE QueriesInv'
    <2>1. hook' = hook /\ store' = Queries!Followed(store, url')
      BY <1>7 DEF Queries!Select
    <2> QED BY <1>1, <2>1, FollowedFiled DEF QueriesInv
  <1>8. ASSUME Queries!TurnPage PROVE QueriesInv'
    <2>1. hook' = hook /\ store' = Queries!Followed(store, url')
      BY <1>8 DEF Queries!TurnPage
    <2> QED BY <1>1, <2>1, FollowedFiled DEF QueriesInv
  <1>9. ASSUME NEW k \in DOMAIN store, Queries!AnswerQuery(k) PROVE QueriesInv'
    <2>1. hook' = hook
      BY <1>9 DEF Queries!AnswerQuery
    <2> QED BY <1>1, <1>9, <2>1, AnswerFiled DEF QueriesInv
  <1> QED BY <1>2, <1>3, <1>4, <1>5, <1>6, <1>7, <1>8, <1>9 DEF Queries!Next

-----------------------------------------------------------------------------
(* The users page.                                                           *)

\* The cache of the page is the one of the session.
LEMMA DirectoryCache ==
  ASSUME NEW e, NEW a, NEW D
  PROVE  /\ Directory!NewEntry = SigningP!NewEntry
         /\ Directory!Entries(D) = SigningP!Entries(D)
         /\ Directory!Mount(e) = SigningP!Mount(e)
         /\ Directory!Invalidate(e) = SigningP!Invalidate(e)
         /\ Directory!Answer(e, a) = SigningP!Answer(e, a)
         /\ Directory!Deliver(e) = SigningP!Deliver(e)
         /\ Directory!IsLoading(e) = SigningP!IsLoading(e)
  BY DEF Directory!NewEntry, SigningP!NewEntry, Directory!Mount, SigningP!Mount,
       Directory!Entries, SigningP!Entries, Directory!Invalidate, SigningP!Invalidate,
       Directory!Answer, SigningP!Answer, Directory!Deliver, SigningP!Deliver,
       Directory!Cancel, SigningP!Cancel, Directory!SetData, SigningP!SetData,
       Directory!IsLoading, SigningP!IsLoading

LEMMA EntriesAre ==
  ASSUME NEW D
  PROVE  /\ Directory!Entries(D) = SigningP!EntryRecords(D)
         /\ Directory!NewEntry \in SigningP!EntryRecords(D)
  <1>1. /\ Directory!Entries(D) = SigningP!Entries(D)
        /\ Directory!NewEntry = SigningP!NewEntry
    BY DirectoryCache
  <1>2. SigningP!Entries(D) = SigningP!EntryRecords(D)
    BY SigningP!EntriesAre
  <1>3. SigningP!NewEntry \in SigningP!EntryRecords(D)
    BY SigningP!NewEntryType, Zenon
  <1> QED BY <1>1, <1>2, <1>3

LEMMA MountType ==
  ASSUME NEW D, NEW e \in SigningP!EntryRecords(D)
  PROVE  /\ Directory!Mount(e) \in SigningP!EntryRecords(D)
         /\ Directory!Mount(e).data = e.data /\ Directory!Mount(e).busy
  BY DirectoryCache, SigningP!MountType

LEMMA InvalidateType ==
  ASSUME NEW D, NEW e \in SigningP!EntryRecords(D)
  PROVE  /\ Directory!Invalidate(e) \in SigningP!EntryRecords(D)
         /\ Directory!Invalidate(e).data = e.data /\ Directory!Invalidate(e).busy
         /\ Directory!IsLoading(e) => Directory!Invalidate(e) = e
         /\ ~Directory!IsLoading(e) => Directory!Invalidate(e).answer = NoData
  BY DirectoryCache, SigningP!InvalidateType

LEMMA AnswerType ==
  ASSUME NEW D, NEW e \in SigningP!EntryRecords(D), NEW d \in D \cup {Failure}
  PROVE  /\ Directory!Answer(e, d) \in SigningP!EntryRecords(D)
         /\ Directory!Answer(e, d).data = e.data /\ Directory!Answer(e, d).answer = d
         /\ Directory!Answer(e, d).busy = e.busy /\ Directory!Answer(e, d).failed = e.failed
  BY DirectoryCache, SigningP!AnswerType

LEMMA DeliverType ==
  ASSUME NEW D, NEW e \in SigningP!EntryRecords(D)
  PROVE  /\ Directory!Deliver(e) \in SigningP!EntryRecords(D)
         /\ Directory!Deliver(e).answer = NoData
         /\ \/ Directory!Deliver(e).failed /\ Directory!Deliver(e).data = e.data
            \/ Directory!Deliver(e).data = e.answer
  BY DirectoryCache, SigningP!DeliverType

RoleMoments == [role : [Users -> Roles \cup {NoRole}], active : SUBSET Users]

SavePhases == {"idle", "asked", "saved", "listing", "listed", "rereading"}

SaveRecords ==
  [phase : SavePhases, user : Users \cup {NoUser}, role : Roles \cup {NoRole}, wide : SigningP!Flags]

DirectoryTyped ==
  /\ assigned \in Seq(RoleMoments) /\ Len(assigned) > 0
  /\ users \in SigningP!EntryRecords(DOMAIN assigned)
  /\ roles \in [Users -> SigningP!EntryRecords(DOMAIN assigned)]
  /\ catalog \in SigningP!Flags /\ touched \in SigningP!Flags /\ change \in SigningP!Flags
  /\ drawer \in Users \cup {NoUser} /\ picker \in Roles
  /\ save \in SaveRecords /\ (save.phase # "idle" => save.user \in Users /\ save.role \in Roles)
  /\ due \in 0 .. Len(assigned) /\ roleSaves \in 0 .. MaxRoleSaves /\ grants \in 0 .. MaxGrants

\* A picker its user has not touched proposes the role that the drawer names.
Proposes(r, u, p, t, c) == (u # NoUser /\ ~t /\ r # NoRole) => p = Directory!Offered(r, c)

\* The save that the drawer's role is due after is yet to read it again.
Rereading(s, u) ==
  s.phase \in {"saved", "listing", "listed", "rereading"} /\ ~s.wide /\ s.user = u

\* A role that has been read after n, or is being read, or is known to be older.
Since(e, n) ==
  /\ e.answer = NoData \/ e.answer >= n
  /\ e.busy \/ e.failed \/ e.data >= n

DueFollowed(n, u, s, rs) == n # 0 => u # NoUser /\ (Rereading(s, u) \/ Since(rs[u], n))

DirectoryInv ==
  /\ DirectoryTyped
  /\ Proposes(Directory!RoleAt(roles[drawer], drawer), drawer, picker, touched, catalog)
  /\ DueFollowed(due, drawer, save, roles)

LEMMA EntriesGrow ==
  ASSUME NEW D, NEW E, D \subseteq E
  PROVE  SigningP!EntryRecords(D) \subseteq SigningP!EntryRecords(E)
  BY DEF SigningP!EntryRecords

\* What was assigned stays in the history.
LEMMA AssignedGrows ==
  ASSUME DirectoryTyped, NEW m \in RoleMoments, assigned' = Append(assigned, m)
  PROVE  /\ assigned' \in Seq(RoleMoments) /\ Len(assigned') = Len(assigned) + 1
         /\ Len(assigned) \in Nat /\ Len(assigned') > 0
         /\ DOMAIN assigned \subseteq DOMAIN assigned'
         /\ \A i \in DOMAIN assigned : assigned'[i] = assigned[i]
         /\ users \in SigningP!EntryRecords(DOMAIN assigned')
         /\ roles \in [Users -> SigningP!EntryRecords(DOMAIN assigned')]
  <1>1. /\ assigned' \in Seq(RoleMoments) /\ Len(assigned') = Len(assigned) + 1
        /\ Len(assigned) \in Nat /\ \A i \in 1 .. Len(assigned) : assigned'[i] = assigned[i]
    BY DEF DirectoryTyped
  <1>2. DOMAIN assigned = 1 .. Len(assigned) /\ DOMAIN assigned' = 1 .. Len(assigned')
    BY <1>1 DEF DirectoryTyped
  <1>3. DOMAIN assigned \subseteq DOMAIN assigned' /\ Len(assigned') > 0
    BY <1>1, <1>2
  <1>4. SigningP!EntryRecords(DOMAIN assigned) \subseteq SigningP!EntryRecords(DOMAIN assigned')
    BY <1>3, EntriesGrow
  <1>5. /\ users \in SigningP!EntryRecords(DOMAIN assigned')
        /\ roles \in [Users -> SigningP!EntryRecords(DOMAIN assigned')]
    BY <1>4 DEF DirectoryTyped
  <1> QED BY <1>1, <1>2, <1>3, <1>5

LEMMA GivenType ==
  ASSUME DirectoryTyped, NEW u \in Users, NEW r \in Roles
  PROVE  \E m \in RoleMoments : Directory!Given(u, r) = Append(assigned, m)
  <1>1. assigned[Len(assigned)] \in RoleMoments
    BY DEF DirectoryTyped
  <1> DEFINE m == [assigned[Len(assigned)] EXCEPT !.role[u] = r]
  <1>2. m \in RoleMoments
    BY <1>1 DEF RoleMoments
  <1> QED BY <1>2 DEF Directory!Given

LEMMA AlteredType ==
  ASSUME DirectoryTyped, NEW S \in SUBSET Users
  PROVE  \E m \in RoleMoments : Directory!Altered(S) = Append(assigned, m)
  <1>1. assigned[Len(assigned)] \in RoleMoments
    BY DEF DirectoryTyped
  <1> DEFINE m == [assigned[Len(assigned)] EXCEPT !.active = S]
  <1>2. m \in RoleMoments
    BY <1>1 DEF RoleMoments
  <1> QED BY <1>2 DEF Directory!Altered

LEMMA ListedAre ==
  ASSUME DirectoryTyped
  PROVE  Directory!ListedUsers(users) \subseteq Users
  <1>1. CASE users.data = NoData
    BY <1>1 DEF Directory!ListedUsers
  <1>2. CASE users.data # NoData
    <2>1. users.data \in DOMAIN assigned
      BY <1>2 DEF DirectoryTyped, SigningP!EntryRecords
    <2>2. assigned[users.data] \in RoleMoments
      BY <2>1 DEF DirectoryTyped
    <2> QED BY <1>2, <2>2 DEF Directory!ListedUsers, RoleMoments
  <1> QED BY <1>1, <1>2

LEMMA RolesAre ==
  ASSUME DirectoryTyped, NEW e \in SigningP!EntryRecords(DOMAIN assigned), NEW u \in Users
  PROVE  Directory!RoleAt(e, u) \in Roles \cup {NoRole}
  <1>1. CASE e.data = NoData
    BY <1>1 DEF Directory!RoleAt
  <1>2. CASE e.data # NoData
    <2>1. e.data \in DOMAIN assigned
      BY <1>2 DEF SigningP!EntryRecords
    <2>2. assigned[e.data] \in RoleMoments
      BY <2>1 DEF DirectoryTyped
    <2> QED BY <1>2, <2>2 DEF Directory!RoleAt, RoleMoments
  <1> QED BY <1>1, <1>2

\* The effects write a role into the picker, if they write it.
LEMMA ProposedType ==
  ASSUME Directory!UsersAssumption, DirectoryTyped, NEW us \in SigningP!EntryRecords(DOMAIN assigned),
         NEW rs \in [Users -> SigningP!EntryRecords(DOMAIN assigned)], NEW u \in Users \cup {NoUser},
         NEW c
  PROVE  Directory!Offered(Directory!Proposed(us, rs, u), c) \in Roles
  <1>1. Directory!Proposed(us, rs, u) \in Roles
    <2>1. CASE u # NoUser
      <3>1. u \in Users /\ rs[u] \in SigningP!EntryRecords(DOMAIN assigned)
        BY <2>1
      <3>2. Directory!RoleAt(rs[u], u) \in Roles \cup {NoRole} /\ Directory!RoleAt(us, u) \in Roles \cup {NoRole}
        BY <3>1, RolesAre
      <3> QED BY <3>2 DEF Directory!Proposed, Directory!ListedRole, Directory!UsersAssumption
    <2>2. CASE u = NoUser
      <3>1. Directory!ListedRole(us, u) = NoRole \/ (us.data # NoData /\ u \in assigned[us.data].active)
        BY DEF Directory!ListedRole, Directory!ListedUsers
      <3>2. us.data # NoData => assigned[us.data].active \subseteq Users
        <4>1. us.data # NoData => us.data \in DOMAIN assigned
          BY DEF SigningP!EntryRecords
        <4>2. us.data # NoData => assigned[us.data] \in RoleMoments
          BY <4>1 DEF DirectoryTyped
        <4> QED BY <4>2 DEF RoleMoments
      <3>3. Directory!ListedRole(us, u) = NoRole
        BY <2>2, <3>1, <3>2 DEF Directory!UsersAssumption
      <3> QED BY <2>2, <3>3 DEF Directory!Proposed, Directory!UsersAssumption
    <2> QED BY <2>1, <2>2
  <1>2. Catalog[1] \in Roles
    BY DEF Directory!UsersAssumption
  <1> QED BY <1>1, <1>2 DEF Directory!Offered

\* The effects keep the picker on the role of the drawer.
LEMMA EffectsKeep ==
  ASSUME Directory!UsersAssumption, DirectoryInv, NEW us \in SigningP!EntryRecords(DOMAIN assigned),
         NEW rs \in [Users -> SigningP!EntryRecords(DOMAIN assigned)], NEW u \in Users \cup {NoUser},
         Directory!Effects(us, rs, u), UNCHANGED <<assigned, catalog>>
  PROVE  /\ users' = us /\ roles' = rs /\ drawer' = u
         /\ picker' \in Roles /\ touched' \in SigningP!Flags
         /\ Proposes(Directory!RoleAt(rs[u], u), u, picker', touched', catalog)
  <1>1. users' = us /\ roles' = rs /\ drawer' = u
    BY DEF Directory!Effects
  <1>2. CASE picker' = Directory!Offered(Directory!Proposed(us, rs, u), catalog) /\ touched' = FALSE
    <2>1. picker' \in Roles
      BY <1>2, ProposedType DEF DirectoryInv
    <2>2. Proposes(Directory!RoleAt(rs[u], u), u, picker', touched', catalog)
      BY <1>2 DEF Proposes, Directory!Proposed
    <2> QED BY <1>1, <1>2, <2>1, <2>2, SigningP!FlagsHave
  <1>3. CASE /\ u = drawer /\ Directory!RoleShown(rs, u) = Directory!RoleShown(roles, drawer)
             /\ UNCHANGED <<picker, touched>>
    <2>1. u # NoUser => Directory!RoleAt(rs[u], u) = Directory!RoleAt(roles[u], u)
      BY <1>3 DEF Directory!RoleShown, Directory!RoleAt
    <2>2. Proposes(Directory!RoleAt(rs[u], u), u, picker, touched, catalog)
      BY <1>3, <2>1 DEF DirectoryInv, Proposes
    <2> QED BY <1>1, <1>3, <2>2 DEF DirectoryInv, DirectoryTyped
  <1> QED BY <1>2, <1>3 DEF Directory!Effects

\* A step that adds nothing to the history.
LEMMA SameHistory ==
  ASSUME DirectoryInv, assigned' = assigned,
         users' \in SigningP!EntryRecords(DOMAIN assigned),
         roles' \in [Users -> SigningP!EntryRecords(DOMAIN assigned)],
         catalog' \in SigningP!Flags, touched' \in SigningP!Flags, change' \in SigningP!Flags,
         drawer' \in Users \cup {NoUser}, picker' \in Roles,
         save' \in SaveRecords, save'.phase # "idle" => save'.user \in Users /\ save'.role \in Roles,
         due' \in 0 .. Len(assigned), roleSaves' \in 0 .. MaxRoleSaves, grants' \in 0 .. MaxGrants,
         Proposes(Directory!RoleAt(roles'[drawer'], drawer'), drawer', picker', touched', catalog'),
         DueFollowed(due', drawer', save', roles')
  PROVE  DirectoryInv'
  <1>1. Directory!RoleAt(roles[drawer], drawer)' = Directory!RoleAt(roles'[drawer'], drawer')
    BY DEF Directory!RoleAt
  <1>2. DirectoryTyped'
    BY DEF DirectoryInv, DirectoryTyped
  <1> QED BY <1>1, <1>2 DEF DirectoryInv

\* A step of the server: what the page has read it keeps.
LEMMA LongerHistory ==
  ASSUME DirectoryInv, NEW m \in RoleMoments, assigned' = Append(assigned, m),
         UNCHANGED <<users, roles, catalog, drawer, picker, touched, roleSaves>>,
         save' \in SaveRecords, save'.phase # "idle" => save'.user \in Users /\ save'.role \in Roles,
         due' \in {due, Len(assigned')}, grants' \in 0 .. MaxGrants, change' \in SigningP!Flags,
         DueFollowed(due', drawer, save', roles)
  PROVE  DirectoryInv'
  <1>1. DirectoryTyped
    BY DEF DirectoryInv
  <1>2. /\ assigned' \in Seq(RoleMoments) /\ Len(assigned') = Len(assigned) + 1
        /\ Len(assigned) \in Nat /\ Len(assigned') > 0
        /\ \A i \in DOMAIN assigned : assigned'[i] = assigned[i]
        /\ users \in SigningP!EntryRecords(DOMAIN assigned')
        /\ roles \in [Users -> SigningP!EntryRecords(DOMAIN assigned')]
    BY <1>1, AssignedGrows
  <1>3. due' \in 0 .. Len(assigned')
    BY <1>1, <1>2 DEF DirectoryTyped
  <1>4. DirectoryTyped'
    BY <1>1, <1>2, <1>3 DEF DirectoryTyped
  <1>5. drawer # NoUser => Directory!RoleAt(roles[drawer], drawer)' = Directory!RoleAt(roles[drawer], drawer)
    <2> SUFFICES ASSUME drawer # NoUser
                 PROVE  Directory!RoleAt(roles[drawer], drawer)' = Directory!RoleAt(roles[drawer], drawer)
      OBVIOUS
    <2>1. roles[drawer] \in SigningP!EntryRecords(DOMAIN assigned)
      BY <1>1 DEF DirectoryTyped
    <2>2. roles[drawer].data = NoData \/ roles[drawer].data \in DOMAIN assigned
      BY <2>1 DEF SigningP!EntryRecords
    <2> QED BY <1>2, <2>2 DEF Directory!RoleAt
  <1>6. Proposes(Directory!RoleAt(roles[drawer], drawer)', drawer', picker', touched', catalog')
    BY <1>5 DEF DirectoryInv, Proposes
  <1> QED BY <1>4, <1>6 DEF DirectoryInv

\* What the page has got, by name.
LEMMA DirectoryHas ==
  ASSUME DirectoryInv
  PROVE  /\ DirectoryTyped /\ assigned \in Seq(RoleMoments) /\ Len(assigned) \in Nat
         /\ users \in SigningP!EntryRecords(DOMAIN assigned)
         /\ roles \in [Users -> SigningP!EntryRecords(DOMAIN assigned)]
         /\ catalog \in SigningP!Flags /\ touched \in SigningP!Flags /\ change \in SigningP!Flags
         /\ drawer \in Users \cup {NoUser} /\ picker \in Roles
         /\ save \in SaveRecords
         /\ save.phase # "idle" => save.user \in Users /\ save.role \in Roles
         /\ due \in 0 .. Len(assigned)
         /\ roleSaves \in 0 .. MaxRoleSaves /\ grants \in 0 .. MaxGrants
         /\ Proposes(Directory!RoleAt(roles[drawer], drawer), drawer, picker, touched, catalog)
         /\ DueFollowed(due, drawer, save, roles)
         /\ Len(assigned) \in DOMAIN assigned
  BY DEF DirectoryInv, DirectoryTyped

LEMMA NoSaveType == Directory!NoSave \in SaveRecords /\ Directory!NoSave.phase = "idle"
  BY SigningP!FlagsHave DEF Directory!NoSave, SaveRecords, SavePhases

\* A save that goes on is still the same save.
LEMMA SaveMoves ==
  ASSUME NEW s \in SaveRecords, NEW p \in SavePhases, NEW t, t = [s EXCEPT !.phase = p]
  PROVE  /\ t \in SaveRecords /\ t.phase = p /\ t.user = s.user /\ t.role = s.role
         /\ t.wide = s.wide
  BY DEF SaveRecords

LEMMA LoadCatalogKeeps ==
  ASSUME Directory!UsersAssumption, DirectoryInv, Directory!LoadCatalog
  PROVE  DirectoryInv'
  <1>1. /\ ~catalog /\ catalog' = TRUE /\ picker' = Directory!Offered(picker, TRUE)
        /\ UNCHANGED <<assigned, users, roles, drawer, touched, save, due, roleSaves, grants, change>>
    BY DEF Directory!LoadCatalog
  <1>2. picker' \in Roles
    <2>1. Catalog[1] \in Roles
      BY DEF Directory!UsersAssumption
    <2> QED BY <1>1, <2>1, DirectoryHas DEF Directory!Offered
  <1>3. Proposes(Directory!RoleAt(roles[drawer], drawer), drawer, picker', touched, TRUE)
    BY <1>1, DirectoryHas DEF Proposes, Directory!Offered
  <1> QED BY <1>1, <1>2, <1>3, DirectoryHas, SigningP!FlagsHave, SameHistory

LEMMA ManageRoleKeeps ==
  ASSUME Directory!UsersAssumption, DirectoryInv, NEW u \in Users, Directory!ManageRole(u)
  PROVE  DirectoryInv'
  <1> DEFINE rs == IF u = drawer THEN roles ELSE [roles EXCEPT ![u] = Directory!Mount(@)]
  <1>1. /\ Directory!Effects(users, rs, u) /\ due' = IF u = drawer THEN due ELSE 0
        /\ UNCHANGED <<assigned, catalog, save, roleSaves, grants, change>>
    BY DEF Directory!ManageRole
  <1>2. rs \in [Users -> SigningP!EntryRecords(DOMAIN assigned)]
    <2>1. roles \in [Users -> SigningP!EntryRecords(DOMAIN assigned)]
      BY DirectoryHas
    <2>2. Directory!Mount(roles[u]) \in SigningP!EntryRecords(DOMAIN assigned)
      BY <2>1, MountType
    <2> QED BY <2>1, <2>2
  <1>3. u = drawer => rs = roles
    OBVIOUS
  <1> HIDE DEF rs
  <1>4. /\ users' = users /\ roles' = rs /\ drawer' = u /\ picker' \in Roles /\ touched' \in SigningP!Flags
        /\ Proposes(Directory!RoleAt(rs[u], u), u, picker', touched', catalog)
    BY <1>1, <1>2, DirectoryHas, EffectsKeep
  <1>5. DueFollowed(due', u, save, rs)
    BY <1>1, <1>3, DirectoryHas DEF DueFollowed
  <1>6. due' \in 0 .. Len(assigned)
    BY <1>1, DirectoryHas
  <1> QED BY <1>1, <1>2, <1>4, <1>5, <1>6, DirectoryHas, SameHistory

LEMMA CloseDrawerKeeps ==
  ASSUME Directory!UsersAssumption, DirectoryInv, Directory!CloseDrawer
  PROVE  DirectoryInv'
  <1>1. /\ Directory!Effects(users, roles, NoUser) /\ due' = 0
        /\ UNCHANGED <<assigned, catalog, save, roleSaves, grants, change>>
    BY DEF Directory!CloseDrawer
  <1>2. /\ users' = users /\ roles' = roles /\ drawer' = NoUser /\ picker' \in Roles
        /\ touched' \in SigningP!Flags /\ Proposes(Directory!RoleAt(roles[NoUser], NoUser), NoUser, picker', touched', catalog)
    BY <1>1, DirectoryHas, EffectsKeep
  <1>3. DueFollowed(due', NoUser, save, roles) /\ due' \in 0 .. Len(assigned)
    BY <1>1, DirectoryHas DEF DueFollowed
  <1> QED BY <1>1, <1>2, <1>3, DirectoryHas, SameHistory

LEMMA PickRoleKeeps ==
  ASSUME DirectoryInv, NEW r \in Roles, Directory!PickRole(r)
  PROVE  DirectoryInv'
  <1>1. /\ picker' = r /\ touched' = TRUE
        /\ UNCHANGED <<assigned, users, roles, catalog, drawer, save, due, roleSaves, grants, change>>
    BY DEF Directory!PickRole
  <1>2. Proposes(Directory!RoleAt(roles[drawer], drawer), drawer, picker', touched', catalog)
    BY <1>1 DEF Proposes
  <1> QED BY <1>1, <1>2, DirectoryHas, SigningP!FlagsHave, SameHistory

LEMMA SaveRoleKeeps ==
  ASSUME Directory!UsersAssumption, DirectoryInv, Directory!SaveRole
  PROVE  DirectoryInv'
  <1>1. PICK wide \in BOOLEAN :
          save' = [phase |-> "asked", user |-> drawer, role |-> picker, wide |-> wide]
    BY DEF Directory!SaveRole
  <1>2. /\ drawer \in Directory!ListedUsers(users) /\ save = Directory!NoSave /\ roleSaves < MaxRoleSaves
        /\ roleSaves' = roleSaves + 1
        /\ UNCHANGED <<assigned, users, roles, catalog, drawer, picker, touched, due, grants, change>>
    BY DEF Directory!SaveRole, Directory!DrawerOpen
  <1>3. drawer \in Users
    BY <1>2, ListedAre DEF DirectoryInv
  <1>4. save' \in SaveRecords /\ save'.user \in Users /\ save'.role \in Roles
    <2>1. wide \in SigningP!Flags
      BY DEF SigningP!Flags
    <2> QED BY <1>1, <1>3, <2>1, DirectoryHas DEF SaveRecords, SavePhases
  <1>5. DueFollowed(due, drawer, save', roles)
    <2>1. ~Rereading(save, drawer)
      BY <1>2, NoSaveType DEF Rereading
    <2> QED BY <2>1, DirectoryHas DEF DueFollowed
  <1>6. roleSaves' \in 0 .. MaxRoleSaves
    BY <1>2, DirectoryHas DEF Directory!UsersAssumption
  <1> QED BY <1>2, <1>4, <1>5, <1>6, DirectoryHas, SameHistory

LEMMA AnswerSaveKeeps ==
  ASSUME Directory!UsersAssumption, DirectoryInv, Directory!AnswerSave
  PROVE  DirectoryInv'
  <1>1. /\ save.phase = "asked" /\ save.user \in Users /\ save.role \in Roles
        /\ UNCHANGED <<users, roles, catalog, drawer, picker, touched, roleSaves, grants, change>>
    BY DirectoryHas DEF Directory!AnswerSave
  <1>2. ~Rereading(save, drawer)
    BY <1>1 DEF Rereading
  <1>3. due # 0 => drawer # NoUser /\ Since(roles[drawer], due)
    BY <1>2, DirectoryHas DEF DueFollowed
  <1>4. DueFollowed(due, drawer, save', roles)
    BY <1>3 DEF DueFollowed
  <1>5. CASE UNCHANGED <<assigned, due>> /\ save' = Directory!NoSave
    BY <1>1, <1>4, <1>5, DirectoryHas, NoSaveType, SameHistory
  <1>6. CASE assigned' = Directory!Given(save.user, save.role)
    <2>1. PICK m \in RoleMoments : assigned' = Append(assigned, m)
      BY <1>1, <1>6, GivenType DEF DirectoryInv
    <2>2. CASE save' = Directory!NoSave /\ UNCHANGED due
      BY <1>1, <1>4, <2>1, <2>2, DirectoryHas, NoSaveType, LongerHistory
    <2>3. CASE /\ save' = [save EXCEPT !.phase = "saved"]
               /\ due' = IF ~save.wide /\ drawer = save.user THEN Len(assigned') ELSE due
      <3>1. /\ save' \in SaveRecords /\ save'.phase = "saved" /\ save'.user = save.user
            /\ save'.role = save.role /\ save'.wide = save.wide
        <4>1. "saved" \in SavePhases
          BY DEF SavePhases
        <4> QED BY <2>3, <4>1, DirectoryHas, SaveMoves
      <3>2. DueFollowed(due', drawer, save', roles)
        <4>1. CASE ~save.wide /\ drawer = save.user
          <5>1. Rereading(save', drawer)
            BY <3>1, <4>1 DEF Rereading
          <5>2. drawer # NoUser
            BY <1>1, <4>1 DEF Directory!UsersAssumption
          <5> QED BY <5>1, <5>2 DEF DueFollowed
        <4>2. CASE ~(~save.wide /\ drawer = save.user)
          BY <1>4, <2>3, <4>2
        <4> QED BY <4>1, <4>2
      <3>3. due' \in {due, Len(assigned')}
        BY <2>3
      <3> QED BY <1>1, <2>1, <3>1, <3>2, <3>3, DirectoryHas, LongerHistory
    <2> QED BY <1>6, <2>2, <2>3 DEF Directory!AnswerSave
  <1> QED BY <1>5, <1>6 DEF Directory!AnswerSave

\* A request that is sent again is of no earlier moment.
LEMMA SinceInvalidated ==
  ASSUME NEW D, NEW e \in SigningP!EntryRecords(D), NEW n
  PROVE  /\ Since(e, n) => Since(Directory!Invalidate(e), n)
         /\ ~e.busy => Since(Directory!Invalidate(e), n)
  <1>1. /\ Directory!IsLoading(e) => Directory!Invalidate(e) = e
        /\ ~Directory!IsLoading(e) => Directory!Invalidate(e).answer = NoData /\ Directory!Invalidate(e).busy
    BY InvalidateType
  <1> QED BY <1>1 DEF Since, Directory!IsLoading

LEMMA SinceDelivered ==
  ASSUME NEW D, NEW e \in SigningP!EntryRecords(D), NEW n, Directory!Answered(e), Since(e, n)
  PROVE  Since(Directory!Deliver(e), n)
  <1>1. Directory!Deliver(e).answer = NoData
        /\ ((Directory!Deliver(e).failed /\ Directory!Deliver(e).data = e.data) \/ Directory!Deliver(e).data = e.answer)
    BY DeliverType
  <1> QED BY <1>1 DEF Since, Directory!Answered

\* A failure is heard of: what was shown stays.
LEMMA FailureRead ==
  ASSUME NEW D, NEW e \in SigningP!EntryRecords(D)
  PROVE  LET t == Directory!Deliver(Directory!Answer(e, Failure))
         IN  t \in SigningP!EntryRecords(D) /\ t.data = e.data /\ t.answer = NoData /\ t.failed
  <1> DEFINE f == Directory!Answer(e, Failure)
  <1>1. f \in SigningP!EntryRecords(D) /\ f.data = e.data /\ f.answer = Failure
    BY AnswerType
  <1> DEFINE g == Directory!Cancel(f)
  <1>2. Directory!Deliver(f) = [g EXCEPT !.failed = TRUE]
    BY <1>1 DEF Directory!Deliver
  <1> HIDE DEF f
  <1>3. g \in SigningP!EntryRecords(D) /\ g.data = e.data /\ g.answer = NoData
    BY <1>1, SigningP!FlagsHave DEF Directory!Cancel, SigningP!EntryRecords
  <1> HIDE DEF g
  <1>4. /\ Directory!Deliver(f) \in SigningP!EntryRecords(D) /\ Directory!Deliver(f).data = e.data
        /\ Directory!Deliver(f).answer = NoData /\ Directory!Deliver(f).failed
    BY <1>2, <1>3, SigningP!FlagsHave DEF SigningP!EntryRecords
  <1> QED BY <1>4 DEF f

\* A server's answer is of its last moment, and a failure is told of.
LEMMA SinceRead ==
  ASSUME NEW S, Len(S) \in DOMAIN S, Len(S) \in Nat,
         NEW e \in SigningP!EntryRecords(DOMAIN S), NEW n \in 0 .. Len(S), Directory!Unanswered(e), Since(e, n),
         NEW t \in {Directory!Answer(e, Len(S)), Directory!Deliver(Directory!Answer(e, Failure))}
  PROVE  /\ t \in SigningP!EntryRecords(DOMAIN S) /\ t.data = e.data /\ Since(t, n)
  <1>1. CASE t = Directory!Answer(e, Len(S))
    <2>1. /\ t \in SigningP!EntryRecords(DOMAIN S) /\ t.data = e.data /\ t.answer = Len(S)
          /\ t.busy = e.busy /\ t.failed = e.failed
      BY <1>1, AnswerType
    <2> QED BY <2>1 DEF Since, Directory!Unanswered
  <1>2. CASE t = Directory!Deliver(Directory!Answer(e, Failure))
    BY <1>2, FailureRead DEF Since
  <1> QED BY <1>1, <1>2

LEMMA RereadUsersKeeps ==
  ASSUME DirectoryInv, Directory!RereadUsers
  PROVE  DirectoryInv'
  <1>1. /\ save.phase = "saved" /\ save' = [save EXCEPT !.phase = "listing"]
        /\ users' = Directory!Invalidate(users)
        /\ UNCHANGED <<assigned, roles, catalog, drawer, picker, touched, due, roleSaves, grants, change>>
    BY DEF Directory!RereadUsers
  <1>2. users' \in SigningP!EntryRecords(DOMAIN assigned)
    BY <1>1, DirectoryHas, InvalidateType
  <1>3. /\ save' \in SaveRecords /\ save'.phase = "listing" /\ save'.user = save.user
        /\ save'.role = save.role /\ save'.wide = save.wide
    <2>1. "listing" \in SavePhases
      BY DEF SavePhases
    <2> QED BY <1>1, <2>1, DirectoryHas, SaveMoves
  <1>4. DueFollowed(due, drawer, save', roles)
    BY <1>1, <1>3, DirectoryHas DEF DueFollowed, Rereading
  <1> QED BY <1>1, <1>2, <1>3, <1>4, DirectoryHas, SameHistory

LEMMA RereadRoleKeeps ==
  ASSUME Directory!UsersAssumption, DirectoryInv, Directory!RereadRole
  PROVE  DirectoryInv'
  <1>1. /\ save.phase \in {"listed", "listing"}
        /\ save' = IF save.wide THEN Directory!NoSave ELSE [save EXCEPT !.phase = "rereading"]
        /\ roles' = IF ~save.wide /\ drawer = save.user
                    THEN [roles EXCEPT ![drawer] = Directory!Invalidate(@)] ELSE roles
        /\ UNCHANGED <<assigned, users, catalog, drawer, picker, touched, due, roleSaves, grants, change>>
    BY DEF Directory!RereadRole
  <1>2. save.user \in Users /\ save.role \in Roles
    BY <1>1, DirectoryHas
  <1>3. CASE save.wide
    <2>1. save' = Directory!NoSave /\ roles' = roles /\ ~Rereading(save, drawer)
      BY <1>1, <1>3 DEF Rereading
    <2>2. DueFollowed(due, drawer, save', roles)
      BY <2>1, DirectoryHas DEF DueFollowed
    <2> QED BY <1>1, <2>1, <2>2, DirectoryHas, NoSaveType, SameHistory
  <1>4. CASE ~save.wide
    <2>1. /\ save' \in SaveRecords /\ save'.phase = "rereading" /\ save'.user = save.user
          /\ save'.role = save.role /\ save'.wide = save.wide
      <3>1. "rereading" \in SavePhases
        BY DEF SavePhases
      <3> QED BY <1>1, <1>4, <3>1, DirectoryHas, SaveMoves
    <2>2. CASE drawer = save.user
      <3>1. roles' = [roles EXCEPT ![drawer] = Directory!Invalidate(roles[drawer])] /\ drawer \in Users
        BY <1>1, <1>2, <1>4, <2>2
      <3>2. roles[drawer] \in SigningP!EntryRecords(DOMAIN assigned) /\ roles \in [Users -> SigningP!EntryRecords(DOMAIN assigned)]
        BY <3>1, DirectoryHas
      <3>3. /\ Directory!Invalidate(roles[drawer]) \in SigningP!EntryRecords(DOMAIN assigned)
            /\ Directory!Invalidate(roles[drawer]).data = roles[drawer].data
        BY <3>2, InvalidateType
      <3>4. /\ roles' \in [Users -> SigningP!EntryRecords(DOMAIN assigned)]
            /\ roles'[drawer].data = roles[drawer].data
        BY <3>1, <3>2, <3>3
      <3>5. Proposes(Directory!RoleAt(roles'[drawer], drawer), drawer, picker, touched, catalog)
        BY <3>4, DirectoryHas DEF Directory!RoleAt
      <3>6. DueFollowed(due, drawer, save', roles')
        <4>1. Rereading(save', drawer) /\ drawer # NoUser
          BY <1>4, <2>1, <2>2, <3>1 DEF Rereading, Directory!UsersAssumption
        <4> QED BY <4>1 DEF DueFollowed
      <3> QED BY <1>1, <1>2, <2>1, <3>4, <3>5, <3>6, DirectoryHas, SameHistory
    <2>3. CASE drawer # save.user
      <3>1. roles' = roles /\ ~Rereading(save, drawer)
        BY <1>1, <2>3 DEF Rereading
      <3>2. DueFollowed(due, drawer, save', roles)
        BY <3>1, DirectoryHas DEF DueFollowed
      <3> QED BY <1>1, <1>2, <2>1, <3>1, <3>2, DirectoryHas, SameHistory
    <2> QED BY <2>2, <2>3
  <1> QED BY <1>3, <1>4

\* The role is fetched once more when no request for it is out, so that what it
\* reads, it reads after the save.
LEMMA RefetchRoleKeeps ==
  ASSUME Directory!UsersAssumption, DirectoryInv, Directory!RefetchRole
  PROVE  DirectoryInv'
  <1>1. /\ save.phase = "rereading" /\ ~roles[save.user].busy /\ save' = Directory!NoSave
        /\ roles' = IF drawer = NoUser THEN roles ELSE [roles EXCEPT ![drawer] = Directory!Invalidate(@)]
        /\ UNCHANGED <<assigned, users, catalog, drawer, picker, touched, due, roleSaves, grants, change>>
    BY DEF Directory!RefetchRole
  <1>2. CASE drawer = NoUser
    <2>1. roles' = roles /\ DueFollowed(due, drawer, save', roles)
      BY <1>1, <1>2, DirectoryHas DEF DueFollowed
    <2> QED BY <1>1, <2>1, DirectoryHas, NoSaveType, SameHistory
  <1>3. CASE drawer # NoUser
    <2>1. roles' = [roles EXCEPT ![drawer] = Directory!Invalidate(roles[drawer])] /\ drawer \in Users
      BY <1>1, <1>3, DirectoryHas
    <2>2. roles[drawer] \in SigningP!EntryRecords(DOMAIN assigned) /\ roles \in [Users -> SigningP!EntryRecords(DOMAIN assigned)]
      BY <2>1, DirectoryHas
    <2>3. /\ Directory!Invalidate(roles[drawer]) \in SigningP!EntryRecords(DOMAIN assigned)
          /\ Directory!Invalidate(roles[drawer]).data = roles[drawer].data
      BY <2>2, InvalidateType
    <2>4. /\ roles' \in [Users -> SigningP!EntryRecords(DOMAIN assigned)]
          /\ roles'[drawer] = Directory!Invalidate(roles[drawer])
      BY <2>1, <2>2, <2>3
    <2>5. Proposes(Directory!RoleAt(roles'[drawer], drawer), drawer, picker, touched, catalog)
      BY <2>3, <2>4, DirectoryHas DEF Directory!RoleAt
    <2>6. DueFollowed(due, drawer, save', roles')
      <3>1. CASE Rereading(save, drawer)
        <4>1. ~roles[drawer].busy
          BY <1>1, <3>1 DEF Rereading
        <4>2. Since(roles'[drawer], due)
          BY <2>2, <2>4, <4>1, SinceInvalidated
        <4> QED BY <1>3, <4>2 DEF DueFollowed
      <3>2. CASE ~Rereading(save, drawer)
        <4>1. due # 0 => Since(roles[drawer], due)
          BY <3>2, DirectoryHas DEF DueFollowed
        <4>2. due # 0 => Since(roles'[drawer], due)
          BY <2>2, <2>4, <4>1, SinceInvalidated
        <4> QED BY <1>3, <4>2 DEF DueFollowed
      <3> QED BY <3>1, <3>2
    <2> QED BY <1>1, <2>4, <2>5, <2>6, DirectoryHas, NoSaveType, SameHistory
  <1> QED BY <1>2, <1>3

LEMMA ChangeKeeps ==
  ASSUME Directory!UsersAssumption, DirectoryInv, NEW S \in SUBSET Users, Directory!Change(S)
  PROVE  DirectoryInv'
  <1>1. /\ grants < MaxGrants /\ assigned' = Directory!Altered(S) /\ change' \in SigningP!Flags /\ grants' = grants + 1
        /\ UNCHANGED <<users, roles, catalog, drawer, picker, touched, save, due, roleSaves>>
    BY DEF Directory!Change, SigningP!Flags
  <1>2. PICK m \in RoleMoments : assigned' = Append(assigned, m)
    BY <1>1, AlteredType DEF DirectoryInv
  <1>3. grants' \in 0 .. MaxGrants
    BY <1>1, DirectoryHas DEF Directory!UsersAssumption
  <1> QED BY <1>1, <1>2, <1>3, DirectoryHas, LongerHistory

LEMMA GrantElsewhereKeeps ==
  ASSUME Directory!UsersAssumption, DirectoryInv, NEW u \in Users, NEW r \in Roles, Directory!GrantElsewhere(u, r)
  PROVE  DirectoryInv'
  <1>1. /\ grants < MaxGrants /\ assigned' = Directory!Given(u, r) /\ grants' = grants + 1
        /\ UNCHANGED <<users, roles, catalog, drawer, picker, touched, save, due, roleSaves, change>>
    BY DEF Directory!GrantElsewhere
  <1>2. PICK m \in RoleMoments : assigned' = Append(assigned, m)
    BY <1>1, GivenType DEF DirectoryInv
  <1>3. grants' \in 0 .. MaxGrants
    BY <1>1, DirectoryHas DEF Directory!UsersAssumption
  <1> QED BY <1>1, <1>2, <1>3, DirectoryHas, LongerHistory

\* The list is asked for anew: a save that waited for it waits no more.
LEMMA AskedAnewKeeps ==
  ASSUME DirectoryInv, users' = Directory!Invalidate(users), change' \in SigningP!Flags,
         save' = IF save.phase = "listing" THEN [save EXCEPT !.phase = "listed"] ELSE save,
         UNCHANGED <<assigned, roles, catalog, drawer, picker, touched, due, roleSaves, grants>>
  PROVE  DirectoryInv'
  <1>1. users' \in SigningP!EntryRecords(DOMAIN assigned)
    BY DirectoryHas, InvalidateType
  <1>2. CASE save.phase = "listing"
    <2>1. /\ save' \in SaveRecords /\ save'.phase = "listed" /\ save'.user = save.user
          /\ save'.role = save.role /\ save'.wide = save.wide
      <3>1. "listed" \in SavePhases
        BY DEF SavePhases
      <3> QED BY <1>2, <3>1, DirectoryHas, SaveMoves
    <2>2. DueFollowed(due, drawer, save', roles)
      BY <1>2, <2>1, DirectoryHas DEF DueFollowed, Rereading
    <2> QED BY <1>1, <1>2, <2>1, <2>2, DirectoryHas, SameHistory
  <1>3. CASE save.phase # "listing"
    BY <1>1, <1>3, DirectoryHas, SameHistory
  <1> QED BY <1>2, <1>3

LEMMA RelistUsersKeeps ==
  ASSUME DirectoryInv, Directory!RelistUsers \/ Directory!RetryUsers
  PROVE  DirectoryInv'
  <1>1. change \in SigningP!Flags /\ FALSE \in SigningP!Flags
    BY DirectoryHas, SigningP!FlagsHave
  <1> QED BY <1>1, AskedAnewKeeps DEF Directory!RelistUsers, Directory!RetryUsers

LEMMA ReadAnswerKeeps ==
  ASSUME Directory!UsersAssumption, DirectoryInv, Directory!ReadAnswer
  PROVE  DirectoryInv'
  <1>1. UNCHANGED <<assigned, catalog, drawer, picker, touched, save, due, roleSaves, grants, change>>
    BY DEF Directory!ReadAnswer
  <1>2. CASE Directory!Unanswered(users) /\ users' \in Directory!Read(users) /\ UNCHANGED roles
    <2>1. users' \in {Directory!Answer(users, Len(assigned)), Directory!Deliver(Directory!Answer(users, Failure))}
      BY <1>2 DEF Directory!Read
    <2>2. Directory!Answer(users, Len(assigned)) \in SigningP!EntryRecords(DOMAIN assigned)
      BY DirectoryHas, AnswerType
    <2>3. Directory!Deliver(Directory!Answer(users, Failure)) \in SigningP!EntryRecords(DOMAIN assigned)
      <3>1. Directory!Answer(users, Failure) \in SigningP!EntryRecords(DOMAIN assigned)
        BY DirectoryHas, AnswerType
      <3> QED BY <3>1, DeliverType
    <2>4. users' \in SigningP!EntryRecords(DOMAIN assigned)
      BY <2>1, <2>2, <2>3
    <2> QED BY <1>1, <1>2, <2>4, DirectoryHas, SameHistory
  <1>3. ASSUME NEW u \in Users, Directory!Unanswered(roles[u]), UNCHANGED users,
               NEW e \in Directory!Read(roles[u]), roles' = [roles EXCEPT ![u] = e]
        PROVE  DirectoryInv'
    <2>1. e \in {Directory!Answer(roles[u], Len(assigned)), Directory!Deliver(Directory!Answer(roles[u], Failure))}
      BY <1>3 DEF Directory!Read
    <2>2. /\ roles[u] \in SigningP!EntryRecords(DOMAIN assigned)
          /\ roles \in [Users -> SigningP!EntryRecords(DOMAIN assigned)]
          /\ Len(assigned) \in DOMAIN assigned /\ Len(assigned) \in Nat
          /\ due \in 0 .. Len(assigned) /\ 0 \in 0 .. Len(assigned)
      BY DirectoryHas
    <2>3. e \in SigningP!EntryRecords(DOMAIN assigned) /\ e.data = roles[u].data
      <3>1. CASE e = Directory!Answer(roles[u], Len(assigned))
        BY <2>2, <3>1, AnswerType
      <3>2. CASE e = Directory!Deliver(Directory!Answer(roles[u], Failure))
        BY <2>2, <3>2, FailureRead
      <3> QED BY <2>1, <3>1, <3>2
    <2>4. Since(roles[u], due) => Since(e, due)
      BY <1>3, <2>1, <2>2, SinceRead
    <2>5. /\ roles' \in [Users -> SigningP!EntryRecords(DOMAIN assigned)] /\ roles'[u] = e
          /\ \A v \in Users \ {u} : roles'[v] = roles[v]
      BY <1>3, <2>2, <2>3
    <2>6. CASE drawer = u
      <3>1. Proposes(Directory!RoleAt(roles'[drawer], drawer), drawer, picker, touched, catalog)
        BY <2>3, <2>5, <2>6, DirectoryHas DEF Directory!RoleAt
      <3>2. DueFollowed(due, drawer, save, roles')
        BY <2>4, <2>5, <2>6, DirectoryHas DEF DueFollowed
      <3> QED BY <1>1, <1>3, <2>5, <3>1, <3>2, DirectoryHas, SameHistory
    <2>7. CASE drawer # u
      <3>1. drawer # NoUser => roles'[drawer] = roles[drawer]
        BY <2>5, <2>7, DirectoryHas
      <3>2. Proposes(Directory!RoleAt(roles'[drawer], drawer), drawer, picker, touched, catalog)
        BY <3>1, DirectoryHas DEF Proposes
      <3>3. DueFollowed(due, drawer, save, roles')
        BY <3>1, DirectoryHas DEF DueFollowed
      <3> QED BY <1>1, <1>3, <2>5, <3>2, <3>3, DirectoryHas, SameHistory
    <2> QED BY <2>6, <2>7
  <1> QED BY <1>2, <1>3 DEF Directory!ReadAnswer

LEMMA DeliverAnswerKeeps ==
  ASSUME Directory!UsersAssumption, DirectoryInv, Directory!DeliverAnswer
  PROVE  DirectoryInv'
  <1>1. UNCHANGED <<assigned, catalog, save, due, roleSaves, grants, change>>
    BY DEF Directory!DeliverAnswer
  <1>2. CASE Directory!Answered(users) /\ Directory!Effects(Directory!Deliver(users), roles, drawer)
    <2>1. Directory!Deliver(users) \in SigningP!EntryRecords(DOMAIN assigned)
      BY DirectoryHas, DeliverType
    <2>2. /\ users' = Directory!Deliver(users) /\ roles' = roles /\ drawer' = drawer
          /\ picker' \in Roles /\ touched' \in SigningP!Flags
          /\ Proposes(Directory!RoleAt(roles[drawer], drawer), drawer, picker', touched', catalog)
      BY <1>1, <1>2, <2>1, DirectoryHas, EffectsKeep
    <2> QED BY <1>1, <2>1, <2>2, DirectoryHas, SameHistory
  <1>3. ASSUME NEW u \in Users, Directory!Answered(roles[u]),
               Directory!Effects(users, [roles EXCEPT ![u] = Directory!Deliver(@)], drawer)
        PROVE  DirectoryInv'
    <2> DEFINE rs == [roles EXCEPT ![u] = Directory!Deliver(roles[u])]
    <2>1. roles[u] \in SigningP!EntryRecords(DOMAIN assigned) /\ roles \in [Users -> SigningP!EntryRecords(DOMAIN assigned)]
      BY DirectoryHas
    <2>2. Directory!Deliver(roles[u]) \in SigningP!EntryRecords(DOMAIN assigned)
      BY <2>1, DeliverType
    <2>3. /\ rs \in [Users -> SigningP!EntryRecords(DOMAIN assigned)] /\ rs[u] = Directory!Deliver(roles[u])
          /\ \A v \in Users \ {u} : rs[v] = roles[v]
      BY <2>1, <2>2
    <2>4. Directory!Effects(users, rs, drawer)
      BY <1>3
    <2> HIDE DEF rs
    <2>5. /\ users' = users /\ roles' = rs /\ drawer' = drawer
          /\ picker' \in Roles /\ touched' \in SigningP!Flags
          /\ Proposes(Directory!RoleAt(rs[drawer], drawer), drawer, picker', touched', catalog)
      BY <1>1, <2>3, <2>4, DirectoryHas, EffectsKeep
    <2>6. Since(roles[u], due) => Since(rs[u], due)
      BY <1>3, <2>1, <2>3, SinceDelivered
    <2>7. drawer # NoUser /\ drawer # u => rs[drawer] = roles[drawer]
      BY <2>3, DirectoryHas
    <2>8. DueFollowed(due, drawer, save, rs)
      BY <2>6, <2>7, DirectoryHas DEF DueFollowed
    <2> QED BY <1>1, <2>3, <2>5, <2>8, DirectoryHas, SameHistory
  <1> QED BY <1>2, <1>3 DEF Directory!DeliverAnswer

LEMMA DirectorySteps ==
  ASSUME Directory!UsersAssumption, DirectoryInv, Directory!Next
  PROVE  DirectoryInv'
  <1>1. CASE Directory!LoadCatalog \/ Directory!CloseDrawer \/ Directory!SaveRole \/ Directory!AnswerSave
    BY <1>1, LoadCatalogKeeps, CloseDrawerKeeps, SaveRoleKeeps, AnswerSaveKeeps
  <1>2. CASE Directory!RereadUsers \/ Directory!RereadRole \/ Directory!RefetchRole \/ Directory!RelistUsers \/ Directory!RetryUsers
    BY <1>2, RereadUsersKeeps, RereadRoleKeeps, RefetchRoleKeeps, RelistUsersKeeps
  <1>3. CASE Directory!ReadAnswer \/ Directory!DeliverAnswer
    BY <1>3, ReadAnswerKeeps, DeliverAnswerKeeps
  <1>4. ASSUME NEW u \in Users, Directory!ManageRole(u) \/ \E r \in Roles : Directory!GrantElsewhere(u, r)
        PROVE  DirectoryInv'
    BY <1>4, ManageRoleKeeps, GrantElsewhereKeeps
  <1>5. ASSUME NEW u \in Users, Directory!SubmitCreate(u) \/ Directory!DeactivateUser(u)
        PROVE  DirectoryInv'
    <2>1. assigned[Len(assigned)].active \in SUBSET Users
      <3>1. assigned[Len(assigned)] \in RoleMoments
        BY DirectoryHas
      <3> QED BY <3>1 DEF RoleMoments
    <2>2. /\ assigned[Len(assigned)].active \cup {u} \in SUBSET Users
          /\ assigned[Len(assigned)].active \ {u} \in SUBSET Users
      BY <2>1
    <2> QED BY <1>5, <2>2, ChangeKeeps DEF Directory!SubmitCreate, Directory!DeactivateUser
  <1>6. ASSUME NEW r \in Roles, Directory!PickRole(r)
        PROVE  DirectoryInv'
    BY <1>6, PickRoleKeeps
  <1> QED BY <1>1, <1>2, <1>3, <1>4, <1>5, <1>6 DEF Directory!Next

LEMMA InitDirectory ==
  ASSUME Directory!UsersAssumption, Directory!Init
  PROVE  DirectoryInv
  <1> DEFINE m == [role |-> [u \in Users |-> NoRole], active |-> Users]
  <1>1. m \in RoleMoments
    BY DEF RoleMoments
  <1>2. assigned = <<m>>
    BY DEF Directory!Init
  <1> HIDE DEF m
  <1>3. /\ assigned \in Seq(RoleMoments) /\ Len(assigned) = 1 /\ DOMAIN assigned = {1}
    BY <1>1, <1>2
  <1>4. Directory!NewEntry \in SigningP!EntryRecords(DOMAIN assigned)
    BY EntriesAre
  <1>5. users \in SigningP!EntryRecords(DOMAIN assigned) /\ roles \in [Users -> SigningP!EntryRecords(DOMAIN assigned)]
    BY <1>4, MountType DEF Directory!Init
  <1>6. /\ catalog \in SigningP!Flags /\ touched \in SigningP!Flags /\ change \in SigningP!Flags
        /\ drawer = NoUser /\ picker \in Roles /\ save = Directory!NoSave
        /\ due = 0 /\ roleSaves = 0 /\ grants = 0
    BY SigningP!FlagsHave DEF Directory!Init, Directory!UsersAssumption
  <1>7. DirectoryTyped
    BY <1>3, <1>5, <1>6, NoSaveType DEF DirectoryTyped, Directory!UsersAssumption
  <1> QED BY <1>6, <1>7 DEF DirectoryInv, Proposes, DueFollowed

LEMMA DirectoryKept ==
  ASSUME Directory!UsersAssumption, DirectoryInv
  PROVE  Directory!PickerFollowsTheSave
  <1> SUFFICES ASSUME Directory!PageAtRest, ~touched
               PROVE  /\ roles[drawer].data >= due
                      /\ Directory!RoleAt(roles[drawer], drawer) # NoRole
                         => picker = Directory!Offered(Directory!RoleAt(roles[drawer], drawer), catalog)
    BY DEF Directory!PickerFollowsTheSave
  <1>1. drawer \in Users /\ drawer # NoUser
    <2>1. drawer \in Directory!ListedUsers(users)
      BY DEF Directory!PageAtRest, Directory!DrawerOpen
    <2> QED BY <2>1, ListedAre DEF DirectoryInv, Directory!UsersAssumption
  <1>2. roles[drawer] \in SigningP!EntryRecords(DOMAIN assigned)
    BY <1>1, DirectoryHas
  <1>3. roles[drawer].data \in DOMAIN assigned /\ ~roles[drawer].busy /\ ~roles[drawer].failed
    BY <1>2 DEF Directory!PageAtRest, Directory!AtRest, SigningP!EntryRecords
  <1>4. ~Rereading(save, drawer)
    BY NoSaveType DEF Directory!PageAtRest, Rereading
  <1>5. roles[drawer].data >= due
    <2>1. CASE due = 0
      BY <1>3, <2>1, DirectoryHas
    <2>2. CASE due # 0
      BY <1>3, <1>4, <2>2, DirectoryHas DEF DueFollowed, Since
    <2> QED BY <2>1, <2>2
  <1>6. Directory!RoleAt(roles[drawer], drawer) # NoRole
        => picker = Directory!Offered(Directory!RoleAt(roles[drawer], drawer), catalog)
    BY <1>1, DirectoryHas DEF Proposes
  <1> QED BY <1>5, <1>6

LEMMA DirectoryTypes ==
  ASSUME DirectoryInv
  PROVE  Directory!TypeOK
  <1>1. /\ users \in Directory!Entries(DOMAIN assigned) /\ roles \in [Users -> Directory!Entries(DOMAIN assigned)]
    BY DirectoryHas, EntriesAre
  <1>2. save \in [phase : {"idle", "asked", "saved", "listing", "listed", "rereading"},
                  user : Users \cup {NoUser}, role : Roles \cup {NoRole}, wide : BOOLEAN]
    BY DirectoryHas DEF SaveRecords, SavePhases, SigningP!Flags
  <1>3. /\ assigned \in Seq([role : [Users -> Roles \cup {NoRole}], active : SUBSET Users])
        /\ Len(assigned) > 0 /\ drawer \in Users \cup {NoUser} /\ picker \in Roles
        /\ due \in 0 .. Len(assigned) /\ roleSaves \in 0 .. MaxRoleSaves /\ grants \in 0 .. MaxGrants
    BY DEF DirectoryInv, DirectoryTyped, RoleMoments
  <1>4. catalog \in BOOLEAN /\ touched \in BOOLEAN /\ change \in BOOLEAN
    BY DirectoryHas DEF SigningP!Flags
  <1> QED BY ONLY <1>1, <1>2, <1>3, <1>4, Zenon DEF Directory!TypeOK

-----------------------------------------------------------------------------
(* Finite sets in an order.                                                  *)

StrictlyOrders(R, M) ==
  /\ \A x, y, z \in M : <<x, y>> \in R /\ <<y, z>> \in R => <<x, z>> \in R
  /\ \A x \in M : <<x, x>> \notin R
  /\ \A x, y \in M : x = y \/ <<x, y>> \in R \/ <<y, x>> \in R

Below(R, M, r) == {s \in M : <<s, r>> \in R}

\* In a finite set that is strictly ordered, every place is somebody's.
LEMMA EveryPlaceIsTaken ==
  ASSUME NEW M, IsFiniteSet(M), NEW R, StrictlyOrders(R, M),
         NEW k \in 0 .. (Cardinality(M) - 1)
  PROVE  \E r \in M : Cardinality(Below(R, M, r)) = k
  <1> DEFINE n == Cardinality(M)
             below(r) == Below(R, M, r)
             f == [r \in M |-> Cardinality(below(r))]
  <1>1. n \in Nat
    BY FS_CardinalityType
  <1>2. \A r \in M : below(r) \in SUBSET M /\ r \notin below(r)
    BY DEF Below, StrictlyOrders
  <1>3. \A r \in M : IsFiniteSet(below(r)) /\ Cardinality(below(r)) \in 0 .. (n - 1)
    <2> TAKE r \in M
    <2>1. below(r) \in SUBSET M /\ below(r) # M
      BY <1>2
    <2> HIDE DEF below
    <2>2. IsFiniteSet(below(r)) /\ Cardinality(below(r)) <= n /\ Cardinality(below(r)) # n
      BY <2>1, FS_Subset
    <2>3. Cardinality(below(r)) \in Nat
      BY <2>2, FS_CardinalityType
    <2> QED BY <1>1, <2>2, <2>3
  <1>4. ASSUME NEW x \in M, NEW y \in M, <<x, y>> \in R
        PROVE  Cardinality(below(x)) # Cardinality(below(y))
    <2>1. below(x) \in SUBSET below(y)
      <3>1. \A s \in M : <<s, x>> \in R => <<s, y>> \in R
        BY <1>4 DEF StrictlyOrders
      <3> QED BY <3>1 DEF Below
    <2>2. below(x) # below(y)
      <3>1. x \in below(y)
        BY <1>4 DEF Below
      <3> QED BY <1>2, <3>1
    <2> HIDE DEF below
    <2> QED BY <1>3, <2>1, <2>2, FS_Subset
  <1>5. f \in Injection(M, 0 .. (n - 1))
    <2>1. f \in [M -> 0 .. (n - 1)]
      BY <1>3
    <2>2. ASSUME NEW x \in M, NEW y \in M, f[x] = f[y] PROVE x = y
      <3>1. Cardinality(below(x)) = Cardinality(below(y))
        BY <2>2
      <3> HIDE DEF below
      <3> QED BY <1>4, <3>1 DEF StrictlyOrders
    <2> HIDE DEF f
    <2> QED BY <2>1, <2>2 DEF Injection, IsInjective
  <1>6. IsFiniteSet(0 .. (n - 1)) /\ Cardinality(0 .. (n - 1)) = n
    <2>1. 0 \in Int /\ n - 1 \in Int
      BY <1>1
    <2>2. /\ IsFiniteSet(0 .. (n - 1))
          /\ Cardinality(0 .. (n - 1)) = IF 0 > n - 1 THEN 0 ELSE (n - 1) - 0 + 1
      BY <2>1, FS_Interval
    <2> QED BY <1>1, <2>2
  <1>7. f \in Surjection(M, 0 .. (n - 1))
    <2> HIDE DEF f, n
    <2> QED BY <1>5, <1>6, FS_Injection DEF n
  <1>8. \E r \in M : f[r] = k
    <2> HIDE DEF f
    <2> QED BY <1>7 DEF Surjection
  <1> QED BY <1>8

\* A set of numbers has a least one.
LEMMA LeastOf ==
  ASSUME NEW S \in SUBSET Nat, S # {}
  PROVE  \E x \in S : \A y \in S : x <= y
  <1>1. PICK n \in S : TRUE
    OBVIOUS
  <1> DEFINE M == {y \in S : y <= n}
             R == {p \in M \X M : p[1] < p[2]}
  <1>2. IsFiniteSet(M)
    <2>1. M \in SUBSET Nat /\ n \in Nat /\ \A y \in M : y <= n
      OBVIOUS
    <2> HIDE DEF M
    <2> QED BY <2>1, FS_BoundedSetOfNaturals
  <1>3. M # {} /\ M \in SUBSET Nat
    <2>1. n \in S /\ n \in Nat
      BY <1>1
    <2>2. n \in M
      BY <2>1
    <2> QED BY <2>2
  <1>4. \E x \in M : \A y \in M : x <= y
    <2>1. \A x, y \in M : <<x, y>> \in R <=> x < y
      OBVIOUS
    <2> HIDE DEF M, R
    <2>2. 0 \in 0 .. (Cardinality(M) - 1)
      BY <1>2, <1>3, FS_EmptySet, FS_CardinalityType
    <2>3. StrictlyOrders(R, M)
      BY <1>3, <2>1 DEF StrictlyOrders
    <2>4. PICK x \in M : Cardinality(Below(R, M, x)) = 0
      BY <1>2, <2>2, <2>3, EveryPlaceIsTaken
    <2>5. Below(R, M, x) = {}
      <3>1. IsFiniteSet(Below(R, M, x))
        BY <1>2, FS_Subset DEF Below
      <3> QED BY <2>4, <3>1, FS_EmptySet
    <2>6. \A y \in M : ~(y < x)
      BY <2>1, <2>5 DEF Below
    <2> QED BY <1>3, <2>6
  <1>5. PICK x \in M : \A y \in M : x <= y
    BY <1>4
  <1>6. x \in S /\ \A y \in S : x <= y
    BY <1>1, <1>5
  <1> QED BY <1>6

-----------------------------------------------------------------------------
(* Sums over finite sets.  What is known of every number, or of every finite  *)
(* set, is a set here, and a least counterexample stands for induction.       *)

LEMMA EveryNumber ==
  ASSUME NEW T, 0 \in T, \A n \in Nat : n \in T => n + 1 \in T
  PROVE  \A n \in Nat : n \in T
  <1> SUFFICES ASSUME Nat \ T # {} PROVE FALSE
    OBVIOUS
  <1>1. PICK n \in Nat \ T : \A m \in Nat \ T : n <= m
    BY LeastOf
  <1>2. n # 0 /\ n \in Nat
    BY <1>1
  <1>3. n - 1 \in Nat /\ ~(n <= n - 1) /\ (n - 1) + 1 = n
    BY <1>2
  <1>4. n - 1 \in T
    BY <1>1, <1>3
  <1> QED BY <1>1, <1>3, <1>4

LEMMA EverySubset ==
  ASSUME NEW S, IsFiniteSet(S), NEW G, {} \in G,
         \A s \in SUBSET S : s \in G => \A x \in S \ s : s \cup {x} \in G
  PROVE  \A s \in SUBSET S : s \in G
  <1> DEFINE T == {n \in Nat : \A s \in SUBSET S : Cardinality(s) = n => s \in G}
  <1>1. \A s \in SUBSET S : IsFiniteSet(s) /\ Cardinality(s) \in Nat
    BY FS_Subset, FS_CardinalityType
  <1>2. 0 \in T
    BY <1>1, FS_EmptySet
  <1>3. ASSUME NEW n \in Nat, n \in T PROVE n + 1 \in T
    <2> SUFFICES ASSUME NEW s \in SUBSET S, Cardinality(s) = n + 1 PROVE s \in G
      OBVIOUS
    <2>1. PICK x \in s : TRUE
      BY <1>1, <1>3, FS_EmptySet
    <2>2. Cardinality(s \ {x}) = n
      <3>1. Cardinality(s \ {x}) = Cardinality(s) - 1
        BY <1>1, <2>1, FS_RemoveElement
      <3> QED BY <3>1
    <2>3. s \ {x} \in SUBSET S /\ x \in S \ (s \ {x}) /\ s = (s \ {x}) \cup {x}
      BY <2>1
    <2>4. s \ {x} \in G
      BY <1>3, <2>2, <2>3
    <2> QED BY <2>3, <2>4
  <1> HIDE DEF T
  <1>4. \A n \in Nat : n \in T
    BY <1>2, <1>3, EveryNumber
  <1> QED BY <1>1, <1>4 DEF T

\* I has the sum of F over every subset of S.
IsSum(I, F, S) ==
  /\ I = [s \in SUBSET S |-> I[s]] /\ I[{}] = 0
  /\ \A s \in SUBSET S : I[s] \in Nat /\ \A x \in s : I[s] = F[x] + I[s \ {x}]

\* The recursion of the library's sums.
Recurs(I, F, S) ==
  I = [s \in SUBSET S |-> IF s = {} THEN 0
                          ELSE F[CHOOSE x \in s : TRUE] + I[s \ {CHOOSE x \in s : TRUE}]]

Summable(F, S) == IsFiniteSet(S) /\ \A x \in S : F[x] \in Nat

Sum(F, S) == (CHOOSE I : IsSum(I, F, S))[S]

LEMMA SumExists ==
  ASSUME NEW F, NEW S, Summable(F, S)
  PROVE  \E I : IsSum(I, F, S)
  <1> DEFINE G == {s \in SUBSET S : \E I : IsSum(I, F, s)}
  <1>1. {} \in G
    <2> DEFINE I == [s \in SUBSET {} |-> 0]
    <2>1. IsSum(I, F, {})
      BY DEF IsSum
    <2> QED BY <2>1
  <1>2. ASSUME NEW s \in SUBSET S, s \in G, NEW x \in S \ s PROVE s \cup {x} \in G
    <2>1. PICK I : IsSum(I, F, s)
      BY <1>2
    <2> DEFINE u == s \cup {x}
               J == [t \in SUBSET u |-> IF x \in t THEN F[x] + I[t \ {x}] ELSE I[t]]
    <2>2. \A t \in SUBSET u : t \ {x} \in SUBSET s /\ (x \notin t => t \in SUBSET s)
      OBVIOUS
    <2>3. F[x] \in Nat /\ \A y \in u : F[y] \in Nat
      BY DEF Summable
    <2>4. \A t \in SUBSET s : I[t] \in Nat /\ \A y \in t : I[t] = F[y] + I[t \ {y}]
      BY <2>1 DEF IsSum
    <2>5. J[{}] = 0
      BY <2>1 DEF IsSum
    <2>6. ASSUME NEW t \in SUBSET u PROVE J[t] \in Nat /\ \A y \in t : J[t] = F[y] + J[t \ {y}]
      <3>1. J[t] \in Nat
        BY <2>2, <2>3, <2>4
      <3>2. ASSUME NEW y \in t PROVE J[t] = F[y] + J[t \ {y}]
        <4>1. t \ {y} \in SUBSET u
          OBVIOUS
        <4>2. CASE x \notin t
          BY <2>2, <2>4, <4>1, <4>2
        <4>3. CASE x \in t /\ y = x
          BY <4>1, <4>3
        <4>4. CASE x \in t /\ y # x
          <5>1. y \in t \ {x} /\ (t \ {x}) \ {y} = (t \ {y}) \ {x} /\ (t \ {x}) \ {y} \in SUBSET s
            BY <2>2, <4>4
          <5>2. I[t \ {x}] = F[y] + I[(t \ {y}) \ {x}] /\ I[(t \ {y}) \ {x}] \in Nat
            BY <2>2, <2>4, <5>1
          <5>3. J[t] = F[x] + I[t \ {x}] /\ J[t \ {y}] = F[x] + I[(t \ {y}) \ {x}]
            BY <4>1, <4>4
          <5>4. F[y] \in Nat
            BY <2>3
          <5> HIDE DEF J, u
          <5> QED BY <2>3, <5>2, <5>3, <5>4
        <4> QED BY <4>2, <4>3, <4>4
      <3> QED BY <3>1, <3>2
    <2>7. J = [t \in SUBSET u |-> J[t]]
      OBVIOUS
    <2> HIDE DEF J
    <2>8. IsSum(J, F, u)
      BY <2>5, <2>6, <2>7 DEF IsSum
    <2> QED BY <2>8
  <1> HIDE DEF G
  <1>3. S \in G
    BY <1>1, <1>2, EverySubset DEF Summable
  <1> QED BY <1>3 DEF G

\* The recursion leaves no choice.
LEMMA SumAgrees ==
  ASSUME NEW F, NEW S, IsFiniteSet(S), NEW I, IsSum(I, F, S), NEW J, Recurs(J, F, S) \/ IsSum(J, F, S)
  PROVE  \A s \in SUBSET S : J[s] = I[s]
  <1> DEFINE T == {n \in Nat : \A s \in SUBSET S : Cardinality(s) = n => J[s] = I[s]}
  <1>1. \A s \in SUBSET S : IsFiniteSet(s) /\ Cardinality(s) \in Nat
    BY FS_Subset, FS_CardinalityType
  <1>2. J[{}] = 0 /\ I[{}] = 0
    BY DEF IsSum, Recurs
  <1>3. 0 \in T
    BY <1>1, <1>2, FS_EmptySet
  <1>4. ASSUME NEW n \in Nat, n \in T PROVE n + 1 \in T
    <2> SUFFICES ASSUME NEW s \in SUBSET S, Cardinality(s) = n + 1 PROVE J[s] = I[s]
      OBVIOUS
    <2>1. s # {}
      BY <1>1, <1>4, FS_EmptySet
    <2> DEFINE x == CHOOSE x \in s : TRUE
    <2>2. x \in s
      BY <2>1
    <2>3. J[s] = F[x] + J[s \ {x}]
      <3>1. CASE Recurs(J, F, S)
        BY <2>1, <3>1 DEF Recurs
      <3>2. CASE IsSum(J, F, S)
        BY <2>2, <3>2 DEF IsSum
      <3> QED BY <3>1, <3>2
    <2> HIDE DEF x
    <2>4. Cardinality(s \ {x}) = n
      <3>1. Cardinality(s \ {x}) = Cardinality(s) - 1
        BY <1>1, <2>2, FS_RemoveElement
      <3> QED BY <3>1
    <2>5. J[s \ {x}] = I[s \ {x}]
      BY <1>4, <2>4
    <2>6. I[s] = F[x] + I[s \ {x}]
      BY <2>2 DEF IsSum
    <2> QED BY <2>3, <2>5, <2>6
  <1> HIDE DEF T
  <1>5. \A n \in Nat : n \in T
    BY <1>3, <1>4, EveryNumber
  <1> QED BY <1>1, <1>5 DEF T

LEMMA SumIs ==
  ASSUME NEW F, NEW S, Summable(F, S), NEW J, Recurs(J, F, S) \/ IsSum(J, F, S)
  PROVE  Sum(F, S) = J[S]
  <1> DEFINE I == CHOOSE I : IsSum(I, F, S)
  <1>1. IsSum(I, F, S)
    BY SumExists, Zenon
  <1>2. Sum(F, S) = I[S]
    BY DEF Sum
  <1> HIDE DEF I
  <1> QED BY <1>1, <1>2, SumAgrees DEF Summable

\* A function that adds up as the library does.
LEMMA SumRecurs ==
  ASSUME NEW F, NEW S, Summable(F, S)
  PROVE  \E J : Recurs(J, F, S)
  <1>1. PICK I : IsSum(I, F, S)
    BY SumExists
  <1>2. \A s \in SUBSET S : I[s] = IF s = {} THEN 0
                            ELSE F[CHOOSE x \in s : TRUE] + I[s \ {CHOOSE x \in s : TRUE}]
    <2> SUFFICES ASSUME NEW s \in SUBSET S, s # {}
                 PROVE  I[s] = F[CHOOSE x \in s : TRUE] + I[s \ {CHOOSE x \in s : TRUE}]
      BY <1>1 DEF IsSum
    <2> DEFINE x == CHOOSE x \in s : TRUE
    <2>1. x \in s
      OBVIOUS
    <2> HIDE DEF x
    <2>2. I[s] = F[x] + I[s \ {x}]
      BY <1>1, <2>1 DEF IsSum
    <2> QED BY <2>2 DEF x
  <1>3. I = [s \in SUBSET S |-> I[s]]
    BY <1>1 DEF IsSum
  <1>4. Recurs(I, F, S)
    BY <1>2, <1>3 DEF Recurs
  <1> QED BY <1>4

LEMMA SumFacts ==
  ASSUME NEW F, NEW S, Summable(F, S)
  PROVE  /\ Sum(F, S) \in Nat /\ Sum(F, {}) = 0
         /\ \A x \in S : Sum(F, S) = F[x] + Sum(F, S \ {x})
         /\ \A s \in SUBSET S : Summable(F, s)
  <1>1. PICK I : IsSum(I, F, S)
    BY SumExists
  <1>2. \A s \in SUBSET S : Summable(F, s)
    BY FS_Subset DEF Summable
  <1>3. ASSUME NEW s \in SUBSET S PROVE Sum(F, s) = I[s]
    <2> DEFINE J == [t \in SUBSET s |-> I[t]]
    <2>1. \A t \in SUBSET s : t \in SUBSET S /\ J[t] = I[t]
      OBVIOUS
    <2>2. \A t \in SUBSET S : I[t] \in Nat /\ \A x \in t : I[t] = F[x] + I[t \ {x}]
      BY <1>1 DEF IsSum
    <2>3. J = [t \in SUBSET s |-> J[t]] /\ J[{}] = 0
      BY <1>1 DEF IsSum
    <2> HIDE DEF J
    <2>4. \A t \in SUBSET s : J[t] \in Nat /\ \A x \in t : J[t] = F[x] + J[t \ {x}]
      <3> SUFFICES ASSUME NEW t \in SUBSET s
                   PROVE  J[t] \in Nat /\ \A x \in t : J[t] = F[x] + J[t \ {x}]
        OBVIOUS
      <3>1. \A x \in t : t \ {x} \in SUBSET s
        OBVIOUS
      <3> QED BY <2>1, <2>2, <3>1
    <2>5. IsSum(J, F, s)
      BY <2>3, <2>4 DEF IsSum
    <2> QED BY <1>2, <2>1, <2>5, SumIs
  <1>4. S \in SUBSET S /\ {} \in SUBSET S /\ \A x \in S : S \ {x} \in SUBSET S
    OBVIOUS
  <1>5. I[{}] = 0 /\ I[S] \in Nat /\ \A x \in S : I[S] = F[x] + I[S \ {x}]
    BY <1>1, <1>4 DEF IsSum
  <1>6. Sum(F, S) \in Nat /\ Sum(F, {}) = 0
    BY <1>3, <1>4, <1>5
  <1>7. \A x \in S : Sum(F, S) = F[x] + Sum(F, S \ {x})
    BY <1>3, <1>4, <1>5
  <1> QED BY <1>2, <1>6, <1>7

\* A sum looks at the values on its set only.
LEMMA SumSame ==
  ASSUME NEW F, NEW G, NEW S, Summable(F, S), \A x \in S : G[x] = F[x]
  PROVE  Summable(G, S) /\ Sum(G, S) = Sum(F, S)
  <1>1. Summable(G, S)
    BY DEF Summable
  <1>2. PICK I : IsSum(I, F, S)
    BY SumExists
  <1>3. IsSum(I, G, S)
    BY <1>2 DEF IsSum
  <1> QED BY <1>1, <1>2, <1>3, SumIs

LEMMA SumSingle ==
  ASSUME NEW F, NEW x, F[x] \in Nat
  PROVE  Sum(F, {x}) = F[x]
  <1>1. Summable(F, {x})
    BY FS_Singleton DEF Summable
  <1>2. {x} \ {x} = {}
    OBVIOUS
  <1>3. Sum(F, {x}) = F[x] + 0
    BY <1>1, <1>2, SumFacts
  <1> QED BY <1>3

\* One value more is one value more of the sum.
LEMMA SumBump ==
  ASSUME NEW F, NEW G, NEW S, Summable(F, S), NEW y \in S, NEW d \in Nat,
         G[y] = F[y] + d, \A x \in S \ {y} : G[x] = F[x]
  PROVE  Summable(G, S) /\ Sum(G, S) = Sum(F, S) + d
  <1>1. Summable(G, S)
    <2>1. F[y] \in Nat /\ \A x \in S \ {y} : F[x] \in Nat
      BY DEF Summable
    <2>2. G[y] \in Nat
      BY <2>1
    <2> QED BY <2>1, <2>2 DEF Summable
  <1>2. Summable(F, S \ {y}) /\ Summable(G, S \ {y})
    BY <1>1, SumFacts
  <1>3. Sum(G, S \ {y}) = Sum(F, S \ {y}) /\ Sum(F, S \ {y}) \in Nat
    BY <1>2, SumSame, SumFacts
  <1>4. Sum(F, S) = F[y] + Sum(F, S \ {y}) /\ Sum(G, S) = G[y] + Sum(G, S \ {y}) /\ F[y] \in Nat
    BY <1>1, SumFacts DEF Summable
  <1> QED BY <1>1, <1>3, <1>4

LEMMA SumZero ==
  ASSUME NEW F, NEW S, IsFiniteSet(S), \A x \in S : F[x] = 0
  PROVE  Sum(F, S) = 0
  <1> DEFINE G == {s \in SUBSET S : Sum(F, s) = 0}
  <1>1. \A s \in SUBSET S : Summable(F, s)
    BY FS_Subset DEF Summable
  <1>2. {} \in G
    BY <1>1, SumFacts
  <1>3. ASSUME NEW s \in SUBSET S, s \in G, NEW x \in S \ s PROVE s \cup {x} \in G
    <2>1. s \cup {x} \in SUBSET S /\ (s \cup {x}) \ {x} = s
      OBVIOUS
    <2>2. Sum(F, s \cup {x}) = F[x] + Sum(F, s)
      BY <1>1, <2>1, SumFacts
    <2> QED BY <1>3, <2>1, <2>2
  <1> HIDE DEF G
  <1>4. S \in G
    BY <1>2, <1>3, EverySubset
  <1> QED BY <1>4 DEF G

\* What h sends to y.
Fiber(h, S, y) == {x \in S : h[x] = y}

Parts(F, h, S, Y) == [y \in Y |-> Sum(F, Fiber(h, S, y))]

\* The sums of the parts of a set add up to its sum.
LEMMA SumOfParts ==
  ASSUME NEW F, NEW S, Summable(F, S), NEW Y, IsFiniteSet(Y), NEW h, \A x \in S : h[x] \in Y
  PROVE  Summable(Parts(F, h, S, Y), Y) /\ Sum(Parts(F, h, S, Y), Y) = Sum(F, S)
  <1> DEFINE G == {s \in SUBSET S : Sum(Parts(F, h, s, Y), Y) = Sum(F, s)}
  <1>1. \A s \in SUBSET S : Summable(F, s)
    BY SumFacts
  <1>2. ASSUME NEW s \in SUBSET S
        PROVE  /\ Summable(Parts(F, h, s, Y), Y)
               /\ \A y \in Y : Parts(F, h, s, Y)[y] = Sum(F, Fiber(h, s, y))
    <2>1. ASSUME NEW y \in Y PROVE Sum(F, Fiber(h, s, y)) \in Nat
      <3>1. Fiber(h, s, y) \in SUBSET S
        BY DEF Fiber
      <3> QED BY <1>1, <3>1, SumFacts
    <2> QED BY <2>1 DEF Parts, Summable
  <1>3. {} \in G
    <2>1. \A y : Fiber(h, {}, y) = {}
      BY DEF Fiber
    <2>2. Sum(F, {}) = 0
      BY SumFacts
    <2>3. \A y \in Y : Parts(F, h, {}, Y)[y] = 0
      BY <2>1, <2>2 DEF Parts
    <2>4. Sum(Parts(F, h, {}, Y), Y) = 0
      BY <2>3, SumZero
    <2> QED BY <2>2, <2>4
  <1>4. ASSUME NEW s \in SUBSET S, s \in G, NEW x \in S \ s PROVE s \cup {x} \in G
    <2> DEFINE u == s \cup {x}
               f == Parts(F, h, s, Y)
               g == Parts(F, h, u, Y)
    <2>1. u \in SUBSET S /\ u \ {x} = s /\ x \in u
      BY <1>4
    <2>2. h[x] \in Y /\ F[x] \in Nat
      BY DEF Summable
    <2>3. Fiber(h, u, h[x]) \ {x} = Fiber(h, s, h[x]) /\ x \in Fiber(h, u, h[x])
      BY <1>4 DEF Fiber
    <2>4. \A y \in Y \ {h[x]} : Fiber(h, u, y) = Fiber(h, s, y)
      BY DEF Fiber
    <2>5. Summable(f, Y) /\ \A y \in Y : f[y] = Sum(F, Fiber(h, s, y)) /\ g[y] = Sum(F, Fiber(h, u, y))
      BY <1>2, <2>1
    <2>6. Fiber(h, u, h[x]) \in SUBSET S
      BY <2>1 DEF Fiber
    <2>7. Sum(F, Fiber(h, u, h[x])) = F[x] + Sum(F, Fiber(h, s, h[x]))
      BY <1>1, <2>3, <2>6, SumFacts
    <2>8. Sum(F, u) = F[x] + Sum(F, s)
      BY <1>1, <2>1, SumFacts
    <2>9. Sum(f, Y) = Sum(F, s) /\ Sum(F, s) \in Nat
      BY <1>1, <1>4, SumFacts
    <2> HIDE DEF u, f, g
    <2>10. g[h[x]] = f[h[x]] + F[x]
      <3>1. f[h[x]] \in Nat
        BY <2>2, <2>5 DEF Summable
      <3>2. g[h[x]] = F[x] + f[h[x]]
        BY <2>2, <2>5, <2>7
      <3> QED BY <2>2, <3>1, <3>2
    <2>11. \A y \in Y \ {h[x]} : g[y] = f[y]
      BY <2>4, <2>5
    <2>12. Sum(g, Y) = Sum(f, Y) + F[x]
      BY <2>2, <2>5, <2>10, <2>11, SumBump
    <2>13. Sum(g, Y) = Sum(F, u)
      BY <2>2, <2>8, <2>9, <2>12
    <2> QED BY <2>1, <2>13 DEF g, u
  <1> HIDE DEF G
  <1>5. S \in G
    BY <1>3, <1>4, EverySubset DEF Summable
  <1> QED BY <1>2, <1>5 DEF G

\* The values of a function on a finite set.
LEMMA ValuesFinite ==
  ASSUME NEW S, IsFiniteSet(S), NEW f
  PROVE  IsFiniteSet({f[x] : x \in S})
  <1> DEFINE G == {s \in SUBSET S : IsFiniteSet({f[x] : x \in s})}
  <1>1. {} \in G
    <2>1. {f[x] : x \in {}} = {}
      OBVIOUS
    <2> QED BY <2>1, FS_EmptySet
  <1>2. ASSUME NEW s \in SUBSET S, s \in G, NEW x \in S \ s PROVE s \cup {x} \in G
    <2>1. {f[y] : y \in s \cup {x}} = {f[y] : y \in s} \cup {f[x]}
      OBVIOUS
    <2>2. IsFiniteSet({f[y] : y \in s})
      BY <1>2
    <2>3. IsFiniteSet({f[y] : y \in s} \cup {f[x]})
      BY <2>2, FS_AddElement, Zenon
    <2>4. IsFiniteSet({f[y] : y \in s \cup {x}})
      BY <2>1, <2>3, Zenon
    <2> QED BY <2>4
  <1> HIDE DEF G
  <1>3. S \in G
    BY <1>1, <1>2, EverySubset
  <1> QED BY <1>3 DEF G

-----------------------------------------------------------------------------
(* The recommendations endpoint.                                             *)

\* The page's instance of the library, and its cache, are the ones known here.
LEMMA AdviceCards ==
  ASSUME NEW S
  PROVE  /\ Advice!Cardinality(S) = Cardinality(S)
         /\ Advice!IsFiniteSet(S) <=> IsFiniteSet(S)
  BY DEF Advice!Cardinality, Cardinality, Advice!IsFiniteSet, IsFiniteSet

LEMMA AdviceCache ==
  ASSUME NEW e, NEW a
  PROVE  /\ Advice!NewEntry = SigningP!NewEntry
         /\ Advice!Mount(e) = SigningP!Mount(e)
         /\ Advice!Answer(e, a) = SigningP!Answer(e, a)
         /\ Advice!Deliver(e) = SigningP!Deliver(e)
  BY DEF Advice!NewEntry, SigningP!NewEntry, Advice!Mount, SigningP!Mount,
       Advice!Answer, SigningP!Answer, Advice!Deliver, SigningP!Deliver,
       Advice!Cancel, SigningP!Cancel, Advice!SetData, SigningP!SetData

LEMMA AdviceNewEntry ==
  ASSUME NEW D
  PROVE  Advice!NewEntry \in SigningP!EntryRecords(D)
  <1>1. Advice!NewEntry = SigningP!NewEntry
    BY DEF Advice!NewEntry, SigningP!NewEntry
  <1> QED BY <1>1, SigningP!NewEntryType, Zenon

LEMMA AdviceInvalidate ==
  ASSUME NEW D, NEW e \in SigningP!EntryRecords(D)
  PROVE  Advice!Invalidate(e) \in SigningP!EntryRecords(D)
  <1>1. Advice!Invalidate(e) = SigningP!Invalidate(e)
    BY DEF Advice!Invalidate, SigningP!Invalidate
  <1> QED BY <1>1, SigningP!InvalidateType

LEMMA AdviceEntryTypes ==
  ASSUME NEW D, NEW e \in SigningP!EntryRecords(D), NEW d \in D \cup {Failure}
  PROVE  /\ Advice!NewEntry \in SigningP!EntryRecords(D)
         /\ Advice!Mount(e) \in SigningP!EntryRecords(D)
         /\ Advice!Answer(e, d) \in SigningP!EntryRecords(D)
         /\ Advice!Deliver(e) \in SigningP!EntryRecords(D)
  <1>1. /\ Advice!NewEntry = SigningP!NewEntry /\ Advice!Mount(e) = SigningP!Mount(e)
        /\ Advice!Answer(e, d) = SigningP!Answer(e, d) /\ Advice!Deliver(e) = SigningP!Deliver(e)
    BY AdviceCache
  <1>2. SigningP!NewEntry \in SigningP!EntryRecords(D)
    BY SigningP!NewEntryType, Zenon
  <1> QED BY <1>1, <1>2, SigningP!MountType, SigningP!AnswerType, SigningP!DeliverType

LEMMA PagesOf ==
  ASSUME NEW L \in Nat \ {0}, NEW t \in Nat
  PROVE  /\ (t + L - 1) \div L \in Nat
         /\ L * ((t + L - 1) \div L) <= t + L - 1
         /\ t + L - 1 < L * ((t + L - 1) \div L) + L
  <1>1. t + L - 1 \in Nat
    OBVIOUS
  <1> QED BY <1>1

\* A page that is not beyond the last begins before the end.
LEMMA PageBegins ==
  ASSUME NEW L \in Nat \ {0}, NEW t \in Nat, NEW p \in Nat, p < (t + L - 1) \div L
  PROVE  p * L < t
  <1> DEFINE q == (t + L - 1) \div L
  <1>1. q \in Nat /\ L * q <= t + L - 1 /\ p + 1 <= q
    BY PagesOf
  <1> HIDE DEF q
  <1>2. L * (p + 1) <= L * q
    BY <1>1
  <1>3. L * (p + 1) = p * L + L
    OBVIOUS
  <1>4. p * L \in Nat /\ L * q \in Nat
    BY <1>1
  <1> QED BY <1>1, <1>2, <1>3, <1>4

LEMMA MorePages ==
  ASSUME NEW L \in Nat \ {0}, NEW t \in Nat, NEW u \in Nat, t <= u
  PROVE  /\ (t + L - 1) \div L <= (u + L - 1) \div L
         /\ t # 0 => 1 <= (t + L - 1) \div L
  <1> DEFINE q == (t + L - 1) \div L
             r == (u + L - 1) \div L
  <1>1. /\ q \in Nat /\ L * q <= t + L - 1 /\ t + L - 1 < L * q + L
        /\ r \in Nat /\ u + L - 1 < L * r + L
    BY PagesOf
  <1> HIDE DEF q, r
  <1>2. L * q < L * r + L
    <2>1. L * q \in Nat /\ L * r \in Nat
      BY <1>1
    <2> QED BY <1>1, <2>1
  <1>3. L * r + L = L * (r + 1)
    BY <1>1
  <1>4. L * q < L * (r + 1)
    BY <1>2, <1>3
  <1>5. q < r + 1
    <2> SUFFICES ASSUME r + 1 <= q PROVE FALSE
      BY <1>1
    <2>1. L * (r + 1) <= L * q
      BY <1>1
    <2>2. L * (r + 1) \in Nat /\ L * q \in Nat
      BY <1>1
    <2> QED BY <1>4, <2>1, <2>2
  <1>6. t # 0 => q # 0
    BY <1>1
  <1> QED BY <1>1, <1>5, <1>6 DEF q, r

\* What the constants say of the rows and of the pages they fill.
LEMMA RowsAre ==
  ASSUME Advice!PackagesAssumption
  PROVE  /\ IsFiniteSet(Rows) /\ Rows # {} /\ Limit \in Nat \ {0} /\ 0 \in MinSavings
         /\ Cardinality(Rows) \in Nat /\ Cardinality(Rows) # 0
  <1>1. IsFiniteSet(Rows) /\ Rows # {} /\ Limit \in Nat \ {0} /\ 0 \in MinSavings
    <2>1. Advice!IsFiniteSet(Rows) /\ Rows # {} /\ Limit \in Nat \ {0} /\ 0 \in MinSavings
      BY DEF Advice!PackagesAssumption
    <2>2. Advice!IsFiniteSet(Rows) <=> IsFiniteSet(Rows)
      BY AdviceCards, Zenon
    <2> QED BY <2>1, <2>2
  <1> QED BY <1>1, FS_CardinalityType, FS_EmptySet

LEMMA PagesAre == Advice!Pages = 1 .. (Cardinality(Rows) + Limit - 1) \div Limit
  <1>1. Advice!Cardinality(Rows) = Cardinality(Rows)
    BY AdviceCards, Zenon
  <1> QED BY <1>1 DEF Advice!Pages

LEMMA PageRowsAre ==
  ASSUME NEW e, NEW a
  PROVE  Advice!PageRows(e, a) =
           {r \in Advice!Matching(e, a) :
              LET place == Cardinality({s \in Advice!Matching(e, a) : Advice!Before(a.order, s, r)})
              IN  (a.page - 1) * Limit <= place /\ place < a.page * Limit}
  <1> DEFINE before(r) == {s \in Advice!Matching(e, a) : Advice!Before(a.order, s, r)}
  <1>1. \A r : Advice!Cardinality(before(r)) = Cardinality(before(r))
    BY AdviceCards, Zenon
  <1>2. Advice!PageRows(e, a) =
          {r \in Advice!Matching(e, a) :
             /\ (a.page - 1) * Limit <= Advice!Cardinality(before(r))
             /\ Advice!Cardinality(before(r)) < a.page * Limit}
    BY DEF Advice!PageRows
  <1> QED BY <1>1, <1>2

LEMMA RecommendedTotal ==
  ASSUME NEW n, NEW a
  PROVE  Advice!Recommended(n, a).total = Cardinality(Advice!Matching(Estates[n], a))
  <1>1. \A S : Advice!Cardinality(S) = Cardinality(S)
    BY AdviceCards, Zenon
  <1> QED BY <1>1 DEF Advice!Recommended

\* Where an estate, an address and a page are.
LEMMA MatchingType ==
  ASSUME Advice!PackagesAssumption, NEW n \in DOMAIN Estates, NEW a
  PROVE  /\ Advice!Matching(Estates[n], a) \in SUBSET Rows /\ IsFiniteSet(Advice!Matching(Estates[n], a))
         /\ Cardinality(Advice!Matching(Estates[n], a)) \in Nat
         /\ Cardinality(Advice!Matching(Estates[n], a)) <= Cardinality(Rows)
         /\ Cardinality(Rows) \in Nat /\ Cardinality(Rows) # 0
         /\ Advice!PageRows(Estates[n], a) \in SUBSET Advice!Matching(Estates[n], a)
  <1>1. Estates[n].open \in SUBSET Rows
    <2> DEFINE E == [edges : SUBSET (Resources \X Resources), open : SUBSET Rows]
    <2>1. Estates \in Seq(E)
      BY DEF Advice!PackagesAssumption
    <2>2. \A e \in E : e.open \in SUBSET Rows
      OBVIOUS
    <2> HIDE DEF E
    <2>3. Estates[n] \in E
      BY <2>1
    <2> QED BY <2>2, <2>3
  <1>2. Advice!Matching(Estates[n], a) \in SUBSET Rows
    BY <1>1 DEF Advice!Matching
  <1>3. IsFiniteSet(Rows) /\ Rows # {}
    BY RowsAre
  <1>4. /\ IsFiniteSet(Advice!Matching(Estates[n], a))
        /\ Cardinality(Advice!Matching(Estates[n], a)) <= Cardinality(Rows)
    BY <1>2, <1>3, FS_Subset
  <1>5. /\ Cardinality(Advice!Matching(Estates[n], a)) \in Nat
        /\ Cardinality(Rows) \in Nat /\ Cardinality(Rows) # 0
    BY <1>3, <1>4, FS_CardinalityType, FS_EmptySet
  <1>6. Advice!PageRows(Estates[n], a) \in SUBSET Advice!Matching(Estates[n], a)
    BY PageRowsAre
  <1> QED BY <1>2, <1>4, <1>5, <1>6

\* The rows of an answer are in one order, without ties.
LEMMA BeforeOrders ==
  ASSUME Advice!PackagesAssumption, NEW order, NEW M \in SUBSET Rows
  PROVE  StrictlyOrders({p \in M \X M : Advice!Before(order, p[1], p[2])}, M)
  <1> DEFINE R == {p \in M \X M : Advice!Before(order, p[1], p[2])}
  <1>1. \A x, y \in M : <<x, y>> \in R <=> Advice!Before(order, x, y)
    OBVIOUS
  <1> HIDE DEF R
  <1>2. \A x \in M : x \in Nat /\ Savings[x] \in Nat /\ Age[x] \in Nat
    BY DEF Advice!PackagesAssumption
  <1>3. \A x, y, z \in M : Advice!Before(order, x, y) /\ Advice!Before(order, y, z) => Advice!Before(order, x, z)
    BY <1>2 DEF Advice!Before
  <1>4. \A x \in M : ~Advice!Before(order, x, x)
    BY <1>2 DEF Advice!Before
  <1>5. \A x, y \in M : x = y \/ Advice!Before(order, x, y) \/ Advice!Before(order, y, x)
    BY <1>2 DEF Advice!Before
  <1>6. StrictlyOrders(R, M)
    BY <1>1, <1>3, <1>4, <1>5 DEF StrictlyOrders
  <1> QED BY <1>6 DEF R

\* A page that begins before the end of the list has a row.
LEMMA PageHasRows ==
  ASSUME Advice!PackagesAssumption, NEW n \in DOMAIN Estates, NEW a, a.page \in Nat \ {0},
         (a.page - 1) * Limit < Cardinality(Advice!Matching(Estates[n], a))
  PROVE  Advice!PageRows(Estates[n], a) # {}
  <1> DEFINE M == Advice!Matching(Estates[n], a)
             R == {p \in M \X M : Advice!Before(a.order, p[1], p[2])}
             k == (a.page - 1) * Limit
  <1>1. M \in SUBSET Rows /\ IsFiniteSet(M) /\ Cardinality(M) \in Nat
    BY MatchingType
  <1>2. Limit \in Nat \ {0}
    BY RowsAre
  <1>3. k \in 0 .. (Cardinality(M) - 1)
    <2>1. k \in Nat
      BY <1>2
    <2>2. k < Cardinality(M)
      OBVIOUS
    <2> HIDE DEF k, M
    <2> QED BY <1>1, <2>1, <2>2
  <1>4. StrictlyOrders(R, M)
    <2> HIDE DEF M
    <2> QED BY <1>1, BeforeOrders
  <1>5. PICK r \in M : Cardinality(Below(R, M, r)) = k
    <2> HIDE DEF M, R, k
    <2> QED BY <1>1, <1>3, <1>4, EveryPlaceIsTaken
  <1>6. Below(R, M, r) = {s \in M : Advice!Before(a.order, s, r)}
    <2> HIDE DEF M
    <2> QED BY DEF Below
  <1>7. k < a.page * Limit /\ k <= k
    <2>1. a.page * Limit = k + Limit
      BY <1>2
    <2>2. k \in Nat
      BY <1>2
    <2> HIDE DEF k
    <2> QED BY <1>2, <2>1, <2>2
  <1>8. r \in Advice!PageRows(Estates[n], a)
    <2>1. Cardinality({s \in M : Advice!Before(a.order, s, r)}) = k
      BY <1>5, <1>6
    <2> QED BY <1>5, <1>7, <2>1, PageRowsAre
  <1> QED BY <1>8

LEMMA OwnsOrders ==
  ASSUME Advice!PackagesAssumption, NEW M \in SUBSET Rows
  PROVE  /\ StrictlyOrders({p \in M \X M : Advice!Owns(p[1], p[2]) /\ p[1] # p[2]}, M)
         /\ \A x, y \in M : Advice!Owns(x, x) /\ (Advice!Owns(x, y) /\ Advice!Owns(y, x) => x = y)
         /\ \A x, y \in M : Advice!Owns(x, y) \/ Advice!Owns(y, x)
  <1> DEFINE R == {p \in M \X M : Advice!Owns(p[1], p[2]) /\ p[1] # p[2]}
  <1>1. \A x, y \in M : <<x, y>> \in R <=> Advice!Owns(x, y) /\ x # y
    OBVIOUS
  <1> HIDE DEF R
  <1>2. \A x \in M : x \in Nat /\ Savings[x] \in Nat /\ Confidence[x] \in Nat
    BY DEF Advice!PackagesAssumption
  <1>3. \A x, y, z \in M : Advice!Owns(x, y) /\ Advice!Owns(y, z) => Advice!Owns(x, z)
    BY <1>2 DEF Advice!Owns
  <1>4. \A x, y \in M : Advice!Owns(x, x) /\ (Advice!Owns(x, y) /\ Advice!Owns(y, x) => x = y)
    BY <1>2 DEF Advice!Owns
  <1>5. \A x, y \in M : Advice!Owns(x, y) \/ Advice!Owns(y, x)
    BY <1>2 DEF Advice!Owns
  <1>6. StrictlyOrders(R, M)
    BY <1>1, <1>3, <1>4, <1>5 DEF StrictlyOrders
  <1> QED BY <1>4, <1>5, <1>6 DEF R

\* What the page looks at in an item.
LEMMA ItemIs ==
  ASSUME NEW c, NEW P, NEW r
  PROVE  /\ Advice!Item(c, P, r).row = r
         /\ Advice!Item(c, P, r).owner = (r = Advice!ChooseClusterOwner(Advice!ClusterRows(c, P, r)))
         /\ Advice!Item(c, P, r).package = IF Advice!ClusterKeys(c, KeyOf[r]) = {} THEN NoResource
                                    ELSE Advice!Min(Advice!ClusterKeys(c, KeyOf[r]))
  BY DEF Advice!Item

\* The rows of a package are rows of its page, and its keys are resources.
LEMMA ClustersAre ==
  ASSUME Advice!PackagesAssumption, NEW e, NEW P \in SUBSET Rows, NEW r \in P
  PROVE  LET c == Advice!ClusterPackageRows(e, P)
         IN  /\ r \in Advice!ClusterRows(c, P, r) /\ Advice!ClusterRows(c, P, r) \subseteq P
             /\ Advice!ClusterKeys(c, KeyOf[r]) \subseteq Resources
  <1> DEFINE c == Advice!ClusterPackageRows(e, P)
  <1>1. r \in Advice!ClusterRows(c, P, r) /\ Advice!ClusterRows(c, P, r) \subseteq P
    BY DEF Advice!ClusterRows
  <1>2. Advice!Packaged(e, P) \subseteq Resources
    BY DEF Advice!Packaged, Advice!PackagesAssumption
  <1>3. c \subseteq Advice!Packaged(e, P) \X Advice!Packaged(e, P)
    BY DEF Advice!ClusterPackageRows
  <1> HIDE DEF c
  <1>4. Advice!ClusterKeys(c, KeyOf[r]) \subseteq Resources
    BY <1>2, <1>3 DEF Advice!ClusterKeys
  <1> QED BY <1>1, <1>4 DEF c

\* The clusters put the packages of a page into classes.
LEMMA ClustersJoin ==
  ASSUME NEW e, NEW P
  PROVE  LET c == Advice!ClusterPackageRows(e, P)
         IN  /\ \A x, y : <<x, y>> \in c => <<y, y>> \in c /\ <<y, x>> \in c
             /\ \A x, y, z : <<x, y>> \in c /\ <<y, z>> \in c => <<x, z>> \in c
  <1> DEFINE K == Advice!Packaged(e, P)
             pairs == Advice!JoinedPackages(e, P)
             closed == {S \in SUBSET K : Advice!Closed(pairs, S)}
             c == Advice!ClusterPackageRows(e, P)
  <1>1. \A x, y : <<x, y>> \in c <=> x \in K /\ y \in K /\ \A S \in closed : x \in S => y \in S
    BY DEF Advice!ClusterPackageRows
  <1>2. \A x, y : <<x, y>> \in pairs => <<y, x>> \in pairs
    BY DEF Advice!JoinedPackages
  <1>3. pairs \subseteq K \X K
    BY DEF Advice!JoinedPackages
  <1>4. ASSUME NEW S \in closed PROVE K \ S \in closed
    <2> SUFFICES ASSUME NEW p \in pairs, p[1] \in K \ S, p[2] \in S PROVE FALSE
      BY <1>3 DEF Advice!Closed
    <2>1. p = <<p[1], p[2]>>
      BY <1>3
    <2>2. <<p[2], p[1]>> \in pairs
      BY <1>2, <2>1
    <2> HIDE DEF pairs, K
    <2> QED BY <2>2 DEF Advice!Closed
  <1> HIDE DEF K, closed, c
  <1>5. ASSUME NEW x, NEW y, <<x, y>> \in c PROVE <<y, x>> \in c
    <2> SUFFICES ASSUME NEW S \in closed, y \in S, x \notin S PROVE FALSE
      BY <1>1, <1>5
    <2>1. K \ S \in closed /\ x \in K \ S
      BY <1>1, <1>4, <1>5
    <2>2. y \in K \ S
      BY <1>1, <1>5, <2>1
    <2> QED BY <2>2
  <1>6. \A x, y, z : <<x, y>> \in c /\ <<y, z>> \in c => <<x, z>> \in c
    BY <1>1
  <1> QED BY <1>5, <1>6 DEF c

\* The rows of a page are parted into packages.
LEMMA PackagesPart ==
  ASSUME NEW e, NEW P, NEW r \in P, NEW s \in P
  PROVE  LET c == Advice!ClusterPackageRows(e, P)
         IN  s \in Advice!ClusterRows(c, P, r)
               => Advice!ClusterRows(c, P, s) = Advice!ClusterRows(c, P, r)
  <1> DEFINE c == Advice!ClusterPackageRows(e, P)
  <1>1. /\ \A x, y : <<x, y>> \in c => <<y, y>> \in c /\ <<y, x>> \in c
        /\ \A x, y, z : <<x, y>> \in c /\ <<y, z>> \in c => <<x, z>> \in c
    BY ClustersJoin
  <1>2. c \subseteq Advice!Packaged(e, P) \X Advice!Packaged(e, P)
    BY DEF Advice!ClusterPackageRows
  <1> HIDE DEF c
  <1>3. \A x : Advice!ClusterKeys(c, x) = {y \in Advice!Packaged(e, P) : <<x, y>> \in c}
    <2> SUFFICES ASSUME NEW x, NEW y
                 PROVE  y \in Advice!ClusterKeys(c, x) <=> <<x, y>> \in c
      BY <1>2 DEF Advice!ClusterKeys
    <2>1. ASSUME y \in Advice!ClusterKeys(c, x) PROVE <<x, y>> \in c
      <3>1. PICK p \in c : p[1] = x /\ p[2] = y
        BY <2>1 DEF Advice!ClusterKeys
      <3>2. p = <<p[1], p[2]>>
        BY <1>2
      <3> QED BY <3>1, <3>2
    <2>2. ASSUME <<x, y>> \in c PROVE y \in Advice!ClusterKeys(c, x)
      <3>1. <<x, y>>[1] = x /\ <<x, y>>[2] = y
        OBVIOUS
      <3> QED BY <2>2, <3>1 DEF Advice!ClusterKeys
    <2> QED BY <2>1, <2>2
  <1>4. \A a, b : b \in Advice!ClusterRows(c, P, a) <=> b = a \/ (b \in P /\ <<KeyOf[a], KeyOf[b]>> \in c)
    <2>1. \A x, y : y \in Advice!ClusterKeys(c, x) <=> <<x, y>> \in c
      BY <1>2, <1>3
    <2> QED BY <2>1 DEF Advice!ClusterRows
  <1>5. ASSUME s \in Advice!ClusterRows(c, P, r)
        PROVE  Advice!ClusterRows(c, P, s) = Advice!ClusterRows(c, P, r)
    <2>1. CASE s = r
      BY <2>1
    <2>2. CASE s # r
      <3>1. <<KeyOf[r], KeyOf[s]>> \in c
        BY <1>4, <1>5, <2>2
      <3>2. <<KeyOf[s], KeyOf[r]>> \in c /\ <<KeyOf[r], KeyOf[r]>> \in c /\ <<KeyOf[s], KeyOf[s]>> \in c
        BY <1>1, <3>1
      <3>3. \A z : <<KeyOf[r], z>> \in c <=> <<KeyOf[s], z>> \in c
        BY <1>1, <3>1, <3>2
      <3>4. \A b : b \in Advice!ClusterRows(c, P, s) <=> b \in Advice!ClusterRows(c, P, r)
        BY <1>4, <3>2, <3>3
      <3> DEFINE A == Advice!ClusterRows(c, P, s)
                 B == Advice!ClusterRows(c, P, r)
      <3> HIDE DEF A, B
      <3>5. \A b : b \in A <=> b \in B
        BY <3>4 DEF A, B
      <3>6. A = B
        BY <3>5
      <3> QED BY <3>6 DEF A, B
    <2> QED BY <2>1, <2>2
  <1> QED BY <1>5 DEF c

\* Rows have an owner among them.
LEMMA OwnerAmong ==
  ASSUME Advice!PackagesAssumption, NEW C \in SUBSET Rows, C # {}
  PROVE  Advice!ChooseClusterOwner(C) \in C
  <1> DEFINE R == {p \in C \X C : Advice!Owns(p[1], p[2]) /\ p[1] # p[2]}
  <1>1. IsFiniteSet(C)
    BY RowsAre, FS_Subset
  <1>2. StrictlyOrders(R, C)
    BY OwnsOrders
  <1>3. \A x, y \in C : <<x, y>> \in R <=> Advice!Owns(x, y) /\ x # y
    OBVIOUS
  <1> HIDE DEF R
  <1>4. 0 \in 0 .. (Cardinality(C) - 1)
    BY <1>1, FS_EmptySet, FS_CardinalityType
  <1>5. PICK r \in C : Cardinality(Below(R, C, r)) = 0
    BY <1>1, <1>2, <1>4, EveryPlaceIsTaken
  <1>6. Below(R, C, r) = {}
    <2>1. IsFiniteSet(Below(R, C, r))
      BY <1>1, FS_Subset DEF Below
    <2> QED BY <1>5, <2>1, FS_EmptySet
  <1>7. \A s \in C : Advice!Owns(r, s)
    <2>1. \A s \in C : <<s, r>> \notin R
      BY <1>6 DEF Below
    <2> QED BY <1>3, <2>1, OwnsOrders
  <1> QED BY <1>7 DEF Advice!ChooseClusterOwner

\* Every page that has rows has an owner of savings among them.
LEMMA SomeoneOwns ==
  ASSUME Advice!PackagesAssumption, NEW e, NEW P \in SUBSET Rows, P # {}
  PROVE  \E r \in P : Advice!Item(Advice!ClusterPackageRows(e, P), P, r).owner
  <1> DEFINE c == Advice!ClusterPackageRows(e, P)
  <1>1. PICK s \in P : TRUE
    OBVIOUS
  <1> DEFINE C == Advice!ClusterRows(c, P, s)
             r == Advice!ChooseClusterOwner(C)
  <1>2. s \in C /\ C \subseteq P
    BY ClustersAre
  <1>3. r \in C
    <2>1. C \in SUBSET Rows /\ C # {}
      BY <1>2
    <2> HIDE DEF C
    <2> QED BY <2>1, OwnerAmong
  <1>4. r \in P /\ Advice!ClusterRows(c, P, r) = C
    <2>1. r \in P
      BY <1>2, <1>3
    <2> HIDE DEF r
    <2> QED BY <1>1, <1>3, <2>1, PackagesPart
  <1>5. r = Advice!ChooseClusterOwner(Advice!ClusterRows(c, P, r))
    BY <1>4
  <1> HIDE DEF r, C, c
  <1>6. Advice!Item(c, P, r).owner = (r = Advice!ChooseClusterOwner(Advice!ClusterRows(c, P, r)))
    BY ItemIs
  <1>7. Advice!Item(c, P, r).owner
    BY ONLY <1>5, <1>6, Zenon
  <1> QED BY <1>4, <1>7 DEF c

\* What has been answered to an address so far: the first estate's answer until
\* another is published.
Replied(a, e) == {Advice!Recommended(n, a) : n \in IF e = 1 THEN {1} ELSE DOMAIN Estates}

GroupKeys == (Resources \X {"package"}) \cup (Rows \X {"item"})

ItemOK(i) == i.row \in Rows /\ i.package \in Resources \cup {NoResource}

ReplyOf(d, n, a) ==
  LET P == Advice!PageRows(Estates[n], a)
  IN  /\ d.total = Cardinality(Advice!Matching(Estates[n], a))
      /\ d.items = {Advice!Item(Advice!ClusterPackageRows(Estates[n], P), P, r) : r \in P}

LEMMA RepliedType ==
  ASSUME Advice!PackagesAssumption, NEW e \in DOMAIN Estates, NEW a, NEW d \in Replied(a, e)
  PROVE  \E n \in DOMAIN Estates : (e = 1 => n = 1) /\ ReplyOf(d, n, a)
  <1>1. PICK n \in IF e = 1 THEN {1} ELSE DOMAIN Estates : d = Advice!Recommended(n, a)
    BY DEF Replied
  <1>2. n \in DOMAIN Estates /\ (e = 1 => n = 1)
    BY <1>1
  <1>3. ReplyOf(d, n, a)
    BY <1>1, RecommendedTotal DEF Advice!Recommended, ReplyOf
  <1> QED BY <1>2, <1>3

LEMMA ItemsType ==
  ASSUME Advice!PackagesAssumption, NEW e \in DOMAIN Estates, NEW a,
         NEW entry \in SigningP!EntryRecords(Replied(a, e))
  PROVE  \A i \in Advice!Items(entry) : ItemOK(i)
  <1>1. CASE entry.data = NoData
    BY <1>1 DEF Advice!Items
  <1>2. CASE entry.data # NoData
    <2>1. entry.data \in Replied(a, e)
      BY <1>2 DEF SigningP!EntryRecords
    <2>2. PICK n \in DOMAIN Estates : (e = 1 => n = 1) /\ ReplyOf(entry.data, n, a)
      BY <2>1, RepliedType
    <2> DEFINE P == Advice!PageRows(Estates[n], a)
               c == Advice!ClusterPackageRows(Estates[n], P)
    <2>3. P \in SUBSET Rows
      BY MatchingType
    <2>4. Advice!Items(entry) = {Advice!Item(c, P, r) : r \in P}
      BY <1>2, <2>2 DEF Advice!Items, ReplyOf
    <2>5. ASSUME NEW r \in P PROVE ItemOK(Advice!Item(c, P, r))
      <3>1. Advice!ClusterKeys(c, KeyOf[r]) \subseteq Resources
        BY <2>3, ClustersAre
      <3> DEFINE K == Advice!ClusterKeys(c, KeyOf[r])
      <3>2. K # {} => Advice!Min(K) \in Resources
        <4> SUFFICES ASSUME K # {} PROVE Advice!Min(K) \in Resources
          OBVIOUS
        <4>1. K \in SUBSET Nat
          BY <3>1 DEF Advice!PackagesAssumption
        <4> HIDE DEF K
        <4>2. \E x \in K : \A y \in K : x <= y
          BY <4>1, LeastOf
        <4>3. Advice!Min(K) \in K
          BY <4>2 DEF Advice!Min
        <4> QED BY <3>1, <4>3 DEF K
      <3>3. Advice!Item(c, P, r).row = r /\ Advice!Item(c, P, r).package = IF K = {} THEN NoResource ELSE Advice!Min(K)
        BY ItemIs
      <3>4. r \in Rows
        BY <2>3
      <3> HIDE DEF K, c, P
      <3> QED BY <3>2, <3>3, <3>4 DEF ItemOK
    <2> HIDE DEF c, P
    <2> QED BY <2>4, <2>5
  <1> QED BY <1>1, <1>2

\* An answer without items is one to an address that nothing is on.
LEMMA EmptyPage ==
  ASSUME Advice!PackagesAssumption, NEW e \in DOMAIN Estates, NEW a, a.page \in Nat \ {0},
         NEW d \in Replied(a, e), NEW hidden,
         Advice!Visible(d.items, hidden) = {}
  PROVE  /\ d.items = {}
         /\ e = 1 => (Cardinality(Advice!Matching(Estates[1], a)) = d.total
                      /\ ~((a.page - 1) * Limit < d.total))
  <1>1. PICK n \in DOMAIN Estates : (e = 1 => n = 1) /\ ReplyOf(d, n, a)
    BY RepliedType
  <1> DEFINE P == Advice!PageRows(Estates[n], a)
             c == Advice!ClusterPackageRows(Estates[n], P)
  <1>2. P \in SUBSET Rows
    BY MatchingType
  <1>3. /\ d.items = {Advice!Item(c, P, r) : r \in P}
        /\ d.total = Cardinality(Advice!Matching(Estates[n], a))
    BY <1>1 DEF ReplyOf
  <1>4. P = {}
    <2> SUFFICES ASSUME P # {} PROVE FALSE
      OBVIOUS
    <2>1. PICK r \in P : Advice!Item(c, P, r).owner
      BY <1>2, SomeoneOwns
    <2> HIDE DEF c, P
    <2>2. Advice!Item(c, P, r) \in Advice!Visible(d.items, hidden)
      BY <1>3, <2>1 DEF Advice!Visible
    <2> QED BY <2>2
  <1>5. d.items = {}
    <2> HIDE DEF c, P
    <2> QED BY <1>3, <1>4
  <1>6. ~((a.page - 1) * Limit < Cardinality(Advice!Matching(Estates[n], a)))
    BY <1>4, PageHasRows
  <1> QED BY <1>1, <1>3, <1>5, <1>6

-----------------------------------------------------------------------------
(* The recommendations page.                                                 *)

\* The page of an address has been told to have a row, or is the first, or is one
\* the user has come with.
Begun(e, a, came) ==
  (e = 1 /\ ~came) => a.page = 1 \/ (a.page - 1) * Limit < Cardinality(Advice!Matching(Estates[1], a))

CollapsedOK(f) == DOMAIN f \subseteq GroupKeys /\ \A g \in DOMAIN f : f[g] \in SigningP!Flags

RepliesOK(as, e) ==
  DOMAIN as = Advice!Addresses /\ \A a \in Advice!Addresses : as[a] \in SigningP!EntryRecords(Replied(a, e))

AdviceInv ==
  /\ estate \in DOMAIN Estates /\ address \in Advice!Addresses /\ RepliesOK(answers, estate)
  /\ hideSuppressed \in SigningP!Flags /\ groupByPackage \in SigningP!Flags /\ CollapsedOK(collapsed)
  /\ selectedRow \in Rows \cup {NoRow} /\ moves \in 0 .. MaxMoves
  /\ brought \in SigningP!Flags /\ Begun(estate, address, brought)

LEMMA AddressesHave ==
  ASSUME Advice!PackagesAssumption, NEW a \in Advice!Addresses
  PROVE  /\ a.page \in Nat \ {0} /\ a.page \in Advice!Pages /\ 1 \in Advice!Pages
         /\ a.order \in Advice!Orders /\ a.min \in MinSavings
         /\ \A m \in MinSavings : [a EXCEPT !.min = m, !.page = 1] \in Advice!Addresses
                                  /\ [a EXCEPT !.min = m, !.page = 1].page = 1
         /\ \A o \in Advice!Orders : [a EXCEPT !.order = o, !.page = 1] \in Advice!Addresses
                                /\ [a EXCEPT !.order = o, !.page = 1].page = 1
         /\ \A p \in Advice!Pages : [a EXCEPT !.page = p] \in Advice!Addresses
                             /\ [a EXCEPT !.page = p].page = p
                             /\ [a EXCEPT !.page = p].min = a.min
  <1>1. Limit \in Nat \ {0} /\ Cardinality(Rows) \in Nat /\ Cardinality(Rows) # 0
    BY RowsAre
  <1>2. /\ (Cardinality(Rows) + Limit - 1) \div Limit \in Nat
        /\ 1 <= (Cardinality(Rows) + Limit - 1) \div Limit
    BY <1>1, PagesOf, MorePages
  <1>3. 1 \in Advice!Pages /\ Advice!Pages \subseteq Nat \ {0}
    BY <1>2, PagesAre
  <1> QED BY <1>3 DEF Advice!Addresses

\* An address whose replies change in one place.
LEMMA RepliesChange ==
  ASSUME NEW e, NEW as, RepliesOK(as, e), NEW a \in Advice!Addresses,
         NEW r \in SigningP!EntryRecords(Replied(a, e)), NEW bs, bs = [as EXCEPT ![a] = r]
  PROVE  RepliesOK(bs, e)
  BY DEF RepliesOK

LEMMA GroupsType ==
  ASSUME NEW items, \A i \in items : ItemOK(i)
  PROVE  /\ Advice!Groups(items) \subseteq GroupKeys
         /\ \A hidden : \A i \in Advice!Visible(items, hidden) : ItemOK(i)
  <1>1. ASSUME NEW i \in items PROVE Advice!GroupKey(i) \in GroupKeys
    BY <1>1 DEF Advice!GroupKey, GroupKeys, ItemOK
  <1> QED BY <1>1 DEF Advice!Groups, Advice!Visible

\* The page is rendered with items that were answered.
LEMMA RenderedKeeps ==
  ASSUME AdviceInv, NEW items, \A i \in items : ItemOK(i), NEW hidden \in SigningP!Flags,
         Advice!Rendered(items, hidden)
  PROVE  /\ selectedRow' \in Rows \cup {NoRow} /\ hideSuppressed' \in SigningP!Flags
         /\ CollapsedOK(collapsed')
  <1>1. selectedRow' \in Rows \cup {NoRow} /\ hideSuppressed' \in SigningP!Flags
    BY DEF Advice!Rendered, Advice!Reselected, AdviceInv
  <1> DEFINE G == Advice!Groups(Advice!Visible(items, hidden))
  <1>2. G \subseteq GroupKeys
    BY GroupsType
  <1>3. collapsed' = [g \in G |-> IF g \in DOMAIN collapsed THEN collapsed[g]
                           ELSE Advice!Cardinality(Advice!Members(Advice!Visible(items, hidden), g)) > 1]
    BY DEF Advice!Rendered, Advice!Collapsed
  <1>4. ASSUME NEW g \in G
        PROVE  (IF g \in DOMAIN collapsed THEN collapsed[g]
                ELSE Advice!Cardinality(Advice!Members(Advice!Visible(items, hidden), g)) > 1) \in SigningP!Flags
    <2>1. CASE g \in DOMAIN collapsed
      BY <2>1 DEF AdviceInv, CollapsedOK
    <2>2. CASE g \notin DOMAIN collapsed
      <3>1. (Advice!Cardinality(Advice!Members(Advice!Visible(items, hidden), g)) > 1) \in SigningP!Flags
        BY DEF SigningP!Flags
      <3> QED BY <2>2, <3>1
    <2> QED BY <2>1, <2>2
  <1> HIDE DEF G
  <1>5. CollapsedOK(collapsed')
    BY <1>2, <1>3, <1>4 DEF CollapsedOK
  <1> QED BY <1>1, <1>5

LEMMA PushKeeps ==
  ASSUME Advice!PackagesAssumption, AdviceInv, NEW a \in Advice!Addresses, Advice!PushWithParams(a),
         Begun(estate, a, a.page # 1 /\ brought), MaxMoves \in Nat
  PROVE  AdviceInv'
  <1>1. /\ moves < MaxMoves /\ address' = a /\ moves' = moves + 1
        /\ answers' = [answers EXCEPT ![a] = Advice!Mount(answers[a])]
        /\ Advice!Rendered(Advice!Items(answers[a]), hideSuppressed)
        /\ UNCHANGED <<estate, groupByPackage>> /\ brought' = (brought /\ a.page # 1)
    BY DEF Advice!PushWithParams
  <1>2. estate \in DOMAIN Estates /\ answers[a] \in SigningP!EntryRecords(Replied(a, estate))
    BY DEF AdviceInv, RepliesOK
  <1>3. Advice!Mount(answers[a]) \in SigningP!EntryRecords(Replied(a, estate))
    BY <1>2, AdviceEntryTypes
  <1>4. RepliesOK(answers', estate)
    BY <1>1, <1>3, RepliesChange DEF AdviceInv
  <1>5. \A i \in Advice!Items(answers[a]) : ItemOK(i)
    BY <1>2, ItemsType
  <1>6. /\ selectedRow' \in Rows \cup {NoRow} /\ hideSuppressed' \in SigningP!Flags
        /\ CollapsedOK(collapsed')
    BY <1>1, <1>5, RenderedKeeps DEF AdviceInv
  <1>7. moves' \in 0 .. MaxMoves
    BY <1>1 DEF AdviceInv
  <1>8. brought' \in SigningP!Flags /\ Begun(estate, a, brought')
    BY <1>1 DEF Begun, SigningP!Flags
  <1> QED BY <1>1, <1>4, <1>6, <1>7, <1>8 DEF AdviceInv

LEMMA FiltersKeep ==
  ASSUME Advice!PackagesAssumption, AdviceInv, MaxMoves \in Nat, NEW m \in MinSavings,
         Advice!ApplySearchFilters(m)
  PROVE  AdviceInv'
  <1> DEFINE a == [address EXCEPT !.min = m, !.page = 1]
  <1>1. Advice!PushWithParams(a)
    BY DEF Advice!ApplySearchFilters
  <1>2. a \in Advice!Addresses /\ a.page = 1
    BY AddressesHave DEF AdviceInv
  <1> HIDE DEF a
  <1>3. Begun(estate, a, a.page # 1 /\ brought)
    BY <1>2 DEF Begun
  <1> QED BY <1>1, <1>2, <1>3, PushKeeps

LEMMA OrderKeeps ==
  ASSUME Advice!PackagesAssumption, AdviceInv, MaxMoves \in Nat, NEW o \in Advice!Orders, Advice!ChooseOrder(o)
  PROVE  AdviceInv'
  <1> DEFINE a == [address EXCEPT !.order = o, !.page = 1]
  <1>1. Advice!PushWithParams(a)
    BY DEF Advice!ChooseOrder
  <1>2. a \in Advice!Addresses /\ a.page = 1
    BY AddressesHave DEF AdviceInv
  <1> HIDE DEF a
  <1>3. Begun(estate, a, a.page # 1 /\ brought)
    BY <1>2 DEF Begun
  <1> QED BY <1>1, <1>2, <1>3, PushKeeps

\* The pager leads to no page that the answer does not tell of.
LEMMA TurnKeeps ==
  ASSUME Advice!PackagesAssumption, AdviceInv, MaxMoves \in Nat, Advice!TurnPage
  PROVE  AdviceInv'
  <1> DEFINE d == answers[address].data
             t == d.total
  <1>1. d # NoData
    BY DEF Advice!TurnPage
  <1>2. estate \in DOMAIN Estates /\ address \in Advice!Addresses /\ d \in Replied(address, estate)
    BY <1>1 DEF AdviceInv, RepliesOK, SigningP!EntryRecords
  <1> HIDE DEF d
  <1>3. PICK n \in DOMAIN Estates :
          (estate = 1 => n = 1) /\ ReplyOf(d, n, address)
    BY <1>2, RepliedType
  <1>4. /\ t \in Nat /\ t <= Cardinality(Rows) /\ Cardinality(Rows) \in Nat /\ Cardinality(Rows) # 0
        /\ estate = 1 => t = Cardinality(Advice!Matching(Estates[1], address))
    BY <1>3, MatchingType DEF ReplyOf
  <1>5. Advice!TotalRows = t
    BY <1>1 DEF Advice!TotalRows, d
  <1> HIDE DEF t
  <1>6. Limit \in Nat \ {0}
    BY RowsAre
  <1>7. address.page \in Nat \ {0} /\ address.page \in Advice!Pages
    BY <1>2, AddressesHave
  <1>8. CASE address.page < Advice!TotalPages /\ Advice!PushWithParams([address EXCEPT !.page = @ + 1])
    <2> DEFINE p == address.page + 1
               a == [address EXCEPT !.page = p]
    <2>1. Advice!PushWithParams(a)
      BY <1>8
    <2>2. t # 0 /\ address.page < (t + Limit - 1) \div Limit
      BY <1>5, <1>7, <1>8 DEF Advice!TotalPages
    <2>3. /\ (t + Limit - 1) \div Limit <= (Cardinality(Rows) + Limit - 1) \div Limit
          /\ (t + Limit - 1) \div Limit \in Nat
          /\ (Cardinality(Rows) + Limit - 1) \div Limit \in Nat
      BY <1>4, <1>6, MorePages, PagesOf
    <2>4. p \in Advice!Pages
      BY <1>7, <2>2, <2>3, PagesAre
    <2>5. address.page * Limit < t
      BY <1>4, <1>6, <1>7, <2>2, PageBegins
    <2>6. a \in Advice!Addresses /\ a.page = p /\ a.min = address.min
      BY <1>2, <2>4, AddressesHave
    <2>7. p - 1 = address.page
      BY <1>7
    <2> HIDE DEF a, p
    <2>8. Advice!Matching(Estates[1], a) = Advice!Matching(Estates[1], address)
      BY <2>6 DEF Advice!Matching
    <2>9. Begun(estate, a, a.page # 1 /\ brought)
      BY <1>4, <2>5, <2>6, <2>7, <2>8 DEF Begun
    <2> QED BY <2>1, <2>6, <2>9, PushKeeps
  <1>9. CASE address.page > 1 /\ Advice!PushWithParams([address EXCEPT !.page = @ - 1])
    <2> DEFINE p == address.page - 1
               a == [address EXCEPT !.page = p]
    <2>1. Advice!PushWithParams(a)
      BY <1>9
    <2>2. p \in Advice!Pages /\ p \in Nat
      <3>1. (Cardinality(Rows) + Limit - 1) \div Limit \in Nat
        BY <1>4, <1>6, PagesOf
      <3> QED BY <1>7, <1>9, <3>1, PagesAre
    <2>3. a \in Advice!Addresses /\ a.page = p /\ a.min = address.min
      BY <1>2, <2>2, AddressesHave
    <2>4. (estate = 1 /\ ~brought) => (address.page - 1) * Limit < Cardinality(Advice!Matching(Estates[1], address))
      BY <1>7, <1>9 DEF AdviceInv, Begun
    <2>5. (p - 1) * Limit < p * Limit
      <3>1. p * Limit = (p - 1) * Limit + Limit
        BY <1>6, <2>2
      <3>2. (p - 1) * Limit \in Int
        BY <1>6, <2>2
      <3> HIDE DEF p
      <3> QED BY <1>6, <3>1, <3>2
    <2>6. p * Limit \in Int /\ (p - 1) * Limit \in Int
      BY <1>6, <2>2
    <2>7. (estate = 1 /\ ~brought) => p * Limit < t
      BY <1>4, <2>4
    <2>8. (estate = 1 /\ ~brought) => (p - 1) * Limit < t
      <3> HIDE DEF p
      <3> QED BY <1>4, <2>5, <2>6, <2>7
    <2> HIDE DEF a, p
    <2>9. Advice!Matching(Estates[1], a) = Advice!Matching(Estates[1], address)
      BY <2>3 DEF Advice!Matching
    <2>10. Begun(estate, a, a.page # 1 /\ brought)
      BY <1>4, <2>3, <2>8, <2>9 DEF Begun
    <2> QED BY <2>1, <2>3, <2>10, PushKeeps
  <1> QED BY <1>8, <1>9 DEF Advice!TurnPage

LEMMA RerenderKeeps ==
  ASSUME Advice!PackagesAssumption, AdviceInv, NEW hidden \in SigningP!Flags,
         Advice!Rendered(Advice!Items(answers[address]), hidden),
         UNCHANGED <<estate, answers, address, brought, moves>>, groupByPackage' \in SigningP!Flags
  PROVE  AdviceInv'
  <1>1. answers[address] \in SigningP!EntryRecords(Replied(address, estate)) /\ estate \in DOMAIN Estates
    BY DEF AdviceInv, RepliesOK
  <1>2. \A i \in Advice!Items(answers[address]) : ItemOK(i)
    BY <1>1, ItemsType
  <1>3. /\ selectedRow' \in Rows \cup {NoRow} /\ hideSuppressed' \in SigningP!Flags
        /\ CollapsedOK(collapsed')
    BY <1>2, RenderedKeeps
  <1> QED BY <1>3 DEF AdviceInv

LEMMA ViewKeeps ==
  ASSUME Advice!PackagesAssumption, AdviceInv,
         Advice!HideSuppressed \/ Advice!GroupByPackage \/ Advice!TogglePrimaryOwnersMode
  PROVE  AdviceInv'
  <1>1. (~hideSuppressed) \in SigningP!Flags /\ (~groupByPackage) \in SigningP!Flags
        /\ (groupByPackage /\ hideSuppressed) \in SigningP!Flags
    BY DEF AdviceInv, SigningP!Flags
  <1>2. CASE Advice!HideSuppressed
    BY <1>1, <1>2, RerenderKeeps DEF Advice!HideSuppressed, AdviceInv
  <1>3. CASE Advice!GroupByPackage
    BY <1>1, <1>3 DEF Advice!GroupByPackage, AdviceInv
  <1>4. CASE Advice!TogglePrimaryOwnersMode
    BY <1>1, <1>4, RerenderKeeps DEF Advice!TogglePrimaryOwnersMode
  <1> QED BY <1>2, <1>3, <1>4

LEMMA FoldKeeps ==
  ASSUME AdviceInv, NEW g \in DOMAIN collapsed, Advice!ToggleGroupCollapsed(g)
  PROVE  AdviceInv'
  <1>1. /\ collapsed' = [collapsed EXCEPT ![g] = ~collapsed[g]]
        /\ UNCHANGED <<estate, answers, address, brought, hideSuppressed, groupByPackage, selectedRow, moves>>
    BY DEF Advice!ToggleGroupCollapsed
  <1>2. (~collapsed[g]) \in SigningP!Flags
    BY DEF SigningP!Flags
  <1> DEFINE b == ~collapsed[g]
  <1>3. collapsed' = [collapsed EXCEPT ![g] = b] /\ b \in SigningP!Flags
    BY <1>1, <1>2
  <1> HIDE DEF b
  <1>4. CollapsedOK(collapsed')
    BY <1>3 DEF AdviceInv, CollapsedOK
  <1> QED BY <1>1, <1>4 DEF AdviceInv

LEMMA DrawerKeeps ==
  ASSUME Advice!PackagesAssumption, AdviceInv,
         Advice!CloseDrawer \/ \E r \in Rows : Advice!OpenRecommendation(r)
  PROVE  AdviceInv'
  BY DEF AdviceInv, Advice!CloseDrawer, Advice!OpenRecommendation

LEMMA RetryKeeps ==
  ASSUME AdviceInv, Advice!Retry
  PROVE  AdviceInv'
  <1>1. /\ answers' = [answers EXCEPT ![address] = Advice!Invalidate(answers[address])]
        /\ UNCHANGED <<estate, address, brought, hideSuppressed, groupByPackage, collapsed, selectedRow, moves>>
    BY DEF Advice!Retry
  <1>2. address \in Advice!Addresses /\ answers[address] \in SigningP!EntryRecords(Replied(address, estate))
    BY DEF AdviceInv, RepliesOK
  <1>3. Advice!Invalidate(answers[address]) \in SigningP!EntryRecords(Replied(address, estate))
    BY <1>2, AdviceInvalidate
  <1>4. RepliesOK(answers', estate)
    BY <1>1, <1>2, <1>3, RepliesChange DEF AdviceInv
  <1> QED BY <1>1, <1>4 DEF AdviceInv

LEMMA PublishKeeps ==
  ASSUME Advice!PackagesAssumption, AdviceInv, NEW n \in DOMAIN Estates, Advice!Publish(n)
  PROVE  AdviceInv'
  <1>1. /\ estate = 1 /\ n # 1 /\ estate' = n
        /\ UNCHANGED <<answers, address, brought, hideSuppressed, groupByPackage, collapsed, selectedRow, moves>>
    BY DEF Advice!Publish
  <1>2. 1 \in DOMAIN Estates
    BY <1>1 DEF AdviceInv
  <1>3. ASSUME NEW a \in Advice!Addresses
        PROVE  SigningP!EntryRecords(Replied(a, 1)) \subseteq SigningP!EntryRecords(Replied(a, n))
    <2>1. Replied(a, 1) \subseteq Replied(a, n)
      BY <1>1, <1>2 DEF Replied
    <2> QED BY <2>1, EntriesGrow
  <1>4. RepliesOK(answers', n)
    BY <1>1, <1>3 DEF AdviceInv, RepliesOK
  <1> QED BY <1>1, <1>4 DEF AdviceInv, Begun

LEMMA ReadKeeps ==
  ASSUME Served = Advice!Replies, AdviceInv, NEW a \in Advice!Addresses, Advice!ReadAnswer(a)
  PROVE  AdviceInv'
  <1>1. UNCHANGED <<estate, address, brought, hideSuppressed, groupByPackage, collapsed, selectedRow, moves>>
    BY DEF Advice!ReadAnswer
  <1>2. answers[a] \in SigningP!EntryRecords(Replied(a, estate)) /\ estate \in DOMAIN Estates
    BY DEF AdviceInv, RepliesOK
  <1>3. CASE \E r \in Served : /\ r.estate = estate /\ r.address = a
                               /\ answers' = [answers EXCEPT ![a] = Advice!Answer(@, r.answer)]
    <2>1. PICK r \in Served : /\ r.estate = estate /\ r.address = a
                              /\ answers' = [answers EXCEPT ![a] = Advice!Answer(answers[a], r.answer)]
      BY <1>3
    <2>2. r.answer = Advice!Recommended(r.estate, r.address)
      <3>1. r \in {[estate |-> m, address |-> b, answer |-> Advice!Recommended(m, b)] :
                     m \in DOMAIN Estates, b \in Advice!Addresses}
        BY <2>1 DEF Advice!Replies
      <3> QED BY <3>1
    <2>3. r.answer \in Replied(a, estate)
      BY <1>2, <2>1, <2>2 DEF Replied
    <2>4. Advice!Answer(answers[a], r.answer) \in SigningP!EntryRecords(Replied(a, estate))
      BY <1>2, <2>3, AdviceEntryTypes
    <2>5. RepliesOK(answers', estate)
      BY <2>1, <2>4, RepliesChange DEF AdviceInv
    <2> QED BY <1>1, <2>5 DEF AdviceInv
  <1>4. CASE answers' = [answers EXCEPT ![a] = Advice!Deliver(Advice!Answer(@, Failure))]
    <2>1. Advice!Answer(answers[a], Failure) \in SigningP!EntryRecords(Replied(a, estate))
      BY <1>2, AdviceEntryTypes
    <2>2. Advice!Deliver(Advice!Answer(answers[a], Failure)) \in SigningP!EntryRecords(Replied(a, estate))
      BY <2>1, AdviceEntryTypes
    <2>3. RepliesOK(answers', estate)
      BY <1>4, <2>2, RepliesChange DEF AdviceInv
    <2> QED BY <1>1, <2>3 DEF AdviceInv
  <1> QED BY <1>3, <1>4 DEF Advice!ReadAnswer

LEMMA ReplyKeeps ==
  ASSUME Advice!PackagesAssumption, AdviceInv, NEW a \in Advice!Addresses, Advice!DeliverAnswer(a)
  PROVE  AdviceInv'
  <1>1. /\ answers' = [answers EXCEPT ![a] = Advice!Deliver(answers[a])]
        /\ UNCHANGED <<estate, address, brought, groupByPackage, moves>>
    BY DEF Advice!DeliverAnswer
  <1>2. answers[a] \in SigningP!EntryRecords(Replied(a, estate)) /\ estate \in DOMAIN Estates
    BY DEF AdviceInv, RepliesOK
  <1>3. Advice!Deliver(answers[a]) \in SigningP!EntryRecords(Replied(a, estate))
    BY <1>2, AdviceEntryTypes
  <1>4. RepliesOK(answers', estate)
    BY <1>1, <1>3, RepliesChange DEF AdviceInv
  <1>5. CASE a = address
    <2>1. Advice!Rendered(Advice!Items(Advice!Deliver(answers[a])), hideSuppressed)
      BY <1>5 DEF Advice!DeliverAnswer
    <2>2. \A i \in Advice!Items(Advice!Deliver(answers[a])) : ItemOK(i)
      BY <1>2, <1>3, ItemsType
    <2>3. /\ selectedRow' \in Rows \cup {NoRow} /\ hideSuppressed' \in SigningP!Flags
          /\ CollapsedOK(collapsed')
      BY <2>1, <2>2, RenderedKeeps DEF AdviceInv
    <2> QED BY <1>1, <1>4, <2>3 DEF AdviceInv
  <1>6. CASE a # address
    <2>1. UNCHANGED <<hideSuppressed, collapsed, selectedRow>>
      BY <1>6 DEF Advice!DeliverAnswer
    <2> QED BY <1>1, <1>4, <2>1 DEF AdviceInv
  <1> QED BY <1>5, <1>6

\* The cache of a page that has just been loaded.
LEMMA LoadedReplies ==
  ASSUME NEW a, NEW e
  PROVE  RepliesOK(Advice!LoadedAt(a), e)
  <1>1. ASSUME NEW b \in Advice!Addresses
        PROVE  /\ Advice!NewEntry \in SigningP!EntryRecords(Replied(b, e))
               /\ Advice!Mount(Advice!NewEntry) \in SigningP!EntryRecords(Replied(b, e))
    <2>1. Advice!NewEntry \in SigningP!EntryRecords(Replied(b, e))
      BY AdviceNewEntry, Zenon
    <2>2. Advice!Mount(Advice!NewEntry) = SigningP!Mount(Advice!NewEntry)
      BY DEF Advice!Mount, SigningP!Mount, Advice!Cancel, SigningP!Cancel
    <2> QED BY <2>1, <2>2, SigningP!MountType
  <1> QED BY <1>1 DEF Advice!LoadedAt, RepliesOK

LEMMA OpenAddressKeeps ==
  ASSUME AdviceInv, MaxMoves \in Nat, NEW a \in Advice!Addresses, Advice!OpenAddress(a)
  PROVE  AdviceInv'
  <1>1. /\ moves < MaxMoves /\ moves' = moves + 1 /\ address' = a /\ estate' = estate
        /\ brought' = (a.page # 1) /\ selectedRow' = NoRow
    BY Zenon DEF Advice!OpenAddress
  <1>2. answers' = Advice!LoadedAt(a) /\ hideSuppressed' = FALSE /\ groupByPackage' = TRUE
    BY Zenon DEF Advice!OpenAddress
  <1>3. RepliesOK(answers', estate)
    BY <1>2, LoadedReplies
  <1>4. CollapsedOK(collapsed')
    BY DEF Advice!OpenAddress, CollapsedOK
  <1>5. hideSuppressed' \in SigningP!Flags /\ groupByPackage' \in SigningP!Flags
    BY <1>2, SigningP!FlagsHave, Zenon
  <1>6. brought' \in SigningP!Flags /\ Begun(estate, a, brought')
    BY <1>1 DEF Begun, SigningP!Flags
  <1>7. moves' \in 0 .. MaxMoves
    BY <1>1 DEF AdviceInv
  <1> QED BY <1>1, <1>3, <1>4, <1>5, <1>6, <1>7 DEF AdviceInv

LEMMA AdviceSteps ==
  ASSUME Advice!RecommendationsAssumption, Served = Advice!Replies, AdviceInv, Advice!Next
  PROVE  AdviceInv'
  <1>1. Advice!PackagesAssumption /\ MaxMoves \in Nat
    BY DEF Advice!RecommendationsAssumption
  <1>2. ASSUME NEW m \in MinSavings, Advice!ApplySearchFilters(m) PROVE AdviceInv'
    BY <1>1, <1>2, FiltersKeep
  <1>3. ASSUME NEW o \in Advice!Orders, Advice!ChooseOrder(o) PROVE AdviceInv'
    BY <1>1, <1>3, OrderKeeps
  <1>4. CASE Advice!CloseDrawer \/ \E r \in Rows : Advice!OpenRecommendation(r)
    BY <1>1, <1>4, DrawerKeeps
  <1>5. ASSUME NEW g \in DOMAIN collapsed, Advice!ToggleGroupCollapsed(g) PROVE AdviceInv'
    BY <1>5, FoldKeeps
  <1>6. ASSUME NEW n \in DOMAIN Estates, Advice!Publish(n) PROVE AdviceInv'
    BY <1>1, <1>6, PublishKeeps
  <1>7. ASSUME NEW a \in Advice!Addresses, Advice!ReadAnswer(a) \/ Advice!DeliverAnswer(a) PROVE AdviceInv'
    BY <1>1, <1>7, ReadKeeps, ReplyKeeps
  <1>8. ASSUME NEW a \in Advice!Addresses, Advice!OpenAddress(a) PROVE AdviceInv'
    BY <1>1, <1>8, OpenAddressKeeps
  <1>9. CASE Advice!TurnPage
    BY <1>1, <1>9, TurnKeeps
  <1>10. CASE Advice!HideSuppressed \/ Advice!GroupByPackage \/ Advice!TogglePrimaryOwnersMode
    BY <1>1, <1>10, ViewKeeps
  <1>11. CASE Advice!Retry
    BY <1>11, RetryKeeps
  <1> QED BY <1>2, <1>3, <1>4, <1>5, <1>6, <1>7, <1>8, <1>9, <1>10, <1>11 DEF Advice!Next

LEMMA InitAdvice ==
  ASSUME Advice!RecommendationsAssumption, Advice!Init
  PROVE  AdviceInv
  <1>1. Advice!PackagesAssumption /\ MaxMoves \in Nat
    BY DEF Advice!RecommendationsAssumption
  <1>2. 1 \in DOMAIN Estates
    BY <1>1 DEF Advice!PackagesAssumption
  <1>3. Advice!FirstAddress \in Advice!Addresses /\ Advice!FirstAddress.page = 1
    <2>1. Limit \in Nat \ {0} /\ Cardinality(Rows) \in Nat /\ Cardinality(Rows) # 0 /\ 0 \in MinSavings
      BY <1>1, RowsAre
    <2>2. /\ (Cardinality(Rows) + Limit - 1) \div Limit \in Nat
          /\ 1 <= (Cardinality(Rows) + Limit - 1) \div Limit
      BY <2>1, PagesOf, MorePages
    <2>3. 1 \in Advice!Pages
      BY <2>2, PagesAre
    <2> QED BY <2>1, <2>3 DEF Advice!FirstAddress, Advice!Addresses, Advice!Orders
  <1>4. RepliesOK(answers, 1)
    <2>1. answers = Advice!LoadedAt(Advice!FirstAddress)
      BY Zenon DEF Advice!Init
    <2> QED BY <2>1, LoadedReplies
  <1>5. CollapsedOK(collapsed)
    BY DEF Advice!Init, CollapsedOK
  <1>6. /\ estate = 1 /\ address = Advice!FirstAddress /\ selectedRow = NoRow /\ moves \in 0 .. MaxMoves
        /\ hideSuppressed \in SigningP!Flags /\ groupByPackage \in SigningP!Flags
        /\ brought \in SigningP!Flags
    <2>1. /\ estate = 1 /\ address = Advice!FirstAddress /\ selectedRow = NoRow /\ moves = 0
          /\ hideSuppressed = FALSE /\ groupByPackage = TRUE /\ brought = FALSE
      BY Zenon DEF Advice!Init
    <2>2. 0 \in 0 .. MaxMoves
      BY <1>1
    <2> QED BY ONLY <2>1, <2>2, SigningP!FlagsHave, Zenon
  <1>7. Begun(estate, address, brought)
    BY <1>3, <1>6 DEF Begun
  <1> QED BY <1>2, <1>3, <1>4, <1>5, <1>6, <1>7 DEF AdviceInv

LEMMA AdviceKept ==
  ASSUME Advice!RecommendationsAssumption, AdviceInv
  PROVE  Advice!NoneMeansNone
  <1> SUFFICES ASSUME answers[address].data # NoData, Advice!Shown = {}
               PROVE  Advice!Items(answers[address]) = {} /\ (Advice!TotalRows = 0 \/ estate # 1 \/ brought)
    BY DEF Advice!NoneMeansNone
  <1> DEFINE d == answers[address].data
  <1>1. Advice!PackagesAssumption /\ estate \in DOMAIN Estates /\ address \in Advice!Addresses
    BY DEF Advice!RecommendationsAssumption, AdviceInv
  <1>2. d \in Replied(address, estate)
    BY <1>1 DEF AdviceInv, RepliesOK, SigningP!EntryRecords
  <1>3. Advice!Items(answers[address]) = d.items /\ Advice!TotalRows = d.total
    BY DEF Advice!Items, Advice!TotalRows
  <1>4. Advice!Visible(d.items, hideSuppressed) = {}
    BY <1>3 DEF Advice!Shown
  <1>5. address.page \in Nat \ {0}
    BY <1>1, AddressesHave
  <1> HIDE DEF d
  <1>6. /\ d.items = {}
        /\ estate = 1 => (Cardinality(Advice!Matching(Estates[1], address)) = d.total
                          /\ ~((address.page - 1) * Limit < d.total))
    BY <1>1, <1>2, <1>4, <1>5, EmptyPage
  <1>7. CASE estate = 1 /\ ~brought
    <2>1. d.total \in Nat /\ Limit \in Nat \ {0}
      BY <1>1, <1>6, <1>7, RowsAre, MatchingType
    <2>2. address.page = 1
      BY <1>6, <1>7 DEF AdviceInv, Begun
    <2>3. (address.page - 1) * Limit = 0
      BY <2>1, <2>2
    <2> QED BY <1>3, <1>6, <1>7, <2>1, <2>3
  <1>8. CASE estate # 1 \/ brought
    BY <1>3, <1>6, <1>8
  <1> QED BY <1>7, <1>8

LEMMA AdviceTypes ==
  ASSUME AdviceInv
  PROVE  Advice!TypeOK
  <1>1. /\ brought \in BOOLEAN /\ hideSuppressed \in BOOLEAN /\ groupByPackage \in BOOLEAN
        /\ \A g \in DOMAIN collapsed : collapsed[g] \in BOOLEAN
    BY DEF AdviceInv, CollapsedOK, SigningP!Flags
  <1>2. /\ estate \in DOMAIN Estates /\ DOMAIN answers = Advice!Addresses /\ address \in Advice!Addresses
        /\ DOMAIN collapsed \subseteq Resources \X {"package"} \cup Rows \X {"item"}
        /\ selectedRow \in Rows \cup {NoRow} /\ moves \in 0 .. MaxMoves
    BY DEF AdviceInv, RepliesOK, CollapsedOK, GroupKeys
  <1> QED BY ONLY <1>1, <1>2, Zenon DEF Advice!TypeOK

-----------------------------------------------------------------------------
(* What the rows of a page save.                                              *)

\* The sums of the endpoint and of its page.
LEMMA TotalIs ==
  ASSUME NEW S, Summable([i \in S |-> i.effective], S)
  PROVE  Advice!Total(S) = Sum([i \in S |-> i.effective], S)
  <1> DEFINE J == CHOOSE J : J = [s \in SUBSET S |-> IF s = {} THEN 0
                    ELSE (CHOOSE i \in s : TRUE).effective + J[s \ {CHOOSE i \in s : TRUE}]]
  <1>1. PICK I : Recurs(I, [i \in S |-> i.effective], S)
    BY SumRecurs
  <1>2. I = [s \in SUBSET S |-> IF s = {} THEN 0
               ELSE (CHOOSE i \in s : TRUE).effective + I[s \ {CHOOSE i \in s : TRUE}]]
    BY <1>1, Zenon DEF Recurs
  <1>3. J = [s \in SUBSET S |-> IF s = {} THEN 0
               ELSE (CHOOSE i \in s : TRUE).effective + J[s \ {CHOOSE i \in s : TRUE}]]
    BY <1>2, Zenon
  <1>4. Advice!Total(S) = J[S]
    BY DEF Advice!Total, Advice!MapThenSumSet, Advice!MapThenFoldSet
  <1>5. Recurs(J, [i \in S |-> i.effective], S)
    BY <1>3 DEF Recurs
  <1> QED BY <1>4, <1>5, SumIs

LEMMA RawIs ==
  ASSUME NEW S, Summable([i \in S |-> i.raw], S)
  PROVE  Advice!MapThenSumSet(LAMBDA i : i.raw, S) = Sum([i \in S |-> i.raw], S)
  <1> DEFINE J == CHOOSE J : J = [s \in SUBSET S |-> IF s = {} THEN 0
                    ELSE (CHOOSE i \in s : TRUE).raw + J[s \ {CHOOSE i \in s : TRUE}]]
  <1>1. PICK I : Recurs(I, [i \in S |-> i.raw], S)
    BY SumRecurs
  <1>2. I = [s \in SUBSET S |-> IF s = {} THEN 0
               ELSE (CHOOSE i \in s : TRUE).raw + I[s \ {CHOOSE i \in s : TRUE}]]
    BY <1>1, Zenon DEF Recurs
  <1>3. J = [s \in SUBSET S |-> IF s = {} THEN 0
               ELSE (CHOOSE i \in s : TRUE).raw + J[s \ {CHOOSE i \in s : TRUE}]]
    BY <1>2, Zenon
  <1>4. Advice!MapThenSumSet(LAMBDA i : i.raw, S) = J[S]
    BY DEF Advice!MapThenSumSet, Advice!MapThenFoldSet
  <1>5. Recurs(J, [i \in S |-> i.raw], S)
    BY <1>3 DEF Recurs
  <1> QED BY <1>4, <1>5, SumIs

LEMMA SavingsAre ==
  ASSUME NEW S, Summable(Savings, S)
  PROVE  Advice!MapThenSumSet(LAMBDA s : Savings[s], S) = Sum(Savings, S)
  <1> DEFINE J == CHOOSE J : Recurs(J, Savings, S)
  <1>1. Recurs(J, Savings, S)
    BY SumRecurs, Zenon
  <1>2. Advice!MapThenSumSet(LAMBDA s : Savings[s], S) = J[S]
    BY DEF Advice!MapThenSumSet, Advice!MapThenFoldSet, Recurs
  <1> QED BY <1>1, <1>2, SumIs

LEMMA GroupTotalsAre ==
  ASSUME NEW items, NEW S, NEW F, F = [g \in S |-> Advice!Total(Advice!Members(items, g))], Summable(F, S)
  PROVE  Advice!MapThenSumSet(LAMBDA g : Advice!Total(Advice!Members(items, g)), S) = Sum(F, S)
  <1> DEFINE total(g) == Advice!Total(Advice!Members(items, g))
             J == CHOOSE J : J = [s \in SUBSET S |-> IF s = {} THEN 0
                    ELSE total(CHOOSE g \in s : TRUE) + J[s \ {CHOOSE g \in s : TRUE}]]
  <1>1. PICK I : Recurs(I, F, S)
    BY SumRecurs
  <1>2. I = [s \in SUBSET S |-> IF s = {} THEN 0
               ELSE total(CHOOSE g \in s : TRUE) + I[s \ {CHOOSE g \in s : TRUE}]]
    BY <1>1, Zenon DEF Recurs
  <1>3. J = [s \in SUBSET S |-> IF s = {} THEN 0
               ELSE total(CHOOSE g \in s : TRUE) + J[s \ {CHOOSE g \in s : TRUE}]]
    BY <1>2, Zenon
  <1>4. Advice!MapThenSumSet(LAMBDA g : Advice!Total(Advice!Members(items, g)), S) = J[S]
    BY DEF Advice!MapThenSumSet, Advice!MapThenFoldSet
  <1>5. Recurs(J, F, S)
    BY <1>3 DEF Recurs
  <1> QED BY <1>4, <1>5, SumIs

SavingsOf(C) == Advice!MapThenSumSet(LAMBDA s : Savings[s], C)

LEMMA ItemSaves ==
  ASSUME NEW c, NEW P, NEW r
  PROVE  LET C == Advice!ClusterRows(c, P, r)
         IN  /\ Advice!Item(c, P, r).raw = Savings[r]
             /\ Advice!Item(c, P, r).effective =
                  IF r # Advice!ChooseClusterOwner(C) THEN 0 ELSE SavingsOf(C)
  BY Zenon DEF Advice!Item, SavingsOf

RawOf(items) == [i \in items |-> i.raw]
EffectiveOf(items) == [i \in items |-> i.effective]

\* The items of a page, with what its rows save and with what its owners have.
LEMMA ItemsSave ==
  ASSUME Advice!PackagesAssumption, NEW e, NEW P \in SUBSET Rows, NEW c,
         c = Advice!ClusterPackageRows(e, P), NEW items, items = {Advice!Item(c, P, r) : r \in P},
         NEW hidden \in SigningP!Flags
  PROVE  LET shown == Advice!Visible(items, hidden)
         IN  /\ Summable(RawOf(items), items) /\ Sum(RawOf(items), items) = Sum(Savings, P)
             /\ Summable(EffectiveOf(shown), shown) /\ Sum(EffectiveOf(shown), shown) = Sum(Savings, P)
  <1> DEFINE item == [r \in P |-> Advice!Item(c, P, r)]
             owner == [r \in P |-> Advice!ChooseClusterOwner(Advice!ClusterRows(c, P, r))]
             owning == [r \in P |-> item[owner[r]]]
             shown == Advice!Visible(items, hidden)
  <1>1. Summable(Savings, P)
    <2>1. IsFiniteSet(P)
      BY RowsAre, FS_Subset
    <2>2. \A r \in P : Savings[r] \in Nat
      BY DEF Advice!PackagesAssumption
    <2> QED BY <2>1, <2>2 DEF Summable
  <1>2. items = {item[r] : r \in P} /\ IsFiniteSet(items)
    <2>1. items = {item[r] : r \in P}
      OBVIOUS
    <2> HIDE DEF item
    <2>2. IsFiniteSet({item[r] : r \in P})
      BY <1>1, ValuesFinite DEF Summable
    <2> QED BY <2>1, <2>2
  <1>3. ASSUME NEW r \in P
        PROVE  /\ owner[r] \in P /\ owner[r] \in Advice!ClusterRows(c, P, r)
               /\ r \in Advice!ClusterRows(c, P, r) /\ Advice!ClusterRows(c, P, r) \subseteq P
               /\ \A s \in Advice!ClusterRows(c, P, r) : owner[s] = owner[r]
    <2>1. r \in Advice!ClusterRows(c, P, r) /\ Advice!ClusterRows(c, P, r) \subseteq P
      BY ClustersAre
    <2>2. owner[r] \in Advice!ClusterRows(c, P, r)
      <3> DEFINE C == Advice!ClusterRows(c, P, r)
      <3>1. C \in SUBSET Rows /\ C # {}
        BY <2>1
      <3> HIDE DEF C
      <3>2. Advice!ChooseClusterOwner(C) \in C
        BY <3>1, OwnerAmong
      <3> QED BY <3>2 DEF C
    <2>3. ASSUME NEW s \in Advice!ClusterRows(c, P, r) PROVE owner[s] = owner[r]
      <3>1. s \in P
        BY <2>1
      <3>2. Advice!ClusterRows(c, P, s) = Advice!ClusterRows(c, P, r)
        BY <3>1, PackagesPart
      <3> QED BY <3>1, <3>2
    <2> QED BY <2>1, <2>2, <2>3
  <1>4. ASSUME NEW r \in P
        PROVE  /\ item[r].row = r /\ item[r].raw = Savings[r]
               /\ item[r].owner = (r = owner[r])
               /\ item[r].effective = IF r # owner[r] THEN 0 ELSE SavingsOf(Advice!ClusterRows(c, P, r))
    <2>1. item[r] = Advice!Item(c, P, r) /\ owner[r] = Advice!ChooseClusterOwner(Advice!ClusterRows(c, P, r))
      OBVIOUS
    <2> HIDE DEF item, owner
    <2>2. /\ Advice!Item(c, P, r).row = r
          /\ Advice!Item(c, P, r).owner = (r = Advice!ChooseClusterOwner(Advice!ClusterRows(c, P, r)))
      BY ItemIs
    <2>3. /\ Advice!Item(c, P, r).raw = Savings[r]
          /\ Advice!Item(c, P, r).effective =
               IF r # Advice!ChooseClusterOwner(Advice!ClusterRows(c, P, r)) THEN 0
               ELSE SavingsOf(Advice!ClusterRows(c, P, r))
      BY ItemSaves
    <2> QED BY <2>1, <2>2, <2>3, Zenon
  <1> HIDE DEF item, owner
  <1>5. Summable(RawOf(items), items) /\ Sum(RawOf(items), items) = Sum(Savings, P)
    <2>1. \A r \in P : item[r] \in items
      BY <1>2
    <2>2. /\ Summable(Parts(Savings, item, P, items), items)
          /\ Sum(Parts(Savings, item, P, items), items) = Sum(Savings, P)
      BY <1>1, <1>2, <2>1, SumOfParts
    <2>3. ASSUME NEW i \in items PROVE RawOf(items)[i] = Parts(Savings, item, P, items)[i]
      <3>1. PICK r \in P : i = item[r]
        BY <1>2
      <3>2. Fiber(item, P, i) = {r}
        <4>1. \A s \in P : item[s] = i => s = r
          BY <1>4, <3>1
        <4> QED BY <3>1, <4>1 DEF Fiber
      <3>3. Sum(Savings, {r}) = Savings[r]
        BY <1>1, SumSingle DEF Summable
      <3>4. i.raw = Savings[r]
        BY <1>4, <3>1
      <3> QED BY <3>2, <3>3, <3>4 DEF RawOf, Parts
    <2> QED BY <2>2, <2>3, SumSame
  <1>6. Summable(EffectiveOf(shown), shown) /\ Sum(EffectiveOf(shown), shown) = Sum(Savings, P)
    <2>1. shown \in SUBSET items /\ IsFiniteSet(shown)
      <3>1. shown \in SUBSET items
        BY DEF Advice!Visible
      <3> QED BY <1>2, <3>1, FS_Subset
    <2>2. \A r \in P : owning[r] \in shown
      <3> SUFFICES ASSUME NEW r \in P PROVE owning[r] \in shown
        OBVIOUS
      <3>1. owner[r] \in P /\ owner[owner[r]] = owner[r]
        BY <1>3
      <3>2. item[owner[r]].owner = (owner[r] = owner[owner[r]])
        BY <1>4, <3>1
      <3>3. item[owner[r]].owner
        BY <3>1, <3>2
      <3> QED BY <1>2, <3>1, <3>3 DEF Advice!Visible
    <2> HIDE DEF shown
    <2>3. /\ Summable(Parts(Savings, owning, P, shown), shown)
          /\ Sum(Parts(Savings, owning, P, shown), shown) = Sum(Savings, P)
      <3> HIDE DEF owning
      <3> QED BY <1>1, <2>1, <2>2, SumOfParts
    <2>4. ASSUME NEW i \in shown
          PROVE  EffectiveOf(shown)[i] = Parts(Savings, owning, P, shown)[i]
      <3>1. PICK r \in P : i = item[r]
        BY <1>2, <2>1
      <3>2. \A s \in P : owning[s] = i <=> owner[s] = r
        BY <1>3, <1>4, <3>1
      <3>3. Parts(Savings, owning, P, shown)[i] = Sum(Savings, {s \in P : owner[s] = r})
        <4>1. Fiber(owning, P, i) = {s \in P : owner[s] = r}
          BY <3>2 DEF Fiber
        <4> QED BY <4>1 DEF Parts
      <3>4. CASE r # owner[r]
        <4>1. {s \in P : owner[s] = r} = {}
          BY <1>3, <3>4
        <4>2. Sum(Savings, {}) = 0
          BY <1>1, SumFacts
        <4>3. i.effective = 0
          BY <1>4, <3>1, <3>4
        <4> QED BY <3>3, <4>1, <4>2, <4>3 DEF EffectiveOf
      <3>5. CASE r = owner[r]
        <4> DEFINE C == Advice!ClusterRows(c, P, r)
        <4>1. {s \in P : owner[s] = r} = C
          <5>1. \A s \in C : s \in P /\ owner[s] = r
            BY <1>3, <3>5
          <5>2. ASSUME NEW s \in P, owner[s] = r PROVE s \in C
            <6>1. r \in Advice!ClusterRows(c, P, s) /\ s \in Advice!ClusterRows(c, P, s)
              BY <1>3, <5>2
            <6>2. Advice!ClusterRows(c, P, r) = Advice!ClusterRows(c, P, s)
              BY <6>1, PackagesPart
            <6> QED BY <6>1, <6>2
          <5> HIDE DEF C
          <5> QED BY <5>1, <5>2
        <4>2. Summable(Savings, C)
          <5>1. C \in SUBSET P
            BY <1>3
          <5> QED BY <1>1, <5>1, SumFacts
        <4> HIDE DEF C
        <4>3. SavingsOf(C) = Sum(Savings, C)
          BY <4>2, SavingsAre, Zenon DEF SavingsOf
        <4>4. i.effective = SavingsOf(C)
          BY <1>4, <3>1, <3>5 DEF C
        <4> QED BY <3>3, <4>1, <4>3, <4>4 DEF EffectiveOf
      <3> QED BY <3>4, <3>5
    <2> QED BY <2>3, <2>4, SumSame
  <1> QED BY <1>5, <1>6 DEF shown

\* The totals of the groups add up to the total of what is shown.
LEMMA GroupsSave ==
  ASSUME NEW shown, Summable(EffectiveOf(shown), shown)
  PROVE  /\ Advice!Total(shown) = Sum(EffectiveOf(shown), shown)
         /\ Advice!MapThenSumSet(LAMBDA g : Advice!Total(Advice!Members(shown, g)), Advice!Groups(shown))
              = Sum(EffectiveOf(shown), shown)
  <1> DEFINE f == EffectiveOf(shown)
             key == [i \in shown |-> Advice!GroupKey(i)]
             groups == Advice!Groups(shown)
             totals == [g \in groups |-> Advice!Total(Advice!Members(shown, g))]
  <1>1. Advice!Total(shown) = Sum(f, shown)
    BY TotalIs DEF EffectiveOf
  <1>2. groups = {key[i] : i \in shown} /\ IsFiniteSet(groups)
    <2>1. groups = {key[i] : i \in shown}
      BY DEF Advice!Groups
    <2> HIDE DEF key
    <2>2. IsFiniteSet({key[i] : i \in shown})
      BY ValuesFinite DEF Summable
    <2> QED BY <2>1, <2>2
  <1>3. \A i \in shown : key[i] \in groups
    BY <1>2
  <1>4. ASSUME NEW g \in groups PROVE totals[g] = Parts(f, key, shown, groups)[g]
    <2> DEFINE M == Advice!Members(shown, g)
    <2>1. M = Fiber(key, shown, g) /\ M \in SUBSET shown
      BY DEF Advice!Members, Fiber
    <2> HIDE DEF M, key
    <2>2. Summable(f, M)
      BY <2>1, SumFacts
    <2>3. \A i \in M : EffectiveOf(M)[i] = f[i]
      BY <2>1 DEF EffectiveOf
    <2>4. Summable(EffectiveOf(M), M) /\ Sum(EffectiveOf(M), M) = Sum(f, M)
      BY <2>2, <2>3, SumSame
    <2>5. Advice!Total(M) = Sum(f, M)
      BY <2>4, TotalIs DEF EffectiveOf
    <2> QED BY <2>1, <2>5 DEF M, Parts
  <1> HIDE DEF f, key, groups
  <1>5. /\ Summable(Parts(f, key, shown, groups), groups)
        /\ Sum(Parts(f, key, shown, groups), groups) = Sum(f, shown)
    BY <1>2, <1>3, SumOfParts DEF f
  <1> HIDE DEF totals
  <1>6. Summable(totals, groups) /\ Sum(totals, groups) = Sum(f, shown)
    BY <1>4, <1>5, SumSame
  <1>7. Advice!MapThenSumSet(LAMBDA g : Advice!Total(Advice!Members(shown, g)), groups) = Sum(totals, groups)
    BY <1>6, GroupTotalsAre, Zenon DEF totals
  <1>8. Advice!MapThenSumSet(LAMBDA g : Advice!Total(Advice!Members(shown, g)), groups) = Sum(f, shown)
    BY <1>6, <1>7, Zenon
  <1> QED BY <1>1, <1>8, Zenon DEF f, groups

LEMMA AdviceSaves ==
  ASSUME Advice!RecommendationsAssumption, AdviceInv
  PROVE  Advice!SavingsCountedOnce
  <1> DEFINE items == Advice!Items(answers[address])
             shown == Advice!Shown
  <1>0. shown = Advice!Visible(items, hideSuppressed)
    BY DEF Advice!Shown
  <1>1. /\ Advice!PackagesAssumption /\ estate \in DOMAIN Estates /\ address \in Advice!Addresses
        /\ hideSuppressed \in SigningP!Flags
    BY DEF Advice!RecommendationsAssumption, AdviceInv
  <1>2. \E P \in SUBSET Rows : \E c, e :
          /\ c = Advice!ClusterPackageRows(e, P) /\ items = {Advice!Item(c, P, r) : r \in P}
    <2>1. CASE answers[address].data = NoData
      <3>1. items = {}
        BY <2>1 DEF Advice!Items
      <3> QED BY <3>1
    <2>2. CASE answers[address].data # NoData
      <3>1. answers[address].data \in Replied(address, estate)
        BY <1>1, <2>2 DEF AdviceInv, RepliesOK, SigningP!EntryRecords
      <3>2. PICK n \in DOMAIN Estates : ReplyOf(answers[address].data, n, address)
        BY <1>1, <3>1, RepliedType
      <3>3. Advice!PageRows(Estates[n], address) \in SUBSET Rows
        BY <1>1, MatchingType
      <3> QED BY <2>2, <3>2, <3>3 DEF Advice!Items, ReplyOf
    <2> QED BY <2>1, <2>2
  <1>3. PICK P \in SUBSET Rows : \E c, e :
          c = Advice!ClusterPackageRows(e, P) /\ items = {Advice!Item(c, P, r) : r \in P}
    BY <1>2
  <1> HIDE DEF items, shown
  <1>4. /\ Summable(RawOf(items), items) /\ Sum(RawOf(items), items) = Sum(Savings, P)
        /\ Summable(EffectiveOf(shown), shown) /\ Sum(EffectiveOf(shown), shown) = Sum(Savings, P)
    BY <1>1, <1>3, <1>0, ItemsSave
  <1>5. Advice!MapThenSumSet(LAMBDA i : i.raw, items) = Sum(Savings, P)
    <2>1. Advice!MapThenSumSet(LAMBDA i : i.raw, items) = Sum(RawOf(items), items)
      BY <1>4, RawIs, Zenon DEF RawOf
    <2> QED BY <1>4, <2>1, Zenon
  <1>6. /\ Advice!Total(shown) = Sum(Savings, P)
        /\ Advice!MapThenSumSet(LAMBDA g : Advice!Total(Advice!Members(shown, g)), Advice!Groups(shown))
             = Sum(Savings, P)
    BY <1>4, GroupsSave, Zenon
  <1> QED BY <1>5, <1>6, Zenon DEF Advice!SavingsCountedOnce, items, shown

-----------------------------------------------------------------------------
(* The types of the console.                                                 *)

Addresses == [Queries!Params -> Values \cup Choices]

QueriesTyped ==
  /\ rights \subseteq Queries!Rights /\ page \in Queries!AllPages \cup {NoPage}
  /\ hook \in Queries!Hooks /\ url \in Addresses /\ turns \in 0 .. MaxTurns

\* What is on its way was asked for.
Sent(st) == \A k \in DOMAIN st : st[k].entry.busy => st[k].sent # NoAnswer

LEMMA QuestionIs ==
  ASSUME Queries!QueriesAssumption, NEW h \in Queries!Hooks, NEW u \in Addresses
  PROVE  Queries!Question(h, u) # NoAnswer
  <1>1. h.asks \subseteq Queries!Params
    BY DEF Queries!Params
  <1>2. [p \in h.asks |-> u[p]] \in [h.asks -> Values \cup Choices]
    BY <1>1 DEF Addresses
  <1>3. Queries!Question(h, u) \in [name : {h.name}, asked : [h.asks -> Values \cup Choices]]
    BY <1>2 DEF Queries!Question
  <1> QED BY <1>3 DEF Queries!QueriesAssumption

LEMMA FollowedSent ==
  ASSUME Queries!QueriesAssumption, NEW st, Sent(st), hook' \in Queries!Hooks, NEW u \in Addresses
  PROVE  Sent(Queries!Followed(st, u))
  <1> DEFINE k == Queries!Key(hook', u)
             q == Queries!Question(hook', u)
             old == Queries!Stored(st, k)
             asked == IF old.entry.busy THEN old.sent ELSE q
             slot == [entry |-> Queries!Mount(old.entry), sent |-> asked]
             now == Queries!Fetched(st, hook', u)
  <1>1. now = [x \in DOMAIN st \cup {k} |-> IF x = k THEN slot ELSE st[x]]
    BY DEF Queries!Fetched
  <1>2. asked # NoAnswer
    <2>1. CASE k \in DOMAIN st
      <3>1. old = st[k]
        BY <2>1 DEF Queries!Stored
      <3>2. q # NoAnswer
        BY QuestionIs
      <3> HIDE DEF k, q, old
      <3> QED BY <2>1, <3>1, <3>2 DEF Sent
    <2>2. CASE k \notin DOMAIN st
      <3>1. old.entry = Queries!NewEntry
        BY <2>2 DEF Queries!Stored
      <3>2. ~old.entry.busy
        BY <3>1 DEF Queries!NewEntry
      <3>3. q # NoAnswer
        BY QuestionIs
      <3> HIDE DEF q, old
      <3> QED BY <3>2, <3>3
    <2> QED BY <2>1, <2>2
  <1>3. slot.sent = asked
    OBVIOUS
  <1> HIDE DEF k, q, old, asked, slot, now
  <1>4. Sent(now)
    BY <1>1, <1>2, <1>3 DEF Sent
  <1> QED BY <1>4 DEF Queries!Followed, now

LEMMA AnswerSent ==
  ASSUME Sent(store), NEW k \in DOMAIN store, Queries!AnswerQuery(k)
  PROVE  Sent(store')
  <1>1. PICK answer :
          store' = [store EXCEPT ![k].entry = Queries!Deliver(Queries!Answer(@, answer))]
    BY DEF Queries!AnswerQuery
  <1>2. store[k].sent # NoAnswer
    BY DEF Queries!AnswerQuery, Sent
  <1> DEFINE e == Queries!Deliver(Queries!Answer(store[k].entry, answer))
  <1>3. store' = [store EXCEPT ![k] = [store[k] EXCEPT !.entry = e]]
    BY <1>1
  <1> HIDE DEF e
  <1> DEFINE s == [store[k] EXCEPT !.entry = e]
  <1>4. s.sent = store[k].sent
    OBVIOUS
  <1> HIDE DEF s
  <1> QED BY <1>2, <1>3, <1>4 DEF Sent, s

LEMMA AddressesAre ==
  ASSUME Queries!QueriesAssumption, NEW u \in Addresses
  PROVE  /\ Queries!Plain \in Addresses /\ \A h : Queries!Kept(h) \in Addresses
         /\ Queries!FirstPage(u) \in Addresses
         /\ \A v \in Values : [u EXCEPT !["offset"] = v] \in Addresses
  <1>1. "" \in Values /\ "x" \in Values
    BY DEF Queries!QueriesAssumption
  <1>2. Queries!Plain \in Addresses /\ \A h : Queries!Kept(h) \in Addresses
    BY <1>1 DEF Queries!Plain, Queries!Kept, Addresses
  <1>3. \A v \in Values : [u EXCEPT !["offset"] = v] \in Addresses
    BY DEF Addresses
  <1> QED BY <1>1, <1>2, <1>3 DEF Queries!FirstPage

LEMMA WrittenType ==
  ASSUME url \in Addresses, NEW S, NEW v, \A p \in S \cap Queries!Params : v[p] \in Values \cup Choices
  PROVE  Queries!Written(S, v) \in Addresses
  BY DEF Queries!Written, Addresses

\* A page that the tab is on asks nothing but queries of the console.
LEMMA QueriesOf ==
  ASSUME NEW p \in Queries!AllPages, NEW h \in Queries!Queries(p)
  PROVE  h \in Queries!Hooks
  BY DEF Queries!Hooks

LEMMA NextTurn ==
  ASSUME NEW n \in Nat, NEW t \in 0 .. n, NEW s, t < n, s = t + 1
  PROVE  s \in 0 .. n
  OBVIOUS

LEMMA QueriesTypes ==
  ASSUME Queries!QueriesAssumption, QueriesTyped, Sent(store), Queries!Next
  PROVE  QueriesTyped' /\ Sent(store')
  <1> USE DEF QueriesTyped
  <1>1. MaxTurns \in Nat /\ "" \in Values /\ \A R \in Profiles : R \subseteq Queries!Rights
    BY DEF Queries!QueriesAssumption
  <1>0. MaxTurns \in Nat
    BY <1>1
  <1>10. MaxTurns \in 0 .. MaxTurns
    BY ONLY <1>0
  <1>11. turns \in 0 .. MaxTurns
    OBVIOUS
  <1>2. ASSUME NEW h \in Queries!Hooks, NEW p \in Queries!AllPages, Queries!EnterConsole(p, h)
        PROVE  QueriesTyped' /\ Sent(store')
    <2>1. /\ page' = p /\ hook' = h /\ url' \in {Queries!Plain, Queries!Kept(h)}
          /\ rights' = rights /\ turns' = turns /\ store' = Queries!Followed(store, url')
      BY <1>2 DEF Queries!EnterConsole
    <2>2. url' \in Addresses
      BY <2>1, AddressesAre
    <2> QED BY <2>1, <2>2, FollowedSent
  <1>3. ASSUME NEW h \in Queries!Hooks, NEW p \in Queries!AllPages, Queries!GoTo(p, h)
        PROVE  QueriesTyped' /\ Sent(store')
    <2>1. /\ page' = p /\ hook' = h /\ url' = Queries!Plain
          /\ rights' = rights /\ turns' = MaxTurns /\ store' = Queries!Followed(store, url')
      BY <1>3 DEF Queries!GoTo, Queries!MayTurn
    <2>2. url' \in Addresses
      BY <2>1, AddressesAre
    <2> QED BY <1>1, <1>10, <2>1, <2>2, FollowedSent
  <1>4. ASSUME NEW R \in Profiles, Queries!LearnRights(R)
        PROVE  QueriesTyped' /\ Sent(store')
    <2>1. /\ rights' = R /\ page' = page /\ hook' = hook /\ url' = url /\ turns' = turns
          /\ store' = Queries!Followed(store, url)
      BY <1>4 DEF Queries!LearnRights
    <2> QED BY <1>1, <2>1, FollowedSent
  <1>5. ASSUME NEW S, Queries!PushWithParams(S)
        PROVE  QueriesTyped' /\ Sent(store')
    <2>1. /\ rights' = rights /\ page' = page /\ hook' = hook /\ turns' = MaxTurns
      BY <1>5 DEF Queries!PushWithParams, Queries!MayTurn
    <2>2. PICK v \in [S -> Values] :
            LET u == Queries!Written(S, v)
            IN  /\ url' = IF Queries!Paged(page) THEN Queries!FirstPage(u) ELSE u
                /\ store' = IF page = "tenant_admin"
                            THEN Queries!Followed(Queries!Followed(store, u), url')
                            ELSE Queries!Followed(store, url')
      BY <1>5 DEF Queries!PushWithParams
    <2> DEFINE u == Queries!Written(S, v)
    <2>3. u \in Addresses
      BY WrittenType
    <2> HIDE DEF u
    <2>4. url' \in Addresses
      BY <2>2, <2>3, AddressesAre DEF u
    <2>5. Sent(Queries!Followed(store, u))
      BY <2>1, <2>3, FollowedSent
    <2>6. /\ Sent(Queries!Followed(store, url'))
          /\ Sent(Queries!Followed(Queries!Followed(store, u), url'))
      BY <2>1, <2>4, <2>5, FollowedSent
    <2>7. Sent(store')
      BY <2>2, <2>6 DEF u
    <2> QED BY <1>10, <2>1, <2>4, <2>7
  <1>6. ASSUME NEW S, Queries!Clear(S)
        PROVE  QueriesTyped' /\ Sent(store')
    <2>1. /\ rights' = rights /\ page' = page /\ hook' = hook /\ turns' = MaxTurns
          /\ url' = Queries!Written(S, Queries!Plain) /\ store' = Queries!Followed(store, url')
      BY <1>6 DEF Queries!Clear, Queries!MayTurn
    <2>2. url' \in Addresses
      BY <1>1, <2>1, WrittenType DEF Queries!Plain
    <2> QED BY <1>1, <1>10, <2>1, <2>2, FollowedSent
  <1>7. ASSUME NEW item \in Choices \cup {""}, Queries!Select(item)
        PROVE  QueriesTyped' /\ Sent(store')
    <2>1. /\ rights' = rights /\ page' = page /\ hook' = hook
          /\ turns < MaxTurns /\ turns' = turns + 1 /\ page \in Queries!AllPages
          /\ url' = Queries!Written(Queries!Selections(page), [p \in Queries!Selected |-> item])
          /\ store' = Queries!Followed(store, url')
      BY <1>7 DEF Queries!Select
    <2>2. Queries!Selections(page) \subseteq Queries!Selected
      BY <2>1 DEF Queries!Selected
    <2>3. url' \in Addresses
      BY <1>1, <2>1, <2>2, WrittenType
    <2>4. turns' \in 0 .. MaxTurns
      <3>1. turns < MaxTurns /\ turns' = turns + 1
        BY <2>1
      <3> QED BY <1>0, <1>11, <3>1, NextTurn
    <2> QED BY <2>1, <2>3, <2>4, FollowedSent
  <1>8. ASSUME Queries!TurnPage
        PROVE  QueriesTyped' /\ Sent(store')
    <2>1. /\ rights' = rights /\ page' = page /\ hook' = hook /\ turns' = MaxTurns
          /\ \E v \in Values : url' = [url EXCEPT !["offset"] = v]
          /\ store' = Queries!Followed(store, url')
      BY <1>8 DEF Queries!TurnPage, Queries!MayTurn
    <2>2. url' \in Addresses
      BY <2>1, AddressesAre
    <2> QED BY <1>1, <1>10, <2>1, <2>2, FollowedSent
  <1>9. ASSUME NEW k \in DOMAIN store, Queries!AnswerQuery(k)
        PROVE  QueriesTyped' /\ Sent(store')
    <2>1. UNCHANGED <<rights, page, hook, url, turns>>
      BY <1>9 DEF Queries!AnswerQuery
    <2> QED BY <1>9, <2>1, AnswerSent
  <1> QED BY <1>2, <1>3, <1>4, <1>5, <1>6, <1>7, <1>8, <1>9 DEF Queries!Next

-----------------------------------------------------------------------------
(* The pages of a running console.                                           *)

\* A step of the console is a step of each page, or leaves it alone.
LEMMA PageSteps ==
  ASSUME [Next]_vars
  PROVE  /\ [TriageP!Next]_TriageP!vars
         /\ [TenantsP!Next]_TenantsP!vars
         /\ [SigningP!Next]_SigningP!vars
         /\ Directory!Next \/ UNCHANGED directoryVars
         /\ Advice!Next \/ UNCHANGED adviceVars
         /\ Queries!Next \/ UNCHANGED queriesVars
  <1>1. /\ Triage!Next \/ UNCHANGED triageVars
        /\ Tenants!Next \/ UNCHANGED tenantVars
        /\ Signing!Next \/ UNCHANGED signingVars
        /\ Directory!Next \/ UNCHANGED directoryVars
        /\ Advice!Next \/ UNCHANGED adviceVars
        /\ Queries!Next \/ UNCHANGED queriesVars
    BY DEF Next, Open, OnFindings, OnTenantAdmin, OnLogin, OnUsers, OnRecommendations,
         OnQueries, vars
  <1> QED BY <1>1, TriageSame, TenantsSame, SigningSame

LEMMA TenantsHold == Spec => []TenantsP!TenantInv
  <1>1. Init => TenantsP!TenantInv
    BY TenantsSame, TenantsP!InitInv DEF Init
  <1>2. TenantsP!TenantInv /\ [Next]_vars => TenantsP!TenantInv'
    BY TenantsSame, PageSteps, TenantsP!StepInv
  <1> QED BY <1>1, <1>2, PTL DEF Spec

LEMMA SigningHolds == Spec => []SigningP!SessionInv
  <1>1. Init => SigningP!SessionInv
    BY SigningSame, SigningP!InitInv DEF Init
  <1>2. SigningP!SessionInv /\ [Next]_vars => SigningP!SessionInv'
    BY SigningSame, PageSteps, SigningP!StepInv
  <1> QED BY <1>1, <1>2, PTL DEF Spec

LEMMA TriageHolds == Spec => []TriageP!PageInv
  <1>1. Init => TriageP!PageInv
    BY TriageSame, TriageP!InitPage DEF Init
  <1>2. TriageP!PageInv /\ [Next]_vars => TriageP!PageInv'
    BY TriageSame, PageSteps, TriageP!StepPage
  <1> QED BY <1>1, <1>2, PTL DEF Spec

LEMMA DirectoryHolds == Spec => []DirectoryInv
  <1>1. Init => DirectoryInv
    BY ConsoleAssumption, InitDirectory DEF Init
  <1>2. DirectoryInv /\ [Next]_vars => DirectoryInv'
    <2>1. [Next]_vars => Directory!Next \/ UNCHANGED directoryVars
      BY PageSteps
    <2>2. DirectoryInv /\ UNCHANGED directoryVars => DirectoryInv'
      BY DEF DirectoryInv, DirectoryTyped, DueFollowed, directoryVars, Directory!RoleAt
    <2> QED BY <2>1, <2>2, ConsoleAssumption, DirectorySteps
  <1> QED BY <1>1, <1>2, PTL DEF Spec

LEMMA AdviceHolds == Spec => []AdviceInv
  <1>1. Advice!RecommendationsAssumption /\ Served = Advice!Replies
    BY ConsoleAssumption
  <1>2. Init => AdviceInv
    BY <1>1, InitAdvice DEF Init
  <1>3. AdviceInv /\ [Next]_vars => AdviceInv'
    <2>1. [Next]_vars => Advice!Next \/ UNCHANGED adviceVars
      BY PageSteps
    <2>2. AdviceInv /\ UNCHANGED adviceVars => AdviceInv'
      BY DEF AdviceInv, RepliesOK, CollapsedOK, Begun, adviceVars
    <2> QED BY <1>1, <2>1, <2>2, AdviceSteps
  <1> QED BY <1>2, <1>3, PTL DEF Spec

LEMMA QueriesHold == Spec => []QueriesInv
  <1>1. Init => QueriesInv
    BY DEF Init, QueriesInv, Queries!Init, Filed, Queries!Hooks, Queries!AllPages,
         Queries!Queries, Queries!FindingsQueries
  <1>2. QueriesInv /\ [Next]_vars => QueriesInv'
    <2>1. [Next]_vars => Queries!Next \/ UNCHANGED queriesVars
      BY PageSteps
    <2>2. QueriesInv /\ UNCHANGED queriesVars => QueriesInv'
      BY DEF QueriesInv, queriesVars, Filed
    <2> QED BY <2>1, <2>2, QueriesStepInv
  <1> QED BY <1>1, <1>2, PTL DEF Spec

\* One page is followed, or none is yet.
TabOK == tab \in Tabs \cup {"none"}

LEMMA TypesHold == Spec => [](TabOK /\ QueriesTyped /\ Sent(store))
  <1>1. Init => TabOK /\ QueriesTyped /\ Sent(store)
    <2> SUFFICES ASSUME Init PROVE TabOK /\ QueriesTyped /\ Sent(store)
      OBVIOUS
    <2>1. Queries!Plain \in Addresses
      BY ConsoleAssumption DEF Queries!QueriesAssumption, Queries!Plain, Addresses
    <2>2. Queries!useFindings \in Queries!Hooks
      BY DEF Queries!Hooks, Queries!AllPages, Queries!Queries, Queries!FindingsQueries
    <2>3. MaxTurns \in Nat
      BY ConsoleAssumption DEF Queries!QueriesAssumption
    <2>4. QueriesTyped
      BY <2>1, <2>2, <2>3 DEF Init, Queries!Init, QueriesTyped
    <2>5. Sent(store)
      BY DEF Init, Queries!Init, Sent
    <2> QED BY <2>4, <2>5 DEF Init, TabOK
  <1>2. TabOK /\ QueriesTyped /\ Sent(store) /\ [Next]_vars => (TabOK /\ QueriesTyped /\ Sent(store))'
    <2> SUFFICES ASSUME TabOK, QueriesTyped, Sent(store), [Next]_vars
                 PROVE  TabOK' /\ QueriesTyped' /\ Sent(store')
      OBVIOUS
    <2>1. TabOK'
      BY DEF TabOK, Next, Open, OnFindings, OnTenantAdmin, OnLogin, OnUsers, OnRecommendations,
           OnQueries, vars
    <2>2. Queries!Next \/ UNCHANGED queriesVars
      BY PageSteps
    <2>3. UNCHANGED queriesVars => QueriesTyped' /\ Sent(store')
      BY DEF QueriesTyped, Sent, queriesVars
    <2> QED BY <2>1, <2>2, <2>3, ConsoleAssumption, QueriesTypes
  <1> QED BY <1>1, <1>2, PTL DEF Spec

-----------------------------------------------------------------------------
(* The results.                                                              *)

(* Every page of the console stays in a state of its types, whichever is
   followed. *)
THEOREM TypeCorrect == Spec => []ConsoleTypeOK
  <1>1. TriageP!PageInv => Triage!TypeOK
    BY TriageSame, TriageP!PageType
  <1>2. TenantsP!TenantInv => Tenants!TypeOK
    BY TenantsSame, TenantsP!InvTypes
  <1>3. SigningP!SessionInv => Signing!TypeOK
    BY SigningSame, SigningP!InvTypes
  <1>4. DirectoryInv => Directory!TypeOK
    BY ConsoleAssumption, DirectoryTypes
  <1>5. QueriesTyped /\ Sent(store) => Queries!TypeOK
    BY DEF QueriesTyped, Sent, Addresses, Queries!TypeOK
  <1>6. AdviceInv => Advice!TypeOK
    BY AdviceTypes
  <1>7. TabOK /\ Triage!TypeOK /\ Tenants!TypeOK /\ Signing!TypeOK
        /\ Directory!TypeOK /\ Advice!TypeOK /\ Queries!TypeOK => ConsoleTypeOK
    <2> SUFFICES ASSUME TabOK, Triage!TypeOK, Tenants!TypeOK, Signing!TypeOK,
                        Directory!TypeOK, Advice!TypeOK, Queries!TypeOK
                 PROVE  ConsoleTypeOK
      OBVIOUS
    <2>1. CASE tab = "findings"
      BY <2>1, Zenon DEF ConsoleTypeOK
    <2>2. CASE tab = "tenant_admin"
      BY <2>2, Zenon DEF ConsoleTypeOK
    <2>3. CASE tab = "login"
      BY <2>3, Zenon DEF ConsoleTypeOK
    <2>4. CASE tab = "users"
      BY <2>4, Zenon DEF ConsoleTypeOK
    <2>5. CASE tab = "recommendations"
      BY <2>5, Zenon DEF ConsoleTypeOK
    <2>6. CASE tab = "queries"
      BY <2>6, Zenon DEF ConsoleTypeOK
    <2>7. CASE tab = "none"
      BY <2>7, Zenon DEF ConsoleTypeOK
    <2> QED BY <2>1, <2>2, <2>3, <2>4, <2>5, <2>6, <2>7 DEF TabOK, Tabs
  <1> QED BY <1>1, <1>2, <1>3, <1>4, <1>5, <1>6, <1>7, TriageHolds, TenantsHold, SigningHolds,
             DirectoryHolds, AdviceHolds, TypesHold, PTL

(* Wherever the tab has been, the tenant administration page forces nothing but
   what was refused. *)
THEOREM ForcedIsRefused == Spec => []ForcedAsRefused
  <1>1. TenantsP!TenantInv => ForcedAsRefused
    BY TenantsSame, TenantsP!InvForced DEF ForcedAsRefused
  <1> QED BY <1>1, TenantsHold, PTL

(* Nothing that was asked for before a sign-out is in the tab's cache after it. *)
THEOREM SignOutForgets == Spec => []NothingOutlivesSignOut
  <1>1. SigningP!SessionInv => NothingOutlivesSignOut
    BY SigningSame, SigningP!InvForgets DEF NothingOutlivesSignOut
  <1> QED BY <1>1, SigningHolds, PTL

(* On the findings page, whatever was pressed and however the answers came, a
   list that has been read again after the last press is over is the server's,
   and no older than what its reader has done. *)
THEOREM QuietListsAreServed == Spec => []QuietListIsServed
  <1>1. TriageP!PageInv => QuietListIsServed
    BY TriageSame, TriageP!InvQuiet DEF QuietListIsServed, TriageP!PageInv
  <1> QED BY <1>1, TriageHolds, PTL

(* On the users page, a role saved in this workspace is read again before the
   picker is at rest: no answer sent for before the save is left in it. *)
THEOREM PickersFollow == Spec => []PickerFollowsTheSave
  <1>1. DirectoryInv => PickerFollowsTheSave
    BY ConsoleAssumption, DirectoryKept DEF PickerFollowsTheSave
  <1> QED BY <1>1, DirectoryHolds, PTL

(* The recommendations page says that nothing matches only when nothing does:
   every page that the pager or a filter leads to has rows, and one of them owns
   its package, so that hiding the others never leaves it empty. *)
THEOREM NoneMatches == Spec => []NoneMeansNone
  <1>1. AdviceInv => NoneMeansNone
    BY ConsoleAssumption, AdviceKept DEF NoneMeansNone
  <1> QED BY <1>1, AdviceHolds, PTL

(* The recommendations page counts the savings of its rows once: however the
   packages of the resource graph overlap and are cut by the page, the effective
   savings of the owners, the suppressed rows hidden or not, and the totals of
   the groups add up to the savings of the rows themselves. *)
THEOREM SavingsOnce == Spec => []SavingsCountedOnce
  <1>1. AdviceInv => SavingsCountedOnce
    BY ConsoleAssumption, AdviceSaves DEF SavingsCountedOnce
  <1> QED BY <1>1, AdviceHolds, PTL

(* The console keeps the contract of the lifecycle buttons: whatever page is
   followed, a press changes the server at most once. *)
THEOREM ContractKept == Spec => ImplementsContract
  <1>1. Init => Triage!Contract!Init
    BY TriageSame, ContractSame, TriageP!InitTriage DEF Init
  <1>2. TriageP!PageInv /\ [Next]_vars =>
          [Triage!Contract!Next]_<<Triage!Latest, Triage!Asked, Triage!Made>>
    BY TriageSame, ContractSame, PageSteps, TriageP!NextTriage DEF TriageP!PageInv
  <1> QED BY <1>1, <1>2, TriageHolds, PTL
      DEF Spec, ImplementsContract, Triage!ImplementsContract, Triage!Contract!Spec

(* Whatever way the user has taken through the pages, and in whatever order
   the answers come, what a query shows answers the question on the screen. *)
THEOREM AnswersAreTheirs == Spec => []ShownAnswersTheQuestion
  <1>1. QueriesInv => ShownAnswersTheQuestion
    <2> SUFFICES ASSUME QueriesInv PROVE Queries!ShownAnswersTheQuestion
      BY DEF ShownAnswersTheQuestion
    <2> DEFINE k == Queries!Key(hook, url)
               q == Queries!Question(hook, url)
    <2>1. k \in DOMAIN store => AnswersIt(store[k], q)
      BY HooksAre DEF QueriesInv, Filed
    <2>2. k \notin DOMAIN store => Queries!Stored(store, k).entry.data = NoData
      BY DEF Queries!Stored, Queries!NewEntry
    <2>3. k \in DOMAIN store => Queries!Stored(store, k) = store[k]
      BY DEF Queries!Stored
    <2> HIDE DEF k, q
    <2>4. k \in DOMAIN store => store[k].entry.data \in {q, NoAnswer, NoData}
      BY <2>1 DEF AnswersIt, SigningP!EntryRecords
    <2> QED BY <2>2, <2>3, <2>4 DEF Queries!ShownAnswersTheQuestion, k, q
  <1> QED BY <1>1, QueriesHold, PTL
=============================================================================
