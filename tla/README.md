# McKay: verification project

McKay is a FinOps platform for AWS: a scanner writes findings ("this resource costs money for
nothing") to Parquet files, an ingest worker loads them into Postgres, a Flask API lets teams
decide about findings and request remediations, and a remediation worker carries those out and
measures what they saved. Nothing in it is distributed in the textbook sense. What is hard is
Postgres: several processes and request handlers change the same rows through transactions at
READ COMMITTED, most of them several statements long, and any of them may die or be
rolled back between two statements. On the other side of the API, a web console keeps answers in a
cache, changes them before the server has agreed, and lets its user go on while requests are out.
This project models the transactions statement by statement where something can come in between, and
the console's pages request by request, in TLA+, checks them with TLC and proves every safety property
that holds, of the transactions and of the console, with TLAPS.

Paths below are relative to the repository (`src/` is its root).

## How to run it

    tlc -workers 2 -config MCRunState.cfg MCRunState       # any run: a cfg and its MC module
    tlapm RunStateProofs.tla                               # any of the eight proof modules

`PROJECT.json` lists the runs with what each is expected to show, the mutations of the model
each property is known to detect, the source lines each definition translates, the hazards and the theorems.

## 1. Inventory

### Components that keep state or change it

| Component | State | Operations | Interacts with |
|---|---|---|---|
| Run state machine, `apps/backend/run_state.py`, `apps/worker/recover_runs.py` | `runs.status`, `run_locks`, `run_events` | acquire and release a lock, begin running, transition to ready or failed, append event, recovery sweep | called by the ingest worker inside its transaction; the sweep is a command of its own |
| Ingestion, `apps/worker/ingest_parquet.py` | `finding_presence` (who was seen in which run), `finding_latest` (newest snapshot), coverage, graph, aggregates | ingest one run with COPY (one transaction), ingest without COPY (every statement commits) | run state machine, impact refresh after commit |
| Finding lifecycle and SLA clock, `apps/flask_api/blueprints/lifecycle.py`, migrations 009, 014, 015 | `finding_state_current`, `finding_group_state_current`, `finding_governance` | ignore, resolve, snooze of a finding or a group; triggers that move the clock | view `finding_current`, SLA policies, ingestion (which findings exist) |
| Finding governance endpoints, `blueprints/findings.py` | `finding_governance` | set owner, set team, extend SLA | same rows as the triggers |
| SLA policies, `blueprints/sla_policies.py`, migration 012 | `sla_policy_category`, `sla_policy_check_override` | create and change policies | read by the triggers |
| Remediation queue, `blueprints/remediations.py`, `apps/worker/remediation_worker.py` | `remediation_actions`, `audit_log` | request, approve, reject; claim, execute, record | AWS, impact |
| Remediation executor and actions, `services/remediation/` | none of its own; AWS | validate, dry run or run `ec2_stop`, `snapshot_delete` | called by the worker between two transactions |
| Remediation impact, `services/remediation/impact.py`, migration 020 | `remediation_impact` | upsert for one action, refresh of the newest outcomes | worker (same transaction as the outcome), ingestion and `GET /api/remediations/impact?refresh=true` |
| Recommendations endpoint, `blueprints/recommendations.py` | none of its own | packages of a page's rows, their owners and savings | resource graph, the page below |
| Tenant administration, `blueprints/tenant_admin.py` | registry of workspaces, inherited access bindings | save a workspace (guards, migration of bindings), make and delete bindings | the page below |
| Query cache, `apps/frontend/src/components/query-provider.tsx` over `@tanstack/react-query` (external) | one entry per query key | mount, invalidate, cancel, write, clear | every page |
| Console session, `useAuth`, `lib/scope.ts`, `lib/api/client.ts`, login page | scope in session storage, cookie, cache | sign in, sign out, the guard of every page | `blueprints/auth.py`, query cache |
| Findings page, `app/findings`, `useFindingLifecycle` | lists per filter, drawer, pending action | optimistic lifecycle actions, roll back, refetch, views | finding lifecycle endpoints |
| Users page, `app/users`, `useUsersAdmin`, `blueprints/users.py` | list, role per user, role picker | create, deactivate, save a role here or in all workspaces | RBAC endpoints |
| Tenant administration page, `app/tenant-admin`, `useTenantAdmin` | lists, form, saves under way | edit, quick status change, override of a refusal, bindings | tenant administration |
| Recommendations page, `app/recommendations`, `useRecommendations` | address, folded groups, drawer | filters, pages, grouping, owners-only | recommendations endpoint |
| Coverage, remediations, dashboard pages and the hooks of all pages | address, query keys | filters, links, selections | every read endpoint |
| Authentication and RBAC, `apps/backend/db_rbac.py`, `services/rbac_service.py`, `auth_middleware.py`, `blueprints/auth.py`, `users.py`, `api_keys.py` | users, sessions, keys, roles, the in-memory login limiter | login, logout, key creation and revocation, role changes | every request |
| Teams, `blueprints/teams.py` | teams, members | single-statement edits | governance rows name a team |
| Database access, `apps/backend/db.py` | the connection pool | get, put, replace pool, `db_conn` (rolls back on exit) | everything above |
| Migrations runner, `apps/backend/db_migrate.py` | `schema_migrations` | list pending, apply each | run at deployment, possibly twice at once |

Components without behaviour worth a state machine: the read API, the Flask wiring, the scanner
pipeline and its checkers, the DuckDB correlation rules, cost normalisation, contracts and casts,
pricing lookups, coverage and graph builders, infrastructure, the rest of the frontend. Each is in
`PROJECT.json` with its reason.

### What is hard in them, and what makes them correct

* **Ingestion.** Two ingesters of one run, or of two runs that share findings; errors caught
  by a handler that opens a second transaction; kills at any statement; the sweep running in
  between; deadlocks on `finding_latest` rows, which are locked in file order. Correct means: one
  ingester per run, a ready run is complete and becomes visible at once, a failed one
  leaves nothing, the event journal tells exactly the changes of status, every ingest ends.
* **Remediation queue.** Two API calls with one derived id; approval and rejection racing; two
  workers claiming with `FOR UPDATE SKIP LOCKED`; a worker dying between AWS and the database.
  Correct means: an operation is carried out at most once and only if requested for real
  and approved; status, audit log and impact row tell one story; a decision is taken once.
* **SLA clock.** A finding and its group are decided on by different requests; the trigger reads
  before it locks; a transaction's `now()` is its start, so waits reorder event times; snoozes
  expire by themselves. Correct means: the clock is never set back, a breach stays on record, a
  decision has a governance row, no day is credited twice, a pause runs exactly while a snooze does.
* **Remediation impact.** Runs are ingested late and in any order; a refresh is several
  hundred read-derive-write sequences in one transaction, with others doing the same. Correct means: savings are claimed
  only on evidence from after the outcome, outcome and row agree, refreshes do not deadlock.
* **Console.** An answer may be read before a change and heard of after it; a list on screen holds a row
  the server has not confirmed; the user changes filters, page or scope while requests are out; keys and requests name their
  parameters in two places; two effects and a user write one picker; a refused save is sent again when the form
  has moved on. Correct means: what is shown answers the question on the screen, for the scope signed in, and after one's own changes; a press
  changes the server once; a forced save is the save that was refused; savings are counted once; buttons come back.
* **Authentication.** A session or key revoked while requests that have passed the check are
  running; role changes; the limiter's window per process. Correct means: revocation holds from
  the next request, and nobody is left without the roles the snapshot promises.
* **Pool and migrations.** A pool class that is documented as unsafe for threads; a runner that
  computes pending files once. Correct means: a connection has one user, a file is applied once.

`PROJECT.json` lists these as hazards, each at its line and with the properties
that catch it or the reason why none does yet.

## 2. Plan

1. **RunState** with the abstract **RunJournal**: the heart of the data path. *Done, proved.*
2. **Remediation** with the abstract **RemediationLifecycle**: the only component that changes the
   outside world. *Done, proved.*
3. **FindingSla**: the component with the most arithmetic and the subtlest races. *Done, proved.*
4. **RemediationImpact**: the table the API reports savings from. *Done, proved.*
5. **Console**, composed of **FindingTriage** (with the abstract **TriageContract**), **TenantAdmin**, **Session**,
   **UsersAdmin**, **Recommendations** (with **PackagedSavings**) and **ConsoleQueries**, all over **QueryCache**: a third of the repository's own code. *Done,
   proved but for its liveness; one disagreement found.*
6. **Proofs** of what the runs check: *done for every invariant, action property and refinement of a passing run* (section 6); the
   liveness properties stay with TLC. Left: lemmas for the parts to come, and the composition below.
7. **Ingest without COPY** (`ingest_parquet.py:1371-1666`): every statement commits by itself and
   no lock is taken. To be composed with the sweep of RunState. Wanted: which of RunState's
   invariants survive; whether a run can be ready and incomplete.
8. **Access**: the login limiter (`blueprints/auth.py:79-104`), server sessions and key revocation, the role
   snapshot of `scope_bootstrap.py`.
9. **Pool** (`apps/backend/db.py`) and **Migrations** (`db_migrate.py:248-275`) with two runners; the lost update of
   `sla_policies.py:280` once descriptions are part of FindingSla.

A composition worth having is Remediation with RemediationImpact: the second takes "a worker
records the outcome of an action it has claimed, once" as given, which is what Remediation's
Holding states and proves.

## 3. The modules and the code

Conventions. A transaction of several statements has a program counter and a record (`tx`) of
what it has read and written; the tables hold committed data only. A row lock is not a variable of
its own: whoever has written a row in an open transaction makes a writer of it wait (a guard over
the other transactions). `Crash` and `Abort` actions forget the record, which is what Postgres does.
A handler that locks one row, checks it and commits is one action, because nobody can see it half done.
Operators marked "Wrong variant" or "Slip" are mutations used to show that a property can fail; no specification uses them.

### RunState, RunJournal (`run_state.py`, COPY path of `ingest_parquet.py`, `recover_runs.py`)

| State | Code |
|---|---|
| `status`, `journal`, `lockLog` | `runs.status`; the `run.state.changed` and the lock events of `run_events` |
| `presence`, `latest` | `finding_presence`, `finding_latest.run_id` |
| `runLocks`, `lockToken` | rows of `run_locks`; the token the process got back |
| `tx`, `pc` | the one transaction of `_ingest_with_copy` and where it stands |
| `base` | history: the status observed first, to state JournalChain |

StartIngest, AcquireRunLock, BeginRunRunning, InsertRunning, LoadPresence, UpsertLatest (one row of
`finding_latest` per step, in file order, because each is a lock), TransitionRunToReady and
CommitIngest are the statements of the happy path. FailIngest is an exception at any of them, followed by
the handler that rolls back and marks the run failed (SelectForFailed, InsertFailed, CommitFailed).
CrashIngest is a kill. LockExpires lets the TTL pass, RecoverStaleRuns is one sweep with `SKIP LOCKED` and its limit.
Sweeps take the oldest runs first, never more than the limit.
Init is any database that ingests without COPY can have left if they ran one at a time, in any order of the runs, and died anywhere: that path commits
each statement by itself (`ingest_parquet.py:1413-1620`). So a run may be found `running` or `failed` with any first rows of its
file in `finding_presence`, also with none while `finding_latest` still names it (it was being ingested again, and died after the DELETE at `:1446`: Orphans),
and snapshots may be older than others. What ingests without COPY leave when they overlap is item 7 of the plan.
No invariant says that a snapshot's run has the finding, because those databases do not satisfy it: OrphansDoNotSpread says that no ingest with COPY adds to them.

RunJournal is what a reader of `runs` and `run_events` may rely on: a status changes only in whole
journeys (`x -> running -> ready`, `x -> failed`, a set of `running` runs swept), each appended to the
events. RunState implements it with the identity on `status` and `journal`.

### Remediation, RemediationLifecycle (`blueprints/remediations.py`, `remediation_worker.py`, `services/remediation`)

LookUp and InsertAction (two steps: other calls come between the lookup of the id and the insert with its `ON CONFLICT`;
DropRequest is a call that goes no further), ApproveAction, RejectAction, ClaimActions (locks approved actions that are not locked, oldest
approval first) and CommitClaim, Execute (the AWS call, no transaction open), RecordOutcome (status, audit and
impact row in one transaction), AbortWorker. `calls[a]` counts what has happened on AWS.
Whether the finding named in a request exists (404, 409) is a choice of the environment.
RemediationLifecycle is the life of an action: requested, decided, started, carried out at most once while
running, finished.

### FindingSla (`lifecycle.py`, `findings.py`, `sla_policies.py`, migrations 009, 012, 014, 015)

One request is BeginDecision, WriteDecision (the state row), then per finding concerned LookUp (effective
state from the view, policy) and SyncClock (lock and rewrite of the governance row), then CommitDecision or
AbortDecision. Ingest, CreatePolicy, UpdateCategory, ExtendSla and Tick run in between. Moved, Synced and the operators
above them translate `governance_sync_finding_sla` line by line, with time in days and 0 for NULL.
`overlapped` and `granted` are history variables: whether two requests were ever under way at once, and
what extension the API has confirmed. All findings share a check and a category. Init is
the state after the backfill of migration 014 with the default policies of 012.

### RemediationImpact (`services/remediation/impact.py`, its three callers)

BeginRecord is the worker's update of its action, BeginRefresh the selection of the newest outcomes; for each
action Look reads the latest ready run, Derive the baseline and the finding in that run, Upsert writes (and waits for whoever
holds the row), and Commit ends the transaction. Metrics and Derived translate the derivation. IngestRun makes a run ready,
with a scan time that may lie well in the past. A run that is ready stays so here, although RunState shows that it
may be marked failed; the properties do not mention the status of the run they rely on.
MaxAborts bounds the failures.

### QueryCache (external: `@tanstack/react-query` as `query-provider.tsx` sets it up)

One entry: the data shown, whether a request is out, what the server has read for it so far, whether it failed. Mount, Invalidate,
Cancel, SetData and Deliver are the calls the hooks make, with the library's defaults (nothing stays fresh, a failure keeps
what was there, a request that is out is joined, an invalidation starts it anew). The answer is read at one step and delivered at another, and everything the
user and others do comes in between. An automatic retry is a request that stays out, except in Session, where it goes out with the scope of that moment.

### FindingTriage, TriageContract (`FindingsClientPage.tsx`, `useFindingLifecycle.ts`)

| State | Code |
|---|---|
| `history` | what the server's findings were and who changed them (FindingSla has the handlers) |
| `lists`, `view`, `mounted` | the cache under the key of each set of filters; the key the page is on; is it open |
| `selected` | the drawer, closed by an effect as soon as its finding is not listed |
| `clicks`, `current` | the mutations, with the list remembered for `onError`; the one that disables the buttons |

RunAction is `onMutate` and the request: cancel, remember, write. ApplyAction and RefuseAction are the server; an answer may be lost after
the change. SettleAction is `onError` and `onSettled` with the key the page has *now* (the callbacks are replaced at each render),
FinishAction the end of the awaited refetch. SwitchView, LeavePage, ReturnToPage, RetryList, ReadList and DeliverList are what goes on meanwhile; Retry
is there as long as an error is shown, while old rows are being read again too, and then sends the request anew.
TriageContract knows the server's states, the presses whose change may still be made, and how many changes each has made; FindingTriage implements it with
`asked` mapped to the clicks in phase "asked" and `made` to a count over `history`.

### Session (`useAuth.ts`, `scope.ts`, `client.ts`, `login/page.tsx`, `blueprints/auth.py`)

The scope in storage, the cookie's session and the cache whose keys carry the scope of the last render. SubmitLogin stores the scope before the request;
LoginAccepted rereads "me"; LoginEnds opens the page; LoginRefused clears the scope. LogoutEnds forgets scope and cache either way, and leaves the page
only when the server agreed. GuardPage is the redirect of every page, RetryRows the retry of a page's query, SessionExpires the end of the session elsewhere.

### UsersAdmin (`UsersClientPage.tsx`, `useUsersAdmin.ts`, `blueprints/users.py`)

`assigned` is the history of roles and active users, so that an answer is a place in it. Effects is one render: the first effect writes the picker if the
role, user or items it watches have changed, and may write it whenever the role or the list was read anew, since the objects it compares also have fields that are not modelled
(react-query keeps the object only if nothing in it changed); the second moves it into the catalog. AnswerSave to RefetchRole are a save and the three refetches behind it, which differ for a tenant-wide
save; SubmitCreate, DeactivateUser, RelistUsers and RetryUsers change or reread the list, GrantElsewhere is another administrator.

### TenantAdmin (`TenantAdminClientPage.tsx`, `useTenantAdmin.ts`, `blueprints/tenant_admin.py`)

A save goes out, is read for (ReadForSave: guards, bindings to retarget), written (WriteSave) and answered; the handler takes no lock, so others come between the two.
Override is the dialogue after a 409, which sends the refused payload again, forced. SubmitWorkspace uses the form, QuickSetWorkspaceStatus a
row's button that no running save disables. SubmitBinding, DeleteBinding, OtherBinding and OtherEdit change what the handlers read.

### PackagedSavings, Recommendations (`recommendations.py`, `RecommendationsClientPage.tsx`, `useRecommendations.ts`)

PackagedSavings translates the endpoint: the rows of one page, the neighbours sampled of each, the packages, their clusters (the transitive closure, stated as the smallest
closed sets), the owner, and what each item is credited with. It is worked out once, as constant `Served`.
Recommendations is the page over it: filters, pager, owners-only, grouping, folded groups, drawer, retry, and a run that publishes another estate meanwhile.
OpenAddress loads it at an address that was kept or typed, whose page may lie beyond the last; `brought` remembers that the page number is the user's and not the pager's.

### ConsoleQueries (all hooks and pages under `apps/frontend/src`)

Each hook is a record: the parameters of its key, those of its request, the right it needs, and whether 403 and 404 are answers. Each page is what it
asks, which parameters each control writes at once, what a selection asks by, and where its buttons lead. The graph panel is
mounted by two drawers: for a finding it is given the fingerprint and the resource (`FindingsClientPage.tsx:843`), for a recommendation the resource alone
(`RecommendationsClientPage.tsx:1035`), so that each of its two hooks is on in one of them. Parameters no page gives (Defaults) are in key and request with the hook's own value. One hook is followed through one change of
page or address, or two selections, over a shared cache.

### Console

The pages in one tab. They share the cache but no key, and what they hold besides is gone when they are left; so a tab is followed on one page (`tab`)
from its opening, and the state space is the sum of theirs instead of the product.

## 4. Runs

| Run | Question | Bounds |
|---|---|---|
| `runstate` | Is an ingest atomic, alone on its run, and honestly journalled? Does it implement RunJournal? Does it leave no snapshot without membership that was not there? Does every ingest end, and every abandoned run leave `running`? | 2 ingesters, 1 attempt each, 2 runs listing 2 shared findings in opposite orders, sweep limit 1; at the start r1 in any state with any first rows, r2 not failed, with all rows or none |
| `runstate_kept` | *violation:* does ready stay ready? | the same with 2 attempts |
| `runstate_newest` | *violation:* does a snapshot in `finding_latest` never give way to an older run's? | as `runstate_kept` |
| `remediation` | Does everything happen once, with sanction, and is it told alike everywhere? Does it implement RemediationLifecycle? Are approvals served in order, is each started and settled? | 2 actions, 2 API calls, 2 workers of which one run may die, limit 1 |
| `remediation_once` | *violation:* is a request created once? | the same with limit 2 |
| `sla` | Does the clock only move forward, keep its breaches, cover every decision, and follow the snoozes when requests do not overlap? | 2 findings of one group, 2 clients, 3 requests, days 1 to 4, one snooze date |
| `sla_extension` | *violation:* is a confirmed extension kept? | as `sla` |
| `sla_race` | *violation:* does the clock follow the decisions when requests do overlap? | as `sla` |
| `impact` | Are savings claimed only on evidence; do outcome and row agree; can refreshes deadlock? | 2 connections, 2 actions (one completes, one fails) on one finding, 2 runs, 2 instants, savings 1 and 2, 1 failure |
| `impact_dry_run` | *violation:* are realized savings real? | the same, the action executed as a dry run |
| `console` | What a page shows, does a press count once, do buttons return, is a forced save the refused one, does anything outlive a sign-out, is every saving counted once? | see below |
| `tenant_migration` | *violation:* is a migration target asked for before an archive is given up? | 2 workspaces, 1 user with inherited access, 1 save, 1 change from elsewhere |

**Why these bounds.** Every race here is between two parties, so two ingesters, clients, workers or
connections are the least that shows it, and the theorems lift most results to any number.
Two runs with opposite file orders are what a deadlock needs. A second attempt is what makes a stale lock token, a
second failure over a ready run and a re-ingest possible: the two violations of RunState use it, while `runstate`, which also checks liveness, has one attempt, each of its
safety properties being proved for any number. It also bounds what it finds at the start (MCLegacy): one run that a dead ingest left half done, in every way it can, beside one
that is whole or empty, its snapshots orphans or not; the theorems have no such bound. A sweep limit of 1 makes the limit matter with two runs; a claim limit of 1 makes the
order of approvals matter with two actions. TransactionDiscipline and QueueDiscipline, the inductive invariants, are not checked again since they are proved.
Three requests are the least for "finding snoozed, group snoozed, one of them resumed", four days the least in which a
snooze starts, expires and is followed by another decision, after the deadline as well as before. Two instants suffice for "up to the outcome" and "after it",
and two amounts for a finding that became cheaper or dearer. One action that completes and one that
fails give refreshes two rows to lock.

`console`: one finding in two lists (all, open ones), two presses and two events (changes of view, departures, other users), so that an action can be overtaken by another
user and by a second press; one workspace, one save and two foreign changes, which is what makes a forced save meet a changed registry; two scopes, two sign-ins and a sign-out
between them; one user, two roles of which the catalog offers one, one save and one change from elsewhere; four findings with three resources among six, three to a page, where two packages meet only through
a third, a sample of two neighbours (the code reads three), two estates and two changes of address; filters with two values, two selectable rows and either one
change of address or two selections, after which every key the followed query can have on its page has been used.

Deadlock checking is off in every cfg since each system may rest:
all requests served, all ingests over, time at its bound. Real circular waits are covered by IngestEnds (the server ends them) and NoCircularWait.

**Symmetry** is used in runs without liveness only: `sla` (what MCFindingSla calls Interchangeable), the two `impact` runs and `remediation_once`, over
clients, workers and connections; no specification orders these sets.

**Fairness.** `runstate`: a connected ingester executes its next statement; the
server's deadlock detector and unique index raise the error they must; an operator repeats the recovery command,
which `docs/05_operations/running.md:16` recommends before every ingest. New ingests, errors, crashes and lock expiry are never forced. `remediation`: the worker
command is run again and again and goes on (weak fairness of its steps); nobody has to request, approve
or reject; the deaths are bounded by MaxAborts, so an approved action is started though workers die, but StartedIsSettled
excuses an action whose worker is dead. No more can be claimed: no code brings such an action back. `console`: while the findings page is followed, a request that is out is answered or given up by the browser (weak fairness of reading a list and of
answering a press); the user never has to do anything. The other pages have safety properties only.

## 5. What the checks show

Holding, in short: the ingest transaction is sound. One run has one ingester, although it is the rows
not yet committed that make the second one wait and never a lock it can see; readers see a run's status, presence and snapshots change at once; failures leave the findings alone; the
events chain. The queue carries out nothing twice and nothing unsanctioned, however workers die. The clock never goes back and never
drops a breach, even under overlap. Savings are never claimed without a later run to show them, even with
three separate reads under way, and concurrent refreshes are free of deadlock *because* the rows come in one common order.

On the console: a list that has come to rest is what the server served, and after its reader's own changes, in spite of optimistic rows; a press changes the server at most once, and its
buttons come back; a save is forced only with the payload that was refused; nothing read before a sign-out is found after it;
a picker nobody has touched proposes the role read after the save; a page's savings are those of its rows, each once, however packages overlap or are cut by the page; every query key carries
the parameters of its request.

Disagreements between the code and its own documents, each found by a `violation` run:

1. **A ready run can be marked failed** (`run_state.py:345` against `:173`). The second ingester of a run that raises
   while waiting for the first writes failed over ready.
2. **`finding_latest` may go back in time** (`ingest_parquet.py:1981` against `docs/01_architecture/db-model.md:73`). The
   upsert does not compare run times, so a run ingested late replaces newer snapshots.
3. **Two requests can both create one action** (`remediations.py:551` against `docs/06_api/api_reference.md:302`). Both look up
   before either inserts; both answer "created" and write the audit event.
4. **SLA extensions, owners and teams are not saved** (`findings.py:1180` against `api_reference.md:339` and migration 015).
   The endpoints answer with the new values and never commit. RecordedBreachStays depends on it: the handler also clears a recorded breach
   (`findings.py:281-286`), and would violate that property if its transaction were committed.
5. **Overlapping decisions can leave a wrong clock** (migration `015:39` against `014:2`). The effective state is read before
   the governance row is locked.
6. **Dry runs earn realized savings** (`impact.py:95` against `docs/00_overview/glossary.md:239`). The metrics look at
   `completed` alone.

7. **The migration target is never asked for** (`TenantAdminClientPage.tsx:251` against the prompt at `:256`). The page
   asks only if the *first* refusal mentions a migration; `tenant_admin.py:481-513` sends that refusal only to a request that is already forced.

Observed while modelling and not made runs of their own:

* `acquire_run_lock` (`run_state.py:98`) is documented to return None when the lock is taken; since lock rows
  never outlive their transaction, a second caller waits for the row instead, and the reaping of expired locks that
  `docs/05_operations/running.md:16-17` describes has nothing to reap (LocksStayPrivate proves it).
* `run_state.py:3-6` says status changes go through it; the ingest without COPY writes the status directly (`ingest_parquet.py:1413, 1620, 1658`).
* `_audit_action_outcome` is "best-effort" (`remediation_worker.py:239`), but a `psycopg2.Error` is not among the exceptions it catches.
* A worker that dies leaves its action `running` for ever, and no code reaps it.
* A snooze that expires fires no trigger: the pause goes on until somebody decides again. An expired group snooze can also hide
  the paused status of a finding whose own snooze is active (`COALESCE` in the view).
* A second snooze of a paused finding recomputes the deadline without the running pause and can record a breach (`015:139-153`);
  a pause from before the first opening extends the later deadline.
* A finding ingested after the backfill has no governance row, hence no deadline, until somebody decides about it.
* Editing the description of an SLA policy writes back the days read before (`sla_policies.py:280`).
* A refresh that derived its rows before a run became ready may write them over newer ones; the next refresh
  repairs it. An action that is not among the 500 newest outcomes keeps the verification it has.
* An action is verified resolved when its finding is absent from the latest run, even if that run did not scan the account.
* Findings page: a failed action is rolled back under the key the page has *by then*, so the list of one filter can be written under another until it is read again
  (FailureIsRolledBack in FindingTriage states the contrary and does not hold); if the user has signed out meanwhile, the list goes into the cleared cache. The
  message "Finding set to ..." is shown in whichever drawer is open (`FindingsClientPage.tsx:397-423`).
* Tenant administration: `invalidateAll` names the key `["tenant-admin", tenant, workspace]`, which no list has (`useTenantAdmin.ts:310`), so lists stay as
  first read and a row's button writes back old columns. A binding made between the handler's read and its write leaves an archived workspace with inherited
  access (SourceIsNotArchived in TenantAdmin, which does not hold either). `submitCreate` uses `event.currentTarget` after an await. Hooks run in another order once the scope is
  gone (`TenantAdminClientPage.tsx:183` against `:209-215`).
* Users page: after a tenant-wide save the role of the drawer is not read again (`useUsersAdmin.ts:236-244`); a new list overwrites a role the user has picked and not saved.
* Session: a refused sign-in clears the scope of a session that was alive; a failed sign-out leaves the page up with its cache gone.
* Coverage tables say "none" while loading and after a failure, and join answers about possibly different latest runs.
* Recommendations: a kept or typed address whose page lies beyond the last says "No recommendation-eligible actions match the current filters." although
  the same answer counts some (NoneMeansNone excepts it). The total of a page is the plain sum of its rows' own savings, which SavingsCountedOnce states and
  `tests/api/test_recommendations_api.py:496-506` requires (110 = 80 + 30, two rows of one package); `docs/02_pipeline/recommendations_build.md:100-104` wants potential savings not to be a blind
  sum of all findings or candidates. What the packages avoid is a row's savings being counted with its owner and again by itself, not two rows of one package both being counted.
* Recommendations: which row owns a package is decided within one page of results (`docs/02_pipeline/recommendations_build.md:20-22`
  does not say so), so the same package has an owner on each page it reaches. The collapse effect renders again and again while there is no data.

## 6. What is proved

All theorems hold for every value of the constants that satisfies the modules' ASSUMEs: any finite or infinite
number of ingesters, runs, clients, workers, findings (Actions is finite where a claim needs an oldest approval).

**RunStateProofs.** TypeCorrect, LocksPrivate, JournalsChain, OneIngester, ReadyComplete, Discipline, ReadyAtomically,
FailuresLeaveFindings, OrphansStay, Implementation (RunState implements RunJournal). None of the invariants is inductive: a committed table tells
nothing of what an open transaction will add to it. The invariant, TransactionDiscipline, is built in three layers, each used by the next.
*LockInv* (Balanced): before it commits, a transaction that wrote a lock row has deleted it and counted both events, so
nothing of it is ever committed. *RowInv* (Chaining, Exclusive): its events chain from the committed
status to the status it wrote, and two transactions never hold one run row, which is why the committed status cannot change
underneath. *DataInv* (Complete): a transaction that has written ready has loaded all rows of the run. The commit step then
follows, and the refinement needs just the shape of the committed events, of two hops or of one.

**RemediationProofs.** TypeCorrect, OnlyOnce, OnlySanctioned, Discipline, OutcomesAgree, OneDecision, Implementation,
InOrderOfApproval. The invariant QueueDiscipline says who holds what: a claiming worker holds approved actions, a
working one holds running actions whose operations are still to be carried out, no two hold the same (Holding,
Disjoint); what an action's status says of its past (Sound); and what is written about it (Told, Decisions). AtMostOnce needs
Holding: that `calls[a] = 0` for every action in some worker's hand but the one just executed.

**FindingSlaProofs.** TypeCorrect, ClocksOnlyExtend, BreachesStay, DecisionsAreTracked, SerialPausesCountOnce, SerialPausesFollow. Two facts about the
trigger function alone come first: a synchronised row is well typed and Extends the row it was made from. ClockInv then says that
the governance rows an open transaction has written are its own (Exclusive: SyncClock waits) and continue what is
committed (Continues), together with facts about where in its transaction a request is. Any interleaving of commits is then a sequence of extensions. SerialPausesCountOnce
adds a budget to each row (credited time plus the running pause is at most the time since the row was made), which is inductive as long as event times do not go back: that
is exactly what `overlapped = "no"` gives. SerialPausesFollow needs to know more of the transaction that is open (Synchronises): which of the findings it
concerns it has yet to look at, and that every row it has rewritten follows the decisions as it will commit them. The decisions
committed are followed as well (Following), and stay so while time passes, since an effective snooze can only expire (FollowsLater).

**RemediationImpactProofs.** TypeCorrect, OutcomesHaveImpact, SavingsHaveEvidence, NobodyWaitsInACircle. ImpactInv says of every open transaction
that it touches only final outcomes and the one it records (Sound), which no other touches (Alone, Waiting), and that every row it
has derived or written tells that outcome with its evidence (Tells), at whatever statement it stands (Stands). An ingest changes
no run that is ready, so evidence once found stays (EvidenceKept), and a commit changes one action nobody else works on, so
what the others have derived stays true (SoundKept). Even TypeOK needs this: a refresh that met an action still running would write a row
with a status the table does not have. NobodyWaitsInACircle rests on the order of the selection: OrderInv says that a refresh reaches its rows
newest outcome first and that a recording worker holds one row at most, so whoever waits wants a row later than all it holds. Among the
rows wanted in a circle there would be one that no other comes after, since only finitely many transactions are open; but who holds that one wants a later one.

**FindingTriageProofs.** Invariant, TypeCorrect, Implements, QuietServed. The page implements TriageContract, for any number of findings, views and presses. Most of the page's steps
do not concern a press (Alike: every press has the same place in the contract as before, though its key and its rollback may change); a press of a button is the contract's Ask, an
answer its Make or Refuse, another user's change its Others. Pressed is the invariant: a press still to come has made no change, and one that is asked for knows its finding and its state.
QuietServed: a list at rest has been served, and misses none of its reader's changes. The invariant (ShownInv) follows each entry of the cache and each press.
What an entry shows was served, or is being read again, or is known to be old, or a press on it is out whose refetch is still to come (Sound); and whoever has stayed on
the list since a press finds it no older than that change, or on its way to be (Fresh). Cancelling, rolling back and invalidating are then steps between these cases.

**TenantAdminProofs.** TypeCorrect, OnlyRefusedIsForced. The invariant follows each save by itself: what it was begun with and last sent (Begun), that bindings
have been read only for a request that says where they go (Destined, which TypeOK needs: a handler would otherwise move access to no workspace),
and that what is sent by force differs from the payload of the refusal in the force and the target alone (AsRefused).

**SessionProofs.** TypeCorrect, SignOutForgets. Lemmas about the query cache come first: what mounting, invalidating, answering and delivering make of an entry.
The invariant says of every key that its data, the answer on its way and the request that is out belong to the key's scope and to the time since the last sign-out (Current); that holds
because the tab either has the scope the screen was rendered with or none (Agreed), and because clearing the cache gives up the requests too.

**ConsoleProofs.** TypeCorrect, QuietListsAreServed, ForcedIsRefused, SignOutForgets, PickersFollow, SavingsOnce, NoneMatches, AnswersAreTheirs, ContractKept. A step of
the console is a step of the page that is followed and leaves the others alone (PageSteps), so the invariants of the findings, tenant administration and
session pages are taken from the modules above: each of these is instantiated once more, and TriageSame, TenantsSame, SigningSame and ContractSame say that its definitions are the
console's. The other three pages are proved here.

* *Users page* (DirectoryInv). An untouched picker proposes the role its drawer names (Proposes), which is what an effect re-establishes at every render that changes
  what it watches. If the drawer's role is due after a save, then either that save is still to read it again or the entry is: its answer is new enough, and what it shows
  is, unless a request is out or has failed (DueFollowed).
* *Queries* (QueriesInv). Whatever lies in the cache under a key is an answer to the question of that key (Filed). This needs that the key determines the question: no two of the
  hooks have a key in common, and the parameters a request is made of are among those of its key (HooksAre, NamesDiffer, SameKey).
* *Recommendations* (AdviceInv). An address that has been reached by the page's own buttons has a page (Begun), and in every cluster of packages one row owns (OwnsOrders, SomeoneOwns). The savings are sums over
  sets: items against rows, owners against rows, groups against items. A sum is defined by recursion, and the library's induction takes an operator as
  parameter, which the provers cannot instantiate; induction is therefore stated on sets, as "a set that contains 0 and the successor of each of its numbers has all numbers"
  and the like for finite sets (EveryNumber, EverySubset), and follows from a least counterexample. From that come the existence and uniqueness of sums and SumOfParts: a sum is the sum
  of the sums over the parts it is divided into. ClustersJoin and PackagesPart provide the parts, since a closed set of resources that meets another is that other.

**What is assumed of the constants.** The ASSUMEs say what the code or the encoding gives; TLC evaluates each of them. They are about sizes and bounds being numbers,
the shape of the tables of constants, marks of "nothing" (NoData, NoAnswer, NoAction, NoFinding ...) being different from what they mark; and, where it matters: the rows of the recommendations
endpoint are finitely many and not none (PackagesAssumption: without a row there is no page, and an empty answer is trivial), a user's rights are rights some
hook asks for, the others being of no effect (QueriesAssumption), the estates are worked out as
the endpoint does (ConsoleAssumption), and Actions is finite where a claim needs an oldest approval.

**Model-checked only.** The liveness properties (IngestEnds, StaleRunsLeave, ApprovedIsStarted, StartedIsSettled, EveryActionEnds), because fairness and ENABLED are outside
what TLAPS handles. The violations are counterexamples and need no proof.

## 7. What is not modelled, and limits of the models

* The components under "plan" 7 to 9, and those listed without a state machine in section 1.
* Payloads. A finding is a name and, where it matters, an amount; Parquet parsing, severity, coverage and graph rows and the
  aggregate tables do not influence any guard modelled here.
* The files of a run are the same at each of its ingests (FileRows is a constant): a run rewritten under its old id between two ingests would orphan the snapshots it no longer has.
* Isolation is READ COMMITTED with statement snapshots. A statement is atomic, except that LoadPresence stands for DELETE and INSERT of
  rows no other session writes while the run row is held, and Derive for the baseline and presence queries, two reads of `impact.py` with a third as fallback.
* The rest of the frontend: layout, texts, number and date formats, the resource key the pages build from account, region and service (it differs from the
  server's, see `tests/test_graph_context.py:6-29`), build output under `.next-build*`. API keys, invitations and tenant bootstrap; the composite and estimate endpoints
  of `recommendations.py`. Where a page's server side is modelled elsewhere (FindingSla, Remediation) the page meets it as answers that come or fail.
* Two tabs. They share the cookie; Session follows one and lets the cookie's session end at any moment, but not change to another scope.
* Scopes. One tenant and one workspace (Session and TenantAdmin excepted); every statement in the code is scoped by both.
* `finding_governance` edits of owner and team change nothing that is modelled, and since they are never committed, nothing at all.
* Clocks. Database time is one clock that does not go back; scan time (`run_ts`) is compared with it as the code does, and assumed to be not later than the ingest.
