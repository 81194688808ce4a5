---------------------------- MODULE TenantAdmin ----------------------------
(* The tenant administration page of one browser tab (apps/frontend,
   TenantAdminClientPage and useTenantAdmin) over the tenant's registry of
   workspaces and its inherited access bindings (apps/flask_api,
   blueprints/tenant_admin.py), which other administrators change too.

   A row of the registry is its status and its name; the other columns are
   written back with the name.  A binding is the workspace a user's inherited
   access comes from.  A handler reads and writes in one transaction at READ
   COMMITTED and takes no lock, so its reads and its write are two steps.  The
   page's lists are read when it mounts and never again: invalidateAll names a
   key that no list has. *)
EXTENDS QueryCache, Naturals

CONSTANTS
  Workspaces, Names, Admins,   \* users with inherited access: Admins
  Registered,                  \* the workspaces there are to begin with
  NoWorkspace, NoRow, NoTarget,
  MaxSaves,                    \* workspace saves the page starts
  MaxForeign                   \* what happens elsewhere: other administrators

Statuses == {"active", "suspended", "archived"}
WorkspaceRows == [status : Statuses, name : Names]
Saves == 1 .. MaxSaves

TenantAssumption ==
  /\ MaxSaves \in Nat /\ MaxForeign \in Nat
  /\ Registered \subseteq Workspaces /\ Names # {}
  /\ NoWorkspace \notin Workspaces /\ NoTarget \notin Workspaces /\ NoRow \notin WorkspaceRows

VARIABLES
  registry,   \* [Workspaces -> WorkspaceRows or NoRow]
  source,     \* [Admins -> Workspaces or NoWorkspace]: the bindings
  loaded,      \* what the page has loaded: workspaces, bindings
  editing,    \* the row being edited
  form,       \* what the form holds
  saves,      \* [Saves -> save]
  latest,     \* the save whose progress disables the form's button
  foreign

vars == <<registry, source, loaded, editing, form, saves, latest, foreign>>

(* A save as the page runs it.  `wants` is the payload it was started with,
   `sent` the one last sent; `answer` is the server's; `tries` counts the
   requests, `prompted` says that the migration target was asked for, and
   `bound` has the users whose access the handler has read to be retargeted. *)
Payloads == [target : Workspaces, row : WorkspaceRows, force : BOOLEAN,
             migrate : Workspaces \cup {NoTarget}]
Answers == {"none", "saved", "blocked", "migrate", "invalid", "lost"}
Phases == {"idle", "out", "read", "answered", "done", "failed"}

Plain(w, r) == [target |-> w, row |-> r, force |-> FALSE, migrate |-> NoTarget]

NoSave == [phase |-> "idle", wants |-> NoTarget, sent |-> NoTarget, answer |-> "none",
           refusal |-> "none", tries |-> 0, prompted |-> FALSE, fromForm |-> FALSE,
           bound |-> {}]

Blank == [target |-> NoWorkspace, row |-> [status |-> "active", name |-> CHOOSE n \in Names : TRUE]]

TypeOK ==
  /\ registry \in [Workspaces -> WorkspaceRows \cup {NoRow}]
  /\ source \in [Admins -> Workspaces \cup {NoWorkspace}]
  /\ loaded.workspaces = NoData \/ loaded.workspaces \in [Workspaces -> WorkspaceRows \cup {NoRow}]
  /\ loaded.bindings = NoData \/ loaded.bindings \in [Admins -> Workspaces \cup {NoWorkspace}]
  /\ editing \in Workspaces \cup {NoWorkspace}
  /\ form.target \in Workspaces \cup {NoWorkspace} /\ form.row \in WorkspaceRows
  /\ \A s \in Saves :
       /\ saves[s].phase \in Phases /\ saves[s].answer \in Answers
       /\ saves[s].phase # "idle" => saves[s].wants \in Payloads /\ saves[s].sent \in Payloads
       /\ saves[s].tries \in 0 .. 2 /\ saves[s].bound \subseteq Admins
  /\ latest \in 0 .. MaxSaves /\ foreign \in 0 .. MaxForeign

Init ==
  /\ registry = [w \in Workspaces |-> IF w \in Registered THEN Blank.row ELSE NoRow]
  /\ source = [a \in Admins |-> NoWorkspace]
  /\ loaded = [workspaces |-> NoData, bindings |-> NoData]
  /\ editing = NoWorkspace /\ form = Blank
  /\ saves = [s \in Saves |-> NoSave]
  /\ latest = 0 /\ foreign = 0

-----------------------------------------------------------------------------
(* The page *)

LoadWorkspaces ==
  /\ loaded.workspaces = NoData
  /\ loaded' = [loaded EXCEPT !.workspaces = registry]
  /\ UNCHANGED <<registry, source, editing, form, saves, latest, foreign>>

LoadBindings ==
  /\ loaded.bindings = NoData
  /\ loaded' = [loaded EXCEPT !.bindings = source]
  /\ UNCHANGED <<registry, source, editing, form, saves, latest, foreign>>

Listed == IF loaded.workspaces = NoData THEN {}
          ELSE {w \in Workspaces : loaded.workspaces[w] # NoRow}

BeginEditWorkspace(w) ==
  /\ w \in Listed
  /\ editing' = w
  /\ form' = [target |-> w, row |-> loaded.workspaces[w]]
  /\ UNCHANGED <<registry, source, loaded, saves, latest, foreign>>

ResetWorkspaceForm ==
  /\ editing' = NoWorkspace /\ form' = Blank
  /\ UNCHANGED <<registry, source, loaded, saves, latest, foreign>>

\* Typing: a registered workspace's identifier cannot be changed.
FillForm(w, r) ==
  /\ editing # NoWorkspace => w = editing
  /\ form' = [target |-> w, row |-> r]
  /\ UNCHANGED <<registry, source, loaded, editing, saves, latest, foreign>>

IsPending == latest # 0 /\ saves[latest].phase \in {"out", "read", "answered"}

Started(s, w, r, fromForm) ==
  [NoSave EXCEPT !.phase = "out", !.wants = Plain(w, r), !.sent = Plain(w, r), !.tries = 1,
                 !.fromForm = fromForm]

Next1(s) == saves[s].phase = "idle" /\ \A t \in Saves : t < s => saves[t].phase # "idle"

SubmitWorkspace(s) ==
  /\ Next1(s) /\ ~IsPending /\ form.target # NoWorkspace
  /\ saves' = [saves EXCEPT ![s] = Started(s, form.target, form.row, TRUE)]
  /\ latest' = s
  /\ UNCHANGED <<registry, source, loaded, editing, form, foreign>>

\* The buttons of a row.
StatusButtons(row) ==
  {IF row.status = "active" THEN "suspended" ELSE "active"} \cup ({"archived"} \ {row.status})

\* A row's button, which no save in progress disables, writes the whole row
\* back as the page has it.
QuickSetWorkspaceStatus(s, w, status) ==
  /\ Next1(s) /\ w \in Listed /\ status \in StatusButtons(loaded.workspaces[w])
  /\ saves' = [saves EXCEPT ![s] =
       Started(s, w, [loaded.workspaces[w] EXCEPT !.status = status], FALSE)]
  /\ latest' = s
  /\ UNCHANGED <<registry, source, loaded, editing, form, foreign>>

\* The page asks for a target only if the first refusal mentions a migration.
NeedsArchiveMigration(s) == saves[s].answer = "migrate"

\* Slip: what the form holds now is sent.
ResentForm(s, migrate, prompted) ==
  [saves EXCEPT ![s].phase = "out", ![s].tries = 2, ![s].prompted = prompted,
                ![s].sent = [target |-> IF form.target = NoWorkspace THEN @.target ELSE form.target,
                             row |-> form.row, force |-> TRUE, migrate |-> migrate],
                ![s].refusal = saves[s].answer, ![s].answer = "none"]

\* The payload the refusal was given to, forced.
Resent(s, migrate, prompted) ==
  [saves EXCEPT ![s].phase = "out", ![s].tries = 2, ![s].prompted = prompted,
                ![s].sent = [saves[s].wants EXCEPT !.force = TRUE, !.migrate = migrate],
                ![s].refusal = saves[s].answer, ![s].answer = "none"]

\* A first request refused with 409: the user is asked, and agrees.
Override(s) ==
  /\ saves[s].phase = "answered" /\ saves[s].tries = 1
  /\ saves[s].answer \in {"blocked", "migrate"}
  /\ IF NeedsArchiveMigration(s)
     THEN \E w \in Workspaces : saves' = Resent(s, w, TRUE)
     ELSE saves' = Resent(s, NoTarget, FALSE)
  /\ latest' = s
  /\ UNCHANGED <<registry, source, loaded, editing, form, foreign>>

\* Any other error, and a user who does not agree.
SaveFails(s) ==
  /\ saves[s].phase = "answered" /\ saves[s].answer # "saved"
  /\ saves' = [saves EXCEPT ![s].phase = "failed"]
  /\ UNCHANGED <<registry, source, loaded, editing, form, latest, foreign>>

\* The form is emptied, whatever it has come to hold; no list is refetched.
SaveSucceeds(s) ==
  /\ saves[s].phase = "answered" /\ saves[s].answer = "saved"
  /\ saves' = [saves EXCEPT ![s].phase = "done"]
  /\ IF saves[s].fromForm THEN editing' = NoWorkspace /\ form' = Blank
     ELSE UNCHANGED <<editing, form>>
  /\ UNCHANGED <<registry, source, loaded, latest, foreign>>

-----------------------------------------------------------------------------
(* The handlers *)

Sourced(w) == \E a \in Admins : source[a] = w

LifecycleGuardConflict(p) ==
  /\ p.row.status \in {"suspended", "archived"}
  /\ registry[p.target] = NoRow \/ registry[p.target].status # p.row.status
  /\ Sourced(p.target)

MustMigrate(p) == p.row.status = "archived" /\ p.force /\ Sourced(p.target)

Refusal(p) ==
  IF ~p.force /\ LifecycleGuardConflict(p) THEN "blocked"
  ELSE IF MustMigrate(p) /\ p.migrate = NoTarget THEN "migrate"
  ELSE IF /\ MustMigrate(p)
          /\ \/ p.migrate = p.target \/ registry[p.migrate] = NoRow
             \/ registry[p.migrate].status = "archived"
       THEN "invalid"
  ELSE "none"

\* Whose bindings the handler is going to retarget.
Retargeted(p) == IF MustMigrate(p) THEN {a \in Admins : source[a] = p.target} ELSE {}

\* A user with such a binding may be missing in the workspace it should go to.
Refusals(p) == {Refusal(p)} \cup (IF MustMigrate(p) /\ p.migrate # NoTarget THEN {"invalid"} ELSE {})

\* The handler has read the row and the bindings: it refuses, or goes on.
ReadForSave(s) ==
  /\ saves[s].phase = "out"
  /\ \E refusal \in Refusals(saves[s].sent) :
       saves' = IF refusal = "none"
                THEN [saves EXCEPT ![s].phase = "read", ![s].bound = Retargeted(saves[s].sent)]
                ELSE [saves EXCEPT ![s].phase = "answered", ![s].answer = refusal]
  /\ UNCHANGED <<registry, source, loaded, editing, form, latest, foreign>>

\* It retargets the bindings it has read, wherever they lead by now, and writes
\* the row; the answer can be lost.
WriteSave(s) ==
  /\ saves[s].phase = "read"
  /\ LET p == saves[s].sent
     IN /\ registry' = [registry EXCEPT ![p.target] = p.row]
        /\ source' = [a \in Admins |-> IF a \in saves[s].bound THEN p.migrate ELSE source[a]]
  /\ \E answer \in {"saved", "lost"} :
       saves' = [saves EXCEPT ![s].phase = "answered", ![s].answer = answer]
  /\ UNCHANGED <<loaded, editing, form, latest, foreign>>

\* A binding is made, moved or taken away.  A role is given where its user is
\* known, whatever the status of that workspace.
Bind(a, w) ==
  /\ foreign < MaxForeign /\ source[a] # w
  /\ w # NoWorkspace => registry[w] # NoRow
  /\ source' = [source EXCEPT ![a] = w]
  /\ foreign' = foreign + 1
  /\ UNCHANGED <<registry, loaded, editing, form, saves, latest>>

\* By the form of this page, whose list does not hear of it.
SubmitBinding(a, w) == w # NoWorkspace /\ Bind(a, w)

\* The rows of the page's list of bindings.
Bound == IF loaded.bindings = NoData THEN {}
         ELSE {a \in Admins : loaded.bindings[a] # NoWorkspace}

\* By the button of such a row, wherever the access comes from by then.
DeleteBinding(a) == a \in Bound /\ Bind(a, NoWorkspace)

\* By another administrator.
OtherBinding(a, w) == Bind(a, w)

\* Another administrator edits a row.
OtherEdit(w, r) ==
  /\ foreign < MaxForeign /\ registry[w] # NoRow /\ registry[w] # r
  /\ registry[w].status = r.status
  /\ registry' = [registry EXCEPT ![w] = r]
  /\ foreign' = foreign + 1
  /\ UNCHANGED <<source, loaded, editing, form, saves, latest>>

Server(s) == ReadForSave(s) \/ WriteSave(s)
Answering(s) == Override(s) \/ SaveFails(s) \/ SaveSucceeds(s)

Next ==
  \/ LoadWorkspaces \/ LoadBindings \/ ResetWorkspaceForm
  \/ \E w \in Workspaces : BeginEditWorkspace(w) \/ \E r \in WorkspaceRows : FillForm(w, r)
  \/ \E s \in Saves :
       \/ SubmitWorkspace(s) \/ Server(s) \/ Answering(s)
       \/ \E w \in Workspaces, status \in Statuses : QuickSetWorkspaceStatus(s, w, status)
  \/ \E a \in Admins, w \in Workspaces \cup {NoWorkspace} : 
       SubmitBinding(a, w) \/ OtherBinding(a, w)
  \/ \E a \in Admins : DeleteBinding(a)
  \/ \E w \in Workspaces, r \in WorkspaceRows : OtherEdit(w, r)

Fairness == \A s \in Saves : WF_vars(Server(s)) /\ WF_vars(Answering(s))

Spec == Init /\ [][Next]_vars /\ Fairness

-----------------------------------------------------------------------------
(* Properties *)

(* A forced save is the save that was refused: the payload the user was asked
   about, not what the form has come to hold since, and never without a
   refusal. *)
ForcedAsRefused ==
  \A s \in Saves :
    (saves[s].tries > 0 /\ saves[s].sent.force) =>
      /\ saves[s].refusal \in {"blocked", "migrate"}
      /\ saves[s].sent.target = saves[s].wants.target
      /\ saves[s].sent.row = saves[s].wants.row

(* "Enter the active workspace that should become the new inherited-access
   source before archiving this workspace": an archive is not given up for want
   of a target the user was never asked for. *)
MigrationTargetIsAskedFor ==
  \A s \in Saves :
    (saves[s].phase = "failed" /\ saves[s].answer = "migrate" /\ saves[s].tries = 2) => saves[s].prompted

(* "Blocked while inherited tenant access still depends on this source
   workspace": the row of a binding's source is not archived under it. *)
SourceIsNotArchived ==
  [][\A a \in Admins :
       (source[a] # NoWorkspace /\ source'[a] = source[a] /\ registry[source[a]] # NoRow
        /\ registry'[source[a]].status = "archived") => registry[source[a]].status = "archived"]_vars
=============================================================================
