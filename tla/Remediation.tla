---------------------------- MODULE Remediation ----------------------------
(***************************************************************************)
(* The remediation queue of one tenant/workspace: the request, approve and *)
(* reject handlers of apps/flask_api/blueprints/remediations.py and the    *)
(* worker of apps/worker/remediation_worker.py that claims approved        *)
(* actions, runs them through services/remediation and records the outcome.*)
(*                                                                         *)
(* A handler that locks its row and commits is one action.  Two handlers   *)
(* are several: the request reads before it inserts, and the worker claims *)
(* in one transaction, calls AWS outside any, and records in another.      *)
(***************************************************************************)
EXTENDS Naturals, Sequences, FiniteSets

CONSTANTS
  Actions,        \* action ids, chosen by the caller or derived from the request
  NoAction,
  Targets,        \* what an action is to do: fingerprint and action_type
  NeedsApproval,  \* targets whose check requires approval
  Clients,        \* concurrent calls of the API
  Demands,        \* what they ask for
  NoDemand,
  Workers,        \* remediation worker processes
  Limit,          \* --limit
  MaxAborts       \* bound: worker runs that die

Demand == [action : Actions, target : Targets, dryRun : {"yes", "no"},
           auto : {"yes", "no"}]

ASSUME ConstantsAssumption ==
  /\ IsFiniteSet(Actions)
  /\ NoAction \notin Actions
  /\ Demands \subseteq Demand
  /\ NoDemand \notin Demand
  /\ NeedsApproval \subseteq Targets
  /\ Limit \in Nat \ {0}
  /\ MaxAborts \in Nat

VARIABLES
  status,      \* remediation_actions.status, "none" when there is no row
  request,     \* fingerprint, action_type, dry_run of the row, set by the INSERT
  approvedAt,  \* approved_at, as the rank of the approval; 0 is NULL
  execution,   \* action_payload.execution.dry_run, once there is an outcome
  impact,      \* remediation_impact.action_status
  audit,       \* audit_log, the events of each action
  calls,       \* the operations carried out on AWS, outside the database
  demand,      \* of each client: the request it has looked up
  phase, todo, current, outcome, forced,   \* of each worker
  aborts

table == <<status, request, approvedAt, execution, impact, audit>>
worker == <<phase, todo, current, outcome, forced>>
vars == <<table, calls, demand, worker, aborts>>

-----------------------------------------------------------------------------
Final == {"completed", "failed"}
Statuses == {"none", "pending_approval", "approved", "rejected", "running"} \cup Final
Events == {"requested", "approved", "rejected"} \cup Final
Modes == {"none", "dry", "real"}

\* "idle", a claim not yet committed, between two actions, an outcome not recorded.
Phases == {"idle", "claiming", "working", "executed"}

Init ==
  /\ status = [a \in Actions |-> "none"]
  /\ request = [a \in Actions |-> NoDemand]
  /\ approvedAt = [a \in Actions |-> 0]
  /\ execution = [a \in Actions |-> "none"]
  /\ impact = [a \in Actions |-> "none"]
  /\ audit = [a \in Actions |-> <<>>]
  /\ calls = [a \in Actions |-> 0]
  /\ demand = [c \in Clients |-> NoDemand]
  /\ phase = [w \in Workers |-> "idle"]
  /\ todo = [w \in Workers |-> {}]
  /\ current = [w \in Workers |-> NoAction]
  /\ outcome = [w \in Workers |-> "none"]
  /\ forced = [w \in Workers |-> "no"]
  /\ aborts = 0

\* The rank of an approval given now.
NextRank == 1 + Cardinality({a \in Actions : approvedAt[a] # 0})

\* The API writes audit_log inside a savepoint: an error loses the event only.
BestEffort(a, event) ==
  \E logged \in {<<>>, <<event>>} : audit' = [audit EXCEPT ![a] = @ \o logged]

-----------------------------------------------------------------------------
(* POST /api/remediations/request.                                           *)

\* The finding is actionable and the action id unknown; every other answer (404,
\* 409, 400, the existing action) changes nothing.
LookUp(c, d) ==
  /\ demand[c] = NoDemand
  /\ status[d.action] = "none"
  /\ ~(d.auto = "yes" /\ d.target \in NeedsApproval)
  /\ demand' = [demand EXCEPT ![c] = d]
  /\ UNCHANGED <<table, calls, worker, aborts>>

\* Wrong variant: a status of the table that no handler and no worker looks for.
InitialQueued(d) == IF d.auto = "yes" THEN "queued" ELSE "pending_approval"

InitialStatus(d) == IF d.auto = "yes" THEN "approved" ELSE "pending_approval"

\* Wrong variant: ON CONFLICT DO UPDATE.
InsertOverwrites(c) ==
  LET d == demand[c]
      a == demand[c].action
  IN  /\ d # NoDemand
      /\ status' = [status EXCEPT ![a] = InitialStatus(d)]
      /\ request' = [request EXCEPT ![a] = d]
      /\ approvedAt' = [approvedAt EXCEPT ![a] = IF d.auto = "yes" THEN NextRank ELSE 0]
      /\ BestEffort(a, "requested")
      /\ demand' = [demand EXCEPT ![c] = NoDemand]
      /\ UNCHANGED <<execution, impact, calls, worker, aborts>>

\* INSERT ... ON CONFLICT DO NOTHING, the audit event, commit.  The event is
\* written, and "created" answered, also when another request has inserted the row.
InsertAction(c) ==
  LET d == demand[c]
      a == demand[c].action
  IN  /\ d # NoDemand
      /\ IF status[a] = "none"
         THEN /\ status' = [status EXCEPT ![a] = InitialStatus(d)]
              /\ request' = [request EXCEPT ![a] = d]
              /\ approvedAt' = [approvedAt EXCEPT
                                  ![a] = IF d.auto = "yes" THEN NextRank ELSE 0]
         ELSE UNCHANGED <<status, request, approvedAt>>
      /\ BestEffort(a, "requested")
      /\ demand' = [demand EXCEPT ![c] = NoDemand]
      /\ UNCHANGED <<execution, impact, calls, worker, aborts>>

\* The call fails between the two: its transaction is rolled back.
DropRequest(c) ==
  /\ demand[c] # NoDemand
  /\ demand' = [demand EXCEPT ![c] = NoDemand]
  /\ UNCHANGED <<table, calls, worker, aborts>>

-----------------------------------------------------------------------------
(* POST /api/remediations/approve and /reject: SELECT FOR UPDATE, only a      *)
(* pending action, UPDATE, audit, commit.                                     *)

\* Wrong variant: any action that exists may be approved.
ApproveAny(a) ==
  /\ status[a] # "none"
  /\ status' = [status EXCEPT ![a] = "approved"]
  /\ approvedAt' = [approvedAt EXCEPT ![a] = NextRank]
  /\ BestEffort(a, "approved")
  /\ UNCHANGED <<request, execution, impact, calls, demand, worker, aborts>>

ApproveAction(a) ==
  /\ status[a] = "pending_approval"
  /\ status' = [status EXCEPT ![a] = "approved"]
  /\ approvedAt' = [approvedAt EXCEPT ![a] = NextRank]
  /\ BestEffort(a, "approved")
  /\ UNCHANGED <<request, execution, impact, calls, demand, worker, aborts>>

RejectAction(a) ==
  /\ status[a] = "pending_approval"
  /\ status' = [status EXCEPT ![a] = "rejected"]
  /\ BestEffort(a, "rejected")
  /\ UNCHANGED <<request, approvedAt, execution, impact, calls, demand, worker, aborts>>

-----------------------------------------------------------------------------
(* One run of the worker (process_approved_actions).                         *)

\* Rows another worker is claiming are locked and skipped.
Locked(w) == IF phase[w] = "claiming" THEN todo[w] ELSE {}

\* Wrong variants: locked rows not skipped; the approval looked up in the audit log,
\* which may have lost it.
ClaimableLocked == {a \in Actions : status[a] = "approved"}
ClaimableByLog ==
  {a \in Actions : /\ status[a] = "approved"
                   /\ \E i \in 1 .. Len(audit[a]) : audit[a][i] = "approved"
                   /\ \A w \in Workers : a \notin Locked(w)}

Claimable == {a \in Actions : status[a] = "approved" /\ \A w \in Workers : a \notin Locked(w)}

\* Wrong variant: no ORDER BY.
AnyOrder(S, free) == S \subseteq free

\* ORDER BY approved_at ... LIMIT.
InOrder(S, free) == \A a \in S, b \in free \ S : approvedAt[a] <= approvedAt[b]

ClaimActions(w) ==
  /\ phase[w] = "idle"
  /\ \E S \in SUBSET Claimable, force \in {"yes", "no"} :
       /\ S # {}
       /\ Cardinality(S) <= Limit
       /\ S = Claimable \/ Cardinality(S) = Limit
       /\ InOrder(S, Claimable)
       /\ todo' = [todo EXCEPT ![w] = S]
       /\ forced' = [forced EXCEPT ![w] = force]
  /\ phase' = [phase EXCEPT ![w] = "claiming"]
  /\ UNCHANGED <<table, calls, demand, current, outcome, aborts>>

CommitClaim(w) ==
  /\ phase[w] = "claiming"
  /\ status' = [a \in Actions |-> IF a \in todo[w] THEN "running" ELSE status[a]]
  /\ phase' = [phase EXCEPT ![w] = "working"]
  /\ UNCHANGED <<request, approvedAt, execution, impact, audit, calls, demand,
                 todo, current, outcome, forced, aborts>>

\* Wrong variant: dry_run of the row is not looked at.
ModeOfWorker(w, a) == IF forced[w] = "yes" /\ a # NoAction THEN "dry" ELSE "real"

\* dry_run of the row unless --force-dry-run overrides it.
Mode(w, a) == IF forced[w] = "yes" \/ request[a].dryRun = "yes" THEN "dry" ELSE "real"

\* The executor answers: refused (type, payload, precondition) or failed, with or
\* without the operation carried out; or ok, which for a real run means that it was.
Execute(w, a) ==
  /\ phase[w] = "working"
  /\ a \in todo[w]
  /\ \E result \in Final, n \in {0, 1} :
       /\ n = 1 => Mode(w, a) = "real"
       /\ result = "completed" /\ Mode(w, a) = "real" => n = 1
       /\ calls' = [calls EXCEPT ![a] = @ + n]
       /\ outcome' = [outcome EXCEPT ![w] = result]
  /\ phase' = [phase EXCEPT ![w] = "executed"]
  /\ current' = [current EXCEPT ![w] = a]
  /\ UNCHANGED <<table, demand, todo, forced, aborts>>

\* Wrong variants: the impact row only of a success; only a success is recorded.
UpsertImpactOfSuccess(a, result) ==
  impact' = IF result = "completed" THEN [impact EXCEPT ![a] = result] ELSE impact
RecordableSuccess(w) == outcome[w] = "completed"

\* upsert_action_impact, as far as the action goes.
UpsertActionImpact(a, result) == impact' = [impact EXCEPT ![a] = result]

\* UPDATE ... WHERE status = 'running': any other row is a RuntimeError.
Recordable(w) == status[current[w]] = "running"

\* The outcome, its audit event and the impact row in one transaction; the run ends
\* with the last action.
RecordOutcome(w) ==
  LET a == current[w]
      rest == todo[w] \ {current[w]}
  IN  /\ phase[w] = "executed"
      /\ Recordable(w)
      /\ status' = [status EXCEPT ![a] = outcome[w]]
      /\ execution' = [execution EXCEPT ![a] = Mode(w, a)]
      /\ UpsertActionImpact(a, outcome[w])
      /\ audit' = [audit EXCEPT ![a] = Append(@, outcome[w])]
      /\ todo' = [todo EXCEPT ![w] = rest]
      /\ phase' = [phase EXCEPT ![w] = IF rest = {} THEN "idle" ELSE "working"]
      /\ current' = [current EXCEPT ![w] = NoAction]
      /\ outcome' = [outcome EXCEPT ![w] = "none"]
      /\ UNCHANGED <<request, approvedAt, calls, demand, forced, aborts>>

\* The process dies or an exception ends it (a network error of AWS, an error of
\* the database, the audit insert included): an open transaction is rolled back,
\* and what it had claimed stays running.
AbortWorker(w) ==
  /\ phase[w] # "idle"
  /\ aborts < MaxAborts
  /\ aborts' = aborts + 1
  /\ phase' = [phase EXCEPT ![w] = "idle"]
  /\ todo' = [todo EXCEPT ![w] = {}]
  /\ current' = [current EXCEPT ![w] = NoAction]
  /\ outcome' = [outcome EXCEPT ![w] = "none"]
  /\ UNCHANGED <<table, calls, demand, forced>>

-----------------------------------------------------------------------------
WorkerStep(w) ==
  \/ ClaimActions(w)
  \/ CommitClaim(w)
  \/ \E a \in Actions : Execute(w, a)
  \/ RecordOutcome(w)

Next ==
  \/ \E c \in Clients :
       \/ \E d \in Demands : LookUp(c, d)
       \/ InsertAction(c)
       \/ DropRequest(c)
  \/ \E a \in Actions : ApproveAction(a) \/ RejectAction(a)
  \/ \E w \in Workers : WorkerStep(w) \/ AbortWorker(w)

Spec == Init /\ [][Next]_vars

\* The worker is run again and again and goes on unless it dies; nobody has to
\* request, approve or reject anything.
FairSpec == Spec /\ \A w \in Workers : WF_vars(WorkerStep(w))

-----------------------------------------------------------------------------
TypeOK ==
  /\ status \in [Actions -> Statuses]
  /\ request \in [Actions -> Demand \cup {NoDemand}]
  /\ approvedAt \in [Actions -> Nat]
  /\ execution \in [Actions -> Modes]
  /\ impact \in [Actions -> Final \cup {"none"}]
  /\ audit \in [Actions -> Seq(Events)]
  /\ calls \in [Actions -> Nat]
  /\ demand \in [Clients -> Demand \cup {NoDemand}]
  /\ phase \in [Workers -> Phases]
  /\ todo \in [Workers -> SUBSET Actions]
  /\ current \in [Workers -> Actions \cup {NoAction}]
  /\ outcome \in [Workers -> Final \cup {"none"}]
  /\ forced \in [Workers -> {"yes", "no"}]
  /\ aborts \in Nat
  /\ \A w \in Workers : phase[w] = "executed" => current[w] \in Actions /\ outcome[w] \in Final

\* An operation is carried out at most once per action, whatever workers run at
\* the same time and whichever of them die half way.
AtMostOnce == \A a \in Actions : calls[a] <= 1

\* An operation is carried out only for an action that was requested for real and
\* approved, or that needs no approval: never for a pending or rejected one.
Sanctioned ==
  \A a \in Actions : calls[a] > 0 =>
    /\ status[a] \in {"running"} \cup Final
    /\ request[a].dryRun = "no"
    /\ approvedAt[a] # 0
    /\ request[a].target \in NeedsApproval => request[a].auto = "no"

\* The entries of the audit log about an action that tell one of the events.
Logged(a, events) == {i \in 1 .. Len(audit[a]) : audit[a][i] \in events}

\* The outcome of an action is told alike everywhere: the status, the audit log
\* (once) and the impact row; a real execution that completed was carried out.
OutcomeRecorded ==
  \A a \in Actions :
    /\ impact[a] = IF status[a] \in Final THEN status[a] ELSE "none"
    /\ \A i \in 1 .. Len(audit[a]) : audit[a][i] \in Final => audit[a][i] = status[a]
    /\ Cardinality(Logged(a, Final)) = IF status[a] \in Final THEN 1 ELSE 0
    /\ status[a] = "completed" /\ execution[a] = "real" => calls[a] = 1

\* A decision is taken once: the log never shows two of them for an action.
DecidedOnce ==
  \A a \in Actions : Cardinality(Logged(a, {"approved", "rejected"})) <= 1

\* Why the queue is safe.  Holding: a worker holds approved actions locked by its
\* claim, then running ones whose operation is not carried out before their turn, and
\* no other worker holds them.  Sound: an action not started has no effect, one past
\* approval has been approved, and only real requests have effects.  Told: impact row
\* and audit log follow the status.  Decisions: nothing is decided twice.
Holding(w) ==
  /\ phase[w] = "idle" => todo[w] = {}
  /\ phase[w] = "claiming" => \A a \in todo[w] : status[a] = "approved"
  /\ phase[w] \in {"working", "executed"} => \A a \in todo[w] : status[a] = "running"
  /\ phase[w] # "executed" => \A a \in todo[w] : calls[a] = 0
  /\ phase[w] = "executed" =>
       /\ current[w] \in todo[w]
       /\ \A a \in todo[w] \ {current[w]} : calls[a] = 0
       /\ outcome[w] \in Final
       /\ outcome[w] = "completed" /\ Mode(w, current[w]) = "real" => calls[current[w]] = 1

Sound(a) ==
  /\ status[a] \in {"none", "pending_approval", "approved", "rejected"} => calls[a] = 0
  /\ status[a] \in {"approved", "running"} \cup Final => approvedAt[a] # 0
  /\ status[a] # "none" =>
       /\ request[a] \in Demand
       /\ request[a].target \in NeedsApproval => request[a].auto = "no"
  /\ calls[a] > 0 => request[a].dryRun = "no"

Told(a) ==
  /\ impact[a] = IF status[a] \in Final THEN status[a] ELSE "none"
  /\ status[a] \in Final => \E i \in 1 .. Len(audit[a]) : Logged(a, Final) = {i}
  /\ status[a] \notin Final => Logged(a, Final) = {}
  /\ \A i \in 1 .. Len(audit[a]) : audit[a][i] \in Final => audit[a][i] = status[a]
  /\ status[a] = "completed" /\ execution[a] = "real" => calls[a] = 1

Decisions(a) ==
  LET decided == Logged(a, {"approved", "rejected"})
  IN  /\ status[a] \in {"none", "pending_approval"} => decided = {}
      /\ decided = {} \/ \E i \in 1 .. Len(audit[a]) : decided = {i}

Allowed(c) ==
  demand[c] # NoDemand /\ demand[c].target \in NeedsApproval => demand[c].auto = "no"

Disjoint(v, w) == todo[v] \cap todo[w] = {}

HoldInv == /\ \A w \in Workers : Holding(w)
           /\ \A v, w \in Workers : v # w => Disjoint(v, w)
SoundInv == /\ \A a \in Actions : Sound(a) /\ calls[a] <= 1
            /\ \A c \in Clients : Allowed(c)
LogInv == \A a \in Actions : Told(a) /\ Decisions(a)
QueueDiscipline == HoldInv /\ SoundInv /\ LogInv

\* An action is never started before one approved earlier, unless another worker
\* has locked that one or its approval came while the claim was open.
ClaimsInOrder ==
  [][\A w \in Workers : phase[w] = "idle" /\ phase'[w] = "claiming" =>
       \A a \in todo'[w], b \in Actions :
         status[b] = "approved" /\ approvedAt[b] < approvedAt[a] =>
           \E v \in Workers : b \in todo'[v]]_vars

\* The queue implements the life of an action: no interleaving of handlers, workers
\* and deaths shows another change of a status or of the world.
Abstract == INSTANCE RemediationLifecycle
ImplementsLifecycle == Abstract!Spec

\* A request creates an action once: asking again returns the action that exists
\* and logs nothing.
RequestedOnce ==
  \A a \in Actions : Cardinality(Logged(a, {"requested"})) <= 1

\* An approved action is started, although workers may die while they claim it.
ApprovedIsStarted == \A a \in Actions : status[a] = "approved" ~> status[a] # "approved"

\* An action a worker has started gets its outcome, unless that worker dies.
StartedIsSettled ==
  \A a \in Actions :
    (status[a] = "running" /\ \E w \in Workers : a \in todo[w])
      ~> (status[a] \in Final \/ \A w \in Workers : a \notin todo[w])
=============================================================================
