------------------------- MODULE TenantAdminProofs -------------------------
(* What a forced save is, for any number of saves, workspaces, users with     *)
(* inherited access and administrators who change the registry meanwhile.     *)
EXTENDS TenantAdmin, TLAPS

-----------------------------------------------------------------------------
(* The inductive invariant.                                                  *)

USE DEF Phases, Answers, Statuses

\* Kept folded, since the prover types what it knows to be Boolean.
Flags == BOOLEAN

SaveRecords ==
  [phase : Phases, wants : Payloads \cup {NoTarget}, sent : Payloads \cup {NoTarget},
   answer : Answers, refusal : Answers, tries : 0 .. 2, prompted : Flags,
   fromForm : Flags, bound : SUBSET Admins]

Registries == [Workspaces -> WorkspaceRows \cup {NoRow}]
Sources == [Admins -> Workspaces \cup {NoWorkspace}]

Typed ==
  /\ registry \in Registries /\ source \in Sources
  /\ loaded \in [workspaces : Registries \cup {NoData}, bindings : Sources \cup {NoData}]
  /\ editing \in Workspaces \cup {NoWorkspace}
  /\ form \in [target : Workspaces \cup {NoWorkspace}, row : WorkspaceRows]
  /\ saves \in [Saves -> SaveRecords]
  /\ latest \in 0 .. MaxSaves /\ foreign \in 0 .. MaxForeign

\* A save that has begun has its payloads; its answer is there once it has been
\* given.
Begun(v) ==
  /\ v.phase = "idle" => v.tries = 0
  /\ v.phase # "idle" => v.wants \in Payloads /\ v.sent \in Payloads
  /\ v.phase \in {"out", "read"} => v.answer = "none"

\* Bindings are read for a request that says where they should go.
Destined(v) ==
  v.bound # {} =>
    /\ v.phase \notin {"idle", "out"} /\ v.answer \notin {"blocked", "migrate"}
    /\ v.sent.migrate # NoTarget

AsRefused(v) ==
  (v.tries > 0 /\ v.sent.force) =>
    /\ v.refusal \in {"blocked", "migrate"}
    /\ v.sent.target = v.wants.target
    /\ v.sent.row = v.wants.row

SaveInv(v) == Begun(v) /\ Destined(v) /\ AsRefused(v)

TenantInv == Typed /\ \A s \in Saves : SaveInv(saves[s])

-----------------------------------------------------------------------------
(* The shapes a save goes through.                                           *)

LEMMA BlankType ==
  ASSUME TenantAssumption
  PROVE  Blank \in [target : Workspaces \cup {NoWorkspace}, row : WorkspaceRows]
  BY DEF Blank, WorkspaceRows, TenantAssumption

LEMMA PlainType ==
  ASSUME NEW w \in Workspaces, NEW r \in WorkspaceRows
  PROVE  /\ Plain(w, r) \in Payloads
         /\ Plain(w, r).force = FALSE
  BY DEF Plain, Payloads

LEMMA FlagsHave == TRUE \in Flags /\ FALSE \in Flags
  BY DEF Flags

LEMMA NoSaveType == NoSave \in SaveRecords /\ SaveInv(NoSave)
  BY DEF NoSave, SaveRecords, Flags, SaveInv, Begun, Destined, AsRefused

\* A save whose fields change within their sets is a save.
LEMMA FieldsChange ==
  ASSUME NEW v \in SaveRecords
  PROVE  /\ \A q \in Phases, n \in 0 .. 2 : [v EXCEPT !.phase = q, !.tries = n] \in SaveRecords
         /\ \A p, q \in Payloads : [v EXCEPT !.wants = p, !.sent = q] \in SaveRecords
         /\ \A p \in Payloads, b \in Flags :
              [v EXCEPT !.sent = p, !.prompted = b] \in SaveRecords
         /\ \A b \in Flags : [v EXCEPT !.fromForm = b] \in SaveRecords
         /\ \A x, y \in Answers : [v EXCEPT !.refusal = x, !.answer = y] \in SaveRecords
  <1> HIDE DEF Phases, Answers
  <1> QED BY DEF SaveRecords

LEMMA StartedType ==
  ASSUME NEW s \in Saves, NEW w \in Workspaces, NEW r \in WorkspaceRows, NEW b \in Flags
  PROVE  Started(s, w, r, b) \in SaveRecords /\ SaveInv(Started(s, w, r, b))
  <1> DEFINE p == Plain(w, r)
             u1 == [NoSave EXCEPT !.phase = "out", !.tries = 1]
             u2 == [u1 EXCEPT !.wants = p, !.sent = p]
             u == [u2 EXCEPT !.fromForm = b]
  <1>1. p \in Payloads /\ p.force = FALSE
    BY PlainType
  <1>2. Started(s, w, r, b) = u
    BY DEF Started, NoSave
  <1> HIDE DEF p
  <1>3. "out" \in Phases /\ 1 \in 0 .. 2
    OBVIOUS
  <1>4. u1 \in SaveRecords
    BY <1>3, NoSaveType, FieldsChange, Zenon
  <1>5. u1.phase = "out" /\ u1.tries = 1 /\ u1.answer = "none" /\ u1.bound = {}
    BY DEF NoSave
  <1> HIDE DEF u1
  <1>6. u2 \in SaveRecords
    BY <1>1, <1>4, FieldsChange, Zenon
  <1>7. /\ u2.phase = "out" /\ u2.tries = 1 /\ u2.answer = "none" /\ u2.bound = {}
        /\ u2.wants = p /\ u2.sent = p
    BY <1>4, <1>5 DEF SaveRecords
  <1> HIDE DEF u2
  <1>8. u \in SaveRecords
    BY <1>6, FieldsChange, Zenon
  <1>9. /\ u.phase = "out" /\ u.tries = 1 /\ u.answer = "none" /\ u.bound = {}
        /\ u.wants = p /\ u.sent = p
    BY <1>6, <1>7 DEF SaveRecords
  <1> QED BY <1>1, <1>2, <1>8, <1>9 DEF SaveInv, Begun, Destined, AsRefused

\* The save after a refusal: the same payload, forced.
LEMMA ResentType ==
  ASSUME NEW v \in SaveRecords, SaveInv(v), NEW m \in Workspaces \cup {NoTarget},
         NEW b \in Flags, v.phase = "answered", v.answer \in {"blocked", "migrate"},
         NEW u, u = [v EXCEPT !.phase = "out", !.tries = 2, !.prompted = b,
                       !.sent = [v.wants EXCEPT !.force = TRUE, !.migrate = m],
                       !.refusal = v.answer, !.answer = "none"]
  PROVE  u \in SaveRecords /\ SaveInv(u)
  <1> DEFINE p == [v.wants EXCEPT !.force = TRUE, !.migrate = m]
             u1 == [v EXCEPT !.phase = "out", !.tries = 2]
             u2 == [u1 EXCEPT !.sent = p, !.prompted = b]
  <1>1. v.wants \in Payloads
    BY DEF SaveInv, Begun
  <1>2. p \in Payloads /\ p.target = v.wants.target /\ p.row = v.wants.row
    BY <1>1 DEF Payloads
  <1>3. u = [u2 EXCEPT !.refusal = v.answer, !.answer = "none"]
    OBVIOUS
  <1> HIDE DEF p
  <1>4. /\ "out" \in Phases /\ 2 \in 0 .. 2 /\ "none" \in Answers /\ v.answer \in Answers
        /\ v.bound = {}
    BY DEF SaveInv, Destined
  <1>5. u1 \in SaveRecords
    BY <1>4, FieldsChange, Zenon
  <1>6. u1.phase = "out" /\ u1.tries = 2 /\ u1.bound = {} /\ u1.wants = v.wants
    BY <1>4 DEF SaveRecords
  <1> HIDE DEF u1
  <1>7. u2 \in SaveRecords
    BY <1>2, <1>5, FieldsChange, Zenon
  <1>8. /\ u2.phase = "out" /\ u2.tries = 2 /\ u2.bound = {} /\ u2.wants = v.wants
        /\ u2.sent = p
    BY <1>5, <1>6 DEF SaveRecords
  <1> HIDE DEF u2
  <1>9. u \in SaveRecords
    BY <1>3, <1>4, <1>7, FieldsChange, Zenon
  <1>10. /\ u.phase = "out" /\ u.tries = 2 /\ u.bound = {} /\ u.wants = v.wants
         /\ u.sent = p /\ u.refusal = v.answer /\ u.answer = "none"
    BY <1>3, <1>7, <1>8 DEF SaveRecords
  <1> QED BY <1>1, <1>2, <1>9, <1>10 DEF SaveInv, Begun, Destined, AsRefused

\* One save changes, into one that satisfies its part of the invariant.
LEMMA OneSave ==
  ASSUME TenantInv, NEW s \in Saves, NEW u \in SaveRecords, SaveInv(u),
         saves' = [saves EXCEPT ![s] = u]
  PROVE  saves' \in [Saves -> SaveRecords] /\ \A t \in Saves : SaveInv(saves'[t])
  BY DEF TenantInv, Typed

LEMMA SaveAt ==
  ASSUME TenantInv, NEW s \in Saves
  PROVE  saves[s] \in SaveRecords /\ SaveInv(saves[s])
  BY DEF TenantInv, Typed

-----------------------------------------------------------------------------
(* The steps that change a save.                                             *)

LEMMA SubmitInv ==
  ASSUME TenantInv, NEW s \in Saves, SubmitWorkspace(s)
  PROVE  saves' \in [Saves -> SaveRecords] /\ \A t \in Saves : SaveInv(saves'[t])
  <1>1. form.target \in Workspaces /\ form.row \in WorkspaceRows
    BY DEF SubmitWorkspace, TenantInv, Typed
  <1> QED BY <1>1, FlagsHave, StartedType, OneSave DEF SubmitWorkspace

LEMMA QuickSetInv ==
  ASSUME TenantInv, NEW s \in Saves, NEW w \in Workspaces, NEW status \in Statuses,
         QuickSetWorkspaceStatus(s, w, status)
  PROVE  saves' \in [Saves -> SaveRecords] /\ \A t \in Saves : SaveInv(saves'[t])
  <1> DEFINE r == [loaded.workspaces[w] EXCEPT !.status = status]
  <1>1. loaded.workspaces[w] \in WorkspaceRows
    BY DEF QuickSetWorkspaceStatus, Listed, TenantInv, Typed, Registries
  <1>2. r \in WorkspaceRows
    BY <1>1 DEF WorkspaceRows
  <1> HIDE DEF r
  <1>3. saves' = [saves EXCEPT ![s] = Started(s, w, r, FALSE)]
    BY DEF QuickSetWorkspaceStatus, r
  <1> QED BY <1>2, <1>3, FlagsHave, StartedType, OneSave

LEMMA OverrideInv ==
  ASSUME TenantInv, NEW s \in Saves, Override(s)
  PROVE  saves' \in [Saves -> SaveRecords] /\ \A t \in Saves : SaveInv(saves'[t])
  <1> DEFINE v == saves[s]
  <1>1. v \in SaveRecords /\ SaveInv(v)
    BY SaveAt
  <1>2. v.phase = "answered" /\ v.answer \in {"blocked", "migrate"}
    BY DEF Override
  <1>3. PICK m \in Workspaces \cup {NoTarget}, b \in Flags : saves' = Resent(s, m, b)
    BY FlagsHave DEF Override
  <1> DEFINE u == [v EXCEPT !.phase = "out", !.tries = 2, !.prompted = b,
                     !.sent = [v.wants EXCEPT !.force = TRUE, !.migrate = m],
                     !.refusal = v.answer, !.answer = "none"]
  <1>4. saves' = [saves EXCEPT ![s] = u]
    BY <1>3 DEF Resent, TenantInv, Typed
  <1>5. u \in SaveRecords /\ SaveInv(u)
    BY <1>1, <1>2, ResentType
  <1> QED BY <1>4, <1>5, OneSave

LEMMA EndInv ==
  ASSUME TenantInv, NEW s \in Saves, NEW p \in {"done", "failed"},
         saves[s].phase = "answered", saves' = [saves EXCEPT ![s].phase = p]
  PROVE  saves' \in [Saves -> SaveRecords] /\ \A t \in Saves : SaveInv(saves'[t])
  <1> DEFINE u == [saves[s] EXCEPT !.phase = p]
  <1>1. saves' = [saves EXCEPT ![s] = u]
    BY DEF TenantInv, Typed
  <1>2. u \in SaveRecords /\ SaveInv(u)
    BY SaveAt DEF SaveRecords, SaveInv, Begun, Destined, AsRefused
  <1> QED BY <1>1, <1>2, OneSave

\* A request that may go on and has bindings to retarget says where to.
LEMMA RetargetedHasTarget ==
  ASSUME NEW p \in Payloads, "none" \in Refusals(p), Retargeted(p) # {}
  PROVE  p.migrate # NoTarget
  BY DEF Refusals, Refusal, Retargeted

LEMMA RefusalsType ==
  ASSUME NEW p \in Payloads
  PROVE  Refusals(p) \subseteq {"none", "blocked", "migrate", "invalid"}
  BY DEF Refusals, Refusal

LEMMA ReadInv ==
  ASSUME TenantInv, NEW s \in Saves, ReadForSave(s)
  PROVE  saves' \in [Saves -> SaveRecords] /\ \A t \in Saves : SaveInv(saves'[t])
  <1> DEFINE v == saves[s]
  <1>1. v \in SaveRecords /\ SaveInv(v) /\ v.phase = "out" /\ v.sent \in Payloads
    BY SaveAt DEF ReadForSave, SaveInv, Begun
  <1>2. v.bound = {} /\ v.answer = "none"
    BY <1>1 DEF SaveInv, Begun, Destined
  <1>3. PICK refusal \in Refusals(v.sent) :
          saves' = IF refusal = "none"
                   THEN [saves EXCEPT ![s].phase = "read", ![s].bound = Retargeted(v.sent)]
                   ELSE [saves EXCEPT ![s].phase = "answered", ![s].answer = refusal]
    BY DEF ReadForSave
  <1>4. CASE refusal = "none"
    <2> DEFINE u == [v EXCEPT !.phase = "read", !.bound = Retargeted(v.sent)]
    <2>1. saves' = [saves EXCEPT ![s] = u]
      BY <1>3, <1>4 DEF TenantInv, Typed
    <2>2. Retargeted(v.sent) \in SUBSET Admins
      BY DEF Retargeted
    <2>3. Retargeted(v.sent) # {} => v.sent.migrate # NoTarget
      BY <1>1, <1>3, <1>4, RetargetedHasTarget
    <2>4. u \in SaveRecords /\ SaveInv(u)
      BY <1>1, <1>2, <2>2, <2>3 DEF SaveRecords, SaveInv, Begun, Destined, AsRefused
    <2> QED BY <2>1, <2>4, OneSave
  <1>5. CASE refusal # "none"
    <2> DEFINE u == [v EXCEPT !.phase = "answered", !.answer = refusal]
    <2>1. saves' = [saves EXCEPT ![s] = u]
      BY <1>3, <1>5 DEF TenantInv, Typed
    <2>2. refusal \in {"blocked", "migrate", "invalid"}
      BY <1>1, <1>3, <1>5, RefusalsType
    <2>3. u \in SaveRecords /\ SaveInv(u)
      BY <1>1, <1>2, <2>2 DEF SaveRecords, SaveInv, Begun, Destined, AsRefused
    <2> QED BY <2>1, <2>3, OneSave
  <1> QED BY <1>4, <1>5

LEMMA WriteInv ==
  ASSUME TenantInv, NEW s \in Saves, WriteSave(s)
  PROVE  /\ saves' \in [Saves -> SaveRecords] /\ \A t \in Saves : SaveInv(saves'[t])
         /\ registry' \in Registries /\ source' \in Sources
  <1> DEFINE v == saves[s]
  <1>1. v \in SaveRecords /\ SaveInv(v) /\ v.phase = "read" /\ v.sent \in Payloads
    BY SaveAt DEF WriteSave, SaveInv, Begun
  <1>2. PICK answer \in {"saved", "lost"} :
          saves' = [saves EXCEPT ![s].phase = "answered", ![s].answer = answer]
    BY DEF WriteSave
  <1> DEFINE u == [v EXCEPT !.phase = "answered", !.answer = answer]
  <1>3. saves' = [saves EXCEPT ![s] = u]
    BY <1>2 DEF TenantInv, Typed
  <1>4. u \in SaveRecords /\ SaveInv(u)
    BY <1>1 DEF SaveRecords, SaveInv, Begun, Destined, AsRefused
  <1>5. registry' \in Registries
    BY <1>1 DEF WriteSave, TenantInv, Typed, Registries, Payloads
  <1>6. v.bound # {} => v.sent.migrate \in Workspaces
    BY <1>1 DEF SaveInv, Destined, Payloads
  <1>7. source' = [a \in Admins |-> IF a \in v.bound THEN v.sent.migrate ELSE source[a]]
    BY DEF WriteSave
  <1>8. source' \in Sources
    BY <1>6, <1>7 DEF TenantInv, Typed, Sources
  <1> QED BY <1>3, <1>4, <1>5, <1>8, OneSave

-----------------------------------------------------------------------------
(* The invariant.                                                            *)

LEMMA InitInv ==
  ASSUME TenantAssumption, Init
  PROVE  TenantInv
  <1>1. Blank.row \in WorkspaceRows
    BY BlankType
  <1>2. Typed
    BY <1>1, BlankType, NoSaveType
       DEF Init, Typed, Registries, Sources, Saves, TenantAssumption
  <1>3. \A s \in Saves : SaveInv(saves[s])
    BY NoSaveType DEF Init
  <1> QED BY <1>2, <1>3 DEF TenantInv

LEMMA BindInv ==
  ASSUME TenantAssumption, TenantInv, NEW a \in Admins,
         NEW w \in Workspaces \cup {NoWorkspace}, Bind(a, w)
  PROVE  TenantInv'
  <1>1. source' \in Sources /\ foreign' \in 0 .. MaxForeign
    BY DEF Bind, TenantInv, Typed, Sources, TenantAssumption
  <1> QED BY <1>1 DEF Bind, TenantInv, Typed

\* A step that leaves the tables alone and takes the saves to saves of the kind
\* the invariant describes.
LEMMA SavesChange ==
  ASSUME TenantInv, saves' \in [Saves -> SaveRecords], \A t \in Saves : SaveInv(saves'[t]),
         registry' \in Registries, source' \in Sources,
         latest' \in 0 .. MaxSaves, editing' \in Workspaces \cup {NoWorkspace},
         form' \in [target : Workspaces \cup {NoWorkspace}, row : WorkspaceRows],
         UNCHANGED <<loaded, foreign>>
  PROVE  TenantInv'
  BY DEF TenantInv, Typed

LEMMA NextInv ==
  ASSUME TenantAssumption, TenantInv, Next
  PROVE  TenantInv'
  <1> USE DEF Saves
  <1>a. /\ registry \in Registries /\ source \in Sources /\ latest \in 0 .. MaxSaves
        /\ editing \in Workspaces \cup {NoWorkspace}
        /\ form \in [target : Workspaces \cup {NoWorkspace}, row : WorkspaceRows]
    BY DEF TenantInv, Typed
  <1>b. MaxSaves \in Nat /\ MaxForeign \in Nat
    BY DEF TenantAssumption
  <1>1. CASE LoadWorkspaces
    BY <1>1 DEF LoadWorkspaces, TenantInv, Typed
  <1>2. CASE LoadBindings
    BY <1>2 DEF LoadBindings, TenantInv, Typed
  <1>3. CASE ResetWorkspaceForm
    BY <1>3, BlankType DEF ResetWorkspaceForm, TenantInv, Typed
  <1>4. ASSUME NEW w \in Workspaces, BeginEditWorkspace(w) PROVE TenantInv'
    <2>1. loaded.workspaces[w] \in WorkspaceRows
      BY <1>4 DEF BeginEditWorkspace, Listed, TenantInv, Typed, Registries
    <2> QED BY <1>4, <2>1 DEF BeginEditWorkspace, TenantInv, Typed
  <1>5. ASSUME NEW w \in Workspaces, NEW r \in WorkspaceRows, FillForm(w, r) PROVE TenantInv'
    BY <1>5 DEF FillForm, TenantInv, Typed
  <1>6. ASSUME NEW s \in Saves, SubmitWorkspace(s) PROVE TenantInv'
    <2>1. saves' \in [Saves -> SaveRecords] /\ \A t \in Saves : SaveInv(saves'[t])
      BY <1>6, SubmitInv
    <2>2. latest' \in 0 .. MaxSaves /\ UNCHANGED <<registry, source, loaded, editing, form, foreign>>
      BY <1>6, <1>b DEF SubmitWorkspace
    <2> QED BY <1>a, <2>1, <2>2, SavesChange
  <1>7. ASSUME NEW s \in Saves, NEW w \in Workspaces, NEW status \in Statuses,
               QuickSetWorkspaceStatus(s, w, status)
        PROVE TenantInv'
    <2>1. saves' \in [Saves -> SaveRecords] /\ \A t \in Saves : SaveInv(saves'[t])
      BY <1>7, QuickSetInv
    <2>2. latest' \in 0 .. MaxSaves /\ UNCHANGED <<registry, source, loaded, editing, form, foreign>>
      BY <1>7, <1>b DEF QuickSetWorkspaceStatus
    <2> QED BY <1>a, <2>1, <2>2, SavesChange
  <1>8. ASSUME NEW s \in Saves, ReadForSave(s) PROVE TenantInv'
    BY <1>8, <1>a, ReadInv, SavesChange DEF ReadForSave
  <1>9. ASSUME NEW s \in Saves, WriteSave(s) PROVE TenantInv'
    BY <1>9, <1>a, WriteInv, SavesChange DEF WriteSave
  <1>10. ASSUME NEW s \in Saves, Override(s) PROVE TenantInv'
    <2>1. saves' \in [Saves -> SaveRecords] /\ \A t \in Saves : SaveInv(saves'[t])
      BY <1>10, OverrideInv
    <2>2. latest' \in 0 .. MaxSaves /\ UNCHANGED <<registry, source, loaded, editing, form, foreign>>
      BY <1>10, <1>b DEF Override
    <2> QED BY <1>a, <2>1, <2>2, SavesChange
  <1>11. ASSUME NEW s \in Saves, SaveFails(s) PROVE TenantInv'
    BY <1>11, <1>a, EndInv, SavesChange DEF SaveFails
  <1>12. ASSUME NEW s \in Saves, SaveSucceeds(s) PROVE TenantInv'
    <2>1. /\ editing' \in Workspaces \cup {NoWorkspace}
          /\ form' \in [target : Workspaces \cup {NoWorkspace}, row : WorkspaceRows]
      BY <1>12, <1>a, BlankType DEF SaveSucceeds
    <2> QED BY <1>12, <1>a, <2>1, EndInv, SavesChange DEF SaveSucceeds
  <1>13. ASSUME NEW a \in Admins, NEW w \in Workspaces \cup {NoWorkspace}, Bind(a, w)
         PROVE TenantInv'
    BY <1>13, BindInv
  <1>14. ASSUME NEW w \in Workspaces, NEW r \in WorkspaceRows, OtherEdit(w, r) PROVE TenantInv'
    <2>1. registry' \in Registries /\ foreign' \in 0 .. MaxForeign
      BY <1>14, <1>b DEF OtherEdit, TenantInv, Typed, Registries
    <2> QED BY <1>14, <2>1 DEF OtherEdit, TenantInv, Typed
  <1> QED
    BY <1>1, <1>2, <1>3, <1>4, <1>5, <1>6, <1>7, <1>8, <1>9, <1>10, <1>11, <1>12, <1>13, <1>14
    DEF Next, Server, Answering, SubmitBinding, OtherBinding, DeleteBinding

LEMMA StepInv ==
  ASSUME TenantAssumption, TenantInv, [Next]_vars
  PROVE  TenantInv'
  <1>1. CASE Next
    BY <1>1, NextInv
  <1>2. CASE UNCHANGED vars
    BY <1>2 DEF vars, TenantInv, Typed
  <1> QED BY <1>1, <1>2

(* The page and the registry keep to the invariant. *)
THEOREM Invariant ==
  ASSUME TenantAssumption
  PROVE  Spec => []TenantInv
  <1>1. TenantInv /\ [Next]_vars => TenantInv'
    BY StepInv
  <1> QED BY <1>1, InitInv, PTL DEF Spec

LEMMA InvTypes == TenantInv => TypeOK
  BY DEF TenantInv, Typed, TypeOK, Registries, Sources, SaveRecords, SaveInv, Begun

(* Every variable keeps its type: in particular a handler never sends inherited
   access to a workspace that is none. *)
THEOREM TypeCorrect ==
  ASSUME TenantAssumption
  PROVE  Spec => []TypeOK
  BY InvTypes, Invariant, PTL

LEMMA InvForced == TenantInv => ForcedAsRefused
  BY DEF TenantInv, SaveInv, AsRefused, ForcedAsRefused

(* A forced save is the payload that was refused, however many saves are under
   way, and whatever the form has come to hold. *)
THEOREM OnlyRefusedIsForced ==
  ASSUME TenantAssumption
  PROVE  Spec => []ForcedAsRefused
  BY InvForced, Invariant, PTL
=============================================================================
