------------------------- MODULE RemediationProofs -------------------------
(* What the remediation queue guarantees for any number of actions, clients  *)
(* and workers, however often a worker dies.                                 *)
EXTENDS Remediation, FiniteSetTheorems, SequenceTheorems, TLAPS

USE DEF Final, Modes, Phases

-----------------------------------------------------------------------------
(* Type correctness.                                                         *)

LEMMA RankIsNat == TypeOK => NextRank \in Nat \ {0}
  <1>1. SUFFICES ASSUME TypeOK PROVE NextRank \in Nat \ {0}
    OBVIOUS
  <1>2. IsFiniteSet({a \in Actions : approvedAt[a] # 0})
    BY FS_Subset, ConstantsAssumption
  <1>3. Cardinality({a \in Actions : approvedAt[a] # 0}) \in Nat
    BY <1>2, FS_CardinalityType
  <1> QED BY <1>3 DEF NextRank

\* A best-effort write leaves the log as it was or longer by the event.
LEMMA BestEffortType ==
  ASSUME TypeOK, NEW a \in Actions, NEW e \in Events, BestEffort(a, e)
  PROVE  audit' \in [Actions -> Seq(Events)]
  <1>1. PICK logged \in {<<>>, <<e>>} : audit' = [audit EXCEPT ![a] = @ \o logged]
    BY DEF BestEffort
  <1>2. audit[a] \in Seq(Events)
    BY DEF TypeOK
  <1>4. logged \in Seq(Events)
    <2>1. CASE logged = <<>>
      BY <2>1, EmptySeq
    <2>2. CASE logged = <<e>>
      BY <2>2
    <2> QED BY <2>1, <2>2
  <1>3. audit[a] \o logged \in Seq(Events)
    BY <1>2, <1>4, ConcatProperties
  <1> QED BY <1>1, <1>3 DEF TypeOK

LEMMA InitType == Init => TypeOK
  BY DEF Init, TypeOK, Statuses, Events

LEMMA ClientType ==
  ASSUME TypeOK, NEW c \in Clients,
         (\E d \in Demands : LookUp(c, d)) \/ InsertAction(c) \/ DropRequest(c)
  PROVE  TypeOK'
  <1>1. CASE \E d \in Demands : LookUp(c, d)
    BY <1>1, ConstantsAssumption DEF LookUp, TypeOK, table, worker
  <1>2. CASE InsertAction(c)
    <2> DEFINE d == demand[c]
               a == demand[c].action
    <2>1. d \in Demand /\ a \in Actions
      BY <1>2 DEF InsertAction, TypeOK, Demand
    <2>2. audit' \in [Actions -> Seq(Events)]
      BY <1>2, <2>1, BestEffortType DEF InsertAction, Events
    <2>3. InitialStatus(d) \in Statuses
      BY DEF InitialStatus, Statuses
    <2>4. /\ status' \in [Actions -> Statuses]
          /\ request' \in [Actions -> Demand \cup {NoDemand}]
          /\ approvedAt' \in [Actions -> Nat]
      <3>1. CASE status[a] = "none"
        <4>1. /\ status' = [status EXCEPT ![a] = InitialStatus(d)]
              /\ request' = [request EXCEPT ![a] = d]
              /\ approvedAt' = [approvedAt EXCEPT
                                  ![a] = IF d.auto = "yes" THEN NextRank ELSE 0]
          BY <1>2, <3>1 DEF InsertAction
        <4> HIDE DEF a, d
        <4> QED BY <4>1, <2>1, <2>3, RankIsNat DEF TypeOK
      <3>2. CASE status[a] # "none"
        BY <1>2, <3>2 DEF InsertAction, TypeOK
      <3> QED BY <3>1, <3>2
    <2> QED BY <1>2, <2>2, <2>4 DEF InsertAction, TypeOK, worker
  <1>3. CASE DropRequest(c)
    BY <1>3 DEF DropRequest, TypeOK, table, worker
  <1> QED BY <1>1, <1>2, <1>3

LEMMA DecisionType ==
  ASSUME TypeOK, NEW a \in Actions, ApproveAction(a) \/ RejectAction(a)
  PROVE  TypeOK'
  <1>1. CASE ApproveAction(a)
    <2>1. audit' \in [Actions -> Seq(Events)]
      BY <1>1, BestEffortType DEF ApproveAction, Events
    <2> QED BY <1>1, <2>1, RankIsNat DEF ApproveAction, TypeOK, Statuses, worker
  <1>2. CASE RejectAction(a)
    <2>1. audit' \in [Actions -> Seq(Events)]
      BY <1>2, BestEffortType DEF RejectAction, Events
    <2> QED BY <1>2, <2>1 DEF RejectAction, TypeOK, Statuses, worker
  <1> QED BY <1>1, <1>2

LEMMA WorkerType ==
  ASSUME TypeOK, NEW w \in Workers, WorkerStep(w) \/ AbortWorker(w)
  PROVE  TypeOK'
  <1>1. CASE ClaimActions(w)
    <2>1. PICK S \in SUBSET Claimable, force \in {"yes", "no"} :
            /\ todo' = [todo EXCEPT ![w] = S]
            /\ forced' = [forced EXCEPT ![w] = force]
      BY <1>1 DEF ClaimActions
    <2>2. S \in SUBSET Actions
      BY DEF Claimable
    <2> QED BY <1>1, <2>1, <2>2 DEF ClaimActions, TypeOK, table
  <1>2. CASE CommitClaim(w)
    BY <1>2 DEF CommitClaim, TypeOK, Statuses
  <1>3. ASSUME NEW a \in Actions, Execute(w, a) PROVE TypeOK'
    BY <1>3 DEF Execute, TypeOK, table
  <1>4. CASE RecordOutcome(w)
    <2> DEFINE a == current[w]
    <2>1. a \in Actions /\ outcome[w] \in Final
      BY <1>4 DEF RecordOutcome, TypeOK
    <2>2. audit' \in [Actions -> Seq(Events)]
      <3>1. Append(audit[a], outcome[w]) \in Seq(Events)
        BY <2>1, AppendProperties DEF TypeOK, Events
      <3> QED BY <1>4, <2>1, <3>1 DEF RecordOutcome, TypeOK
    <2>3. Mode(w, a) \in Modes
      BY DEF Mode
    <2>4. /\ status' = [status EXCEPT ![a] = outcome[w]]
          /\ execution' = [execution EXCEPT ![a] = Mode(w, a)]
          /\ impact' = [impact EXCEPT ![a] = outcome[w]]
      BY <1>4 DEF RecordOutcome, UpsertActionImpact
    <2>5. /\ status' \in [Actions -> Statuses]
          /\ execution' \in [Actions -> Modes]
          /\ impact' \in [Actions -> Final \cup {"none"}]
      <3> HIDE DEF a
      <3> QED BY <2>1, <2>3, <2>4 DEF TypeOK, Statuses
    <2>6. /\ todo' \in [Workers -> SUBSET Actions]
          /\ phase' \in [Workers -> Phases]
          /\ current' \in [Workers -> Actions \cup {NoAction}]
          /\ outcome' \in [Workers -> Final \cup {"none"}]
          /\ \A v \in Workers : phase'[v] = "executed" =>
               current'[v] \in Actions /\ outcome'[v] \in Final
      BY <1>4 DEF RecordOutcome, TypeOK
    <2> QED BY <1>4, <2>2, <2>5, <2>6 DEF RecordOutcome, TypeOK
  <1>5. CASE AbortWorker(w)
    BY <1>5 DEF AbortWorker, TypeOK, table
  <1> QED BY <1>1, <1>2, <1>3, <1>4, <1>5 DEF WorkerStep

\* Every column keeps its type, whatever handlers and workers do.
THEOREM TypeCorrect == Spec => []TypeOK
  <1>1. TypeOK /\ [Next]_vars => TypeOK'
    <2> SUFFICES ASSUME TypeOK, [Next]_vars PROVE TypeOK'
      OBVIOUS
    <2>1. CASE UNCHANGED vars
      BY <2>1 DEF vars, table, worker, TypeOK
    <2>2. CASE Next
      BY <2>2, ClientType, DecisionType, WorkerType DEF Next
    <2> QED BY <2>1, <2>2
  <1> QED BY <1>1, InitType, PTL DEF Spec

-----------------------------------------------------------------------------
(* The claims are exclusive and the operations carried out once.             *)

LEMMA InitHold == Init => HoldInv /\ SoundInv
  BY DEF Init, HoldInv, SoundInv, Holding, Disjoint, Sound, Allowed

\* What the API does: the workers are not touched, and of the status of an action
\* only that of one which no worker holds.
LEMMA HoldApi ==
  ASSUME TypeOK, HoldInv, UNCHANGED <<worker, calls>>,
         \A a \in Actions : status[a] \in {"approved", "running"} =>
           status'[a] = status[a] /\ request'[a] = request[a]
  PROVE  HoldInv'
  <1>1. \A w \in Workers : Holding(w)'
    <2> SUFFICES ASSUME NEW w \in Workers PROVE Holding(w)'
      OBVIOUS
    <2>1. /\ phase' = phase /\ todo' = todo /\ current' = current /\ outcome' = outcome
          /\ forced' = forced /\ calls' = calls
      BY DEF worker
    <2>2. Holding(w) /\ todo[w] \subseteq Actions
      BY DEF HoldInv, TypeOK
    <2>3. phase[w] = "executed" => Mode(w, current[w])' = Mode(w, current[w])
      BY <2>1, <2>2 DEF Holding, Mode
    <2> QED BY <2>1, <2>2, <2>3 DEF Holding
  <1>2. \A v, w \in Workers : v # w => Disjoint(v, w)'
    BY DEF HoldInv, Disjoint, worker
  <1> QED BY <1>1, <1>2 DEF HoldInv

LEMMA HoldClient ==
  ASSUME TypeOK, HoldInv, NEW c \in Clients,
         (\E d \in Demands : LookUp(c, d)) \/ InsertAction(c) \/ DropRequest(c)
  PROVE  HoldInv'
  <1>1. UNCHANGED <<worker, calls>>
    BY DEF LookUp, InsertAction, DropRequest
  <1>2. \A a \in Actions : status[a] # "none" =>
          status'[a] = status[a] /\ request'[a] = request[a]
    BY DEF LookUp, InsertAction, DropRequest, table, TypeOK
  <1> QED BY <1>1, <1>2, HoldApi

LEMMA HoldDecision ==
  ASSUME TypeOK, HoldInv, NEW a \in Actions, ApproveAction(a) \/ RejectAction(a)
  PROVE  HoldInv'
  <1>1. UNCHANGED <<worker, calls>>
    BY DEF ApproveAction, RejectAction
  <1>2. \A b \in Actions : status[b] \in {"approved", "running"} =>
          status'[b] = status[b] /\ request'[b] = request[b]
    BY DEF ApproveAction, RejectAction, TypeOK
  <1> QED BY <1>1, <1>2, HoldApi

\* A worker takes only rows that no claim has locked, and only approved ones.
LEMMA HoldClaim ==
  ASSUME TypeOK, HoldInv, SoundInv, NEW w \in Workers, ClaimActions(w)
  PROVE  HoldInv'
  <1>1. PICK S \in SUBSET Claimable, force \in {"yes", "no"} :
          /\ todo' = [todo EXCEPT ![w] = S]
          /\ forced' = [forced EXCEPT ![w] = force]
    BY DEF ClaimActions
  <1>2. /\ phase[w] = "idle" /\ phase' = [phase EXCEPT ![w] = "claiming"]
        /\ UNCHANGED <<status, request, calls, current, outcome>>
    BY DEF ClaimActions, table
  <1>3. \A a \in S : a \in Actions /\ status[a] = "approved" /\ calls[a] = 0
    BY DEF Claimable, SoundInv, Sound
  <1>4. ASSUME NEW v \in Workers PROVE todo[v] \cap S = {}
    <2>1. phase[v] \in Phases /\ Holding(v)
      BY DEF HoldInv, TypeOK
    <2>2. CASE phase[v] = "idle"
      BY <2>1, <2>2 DEF Holding
    <2>3. CASE phase[v] = "claiming"
      <3>1. Locked(v) = todo[v]
        BY <2>3 DEF Locked
      <3> QED BY <3>1 DEF Claimable
    <2>4. CASE phase[v] \in {"working", "executed"}
      BY <1>3, <2>1, <2>4 DEF Holding
    <2> QED BY <2>1, <2>2, <2>3, <2>4
  <1>5. Holding(w)'
    BY <1>1, <1>2, <1>3 DEF Holding, TypeOK
  <1>6. ASSUME NEW v \in Workers \ {w} PROVE Holding(v)'
    <2>1. Mode(v, current[v])' = Mode(v, current[v])
      BY <1>1, <1>2 DEF Mode, TypeOK
    <2> QED BY <1>1, <1>2, <2>1 DEF Holding, HoldInv, TypeOK
  <1>7. \A u, v \in Workers : u # v => Disjoint(u, v)'
    BY <1>1, <1>4 DEF HoldInv, Disjoint, TypeOK
  <1> QED BY <1>5, <1>6, <1>7 DEF HoldInv

LEMMA HoldCommit ==
  ASSUME TypeOK, HoldInv, NEW w \in Workers, CommitClaim(w)
  PROVE  HoldInv'
  <1>1. /\ phase[w] = "claiming" /\ phase' = [phase EXCEPT ![w] = "working"]
        /\ status' = [a \in Actions |-> IF a \in todo[w] THEN "running" ELSE status[a]]
        /\ UNCHANGED <<request, calls, todo, current, outcome, forced>>
    BY DEF CommitClaim
  <1>2. ASSUME NEW v \in Workers PROVE Holding(v)'
    <2>1. Mode(v, current[v])' = Mode(v, current[v])
      BY <1>1 DEF Mode
    <2>2. \A a \in todo[v] : a \in Actions
      BY DEF TypeOK
    <2>3. CASE v = w
      <3>1. phase'[v] = "working" /\ todo'[v] = todo[v]
        BY <1>1, <2>3 DEF TypeOK
      <3>2. \A a \in todo[v] : status'[a] = "running"
        BY <1>1, <2>2, <2>3
      <3>3. \A a \in todo[v] : calls'[a] = 0
        BY <1>1, <2>3 DEF HoldInv, Holding
      <3> QED BY <3>1, <3>2, <3>3 DEF Holding
    <2>4. CASE v # w
      <3>1. \A a \in todo[v] : status'[a] = status[a]
        BY <1>1, <2>2, <2>4 DEF HoldInv, Disjoint
      <3>2. /\ phase'[v] = phase[v] /\ current' = current /\ outcome' = outcome
            /\ todo' = todo /\ calls' = calls
        BY <1>1, <2>4 DEF TypeOK
      <3> QED BY <2>1, <3>1, <3>2 DEF Holding, HoldInv
    <2> QED BY <2>3, <2>4
  <1>3. \A u, v \in Workers : u # v => Disjoint(u, v)'
    BY <1>1 DEF HoldInv, Disjoint
  <1> QED BY <1>2, <1>3 DEF HoldInv

LEMMA HoldExecute ==
  ASSUME TypeOK, HoldInv, NEW w \in Workers, NEW a \in Actions, Execute(w, a)
  PROVE  HoldInv'
  <1>1. PICK result \in Final, n \in {0, 1} :
          /\ result = "completed" /\ Mode(w, a) = "real" => n = 1
          /\ calls' = [calls EXCEPT ![a] = @ + n]
          /\ outcome' = [outcome EXCEPT ![w] = result]
    BY DEF Execute
  <1>2. /\ phase[w] = "working" /\ a \in todo[w]
        /\ phase' = [phase EXCEPT ![w] = "executed"]
        /\ current' = [current EXCEPT ![w] = a]
        /\ UNCHANGED <<status, request, todo, forced>>
    BY DEF Execute, table
  <1>3. calls[a] = 0
    BY <1>2 DEF HoldInv, Holding
  <1>4. Holding(w)'
    <2>1. /\ current'[w] = a /\ outcome'[w] = result /\ phase'[w] = "executed"
          /\ todo'[w] = todo[w] /\ calls'[a] = n
      BY <1>1, <1>2, <1>3 DEF TypeOK
    <2>2. Mode(w, current[w])' = Mode(w, a)
      BY <1>2, <2>1 DEF Mode
    <2>3. \A b \in todo[w] \ {a} : calls'[b] = 0
      BY <1>1, <1>2 DEF HoldInv, Holding, TypeOK
    <2>4. \A b \in todo[w] : status'[b] = "running"
      BY <1>2 DEF HoldInv, Holding
    <2> QED BY <1>1, <1>2, <2>1, <2>2, <2>3, <2>4 DEF Holding
  <1>5. ASSUME NEW v \in Workers \ {w} PROVE Holding(v)'
    <2>1. a \notin todo[v]
      BY <1>2 DEF HoldInv, Disjoint
    <2>2. /\ phase'[v] = phase[v] /\ current'[v] = current[v] /\ outcome'[v] = outcome[v]
          /\ todo'[v] = todo[v] /\ forced'[v] = forced[v]
      BY <1>1, <1>2 DEF TypeOK
    <2>3. \A b \in todo[v] : calls'[b] = calls[b] /\ status'[b] = status[b]
      BY <1>1, <1>2, <2>1 DEF TypeOK
    <2>4. Mode(v, current[v])' = Mode(v, current[v])
      BY <1>2, <2>2 DEF Mode
    <2> QED BY <2>2, <2>3, <2>4 DEF HoldInv, Holding
  <1>6. \A u, v \in Workers : u # v => Disjoint(u, v)'
    BY <1>2 DEF HoldInv, Disjoint
  <1> QED BY <1>4, <1>5, <1>6 DEF HoldInv

LEMMA HoldRecord ==
  ASSUME TypeOK, HoldInv, NEW w \in Workers, RecordOutcome(w)
  PROVE  HoldInv'
  <1> DEFINE a == current[w]
             rest == todo[w] \ {a}
  <1>1. /\ phase[w] = "executed"
        /\ status' = [status EXCEPT ![a] = outcome[w]]
        /\ todo' = [todo EXCEPT ![w] = rest]
        /\ phase' = [phase EXCEPT ![w] = IF rest = {} THEN "idle" ELSE "working"]
        /\ current' = [current EXCEPT ![w] = NoAction]
        /\ outcome' = [outcome EXCEPT ![w] = "none"]
        /\ UNCHANGED <<request, calls, forced>>
    BY DEF RecordOutcome
  <1>2. a \in todo[w] /\ a \in Actions
    BY <1>1 DEF HoldInv, Holding, TypeOK
  <1> HIDE DEF a
  <1>3. Holding(w)'
    <2>1. \A b \in rest : status'[b] = "running" /\ calls'[b] = 0
      BY <1>1, <1>2 DEF HoldInv, Holding, TypeOK, a
    <2>2. todo'[w] = rest /\ phase'[w] = IF rest = {} THEN "idle" ELSE "working"
      BY <1>1 DEF TypeOK
    <2> QED BY <2>1, <2>2 DEF Holding
  <1>4. ASSUME NEW v \in Workers \ {w} PROVE Holding(v)'
    <2>1. a \notin todo[v]
      BY <1>2 DEF HoldInv, Disjoint
    <2>2. /\ phase'[v] = phase[v] /\ current'[v] = current[v] /\ outcome'[v] = outcome[v]
          /\ todo'[v] = todo[v] /\ forced'[v] = forced[v]
      BY <1>1 DEF TypeOK
    <2>3. \A b \in todo[v] : calls'[b] = calls[b] /\ status'[b] = status[b]
      BY <1>1, <2>1 DEF TypeOK
    <2>4. Mode(v, current[v])' = Mode(v, current[v])
      BY <1>1, <2>2 DEF Mode
    <2> QED BY <1>1, <2>2, <2>3, <2>4 DEF HoldInv, Holding
  <1>5. \A u, v \in Workers : u # v => Disjoint(u, v)'
    BY <1>1 DEF HoldInv, Disjoint, TypeOK
  <1> QED BY <1>3, <1>4, <1>5 DEF HoldInv

LEMMA HoldAbort ==
  ASSUME TypeOK, HoldInv, NEW w \in Workers, AbortWorker(w)
  PROVE  HoldInv'
  <1>1. /\ phase' = [phase EXCEPT ![w] = "idle"]
        /\ todo' = [todo EXCEPT ![w] = {}]
        /\ current' = [current EXCEPT ![w] = NoAction]
        /\ outcome' = [outcome EXCEPT ![w] = "none"]
        /\ UNCHANGED <<status, request, calls, forced>>
    BY DEF AbortWorker, table
  <1>2. Holding(w)'
    BY <1>1 DEF Holding, TypeOK
  <1>3. ASSUME NEW v \in Workers \ {w} PROVE Holding(v)'
    <2>1. Mode(v, current[v])' = Mode(v, current[v])
      BY <1>1 DEF Mode, TypeOK
    <2> QED BY <1>1, <2>1 DEF HoldInv, Holding, TypeOK
  <1>4. \A u, v \in Workers : u # v => Disjoint(u, v)'
    BY <1>1 DEF HoldInv, Disjoint, TypeOK
  <1> QED BY <1>2, <1>3, <1>4 DEF HoldInv

-----------------------------------------------------------------------------
LEMMA RowUntouched ==
  ASSUME NEW a \in Actions, Sound(a), calls[a] <= 1,
         status'[a] = status[a], request'[a] = request[a],
         approvedAt'[a] = approvedAt[a], calls'[a] = calls[a]
  PROVE  Sound(a)' /\ calls'[a] <= 1
  BY DEF Sound

LEMMA SoundClient ==
  ASSUME TypeOK, SoundInv, NEW c \in Clients,
         (\E d \in Demands : LookUp(c, d)) \/ InsertAction(c) \/ DropRequest(c)
  PROVE  SoundInv'
  <1>1. CASE \E d \in Demands : LookUp(c, d)
    <2>1. PICK d \in Demands : LookUp(c, d)
      BY <1>1
    <2>2. \A b \in Actions : Sound(b)' /\ calls'[b] <= 1
      BY <2>1, RowUntouched DEF LookUp, table, SoundInv
    <2>3. d \in Demand /\ ~(d.auto = "yes" /\ d.target \in NeedsApproval)
      BY <2>1, ConstantsAssumption DEF LookUp
    <2>4. d.auto \in {"yes", "no"}
      BY <2>3 DEF Demand
    <2>5. demand' = [demand EXCEPT ![c] = d]
      BY <2>1 DEF LookUp
    <2>6. \A b \in Clients : Allowed(b)'
      BY <2>3, <2>4, <2>5 DEF SoundInv, Allowed, TypeOK
    <2> QED BY <2>2, <2>6 DEF SoundInv
  <1>2. CASE InsertAction(c)
    <2>5. demand[c] \in Demand /\ demand[c].action \in Actions
      BY <1>2 DEF InsertAction, TypeOK, Demand
    <2>1. PICK d \in Demand, a \in Actions :
            d = demand[c] /\ a = demand[c].action /\ Allowed(c)
      BY <2>5 DEF SoundInv
    <2>2. \A b \in Clients : Allowed(b)'
      BY <1>2 DEF InsertAction, SoundInv, Allowed, TypeOK
    <2>3. CASE status[a] # "none"
      BY <1>2, <2>1, <2>2, <2>3, RowUntouched DEF InsertAction, SoundInv
    <2>4. CASE status[a] = "none"
      <3>1. /\ status' = [status EXCEPT ![a] = InitialStatus(d)]
            /\ request' = [request EXCEPT ![a] = d]
            /\ approvedAt' = [approvedAt EXCEPT ![a] = IF d.auto = "yes" THEN NextRank ELSE 0]
            /\ calls' = calls
        BY <1>2, <2>1, <2>4 DEF InsertAction
      <3>2. d # NoDemand
        BY <1>2, <2>1 DEF InsertAction
      <3>3. d.target \in NeedsApproval => d.auto = "no"
        BY <2>1, <3>2 DEF Allowed
      <3>4. calls[a] = 0
        BY <2>1, <2>4 DEF SoundInv, Sound
      <3>5. /\ status'[a] = InitialStatus(d) /\ request'[a] = d /\ calls'[a] = 0
            /\ approvedAt'[a] = IF d.auto = "yes" THEN NextRank ELSE 0
        BY <2>1, <3>1, <3>4 DEF TypeOK
      <3>6. Sound(a)' /\ calls'[a] <= 1
        BY <2>1, <3>3, <3>5, RankIsNat DEF Sound, InitialStatus
      <3>7. ASSUME NEW b \in Actions \ {a} PROVE Sound(b)' /\ calls'[b] <= 1
        <4>1. /\ status'[b] = status[b] /\ request'[b] = request[b]
              /\ approvedAt'[b] = approvedAt[b] /\ calls'[b] = calls[b]
          BY <2>1, <3>1 DEF TypeOK
        <4> QED BY <4>1, RowUntouched DEF SoundInv
      <3> QED BY <2>2, <3>6, <3>7 DEF SoundInv
    <2> QED BY <2>3, <2>4
  <1>3. CASE DropRequest(c)
    <2>1. \A b \in Actions : Sound(b)' /\ calls'[b] <= 1
      BY <1>3, RowUntouched DEF DropRequest, table, SoundInv
    <2>2. \A b \in Clients : Allowed(b)'
      BY <1>3 DEF DropRequest, SoundInv, Allowed, TypeOK
    <2> QED BY <2>1, <2>2 DEF SoundInv
  <1> QED BY <1>1, <1>2, <1>3

LEMMA SoundDecision ==
  ASSUME TypeOK, SoundInv, NEW a \in Actions, ApproveAction(a) \/ RejectAction(a)
  PROVE  SoundInv'
  <1>1. \A b \in Clients : Allowed(b)'
    BY DEF ApproveAction, RejectAction, SoundInv, Allowed
  <1>2. ASSUME NEW b \in Actions \ {a} PROVE Sound(b)' /\ calls'[b] <= 1
    <2>1. /\ status'[b] = status[b] /\ request'[b] = request[b]
          /\ approvedAt'[b] = approvedAt[b] /\ calls'[b] = calls[b]
      BY DEF ApproveAction, RejectAction, TypeOK
    <2> QED BY <2>1, RowUntouched DEF SoundInv
  <1>3. Sound(a)' /\ calls'[a] <= 1
    <2>1. /\ status[a] = "pending_approval" /\ calls'[a] = calls[a] /\ request'[a] = request[a]
          /\ \/ status'[a] = "rejected"
             \/ status'[a] = "approved" /\ approvedAt'[a] = NextRank
      BY DEF ApproveAction, RejectAction, TypeOK
    <2> QED BY <2>1, RankIsNat DEF SoundInv, Sound
  <1> QED BY <1>1, <1>2, <1>3 DEF SoundInv

LEMMA SoundWorker ==
  ASSUME TypeOK, HoldInv, SoundInv, NEW w \in Workers, WorkerStep(w) \/ AbortWorker(w)
  PROVE  SoundInv'
  <1>1. /\ \A c \in Clients : Allowed(c)'
        /\ UNCHANGED <<request, approvedAt>>
    BY DEF WorkerStep, AbortWorker, ClaimActions, CommitClaim, Execute, RecordOutcome,
           table, SoundInv, Allowed
  <1>2. CASE ClaimActions(w) \/ AbortWorker(w)
    BY <1>1, <1>2, RowUntouched DEF ClaimActions, AbortWorker, table, SoundInv
  <1>3. CASE CommitClaim(w)
    <2>1. \A a \in todo[w] : a \in Actions /\ status[a] = "approved"
      BY <1>3 DEF CommitClaim, HoldInv, Holding, TypeOK
    <2>2. /\ status' = [a \in Actions |-> IF a \in todo[w] THEN "running" ELSE status[a]]
          /\ calls' = calls
      BY <1>3 DEF CommitClaim
    <2>3. \A a \in Actions : Sound(a)' /\ calls'[a] <= 1
      BY <1>1, <2>1, <2>2 DEF Sound, SoundInv
    <2> QED BY <1>1, <2>3 DEF SoundInv
  <1>4. ASSUME NEW a \in Actions, Execute(w, a) PROVE SoundInv'
    <2>1. PICK n \in {0, 1} : /\ n = 1 => Mode(w, a) = "real"
                              /\ calls' = [calls EXCEPT ![a] = @ + n]
      BY <1>4 DEF Execute
    <2>2. status[a] = "running" /\ calls[a] = 0 /\ status' = status
      BY <1>4 DEF Execute, HoldInv, Holding, table
    <2>3. n = 1 => request[a].dryRun # "yes"
      BY <2>1 DEF Mode
    <2>4. request[a].dryRun \in {"yes", "no"}
      BY <2>2 DEF SoundInv, Sound, Demand
    <2>5. calls'[a] = n /\ \A b \in Actions \ {a} : calls'[b] = calls[b]
      BY <2>1, <2>2 DEF TypeOK
    <2>6. \A b \in Actions : Sound(b)' /\ calls'[b] <= 1
      BY <1>1, <2>2, <2>3, <2>4, <2>5 DEF Sound, SoundInv
    <2> QED BY <1>1, <2>6 DEF SoundInv
  <1>5. CASE RecordOutcome(w)
    <2>1. PICK a \in Actions : a = current[w] /\ outcome[w] \in Final /\ status[a] = "running"
      BY <1>5 DEF RecordOutcome, Recordable, TypeOK
    <2>2. status' = [status EXCEPT ![a] = outcome[w]] /\ calls' = calls
      BY <1>5, <2>1 DEF RecordOutcome
    <2>3. status'[a] \in Final /\ \A b \in Actions \ {a} : status'[b] = status[b]
      BY <2>1, <2>2 DEF TypeOK
    <2>4. \A b \in Actions : Sound(b)' /\ calls'[b] <= 1
      BY <1>1, <2>1, <2>2, <2>3 DEF Sound, SoundInv
    <2> QED BY <1>1, <2>4 DEF SoundInv
  <1> QED BY <1>2, <1>3, <1>4, <1>5 DEF WorkerStep

CoreInv == TypeOK /\ HoldInv /\ SoundInv

LEMMA CoreStep == CoreInv /\ [Next]_vars => CoreInv'
  <1> SUFFICES ASSUME CoreInv, [Next]_vars PROVE CoreInv'
    OBVIOUS
  <1>1. CASE UNCHANGED vars
    <2>1. TypeOK'
      BY <1>1 DEF CoreInv, TypeOK, vars, table, worker
    <2>2. HoldInv'
      BY <1>1, HoldApi DEF CoreInv, vars, table
    <2>3. SoundInv'
      BY <1>1, RowUntouched DEF CoreInv, SoundInv, Allowed, vars, table
    <2> QED BY <2>1, <2>2, <2>3 DEF CoreInv
  <1>2. ASSUME NEW c \in Clients,
               (\E d \in Demands : LookUp(c, d)) \/ InsertAction(c) \/ DropRequest(c)
        PROVE CoreInv'
    BY <1>2, ClientType, HoldClient, SoundClient DEF CoreInv
  <1>3. ASSUME NEW a \in Actions, ApproveAction(a) \/ RejectAction(a) PROVE CoreInv'
    BY <1>3, DecisionType, HoldDecision, SoundDecision DEF CoreInv
  <1>4. ASSUME NEW w \in Workers, WorkerStep(w) \/ AbortWorker(w) PROVE CoreInv'
    <2>1. TypeOK' /\ SoundInv'
      BY <1>4, WorkerType, SoundWorker DEF CoreInv
    <2>2. CASE ClaimActions(w)
      BY <2>2, HoldClaim, <2>1 DEF CoreInv
    <2>3. CASE CommitClaim(w)
      BY <2>3, HoldCommit, <2>1 DEF CoreInv
    <2>4. ASSUME NEW a \in Actions, Execute(w, a) PROVE CoreInv'
      BY <2>4, HoldExecute, <2>1 DEF CoreInv
    <2>5. CASE RecordOutcome(w)
      BY <2>5, HoldRecord, <2>1 DEF CoreInv
    <2>6. CASE AbortWorker(w)
      BY <2>6, HoldAbort, <2>1 DEF CoreInv
    <2> QED BY <1>4, <2>2, <2>3, <2>4, <2>5, <2>6 DEF WorkerStep
  <1> QED BY <1>1, <1>2, <1>3, <1>4 DEF Next

LEMMA CoreCorrect == Spec => []CoreInv
  <1>1. Init => CoreInv
    BY InitType, InitHold DEF CoreInv
  <1> QED BY <1>1, CoreStep, PTL DEF Spec

\* No operation is carried out twice, by the same worker or by two, whichever of
\* them die with actions claimed.
THEOREM OnlyOnce == Spec => []AtMostOnce
  <1>1. CoreInv => AtMostOnce
    BY DEF CoreInv, SoundInv, AtMostOnce
  <1> QED BY <1>1, CoreCorrect, PTL

\* An operation is carried out only for what was requested for real and approved.
THEOREM OnlySanctioned == Spec => []Sanctioned
  <1>1. CoreInv => Sanctioned
    <2> SUFFICES ASSUME CoreInv, NEW a \in Actions, calls[a] > 0
                 PROVE  /\ status[a] \in {"running"} \cup Final
                        /\ request[a].dryRun = "no"
                        /\ approvedAt[a] # 0
                        /\ request[a].target \in NeedsApproval => request[a].auto = "no"
      BY DEF Sanctioned
    <2>1. Sound(a) /\ status[a] \in Statuses
      BY DEF CoreInv, SoundInv, TypeOK
    <2>2. status[a] \in {"running"} \cup Final
      BY <2>1 DEF Sound, Statuses
    <2> QED BY <2>1, <2>2 DEF Sound
  <1> QED BY <1>1, CoreCorrect, PTL

-----------------------------------------------------------------------------
(* The audit log.                                                            *)

\* The places of a log that tell one of the events E, after one more entry.
LEMMA LoggedAppend ==
  ASSUME NEW s \in Seq(Events), NEW e \in Events, NEW E
  PROVE  LET t == Append(s, e)
             old == {i \in 1 .. Len(s) : s[i] \in E}
             new == {i \in 1 .. Len(t) : t[i] \in E}
         IN  /\ Len(t) = Len(s) + 1
             /\ new = IF e \in E THEN old \cup {Len(t)} ELSE old
             /\ \A i \in 1 .. Len(s) : t[i] = s[i]
             /\ t[Len(t)] = e
  <1> DEFINE t == Append(s, e)
  <1>1. /\ Len(t) = Len(s) + 1
        /\ \A i \in 1 .. Len(s) : t[i] = s[i]
        /\ t[Len(t)] = e
    BY AppendProperties
  <1>2. Len(s) \in Nat
    BY LenProperties
  <1> HIDE DEF t
  <1>3. {i \in 1 .. Len(t) : t[i] \in E} =
          IF e \in E THEN {i \in 1 .. Len(s) : s[i] \in E} \cup {Len(t)}
                     ELSE {i \in 1 .. Len(s) : s[i] \in E}
    BY <1>1, <1>2
  <1> QED BY <1>1, <1>3 DEF t

LEMMA BestEffortEffect ==
  ASSUME TypeOK, NEW a \in Actions, NEW e \in Events, BestEffort(a, e)
  PROVE  /\ audit'[a] = audit[a] \/ audit'[a] = Append(audit[a], e)
         /\ \A b \in Actions \ {a} : audit'[b] = audit[b]
  <1>1. PICK logged \in {<<>>, <<e>>} : audit' = [audit EXCEPT ![a] = @ \o logged]
    BY DEF BestEffort
  <1>2. audit[a] \in Seq(Events)
    BY DEF TypeOK
  <1>3. audit'[a] = audit[a] \o logged /\ \A b \in Actions \ {a} : audit'[b] = audit[b]
    BY <1>1 DEF TypeOK
  <1>4. CASE logged = <<>>
    <2>1. audit[a] \o <<>> = audit[a]
      BY <1>2, ConcatEmptySeq
    <2> QED BY <1>3, <1>4, <2>1
  <1>5. CASE logged = <<e>>
    <2>1. audit[a] \o <<e>> = Append(audit[a], e)
      BY <1>2, AppendIsConcat
    <2> QED BY <1>3, <1>5, <2>1
  <1> QED BY <1>3, <1>4, <1>5

LEMMA LogUntouched ==
  ASSUME NEW a \in Actions, Told(a), Decisions(a),
         audit'[a] = audit[a], status'[a] = status[a], impact'[a] = impact[a],
         execution'[a] = execution[a], status[a] \in Final => calls'[a] = calls[a]
  PROVE  Told(a)' /\ Decisions(a)'
  <1>1. \A E : Logged(a, E)' = Logged(a, E)
    BY DEF Logged
  <1> QED BY <1>1 DEF Told, Decisions

\* An event of the API: it is no outcome, and when it is a decision, it is the first.
LEMMA LogByApi ==
  ASSUME NEW a \in Actions, audit[a] \in Seq(Events), Told(a), Decisions(a),
         NEW e \in Events \ Final,
         audit'[a] = audit[a] \/ audit'[a] = Append(audit[a], e),
         impact'[a] = impact[a], execution'[a] = execution[a], calls'[a] = calls[a],
         \/ status'[a] = status[a] /\ e = "requested"
         \/ /\ status[a] = "none" /\ e = "requested"
            /\ status'[a] \in {"pending_approval", "approved"}
         \/ /\ status[a] = "pending_approval" /\ e \in {"approved", "rejected"}
            /\ status'[a] \in {"approved", "rejected"}
  PROVE  Told(a)' /\ Decisions(a)'
  <1> DEFINE D == {"approved", "rejected"}
             n == Len(audit[a]) + 1
  <1>1. /\ status[a] \in Final <=> status'[a] \in Final
        /\ status[a] \in Final => status'[a] = status[a]
    OBVIOUS
  <1>2. CASE audit'[a] = audit[a]
    <2>1. \A E : Logged(a, E)' = Logged(a, E)
      BY <1>2 DEF Logged
    <2> QED BY <1>1, <1>2, <2>1 DEF Told, Decisions
  <1>3. CASE audit'[a] = Append(audit[a], e)
    <2>1. /\ Len(audit'[a]) = n /\ audit'[a][n] = e /\ n \in Nat
          /\ \A i \in 1 .. Len(audit[a]) : audit'[a][i] = audit[a][i]
      BY <1>3, LoggedAppend, LenProperties
    <2>2. Logged(a, Final)' = Logged(a, Final)
      <3>1. e \notin Final
        OBVIOUS
      <3> QED BY <1>3, <3>1, LoggedAppend DEF Logged
    <2>3. Logged(a, D)' = IF e \in D THEN Logged(a, D) \cup {n} ELSE Logged(a, D)
      BY <1>3, <2>1, LoggedAppend DEF Logged
    <2>4. Told(a)'
      <3>1. \A i \in 1 .. Len(audit'[a]) : audit'[a][i] \in Final => audit'[a][i] = status'[a]
        BY <1>1, <2>1 DEF Told
      <3>2. status'[a] \in Final => \E i \in 1 .. Len(audit'[a]) : Logged(a, Final)' = {i}
        <4>1. SUFFICES ASSUME status'[a] \in Final
                       PROVE  \E i \in 1 .. Len(audit'[a]) : Logged(a, Final)' = {i}
          OBVIOUS
        <4>2. PICK i \in 1 .. Len(audit[a]) : Logged(a, Final) = {i}
          BY <1>1, <4>1 DEF Told
        <4>3. i \in 1 .. Len(audit'[a])
          BY <2>1
        <4> QED BY <2>2, <4>2, <4>3
      <3> QED BY <1>1, <2>2, <3>1, <3>2 DEF Told
    <2>5. Decisions(a)'
      <3>1. CASE e = "requested"
        <4>1. Logged(a, D)' = Logged(a, D)
          BY <2>3, <3>1
        <4>2. status'[a] \in {"none", "pending_approval"} => Logged(a, D) = {}
          BY <3>1 DEF Decisions
        <4>3. Logged(a, D) = {} \/ \E i \in 1 .. Len(audit'[a]) : Logged(a, D) = {i}
          BY <2>1 DEF Decisions
        <4> QED BY <4>1, <4>2, <4>3 DEF Decisions
      <3>2. CASE e \in D
        <4>1. Logged(a, D)' = {n}
          BY <2>3, <3>2 DEF Decisions
        <4>2. n \in 1 .. Len(audit'[a])
          BY <2>1
        <4> QED BY <3>2, <4>1, <4>2 DEF Decisions
      <3> QED BY <3>1, <3>2
    <2> QED BY <2>4, <2>5
  <1> QED BY <1>2, <1>3

LEMMA InitLog == Init => LogInv
  <1> SUFFICES ASSUME Init, NEW a \in Actions PROVE Told(a) /\ Decisions(a)
    BY DEF LogInv
  <1>1. status[a] = "none" /\ impact[a] = "none" /\ audit[a] = <<>>
    BY DEF Init
  <1>2. 1 .. Len(audit[a]) = {}
    BY <1>1
  <1>3. \A E : Logged(a, E) = {}
    BY <1>2 DEF Logged
  <1> QED BY <1>1, <1>2, <1>3 DEF Told, Decisions

LEMMA LogClient ==
  ASSUME TypeOK, LogInv, NEW c \in Clients,
         (\E d \in Demands : LookUp(c, d)) \/ InsertAction(c) \/ DropRequest(c)
  PROVE  LogInv'
  <1>1. CASE (\E d \in Demands : LookUp(c, d)) \/ DropRequest(c)
    BY <1>1, LogUntouched DEF LookUp, DropRequest, table, LogInv
  <1>2. CASE InsertAction(c)
    <2>1. demand[c] \in Demand /\ demand[c].action \in Actions
      BY <1>2 DEF InsertAction, TypeOK, Demand
    <2>2. PICK a \in Actions : a = demand[c].action
      BY <2>1
    <2>3. BestEffort(a, "requested") /\ "requested" \in Events \ Final
      BY <1>2, <2>2 DEF InsertAction, Events
    <2>4. /\ UNCHANGED <<execution, impact, calls>>
          /\ IF status[a] = "none"
             THEN status' = [status EXCEPT ![a] = InitialStatus(demand[c])]
             ELSE status' = status
      BY <1>2, <2>2 DEF InsertAction
    <2>5. /\ \A b \in Actions \ {a} : status'[b] = status[b]
          /\ \/ status'[a] = status[a]
             \/ status[a] = "none" /\ status'[a] \in {"pending_approval", "approved"}
      BY <2>4 DEF InitialStatus, TypeOK
    <2>6. ASSUME NEW b \in Actions \ {a} PROVE Told(b)' /\ Decisions(b)'
      <3>1. audit'[b] = audit[b]
        BY <2>3, BestEffortEffect
      <3> QED BY <2>4, <2>5, <3>1, LogUntouched DEF LogInv
    <2>7. Told(a)' /\ Decisions(a)'
      <3>1. audit'[a] = audit[a] \/ audit'[a] = Append(audit[a], "requested")
        BY <2>3, BestEffortEffect
      <3>2. audit[a] \in Seq(Events) /\ Told(a) /\ Decisions(a)
        BY DEF TypeOK, LogInv
      <3> QED BY <2>3, <2>4, <2>5, <3>1, <3>2, LogByApi
    <2> QED BY <2>6, <2>7 DEF LogInv
  <1> QED BY <1>1, <1>2

LEMMA LogDecision ==
  ASSUME TypeOK, LogInv, NEW a \in Actions, NEW e \in {"approved", "rejected"},
         status[a] = "pending_approval", status' = [status EXCEPT ![a] = e],
         BestEffort(a, e), UNCHANGED <<execution, impact, calls>>
  PROVE  LogInv'
  <1>1. e \in Events \ Final
    BY DEF Events
  <1>2. ASSUME NEW b \in Actions \ {a} PROVE Told(b)' /\ Decisions(b)'
    <2>1. audit'[b] = audit[b] /\ status'[b] = status[b]
      BY <1>1, BestEffortEffect DEF TypeOK
    <2> QED BY <2>1, LogUntouched DEF LogInv
  <1>3. Told(a)' /\ Decisions(a)'
    <2>1. audit'[a] = audit[a] \/ audit'[a] = Append(audit[a], e)
      BY <1>1, BestEffortEffect
    <2>2. audit[a] \in Seq(Events) /\ Told(a) /\ Decisions(a) /\ status'[a] = e
      BY DEF TypeOK, LogInv
    <2> QED BY <1>1, <2>1, <2>2, LogByApi
  <1> QED BY <1>2, <1>3 DEF LogInv

LEMMA LogRecord ==
  ASSUME TypeOK, HoldInv, LogInv, NEW w \in Workers, RecordOutcome(w)
  PROVE  LogInv'
  <1>1. PICK a \in Actions, o \in Final : a = current[w] /\ o = outcome[w]
    BY DEF RecordOutcome, TypeOK
  <1>2. /\ status[a] = "running" /\ calls' = calls
        /\ status' = [status EXCEPT ![a] = o]
        /\ execution' = [execution EXCEPT ![a] = Mode(w, a)]
        /\ impact' = [impact EXCEPT ![a] = o]
        /\ audit' = [audit EXCEPT ![a] = Append(@, o)]
    BY <1>1 DEF RecordOutcome, Recordable, UpsertActionImpact
  <1>3. o = "completed" /\ Mode(w, a) = "real" => calls[a] = 1
    BY <1>1 DEF RecordOutcome, HoldInv, Holding
  <1>4. ASSUME NEW b \in Actions \ {a} PROVE Told(b)' /\ Decisions(b)'
    BY <1>2, LogUntouched DEF TypeOK, LogInv
  <1>5. Told(a)' /\ Decisions(a)'
    <2> DEFINE n == Len(audit[a]) + 1
               D == {"approved", "rejected"}
    <2>1. /\ audit[a] \in Seq(Events) /\ o \in Events /\ o \notin D
          /\ Told(a) /\ Decisions(a)
      BY DEF TypeOK, LogInv, Events
    <2>2. /\ audit'[a] = Append(audit[a], o) /\ status'[a] = o /\ impact'[a] = o
          /\ execution'[a] = Mode(w, a)
      BY <1>2 DEF TypeOK
    <2>3. /\ Len(audit'[a]) = n /\ audit'[a][n] = o /\ n \in Nat
          /\ \A i \in 1 .. Len(audit[a]) : audit'[a][i] = audit[a][i]
      BY <2>1, <2>2, LoggedAppend, LenProperties
    <2>4. Logged(a, Final)' = Logged(a, Final) \cup {n}
      BY <2>1, <2>2, <2>3, LoggedAppend DEF Logged
    <2>5. Logged(a, D)' = Logged(a, D)
      BY <2>1, <2>2, LoggedAppend DEF Logged
    <2>6. Logged(a, Final) = {}
      BY <1>2, <2>1 DEF Told
    <2>7. \A i \in 1 .. Len(audit[a]) : audit[a][i] \notin Final
      BY <2>6 DEF Logged
    <2>8. n \in 1 .. Len(audit'[a])
      BY <2>3
    <2>9. \A i \in 1 .. Len(audit'[a]) : audit'[a][i] \in Final => audit'[a][i] = o
      BY <2>3, <2>7
    <2>10. Told(a)'
      BY <1>2, <1>3, <2>2, <2>4, <2>6, <2>8, <2>9 DEF Told
    <2>11. Decisions(a)'
      <3>1. Logged(a, D) = {} \/ \E i \in 1 .. Len(audit'[a]) : Logged(a, D) = {i}
        BY <2>1, <2>3 DEF Decisions
      <3>2. status'[a] \notin {"none", "pending_approval"}
        BY <2>2
      <3> QED BY <2>5, <3>1, <3>2 DEF Decisions
    <2> QED BY <2>10, <2>11
  <1> QED BY <1>4, <1>5 DEF LogInv

LEMMA LogWorker ==
  ASSUME TypeOK, HoldInv, LogInv, NEW w \in Workers, WorkerStep(w) \/ AbortWorker(w)
  PROVE  LogInv'
  <1>1. CASE ClaimActions(w) \/ AbortWorker(w)
    BY <1>1, LogUntouched DEF ClaimActions, AbortWorker, table, LogInv
  <1>2. CASE CommitClaim(w)
    <2>1. /\ status' = [a \in Actions |-> IF a \in todo[w] THEN "running" ELSE status[a]]
          /\ UNCHANGED <<execution, impact, audit, calls>>
      BY <1>2 DEF CommitClaim
    <2>2. ASSUME NEW a \in Actions PROVE Told(a)' /\ Decisions(a)'
      <3>1. CASE a \in todo[w]
        <4>1. status[a] = "approved" /\ status'[a] = "running"
          BY <1>2, <2>1, <3>1 DEF CommitClaim, HoldInv, Holding
        <4>2. \A E : Logged(a, E)' = Logged(a, E)
          BY <2>1 DEF Logged
        <4> QED BY <2>1, <4>1, <4>2 DEF LogInv, Told, Decisions
      <3>2. CASE a \notin todo[w]
        BY <2>1, <3>2, LogUntouched DEF LogInv
      <3> QED BY <3>1, <3>2
    <2> QED BY <2>2 DEF LogInv
  <1>3. ASSUME NEW a \in Actions, Execute(w, a) PROVE LogInv'
    <2>1. status[a] = "running" /\ UNCHANGED table
      BY <1>3 DEF Execute, HoldInv, Holding
    <2>2. \A b \in Actions \ {a} : calls'[b] = calls[b]
      BY <1>3 DEF Execute, TypeOK
    <2>3. \A b \in Actions : status[b] \in Final => calls'[b] = calls[b]
      BY <2>1, <2>2
    <2> QED BY <2>1, <2>3, LogUntouched DEF LogInv, table
  <1>4. CASE RecordOutcome(w)
    BY <1>4, LogRecord
  <1> QED BY <1>1, <1>2, <1>3, <1>4 DEF WorkerStep

LEMMA LogStep == CoreInv /\ LogInv /\ [Next]_vars => LogInv'
  <1> SUFFICES ASSUME TypeOK, HoldInv, LogInv, [Next]_vars PROVE LogInv'
    BY DEF CoreInv
  <1>1. CASE UNCHANGED vars
    BY <1>1, LogUntouched DEF vars, table, LogInv
  <1>2. ASSUME NEW a \in Actions, ApproveAction(a) \/ RejectAction(a) PROVE LogInv'
    BY <1>2, LogDecision DEF ApproveAction, RejectAction
  <1> QED BY <1>1, <1>2, LogClient, LogWorker DEF Next

\* The queue keeps its discipline, from which the properties of the runs follow.
THEOREM Discipline == Spec => []QueueDiscipline
  <1>1. Init => CoreInv /\ LogInv
    BY InitType, InitHold, InitLog DEF CoreInv
  <1>2. CoreInv /\ LogInv => QueueDiscipline
    BY DEF CoreInv, QueueDiscipline
  <1> QED BY <1>1, <1>2, CoreStep, LogStep, PTL DEF Spec

\* Status, audit log and impact row tell the same outcome, and tell it once.
THEOREM OutcomesAgree == Spec => []OutcomeRecorded
  <1>1. QueueDiscipline => OutcomeRecorded
    <2> SUFFICES ASSUME QueueDiscipline, NEW a \in Actions
                 PROVE  /\ impact[a] = IF status[a] \in Final THEN status[a] ELSE "none"
                        /\ \A i \in 1 .. Len(audit[a]) :
                             audit[a][i] \in Final => audit[a][i] = status[a]
                        /\ Cardinality(Logged(a, Final)) = IF status[a] \in Final THEN 1 ELSE 0
                        /\ status[a] = "completed" /\ execution[a] = "real" => calls[a] = 1
      BY DEF OutcomeRecorded
    <2>1. Told(a)
      BY DEF QueueDiscipline, LogInv
    <2>2. Cardinality(Logged(a, Final)) = IF status[a] \in Final THEN 1 ELSE 0
      <3>1. CASE status[a] \in Final
        <4>1. PICK i : Logged(a, Final) = {i}
          BY <2>1, <3>1 DEF Told
        <4> QED BY <3>1, <4>1, FS_Singleton
      <3>2. CASE status[a] \notin Final
        BY <2>1, <3>2, FS_EmptySet DEF Told
      <3> QED BY <3>1, <3>2
    <2> QED BY <2>1, <2>2 DEF Told
  <1> QED BY <1>1, Discipline, PTL

\* No action is ever decided twice.
THEOREM OneDecision == Spec => []DecidedOnce
  <1>1. QueueDiscipline => DecidedOnce
    <2> SUFFICES ASSUME QueueDiscipline, NEW a \in Actions
                 PROVE  Cardinality(Logged(a, {"approved", "rejected"})) <= 1
      BY DEF DecidedOnce
    <2> DEFINE decided == Logged(a, {"approved", "rejected"})
    <2>1. decided = {} \/ \E i : decided = {i}
      BY DEF QueueDiscipline, LogInv, Decisions
    <2> HIDE DEF decided
    <2>2. Cardinality(decided) = 0 \/ Cardinality(decided) = 1
      BY <2>1, FS_EmptySet, FS_Singleton
    <2> QED BY <2>2 DEF decided
  <1> QED BY <1>1, Discipline, PTL

-----------------------------------------------------------------------------
(* Refinement, and the order of the claims.                                  *)

\* Every step of the queue is a step in the life of its actions, or none.
THEOREM Implementation == Spec => ImplementsLifecycle
  <1>1. Init => Abstract!Init
    BY DEF Init, Abstract!Init
  <1>2. CoreInv /\ [Next]_vars => [Abstract!Next]_<<status, calls>>
    <2> SUFFICES ASSUME TypeOK, HoldInv, SoundInv, [Next]_vars
                 PROVE  Abstract!Next \/ UNCHANGED <<status, calls>>
      BY DEF CoreInv
    <2>1. CASE UNCHANGED vars
      BY <2>1 DEF vars, table
    <2>2. ASSUME NEW c \in Clients,
                 (\E d \in Demands : LookUp(c, d)) \/ DropRequest(c)
          PROVE  UNCHANGED <<status, calls>>
      BY <2>2 DEF LookUp, DropRequest, table
    <2>3. ASSUME NEW c \in Clients, InsertAction(c)
          PROVE  Abstract!Next \/ UNCHANGED <<status, calls>>
      <3>1. PICK a \in Actions, s \in {"pending_approval", "approved"} :
              a = demand[c].action /\ s = InitialStatus(demand[c])
        BY <2>3 DEF InsertAction, TypeOK, Demand, InitialStatus
      <3>2. CASE status[a] = "none"
        <4>1. Abstract!Requested(a, s)
          BY <2>3, <3>1, <3>2 DEF InsertAction, Abstract!Requested
        <4> QED BY <4>1 DEF Abstract!Next
      <3>3. CASE status[a] # "none"
        BY <2>3, <3>1, <3>3 DEF InsertAction
      <3> QED BY <3>2, <3>3
    <2>4. ASSUME NEW a \in Actions, ApproveAction(a) \/ RejectAction(a)
          PROVE  Abstract!Next
      <3>1. Abstract!Decided(a, "approved") \/ Abstract!Decided(a, "rejected")
        BY <2>4 DEF ApproveAction, RejectAction, Abstract!Decided
      <3> QED BY <3>1 DEF Abstract!Next
    <2>5. ASSUME NEW w \in Workers, ClaimActions(w) \/ AbortWorker(w)
          PROVE  UNCHANGED <<status, calls>>
      BY <2>5 DEF ClaimActions, AbortWorker, table
    <2>6. ASSUME NEW w \in Workers, CommitClaim(w) PROVE Abstract!Next
      <3>1. todo[w] \in SUBSET Actions /\ \A a \in todo[w] : status[a] = "approved"
        BY <2>6 DEF CommitClaim, HoldInv, Holding, TypeOK
      <3>2. Abstract!Started(todo[w])
        BY <2>6, <3>1 DEF CommitClaim, Abstract!Started
      <3> QED BY <3>1, <3>2 DEF Abstract!Next
    <2>7. ASSUME NEW w \in Workers, NEW a \in Actions, Execute(w, a)
          PROVE  Abstract!Next \/ UNCHANGED <<status, calls>>
      <3>1. PICK n \in {0, 1} : calls' = [calls EXCEPT ![a] = @ + n]
        BY <2>7 DEF Execute
      <3>2. status[a] = "running" /\ calls[a] = 0 /\ status' = status
        BY <2>7 DEF Execute, HoldInv, Holding, table
      <3>3. calls' = [calls EXCEPT ![a] = n]
        BY <3>1, <3>2
      <3>4. CASE n = 1
        BY <3>2, <3>3, <3>4 DEF Abstract!CarriedOut, Abstract!Next
      <3>5. CASE n = 0
        BY <3>2, <3>3, <3>5 DEF TypeOK
      <3> QED BY <3>4, <3>5
    <2>8. ASSUME NEW w \in Workers, RecordOutcome(w) PROVE Abstract!Next
      <3>1. PICK a \in Actions, o \in Final : a = current[w] /\ o = outcome[w]
        BY <2>8 DEF RecordOutcome, TypeOK
      <3>2. Abstract!Finished(a, o)
        BY <2>8, <3>1 DEF RecordOutcome, Recordable, Abstract!Finished
      <3> QED BY <3>1, <3>2 DEF Abstract!Next
    <2> QED BY <2>1, <2>2, <2>3, <2>4, <2>5, <2>6, <2>7, <2>8 DEF Next, WorkerStep
  <1> QED BY <1>1, <1>2, CoreCorrect, PTL DEF Spec, ImplementsLifecycle, Abstract!Spec

\* No claim overtakes an approval that came earlier.
THEOREM InOrderOfApproval == Spec => ClaimsInOrder
  <1>1. CoreInv /\ [Next]_vars =>
          [\A w \in Workers : phase[w] = "idle" /\ phase'[w] = "claiming" =>
             \A a \in todo'[w], b \in Actions :
               status[b] = "approved" /\ approvedAt[b] < approvedAt[a] =>
                 \E v \in Workers : b \in todo'[v]]_vars
    <2> SUFFICES ASSUME TypeOK, Next, NEW w \in Workers,
                        phase[w] = "idle", phase'[w] = "claiming",
                        NEW a \in todo'[w], NEW b \in Actions,
                        status[b] = "approved", approvedAt[b] < approvedAt[a]
                 PROVE  \E v \in Workers : b \in todo'[v]
      BY DEF CoreInv
    <2>1. ClaimActions(w)
      <3>1. ASSUME NEW c \in Clients,
                   (\E d \in Demands : LookUp(c, d)) \/ InsertAction(c) \/ DropRequest(c)
            PROVE  FALSE
        BY <3>1 DEF LookUp, InsertAction, DropRequest, worker
      <3>2. ASSUME NEW c \in Actions, ApproveAction(c) \/ RejectAction(c) PROVE FALSE
        BY <3>2 DEF ApproveAction, RejectAction, worker
      <3>3. ASSUME NEW v \in Workers, WorkerStep(v) \/ AbortWorker(v), ~ClaimActions(w)
            PROVE  FALSE
        <4>1. v # w => phase'[w] = phase[w]
          BY <3>3 DEF WorkerStep, AbortWorker, ClaimActions, CommitClaim, Execute,
                      RecordOutcome, TypeOK
        <4>2. v = w => phase'[w] # "claiming"
          BY <3>3 DEF WorkerStep, AbortWorker, CommitClaim, Execute, RecordOutcome, TypeOK
        <4> QED BY <4>1, <4>2
      <3> QED BY <3>1, <3>2, <3>3 DEF Next
    <2>2. PICK S \in SUBSET Claimable :
            InOrder(S, Claimable) /\ todo' = [todo EXCEPT ![w] = S]
      BY <2>1 DEF ClaimActions
    <2>3. todo'[w] = S /\ \A v \in Workers \ {w} : todo'[v] = todo[v]
      BY <2>2 DEF TypeOK
    <2>4. CASE b \in Claimable
      <3>1. approvedAt[a] \in Nat /\ approvedAt[b] \in Nat
        BY <2>3 DEF Claimable, TypeOK
      <3>2. b \in S
        BY <2>2, <2>3, <2>4, <3>1 DEF InOrder
      <3> QED BY <2>3, <3>2
    <2>5. CASE b \notin Claimable
      <3>1. PICK v \in Workers : b \in Locked(v)
        BY <2>5 DEF Claimable
      <3>2. v # w /\ b \in todo[v]
        BY <3>1 DEF Locked
      <3> QED BY <2>3, <3>2
    <2> QED BY <2>4, <2>5
  <1> QED BY <1>1, CoreCorrect, PTL DEF Spec, ClaimsInOrder
=============================================================================
