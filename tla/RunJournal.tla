----------------------------- MODULE RunJournal -----------------------------
(***************************************************************************)
(* What the run state machine (apps/backend/run_state.py) promises to a    *)
(* reader of the database: the status of every run changes in whole        *)
(* journeys, each journey appends its hops to the events of the run, and   *)
(* no other change of a status is ever seen.                               *)
(***************************************************************************)
EXTENDS Sequences

CONSTANT Runs

VARIABLES status, journal

Init ==
  /\ status \in [Runs -> {"none", "running", "ready", "failed"}]
  /\ journal = [r \in Runs |-> <<>>]

\* A run that is not ready is ingested: it passes through running.
Ingested(r) ==
  /\ status[r] # "ready"
  /\ status' = [status EXCEPT ![r] = "ready"]
  /\ journal' = [journal EXCEPT ![r] = @ \o <<[from |-> status[r], to |-> "running"],
                                              [from |-> "running", to |-> "ready"]>>]

\* An ingest of the run fails, whatever its status.
Failed(r) ==
  /\ status' = [status EXCEPT ![r] = "failed"]
  /\ journal' = [journal EXCEPT ![r] = @ \o <<[from |-> status[r], to |-> "failed"]>>]

\* Runs that were left running are failed together.
Swept(S) ==
  /\ \A r \in S : status[r] = "running"
  /\ status' = [r \in Runs |-> IF r \in S THEN "failed" ELSE status[r]]
  /\ journal' = [r \in Runs |-> IF r \in S
                  THEN Append(journal[r], [from |-> "running", to |-> "failed"])
                  ELSE journal[r]]

Next ==
  \/ \E r \in Runs : Ingested(r) \/ Failed(r)
  \/ \E S \in SUBSET Runs : Swept(S)

Spec == Init /\ [][Next]_<<status, journal>>
=============================================================================
