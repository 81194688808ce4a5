------------------------ MODULE RemediationLifecycle ------------------------
(* What the remediation queue promises of each action: it is requested, then  *)
(* approved or rejected, an approved one is started once, its operation is    *)
(* carried out at most once and only while it runs, and its outcome is final. *)
EXTENDS Naturals

CONSTANT Actions
VARIABLES status, calls

Init == status = [a \in Actions |-> "none"] /\ calls = [a \in Actions |-> 0]

Requested(a, initial) ==
  /\ status[a] = "none"
  /\ initial \in {"pending_approval", "approved"}
  /\ status' = [status EXCEPT ![a] = initial]
  /\ UNCHANGED calls

Decided(a, decision) ==
  /\ status[a] = "pending_approval"
  /\ decision \in {"approved", "rejected"}
  /\ status' = [status EXCEPT ![a] = decision]
  /\ UNCHANGED calls

\* A worker starts several approved actions at once.
Started(S) ==
  /\ \A a \in S : status[a] = "approved"
  /\ status' = [a \in Actions |-> IF a \in S THEN "running" ELSE status[a]]
  /\ UNCHANGED calls

CarriedOut(a) ==
  /\ status[a] = "running" /\ calls[a] = 0
  /\ calls' = [calls EXCEPT ![a] = 1]
  /\ UNCHANGED status

Finished(a, outcome) ==
  /\ status[a] = "running"
  /\ outcome \in {"completed", "failed"}
  /\ status' = [status EXCEPT ![a] = outcome]
  /\ UNCHANGED calls

Next ==
  \/ \E a \in Actions :
       \/ \E s \in {"pending_approval", "approved"} : Requested(a, s)
       \/ \E s \in {"approved", "rejected"} : Decided(a, s)
       \/ CarriedOut(a)
       \/ \E s \in {"completed", "failed"} : Finished(a, s)
  \/ \E S \in SUBSET Actions : Started(S)

Spec == Init /\ [][Next]_<<status, calls>>
=============================================================================
