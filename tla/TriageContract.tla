--------------------------- MODULE TriageContract ---------------------------
(* What the findings page promises about a press of one of its lifecycle
   buttons, whatever the list it is shown in does meanwhile: the press asks for
   one change, which the server makes once or never, so that no press is ever
   felt again after somebody else has changed the finding. *)
EXTENDS Naturals

CONSTANTS Findings, States, Clicks

VARIABLES
  states,   \* [Findings -> States]: the server's
  asked,    \* the presses whose change may still be made
  made      \* how many changes each press has made so far

Init == states \in [Findings -> States] /\ asked = {} /\ made = [c \in {} |-> 0]

\* The user presses a button on a finding.
Ask(c, f, s) ==
  /\ c \notin DOMAIN made
  /\ made' = [x \in DOMAIN made \cup {c} |-> IF x = c THEN 0 ELSE made[x]]
  /\ asked' = asked \cup {[click |-> c, finding |-> f, to |-> s]}
  /\ UNCHANGED states

\* The server makes the change of one press, and is done with that press.
Make(r) ==
  /\ states' = [states EXCEPT ![r.finding] = r.to]
  /\ made' = [made EXCEPT ![r.click] = @ + 1]
  /\ asked' = asked \ {r}

\* The change of one press will never be made.
Refuse(r) == asked' = asked \ {r} /\ UNCHANGED <<states, made>>

\* Somebody else changes a finding.
Others(f, s) == states' = [states EXCEPT ![f] = s] /\ UNCHANGED <<asked, made>>

Next ==
  \/ \E c \in Clicks, f \in Findings, s \in States : Ask(c, f, s)
  \/ \E r \in asked : Make(r) \/ Refuse(r)
  \/ \E f \in Findings, s \in States : Others(f, s)

Spec == Init /\ [][Next]_<<states, asked, made>>
=============================================================================
