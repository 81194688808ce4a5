--------------------------- MODULE MCRemediation ---------------------------
(* Two action ids, a target that needs approval and one that does not.  Two    *)
(* clients may ask for the same action differently: to be run or rehearsed,    *)
(* with approval or without, even for another target.                          *)
EXTENDS Remediation, TLC

CONSTANTS a1, a2, stop, noop

Ask(a, t, dry, auto) == [action |-> a, target |-> t, dryRun |-> dry, auto |-> auto]
MCDemands == {Ask(a1, stop, "no", "no"), Ask(a1, noop, "yes", "yes"),
              Ask(a2, noop, "no", "yes"), Ask(a2, stop, "no", "yes")}
MCSymmetry == Permutations(Clients) \cup Permutations(Workers)
=============================================================================
