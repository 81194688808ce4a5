CONSTANTS
  a1 = a1
  a2 = a2
  r1 = r1
  r2 = r2
  f1 = f1
  Actions = {a1, a2}
  NoAction = NoAction
  FindingOf <- MCFindingOf
  Outcomes <- MCOutcomes
  DryRuns = {}
  Runs = {r1, r2}
  NoRun = NoRun
  Fingerprints = {f1}
  Savings = {1, 2}
  Rank <- MCRank
  c1 = c1
  c2 = c2
  Clients = {c1, c2}
  Limit = 2
  MaxTime = 2
  MaxAborts = 1
SPECIFICATION Spec
SYMMETRY MCSymmetry
INVARIANTS
  TypeOK
  OutcomeHasImpact
  ClaimsHaveEvidence
  NoCircularWait
CHECK_DEADLOCK FALSE
