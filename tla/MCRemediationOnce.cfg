CONSTANTS
  a1 = a1
  a2 = a2
  stop = stop
  noop = noop
  Actions = {a1, a2}
  NoAction = NoAction
  Targets = {stop, noop}
  NeedsApproval = {stop}
  Clients = {c1, c2}
  Demands <- MCDemands
  NoDemand = NoDemand
  Workers = {w1, w2}
  Limit = 2
  MaxAborts = 1
SPECIFICATION Spec
INVARIANTS
  RequestedOnce
SYMMETRY MCSymmetry
CHECK_DEADLOCK FALSE
