CONSTANTS
  f1 = f1
  f2 = f2
  g1 = g1
  c1 = c1
  c2 = c2
  Findings = {f1, f2}
  Groups = {g1}
  GroupOf <- MCGroupOf
  NoSubject = NoSubject
  Clients = {c1, c2}
  PolicyDays = {1}
  DefaultDays = 1
  Snoozes = {3}
  MaxTime = 4
  MaxRequests = 3
SPECIFICATION Spec
SYMMETRY Interchangeable
INVARIANTS
  TypeOK
  OwnDecisionIsTracked
  NoPauseCountedTwice
  SerialPauseFollows
PROPERTIES
  ClockOnlyExtends
  RecordedBreachStays
CHECK_DEADLOCK FALSE
