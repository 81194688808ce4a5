CONSTANTS
  r1 = r1
  r2 = r2
  f1 = f1
  f2 = f2
  w1 = w1
  w2 = w2
  Runs = {r1, r2}
  NoRun = NoRun
  Fingerprints = {f1, f2}
  Workers = {w1, w2}
  FileRows <- MCFileRows
  RunTs <- MCRunTs
  OwnerOf <- MCOwnerOf
  MaxAttempts = 2
  RecoverLimit = 1
SPECIFICATION Spec
PROPERTIES
  LatestNeverGoesBack
CHECK_DEADLOCK FALSE
