CONSTANTS
  f1 = f1
  all = all
  opens = opens
  w1 = w1
  w2 = w2
  a1 = a1
  n1 = n1
  n2 = n2
  s1 = s1
  s2 = s2
  u1 = u1
  NoData = NoData
  Failure = Failure
  Findings = {f1}
  NoFinding = NoFinding
  Views = {all, opens}
  FirstView = all
  Filter <- MCFilter
  ActionStates = {"resolved"}
  MaxClicks = 2
  MaxEvents = 2
  Workspaces = {w1}
  Names = {n1, n2}
  Admins = {a1}
  Registered = {w1}
  NoWorkspace = NoWorkspace
  NoRow = NoRow
  NoTarget = NoTarget
  MaxSaves = 1
  MaxForeign = 2
  Scopes = {s1, s2}
  NoScope = NoScope
  MaxSignIns = 2
  MaxSignOuts = 1
  Users = {u1}
  NoUser = NoUser
  Roles = {"viewer", "admin"}
  NoRole = NoRole
  Catalog <- MCCatalog
  MaxRoleSaves = 1
  MaxGrants = 1
  Rows = {1, 2, 3, 4}
  Resources = {1, 2, 3, 4, 5, 6}
  NoResource = NoResource
  KeyOf <- MCKeyOf
  Savings <- MCSavings
  Confidence <- MCConfidence
  Age <- MCAge
  Volumes = {6}
  SampleLimit = 2
  Limit = 3
  MinSavings = {0, 2}
  Estates <- MCEstates
  Served <- MCServed
  MaxMoves = 2
  Values = {"", "x"}
  Choices = {"i", "j"}
  NoPage = NoPage
  NoAnswer = NoAnswer
  Profiles = {{"findings:read", "runs:read"}, {"admin:full"}}
  MaxTurns = 2
SPECIFICATION Spec
INVARIANTS
  ConsoleTypeOK
  QuietListIsServed
  ForcedAsRefused
  NothingOutlivesSignOut
  PickerFollowsTheSave
  SavingsCountedOnce
  NoneMeansNone
  ShownAnswersTheQuestion
PROPERTIES
  ImplementsContract
  EveryActionEnds
CHECK_DEADLOCK FALSE
