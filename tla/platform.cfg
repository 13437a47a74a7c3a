CONSTANTS
  Deliveries = {d1, d2}
  Requests = {q1, q2}
  Heads = {h1, h2}
  MaxSends = 2
  Ids = {i1}
  Repos = {a, b}
  Tabs = {t1, t2}
  MaxRepositories = 2
  SessionTabs = {t1}
  Calls = {c1, c2}
  MaxTokens = 4
  Commits = {k1, k2}
  Jobs = {j1, j2}
  Slots = {s1, s2}
  None = None
  MaxAttempts = 2
  MaxStalls = 1
  Faults <- ReviewFaults
  IntakeFaults <- FailingIntake
SPECIFICATION PlatformSpec
INVARIANTS PlatformTypeOK ClaimMeansDone UpsertedIsReviewed ActiveIsInstalled OneRowPerRepository
           SingleUse ShellHasToken PostedOnce CompletedMeansReviewed
PROPERTIES ImplementsAtMostOnce UnauthorizedMeansOver
CHECK_DEADLOCK FALSE
