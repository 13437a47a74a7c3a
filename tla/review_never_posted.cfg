CONSTANTS
  Commits = {c1}
  Jobs = {j1}
  Slots = {s1}
  None = None
  MaxAttempts = 2
  MaxStalls = 1
  Faults <- CrashOnly
SPECIFICATION CrashAfterSaveSpec
INVARIANT CompleteIsAnnounced
CHECK_DEADLOCK FALSE
