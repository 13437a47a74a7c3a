CONSTANTS
  Commits = {c1}
  Jobs = {j1, j2}
  Slots = {s1, s2}
  None = None
  MaxAttempts = 2
  MaxStalls = 1
  Faults <- RacingFaults
SPECIFICATION SettleSpec
INVARIANTS RunningHasJob CompleteIsAnnounced
PROPERTY ReviewSettles
CHECK_DEADLOCK FALSE
