CONSTANTS
  f = f  g = g  v1 = v1  v2 = v2  s1 = s1  s2 = s2
  None = None  Absent = Absent  Excluded = Excluded  Link = Link
  Paths <- TwoPaths
  Sources <- TwoTexts
  Calls <- CallsNone
  Slots <- OneSlot
  MaxCommits = 2
  FullCommits = 2
  JobTypes <- BothTypes
  Pushes <- Nothing
  Faults <- StageFault
SPECIFICATION FullSpec
CHECK_DEADLOCK FALSE
INVARIANT NothingMissing
