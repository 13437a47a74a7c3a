CONSTANTS
  f = f  g = g  v1 = v1  v2 = v2  s1 = s1  s2 = s2
  None = None  Absent = Absent  Excluded = Excluded  Link = Link
  Paths <- TwoPaths
  Sources <- TwoTexts
  Calls <- CallsG
  Slots <- OneSlot
  MaxCommits = 3
  FullCommits = 2
  JobTypes <- BothTypes
  Pushes <- AllPushes
  Faults <- StageFault
SPECIFICATION SumSpec
CHECK_DEADLOCK FALSE
INVARIANTS TypesHold NoDoubleCharge StampIsTrue IncrementalIsExact ReferencesHold
PROPERTY FullIsExact
