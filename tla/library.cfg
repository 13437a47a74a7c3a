CONSTANTS
  c1 = c1
  c2 = c2
  c3 = c3
  l1 = l1
  l2 = l2
  l3 = l3
  FoundChunks = {c1, c2, c3}
  FoundLabels = {l1, l2, l3}
  FoundLabelOf <- TwoAtOneLabel
  TopK = 3
  FinalK = 2
  FileIds <- FileRows
  PathOf <- TwoPaths
  GraphChunks <- FourChunks
  FileOf <- InThreeRows
  Types = {"CALLS", "IMPORTS"}
  Rows <- SevenRelations
  MaxTop = 1
  Files = {"f", "g"}
  Hunks <- EveryKind
  MaxHunks = 2
  Lines <- LineNumbers
  ReviewChunks <- ThreeChunks
  ChunkAt <- InTwoFiles
  Calls <- ThirdToFirst
  Tests = {3}
  NamedAfter <- ThirdToFirst
  Touching <- RiskyPaths
  LargeChange = 4
  CitedChunks = {c1, c2}
  CitedLabels = {l1, l2}
  CitedLabelOf <- OneLabelEach
  MaxLength = 1
  MaxClicks = 3
  FindingsOf <- TwoReviews
  Large = {"g"}
  MaxFetches = 3
  MaxDiffs = 2
  PullRequests = {"p", "q"}
  MaxPolls = 3
  MaxTicks = 2
  Logs <- TwoLogs
  RangeOptions = {7, 30}
  MaxLoads = 3
SPECIFICATION RunSpec
INVARIANTS EvidenceHolds FindingsArrive PagesShowWhatIs LoadsEnd
CHECK_DEADLOCK FALSE
