CONSTANTS
  r1 = r1  j1 = j1  j2 = j2  w1 = w1  w2 = w2  q1 = q1
  None = None
  Repos <- OneRepo
  Jobs <- TwoJobs
  Workers <- TwoWorkers
  Requests <- OneRequest
  MaxAttempts = 2
  MaxStalls = 1
  MaxCommits = 1
  Faults <- SettlingFaults
SPECIFICATION EitherSpec
CHECK_DEADLOCK FALSE
INVARIANT BusyIsServed
PROPERTIES RepositoryEnds DeletedStaysDeleted JobEnds
