CONSTANTS
  r1 = r1  j1 = j1  j2 = j2  j3 = j3  w1 = w1  w2 = w2  q1 = q1  q2 = q2
  None = None
  Repos <- OneRepo
  Jobs <- ThreeJobs
  Workers <- TwoWorkers
  Requests <- TwoRequests
  MaxAttempts = 2
  MaxStalls = 1
  MaxCommits = 2
  Faults <- EarlyFaults
SPECIFICATION Spec
CHECK_DEADLOCK FALSE
SYMMETRY Symmetry
INVARIANTS TypeOK SingleLiveJob LiveMeansBusy
PROPERTY ImplementsService
