CONSTANTS
  r1 = r1  j1 = j1  j2 = j2  j3 = j3  w1 = w1  w2 = w2  q1 = q1  q2 = q2
  None = None
  Repos <- OneRepo
  Jobs <- TwoJobs
  Workers <- OneWorker
  Requests <- OneRequest
  MaxAttempts = 2
  MaxStalls = 1
  MaxCommits = 1
  Faults <- UsageLogFault
SPECIFICATION Spec
CHECK_DEADLOCK FALSE
INVARIANT SingleLiveJob
