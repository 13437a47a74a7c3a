----------------------------- MODULE MCIndexJobs -----------------------------
(* Small instances of IndexJobs. Repositories share nothing but the worker *)
(* slots, so one is enough for the properties of a repository; three jobs  *)
(* let a third one race with the retry of a first and a second.            *)
EXTENDS IndexJobs, TLC

CONSTANTS r1, j1, j2, j3, w1, w2, q1, q2

OneRepo     == {r1}
OneJob      == {j1}
TwoJobs     == {j1, j2}
ThreeJobs   == {j1, j2, j3}
OneWorker   == {w1}
TwoWorkers  == {w1, w2}
OneRequest  == {q1}
TwoRequests == {q1, q2}

EnqueueFault  == {"enqueue"}
UsageLogFault == {"usageLog"}

(* Jobs, workers and requests are interchangeable; used for safety only.   *)
Symmetry == Permutations(Jobs) \cup Permutations(Workers) \cup Permutations(Requests)
=============================================================================
