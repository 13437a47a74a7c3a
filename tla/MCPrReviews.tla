----------------------------- MODULE MCPrReviews -----------------------------
(* Instances of PrReviews for TLC.                                         *)
EXTENDS PrReviews

(* Failures that leave the FAILED write alone, with two jobs racing for    *)
(* the row of one commit.                                                  *)
RacingFaults == {"stage", "usageLog", "ambiguousPost", "twice", "crash"}

CrashOnly == {"crash"}

(* A crash BullMQ makes up for: it still forgives the jobs it interrupts a *)
(* stall. It strikes neither between the save of a review and its post     *)
(* (the subject of review_never_posted) nor while the row is RUNNING, which*)
(* it stays if the last attempt then fails before it reaches its try.      *)
ForgivenCrash ==
  /\ \A s \in Slots : slot[s] # Free =>
       LET j == slot[s].job
           c == job[j].commit
       IN  /\ job[j].stalls < MaxStalls
           /\ review[c].status # "RUNNING"
           /\ review[c].status = "COMPLETE" => posts[c] # <<>> \/ review[c].writebackFailed
  /\ WorkerCrash

SettleNext ==
  \/ \E c \in Commits, j \in Jobs : HandlePullRequestEvent(c, j)
  \/ DeletePullRequest
  \/ \E s \in Slots : SlotStep(s)
  \/ \E s \in Slots, j \in Jobs : TakeJob(s, j)
  \/ \E j \in Jobs : PromoteDelayed(j) \/ RequeueStalled(j)
  \/ ForgivenCrash

SettleSpec == Init /\ [][SettleNext]_vars /\ Fairness

(* A crash that strikes only between the save of a review and its post,    *)
(* and that BullMQ forgives: the job is taken again and ends by itself.    *)
CrashAfterSave ==
  /\ \A s \in Slots : slot[s] # Free =>
       /\ slot[s].pc \in {"log", "post"}
       /\ job[slot[s].job].stalls < MaxStalls
  /\ WorkerCrash

CrashAfterSaveNext ==
  \/ \E c \in Commits, j \in Jobs : HandlePullRequestEvent(c, j)
  \/ \E s \in Slots : SlotStep(s)
  \/ \E s \in Slots, j \in Jobs : TakeJob(s, j)
  \/ \E j \in Jobs : PromoteDelayed(j) \/ RequeueStalled(j)
  \/ CrashAfterSave

CrashAfterSaveSpec == Init /\ [][CrashAfterSaveNext]_vars
=============================================================================
