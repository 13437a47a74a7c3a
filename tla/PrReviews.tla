------------------------------ MODULE PrReviews ------------------------------
(***************************************************************************)
(* The reviews of one pull request: a webhook per head commit puts a job   *)
(* in the pr-review queue, processPrReviewJob creates or takes over the    *)
(* pr_reviews row of the commit, asks the LLM, saves the answer and posts  *)
(* it to GitHub. The row is both the result shown to the user and the only *)
(* guard against reviewing, paying and posting twice.                      *)
(***************************************************************************)
EXTENDS Naturals, Sequences

CONSTANTS
  Commits,      (* head commits of the pull request                        *)
  Jobs,         (* BullMQ job ids, minted per accepted webhook             *)
  Slots,        (* the worker's concurrent executions: 5 in the code       *)
  None,         (* "no commit / job / slot"                                *)
  MaxAttempts,  (* BullMQ attempts per job: 3 in the producer              *)
  MaxStalls,    (* BullMQ maxStalledCount                                  *)
  Faults        (* the failures the environment may inject                 *)

(* "stage" is any failure before the answer is saved, "record" one of the  *)
(* write of FAILED, "writeback" one of the write of writebackFailedAt,     *)
(* "ambiguousPost" a post GitHub took but whose response never came, and   *)
(* "twice" a second accepted webhook for a commit.                         *)
AllFaults == {"stage", "usageLog", "record", "writeback", "crash", "ambiguousPost", "twice"}

ASSUME NoneAssumption == None \notin Commits \cup Jobs \cup Slots
ASSUME BoundAssumption == MaxAttempts \in Nat \ {0} /\ MaxStalls \in Nat
ASSUME FaultsAssumption == Faults \subseteq AllFaults

VARIABLES
  deleted,  (* the pull request went with its repository                   *)
  review,   (* the pr_reviews row of each commit                           *)
  answers,  (* how many LLM answers were paid for, per commit              *)
  posts,    (* the answers posted to GitHub, per commit                    *)
  job,      (* the BullMQ jobs                                             *)
  slot      (* what each execution of the worker is doing                  *)

vars == <<deleted, review, answers, posts, job, slot>>

Statuses  == {"none", "RUNNING", "COMPLETE", "FAILED"}
Pcs       == {"idle", "create", "existing", "takeover", "ask", "save", "log", "post",
              "unposted", "caught", "raised", "returned"}
JobStates == {"unused", "waiting", "active", "delayed", "completed", "failed"}

Reviews == [status: Statuses, answer: Nat, writebackFailed: BOOLEAN]
JobRows == [state: JobStates, commit: Commits \cup {None}, made: Nat, stalls: Nat]
Runs    == [pc: Pcs, job: Jobs \cup {None}, answer: Nat]

(* Every variable has its type.                                            *)
TypeOK ==
  /\ deleted \in BOOLEAN
  /\ review \in [Commits -> Reviews]
  /\ answers \in [Commits -> Nat]
  /\ posts \in [Commits -> Seq(Nat)]
  /\ job \in [Jobs -> JobRows]
  /\ slot \in [Slots -> Runs]

NoReview == [status |-> "none", answer |-> 0, writebackFailed |-> FALSE]
Free     == [pc |-> "idle", job |-> None, answer |-> 0]

Init ==
  /\ deleted = FALSE
  /\ review = [c \in Commits |-> NoReview]
  /\ answers = [c \in Commits |-> 0]
  /\ posts = [c \in Commits |-> <<>>]
  /\ job = [j \in Jobs |-> [state |-> "unused", commit |-> None, made |-> 0, stalls |-> 0]]
  /\ slot = [s \in Slots |-> Free]

-----------------------------------------------------------------------------
(* The webhook, and the repository's owner.                                *)

(* A push to the pull request; a force-push back to an earlier head is a   *)
(* new delivery with a new job id for the same commit.                     *)
HandlePullRequestEvent(c, j) ==
  /\ ~deleted
  /\ job[j].state = "unused"
  /\ "twice" \in Faults \/ \A i \in Jobs : job[i].commit # c
  /\ job' = [job EXCEPT ![j].state = "waiting", ![j].commit = c]
  /\ UNCHANGED <<deleted, review, answers, posts, slot>>

(* deleteRepository cascades to pull_requests and pr_reviews.              *)
DeletePullRequest ==
  /\ ~deleted
  /\ deleted' = TRUE
  /\ review' = [c \in Commits |-> NoReview]
  /\ UNCHANGED <<answers, posts, job, slot>>

-----------------------------------------------------------------------------
(* processPrReviewJob, one action per awaited call that changes something. *)

CommitOf(s) == job[slot[s].job].commit
At(s, pc)   == slot[s].pc = pc
Goto(s, pc) == slot' = [slot EXCEPT ![s].pc = pc]

(* prisma.prReview.update ... where id: throws without the row.            *)
UpdateReview(s, fields) ==
  /\ ~deleted
  /\ review' = [review EXCEPT ![CommitOf(s)] = fields]

Started_Default(row) == [row EXCEPT !.status = "PENDING", !.writebackFailed = FALSE]
Started(row) == [row EXCEPT !.status = "RUNNING", !.writebackFailed = FALSE]

(* The insert that claims the commit; a foreign key error without the PR.  *)
CreateReview(s) ==
  /\ At(s, "create")
  /\ \/ /\ ~deleted
        /\ review[CommitOf(s)].status = "none"
        /\ review' = [review EXCEPT ![CommitOf(s)] = Started(@)]
        /\ Goto(s, "ask")
     \/ /\ ~deleted
        /\ review[CommitOf(s)].status # "none"
        /\ Goto(s, "existing")
        /\ UNCHANGED review
     \/ /\ deleted
        /\ Goto(s, "raised")
        /\ UNCHANGED review
  /\ UNCHANGED <<deleted, answers, posts, job>>

ReadExisting_Always(s) ==
  /\ At(s, "existing")
  /\ Goto(s, IF deleted THEN "returned" ELSE "takeover")
  /\ UNCHANGED <<deleted, review, answers, posts, job>>

ReadExisting_NoRetry(s) ==
  /\ At(s, "existing")
  /\ Goto(s, "returned")
  /\ UNCHANGED <<deleted, review, answers, posts, job>>

(* A COMPLETE review, or none any more, ends the job.                      *)
ReadExisting(s) ==
  /\ At(s, "existing")
  /\ Goto(s, IF review[CommitOf(s)].status \in {"COMPLETE", "none"}
               THEN "returned" ELSE "takeover")
  /\ UNCHANGED <<deleted, review, answers, posts, job>>

(* The row is taken over whatever it has become since it was read.         *)
TakeOver(s) ==
  /\ At(s, "takeover")
  /\ \/ /\ UpdateReview(s, Started(review[CommitOf(s)]))
        /\ Goto(s, "ask")
     \/ /\ deleted
        /\ Goto(s, "raised")
        /\ UNCHANGED review
  /\ UNCHANGED <<deleted, answers, posts, job>>

(* Token, diff, retrieval and the LLM call: nothing of it is stored.       *)
AskLlm(s) ==
  /\ At(s, "ask")
  /\ ~deleted
  /\ answers' = [answers EXCEPT ![CommitOf(s)] = @ + 1]
  /\ slot' = [slot EXCEPT ![s] = [@ EXCEPT !.pc = "save", !.answer = answers'[CommitOf(s)]]]
  /\ UNCHANGED <<deleted, review, posts, job>>

SaveReview(s) ==
  /\ At(s, "save")
  /\ UpdateReview(s, [review[CommitOf(s)] EXCEPT !.status = "COMPLETE",
                                                 !.answer = slot[s].answer])
  /\ Goto(s, "log")
  /\ UNCHANGED <<deleted, answers, posts, job>>

(* usage_logs references the repository.                                   *)
WriteUsageLog(s) ==
  /\ At(s, "log")
  /\ ~deleted
  /\ Goto(s, "post")
  /\ UNCHANGED <<deleted, review, answers, posts, job>>

PostReview_Unchecked(s) ==
  /\ At(s, "post")
  /\ \/ posts' = [posts EXCEPT ![CommitOf(s)] = Append(@, slot[s].answer)]
     \/ UNCHANGED posts
  /\ Goto(s, "returned")
  /\ UNCHANGED <<deleted, review, answers, job>>

(* postReviewToGitHub: posted, refused, or posted without a response. It   *)
(* needs no row, so a deleted pull request does not stop it.               *)
PostReview(s) ==
  /\ At(s, "post")
  /\ \/ /\ posts' = [posts EXCEPT ![CommitOf(s)] = Append(@, slot[s].answer)]
        /\ \/ Goto(s, "returned")
           \/ "ambiguousPost" \in Faults /\ Goto(s, "unposted")
     \/ /\ UNCHANGED posts
        /\ Goto(s, "unposted")
  /\ UNCHANGED <<deleted, review, answers, job>>

MarkWritebackFailed(s) ==
  /\ At(s, "unposted")
  /\ UpdateReview(s, [review[CommitOf(s)] EXCEPT !.writebackFailed = TRUE])
  /\ Goto(s, "returned")
  /\ UNCHANGED <<deleted, answers, posts, job>>

(* A call throws: before the try block straight to BullMQ, in it to catch. *)
StepThrows(s) ==
  /\ \/ /\ slot[s].pc \in {"create", "existing", "takeover"}
        /\ "stage" \in Faults
        /\ Goto(s, "raised")
     \/ /\ \/ slot[s].pc \in {"ask", "save"} /\ ("stage" \in Faults \/ deleted)
           \/ At(s, "log") /\ ("usageLog" \in Faults \/ deleted)
           \/ At(s, "unposted") /\ ("writeback" \in Faults \/ deleted)
        /\ Goto(s, "caught")
  /\ UNCHANGED <<deleted, review, answers, posts, job>>

CatchFailure_NotRecorded(s) ==
  /\ At(s, "caught")
  /\ Goto(s, "raised")
  /\ UNCHANGED <<deleted, review, answers, posts, job>>

(* FAILED is written over whatever the row is, then the error is rethrown; *)
(* the write itself may fail, and does without a row.                      *)
CatchFailure(s) ==
  /\ At(s, "caught")
  /\ \/ UpdateReview(s, [review[CommitOf(s)] EXCEPT !.status = "FAILED"])
     \/ ("record" \in Faults \/ deleted) /\ UNCHANGED review
  /\ Goto(s, "raised")
  /\ UNCHANGED <<deleted, answers, posts, job>>

-----------------------------------------------------------------------------
(* BullMQ.                                                                 *)

TakeJob(s, j) ==
  /\ At(s, "idle")
  /\ job[j].state = "waiting"
  /\ job' = [job EXCEPT ![j].state = "active"]
  /\ slot' = [slot EXCEPT ![s] = [pc |-> "create", job |-> j, answer |-> 0]]
  /\ UNCHANGED <<deleted, review, answers, posts>>

AckCompleted(s) ==
  /\ At(s, "returned")
  /\ job' = [job EXCEPT ![slot[s].job].state = "completed"]
  /\ slot' = [slot EXCEPT ![s] = Free]
  /\ UNCHANGED <<deleted, review, answers, posts>>

(* A job row after a failed attempt, and after a stall.                    *)
Failed(row, outcome)  == [row EXCEPT !.state = outcome, !.made = row.made + 1]
Stalled(row, outcome) == [row EXCEPT !.state = outcome, !.stalls = row.stalls + 1]

(* The attempt is counted, and the job retried or failed.                  *)
AckFailed(s) ==
  /\ At(s, "raised")
  /\ \E outcome \in {"delayed", "failed"} :
       /\ outcome = "delayed" <=> job[slot[s].job].made + 1 < MaxAttempts
       /\ job' = [job EXCEPT ![slot[s].job] = Failed(job[slot[s].job], outcome)]
  /\ slot' = [slot EXCEPT ![s] = Free]
  /\ UNCHANGED <<deleted, review, answers, posts>>

(* The backoff of a failed attempt ends.                                   *)
PromoteDelayed(j) ==
  /\ job[j].state = "delayed"
  /\ job' = [job EXCEPT ![j].state = "waiting"]
  /\ UNCHANGED <<deleted, review, answers, posts, slot>>

(* The lock of a job whose worker died runs out.                           *)
RequeueStalled(j) ==
  /\ job[j].state = "active"
  /\ \A s \in Slots : slot[s].job # j
  /\ \E outcome \in {"waiting", "failed"} :
       /\ outcome = "failed" <=> job[j].stalls + 1 > MaxStalls
       /\ job' = [job EXCEPT ![j] = Stalled(job[j], outcome)]
  /\ UNCHANGED <<deleted, review, answers, posts, slot>>

(* The backend process dies, and every execution with it.                  *)
WorkerCrash ==
  /\ "crash" \in Faults
  /\ \E s \in Slots : slot[s] # Free
  /\ slot' = [s \in Slots |-> Free]
  /\ UNCHANGED <<deleted, review, answers, posts, job>>

-----------------------------------------------------------------------------
SlotStep(s) ==
  \/ CreateReview(s) \/ ReadExisting(s) \/ TakeOver(s) \/ AskLlm(s) \/ SaveReview(s)
  \/ WriteUsageLog(s) \/ PostReview(s) \/ MarkWritebackFailed(s) \/ StepThrows(s)
  \/ CatchFailure(s) \/ AckCompleted(s) \/ AckFailed(s)

Next ==
  \/ \E c \in Commits, j \in Jobs : HandlePullRequestEvent(c, j)
  \/ DeletePullRequest
  \/ \E s \in Slots : SlotStep(s)
  \/ \E s \in Slots, j \in Jobs : TakeJob(s, j)
  \/ \E j \in Jobs : PromoteDelayed(j) \/ RequeueStalled(j)
  \/ WorkerCrash

Spec == Init /\ [][Next]_vars

(* An execution runs to its end, a waiting job gets a free slot, a backoff *)
(* ends. Webhooks, deletions and crashes owe nothing.                      *)
Fairness ==
  /\ \A s \in Slots : WF_vars(SlotStep(s))
  /\ \A j \in Jobs : /\ SF_vars(\E s \in Slots : TakeJob(s, j))
                     /\ WF_vars(PromoteDelayed(j) \/ RequeueStalled(j))

FairSpec == Spec /\ Fairness

-----------------------------------------------------------------------------
(* Properties.                                                             *)

(* A job BullMQ has still to finish.                                       *)
Live(j) == job[j].state \in {"waiting", "active", "delayed"}

(* One job per commit never posts two reviews of it, whatever is retried   *)
(* (failed attempts, a log or mark that fails, a crash after the post), and*)
(* what GitHub shows is what the row holds: once posted, a review is not   *)
(* run again, replaced by another answer or turned to FAILED.              *)
PostedOnce ==
  \A c \in Commits :
    /\ Len(posts[c]) <= 1
    /\ posts[c] # <<>> /\ ~deleted =>
         review[c].status = "COMPLETE" /\ review[c].answer = posts[c][Len(posts[c])]

(* BullMQ never counts as completed a job whose review was not done: the   *)
(* silent no-op retry that processPrReviewJob's comment describes.         *)
CompletedMeansReviewed ==
  \A j \in Jobs : job[j].state = "completed" /\ ~deleted =>
    review[job[j].commit].status = "COMPLETE"

(* A review shown as RUNNING has a job behind it that will end that.       *)
RunningHasJob ==
  \A c \in Commits : review[c].status = "RUNNING" =>
    \E j \in Jobs : job[j].commit = c /\ Live(j)

(* ... so it does not sit at RUNNING forever, two jobs for it or not.      *)
ReviewSettles ==
  \A c \in Commits : review[c].status = "RUNNING" ~> review[c].status # "RUNNING"

(* A COMPLETE review is on GitHub, or shown as not written back, or its    *)
(* job is about to do one of the two (docs/pr-review.md, Pipeline: "Store  *)
(* pr_reviews row, respond via webhook-triggered GitHub check/comment").   *)
CompleteIsAnnounced ==
  \A c \in Commits : review[c].status = "COMPLETE" =>
    \/ posts[c] # <<>>
    \/ review[c].writebackFailed
    \/ \E j \in Jobs : job[j].commit = c /\ Live(j)
=============================================================================
