---------------------------- MODULE PlatformProofs ----------------------------
(* Of the reviews: why a commit with one job is posted at most once, and a *)
(* posted review kept, for any number of commits, slots, attempts, stalls  *)
(* and crashes, as long as GitHub does not take a post without answering;  *)
(* and why, with any number of jobs for it, a review shown as RUNNING, or  *)
(* COMPLETE but not announced, has a live job behind it. Of the webhooks:  *)
(* why the webhook_events row alone makes the handling of a delivery       *)
(* exclusive and its job unique, for any number of deliveries, requests,   *)
(* redeliveries and faults, jobs of enqueues that threw aside. Of the      *)
(* installations: why only a redirect handled after the removal leaves an  *)
(* active row without its app, and no repository is imported twice, for    *)
(* any number of installations, repositories and tabs. Then the theorems   *)
(* about the behaviours of MCPlatform, with those of SessionsProofs.       *)
EXTENDS MCPlatform, MCPrReviews, TLAPS

(* An execution runs an active job, alone; the rest are empty.             *)
SlotsHaveJob ==
  \A s \in Slots :
    \/ slot[s] = Free
    \/ slot[s].pc # "idle" /\ slot[s].job \in Jobs /\ job[slot[s].job].state = "active"

JobAlone ==
  \A s, t \in Slots : ~At(s, "idle") /\ ~At(t, "idle") /\ slot[s].job = slot[t].job => s = t

JobsHaveCommit == \A j \in Jobs : job[j].state # "unused" => job[j].commit \in Commits

CommitAlone ==
  \A i, j \in Jobs :
    job[i].state # "unused" /\ job[j].state # "unused" /\ job[i].commit = job[j].commit => i = j

DeletedHasNoReview == deleted => \A c \in Commits : review[c] = NoReview

WellFormed ==
  /\ TypeOK
  /\ SlotsHaveJob /\ JobAlone /\ JobsHaveCommit /\ CommitAlone /\ DeletedHasNoReview

(* Where the commit of an execution has not been posted yet, and where its *)
(* answer is in the row.                                                   *)
Unposted == {"takeover", "ask", "save", "log", "post", "unposted", "caught"}
Saved    == {"log", "post", "unposted"}

SlotInv(s) ==
  /\ slot[s].pc = "existing" /\ ~deleted => review[CommitOf(s)].status # "none"
  /\ slot[s].pc \in Unposted => posts[CommitOf(s)] = <<>>
  /\ slot[s].pc \in Saved \cup {"returned"} /\ ~deleted =>
       review[CommitOf(s)].status = "COMPLETE"
  /\ slot[s].pc \in Saved /\ ~deleted => review[CommitOf(s)].answer = slot[s].answer

CommitInv(c) ==
  /\ Len(posts[c]) <= 1
  /\ posts[c] # <<>> /\ ~deleted =>
       /\ review[c].status = "COMPLETE"
       /\ review[c].answer = posts[c][Len(posts[c])]

JobInv(j) ==
  job[j].state = "completed" /\ ~deleted => review[job[j].commit].status = "COMPLETE"

IndInv ==
  /\ WellFormed
  /\ \A s \in Slots : SlotInv(s)
  /\ \A c \in Commits : CommitInv(c)
  /\ \A j \in Jobs : JobInv(j)

-----------------------------------------------------------------------------
OthersRest(s) ==
  /\ UNCHANGED <<deleted, job>>
  /\ deleted => UNCHANGED review
  /\ \A c \in Commits \ {CommitOf(s)} : review'[c] = review[c] /\ posts'[c] = posts[c]

(* A step of one execution disturbs the row and the posts of its commit    *)
(* alone, so it keeps IndInv if it keeps the parts about that execution.   *)
LEMMA Alone ==
  ASSUME WellFormed, NEW s \in Slots, NEW t \in Slots, ~At(s, "idle"), ~At(t, "idle"),
         CommitOf(s) = CommitOf(t)
  PROVE  s = t
BY DEF WellFormed, SlotsHaveJob, JobAlone, CommitAlone, CommitOf, At, Free

LEMMA SlotLocal ==
  ASSUME IndInv, NEW s \in Slots, ~At(s, "idle"), TypeOK',
         OthersRest(s),
         slot' = [slot EXCEPT ![s] = slot'[s]],
         slot'[s].job = slot[s].job, slot'[s].pc # "idle",
         SlotInv(s)', CommitInv(CommitOf(s))'
  PROVE  IndInv'
<1> USE DEF OthersRest
<1>1. CommitOf(s) \in Commits /\ CommitOf(s)' = CommitOf(s)
  BY DEF IndInv, WellFormed, SlotsHaveJob, JobsHaveCommit, CommitOf, At, Free
<1>2. \A t \in Slots \ {s} : slot'[t] = slot[t]
  BY DEF IndInv, WellFormed, TypeOK
<1>3. WellFormed'
  <2>1. SlotsHaveJob'
    BY <1>2 DEF IndInv, WellFormed, SlotsHaveJob, At, Free
  <2>2. JobAlone'
    BY <1>2 DEF IndInv, WellFormed, JobAlone, At
  <2>3. JobsHaveCommit' /\ CommitAlone' /\ DeletedHasNoReview'
    BY DEF IndInv, WellFormed, JobsHaveCommit, CommitAlone, DeletedHasNoReview, NoReview
  <2>4. QED BY <2>1, <2>2, <2>3 DEF WellFormed
<1>4. ASSUME NEW t \in Slots
      PROVE  SlotInv(t)'
  <2>1. CASE t = s
    BY <2>1
  <2>2. CASE t # s /\ At(t, "idle")
    BY <1>2, <2>2 DEF SlotInv, Unposted, Saved, At
  <2>3. CASE t # s /\ ~At(t, "idle")
    <3>1. CommitOf(t) \in Commits \ {CommitOf(s)} /\ CommitOf(t)' = CommitOf(t)
      BY <1>2, <2>3, Alone
      DEF IndInv, WellFormed, SlotsHaveJob, JobsHaveCommit, CommitOf, At, Free
    <3>2. SlotInv(t)
      BY DEF IndInv
    <3>3. QED BY <1>2, <2>3, <3>1, <3>2 DEF SlotInv
  <2>4. QED BY <2>1, <2>2, <2>3
<1>5. ASSUME NEW c \in Commits
      PROVE  CommitInv(c)'
  <2>1. CASE c = CommitOf(s)
    BY <1>1, <2>1
  <2>2. CASE c # CommitOf(s)
    BY <2>2 DEF IndInv, CommitInv
  <2>3. QED BY <2>1, <2>2
<1>6. ASSUME NEW j \in Jobs
      PROVE  JobInv(j)'
  <2>1. CASE j = slot[s].job
    BY <2>1 DEF IndInv, WellFormed, SlotsHaveJob, JobInv, At, Free
  <2>2. CASE job[j].state = "completed" /\ j # slot[s].job
    <3>1. job[j].commit \in Commits \ {CommitOf(s)}
      BY <2>2 DEF IndInv, WellFormed, SlotsHaveJob, JobsHaveCommit, CommitAlone, CommitOf, At, Free
    <3>2. QED BY <3>1 DEF IndInv, JobInv
  <2>3. CASE job[j].state # "completed"
    BY <2>3 DEF JobInv
  <2>4. QED BY <2>1, <2>2, <2>3
<1>7. QED BY <1>3, <1>4, <1>5, <1>6 DEF IndInv

LEMMA OfSlot ==
  ASSUME IndInv, NEW s \in Slots, ~At(s, "idle")
  PROVE  /\ slot[s].job \in Jobs /\ job[slot[s].job].state = "active"
         /\ CommitOf(s) \in Commits
         /\ SlotInv(s) /\ CommitInv(CommitOf(s))
         /\ slot[s] \in Runs /\ review[CommitOf(s)] \in Reviews
         /\ posts[CommitOf(s)] \in Seq(Nat)
BY DEF IndInv, WellFormed, TypeOK, SlotsHaveJob, JobsHaveCommit, CommitOf, At, Free

(* The words of the model, so that their sets stay unexpanded below.       *)
LEMMA Words ==
  /\ Pcs \ {"idle"} = {"create", "existing", "takeover", "ask", "save", "log", "post",
                        "unposted", "caught", "raised", "returned"}
  /\ {"waiting", "active", "delayed", "completed", "failed"} \subseteq JobStates
BY DEF Pcs, JobStates

LEMMA GotoRun ==
  ASSUME TypeOK, NEW s \in Slots, NEW pc \in Pcs, Goto(s, pc)
  PROVE  /\ slot' \in [Slots -> Runs]
         /\ slot' = [slot EXCEPT ![s] = slot'[s]]
         /\ slot'[s].pc = pc /\ slot'[s].job = slot[s].job
         /\ slot'[s].answer = slot[s].answer
BY DEF TypeOK, Goto, Runs

LEMMA RowUpdates ==
  ASSUME NEW rec \in Reviews, NEW n \in Nat
  PROVE  /\ Started(rec) \in Reviews
         /\ [rec EXCEPT !.status = "COMPLETE", !.answer = n] \in Reviews
         /\ [rec EXCEPT !.status = "COMPLETE", !.answer = n].status = "COMPLETE"
         /\ [rec EXCEPT !.status = "COMPLETE", !.answer = n].answer = n
         /\ [rec EXCEPT !.status = "FAILED"] \in Reviews
         /\ [rec EXCEPT !.writebackFailed = TRUE] \in Reviews
         /\ [rec EXCEPT !.writebackFailed = TRUE].status = rec.status
         /\ [rec EXCEPT !.writebackFailed = TRUE].answer = rec.answer
BY DEF Reviews, Statuses, Started

(* The execution goes to one of these places, with the job it has.         *)
Goes(s, pcs) ==
  /\ slot' \in [Slots -> Runs] /\ slot' = [slot EXCEPT ![s] = slot'[s]]
  /\ slot'[s].job = slot[s].job /\ slot'[s].pc \in pcs

LEMMA CreateReviewKeeps ==
  ASSUME IndInv, NEW s \in Slots, CreateReview(s)
  PROVE  IndInv'
<1> USE DEF Goes
<1>1. ~At(s, "idle")
  BY DEF CreateReview, At
<1>2. Goes(s, {"ask", "existing", "raised"}) /\ slot'[s].answer = slot[s].answer
  BY GotoRun, Words DEF CreateReview, IndInv, WellFormed
<1>3. /\ review' \in [Commits -> Reviews]
      /\ slot'[s].pc = "ask" => ~deleted /\ review[CommitOf(s)].status = "none"
      /\ slot'[s].pc = "existing" => ~deleted /\ review[CommitOf(s)].status # "none"
      /\ slot'[s].pc # "ask" => UNCHANGED review
  <2>1. CASE ~deleted /\ review[CommitOf(s)].status = "none"
    <3>1. Goto(s, "ask") /\ review' = [review EXCEPT ![CommitOf(s)] = Started(review[CommitOf(s)])]
      BY <2>1 DEF CreateReview
    <3>2. slot'[s].pc = "ask"
      BY <3>1, GotoRun, Words DEF IndInv, WellFormed
    <3>3. Started(review[CommitOf(s)]) \in Reviews
      BY <1>1, OfSlot, RowUpdates
    <3>4. QED BY <2>1, <3>1, <3>2, <3>3 DEF IndInv, WellFormed, TypeOK
  <2>2. CASE ~deleted /\ review[CommitOf(s)].status # "none"
    <3>1. Goto(s, "existing") /\ UNCHANGED review
      BY <2>2 DEF CreateReview
    <3>2. slot'[s].pc = "existing"
      BY <3>1, GotoRun, Words DEF IndInv, WellFormed
    <3>3. QED BY <2>2, <3>1, <3>2 DEF IndInv, WellFormed, TypeOK
  <2>3. CASE deleted
    <3>1. Goto(s, "raised") /\ UNCHANGED review
      BY <2>3 DEF CreateReview
    <3>2. slot'[s].pc = "raised"
      BY <3>1, GotoRun, Words DEF IndInv, WellFormed
    <3>3. QED BY <3>1, <3>2 DEF IndInv, WellFormed, TypeOK
  <2>4. QED BY <2>1, <2>2, <2>3
<1>4. TypeOK'
  BY <1>2, <1>3 DEF CreateReview, IndInv, WellFormed, TypeOK
<1>5. CommitOf(s)' = CommitOf(s)
  BY <1>2 DEF CreateReview, CommitOf
<1>6. SlotInv(s)'
  BY <1>1, <1>2, <1>3, <1>5, OfSlot DEF CreateReview, SlotInv, CommitInv, Unposted, Saved, At
<1>7. CommitInv(CommitOf(s))'
  BY <1>1, <1>2, <1>3, <1>5, OfSlot DEF CreateReview, CommitInv
<1>8. OthersRest(s)
  BY <1>1, OfSlot DEF OthersRest, CreateReview, IndInv, WellFormed, TypeOK
<1>9. QED BY <1>1, <1>2, <1>4, <1>6, <1>7, <1>8, SlotLocal

LEMMA ReadExistingKeeps ==
  ASSUME IndInv, NEW s \in Slots, ReadExisting(s)
  PROVE  IndInv'
<1> USE DEF Goes
<1>1. ~At(s, "idle")
  BY DEF ReadExisting, At
<1>2. Goes(s, {"returned", "takeover"}) /\ slot'[s].answer = slot[s].answer
  BY GotoRun, Words DEF ReadExisting, IndInv, WellFormed
<1>3. /\ review' \in [Commits -> Reviews] /\ UNCHANGED review
      /\ slot'[s].pc = "returned" => review[CommitOf(s)].status \in {"COMPLETE", "none"}
      /\ slot'[s].pc = "takeover" => review[CommitOf(s)].status \notin {"COMPLETE", "none"}
  BY GotoRun, Words DEF ReadExisting, IndInv, WellFormed, TypeOK
<1>4. TypeOK'
  BY <1>2, <1>3 DEF ReadExisting, IndInv, WellFormed, TypeOK
<1>5. CommitOf(s)' = CommitOf(s)
  BY <1>2 DEF ReadExisting, CommitOf
<1>6. SlotInv(s)'
  <2>1. deleted => review[CommitOf(s)].status = "none"
    BY <1>1, OfSlot DEF IndInv, WellFormed, DeletedHasNoReview, NoReview
  <2>2. QED
    BY <2>1, <1>1, <1>2, <1>3, <1>5, OfSlot DEF ReadExisting, SlotInv, CommitInv, Unposted, Saved, At
<1>7. CommitInv(CommitOf(s))'
  BY <1>1, <1>3, <1>5, OfSlot DEF ReadExisting, CommitInv, SlotInv, Unposted, At
<1>8. OthersRest(s)
  BY <1>1, OfSlot DEF OthersRest, ReadExisting, IndInv, WellFormed, TypeOK
<1>9. QED BY <1>1, <1>2, <1>4, <1>6, <1>7, <1>8, SlotLocal

LEMMA TakeOverKeeps ==
  ASSUME IndInv, NEW s \in Slots, TakeOver(s)
  PROVE  IndInv'
<1> USE DEF Goes
<1>1. ~At(s, "idle")
  BY DEF TakeOver, UpdateReview, At
<1>2. Goes(s, {"ask", "raised"}) /\ slot'[s].answer = slot[s].answer
  BY GotoRun, Words DEF TakeOver, UpdateReview, IndInv, WellFormed
<1>3. review' \in [Commits -> Reviews]
  <2>1. Started(review[CommitOf(s)]) \in Reviews
    BY <1>1, OfSlot, RowUpdates
  <2>2. \/ review' = [review EXCEPT ![CommitOf(s)] = Started(review[CommitOf(s)])]
        \/ UNCHANGED review
    BY DEF TakeOver, UpdateReview
  <2>3. QED BY <2>1, <2>2 DEF IndInv, WellFormed, TypeOK
<1>4. TypeOK'
  BY <1>2, <1>3 DEF TakeOver, UpdateReview, IndInv, WellFormed, TypeOK
<1>5. CommitOf(s)' = CommitOf(s)
  BY <1>2 DEF TakeOver, UpdateReview, CommitOf
<1>6. SlotInv(s)'
  BY <1>1, <1>2, <1>3, <1>5, OfSlot DEF TakeOver, SlotInv, CommitInv, Unposted, Saved, At
<1>7. CommitInv(CommitOf(s))'
  BY <1>1, <1>3, <1>5, OfSlot DEF TakeOver, UpdateReview, CommitInv, SlotInv, Unposted, At
<1>8. OthersRest(s)
  BY <1>1, OfSlot DEF OthersRest, TakeOver, UpdateReview, IndInv, WellFormed, TypeOK
<1>9. QED BY <1>1, <1>2, <1>4, <1>6, <1>7, <1>8, SlotLocal

LEMMA AskLlmKeeps ==
  ASSUME IndInv, NEW s \in Slots, AskLlm(s)
  PROVE  IndInv'
<1> USE DEF Goes
<1>1. ~At(s, "idle")
  BY DEF AskLlm, At
<1>2. Goes(s, {"save"}) /\ answers' \in [Commits -> Nat]
  <2>1. CommitOf(s) \in Commits /\ answers' \in [Commits -> Nat]
    BY <1>1, OfSlot DEF AskLlm, IndInv, WellFormed, TypeOK
  <2>2. answers'[CommitOf(s)] \in Nat
    BY <2>1
  <2>3. slot[s] \in Runs /\ "save" \in Pcs
    BY <1>1, OfSlot DEF Pcs
  <2>4. [slot[s] EXCEPT !.pc = "save", !.answer = answers'[CommitOf(s)]] \in Runs
    BY <2>2, <2>3 DEF Runs
  <2>5. slot' = [slot EXCEPT ![s] = [slot[s] EXCEPT !.pc = "save", !.answer = answers'[CommitOf(s)]]]
    BY DEF AskLlm
  <2>6. QED BY <2>1, <2>3, <2>4, <2>5 DEF IndInv, WellFormed, TypeOK, Runs
<1>3. review' \in [Commits -> Reviews] /\ UNCHANGED review
  BY DEF AskLlm, IndInv, WellFormed, TypeOK
<1>4. TypeOK'
  BY <1>2, <1>3 DEF AskLlm, IndInv, WellFormed, TypeOK
<1>5. CommitOf(s)' = CommitOf(s)
  BY <1>2 DEF AskLlm, CommitOf
<1>6. SlotInv(s)'
  BY <1>1, <1>2, <1>3, <1>5, OfSlot DEF AskLlm, SlotInv, CommitInv, Unposted, Saved, At
<1>7. CommitInv(CommitOf(s))'
  BY <1>1, <1>3, <1>5, OfSlot DEF AskLlm, CommitInv, SlotInv, Unposted, At
<1>8. OthersRest(s)
  BY <1>1, OfSlot DEF OthersRest, AskLlm, IndInv, WellFormed, TypeOK
<1>9. QED BY <1>1, <1>2, <1>4, <1>6, <1>7, <1>8, SlotLocal

LEMMA SaveReviewKeeps ==
  ASSUME IndInv, NEW s \in Slots, SaveReview(s)
  PROVE  IndInv'
<1> USE DEF Goes
<1>1. ~At(s, "idle")
  BY DEF SaveReview, UpdateReview, At
<1>2. Goes(s, {"log"}) /\ slot'[s].answer = slot[s].answer
  BY GotoRun, Words DEF SaveReview, UpdateReview, IndInv, WellFormed
<1>3. /\ review' \in [Commits -> Reviews]
      /\ review'[CommitOf(s)].status = "COMPLETE"
      /\ review'[CommitOf(s)].answer = slot[s].answer
  <2>1. slot[s].answer \in Nat /\ CommitOf(s) \in Commits /\ review[CommitOf(s)] \in Reviews
    BY <1>1, OfSlot DEF Runs
  <2>2. PICK rec : /\ rec = [review[CommitOf(s)] EXCEPT !.status = "COMPLETE", !.answer = slot[s].answer]
                   /\ review' = [review EXCEPT ![CommitOf(s)] = rec]
    BY DEF SaveReview, UpdateReview
  <2>3. rec \in Reviews /\ rec.status = "COMPLETE" /\ rec.answer = slot[s].answer
    BY <2>1, <2>2 DEF Reviews, Statuses
  <2>4. QED BY <2>1, <2>2, <2>3 DEF IndInv, WellFormed, TypeOK
<1>4. TypeOK'
  BY <1>2, <1>3 DEF SaveReview, UpdateReview, IndInv, WellFormed, TypeOK
<1>5. CommitOf(s)' = CommitOf(s)
  BY <1>2 DEF SaveReview, UpdateReview, CommitOf
<1>6. SlotInv(s)'
  BY <1>1, <1>2, <1>3, <1>5, OfSlot DEF SaveReview, SlotInv, CommitInv, Unposted, Saved, At
<1>7. CommitInv(CommitOf(s))'
  BY <1>1, <1>3, <1>5, OfSlot DEF SaveReview, UpdateReview, CommitInv, SlotInv, Unposted, At
<1>8. OthersRest(s)
  BY <1>1, OfSlot DEF OthersRest, SaveReview, UpdateReview, IndInv, WellFormed, TypeOK
<1>9. QED BY <1>1, <1>2, <1>4, <1>6, <1>7, <1>8, SlotLocal

LEMMA WriteUsageLogKeeps ==
  ASSUME IndInv, NEW s \in Slots, WriteUsageLog(s)
  PROVE  IndInv'
<1> USE DEF Goes
<1>1. ~At(s, "idle")
  BY DEF WriteUsageLog, At
<1>2. Goes(s, {"post"}) /\ slot'[s].answer = slot[s].answer
  BY GotoRun, Words DEF WriteUsageLog, IndInv, WellFormed
<1>3. review' \in [Commits -> Reviews] /\ UNCHANGED review
  BY DEF WriteUsageLog, IndInv, WellFormed, TypeOK
<1>4. TypeOK'
  BY <1>2, <1>3 DEF WriteUsageLog, IndInv, WellFormed, TypeOK
<1>5. CommitOf(s)' = CommitOf(s)
  BY <1>2 DEF WriteUsageLog, CommitOf
<1>6. SlotInv(s)'
  BY <1>1, <1>2, <1>3, <1>5, OfSlot DEF WriteUsageLog, SlotInv, CommitInv, Unposted, Saved, At
<1>7. CommitInv(CommitOf(s))'
  BY <1>1, <1>3, <1>5, OfSlot DEF WriteUsageLog, CommitInv, SlotInv, Unposted, At
<1>8. OthersRest(s)
  BY <1>1, OfSlot DEF OthersRest, WriteUsageLog, IndInv, WellFormed, TypeOK
<1>9. QED BY <1>1, <1>2, <1>4, <1>6, <1>7, <1>8, SlotLocal

LEMMA PostReviewKeeps ==
  ASSUME IndInv, NEW s \in Slots, PostReview(s), "ambiguousPost" \notin Faults
  PROVE  IndInv'
<1> USE DEF Goes
<1>1. ~At(s, "idle")
  BY DEF PostReview, At
<1>2. Goes(s, {"returned", "unposted"}) /\ slot'[s].answer = slot[s].answer
  BY GotoRun, Words DEF PostReview, IndInv, WellFormed
<1>3. /\ review' \in [Commits -> Reviews] /\ UNCHANGED review
      /\ posts' \in [Commits -> Seq(Nat)]
      /\ \/ slot'[s].pc = "returned" /\ posts'[CommitOf(s)] = <<slot[s].answer>>
         \/ posts'[CommitOf(s)] = <<>>
  <2>1. posts[CommitOf(s)] = <<>> /\ slot[s].answer \in Nat /\ CommitOf(s) \in Commits
    BY <1>1, OfSlot DEF PostReview, SlotInv, Unposted, At, Runs
  <2>2. Append(posts[CommitOf(s)], slot[s].answer) = <<slot[s].answer>>
    BY <2>1
  <2>3. CASE UNCHANGED posts
    BY <2>1, <2>3 DEF PostReview, IndInv, WellFormed, TypeOK
  <2>4. CASE /\ posts' = [posts EXCEPT ![CommitOf(s)] = <<slot[s].answer>>]
             /\ Goto(s, "returned")
    BY <2>1, <2>4, GotoRun, Words DEF PostReview, IndInv, WellFormed, TypeOK
  <2>5. QED BY <2>2, <2>3, <2>4 DEF PostReview
<1>4. TypeOK'
  BY <1>2, <1>3 DEF PostReview, IndInv, WellFormed, TypeOK
<1>5. CommitOf(s)' = CommitOf(s)
  BY <1>2 DEF PostReview, CommitOf
<1>6. SlotInv(s)'
  BY <1>1, <1>2, <1>3, <1>5, OfSlot DEF PostReview, SlotInv, CommitInv, Unposted, Saved, At
<1>7. CommitInv(CommitOf(s))'
  <2>1. ~deleted => /\ review[CommitOf(s)].status = "COMPLETE"
                    /\ review[CommitOf(s)].answer = slot[s].answer
    BY <1>1, OfSlot DEF PostReview, SlotInv, Saved, At
  <2>2. CASE posts'[CommitOf(s)] = <<>>
    BY <1>5, <2>2 DEF CommitInv
  <2>3. CASE posts'[CommitOf(s)] = <<slot[s].answer>>
    BY <1>3, <1>5, <2>1, <2>3 DEF PostReview, CommitInv
  <2>4. QED BY <1>3, <2>2, <2>3
<1>8. OthersRest(s)
  BY <1>1, OfSlot DEF OthersRest, PostReview, IndInv, WellFormed, TypeOK
<1>9. QED BY <1>1, <1>2, <1>4, <1>6, <1>7, <1>8, SlotLocal

LEMMA MarkWritebackFailedKeeps ==
  ASSUME IndInv, NEW s \in Slots, MarkWritebackFailed(s)
  PROVE  IndInv'
<1> USE DEF Goes
<1>1. ~At(s, "idle")
  BY DEF MarkWritebackFailed, UpdateReview, At
<1>2. Goes(s, {"returned"}) /\ slot'[s].answer = slot[s].answer
  BY GotoRun, Words DEF MarkWritebackFailed, UpdateReview, IndInv, WellFormed
<1>3. /\ review' \in [Commits -> Reviews]
      /\ review'[CommitOf(s)].status = review[CommitOf(s)].status
      /\ review'[CommitOf(s)].answer = review[CommitOf(s)].answer
  BY <1>1, OfSlot, RowUpdates DEF MarkWritebackFailed, UpdateReview, IndInv, WellFormed, TypeOK
<1>4. TypeOK'
  BY <1>2, <1>3 DEF MarkWritebackFailed, UpdateReview, IndInv, WellFormed, TypeOK
<1>5. CommitOf(s)' = CommitOf(s)
  BY <1>2 DEF MarkWritebackFailed, UpdateReview, CommitOf
<1>6. SlotInv(s)'
  BY <1>1, <1>2, <1>3, <1>5, OfSlot DEF MarkWritebackFailed, SlotInv, CommitInv, Unposted, Saved, At
<1>7. CommitInv(CommitOf(s))'
  BY <1>1, <1>3, <1>5, OfSlot DEF MarkWritebackFailed, UpdateReview, CommitInv, SlotInv, Unposted, At
<1>8. OthersRest(s)
  BY <1>1, OfSlot DEF OthersRest, MarkWritebackFailed, UpdateReview, IndInv, WellFormed, TypeOK
<1>9. QED BY <1>1, <1>2, <1>4, <1>6, <1>7, <1>8, SlotLocal

LEMMA StepThrowsKeeps ==
  ASSUME IndInv, NEW s \in Slots, StepThrows(s)
  PROVE  IndInv'
<1> USE DEF Goes
<1>1. ~At(s, "idle")
  BY DEF StepThrows, At
<1>2. Goes(s, {"raised", "caught"}) /\ slot'[s].answer = slot[s].answer
  BY GotoRun, Words DEF StepThrows, IndInv, WellFormed
<1>3. /\ review' \in [Commits -> Reviews] /\ UNCHANGED review
      /\ slot'[s].pc = "caught" => slot[s].pc \in {"ask", "save", "log", "unposted"}
  <2>1. CASE slot[s].pc \in {"create", "existing", "takeover"}
    <3>1. Goto(s, "raised")
      BY <2>1 DEF StepThrows, At
    <3>2. QED BY <3>1, GotoRun, Words DEF StepThrows, IndInv, WellFormed, TypeOK
  <2>2. CASE slot[s].pc \in {"ask", "save", "log", "unposted"}
    BY <2>2 DEF StepThrows, IndInv, WellFormed, TypeOK
  <2>3. QED BY <2>1, <2>2 DEF StepThrows, At
<1>4. TypeOK'
  BY <1>2, <1>3 DEF StepThrows, IndInv, WellFormed, TypeOK
<1>5. CommitOf(s)' = CommitOf(s)
  BY <1>2 DEF StepThrows, CommitOf
<1>6. SlotInv(s)'
  BY <1>1, <1>2, <1>3, <1>5, OfSlot DEF StepThrows, SlotInv, CommitInv, Unposted, Saved, At
<1>7. CommitInv(CommitOf(s))'
  BY <1>1, <1>3, <1>5, OfSlot DEF StepThrows, CommitInv, SlotInv, Unposted, At
<1>8. OthersRest(s)
  BY <1>1, OfSlot DEF OthersRest, StepThrows, IndInv, WellFormed, TypeOK
<1>9. QED BY <1>1, <1>2, <1>4, <1>6, <1>7, <1>8, SlotLocal

LEMMA CatchFailureKeeps ==
  ASSUME IndInv, NEW s \in Slots, CatchFailure(s)
  PROVE  IndInv'
<1> USE DEF Goes
<1>1. ~At(s, "idle")
  BY DEF CatchFailure, UpdateReview, At
<1>2. Goes(s, {"raised"}) /\ slot'[s].answer = slot[s].answer
  BY GotoRun, Words DEF CatchFailure, UpdateReview, IndInv, WellFormed
<1>3. review' \in [Commits -> Reviews]
  <2>1. [review[CommitOf(s)] EXCEPT !.status = "FAILED"] \in Reviews
    BY <1>1, OfSlot, RowUpdates
  <2>2. \/ review' = [review EXCEPT ![CommitOf(s)] = [review[CommitOf(s)] EXCEPT !.status = "FAILED"]]
        \/ UNCHANGED review
    BY DEF CatchFailure, UpdateReview
  <2>3. QED BY <2>1, <2>2 DEF IndInv, WellFormed, TypeOK
<1>4. TypeOK'
  BY <1>2, <1>3 DEF CatchFailure, UpdateReview, IndInv, WellFormed, TypeOK
<1>5. CommitOf(s)' = CommitOf(s)
  BY <1>2 DEF CatchFailure, UpdateReview, CommitOf
<1>6. SlotInv(s)'
  BY <1>1, <1>2, <1>3, <1>5, OfSlot DEF CatchFailure, SlotInv, CommitInv, Unposted, Saved, At
<1>7. CommitInv(CommitOf(s))'
  BY <1>1, <1>3, <1>5, OfSlot DEF CatchFailure, UpdateReview, CommitInv, SlotInv, Unposted, At
<1>8. OthersRest(s)
  BY <1>1, OfSlot DEF OthersRest, CatchFailure, UpdateReview, IndInv, WellFormed, TypeOK
<1>9. QED BY <1>1, <1>2, <1>4, <1>6, <1>7, <1>8, SlotLocal

-----------------------------------------------------------------------------
(* The rest of the steps: webhooks, deletion, BullMQ and crashes.          *)

(* A change of jobs and slots that hands no execution new work.            *)
LEMMA QueueSide ==
  ASSUME IndInv, WellFormed', UNCHANGED <<deleted, review, posts>>,
         \A s \in Slots : slot'[s].pc \in {"idle", "create"} \/
                          (slot'[s] = slot[s] /\ CommitOf(s)' = CommitOf(s)),
         \A j \in Jobs : job'[j].state = "completed" =>
           \/ job[j].state = "completed" /\ job'[j].commit = job[j].commit
           \/ deleted \/ review[job'[j].commit].status = "COMPLETE"
  PROVE  IndInv'
<1>1. ASSUME NEW s \in Slots
      PROVE  SlotInv(s)'
  <2>1. CASE slot'[s].pc \in {"idle", "create"}
    BY <2>1 DEF SlotInv, Unposted, Saved
  <2>2. CASE slot'[s] = slot[s] /\ CommitOf(s)' = CommitOf(s)
    BY <2>2 DEF IndInv, SlotInv
  <2>3. QED BY <2>1, <2>2
<1>2. \A c \in Commits : CommitInv(c)'
  BY DEF IndInv, CommitInv
<1>3. \A j \in Jobs : JobInv(j)'
  BY DEF IndInv, JobInv
<1>4. QED BY <1>1, <1>2, <1>3 DEF IndInv

LEMMA HandlePullRequestEventKeeps ==
  ASSUME IndInv, "twice" \notin Faults, NEW c \in Commits, NEW j \in Jobs,
         HandlePullRequestEvent(c, j)
  PROVE  IndInv'
<1>1. /\ job' \in [Jobs -> JobRows]
      /\ \A i \in Jobs \ {j} : job'[i] = job[i]
      /\ job'[j].state = "waiting" /\ job'[j].commit = c
  BY Words DEF HandlePullRequestEvent, IndInv, WellFormed, TypeOK, JobRows
<1>2. \A s \in Slots : ~At(s, "idle") => slot[s].job # j
  BY DEF HandlePullRequestEvent, IndInv, WellFormed, SlotsHaveJob, At, Free
<1>3. WellFormed'
  <2>1. TypeOK' /\ DeletedHasNoReview' /\ JobAlone'
    BY <1>1 DEF HandlePullRequestEvent, IndInv, WellFormed, TypeOK, DeletedHasNoReview, NoReview,
                JobAlone, At
  <2>2. SlotsHaveJob'
    BY <1>1, <1>2 DEF HandlePullRequestEvent, IndInv, WellFormed, SlotsHaveJob, At, Free
  <2>3. JobsHaveCommit' /\ CommitAlone'
    BY <1>1 DEF HandlePullRequestEvent, IndInv, WellFormed, JobsHaveCommit, CommitAlone
  <2>4. QED BY <2>1, <2>2, <2>3 DEF WellFormed
<1>4. \A s \in Slots : slot'[s].pc = "idle" \/ (slot'[s] = slot[s] /\ CommitOf(s)' = CommitOf(s))
  BY <1>1, <1>2, OfSlot DEF HandlePullRequestEvent, CommitOf, At
<1>5. QED BY <1>1, <1>3, <1>4, QueueSide DEF HandlePullRequestEvent

LEMMA DeletePullRequestKeeps ==
  ASSUME IndInv, DeletePullRequest
  PROVE  IndInv'
<1>1. WellFormed'
  <2>1. NoReview \in Reviews
    BY DEF NoReview, Reviews, Statuses
  <2>2. QED
    BY <2>1 DEF DeletePullRequest, IndInv, WellFormed, TypeOK, SlotsHaveJob, JobAlone,
                JobsHaveCommit, CommitAlone, DeletedHasNoReview, At, Free, NoReview
<1>2. \A s \in Slots : SlotInv(s)'
  BY DEF DeletePullRequest, IndInv, SlotInv, CommitOf
<1>3. \A c \in Commits : CommitInv(c)'
  BY DEF DeletePullRequest, IndInv, CommitInv
<1>4. \A j \in Jobs : JobInv(j)'
  BY DEF DeletePullRequest, JobInv
<1>5. QED BY <1>1, <1>2, <1>3, <1>4 DEF IndInv

LEMMA TakeJobKeeps ==
  ASSUME IndInv, NEW s \in Slots, NEW j \in Jobs, TakeJob(s, j)
  PROVE  IndInv'
<1>1. /\ job' \in [Jobs -> JobRows]
      /\ \A i \in Jobs : job'[i].commit = job[i].commit
      /\ \A i \in Jobs \ {j} : job'[i] = job[i]
      /\ job'[j].state = "active"
  BY Words DEF TakeJob, IndInv, WellFormed, TypeOK, JobRows
<1>2. /\ slot' \in [Slots -> Runs]
      /\ \A t \in Slots \ {s} : slot'[t] = slot[t]
      /\ slot'[s].pc = "create" /\ slot'[s].job = j
  <2>1. [pc |-> "create", job |-> j, answer |-> 0] \in Runs
    BY Words DEF Runs, Pcs
  <2>2. QED BY <2>1 DEF TakeJob, IndInv, WellFormed, TypeOK
<1>3. \A t \in Slots : ~At(t, "idle") => slot[t].job # j
  BY DEF TakeJob, IndInv, WellFormed, SlotsHaveJob, At, Free
<1>4. WellFormed'
  <2>1. TypeOK' /\ DeletedHasNoReview'
    BY <1>1, <1>2 DEF TakeJob, IndInv, WellFormed, TypeOK, DeletedHasNoReview, NoReview
  <2>2. SlotsHaveJob'
    BY <1>1, <1>2 DEF TakeJob, IndInv, WellFormed, SlotsHaveJob, Free
  <2>3. JobAlone'
    BY <1>2, <1>3 DEF IndInv, WellFormed, JobAlone, At
  <2>4. JobsHaveCommit' /\ CommitAlone'
    BY <1>1 DEF TakeJob, IndInv, WellFormed, JobsHaveCommit, CommitAlone
  <2>5. QED BY <2>1, <2>2, <2>3, <2>4 DEF WellFormed
<1>5. \A t \in Slots \ {s} :
        slot'[t].pc = "idle" \/ (slot'[t] = slot[t] /\ CommitOf(t)' = CommitOf(t))
  BY <1>1, <1>2, OfSlot DEF CommitOf, At
<1>6. QED BY <1>1, <1>2, <1>4, <1>5, QueueSide DEF TakeJob

(* The end of an execution: its job gets another state, itself is free.    *)
LEMMA AckKeeps ==
  ASSUME IndInv, NEW s \in Slots, ~At(s, "idle"),
         job' \in [Jobs -> JobRows],
         \A i \in Jobs : job'[i].commit = job[i].commit,
         \A i \in Jobs \ {slot[s].job} : job'[i] = job[i],
         job'[slot[s].job].state # "unused",
         job'[slot[s].job].state = "completed" =>
           deleted \/ review[CommitOf(s)].status = "COMPLETE",
         slot' = [slot EXCEPT ![s] = Free],
         UNCHANGED <<deleted, review, answers, posts>>
  PROVE  IndInv'
<1>1. /\ slot' \in [Slots -> Runs]
      /\ \A t \in Slots \ {s} : slot'[t] = slot[t]
      /\ slot'[s] = Free
  <2>1. Free \in Runs
    BY DEF Free, Runs, Pcs
  <2>2. QED BY <2>1 DEF IndInv, WellFormed, TypeOK
<1>2. slot[s].job \in Jobs /\ job[slot[s].job].state = "active"
  BY OfSlot
<1>3. \A t \in Slots \ {s} : ~At(t, "idle") => slot[t].job # slot[s].job
  BY DEF IndInv, WellFormed, JobAlone
<1>4. WellFormed'
  <2>1. TypeOK' /\ DeletedHasNoReview'
    BY <1>1 DEF IndInv, WellFormed, TypeOK, DeletedHasNoReview, NoReview
  <2>2. SlotsHaveJob'
    BY <1>1, <1>3 DEF IndInv, WellFormed, SlotsHaveJob, At, Free
  <2>3. JobAlone'
    BY <1>1 DEF IndInv, WellFormed, JobAlone, At, Free
  <2>4. JobsHaveCommit' /\ CommitAlone'
    BY <1>2 DEF IndInv, WellFormed, JobsHaveCommit, CommitAlone
  <2>5. QED BY <2>1, <2>2, <2>3, <2>4 DEF WellFormed
<1>5. \A t \in Slots :
        slot'[t].pc = "idle" \/ (slot'[t] = slot[t] /\ CommitOf(t)' = CommitOf(t))
  BY <1>1, OfSlot DEF CommitOf, At, Free
<1>6. job'[slot[s].job].commit = CommitOf(s)
  BY <1>2 DEF CommitOf
<1>7. QED BY <1>4, <1>5, <1>6, QueueSide

LEMMA AckCompletedKeeps ==
  ASSUME IndInv, NEW s \in Slots, AckCompleted(s)
  PROVE  IndInv'
<1>1. ~At(s, "idle")
  BY DEF AckCompleted, At
<1>2. ~deleted => review[CommitOf(s)].status = "COMPLETE"
  BY <1>1, OfSlot DEF AckCompleted, SlotInv, At
<1>3. /\ job' \in [Jobs -> JobRows]
      /\ \A i \in Jobs : job'[i].commit = job[i].commit
      /\ \A i \in Jobs \ {slot[s].job} : job'[i] = job[i]
      /\ job'[slot[s].job].state = "completed"
  <2>1. slot[s].job \in Jobs
    BY <1>1, OfSlot
  <2>2. PICK rec : /\ rec = [job[slot[s].job] EXCEPT !.state = "completed"]
                   /\ job' = [job EXCEPT ![slot[s].job] = rec]
    BY DEF AckCompleted
  <2>3. rec \in JobRows /\ rec.commit = job[slot[s].job].commit /\ rec.state = "completed"
    BY <2>1, <2>2, Words DEF IndInv, WellFormed, TypeOK, JobRows
  <2> QED BY <2>1, <2>2, <2>3 DEF IndInv, WellFormed, TypeOK
<1>4. QED BY <1>1, <1>2, <1>3, AckKeeps DEF AckCompleted

LEMMA JobUpdates ==
  ASSUME NEW rec \in JobRows, NEW next \in JobStates
  PROVE  /\ Failed(rec, next) \in JobRows /\ Stalled(rec, next) \in JobRows
         /\ Failed(rec, next).state = next /\ Stalled(rec, next).state = next
         /\ Failed(rec, next).commit = rec.commit /\ Stalled(rec, next).commit = rec.commit
<1>1. rec.made + 1 \in Nat /\ rec.stalls + 1 \in Nat
  BY DEF JobRows
<1>2. PICK m \in Nat, n \in Nat : m = rec.made + 1 /\ n = rec.stalls + 1
  BY <1>1
<1>3. /\ Failed(rec, next) = [rec EXCEPT !.state = next, !.made = m]
      /\ Stalled(rec, next) = [rec EXCEPT !.state = next, !.stalls = n]
  BY <1>2 DEF Failed, Stalled
<1>4. QED BY <1>3 DEF JobRows

LEMMA AckFailedKeeps ==
  ASSUME IndInv, NEW s \in Slots, AckFailed(s)
  PROVE  IndInv'
<1>1. ~At(s, "idle")
  BY DEF AckFailed, At
<1>2. PICK outcome \in {"delayed", "failed"} :
        job' = [job EXCEPT ![slot[s].job] = Failed(job[slot[s].job], outcome)]
  BY DEF AckFailed
<1>3. outcome \in JobStates
  BY Words
<1>4. /\ job' \in [Jobs -> JobRows]
      /\ \A i \in Jobs : job'[i].commit = job[i].commit
      /\ \A i \in Jobs \ {slot[s].job} : job'[i] = job[i]
      /\ job'[slot[s].job].state = outcome
  <2>1. slot[s].job \in Jobs /\ job[slot[s].job] \in JobRows
    BY <1>1, OfSlot DEF IndInv, WellFormed, TypeOK
  <2>2. PICK rec : rec = Failed(job[slot[s].job], outcome) /\ job' = [job EXCEPT ![slot[s].job] = rec]
    BY <1>2
  <2>3. rec \in JobRows /\ rec.commit = job[slot[s].job].commit /\ rec.state = outcome
    BY <1>3, <2>1, <2>2, JobUpdates
  <2>4. QED BY <2>1, <2>2, <2>3 DEF IndInv, WellFormed, TypeOK
<1>5. QED BY <1>1, <1>4, AckKeeps DEF AckFailed

(* A job nobody runs changes its state.                                    *)
LEMMA IdleJobKeeps ==
  ASSUME IndInv, NEW j \in Jobs, NEW next \in {"waiting", "failed"},
         job[j].state # "unused", \A s \in Slots : slot[s].job # j,
         job' \in [Jobs -> JobRows],
         \A i \in Jobs : job'[i].commit = job[i].commit,
         \A i \in Jobs \ {j} : job'[i] = job[i], job'[j].state = next,
         UNCHANGED <<deleted, review, answers, posts, slot>>
  PROVE  IndInv'
<1>1. WellFormed'
  <2>1. TypeOK' /\ DeletedHasNoReview' /\ JobAlone'
    BY DEF IndInv, WellFormed, TypeOK, DeletedHasNoReview, NoReview, JobAlone, At
  <2>2. SlotsHaveJob'
    BY DEF IndInv, WellFormed, SlotsHaveJob
  <2>3. JobsHaveCommit' /\ CommitAlone'
    BY DEF IndInv, WellFormed, JobsHaveCommit, CommitAlone
  <2>4. QED BY <2>1, <2>2, <2>3 DEF WellFormed
<1>2. \A t \in Slots :
        slot'[t].pc = "idle" \/ (slot'[t] = slot[t] /\ CommitOf(t)' = CommitOf(t))
  BY OfSlot DEF CommitOf, At
<1>3. QED BY <1>1, <1>2, QueueSide

LEMMA PromoteDelayedKeeps ==
  ASSUME IndInv, NEW j \in Jobs, PromoteDelayed(j)
  PROVE  IndInv'
<1>1. \A s \in Slots : slot[s].job # j
  <2>1. None \notin Jobs
    BY NoneAssumption
  <2>2. QED BY <2>1 DEF PromoteDelayed, IndInv, WellFormed, SlotsHaveJob, Free
<1>2. /\ job' \in [Jobs -> JobRows]
      /\ \A i \in Jobs : job'[i].commit = job[i].commit
      /\ \A i \in Jobs \ {j} : job'[i] = job[i]
      /\ job'[j].state = "waiting"
  BY Words DEF PromoteDelayed, IndInv, WellFormed, TypeOK, JobRows
<1>3. QED BY <1>1, <1>2, IdleJobKeeps DEF PromoteDelayed

LEMMA RequeueStalledKeeps ==
  ASSUME IndInv, NEW j \in Jobs, RequeueStalled(j)
  PROVE  IndInv'
<1>1. PICK outcome \in {"waiting", "failed"} :
        job' = [job EXCEPT ![j] = Stalled(job[j], outcome)]
  BY DEF RequeueStalled
<1>2. outcome \in JobStates
  BY Words
<1>3. /\ job' \in [Jobs -> JobRows]
      /\ \A i \in Jobs : job'[i].commit = job[i].commit
      /\ \A i \in Jobs \ {j} : job'[i] = job[i]
      /\ job'[j].state = outcome
  <2>1. j \in Jobs /\ job[j] \in JobRows
    BY DEF IndInv, WellFormed, TypeOK
  <2>2. PICK rec : rec = Stalled(job[j], outcome) /\ job' = [job EXCEPT ![j] = rec]
    BY <1>1
  <2>3. rec \in JobRows /\ rec.commit = job[j].commit /\ rec.state = outcome
    BY <1>2, <2>1, <2>2, JobUpdates
  <2>4. QED BY <2>1, <2>2, <2>3 DEF IndInv, WellFormed, TypeOK
<1>4. QED BY <1>3, IdleJobKeeps DEF RequeueStalled

LEMMA WorkerCrashKeeps ==
  ASSUME IndInv, WorkerCrash
  PROVE  IndInv'
<1>1. Free \in Runs
  BY DEF Free, Runs, Pcs
<1>2. \A s \in Slots : slot'[s] = Free /\ slot'[s].pc = "idle"
  BY DEF WorkerCrash, Free
<1>3. WellFormed'
  BY <1>1, <1>2 DEF WorkerCrash, IndInv, WellFormed, TypeOK, SlotsHaveJob, JobAlone,
                    JobsHaveCommit, CommitAlone, DeletedHasNoReview, NoReview, At
<1>4. QED BY <1>2, <1>3, QueueSide DEF WorkerCrash

-----------------------------------------------------------------------------
LEMMA IndInvInit == Init => IndInv
<1> SUFFICES ASSUME Init PROVE IndInv
  OBVIOUS
<1>1. /\ NoReview \in Reviews /\ Free \in Runs
      /\ [state |-> "unused", commit |-> None, made |-> 0, stalls |-> 0] \in JobRows
  BY DEF NoReview, Reviews, Statuses, Free, Runs, Pcs, JobRows, JobStates
<1>2. TypeOK
  <2>1. <<>> \in Seq(Nat) /\ FALSE \in BOOLEAN
    OBVIOUS
  <2>2. answers \in [Commits -> Nat] /\ posts \in [Commits -> Seq(Nat)]
    BY <2>1 DEF Init
  <2>3. /\ review \in [Commits -> Reviews] /\ job \in [Jobs -> JobRows]
        /\ slot \in [Slots -> Runs]
    BY <1>1 DEF Init
  <2>4. QED BY <2>1, <2>2, <2>3 DEF Init, TypeOK
<1>3. WellFormed
  BY <1>2 DEF Init, WellFormed, SlotsHaveJob, JobAlone, JobsHaveCommit, CommitAlone,
              DeletedHasNoReview, At, Free
<1>4. QED BY <1>3 DEF Init, IndInv, SlotInv, CommitInv, JobInv, Unposted, Saved, Free

LEMMA IndInvStep ==
  ASSUME Faults \cap {"ambiguousPost", "twice"} = {}, IndInv, [Next]_vars
  PROVE  IndInv'
<1>1. CASE UNCHANGED vars
  BY <1>1 DEF vars, IndInv, WellFormed, TypeOK, SlotsHaveJob, JobAlone, JobsHaveCommit,
              CommitAlone, DeletedHasNoReview, NoReview, SlotInv, CommitInv, JobInv, CommitOf, At
<1>2. ASSUME NEW c \in Commits, NEW j \in Jobs, HandlePullRequestEvent(c, j)
      PROVE  IndInv'
  BY <1>2, HandlePullRequestEventKeeps
<1>3. CASE DeletePullRequest
  BY <1>3, DeletePullRequestKeeps
<1>4. ASSUME NEW s \in Slots, SlotStep(s)
      PROVE  IndInv'
  BY <1>4, CreateReviewKeeps, ReadExistingKeeps, TakeOverKeeps, AskLlmKeeps, SaveReviewKeeps,
     WriteUsageLogKeeps, PostReviewKeeps, MarkWritebackFailedKeeps, StepThrowsKeeps,
     CatchFailureKeeps, AckCompletedKeeps, AckFailedKeeps DEF SlotStep
<1>5. ASSUME NEW s \in Slots, NEW j \in Jobs, TakeJob(s, j)
      PROVE  IndInv'
  BY <1>5, TakeJobKeeps
<1>6. ASSUME NEW j \in Jobs, PromoteDelayed(j) \/ RequeueStalled(j)
      PROVE  IndInv'
  BY <1>6, PromoteDelayedKeeps, RequeueStalledKeeps
<1>7. CASE WorkerCrash
  BY <1>7, WorkerCrashKeeps
<1>8. QED BY <1>1, <1>2, <1>3, <1>4, <1>5, <1>6, <1>7 DEF Next

LEMMA IndInvHolds ==
  ASSUME Faults \cap {"ambiguousPost", "twice"} = {}
  PROVE  Spec => []IndInv
<1>1. IndInv /\ [Next]_vars => IndInv'
  BY IndInvStep
<1>2. QED BY <1>1, IndInvInit, PTL DEF Spec

(* One job per commit, and no post whose answer is lost: a commit is       *)
(* posted at most once, and what was posted is what the row keeps.         *)
THEOREM OnePost ==
  ASSUME Faults \cap {"ambiguousPost", "twice"} = {}
  PROVE  Spec => []PostedOnce
<1>1. IndInv => PostedOnce
  BY DEF IndInv, CommitInv, PostedOnce
<1>2. QED BY <1>1, IndInvHolds, PTL

(* Under the same assumption a job BullMQ counts as completed has left its *)
(* review COMPLETE, or its pull request is gone.                           *)
THEOREM CompletedReviewed ==
  ASSUME Faults \cap {"ambiguousPost", "twice"} = {}
  PROVE  Spec => []CompletedMeansReviewed
<1>1. IndInv => CompletedMeansReviewed
  BY DEF IndInv, JobInv, CompletedMeansReviewed
<1>2. QED BY <1>1, IndInvHolds, PTL

-----------------------------------------------------------------------------
(* What holds whatever fails and however many jobs a commit has: types,    *)
(* and that an execution runs an active job of its own.                    *)
Placed ==
  /\ TypeOK
  /\ SlotsHaveJob /\ JobAlone /\ JobsHaveCommit /\ DeletedHasNoReview

(* Where an execution still owes its commit the end of RUNNING, and where  *)
(* it still owes the answer it saved a post or a mark.                     *)
Reviewing  == {"ask", "save", "caught"}
Announcing == {"log", "post", "unposted", "caught"}
Works(c, pcs) == \E s \in Slots : slot[s].pc \in pcs /\ CommitOf(s) = c

Unannounced(c) == review[c].status = "COMPLETE" /\ posts[c] = <<>> /\ ~review[c].writebackFailed

RunningIsWorked     == \A c \in Commits : review[c].status = "RUNNING" => Works(c, Reviewing)
CompleteIsWorked    == \A c \in Commits : Unannounced(c) => Works(c, Announcing)

Owed == Placed /\ RunningIsWorked /\ CompleteIsWorked

(* A step of an execution that goes on, and that disturbs the row and the  *)
(* posts of its commit alone.                                              *)
Advance(s) ==
  /\ slot' \in [Slots -> Runs]
  /\ slot'[s].job = slot[s].job /\ slot'[s].pc # "idle"
  /\ \A t \in Slots \ {s} : slot'[t] = slot[t]
  /\ UNCHANGED <<deleted, job>>
  /\ review' \in [Commits -> Reviews] /\ (deleted => UNCHANGED review)
  /\ posts' \in [Commits -> Seq(Nat)] /\ answers' \in [Commits -> Nat]
  /\ \A c \in Commits \ {CommitOf(s)} : review'[c] = review[c] /\ posts'[c] = posts[c]

(* ... and pays what it owes, or goes on owing it.                         *)
Pays(s) == \A c \in Commits : c = CommitOf(s) =>
  /\ review'[c].status = "RUNNING" =>
       \/ slot'[s].pc \in Reviewing
       \/ review[c].status = "RUNNING" /\ slot[s].pc \notin Reviewing
  /\ Unannounced(c)' =>
       \/ slot'[s].pc \in Announcing
       \/ Unannounced(c) /\ slot[s].pc \notin Announcing

LEMMA Runner ==
  ASSUME Placed, NEW s \in Slots, ~At(s, "idle")
  PROVE  /\ slot[s].job \in Jobs /\ job[slot[s].job].state = "active" /\ job[slot[s].job] \in JobRows
         /\ CommitOf(s) \in Commits
         /\ slot[s] \in Runs /\ review[CommitOf(s)] \in Reviews
         /\ posts[CommitOf(s)] \in Seq(Nat)
BY DEF Placed, TypeOK, SlotsHaveJob, JobsHaveCommit, CommitOf, At, Free

LEMMA AdvancePlaced ==
  ASSUME Placed, NEW s \in Slots, ~At(s, "idle"), Advance(s)
  PROVE  Placed'
<1>1. TypeOK'
  BY DEF Placed, TypeOK, Advance
<1>2. SlotsHaveJob'
  <2>1. slot'[s].job \in Jobs /\ job'[slot'[s].job].state = "active"
    BY Runner DEF Advance
  <2> QED BY <2>1 DEF Placed, SlotsHaveJob, Advance
<1>3. JobAlone'
  BY DEF Placed, JobAlone, Advance, At
<1>4. JobsHaveCommit' /\ DeletedHasNoReview'
  BY DEF Placed, JobsHaveCommit, DeletedHasNoReview, Advance, NoReview
<1> QED BY <1>1, <1>2, <1>3, <1>4 DEF Placed

LEMMA AdvanceKeeps ==
  ASSUME Owed, NEW s \in Slots, ~At(s, "idle"), Advance(s), Pays(s)
  PROVE  Owed'
<1>1. /\ \A t \in Slots : CommitOf(t)' = CommitOf(t)
      /\ \A t \in Slots \ {s} : slot'[t] = slot[t]
  BY DEF Advance, CommitOf
<1>2. \A c \in Commits : \A pcs : Works(c, pcs) /\ ~(slot[s].pc \in pcs /\ CommitOf(s) = c) => Works(c, pcs)'
  BY <1>1 DEF Works
<1>3. \A c \in Commits : \A pcs : slot'[s].pc \in pcs /\ CommitOf(s) = c => Works(c, pcs)'
  BY <1>1 DEF Works
<1>4. \A c \in Commits : c # CommitOf(s) => review'[c] = review[c] /\ posts'[c] = posts[c]
  BY DEF Advance
<1>5. RunningIsWorked'
  BY <1>2, <1>3, <1>4 DEF Owed, RunningIsWorked, Pays
<1>6. CompleteIsWorked'
  BY <1>2, <1>3, <1>4 DEF Owed, CompleteIsWorked, Pays, Unannounced
<1> QED BY <1>5, <1>6, AdvancePlaced DEF Owed

-----------------------------------------------------------------------------
(* The steps of processPrReviewJob, one lemma per group.                   *)
LEMMA GotoAdvances ==
  ASSUME Placed, NEW s \in Slots, ~At(s, "idle"), NEW pc \in Pcs \ {"idle"}, Goto(s, pc),
         UNCHANGED <<deleted, job, answers>>,
         posts' \in [Commits -> Seq(Nat)], review' \in [Commits -> Reviews], deleted => UNCHANGED review,
         \A c \in Commits \ {CommitOf(s)} : review'[c] = review[c] /\ posts'[c] = posts[c]
  PROVE  Advance(s) /\ slot'[s].pc = pc
<1>1. pc \in Pcs /\ slot \in [Slots -> Runs]
  BY DEF Placed, TypeOK
<1>2. /\ slot' \in [Slots -> Runs] /\ slot'[s].pc = pc /\ slot'[s].job = slot[s].job
      /\ \A t \in Slots \ {s} : slot'[t] = slot[t]
  BY <1>1 DEF Goto, Runs
<1> QED BY <1>2 DEF Advance, Placed, TypeOK

(* The row of its commit alone is written.                                 *)
LEMMA RowWritten ==
  ASSUME Placed, NEW s \in Slots, ~At(s, "idle"), NEW rec \in Reviews, UpdateReview(s, rec)
  PROVE  /\ ~deleted /\ review' \in [Commits -> Reviews] /\ review'[CommitOf(s)] = rec
         /\ \A c \in Commits \ {CommitOf(s)} : review'[c] = review[c]
<1>1. review \in [Commits -> Reviews] /\ CommitOf(s) \in Commits
  BY Runner DEF Placed, TypeOK
<1> QED BY <1>1 DEF UpdateReview

LEMMA FirstSteps ==
  ASSUME Placed, NEW s \in Slots, CreateReview(s) \/ ReadExisting(s) \/ TakeOver(s)
  PROVE  ~At(s, "idle") /\ Advance(s) /\ Pays(s)
<1>1. slot[s].pc \in {"create", "existing", "takeover"} /\ ~At(s, "idle")
  BY DEF CreateReview, ReadExisting, TakeOver, At
<1>2. /\ review \in [Commits -> Reviews] /\ posts \in [Commits -> Seq(Nat)] /\ CommitOf(s) \in Commits
      /\ review[CommitOf(s)] \in Reviews /\ Started(review[CommitOf(s)]) \in Reviews
  BY <1>1, Runner, RowUpdates DEF Placed, TypeOK
<1>3. UNCHANGED <<deleted, job, answers, posts>>
  BY DEF CreateReview, ReadExisting, TakeOver
<1>4. ASSUME NEW pc \in {"existing", "takeover", "raised", "returned"}, Goto(s, pc), UNCHANGED review
      PROVE  Advance(s) /\ Pays(s)
  <2>1. pc \in Pcs \ {"idle"}
    BY DEF Pcs
  <2>2. Advance(s)
    BY <1>1, <1>2, <1>3, <1>4, <2>1, GotoAdvances
  <2> QED BY <1>1, <1>3, <1>4, <2>2 DEF Pays, Unannounced, Reviewing, Announcing
<1>5. ASSUME Goto(s, "ask"), UpdateReview(s, Started(review[CommitOf(s)]))
      PROVE  Advance(s) /\ Pays(s)
  <2>1. "ask" \in Pcs \ {"idle"}
    BY DEF Pcs
  <2>2. /\ ~deleted /\ review' \in [Commits -> Reviews] /\ review'[CommitOf(s)] = Started(review[CommitOf(s)])
        /\ \A c \in Commits \ {CommitOf(s)} : review'[c] = review[c]
    BY <1>1, <1>2, <1>5, RowWritten
  <2>3. Advance(s) /\ slot'[s].pc = "ask"
    BY <1>1, <1>2, <1>3, <1>5, <2>1, <2>2, GotoAdvances
  <2>4. Started(review[CommitOf(s)]).status = "RUNNING"
    BY <1>2 DEF Started, Reviews
  <2> QED BY <2>2, <2>3, <2>4 DEF Pays, Unannounced, Reviewing
<1>6. CASE CreateReview(s)
  <2>1. CASE ~deleted /\ review[CommitOf(s)].status = "none"
    BY <1>1, <1>5, <1>6, <2>1 DEF CreateReview, UpdateReview
  <2>2. CASE deleted \/ review[CommitOf(s)].status # "none"
    BY <1>1, <1>4, <1>6, <2>2 DEF CreateReview
  <2> QED BY <2>1, <2>2
<1>7. CASE ReadExisting(s)
  <2>1. UNCHANGED review /\ (Goto(s, "returned") \/ Goto(s, "takeover"))
    BY <1>7 DEF ReadExisting
  <2> QED BY <1>1, <1>4, <2>1
<1>8. CASE TakeOver(s)
  BY <1>1, <1>4, <1>5, <1>8 DEF TakeOver
<1> QED BY <1>6, <1>7, <1>8

LEMMA AskStep ==
  ASSUME Placed, NEW s \in Slots, AskLlm(s)
  PROVE  ~At(s, "idle") /\ Advance(s) /\ Pays(s)
<1>1. ~At(s, "idle") /\ slot[s].pc = "ask"
  BY DEF AskLlm, At
<1>2. /\ slot \in [Slots -> Runs] /\ slot[s] \in Runs /\ answers \in [Commits -> Nat] /\ CommitOf(s) \in Commits
      /\ review \in [Commits -> Reviews] /\ posts \in [Commits -> Seq(Nat)]
  BY <1>1, Runner DEF Placed, TypeOK
<1>3. answers' \in [Commits -> Nat] /\ answers'[CommitOf(s)] \in Nat
  BY <1>2 DEF AskLlm
<1> PICK n \in Nat : n = answers'[CommitOf(s)]
  BY <1>3
<1> DEFINE run == [slot[s] EXCEPT !.pc = "save", !.answer = n]
<1>4. run \in Runs /\ run.pc = "save" /\ run.job = slot[s].job
  BY <1>2 DEF Runs, Pcs
<1>5. slot' = [slot EXCEPT ![s] = run]
  BY DEF AskLlm
<1> HIDE DEF run
<1>6. slot' \in [Slots -> Runs] /\ slot'[s] = run /\ \A t \in Slots \ {s} : slot'[t] = slot[t]
  BY <1>2, <1>4, <1>5
<1>7. Advance(s)
  BY <1>2, <1>3, <1>4, <1>6 DEF AskLlm, Advance
<1>8. Pays(s)
  BY <1>1, <1>4, <1>6 DEF AskLlm, Pays, Unannounced, Reviewing, Announcing
<1> QED BY <1>1, <1>7, <1>8

LEMMA SaveStep ==
  ASSUME Placed, NEW s \in Slots, SaveReview(s)
  PROVE  ~At(s, "idle") /\ Advance(s) /\ Pays(s)
<1>1. ~At(s, "idle")
  BY DEF SaveReview, At
<1>2. review[CommitOf(s)] \in Reviews /\ slot[s].answer \in Nat /\ posts \in [Commits -> Seq(Nat)]
  BY <1>1, Runner DEF Placed, TypeOK, Runs
<1> PICK n \in Nat : n = slot[s].answer
  BY <1>2
<1> PICK rec : rec = [review[CommitOf(s)] EXCEPT !.status = "COMPLETE", !.answer = n]
  OBVIOUS
<1>3. rec \in Reviews /\ rec.status = "COMPLETE"
  BY <1>2 DEF Reviews, Statuses
<1>4. UpdateReview(s, rec) /\ Goto(s, "log") /\ UNCHANGED <<deleted, job, answers, posts>>
  BY DEF SaveReview, UpdateReview
<1>5. /\ ~deleted /\ review' \in [Commits -> Reviews] /\ review'[CommitOf(s)] = rec
      /\ \A c \in Commits \ {CommitOf(s)} : review'[c] = review[c]
  BY <1>1, <1>3, <1>4, RowWritten
<1>6. "log" \in Pcs \ {"idle"}
  BY DEF Pcs
<1>7. Advance(s) /\ slot'[s].pc = "log"
  BY <1>1, <1>2, <1>4, <1>5, <1>6, GotoAdvances
<1> QED BY <1>1, <1>3, <1>5, <1>7 DEF Pays, Unannounced, Announcing

LEMMA LogAndPostSteps ==
  ASSUME Placed, NEW s \in Slots, WriteUsageLog(s) \/ PostReview(s)
  PROVE  ~At(s, "idle") /\ Advance(s) /\ Pays(s)
<1>1. ~At(s, "idle") /\ slot[s].pc \in {"log", "post"}
  BY DEF WriteUsageLog, PostReview, At
<1>2. /\ posts \in [Commits -> Seq(Nat)] /\ review \in [Commits -> Reviews]
      /\ CommitOf(s) \in Commits /\ slot[s].answer \in Nat
  BY <1>1, Runner DEF Placed, TypeOK, Runs
<1>3. UNCHANGED <<deleted, job, answers, review>>
  BY DEF WriteUsageLog, PostReview
<1>4. {"post", "unposted", "returned"} \subseteq Pcs \ {"idle"}
  BY DEF Pcs
<1>5. ASSUME NEW pc \in {"post", "unposted"}, Goto(s, pc), UNCHANGED posts
      PROVE  Advance(s) /\ Pays(s)
  <2>1. Advance(s) /\ slot'[s].pc = pc
    BY <1>1, <1>2, <1>3, <1>4, <1>5, GotoAdvances
  <2> QED BY <1>1, <1>3, <2>1 DEF Pays, Reviewing, Announcing
<1>6. ASSUME NEW pc \in {"unposted", "returned"}, Goto(s, pc),
             posts' = [posts EXCEPT ![CommitOf(s)] = Append(@, slot[s].answer)]
      PROVE  Advance(s) /\ Pays(s)
  <2>1. /\ posts' \in [Commits -> Seq(Nat)] /\ posts'[CommitOf(s)] # <<>>
        /\ \A c \in Commits \ {CommitOf(s)} : posts'[c] = posts[c]
    <3>1. PICK q : q = Append(posts[CommitOf(s)], slot[s].answer)
      OBVIOUS
    <3>2. posts[CommitOf(s)] \in Seq(Nat)
      BY <1>2
    <3>3. q \in Seq(Nat) /\ Len(q) = Len(posts[CommitOf(s)]) + 1 /\ Len(posts[CommitOf(s)]) \in Nat
      BY <1>2, <3>1, <3>2
    <3>4. q # <<>>
      BY <3>3
    <3>5. posts' = [posts EXCEPT ![CommitOf(s)] = q]
      BY <1>6, <3>1
    <3> QED BY <1>2, <3>3, <3>4, <3>5
  <2>2. Advance(s) /\ slot'[s].pc = pc
    BY <1>1, <1>2, <1>3, <1>4, <1>6, <2>1, GotoAdvances
  <2> QED BY <1>1, <1>3, <2>1, <2>2 DEF Pays, Unannounced, Reviewing
<1>7. CASE WriteUsageLog(s)
  BY <1>1, <1>5, <1>7 DEF WriteUsageLog
<1>8. CASE PostReview(s)
  BY <1>1, <1>5, <1>6, <1>8 DEF PostReview
<1> QED BY <1>7, <1>8

LEMMA MarkStep ==
  ASSUME Placed, NEW s \in Slots, MarkWritebackFailed(s)
  PROVE  ~At(s, "idle") /\ Advance(s) /\ Pays(s)
<1>1. ~At(s, "idle") /\ slot[s].pc = "unposted"
  BY DEF MarkWritebackFailed, At
<1>2. review[CommitOf(s)] \in Reviews /\ posts \in [Commits -> Seq(Nat)]
  BY <1>1, Runner DEF Placed, TypeOK
<1> PICK rec : rec = [review[CommitOf(s)] EXCEPT !.writebackFailed = TRUE]
  OBVIOUS
<1>3. rec \in Reviews /\ rec.writebackFailed = TRUE /\ rec.status = review[CommitOf(s)].status
  BY <1>2 DEF Reviews
<1>4. UpdateReview(s, rec) /\ Goto(s, "returned") /\ UNCHANGED <<deleted, job, answers, posts>>
  BY DEF MarkWritebackFailed, UpdateReview
<1>5. /\ ~deleted /\ review' \in [Commits -> Reviews] /\ review'[CommitOf(s)] = rec
      /\ \A c \in Commits \ {CommitOf(s)} : review'[c] = review[c]
  BY <1>1, <1>3, <1>4, RowWritten
<1>6. "returned" \in Pcs \ {"idle"}
  BY DEF Pcs
<1>7. Advance(s) /\ slot'[s].pc = "returned"
  BY <1>1, <1>2, <1>4, <1>5, <1>6, GotoAdvances
<1>8. review'[CommitOf(s)].writebackFailed /\ review'[CommitOf(s)].status = review[CommitOf(s)].status
  BY <1>3, <1>5
<1>9. \A c \in Commits : c = CommitOf(s) => ~Unannounced(c)'
  BY <1>8 DEF Unannounced
<1>10. slot[s].pc \notin Reviewing
  BY <1>1 DEF Reviewing
<1> QED BY <1>1, <1>7, <1>8, <1>9, <1>10 DEF Pays

LEMMA ThrowStep ==
  ASSUME Placed, NEW s \in Slots, StepThrows(s)
  PROVE  ~At(s, "idle") /\ Advance(s) /\ Pays(s)
<1>1. ~At(s, "idle")
  BY DEF StepThrows, At
<1>2. posts \in [Commits -> Seq(Nat)] /\ review \in [Commits -> Reviews]
  BY DEF Placed, TypeOK
<1>3. UNCHANGED <<deleted, job, answers, posts, review>> /\ {"raised", "caught"} \subseteq Pcs \ {"idle"}
  BY DEF StepThrows, Pcs
<1>4. \/ slot[s].pc \in {"create", "existing", "takeover"} /\ Goto(s, "raised")
      \/ Goto(s, "caught")
  BY DEF StepThrows
<1>5. Advance(s) /\ (slot'[s].pc = "caught" \/ slot[s].pc \in {"create", "existing", "takeover"})
  BY <1>1, <1>2, <1>3, <1>4, GotoAdvances
<1> QED BY <1>1, <1>3, <1>5 DEF Pays, Unannounced, Reviewing, Announcing

(* The write of FAILED ends what is owed, if it is written or the row went.*)
LEMMA CatchStep ==
  ASSUME Placed, NEW s \in Slots, CatchFailure(s)
  PROVE  ~At(s, "idle") /\ Advance(s) /\ ("record" \notin Faults => Pays(s))
<1>1. ~At(s, "idle")
  BY DEF CatchFailure, At
<1>2. /\ review[CommitOf(s)] \in Reviews /\ CommitOf(s) \in Commits
      /\ posts \in [Commits -> Seq(Nat)] /\ review \in [Commits -> Reviews]
  BY <1>1, Runner DEF Placed, TypeOK
<1> PICK rec : rec = [review[CommitOf(s)] EXCEPT !.status = "FAILED"]
  OBVIOUS
<1>3. rec \in Reviews /\ rec.status = "FAILED"
  BY <1>2 DEF Reviews, Statuses
<1>4. Goto(s, "raised") /\ UNCHANGED <<deleted, job, answers, posts>> /\ "raised" \in Pcs \ {"idle"}
  BY DEF CatchFailure, Pcs
<1>5. CASE UpdateReview(s, rec)
  <2>1. /\ ~deleted /\ review' \in [Commits -> Reviews] /\ review'[CommitOf(s)] = rec
        /\ \A c \in Commits \ {CommitOf(s)} : review'[c] = review[c]
    BY <1>1, <1>3, <1>5, RowWritten
  <2>2. Advance(s)
    BY <1>1, <1>2, <1>4, <2>1, GotoAdvances
  <2> QED BY <1>1, <1>3, <2>1, <2>2 DEF Pays, Unannounced
<1>6. CASE ("record" \in Faults \/ deleted) /\ UNCHANGED review
  <2>1. Advance(s)
    BY <1>1, <1>2, <1>4, <1>6, GotoAdvances
  <2>2. deleted => review[CommitOf(s)].status = "none"
    BY <1>2 DEF Placed, DeletedHasNoReview, NoReview
  <2> QED BY <1>1, <1>6, <2>1, <2>2 DEF Pays, Unannounced
<1> QED BY <1>5, <1>6 DEF CatchFailure, UpdateReview

-----------------------------------------------------------------------------
(* The steps of BullMQ, of the webhook and of the owner: they change no    *)
(* row, or remove them all, and take no execution from its commit before   *)
(* it is done.                                                             *)
Undisturbed ==
  /\ UNCHANGED posts
  /\ \A c \in Commits : review'[c] = review[c] \/ review'[c] = NoReview
  /\ \A s \in Slots : slot[s].pc \in Reviewing \cup Announcing =>
       slot'[s] = slot[s] /\ CommitOf(s)' = CommitOf(s)

LEMMA UndisturbedKeeps == ASSUME Owed, Placed', Undisturbed PROVE Owed'
<1>1. NoReview.status = "none"
  BY DEF NoReview
<1>2. \A c \in Commits : /\ Works(c, Reviewing) => Works(c, Reviewing)'
                         /\ Works(c, Announcing) => Works(c, Announcing)'
  BY DEF Undisturbed, Works
<1>3. \A c \in Commits : /\ review'[c].status = "RUNNING" => review[c].status = "RUNNING"
                         /\ Unannounced(c)' => Unannounced(c)
  BY <1>1 DEF Undisturbed, Unannounced
<1>4. RunningIsWorked' /\ CompleteIsWorked'
  BY <1>2, <1>3 DEF Owed, RunningIsWorked, CompleteIsWorked
<1> QED BY <1>4 DEF Owed

(* A job changes its state, its counts or gets its commit.                 *)
JobBecomes(j, rec) == job' = [job EXCEPT ![j] = rec]

LEMMA JobChanges ==
  ASSUME Placed, NEW j \in Jobs, NEW rec \in JobRows, JobBecomes(j, rec),
         rec.state # "unused" => rec.commit \in Commits
  PROVE  /\ job' \in [Jobs -> JobRows] /\ job'[j] = rec
         /\ \A i \in Jobs \ {j} : job'[i] = job[i]
         /\ JobsHaveCommit'
<1>1. job \in [Jobs -> JobRows]
  BY DEF Placed, TypeOK
<1>2. job' \in [Jobs -> JobRows] /\ job'[j] = rec /\ \A i \in Jobs \ {j} : job'[i] = job[i]
  BY <1>1 DEF JobBecomes
<1> QED BY <1>2 DEF Placed, JobsHaveCommit

LEMMA RestingJobChanges ==
  ASSUME Placed, NEW j \in Jobs, NEW rec \in JobRows, JobBecomes(j, rec),
         rec.state # "unused" => rec.commit \in Commits,
         \A s \in Slots : ~At(s, "idle") => slot[s].job # j,
         UNCHANGED <<deleted, review, answers, posts, slot>>
  PROVE  Placed' /\ Undisturbed
<1>1. /\ job' \in [Jobs -> JobRows] /\ JobsHaveCommit'
      /\ \A i \in Jobs \ {j} : job'[i] = job[i]
  BY JobChanges
<1>2. TypeOK' /\ DeletedHasNoReview' /\ JobAlone'
  BY <1>1 DEF Placed, TypeOK, DeletedHasNoReview, NoReview, JobAlone, At
<1>3. SlotsHaveJob'
  BY <1>1 DEF Placed, SlotsHaveJob, At, Free
<1>4. Undisturbed
  BY <1>1, Runner DEF Undisturbed, CommitOf, At, Reviewing, Announcing
<1> QED BY <1>1, <1>2, <1>3, <1>4 DEF Placed

LEMMA WebhookAndTimers ==
  ASSUME Placed, NEW j \in Jobs, NEW c \in Commits,
         HandlePullRequestEvent(c, j) \/ PromoteDelayed(j) \/ RequeueStalled(j)
  PROVE  Placed' /\ Undisturbed
<1>1. job[j] \in JobRows /\ (job[j].state # "unused" => job[j].commit \in Commits)
  BY DEF Placed, TypeOK, JobsHaveCommit
<1>2. CASE HandlePullRequestEvent(c, j)
  <2> PICK rec : rec = [job[j] EXCEPT !.state = "waiting", !.commit = c]
    OBVIOUS
  <2>1. rec \in JobRows /\ rec.commit = c
    BY <1>1 DEF JobRows, JobStates
  <2>2. JobBecomes(j, rec) /\ UNCHANGED <<deleted, review, answers, posts, slot>>
    BY <1>2 DEF HandlePullRequestEvent, JobBecomes, Placed, TypeOK
  <2>3. \A s \in Slots : ~At(s, "idle") => slot[s].job # j
    BY <1>2, Runner DEF HandlePullRequestEvent
  <2> QED BY <2>1, <2>2, <2>3, RestingJobChanges
<1>3. CASE PromoteDelayed(j)
  <2> PICK rec : rec = [job[j] EXCEPT !.state = "waiting"]
    OBVIOUS
  <2>1. rec \in JobRows /\ rec.commit = job[j].commit /\ job[j].state = "delayed"
    BY <1>1, <1>3 DEF JobRows, JobStates, PromoteDelayed
  <2>2. JobBecomes(j, rec) /\ UNCHANGED <<deleted, review, answers, posts, slot>>
    BY <1>3 DEF PromoteDelayed, JobBecomes
  <2>3. \A s \in Slots : ~At(s, "idle") => slot[s].job # j
    BY <2>1, Runner
  <2> QED BY <1>1, <2>1, <2>2, <2>3, RestingJobChanges
<1>4. CASE RequeueStalled(j)
  <2>1. \E outcome \in {"waiting", "failed"} : JobBecomes(j, Stalled(job[j], outcome))
    BY <1>4 DEF RequeueStalled, JobBecomes
  <2> PICK outcome \in {"waiting", "failed"} : JobBecomes(j, Stalled(job[j], outcome))
    BY <2>1
  <2> PICK rec : rec = Stalled(job[j], outcome)
    OBVIOUS
  <2>0. outcome \in JobStates
    BY Words
  <2>2. rec \in JobRows /\ rec.commit = job[j].commit
    BY <1>1, <2>0, JobUpdates
  <2>3. job[j].state = "active"
    BY <1>4 DEF RequeueStalled
  <2>4. JobBecomes(j, rec) /\ UNCHANGED <<deleted, review, answers, posts, slot>>
    BY <1>4 DEF RequeueStalled
  <2>5. \A s \in Slots : ~At(s, "idle") => slot[s].job # j
    BY <1>4 DEF RequeueStalled
  <2> QED BY <1>1, <2>2, <2>3, <2>4, <2>5, RestingJobChanges
<1> QED BY <1>2, <1>3, <1>4

LEMMA DeleteStep == ASSUME Placed, DeletePullRequest PROVE Placed' /\ Undisturbed
<1>1. NoReview \in Reviews
  BY DEF NoReview, Reviews, Statuses
<1>2. TypeOK' /\ DeletedHasNoReview'
  BY <1>1 DEF DeletePullRequest, Placed, TypeOK, DeletedHasNoReview, NoReview
<1>3. SlotsHaveJob' /\ JobAlone' /\ JobsHaveCommit'
  BY DEF DeletePullRequest, Placed, SlotsHaveJob, JobAlone, JobsHaveCommit, At, Free
<1>4. Undisturbed
  BY DEF DeletePullRequest, Undisturbed, CommitOf
<1> QED BY <1>2, <1>3, <1>4 DEF Placed

LEMMA TakeStep ==
  ASSUME Placed, NEW s \in Slots, NEW j \in Jobs, TakeJob(s, j)
  PROVE  Placed' /\ Undisturbed
<1> PICK rec : rec = [job[j] EXCEPT !.state = "active"]
  OBVIOUS
<1> PICK run : run = [pc |-> "create", job |-> j, answer |-> 0]
  OBVIOUS
<1>1. /\ job[j] \in JobRows /\ job[j].state = "waiting" /\ job[j].commit \in Commits
      /\ slot \in [Slots -> Runs] /\ slot[s].pc = "idle"
  BY DEF TakeJob, Placed, TypeOK, JobsHaveCommit, At
<1>2. rec \in JobRows /\ rec.commit = job[j].commit /\ rec.state = "active"
  BY <1>1 DEF JobRows, JobStates
<1>3. JobBecomes(j, rec) /\ slot' = [slot EXCEPT ![s] = run] /\ UNCHANGED <<deleted, review, answers, posts>>
  BY DEF TakeJob, JobBecomes
<1>4. /\ job' \in [Jobs -> JobRows] /\ job'[j] = rec /\ JobsHaveCommit'
      /\ \A i \in Jobs \ {j} : job'[i] = job[i]
  BY <1>1, <1>2, <1>3, JobChanges
<1>5. run \in Runs /\ run.pc = "create" /\ run.job = j
  BY DEF Runs, Pcs
<1>6. slot' \in [Slots -> Runs] /\ slot'[s] = run /\ \A t \in Slots \ {s} : slot'[t] = slot[t]
  BY <1>1, <1>3, <1>5
<1>7. \A t \in Slots : ~At(t, "idle") => slot[t].job \in Jobs \ {j}
  BY <1>1, Runner
<1>8. TypeOK' /\ DeletedHasNoReview'
  BY <1>3, <1>4, <1>6 DEF Placed, TypeOK, DeletedHasNoReview, NoReview
<1>9. SlotsHaveJob'
  <2>1. \A t \in Slots \ {s} : slot[t] = Free \/ (slot[t].pc # "idle" /\ slot[t].job \in Jobs \ {j} /\ job[slot[t].job].state = "active")
    BY <1>7 DEF Placed, SlotsHaveJob, At
  <2>2. \A t \in Slots \ {s} :
          slot'[t] = Free \/ (slot'[t].pc # "idle" /\ slot'[t].job \in Jobs /\ job'[slot'[t].job].state = "active")
    BY <1>4, <1>6, <2>1
  <2>3. slot'[s].pc # "idle" /\ slot'[s].job \in Jobs /\ job'[slot'[s].job].state = "active"
    BY <1>2, <1>4, <1>5, <1>6
  <2> QED BY <2>2, <2>3 DEF SlotsHaveJob
<1>10. JobAlone'
  BY <1>5, <1>6, <1>7 DEF Placed, JobAlone, At
<1>11. Undisturbed
  BY <1>1, <1>3, <1>4, <1>6, <1>7 DEF Undisturbed, CommitOf, At, Reviewing, Announcing
<1> QED BY <1>4, <1>8, <1>9, <1>10, <1>11 DEF Placed

(* An execution that returned or raised is done: its slot is free.         *)
LEMMA AckStep ==
  ASSUME Placed, NEW s \in Slots, AckCompleted(s) \/ AckFailed(s)
  PROVE  Placed' /\ Undisturbed
<1>1. slot[s].pc \in {"returned", "raised"} /\ ~At(s, "idle")
  BY DEF AckCompleted, AckFailed, At
<1> PICK j \in Jobs : j = slot[s].job
  BY <1>1, Runner
<1>2. job[j] \in JobRows /\ job[j].commit \in Commits /\ slot \in [Slots -> Runs]
  BY <1>1, Runner DEF Placed, TypeOK, CommitOf
<1>3. \E rec \in JobRows : JobBecomes(j, rec) /\ rec.commit = job[j].commit
  <2>1. CASE AckCompleted(s)
    <3> PICK rec : rec = [job[j] EXCEPT !.state = "completed"]
      OBVIOUS
    <3>1. rec \in JobRows /\ rec.commit = job[j].commit
      BY <1>2 DEF JobRows, JobStates
    <3>2. JobBecomes(j, rec)
      BY <2>1 DEF AckCompleted, JobBecomes
    <3> QED BY <3>1, <3>2
  <2>2. CASE AckFailed(s)
    <3>1. \E outcome \in {"delayed", "failed"} : JobBecomes(j, Failed(job[j], outcome))
      BY <2>2 DEF AckFailed, JobBecomes
    <3> PICK outcome \in {"delayed", "failed"} : JobBecomes(j, Failed(job[j], outcome))
      BY <3>1
    <3> PICK rec : rec = Failed(job[j], outcome)
      OBVIOUS
    <3>2. outcome \in JobStates
      BY Words
    <3>3. rec \in JobRows /\ rec.commit = job[j].commit
      BY <1>2, <3>2, JobUpdates
    <3> QED BY <3>3
  <2> QED BY <2>1, <2>2
<1> PICK rec \in JobRows : JobBecomes(j, rec) /\ rec.commit = job[j].commit
  BY <1>3
<1>4. /\ job' \in [Jobs -> JobRows] /\ JobsHaveCommit'
      /\ \A i \in Jobs \ {j} : job'[i] = job[i]
  BY <1>2, JobChanges
<1>5. slot' = [slot EXCEPT ![s] = Free] /\ UNCHANGED <<deleted, review, answers, posts>>
  BY DEF AckCompleted, AckFailed
<1>6. Free \in Runs /\ Free.pc = "idle"
  BY DEF Free, Runs, Pcs
<1>7. slot' \in [Slots -> Runs] /\ slot'[s] = Free /\ \A t \in Slots \ {s} : slot'[t] = slot[t]
  BY <1>2, <1>5, <1>6
<1>8. \A t \in Slots \ {s} : ~At(t, "idle") => slot[t].job \in Jobs \ {j}
  BY <1>1, Runner DEF Placed, JobAlone
<1>9. TypeOK' /\ DeletedHasNoReview'
  BY <1>4, <1>5, <1>7 DEF Placed, TypeOK, DeletedHasNoReview, NoReview
<1>10. SlotsHaveJob'
  <2>1. \A t \in Slots \ {s} : slot[t] = Free \/ (slot[t].pc # "idle" /\ slot[t].job \in Jobs \ {j} /\ job[slot[t].job].state = "active")
    BY <1>8 DEF Placed, SlotsHaveJob, At
  <2> QED BY <1>4, <1>7, <2>1 DEF SlotsHaveJob
<1>11. JobAlone'
  BY <1>6, <1>7 DEF Placed, JobAlone, At
<1>12. Undisturbed
  BY <1>1, <1>4, <1>5, <1>7, <1>8 DEF Undisturbed, CommitOf, At, Reviewing, Announcing
<1> QED BY <1>4, <1>9, <1>10, <1>11, <1>12 DEF Placed

LEMMA CrashStep == ASSUME Placed, WorkerCrash PROVE Placed'
<1>1. Free \in Runs /\ Free.pc = "idle"
  BY DEF Free, Runs, Pcs
<1>2. TypeOK' /\ DeletedHasNoReview' /\ JobsHaveCommit'
  BY <1>1 DEF WorkerCrash, Placed, TypeOK, DeletedHasNoReview, NoReview, JobsHaveCommit
<1>3. SlotsHaveJob' /\ JobAlone'
  BY <1>1 DEF WorkerCrash, SlotsHaveJob, JobAlone, At
<1> QED BY <1>2, <1>3 DEF Placed

LEMMA SlotSteps ==
  ASSUME Placed, NEW s \in Slots, SlotStep(s)
  PROVE  \/ ~At(s, "idle") /\ Advance(s) /\ ("record" \notin Faults => Pays(s))
         \/ Placed' /\ Undisturbed
BY FirstSteps, AskStep, SaveStep, LogAndPostSteps, MarkStep, ThrowStep, CatchStep, AckStep DEF SlotStep

(* A crash that strikes no execution that owes anything.                   *)
LEMMA ForgivenCrashKeeps == ASSUME Owed, ForgivenCrash PROVE Owed'
<1>1. Placed' /\ UNCHANGED <<review, posts>>
  BY CrashStep DEF Owed, ForgivenCrash, WorkerCrash
<1>2. ASSUME NEW c \in Commits, NEW s \in Slots, CommitOf(s) = c, slot[s].pc \in Reviewing \cup Announcing
      PROVE  review[c].status # "RUNNING" /\ ~Unannounced(c)
  <2>1. slot[s] # Free
    BY <1>2 DEF Free, Reviewing, Announcing
  <2> QED BY <1>2, <2>1 DEF ForgivenCrash, CommitOf, Unannounced
<1>3. \A c \in Commits : review[c].status # "RUNNING" /\ ~Unannounced(c)
  BY <1>2 DEF Owed, RunningIsWorked, CompleteIsWorked, Works
<1>4. RunningIsWorked' /\ CompleteIsWorked'
  BY <1>1, <1>3 DEF RunningIsWorked, CompleteIsWorked, Unannounced
<1> QED BY <1>1, <1>4 DEF Owed
-----------------------------------------------------------------------------
LEMMA PlacedInit == Init => Placed
BY IndInvInit DEF IndInv, WellFormed, Placed

LEMMA OwedInit == Init => Owed
<1> SUFFICES ASSUME Init PROVE Owed
  OBVIOUS
<1>1. \A c \in Commits : review[c].status = "none"
  BY DEF Init, NoReview
<1> QED BY <1>1, PlacedInit DEF Owed, RunningIsWorked, CompleteIsWorked, Unannounced

LEMMA PlacedStep == Placed /\ [Next]_vars => Placed'
<1> SUFFICES ASSUME Placed, [Next]_vars PROVE Placed'
  OBVIOUS
<1>1. CASE \E c \in Commits, j \in Jobs : HandlePullRequestEvent(c, j)
  BY <1>1, WebhookAndTimers
<1>2. CASE DeletePullRequest
  BY <1>2, DeleteStep
<1>3. CASE \E s \in Slots : SlotStep(s)
  BY <1>3, SlotSteps, AdvancePlaced
<1>4. CASE \E s \in Slots, j \in Jobs : TakeJob(s, j)
  BY <1>4, TakeStep
<1>5. ASSUME NEW j \in Jobs, PromoteDelayed(j) \/ RequeueStalled(j) PROVE Placed'
  <2>1. CASE Commits = {}
    <3>1. job[j].state \in {"delayed", "active"}
      BY <1>5 DEF PromoteDelayed, RequeueStalled
    <3> QED BY <2>1, <3>1 DEF Placed, JobsHaveCommit
  <2>2. CASE Commits # {}
    BY <1>5, <2>2, WebhookAndTimers
  <2> QED BY <2>1, <2>2
<1>6. CASE WorkerCrash
  BY <1>6, CrashStep
<1>7. CASE UNCHANGED vars
  BY <1>7 DEF vars, Placed, TypeOK, SlotsHaveJob, JobAlone, JobsHaveCommit, DeletedHasNoReview, At
<1> QED BY <1>1, <1>2, <1>3, <1>4, <1>5, <1>6, <1>7 DEF Next

(* Whatever fails, and however many jobs a commit has, every variable of   *)
(* the reviews keeps its type.                                             *)
THEOREM ReviewsTyped == Spec => []TypeOK
<1>1. Placed => TypeOK
  BY DEF Placed
<1> QED BY <1>1, PlacedInit, PlacedStep, PTL DEF Spec

(* Without a failing write of FAILED, and with crashes that strike only    *)
(* executions that owe nothing.                                            *)
LEMMA OwedStep ==
  ASSUME "record" \notin Faults
  PROVE  Owed /\ [SettleNext]_vars => Owed'
<1> SUFFICES ASSUME Owed, [SettleNext]_vars PROVE Owed'
  OBVIOUS
<1>0. Placed
  BY DEF Owed
<1>1. CASE \E c \in Commits, j \in Jobs : HandlePullRequestEvent(c, j)
  BY <1>0, <1>1, WebhookAndTimers, UndisturbedKeeps
<1>2. CASE DeletePullRequest
  BY <1>0, <1>2, DeleteStep, UndisturbedKeeps
<1>3. CASE \E s \in Slots : SlotStep(s)
  BY <1>0, <1>3, SlotSteps, AdvanceKeeps, UndisturbedKeeps
<1>4. CASE \E s \in Slots, j \in Jobs : TakeJob(s, j)
  BY <1>0, <1>4, TakeStep, UndisturbedKeeps
<1>5. ASSUME NEW j \in Jobs, PromoteDelayed(j) \/ RequeueStalled(j) PROVE Owed'
  <2>1. Commits # {}
    <3>1. job[j].state # "unused"
      BY <1>5 DEF PromoteDelayed, RequeueStalled
    <3> QED BY <1>0, <3>1 DEF Placed, JobsHaveCommit
  <2> QED BY <1>0, <1>5, <2>1, WebhookAndTimers, UndisturbedKeeps
<1>6. CASE ForgivenCrash
  BY <1>6, ForgivenCrashKeeps
<1>7. CASE UNCHANGED vars
  <2>1. Placed'
    BY <1>0, <1>7, PlacedStep
  <2>2. Undisturbed
    BY <1>7 DEF vars, Undisturbed, CommitOf
  <2> QED BY <2>1, <2>2, UndisturbedKeeps
<1> QED BY <1>1, <1>2, <1>3, <1>4, <1>5, <1>6, <1>7 DEF SettleNext

LEMMA OwedHolds ==
  ASSUME "record" \notin Faults
  PROVE  SettleSpec => []Owed
BY OwedInit, OwedStep, PTL DEF SettleSpec

(* An execution is that of a job BullMQ has still to finish.               *)
LEMMA WorkedIsLive ==
  ASSUME Placed, NEW c \in Commits, NEW pcs \in {Reviewing, Announcing}, Works(c, pcs)
  PROVE  \E j \in Jobs : job[j].commit = c /\ Live(j)
<1> PICK s \in Slots : slot[s].pc \in pcs /\ CommitOf(s) = c
  BY DEF Works
<1>1. ~At(s, "idle")
  BY DEF Reviewing, Announcing, At
<1> QED BY <1>1, Runner DEF CommitOf, Live

(* While the write of FAILED works, a review shown as RUNNING has a live   *)
(* job of its commit: the execution that still has to ask, to save or to   *)
(* record the failure, with any number of jobs racing for the commit.      *)
THEOREM RunningIsServed ==
  ASSUME "record" \notin Faults
  PROVE  SettleSpec => []RunningHasJob
<1>1. Owed => RunningHasJob
  <2> SUFFICES ASSUME Owed, NEW c \in Commits, review[c].status = "RUNNING"
               PROVE  \E j \in Jobs : job[j].commit = c /\ Live(j)
    BY DEF RunningHasJob
  <2>1. Works(c, Reviewing)
    BY DEF Owed, RunningIsWorked
  <2> QED BY <2>1, WorkedIsLive DEF Owed
<1> QED BY <1>1, OwedHolds, PTL

(* ... and a COMPLETE review was posted, or is marked as not written back, *)
(* or an execution of it is on its way to one of the two.                  *)
THEOREM CompleteIsServed ==
  ASSUME "record" \notin Faults
  PROVE  SettleSpec => []CompleteIsAnnounced
<1>1. Owed => CompleteIsAnnounced
  <2> SUFFICES ASSUME Owed, NEW c \in Commits, Unannounced(c)
               PROVE  \E j \in Jobs : job[j].commit = c /\ Live(j)
    BY DEF CompleteIsAnnounced, Unannounced
  <2>1. Works(c, Announcing)
    BY DEF Owed, CompleteIsWorked
  <2> QED BY <2>1, WorkedIsLive DEF Owed
<1> QED BY <1>1, OwedHolds, PTL

-----------------------------------------------------------------------------
(* The webhooks.                                                           *)

(* A delivery with a request that works on it.                             *)
Handled(d) == \E r \in Requests : W!WorkingOn(r, d)

(* A request that works on a delivery holds its claim, alone.              *)
HandlerHasClaim == \A d \in Deliveries : Handled(d) => d \in claims

OneHandler ==
  \A d \in Deliveries, r, q \in Requests : W!WorkingOn(r, d) /\ W!WorkingOn(q, d) => r = q

(* The job of a delivery is enqueued last: not before its handler is done, *)
(* and never by one whose claim was released.                              *)
EnqueuedLast ==
  \A d \in Deliveries :
    /\ work[d] \in {0, 1}
    /\ d \notin claims => work[d] = 0
    /\ \A r \in Requests : W!WorkingOn(r, d) /\ ~W!At(r, "handled") => work[d] = 0

IntakeInv == W!TypeOK /\ HandlerHasClaim /\ OneHandler /\ EnqueuedLast

Requested == [pc : W!Working \cup {"idle", "claim"}, delivery : Deliveries \cup {W!Nil}]

-----------------------------------------------------------------------------
LEMMA IntakeStart == W!Init => W!TypeOK
<1> SUFFICES ASSUME W!Init PROVE W!TypeOK
  OBVIOUS
<1>1. W!Idle \in Requested /\ W!Idle.pc = "idle"
  BY DEF W!Idle, Requested
<1> QED BY <1>1 DEF W!Init, W!TypeOK, Requested

(* What a step does to the request that takes it, and to no other.         *)
LEMMA GotoStep ==
  ASSUME W!TypeOK, NEW r \in Requests, ~W!At(r, "idle"), NEW pc \in W!Working, W!Goto(r, pc)
  PROVE  /\ request' \in [Requests -> Requested]
         /\ request'[r].pc = pc /\ request'[r].delivery = request[r].delivery
         /\ \A q \in Requests \ {r} : request'[q] = request[q]
         /\ request[r].delivery \in Deliveries
BY DEF W!TypeOK, Requested, W!Goto, W!At

LEMMA AnswerStep ==
  ASSUME W!TypeOK, NEW r \in Requests, ~W!At(r, "idle"),
         NEW kind \in {"processed", "deduped", "error"}, W!Answer(r, kind)
  PROVE  /\ request' \in [Requests -> Requested]
         /\ request'[r] = W!Idle /\ request'[r].pc = "idle"
         /\ \A q \in Requests \ {r} : request'[q] = request[q]
         /\ request[r].delivery \in Deliveries
         /\ told' \in [Deliveries -> SUBSET {"processed", "deduped", "error"}]
<1>1. W!Idle \in Requested /\ W!Idle.pc = "idle"
  BY DEF W!Idle, Requested
<1>2. request' = [request EXCEPT ![r] = W!Idle] /\ request \in [Requests -> Requested]
  BY DEF W!Answer, W!TypeOK, Requested
<1>3. request[r].delivery \in Deliveries
  BY DEF W!TypeOK, W!At
<1>4. told' \in [Deliveries -> SUBSET {"processed", "deduped", "error"}]
  BY DEF W!Answer, W!TypeOK, W!DeliveryOf
<1> QED BY <1>1, <1>2, <1>3, <1>4

LEMMA IntakeTypes == W!TypeOK /\ [W!Next]_W!vars => W!TypeOK'
<1> SUFFICES ASSUME W!TypeOK, [W!Next]_W!vars PROVE W!TypeOK'
  OBVIOUS
<1>1. ASSUME NEW d \in Deliveries, NEW r \in Requests, W!Deliver(d, r) PROVE W!TypeOK'
  <2>1. [pc |-> "claim", delivery |-> d] \in Requested
    BY DEF Requested
  <2>2. request' \in [Requests -> Requested] /\ request'[r].delivery = d
    BY <1>1, <2>1 DEF W!Deliver, W!TypeOK, Requested
  <2>3. sends' \in [Deliveries -> Nat]
    BY <1>1 DEF W!Deliver, W!TypeOK
  <2> QED BY <1>1, <2>2, <2>3 DEF W!Deliver, W!TypeOK, Requested
<1>2. ASSUME NEW r \in Requests, W!RequestStep(r) PROVE W!TypeOK'
  <2> DEFINE Moved == \/ \E pc \in W!Working : W!Goto(r, pc) /\ UNCHANGED told
                      \/ \E kind \in {"processed", "deduped", "error"} : W!Answer(r, kind)
  <2> DEFINE Typed == /\ request' \in [Requests -> Requested]
                      /\ \A q \in Requests : request'[q].pc # "idle" => request'[q].delivery \in Deliveries
                      /\ told' \in [Deliveries -> SUBSET {"processed", "deduped", "error"}]
  <2>1. ~W!At(r, "idle")
    BY <1>2 DEF W!RequestStep, W!TryClaimEvent, W!ReadRepository, W!RevokeInstallation, W!UpsertPullRequest,
                W!Enqueue, W!HandlerThrows, W!ReleaseClaim, W!Respond, W!At
  <2>2. Moved
    <3>1. CASE W!TryClaimEvent(r)
      BY <3>1 DEF W!TryClaimEvent, W!Working
    <3>2. CASE W!ReadRepository(r)
      <4>1. W!EventOf(r).type \in {"push", "other", "pull_request"}
        BY <2>1, <3>2 DEF W!ReadRepository, W!EventOf, W!DeliveryOf, W!TypeOK, W!Events, W!Event, W!At
      <4>2. W!Goto(r, "handled") \/ W!Goto(r, "upsert") \/ W!Goto(r, "enqueue")
        BY <3>2, <4>1 DEF W!ReadRepository
      <4> QED
        BY <3>2, <4>2 DEF W!ReadRepository, W!Working
    <3>3. CASE W!RevokeInstallation(r) \/ W!UpsertPullRequest(r) \/ W!Enqueue(r) \/ W!HandlerThrows(r)
      BY <3>3 DEF W!RevokeInstallation, W!UpsertPullRequest, W!AfterUpsert, W!Enqueue, W!HandlerThrows, W!Working
    <3>4. CASE W!ReleaseClaim(r) \/ W!Respond(r)
      BY <3>4 DEF W!ReleaseClaim, W!Respond
    <3> QED BY <1>2, <3>1, <3>2, <3>3, <3>4 DEF W!RequestStep
  <2>3. Typed
    <3>1. ASSUME NEW pc \in W!Working, W!Goto(r, pc), UNCHANGED told PROVE Typed
      BY <2>1, <3>1, GotoStep DEF W!TypeOK
    <3>2. ASSUME NEW kind \in {"processed", "deduped", "error"}, W!Answer(r, kind) PROVE Typed
      BY <2>1, <3>2, AnswerStep DEF W!TypeOK
    <3> QED BY <2>2, <3>1, <3>2
  <2>4. W!DeliveryOf(r) \in Deliveries /\ W!EventOf(r).head \in Heads \cup {W!Nil}
    BY <2>1 DEF W!TypeOK, W!At, W!DeliveryOf, W!EventOf, W!Events, W!Event
  <2>5. /\ event' = event /\ sends' = sends
        /\ claims' \subseteq Deliveries /\ lost' \subseteq Deliveries
        /\ revoked' \in BOOLEAN
    BY <1>2, <2>4 DEF W!RequestStep, W!TryClaimEvent, W!ReadRepository, W!RevokeInstallation,
         W!UpsertPullRequest, W!Enqueue, W!HandlerThrows, W!ReleaseClaim, W!Released, W!Respond, W!TypeOK
  <2>6. head' \in Heads \cup {W!Nil} /\ work' \in [Deliveries -> Nat]
    BY <1>2, <2>4 DEF W!RequestStep, W!TryClaimEvent, W!ReadRepository, W!RevokeInstallation,
         W!UpsertPullRequest, W!Enqueue, W!HandlerThrows, W!ReleaseClaim, W!Respond, W!TypeOK
  <2>7. unheard' \subseteq Deliveries
    BY <1>2, <2>4 DEF W!RequestStep, W!TryClaimEvent, W!ReadRepository, W!RevokeInstallation,
         W!UpsertPullRequest, W!Enqueue, W!HandlerThrows, W!ReleaseClaim, W!Respond, W!TypeOK
  <2> QED
    BY <2>3, <2>5, <2>6, <2>7 DEF W!TypeOK, Requested
<1>3. CASE W!Crash
  <2>1. request' \in [Requests -> Requested] /\ \A r \in Requests : request'[r].pc = "idle"
    BY <1>3 DEF W!Crash, W!Idle, Requested
  <2> QED BY <1>3, <2>1 DEF W!Crash, W!TypeOK, Requested
<1>4. CASE UNCHANGED W!vars
  BY <1>4 DEF W!vars, W!TypeOK
<1> QED BY <1>1, <1>2, <1>3, <1>4 DEF W!Next

(* Every variable of WebhookIntake keeps its type.                         *)
THEOREM IntakeTyped == W!Spec => []W!TypeOK
BY IntakeStart, IntakeTypes, PTL DEF W!Spec

-----------------------------------------------------------------------------
(* What a step of r on delivery d leaves of every handling: the ones of    *)
(* other requests, and of r's own what it says.                            *)
Settles(r, d, still) ==
  /\ \A e \in Deliveries, q \in Requests : q # r => (W!WorkingOn(q, e)' <=> W!WorkingOn(q, e))
  /\ \A e \in Deliveries : W!WorkingOn(r, e)' <=> (still /\ e = d)
  /\ \A q \in Requests : q # r => (W!At(q, "handled")' <=> W!At(q, "handled"))

LEMMA GotoSettles ==
  ASSUME W!TypeOK, NEW r \in Requests, ~W!At(r, "idle"), NEW pc \in W!Working, W!Goto(r, pc),
         NEW d \in Deliveries, d = W!DeliveryOf(r)
  PROVE  Settles(r, d, TRUE) /\ (W!At(r, "handled")' <=> pc = "handled")
<1>1. /\ request'[r].pc = pc /\ request'[r].delivery = d
      /\ \A q \in Requests \ {r} : request'[q] = request[q]
  BY GotoStep DEF W!DeliveryOf
<1> QED BY <1>1 DEF Settles, W!WorkingOn, W!DeliveryOf, W!At

LEMMA AnswerSettles ==
  ASSUME W!TypeOK, NEW r \in Requests, ~W!At(r, "idle"),
         NEW kind \in {"processed", "deduped", "error"}, W!Answer(r, kind), NEW d \in Deliveries
  PROVE  Settles(r, d, FALSE)
<1>1. /\ request'[r].pc = "idle" /\ \A q \in Requests \ {r} : request'[q] = request[q]
  BY AnswerStep
<1> QED BY <1>1 DEF Settles, W!WorkingOn, W!DeliveryOf, W!At, W!Working

phases == [d \in Deliveries |-> W!Phase(d)]

-----------------------------------------------------------------------------
(* The deliveries a step is not about are handled as before.               *)
LEMMA OthersHandled ==
  ASSUME NEW r \in Requests, NEW d \in Deliveries, NEW still \in BOOLEAN, Settles(r, d, still),
         \A e \in Deliveries \ {d} : ~W!WorkingOn(r, e)
  PROVE  \A e \in Deliveries \ {d} : Handled(e)' <=> Handled(e)
BY DEF Settles, Handled

LEMMA Rephased ==
  ASSUME NEW d \in Deliveries, \A e \in Deliveries \ {d} : W!Phase(e)' = W!Phase(e),
         NEW p, W!Phase(d)' = p
  PROVE  phases' = [phases EXCEPT ![d] = p]
BY DEF phases

(* The steps of a request by what they do to its delivery: taken up,       *)
(* worked on, given back or finished. Each is one of the intake.           *)
LEMMA Begins ==
  ASSUME IntakeInv, W!TypeOK', NEW r \in Requests, NEW d \in Deliveries \ claims,
         \A e \in Deliveries : ~W!WorkingOn(r, e), Settles(r, d, TRUE), ~W!At(r, "handled")',
         claims' = claims \cup {d}, work' = work
  PROVE  IntakeInv' /\ W!Intake!Begin(d)
<1>1. ~Handled(d)
  BY DEF IntakeInv, HandlerHasClaim
<1>2. \A e \in Deliveries \ {d} : Handled(e)' <=> Handled(e)
  BY OthersHandled
<1>3. Handled(d)'
  BY DEF Settles, Handled
<1>4. OneHandler'
  BY <1>1 DEF IntakeInv, OneHandler, Settles, Handled
<1>5. HandlerHasClaim'
  BY <1>2 DEF IntakeInv, HandlerHasClaim
<1>6. EnqueuedLast'
  BY DEF IntakeInv, EnqueuedLast, Settles
<1>7. W!Phase(d) = "new" /\ W!Phase(d)' = "handling"
  BY <1>1, <1>3 DEF W!Phase, Handled
<1>8. \A e \in Deliveries \ {d} : W!Phase(e)' = W!Phase(e)
  BY <1>2 DEF W!Phase, Handled
<1>9. phases' = [phases EXCEPT ![d] = "handling"]
  BY <1>7, <1>8, Rephased
<1>10. W!Intake!Begin(d)
  BY <1>7, <1>9 DEF W!Intake!Begin, phases
<1> QED BY <1>4, <1>5, <1>6, <1>10 DEF IntakeInv

LEMMA RequestWorks ==
  ASSUME IntakeInv, W!TypeOK', NEW r \in Requests, NEW d \in Deliveries, W!WorkingOn(r, d),
         ~W!At(r, "handled"), Settles(r, d, TRUE), claims' = claims,
         work' = work \/ (W!At(r, "handled")' /\ work' = [work EXCEPT ![d] = @ + 1])
  PROVE  IntakeInv' /\ (W!Intake!Work(d) \/ UNCHANGED <<phases, work>>)
<1>1. work[d] = 0 /\ work \in [Deliveries -> Nat] /\ d \in claims
  BY DEF IntakeInv, EnqueuedLast, W!TypeOK, HandlerHasClaim, Handled
<1>2. \A e \in Deliveries : Handled(e)' <=> Handled(e)
  BY DEF Handled, Settles, W!WorkingOn
<1>3. OneHandler'
  BY DEF IntakeInv, OneHandler, Settles
<1>4. HandlerHasClaim'
  BY <1>2 DEF IntakeInv, HandlerHasClaim
<1>5. work' = work \/ (W!At(r, "handled")' /\ work' = [work EXCEPT ![d] = 1])
  BY <1>1
<1>6. EnqueuedLast'
  <2>1. \A q \in Requests \ {r} : ~W!WorkingOn(q, d)'
    BY DEF IntakeInv, OneHandler, Settles
  <2>2. ASSUME NEW e \in Deliveries
        PROVE  /\ work'[e] \in {0, 1}
               /\ e \notin claims' => work'[e] = 0
               /\ \A q \in Requests : W!WorkingOn(q, e)' /\ ~W!At(q, "handled")' => work'[e] = 0
    <3>1. CASE e = d
      BY <1>1, <1>5, <2>1, <3>1
    <3>2. CASE e # d
      <4>1. work'[e] = work[e]
        BY <1>1, <1>5, <3>2
      <4> QED
        BY <3>2, <4>1 DEF IntakeInv, EnqueuedLast, Settles
    <3> QED BY <3>1, <3>2
  <2> QED BY <2>2 DEF EnqueuedLast
<1>7. \A e \in Deliveries : W!Phase(e)' = W!Phase(e)
  BY <1>2 DEF W!Phase, Handled
<1>8. phases' = phases
  BY <1>7 DEF phases
<1>9. phases[d] = "handling"
  BY DEF phases, W!Phase
<1>10. W!Intake!Work(d) \/ UNCHANGED <<phases, work>>
  BY <1>1, <1>5, <1>8, <1>9 DEF W!Intake!Work, phases
<1> QED BY <1>3, <1>4, <1>6, <1>10 DEF IntakeInv

LEMMA Ends ==
  ASSUME IntakeInv, W!TypeOK', NEW r \in Requests, NEW d \in Deliveries, W!WorkingOn(r, d),
         Settles(r, d, FALSE), work' = work,
         claims' = claims \/ (~W!At(r, "handled") /\ claims' = claims \ {d})
  PROVE  IntakeInv' /\ (W!Intake!Finish(d) \/ W!Intake!GiveUp(d))
<1>1. d \in claims /\ Handled(d)
  BY DEF IntakeInv, HandlerHasClaim, Handled
<1>2. \A e \in Deliveries \ {d} : Handled(e)' <=> Handled(e)
  BY OthersHandled DEF W!WorkingOn
<1>3. ~Handled(d)'
  BY DEF IntakeInv, OneHandler, Settles, Handled
<1>4. OneHandler'
  BY DEF IntakeInv, OneHandler, Settles
<1>5. HandlerHasClaim'
  BY <1>2, <1>3 DEF IntakeInv, HandlerHasClaim
<1>6. ~W!At(r, "handled") => work[d] = 0
  BY DEF IntakeInv, EnqueuedLast
<1>7. EnqueuedLast'
  BY <1>6 DEF IntakeInv, EnqueuedLast, Settles
<1>8. \A e \in Deliveries \ {d} : W!Phase(e)' = W!Phase(e)
  BY <1>2 DEF W!Phase, Handled
<1>9. phases[d] = "handling"
  BY <1>1 DEF phases, W!Phase, Handled
<1>10. CASE claims' = claims
  <2>1. W!Phase(d)' = "handled"
    BY <1>1, <1>3, <1>10 DEF W!Phase, Handled
  <2>2. phases' = [phases EXCEPT ![d] = "handled"]
    BY <1>8, <2>1, Rephased
  <2>3. W!Intake!Finish(d)
    BY <1>9, <2>2 DEF W!Intake!Finish, phases
  <2> QED BY <1>4, <1>5, <1>7, <2>3 DEF IntakeInv
<1>11. CASE ~W!At(r, "handled") /\ claims' = claims \ {d}
  <2>1. W!Phase(d)' = "new"
    BY <1>3, <1>11 DEF W!Phase, Handled
  <2>2. phases' = [phases EXCEPT ![d] = "new"]
    BY <1>8, <2>1, Rephased
  <2>3. W!Intake!GiveUp(d)
    BY <1>6, <1>9, <1>11, <2>2 DEF W!Intake!GiveUp, phases
  <2> QED BY <1>4, <1>5, <1>7, <2>3 DEF IntakeInv
<1> QED BY <1>10, <1>11

LEMMA Rests ==
  ASSUME IntakeInv, W!TypeOK', claims' = claims, work' = work,
         \A e \in Deliveries, q \in Requests : W!WorkingOn(q, e)' <=> W!WorkingOn(q, e),
         \A q \in Requests : (\E e \in Deliveries : W!WorkingOn(q, e)) => (W!At(q, "handled")' <=> W!At(q, "handled"))
  PROVE  IntakeInv' /\ UNCHANGED <<phases, work>>
<1>1. \A e \in Deliveries : W!Phase(e)' = W!Phase(e)
  BY DEF W!Phase
<1>2. phases' = phases
  BY <1>1 DEF phases
<1> QED BY <1>2 DEF IntakeInv, OneHandler, HandlerHasClaim, EnqueuedLast, Handled

-----------------------------------------------------------------------------
(* One step of a request keeps the invariant and is one of the intake.     *)
LEMMA HandlerStep ==
  ASSUME IntakeInv, NEW r \in Requests, W!RequestStep(r), W!TypeOK'
  PROVE  IntakeInv' /\ (W!Intake!Next \/ UNCHANGED <<phases, work>>)
<1>1. ~W!At(r, "idle") /\ W!DeliveryOf(r) \in Deliveries /\ W!TypeOK
  BY DEF W!RequestStep, W!TryClaimEvent, W!ReadRepository, W!RevokeInstallation, W!UpsertPullRequest,
         W!Enqueue, W!HandlerThrows, W!ReleaseClaim, W!Respond, W!At, W!DeliveryOf, IntakeInv, W!TypeOK
<1> PICK d \in Deliveries : d = W!DeliveryOf(r)
  BY <1>1
<1>2. CASE W!TryClaimEvent(r)
  <2>1. work' = work /\ \A e \in Deliveries : ~W!WorkingOn(r, e)
    BY <1>2 DEF W!TryClaimEvent, W!WorkingOn, W!At, W!Working
  <2>2. ASSUME d \notin claims, claims' = claims \cup {d}, W!Goto(r, "handle")
        PROVE  IntakeInv' /\ W!Intake!Begin(d)
    <3>1. Settles(r, d, TRUE) /\ ~W!At(r, "handled")'
      BY <1>1, <2>2, GotoSettles DEF W!Working
    <3> QED BY <2>1, <2>2, <3>1, Begins
  <2>3. ASSUME NEW kind \in {"deduped", "error"}, W!Answer(r, kind), claims' = claims
        PROVE  IntakeInv' /\ UNCHANGED <<phases, work>>
    <3>1. Settles(r, d, FALSE)
      BY <1>1, <2>3, AnswerSettles
    <3> QED BY <2>1, <2>3, <3>1, Rests DEF Settles
  <2> QED BY <1>2, <2>2, <2>3 DEF W!TryClaimEvent, W!Claimable, W!Intake!Next
<1>3. ASSUME NEW pc \in W!Working, W!Goto(r, pc), W!WorkingOn(r, d), ~W!At(r, "handled"), claims' = claims,
             work' = work \/ (pc = "handled" /\ work' = [work EXCEPT ![d] = @ + 1])
      PROVE  IntakeInv' /\ (W!Intake!Next \/ UNCHANGED <<phases, work>>)
  <2>1. Settles(r, d, TRUE) /\ (W!At(r, "handled")' <=> pc = "handled")
    BY <1>1, <1>3, GotoSettles
  <2>2. IntakeInv' /\ (W!Intake!Work(d) \/ UNCHANGED <<phases, work>>)
    BY <1>3, <2>1, RequestWorks
  <2> QED BY <2>2 DEF W!Intake!Next
<1>4. CASE W!ReadRepository(r)
  <2>1. W!EventOf(r).type \in {"push", "other", "pull_request"}
    BY <1>1, <1>4 DEF W!ReadRepository, W!EventOf, W!DeliveryOf, W!TypeOK, W!Events, W!Event
  <2>2. W!Goto(r, "handled") \/ W!Goto(r, "upsert") \/ W!Goto(r, "enqueue")
    BY <1>4, <2>1 DEF W!ReadRepository
  <2> QED BY <1>3, <1>4, <2>2 DEF W!ReadRepository, W!Working, W!WorkingOn, W!At
<1>5. CASE W!RevokeInstallation(r) \/ W!UpsertPullRequest(r) \/ W!HandlerThrows(r)
  BY <1>3, <1>5 DEF W!RevokeInstallation, W!UpsertPullRequest, W!AfterUpsert, W!HandlerThrows, W!Working, W!WorkingOn, W!At
<1>6. CASE W!Enqueue(r)
  BY <1>3, <1>6 DEF W!Enqueue, W!Working, W!WorkingOn, W!At
<1>7. CASE W!ReleaseClaim(r) \/ W!Respond(r)
  <2>1. Settles(r, d, FALSE)
    BY <1>1, <1>7, AnswerSettles DEF W!ReleaseClaim, W!Respond
  <2>2. /\ W!WorkingOn(r, d) /\ work' = work
        /\ claims' = claims \/ (~W!At(r, "handled") /\ claims' = claims \ {d})
    BY <1>7 DEF W!ReleaseClaim, W!Released, W!Respond, W!WorkingOn, W!Working, W!At
  <2>3. IntakeInv' /\ (W!Intake!Finish(d) \/ W!Intake!GiveUp(d))
    BY <2>1, <2>2, Ends
  <2> QED BY <2>3 DEF W!Intake!Next
<1> QED BY <1>2, <1>4, <1>5, <1>6, <1>7 DEF W!RequestStep

(* A death of the backend handles what was being handled, a delivery sent  *)
(* changes nothing of it.                                                  *)
LEMMA IntakeStep ==
  ASSUME IntakeInv, [W!Next]_W!vars
  PROVE  IntakeInv' /\ (W!Intake!Next \/ UNCHANGED <<phases, work>>)
<1>1. W!TypeOK /\ W!TypeOK'
  BY IntakeTypes DEF IntakeInv
<1>2. ASSUME NEW d \in Deliveries, NEW r \in Requests, W!Deliver(d, r)
      PROVE  IntakeInv' /\ UNCHANGED <<phases, work>>
  <2>1. /\ request[r].pc = "idle" /\ request'[r].pc = "claim"
        /\ \A q \in Requests \ {r} : request'[q] = request[q]
    BY <1>1, <1>2 DEF W!Deliver, W!TypeOK, W!At
  <2>2. /\ \A e \in Deliveries, q \in Requests : W!WorkingOn(q, e)' <=> W!WorkingOn(q, e)
        /\ \A q \in Requests : W!At(q, "handled")' <=> W!At(q, "handled")
    BY <2>1 DEF W!WorkingOn, W!DeliveryOf, W!Working, W!At
  <2> QED BY <1>1, <1>2, <2>2, Rests DEF W!Deliver
<1>3. CASE W!Crash
  <2>1. \A e \in Deliveries, q \in Requests : ~W!WorkingOn(q, e)'
    BY <1>3 DEF W!Crash, W!WorkingOn, W!Idle, W!Working
  <2>2. IntakeInv'
    BY <1>1, <1>3, <2>1 DEF IntakeInv, OneHandler, HandlerHasClaim, EnqueuedLast, Handled, W!Crash
  <2>3. \A e \in Deliveries : W!Phase(e)' = IF W!Phase(e) = "handling" THEN "handled" ELSE W!Phase(e)
    BY <1>3, <2>1 DEF W!Phase, W!Crash, IntakeInv, HandlerHasClaim, Handled
  <2>4. W!Intake!Die
    BY <1>3, <2>3 DEF W!Intake!Die, W!Crash
  <2> QED BY <2>2, <2>4 DEF W!Intake!Next
<1>4. CASE UNCHANGED W!vars
  BY <1>1, <1>4, Rests DEF W!vars, W!WorkingOn, W!DeliveryOf, W!At
<1> QED BY <1>1, <1>2, <1>3, <1>4, HandlerStep DEF W!Next

(* However often deliveries are sent, how many requests run, what fails    *)
(* and when the backend dies: each delivery is handled by one request at a *)
(* time, its job enqueued at most once by a call that returned, and given  *)
(* up only before that.                                                    *)
THEOREM AtMostOneJob == W!Spec => W!ImplementsAtMostOnce
<1>1. W!Init => IntakeInv
  BY IntakeStart DEF W!Init, IntakeInv, HandlerHasClaim, OneHandler, EnqueuedLast, Handled, W!WorkingOn, W!Idle, W!Working
<1>2. W!Init => W!Intake!Init
  BY DEF W!Init, W!Intake!Init, W!Phase, W!WorkingOn, W!Idle, W!Working
<1>3. IntakeInv /\ [W!Next]_W!vars => IntakeInv'
  BY IntakeStep
<1>4. IntakeInv /\ [W!Next]_W!vars => [W!Intake!Next]_<<phases, work>>
  BY IntakeStep
<1>5. IntakeInv /\ [W!Next]_W!vars => [W!Intake!Next]_<<[d \in Deliveries |-> W!Phase(d)], work>>
  BY <1>4 DEF phases
<1> QED BY <1>1, <1>2, <1>3, <1>5, PTL DEF W!Spec, W!ImplementsAtMostOnce, W!Intake!Spec

-----------------------------------------------------------------------------
(* That no event is forgotten: where a request is in its handler says what *)
(* its delivery is about and whether its job is enqueued.                  *)
OnPath == \A r \in Requests :
  /\ W!At(r, "upsert") => W!EventOf(r).type = "pull_request"
  /\ W!At(r, "handled") /\ W!EventOf(r).type = "pull_request" /\ ~revoked => work[W!DeliveryOf(r)] > 0

(* A delivery that led to a job, or still can.                             *)
Open(d) == work[d] > 0 \/ d \notin claims \/ d \in lost \/ Handled(d)

CoverInv == W!TypeOK /\ OnPath /\ W!ClaimMeansDone /\ W!UpsertedIsReviewed

(* The open deliveries of pull requests stay open.                         *)
StayOpen == \A e \in Deliveries :
  event[e].type = "pull_request" /\ ~revoked' /\ Open(e) => Open(e)'

(* The two properties in these words, of a state and of the next.          *)
LEMMA InTheseWords ==
  /\ W!ClaimMeansDone <=> \A e \in claims \ lost : "processed" \in told[e] \/ Handled(e)
  /\ W!ClaimMeansDone' <=> \A e \in claims' \ lost' : "processed" \in told'[e] \/ Handled(e)'
  /\ W!UpsertedIsReviewed <=> (head # W!Nil /\ ~revoked =>
       \E e \in Deliveries : event[e] = W!Event("pull_request", head) /\ Open(e))
  /\ W!UpsertedIsReviewed' <=> (head' # W!Nil /\ ~revoked' =>
       \E e \in Deliveries : event'[e] = W!Event("pull_request", head') /\ Open(e)')
BY DEF W!ClaimMeansDone, W!UpsertedIsReviewed, Open, Handled

LEMMA GoesOn ==
  ASSUME CoverInv, NEW r \in Requests, ~W!At(r, "idle"), NEW pc \in W!Working, W!Goto(r, pc),
         NEW d \in Deliveries, d = W!DeliveryOf(r), UNCHANGED <<event, told, lost>>,
         revoked => revoked', claims' \subseteq claims \cup {d},
         work' \in [Deliveries -> Nat], \A e \in Deliveries : work'[e] >= work[e],
         pc = "upsert" => event[d].type = "pull_request",
         pc = "handled" /\ event[d].type = "pull_request" /\ ~revoked' => work'[d] > 0
  PROVE  OnPath' /\ W!ClaimMeansDone' /\ StayOpen
<1>1. /\ request'[r].pc = pc /\ request'[r].delivery = d
      /\ \A q \in Requests \ {r} : request'[q] = request[q]
  BY GotoStep DEF CoverInv, W!DeliveryOf
<1>2. Handled(d)'
  BY <1>1 DEF Handled, W!WorkingOn, W!DeliveryOf
<1>3. \A e \in Deliveries : Handled(e) => Handled(e)'
  BY <1>1, <1>2 DEF Handled, W!WorkingOn, W!DeliveryOf
<1>4. \A e \in Deliveries : work[e] \in Nat
  BY DEF CoverInv, W!TypeOK
<1>5. OnPath'
  <2>1. ASSUME NEW q \in Requests \ {r}
        PROVE  /\ W!At(q, "upsert")' => W!EventOf(q)'.type = "pull_request"
               /\ W!At(q, "handled")' /\ W!EventOf(q)'.type = "pull_request" /\ ~revoked' => work'[W!DeliveryOf(q)'] > 0
    <3>1. request'[q] = request[q]
      BY <1>1
    <3>2. W!At(q, "handled") => W!DeliveryOf(q) \in Deliveries
      BY DEF CoverInv, W!TypeOK, W!At, W!DeliveryOf
    <3> QED BY <1>4, <3>1, <3>2 DEF CoverInv, OnPath, W!At, W!EventOf, W!DeliveryOf
  <2>2. /\ W!At(r, "upsert")' => W!EventOf(r)'.type = "pull_request"
        /\ W!At(r, "handled")' /\ W!EventOf(r)'.type = "pull_request" /\ ~revoked' => work'[W!DeliveryOf(r)'] > 0
    BY <1>1 DEF W!At, W!EventOf, W!DeliveryOf
  <2> QED BY <2>1, <2>2 DEF OnPath
<1>6. W!ClaimMeansDone'
  BY <1>2, <1>3, InTheseWords DEF CoverInv, W!TypeOK
<1>7. StayOpen
  BY <1>2, <1>3, <1>4 DEF StayOpen, Open
<1> QED BY <1>5, <1>6, <1>7

LEMMA Ended ==
  ASSUME CoverInv, NEW r \in Requests, ~W!At(r, "idle"),
         NEW kind \in {"processed", "deduped", "error"}, W!Answer(r, kind),
         NEW d \in Deliveries, d = W!DeliveryOf(r), UNCHANGED <<event, work, revoked>>,
         claims' \subseteq claims, lost \subseteq lost',
         \/ ~W!WorkingOn(r, d) \/ d \notin claims' \/ d \in lost'
         \/ W!At(r, "handled") /\ kind = "processed"
  PROVE  OnPath' /\ W!ClaimMeansDone' /\ StayOpen
<1>1. /\ request'[r].pc = "idle" /\ \A q \in Requests \ {r} : request'[q] = request[q]
  BY AnswerStep DEF CoverInv
<1>2. \A e \in Deliveries : Handled(e) /\ (e = d => ~W!WorkingOn(r, d)) => Handled(e)'
  BY <1>1 DEF Handled, W!WorkingOn, W!DeliveryOf
<1>3. \A e \in Deliveries : told'[e] = IF e = d THEN told[d] \cup {kind} ELSE told[e]
  BY DEF CoverInv, W!TypeOK, W!Answer
<1>4. OnPath'
  BY <1>1 DEF CoverInv, OnPath, W!At, W!EventOf, W!DeliveryOf
<1>5. W!ClaimMeansDone'
  <2>1. \A e \in claims' \ lost' : e \in Deliveries /\ e \in claims \ lost
    BY DEF CoverInv, W!TypeOK
  <2>2. \A e \in claims \ lost : "processed" \in told[e] \/ Handled(e)
    BY InTheseWords DEF CoverInv
  <2>3. W!WorkingOn(r, d) /\ d \in claims' \ lost' => "processed" \in told'[d]
    BY <1>3
  <2>4. \A e \in claims' \ lost' : "processed" \in told'[e] \/ Handled(e)'
    BY <1>2, <1>3, <2>1, <2>2, <2>3
  <2> QED BY <2>4, InTheseWords
<1>6. StayOpen
  BY <1>2 DEF CoverInv, OnPath, W!EventOf, StayOpen, Open
<1> QED BY <1>4, <1>5, <1>6

(* What a step of a request does to the claims and the jobs.               *)
LEMMA CoverStep ==
  ASSUME CoverInv, NEW r \in Requests, W!RequestStep(r)
  PROVE  OnPath' /\ W!ClaimMeansDone' /\ StayOpen
<1>1. ~W!At(r, "idle") /\ W!DeliveryOf(r) \in Deliveries
  BY DEF W!RequestStep, W!TryClaimEvent, W!ReadRepository, W!RevokeInstallation, W!UpsertPullRequest,
         W!Enqueue, W!HandlerThrows, W!ReleaseClaim, W!Respond, W!At, W!DeliveryOf, CoverInv, W!TypeOK
<1> PICK d \in Deliveries : d = W!DeliveryOf(r)
  BY <1>1
<1>2. work \in [Deliveries -> Nat] /\ \A e \in Deliveries : work[e] >= work[e]
  BY DEF CoverInv, W!TypeOK
<1>3. ASSUME NEW pc \in {"handle", "release"}, W!Goto(r, pc), UNCHANGED <<event, told, lost, revoked, work>>,
             claims' \subseteq claims \cup {d}
      PROVE  OnPath' /\ W!ClaimMeansDone' /\ StayOpen
  BY <1>1, <1>2, <1>3, GoesOn DEF W!Working
<1>4. CASE W!TryClaimEvent(r)
  <2>1. ~W!WorkingOn(r, d)
    BY <1>4 DEF W!TryClaimEvent, W!WorkingOn, W!At, W!Working
  <2>2. ASSUME NEW kind \in {"deduped", "error"}, W!Answer(r, kind),
               UNCHANGED <<event, claims, lost, revoked, work>>
        PROVE  OnPath' /\ W!ClaimMeansDone' /\ StayOpen
    BY <1>1, <2>1, <2>2, Ended
  <2> QED BY <1>3, <1>4, <2>2 DEF W!TryClaimEvent
<1>5. CASE W!ReadRepository(r)
  <2>1. event[d] \in W!Events
    BY DEF CoverInv, W!TypeOK
  <2>2. event[d].type \in {"push", "other", "pull_request"}
    BY <1>5, <2>1 DEF W!ReadRepository, W!EventOf, W!Events, W!Event
  <2>3. \E pc \in {"handled", "upsert", "enqueue"} :
          /\ W!Goto(r, pc)
          /\ pc = "upsert" => event[d].type = "pull_request"
          /\ pc = "handled" /\ event[d].type = "pull_request" => revoked
    BY <1>5, <2>2 DEF W!ReadRepository, W!EventOf
  <2>4. PICK pc \in {"handled", "upsert", "enqueue"} :
          /\ W!Goto(r, pc)
          /\ pc = "upsert" => event[d].type = "pull_request"
          /\ pc = "handled" /\ event[d].type = "pull_request" => revoked
    BY <2>3
  <2>5. UNCHANGED <<event, claims, told, lost, revoked, work>> /\ pc \in W!Working
    BY <1>5 DEF W!ReadRepository, W!Working
  <2> QED BY <1>1, <1>2, <2>4, <2>5, GoesOn
<1>6. CASE W!RevokeInstallation(r)
  BY <1>1, <1>2, <1>6, GoesOn DEF W!RevokeInstallation, W!Working
<1>7. CASE W!UpsertPullRequest(r)
  BY <1>1, <1>2, <1>7, GoesOn DEF W!UpsertPullRequest, W!AfterUpsert, W!Working
<1>8. CASE W!Enqueue(r)
  <2>1. /\ W!Goto(r, "handled") /\ UNCHANGED <<event, claims, told, lost, revoked>>
        /\ \/ work' = [work EXCEPT ![d] = @ + 1]
           \/ event[d].type = "push" /\ work' = work
    BY <1>8 DEF W!Enqueue, W!EventOf
  <2>2. /\ work' \in [Deliveries -> Nat] /\ \A e \in Deliveries : work'[e] >= work[e]
        /\ event[d].type = "pull_request" => work'[d] > 0
    BY <1>2, <2>1
  <2> QED BY <1>1, <2>1, <2>2, GoesOn DEF W!Working
<1>9. CASE W!HandlerThrows(r)
  BY <1>3, <1>9 DEF W!HandlerThrows
<1>10. CASE W!ReleaseClaim(r)
  <2>1. /\ W!Answer(r, "error") /\ UNCHANGED <<event, revoked, work>>
        /\ \/ claims' = claims \ {d} /\ lost' = lost
           \/ claims' = claims /\ lost' = lost \cup {d}
    BY <1>10 DEF W!ReleaseClaim, W!Released
  <2> QED BY <1>1, <2>1, Ended
<1>11. CASE W!Respond(r)
  BY <1>1, <1>11, Ended DEF W!Respond
<1> QED BY <1>4, <1>5, <1>6, <1>7, <1>8, <1>9, <1>10, <1>11 DEF W!RequestStep

(* The delivery that stands for the head shown, when the head stays.       *)
LEMMA HeadStays ==
  ASSUME CoverInv, StayOpen, UNCHANGED <<event, head>>, revoked => revoked'
  PROVE  W!UpsertedIsReviewed'
<1>1. \A h : W!Event("pull_request", h).type = "pull_request"
  BY DEF W!Event
<1> QED BY <1>1, InTheseWords DEF CoverInv, StayOpen

LEMMA NextCovers == CoverInv /\ [W!Next]_W!vars => CoverInv'
<1> SUFFICES ASSUME CoverInv, [W!Next]_W!vars PROVE CoverInv'
  OBVIOUS
<1>1. W!TypeOK /\ W!TypeOK'
  BY IntakeTypes DEF CoverInv
<1>2. ASSUME NEW r \in Requests, W!RequestStep(r) PROVE CoverInv'
  <2>1. OnPath' /\ W!ClaimMeansDone' /\ StayOpen
    BY <1>2, CoverStep
  <2>2. CASE W!UpsertPullRequest(r)
    <3>1. W!At(r, "upsert") /\ W!EventOf(r).type = "pull_request" /\ W!DeliveryOf(r) \in Deliveries
      BY <1>1, <2>2 DEF W!UpsertPullRequest, CoverInv, OnPath, W!TypeOK, W!At, W!DeliveryOf
    <3> PICK d \in Deliveries : d = W!DeliveryOf(r)
      BY <3>1
    <3>2. event[d] = W!Event("pull_request", event[d].head)
      BY <1>1, <3>1 DEF W!EventOf, W!TypeOK, W!Events, W!Event
    <3>3. request'[r].pc = "enqueue" /\ request'[r].delivery = d
      BY <1>1, <2>2 DEF W!UpsertPullRequest, W!AfterUpsert, W!Goto, W!TypeOK, W!DeliveryOf
    <3>4. Open(d)'
      BY <3>3 DEF Open, Handled, W!WorkingOn, W!DeliveryOf, W!Working
    <3>5. head' = event[d].head /\ event' = event
      BY <2>2 DEF W!UpsertPullRequest, W!EventOf
    <3>6. event'[d] = W!Event("pull_request", head')
      BY <3>2, <3>5
    <3>7. W!UpsertedIsReviewed'
      BY <3>4, <3>6, InTheseWords
    <3> QED BY <1>1, <2>1, <3>7 DEF CoverInv
  <2>3. CASE ~W!UpsertPullRequest(r)
    <3>1. UNCHANGED <<event, head>> /\ (revoked => revoked')
      BY <1>2, <2>3 DEF W!RequestStep, W!TryClaimEvent, W!ReadRepository, W!RevokeInstallation,
         W!Enqueue, W!HandlerThrows, W!ReleaseClaim, W!Respond
    <3>2. W!UpsertedIsReviewed'
      BY <2>1, <3>1, HeadStays
    <3> QED BY <1>1, <2>1, <3>2 DEF CoverInv
  <2> QED BY <2>2, <2>3
<1>3. ASSUME OnPath', W!ClaimMeansDone', StayOpen, UNCHANGED <<event, head, revoked>> PROVE CoverInv'
  BY <1>1, <1>3, HeadStays DEF CoverInv
<1>4. ASSUME NEW d \in Deliveries, NEW r \in Requests, W!Deliver(d, r) PROVE CoverInv'
  <2>1. /\ request[r].pc = "idle" /\ request'[r].pc = "claim"
        /\ \A q \in Requests \ {r} : request'[q] = request[q]
    BY <1>1, <1>4 DEF W!Deliver, W!TypeOK, W!At
  <2>2. \A e \in Deliveries : Handled(e)' <=> Handled(e)
    BY <2>1 DEF Handled, W!WorkingOn, W!DeliveryOf, W!Working
  <2>3. UNCHANGED <<event, head, revoked, claims, told, work, lost>>
    BY <1>4 DEF W!Deliver
  <2>4. OnPath'
    BY <2>1, <2>3 DEF CoverInv, OnPath, W!At, W!EventOf, W!DeliveryOf
  <2>5. W!ClaimMeansDone' /\ StayOpen
    <3>1. claims \subseteq Deliveries
      BY DEF CoverInv, W!TypeOK
    <3>2. W!ClaimMeansDone'
      BY <2>2, <2>3, <3>1, InTheseWords DEF CoverInv
    <3>3. StayOpen
      BY <2>2, <2>3 DEF StayOpen, Open
    <3> QED BY <3>2, <3>3
  <2> QED BY <1>3, <2>3, <2>4, <2>5
<1>5. CASE W!Crash
  <2>1. \A q \in Requests : request'[q].pc = "idle"
    BY <1>5 DEF W!Crash, W!Idle
  <2>2. OnPath'
    BY <2>1 DEF OnPath, W!At
  <2>3. UNCHANGED <<event, head, revoked, claims, told, work>> /\ lost \subseteq lost'
    BY <1>5 DEF W!Crash
  <2>4. \A e \in Deliveries : Handled(e) => e \in lost'
    BY <1>5 DEF W!Crash, Handled
  <2>5. W!ClaimMeansDone' /\ StayOpen
    <3>1. claims \subseteq Deliveries
      BY DEF CoverInv, W!TypeOK
    <3>2. W!ClaimMeansDone'
      BY <2>3, <2>4, <3>1, InTheseWords DEF CoverInv
    <3>3. StayOpen
      BY <2>3, <2>4 DEF StayOpen, Open
    <3> QED BY <3>2, <3>3
  <2> QED BY <1>3, <2>2, <2>3, <2>5
<1>6. CASE UNCHANGED W!vars
  <2>1. UNCHANGED <<event, request, told, head, revoked, claims, work, lost>>
    BY <1>6 DEF W!vars
  <2>2. OnPath' /\ W!ClaimMeansDone'
    BY <2>1 DEF CoverInv, OnPath, W!ClaimMeansDone, W!WorkingOn, W!At, W!EventOf, W!DeliveryOf
  <2>3. StayOpen
    BY <2>1 DEF StayOpen, Open, Handled, W!WorkingOn, W!DeliveryOf
  <2> QED BY <1>3, <2>1, <2>2, <2>3
<1> QED BY <1>2, <1>4, <1>5, <1>6 DEF W!Next

LEMMA InitCovers == W!Init => CoverInv
BY IntakeStart DEF W!Init, CoverInv, OnPath, W!ClaimMeansDone, W!UpsertedIsReviewed, W!At, W!Idle

(* Whatever fails and however often GitHub asks again, a claim that stays  *)
(* stands for an event that was or is being processed: only a crash, or a  *)
(* delete that fails after the handler did, turns a failure into silence.  *)
THEOREM NoEventDedupedUnhandled == W!Spec => []W!ClaimMeansDone
<1>1. CoverInv => W!ClaimMeansDone
  BY DEF CoverInv
<1> QED BY <1>1, InitCovers, NextCovers, PTL DEF W!Spec

(* With any number of deliveries for one pull request handled in any       *)
(* order, the head its row ends with has its review job, or can get it.    *)
THEOREM ShownHeadIsReviewed == W!Spec => []W!UpsertedIsReviewed
<1>1. CoverInv => W!UpsertedIsReviewed
  BY DEF CoverInv
<1> QED BY <1>1, InitCovers, NextCovers, PTL DEF W!Spec

-----------------------------------------------------------------------------
(* The installations.                                                      *)

RowInv == I!TypeOK /\ I!ActiveIsInstalled

(* Rows of the old form are never made again, so that a list, however old, *)
(* offers none that is there, and no import of one is on its way.          *)
Legacy(r) == [repo |-> r, suffix |-> ".git"]
Plain(r)  == [repo |-> r, suffix |-> ""]

LegacyIsConnected ==
  \A r \in Repos : Legacy(r) \in rows =>
    \A t \in Tabs : r \notin page[t].importable /\ connect[t][r] = "idle"

ImportInv == I!TypeOK /\ LegacyIsConnected /\ I!OneRowPerRepository

-----------------------------------------------------------------------------
Pages == [pc : {"loading", "listing", "shown", "left"}, installation : Ids \cup {I!Nil},
          importable : SUBSET Repos, importing : Repos \cup {I!Nil}]

LEMMA InstallationsStart == I!Init => I!TypeOK
<1> SUFFICES ASSUME I!Init PROVE I!TypeOK
  OBVIOUS
<1>1. rows \subseteq I!Urls
  <2>1. PICK legacy \in Repos : rows \in {{}, {[repo |-> legacy, suffix |-> ".git"]}}
    BY DEF I!Init
  <2>2. [repo |-> legacy, suffix |-> ".git"] \in I!Urls
    BY DEF I!Urls
  <2> QED BY <2>1, <2>2
<1>2. I!BlankPage \in Pages
  BY DEF I!BlankPage, Pages
<1>3. page \in [Tabs -> Pages]
  BY <1>2 DEF I!Init
<1> QED BY <1>1, <1>3 DEF I!Init, I!TypeOK, Pages

(* A URL has one of two forms.                                             *)
LEMMA UrlForms ==
  ASSUME NEW r \in Repos
  PROVE  /\ Plain(r) \in I!Urls /\ Legacy(r) \in I!Urls
         /\ Plain(r).repo = r
         /\ \A q \in Repos : Legacy(q) # Plain(r)
         /\ \A url \in I!Urls : url.repo = r => url = Plain(r) \/ url = Legacy(r)
<1>1. Plain(r) \in I!Urls /\ Legacy(r) \in I!Urls /\ Plain(r).repo = r
  BY DEF Plain, Legacy, I!Urls
<1>2. \A q \in Repos : Legacy(q) # Plain(r)
  <2>1. \A q \in Repos : Legacy(q).suffix = ".git" /\ Plain(r).suffix = ""
    BY DEF Legacy, Plain
  <2>2. ".git" # ""
    OBVIOUS
  <2> QED BY <2>1, <2>2
<1>3. ASSUME NEW url \in I!Urls, url.repo = r PROVE url = Plain(r) \/ url = Legacy(r)
  BY <1>3 DEF I!Urls, Plain, Legacy
<1> QED BY <1>1, <1>2, <1>3

LEMMA ShowTyped ==
  ASSUME I!TypeOK, NEW t \in Tabs, NEW fields \in Pages, I!Show(t, fields)
  PROVE  /\ page' \in [Tabs -> Pages]
         /\ page'[t] = fields
         /\ \A u \in Tabs \ {t} : page'[u] = page[u]
BY DEF I!TypeOK, I!Show, Pages

(* A step of the import page changes one tab's fields, within their types; *)
(* what it offers is what it offered, nothing, or what ListAvailableRepos  *)
(* found.                                                                  *)
Offers(t, offered) ==
  /\ page' \in [Tabs -> Pages]
  /\ page'[t].importable = offered
  /\ \A u \in Tabs \ {t} : page'[u] = page[u]

LEMMA PageStep ==
  ASSUME I!TypeOK, NEW t \in Tabs
  PROVE  /\ I!LoadInstallations(t) => Offers(t, page[t].importable)
         /\ I!ListAvailableRepos(t) =>
              \/ Offers(t, page[t].importable)
              \/ Offers(t, {r \in Repos : <<r, "">> \notin {I!Normalized(url) : url \in rows}})
         /\ I!OpenPage(t) => Offers(t, {})
         /\ \A r \in Repos : I!HandleImport(t, r) \/ I!Fail(t, r) \/ I!CreateRepository(t, r)
              => Offers(t, page[t].importable)
<1> DEFINE Offered == {r \in Repos : <<r, "">> \notin {I!Normalized(url) : url \in rows}}
<1>1. page[t] \in Pages
  BY DEF I!TypeOK, Pages
<1>2. ASSUME NEW pc \in {"loading", "listing", "shown", "left"}
      PROVE  /\ [page[t] EXCEPT !.pc = pc] \in Pages
             /\ [page[t] EXCEPT !.pc = pc].importable = page[t].importable
  BY <1>1 DEF Pages
<1>3. ASSUME I!LoadInstallations(t) PROVE Offers(t, page[t].importable)
  <2>1. ASSUME NEW i \in Ids, I!Show(t, [page[t] EXCEPT !.pc = "listing", !.installation = i])
        PROVE  Offers(t, page[t].importable)
    <3>1. /\ [page[t] EXCEPT !.pc = "listing", !.installation = i] \in Pages
          /\ [page[t] EXCEPT !.pc = "listing", !.installation = i].importable = page[t].importable
      BY <1>1 DEF Pages
    <3> QED BY <2>1, <3>1, ShowTyped DEF Offers
  <2>2. ASSUME I!Show(t, [page[t] EXCEPT !.pc = "shown"]) PROVE Offers(t, page[t].importable)
    BY <2>2, <1>2, ShowTyped DEF Offers
  <2> QED BY <1>3, <2>1, <2>2 DEF I!LoadInstallations
<1>4. ASSUME I!ListAvailableRepos(t)
      PROVE  Offers(t, page[t].importable) \/ Offers(t, Offered)
  <2>1. ASSUME I!Show(t, [page[t] EXCEPT !.pc = "shown", !.importable = Offered])
        PROVE  Offers(t, Offered)
    <3>1. Offered \in SUBSET Repos
      OBVIOUS
    <3> HIDE DEF Offered
    <3>2. /\ [page[t] EXCEPT !.pc = "shown", !.importable = Offered] \in Pages
          /\ [page[t] EXCEPT !.pc = "shown", !.importable = Offered].importable = Offered
      BY <1>1, <3>1 DEF Pages
    <3> QED BY <2>1, <3>2, ShowTyped DEF Offers
  <2>2. ASSUME I!Show(t, [page[t] EXCEPT !.pc = "shown"]) PROVE Offers(t, page[t].importable)
    BY <2>2, <1>2, ShowTyped DEF Offers
  <2>3. \/ I!Show(t, [page[t] EXCEPT !.pc = "shown", !.importable = Offered])
        \/ I!Show(t, [page[t] EXCEPT !.pc = "shown"])
    BY <1>4 DEF I!ListAvailableRepos
  <2> QED BY <2>1, <2>2, <2>3
<1>5. ASSUME I!OpenPage(t) PROVE Offers(t, {})
  <2>1. I!BlankPage \in Pages /\ I!BlankPage.importable = {}
    BY DEF I!BlankPage, Pages
  <2> QED BY <1>5, <2>1, ShowTyped DEF I!OpenPage, Offers
<1>6. ASSUME NEW r \in Repos, I!HandleImport(t, r) \/ I!Fail(t, r) \/ I!CreateRepository(t, r)
      PROVE  Offers(t, page[t].importable)
  <2>1. ASSUME NEW n \in Repos \cup {I!Nil}, I!Show(t, [page[t] EXCEPT !.importing = n])
        PROVE  Offers(t, page[t].importable)
    <3>1. /\ [page[t] EXCEPT !.importing = n] \in Pages
          /\ [page[t] EXCEPT !.importing = n].importable = page[t].importable
      BY <1>1 DEF Pages
    <3> QED BY <2>1, <3>1, ShowTyped DEF Offers
  <2>2. ASSUME I!Show(t, [page[t] EXCEPT !.pc = "left"]) PROVE Offers(t, page[t].importable)
    BY <2>2, <1>2, ShowTyped DEF Offers
  <2> QED BY <1>6, <2>1, <2>2 DEF I!HandleImport, I!Fail, I!CreateRepository
<1> QED BY <1>3, <1>4, <1>5, <1>6

(* Where each import may go.                                               *)
LEMMA ImportStep ==
  ASSUME I!TypeOK, NEW t \in Tabs, NEW r \in Repos,
         \/ I!HandleImport(t, r) \/ I!CheckInstallation(t, r) \/ I!CountRepositories(t, r)
         \/ I!CreateRepository(t, r)
  PROVE  /\ connect' \in [Tabs -> [Repos -> {"idle", "check", "count", "create"}]]
         /\ \A u \in Tabs, q \in Repos : u # t \/ q # r => connect'[u][q] = connect[u][q]
         /\ connect[t][r] # "idle" \/ r \in page[t].importable
         /\ page' = page \/ Offers(t, page[t].importable)
         /\ rows' = rows \/ (I!CreateRepository(t, r) /\ rows' = rows \cup {Plain(r)})
<1>1. PICK pc \in {"idle", "check", "count", "create"} : connect' = [connect EXCEPT ![t][r] = pc]
  BY DEF I!HandleImport, I!CheckInstallation, I!CountRepositories, I!CreateRepository, I!Fail
<1>2. /\ connect' \in [Tabs -> [Repos -> {"idle", "check", "count", "create"}]]
      /\ \A u \in Tabs, q \in Repos : u # t \/ q # r => connect'[u][q] = connect[u][q]
  BY <1>1 DEF I!TypeOK
<1>3. connect[t][r] # "idle" \/ r \in page[t].importable
  BY DEF I!HandleImport, I!CheckInstallation, I!CountRepositories, I!CreateRepository
<1>4. page' = page \/ Offers(t, page[t].importable)
  BY PageStep DEF I!CheckInstallation, I!CountRepositories
<1>5. rows' = rows \/ (I!CreateRepository(t, r) /\ rows' = rows \cup {Plain(r)})
  BY DEF I!HandleImport, I!CheckInstallation, I!CountRepositories, I!CreateRepository, I!Fail, Plain
<1> QED BY <1>2, <1>3, <1>4, <1>5

LEMMA InstallationsStep == I!TypeOK /\ [I!Next]_I!vars => I!TypeOK'
<1> SUFFICES ASSUME I!TypeOK, [I!Next]_I!vars PROVE I!TypeOK'
  OBVIOUS
<1>1. ASSUME NEW i \in Ids,
             \/ I!Install(i) \/ I!Disable(i, "suspended") \/ I!Disable(i, "removed") \/ I!Unsuspend(i)
             \/ I!InstallationCallback(i) \/ I!HandleInstallationEvent(i)
             \/ I!TokenExpires(i) \/ I!GetInstallationToken(i) \/ I!GetPullRequestDiff(i)
      PROVE  I!TypeOK'
  <2>1. CASE I!Install(i) \/ I!Unsuspend(i)
    BY <2>1 DEF I!TypeOK, I!Install, I!Unsuspend
  <2>2. ASSUME NEW s \in {"suspended", "removed"}, I!Disable(i, s) PROVE I!TypeOK'
    BY <2>2 DEF I!TypeOK, I!Disable
  <2>3. CASE I!InstallationCallback(i)
    BY <2>3 DEF I!TypeOK, I!InstallationCallback
  <2>4. CASE I!HandleInstallationEvent(i)
    <3>1. PICK s \in hook[i] : hook' = [hook EXCEPT ![i] = @ \ {s}]
      BY <2>4 DEF I!HandleInstallationEvent
    <3>2. hook' \in [Ids -> SUBSET {"suspended", "removed"}]
      BY <3>1 DEF I!TypeOK
    <3> QED BY <2>4, <3>2 DEF I!TypeOK, I!HandleInstallationEvent, I!Revoked
  <2>5. CASE I!TokenExpires(i) \/ I!GetInstallationToken(i) \/ I!GetPullRequestDiff(i)
    BY <2>5 DEF I!TypeOK, I!TokenExpires, I!GetInstallationToken, I!GetPullRequestDiff, I!MintToken
  <2> QED BY <1>1, <2>1, <2>2, <2>3, <2>4, <2>5
<1>2. ASSUME NEW t \in Tabs, I!LoadInstallations(t) \/ I!ListAvailableRepos(t) \/ I!OpenPage(t)
      PROVE  I!TypeOK'
  <2>1. page' \in [Tabs -> Pages]
    BY <1>2, PageStep DEF Offers
  <2>2. cached' \in [Ids -> BOOLEAN]
    BY <1>2 DEF I!TypeOK, I!LoadInstallations, I!ListAvailableRepos, I!OpenPage, I!MintToken
  <2> QED
    BY <1>2, <2>1, <2>2 DEF I!TypeOK, Pages, I!LoadInstallations, I!ListAvailableRepos, I!OpenPage
<1>3. ASSUME NEW t \in Tabs, NEW r \in Repos,
             \/ I!HandleImport(t, r) \/ I!CheckInstallation(t, r) \/ I!CountRepositories(t, r)
             \/ I!CreateRepository(t, r)
      PROVE  I!TypeOK'
  <2>1. page' \in [Tabs -> Pages]
    BY <1>3, ImportStep DEF Offers, I!TypeOK, Pages
  <2>2. rows' \subseteq I!Urls
    <3>1. rows' = rows \/ rows' = rows \cup {Plain(r)}
      BY <1>3, ImportStep
    <3> QED BY <3>1, UrlForms DEF I!TypeOK
  <2>3. connect' \in [Tabs -> [Repos -> {"idle", "check", "count", "create"}]]
    BY <1>3, ImportStep
  <2>4. UNCHANGED <<app, callback, hook, row, late, cached>>
    BY <1>3 DEF I!HandleImport, I!CheckInstallation, I!CountRepositories, I!CreateRepository
  <2> QED BY <2>1, <2>2, <2>3, <2>4 DEF I!TypeOK, Pages
<1>4. ASSUME NEW url \in I!Urls, I!DeleteRepository(url) PROVE I!TypeOK'
  BY <1>4 DEF I!TypeOK, I!DeleteRepository
<1>5. CASE UNCHANGED I!vars
  BY <1>5 DEF I!TypeOK, I!vars
<1> QED BY <1>1, <1>2, <1>3, <1>4, <1>5 DEF I!Next

(* Every variable of Installations keeps its type.                         *)
THEOREM InstallationsTyped == I!Spec => []I!TypeOK
BY InstallationsStart, InstallationsStep, PTL DEF I!Spec

-----------------------------------------------------------------------------
LEMMA NextRowInv ==
  ASSUME RowInv, [I!Next]_I!vars
  PROVE  RowInv'
<1> USE DEF RowInv, I!ActiveIsInstalled
<1>1. I!TypeOK'
  BY InstallationsStep
<1>2. ASSUME NEW i \in Ids, I!Install(i) PROVE RowInv'
  BY <1>1, <1>2 DEF I!Install, I!TypeOK
<1>3. ASSUME NEW i \in Ids, NEW s \in {"suspended", "removed"}, I!Disable(i, s) PROVE RowInv'
  BY <1>1, <1>3 DEF I!Disable, I!TypeOK
<1>4. ASSUME NEW i \in Ids, I!Unsuspend(i) PROVE RowInv'
  BY <1>1, <1>4 DEF I!Unsuspend, I!TypeOK
<1>5. ASSUME NEW i \in Ids, I!InstallationCallback(i) PROVE RowInv'
  BY <1>1, <1>5 DEF I!InstallationCallback, I!TypeOK
<1>6. ASSUME NEW i \in Ids, I!HandleInstallationEvent(i) PROVE RowInv'
  BY <1>1, <1>6 DEF I!HandleInstallationEvent, I!Revoked, I!TypeOK
<1>7. CASE UNCHANGED <<app, hook, row, late>>
  BY <1>1, <1>7
<1> QED
  BY <1>2, <1>3, <1>4, <1>5, <1>6, <1>7
     DEF I!Next, I!vars, I!TokenExpires, I!GetInstallationToken, I!GetPullRequestDiff,
         I!LoadInstallations, I!ListAvailableRepos, I!OpenPage, I!HandleImport, I!CheckInstallation,
         I!CountRepositories, I!CreateRepository, I!DeleteRepository

(* Redirect, removal, suspension and their webhooks may come in any order, *)
(* for any number of installations: a row is active for an app GitHub no   *)
(* longer has only until its webhook is handled, or after a redirect that  *)
(* was handled when the app had already gone.                              *)
THEOREM NoActiveOrphan == I!Spec => []I!ActiveIsInstalled
<1>1. I!Init => RowInv
  BY InstallationsStart DEF I!Init, RowInv, I!ActiveIsInstalled
<1>2. RowInv /\ [I!Next]_I!vars => RowInv'
  BY NextRowInv
<1>3. RowInv => I!ActiveIsInstalled
  BY DEF RowInv
<1> QED BY <1>1, <1>2, <1>3, PTL DEF I!Spec

-----------------------------------------------------------------------------
LEMMA NextImportInv ==
  ASSUME ImportInv, [I!Next]_I!vars
  PROVE  ImportInv'
<1>1. I!TypeOK /\ I!TypeOK'
  BY InstallationsStep DEF ImportInv
<1>2. ASSUME NEW t \in Tabs, I!LoadInstallations(t) \/ I!ListAvailableRepos(t) \/ I!OpenPage(t)
      PROVE  ImportInv'
  <2>1. rows' = rows /\ connect' = connect
    BY <1>2 DEF I!LoadInstallations, I!ListAvailableRepos, I!OpenPage
  <2>2. ASSUME NEW r \in Repos, Legacy(r) \in rows PROVE r \notin page'[t].importable
    <3>1. I!Normalized(Legacy(r)) = <<r, "">>
      BY DEF I!Normalized, Legacy
    <3>2. <<r, "">> \in {I!Normalized(url) : url \in rows}
      BY <2>2, <3>1
    <3>3. r \notin page[t].importable
      BY <2>2 DEF ImportInv, LegacyIsConnected
    <3> QED BY <1>1, <1>2, <3>2, <3>3, PageStep DEF Offers
  <2>3. \A u \in Tabs \ {t} : page'[u] = page[u]
    BY <1>1, <1>2, PageStep DEF Offers
  <2> QED BY <1>1, <2>1, <2>2, <2>3 DEF ImportInv, LegacyIsConnected, I!OneRowPerRepository
<1>3. ASSUME NEW t \in Tabs, NEW r \in Repos,
             \/ I!HandleImport(t, r) \/ I!CheckInstallation(t, r) \/ I!CountRepositories(t, r)
             \/ I!CreateRepository(t, r)
      PROVE  ImportInv'
  <2>1. Legacy(r) \notin rows
    BY <1>1, <1>3, ImportStep DEF ImportInv, LegacyIsConnected
  <2>2. \A q \in Repos : Legacy(q) \in rows' => Legacy(q) \in rows /\ q # r
    <3>1. rows' = rows \/ rows' = rows \cup {Plain(r)}
      BY <1>1, <1>3, ImportStep
    <3> QED BY <2>1, <3>1, UrlForms
  <2>3. \A u \in Tabs : page'[u].importable = page[u].importable
    BY <1>1, <1>3, ImportStep DEF Offers
  <2>4. LegacyIsConnected'
    BY <1>1, <1>3, <2>2, <2>3, ImportStep DEF ImportInv, LegacyIsConnected
  <2>5. I!OneRowPerRepository'
    <3>1. \A url \in rows : url.repo = r => url = Plain(r)
      BY <1>1, <2>1, UrlForms DEF I!TypeOK
    <3>2. rows' = rows \/ rows' = rows \cup {Plain(r)}
      BY <1>1, <1>3, ImportStep
    <3> QED BY <3>1, <3>2, UrlForms DEF ImportInv, I!OneRowPerRepository
  <2> QED BY <1>1, <2>4, <2>5 DEF ImportInv
<1>4. ASSUME NEW url \in I!Urls, I!DeleteRepository(url) PROVE ImportInv'
  BY <1>1, <1>4 DEF I!DeleteRepository, ImportInv, LegacyIsConnected, I!OneRowPerRepository
<1>5. CASE UNCHANGED <<rows, page, connect>>
  BY <1>1, <1>5 DEF ImportInv, LegacyIsConnected, I!OneRowPerRepository
<1> QED
  BY <1>2, <1>3, <1>4, <1>5
     DEF I!Next, I!vars, I!Install, I!Disable, I!Unsuspend, I!InstallationCallback, I!HandleInstallationEvent,
         I!TokenExpires, I!GetInstallationToken, I!GetPullRequestDiff

(* A list loaded long ago, several tabs and rows of the old URL form do    *)
(* not import a repository twice.                                          *)
THEOREM ImportedOnce == I!Spec => []I!OneRowPerRepository
<1>1. I!Init => ImportInv
  BY InstallationsStart DEF I!Init, ImportInv, LegacyIsConnected, I!OneRowPerRepository, I!BlankPage, Legacy
<1>2. ImportInv /\ [I!Next]_I!vars => ImportInv'
  BY NextImportInv
<1>3. ImportInv => I!OneRowPerRepository
  BY DEF ImportInv
<1> QED BY <1>1, <1>2, <1>3, PTL DEF I!Spec

-----------------------------------------------------------------------------
(* The sessions again, with the theorems about them. An operator of an     *)
(* instance is opaque, so the lemma SameSessions shows that the formulas   *)
(* of the two instances are the same.                                      *)
SP == INSTANCE SessionsProofs WITH Tabs <- SessionTabs, Faults <- LostAnswers

LEMMA SameSessions ==
  (S!Init <=> SP!Init) /\ (S!Next <=> SP!Next) /\ S!vars = SP!vars
BY DEF
  S!Init, S!Next, S!vars, S!Nil, S!NoTab, S!Tokens, S!Callers, S!Silent,
  S!Idle, S!OpenPage, S!StartGithubLogin, S!StateExpires, S!InvalidState,
  S!GithubCallback, S!Expire, S!Logout, S!LogoutAnswered, S!DeleteMe,
  S!LookUp, S!RevokeOld, S!CreateSession, S!Refreshed, S!RefreshFailed,
  S!Fetch, S!Answered, S!RefusedFirst, S!RefusedAgain, S!Mount, S!Load,
  S!server, S!InFlight, S!Revoked, S!browser, S!Rotated, S!Waiters,
  S!LoggedOut, S!Shell, S!Accepted, S!Refused, S!Await, S!Joined,
  SP!Init, SP!Next, SP!vars, SP!Nil, SP!NoTab, SP!Tokens, SP!Callers,
  SP!Silent, SP!Idle, SP!OpenPage, SP!StartGithubLogin, SP!StateExpires,
  SP!InvalidState, SP!GithubCallback, SP!Expire, SP!Logout,
  SP!LogoutAnswered, SP!DeleteMe, SP!LookUp, SP!RevokeOld, SP!CreateSession,
  SP!Refreshed, SP!RefreshFailed, SP!Fetch, SP!Answered, SP!RefusedFirst,
  SP!RefusedAgain, SP!Mount, SP!Load, SP!server, SP!InFlight, SP!Revoked,
  SP!browser, SP!Rotated, SP!Waiters, SP!LoggedOut, SP!Shell, SP!Accepted,
  SP!Refused, SP!Await, SP!Joined

-----------------------------------------------------------------------------
(* A behaviour of the platform is one of each component: those other than  *)
(* the one of turn rest.                                                   *)
LEMMA Components == PlatformSpec => W!Spec /\ I!Spec /\ SP!Spec /\ Spec
<1>1. PlatformInit => W!Init /\ I!Init /\ SP!Init /\ Init
  BY SameSessions DEF PlatformInit
<1>2. [PlatformNext]_<<turn, webhooks, installations, sessions, reviews>>
        => [W!Next]_(W!vars) /\ [I!Next]_(I!vars) /\ [SP!Next]_(SP!vars) /\ [Next]_vars
  <2>1. [PlatformNext]_<<turn, webhooks, installations, sessions, reviews>>
          => [W!Next]_(W!vars) /\ [I!Next]_(I!vars) /\ [S!Next]_(S!vars) /\ [Next]_vars
    BY DEF PlatformNext, webhooks, installations, sessions, reviews, W!vars, I!vars, S!vars
  <2> QED
    BY <2>1, SameSessions
    DEF W!vars, I!vars, S!vars, SP!vars
<1> QED BY <1>1, <1>2, PTL DEF PlatformSpec, W!Spec, I!Spec, SP!Spec, Spec

-----------------------------------------------------------------------------
(* Every variable of every component keeps its type, whatever fails.       *)
THEOREM PlatformTyped == ASSUME MaxTokens \in Nat PROVE PlatformSpec => []PlatformTypeOK
<1>1. SP!TypeOK => S!TypeOK
  BY DEF S!TypeOK, S!Tokens, S!Nil, S!NoTab, S!Callers, S!Mount,
      SP!TypeOK, SP!Tokens, SP!Nil, SP!NoTab, SP!Callers, SP!Mount
<1>2. SP!Spec => []SP!TypeOK
  BY SP!SessionsTyped
<1> QED
  BY <1>1, <1>2, Components, IntakeTyped, InstallationsTyped, ReviewsTyped, PTL DEF PlatformTypeOK

(* However deliveries are repeated, overlap, fail and die, a delivery is   *)
(* handled by one request at a time and enqueues its job at most once,     *)
(* beside the jobs of enqueues that threw when Redis had taken them.       *)
THEOREM DeliveriesAtMostOnce == PlatformSpec => ImplementsAtMostOnce
BY Components, AtMostOneJob, PTL DEF ImplementsAtMostOnce

(* A claim that no crash or failed release left behind is of an event that *)
(* was processed or is being handled.                                      *)
THEOREM ClaimsAreDone == PlatformSpec => []ClaimMeansDone
BY Components, NoEventDedupedUnhandled, PTL DEF ClaimMeansDone

(* The head a pull request shows has its review enqueued, about to be, or  *)
(* left to a delivery that can be sent again or was lost.                  *)
THEOREM HeadsAreReviewed == PlatformSpec => []UpsertedIsReviewed
BY Components, ShownHeadIsReviewed, PTL DEF UpsertedIsReviewed

(* In every order of redirects, removals and webhooks, no installation row *)
(* outlives its app, unless a webhook of the removal is still to be        *)
(* handled, or the redirect was handled when the app had already gone.     *)
THEOREM ActiveRowsHaveApp == PlatformSpec => []ActiveIsInstalled
BY Components, NoActiveOrphan, PTL DEF ActiveIsInstalled

(* Imported from any number of tabs, a repository has one row.             *)
THEOREM RepositoriesImportedOnce == PlatformSpec => []OneRowPerRepository
BY Components, ImportedOnce, PTL DEF OneRowPerRepository

(* In a browser with one tab a refresh token is exchanged at most once.    *)
THEOREM TokensExchangedOnce ==
  ASSUME MaxTokens \in Nat, \A t, u \in SessionTabs : t = u
  PROVE  PlatformSpec => []SingleUse
<1>1. SP!SingleUse => SingleUse
  BY DEF SingleUse, S!SingleUse, S!Tokens,
      SP!SingleUse, SP!Tokens
<1>2. SP!Spec => []SP!SingleUse
  BY SP!OneTabRotatesOnce
<1> QED BY <1>1, <1>2, Components, PTL

(* Whatever the number of tabs, the protected pages have an access token.  *)
THEOREM OpenPagesHaveToken == ASSUME MaxTokens \in Nat PROVE PlatformSpec => []ShellHasToken
<1>1. SP!ShellHasToken => ShellHasToken
  BY DEF ShellHasToken, S!ShellHasToken,
      SP!ShellHasToken
<1>2. SP!Spec => []SP!ShellHasToken
  BY SP!PagesHaveToken
<1> QED BY <1>1, <1>2, Components, PTL

(* In a browser with one tab a call is given up as unauthorized only when  *)
(* the cookie is gone or its session is over.                              *)
THEOREM GivenUpWhenOver ==
  ASSUME MaxTokens \in Nat, \A t, u \in SessionTabs : t = u
  PROVE  PlatformSpec => UnauthorizedMeansOver
<1>1. SP!UnauthorizedMeansOver => UnauthorizedMeansOver
  BY SameSessions
  DEF UnauthorizedMeansOver, S!UnauthorizedMeansOver, SP!UnauthorizedMeansOver, S!vars, SP!vars
<1>2. SP!Spec => SP!UnauthorizedMeansOver
  BY SP!OneTabGivesUpLast
<1> QED BY <1>1, <1>2, Components, PTL
=============================================================================
