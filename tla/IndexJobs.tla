------------------------------ MODULE IndexJobs ------------------------------
(***************************************************************************)
(* The life of an indexing job: the backend accepts a job by moving        *)
(* repositories.status to PENDING and creating the index_jobs row in one   *)
(* transaction, enqueues it in Redis (BullMQ) outside that transaction,    *)
(* and a Python worker walks the status through CLONING .. INDEXED, with   *)
(* BullMQ retrying a failed attempt and the last attempt writing FAILED.   *)
(*                                                                         *)
(* repositories.status doubles as the lock that keeps a repository from    *)
(* being indexed twice at once; the module is about whether it is one.     *)
(***************************************************************************)
EXTENDS Naturals

CONSTANTS
  Repos,        (* repositories.id values                                  *)
  Jobs,         (* index_jobs.id values, each also the BullMQ job id       *)
  Workers,      (* worker slots: one job at a time each                    *)
  Requests,     (* backend requests in flight (HTTP or webhook)            *)
  None,         (* "no repository / job / worker"                          *)
  MaxAttempts,  (* BullMQ attempts per job: 3 in the producer              *)
  MaxStalls,    (* BullMQ maxStalledCount                                  *)
  MaxCommits,   (* bound on the commits pushed to one repository           *)
  Faults        (* the failures the environment may inject                 *)

(* Failures a run may switch on; the second group strikes after a job has  *)
(* already given the status lock back.                                     *)
EarlyFaults == {"stage", "mark", "workerCrash", "enqueue", "backendCrash"}
LateFaults  == {"usageLog", "lateCrash", "lockLoss", "enqueueAmbiguous"}

ASSUME NoneAssumption == None \notin Repos \cup Jobs \cup Workers
ASSUME BoundAssumption ==
  /\ MaxAttempts \in Nat \ {0}
  /\ MaxStalls \in Nat
  /\ MaxCommits \in Nat \ {0}
ASSUME FaultsAssumption == Faults \subseteq EarlyFaults \cup LateFaults

VARIABLES
  status,   (* repositories.status, or "unborn" / "deleted" without a row  *)
  indexed,  (* repositories.current_commit_sha; 0 is NULL                  *)
  head,     (* the newest commit of the default branch on GitHub           *)
  notices,  (* push webhooks not yet read by the backend                   *)
  request,  (* what each backend request is doing                          *)
  job,      (* the index_jobs row and its BullMQ job                       *)
  worker    (* what each worker slot is doing                              *)

vars == <<status, indexed, head, notices, request, job, worker>>

NonTerminal == {"PENDING", "CLONING", "PARSING", "CHUNKING", "EMBEDDING", "STORING"}
Terminal    == {"INDEXED", "FAILED"}
NoRow       == {"unborn", "deleted"}
RowStates   == NonTerminal \cup Terminal \cup NoRow

Exists(r) == status[r] \notin NoRow

RequestPcs == {"idle", "read", "enqueue", "connectEnqueue", "compensate"}
JobStates  == {"unused", "accepted", "waiting", "active", "delayed",
               "completed", "failed", "lost"}
LatePcs    == {"logging", "done", "marked"}
StagePcs   == {"start", "CLONING", "PARSING", "EMBEDDING", "STORING"}
WorkerPcs  == {"idle", "raised", "failed"} \cup StagePcs \cup LatePcs

RequestRecords == [pc: RequestPcs, repo: Repos \cup {None}, seen: Terminal \cup {"none"},
                   type: {"FULL", "INCREMENTAL"}, job: Jobs \cup {None}]
JobRecords     == [state: JobStates, repo: Repos \cup {None},
                   type: {"FULL", "INCREMENTAL"}, made: Nat, stalls: Nat,
                   holder: Workers \cup {None}]
WorkerRecords  == [pc: WorkerPcs, job: Jobs \cup {None}, sha: Nat]

(* Every variable has its type.                                            *)
TypeOK ==
  /\ status \in [Repos -> RowStates]
  /\ indexed \in [Repos -> Nat]
  /\ head \in [Repos -> Nat]
  /\ notices \in [Repos -> Nat]
  /\ request \in [Requests -> RequestRecords]
  /\ job \in [Jobs -> JobRecords]
  /\ worker \in [Workers -> WorkerRecords]

Idle == [pc |-> "idle", repo |-> None, seen |-> "none", type |-> "FULL", job |-> None]
Free == [pc |-> "idle", job |-> None, sha |-> 0]

Init ==
  /\ status = [r \in Repos |-> "unborn"]
  /\ indexed = [r \in Repos |-> 0]
  /\ head = [r \in Repos |-> 1]
  /\ notices = [r \in Repos |-> 0]
  /\ request = [q \in Requests |-> Idle]
  /\ job = [j \in Jobs |-> [state |-> "unused", repo |-> None, type |-> "FULL",
                            made |-> 0, stalls |-> 0, holder |-> None]]
  /\ worker = [w \in Workers |-> Free]

-----------------------------------------------------------------------------
(* The backend.                                                            *)

NewJob_Queued(r, type) == [state |-> "queued", repo |-> r, type |-> type,
                           made |-> 0, stalls |-> 0, holder |-> None]
NewJob(r, type) == [state |-> "accepted", repo |-> r, type |-> type,
                    made |-> 0, stalls |-> 0, holder |-> None]

(* connectRepository: the repository row (status defaults to PENDING) and  *)
(* its first FULL job are created in one transaction.                      *)
ConnectRepository(q, r, j) ==
  /\ request[q].pc = "idle"
  /\ status[r] = "unborn"
  /\ job[j].state = "unused"
  /\ status' = [status EXCEPT ![r] = "PENDING"]
  /\ job' = [job EXCEPT ![j] = NewJob(r, "FULL")]
  /\ request' = [request EXCEPT ![q] =
       [pc |-> "connectEnqueue", repo |-> r, seen |-> "none", type |-> "FULL", job |-> j]]
  /\ UNCHANGED <<indexed, head, notices, worker>>

(* The row is read before the transaction that acts on it; a status seen   *)
(* as non-terminal ends the request (409 ALREADY_INDEXING).                *)
ReadStatus(q, r, type) ==
  /\ request[q].pc = "idle"
  /\ status[r] \in Terminal
  /\ request' = [request EXCEPT ![q] =
       [pc |-> "read", repo |-> r, seen |-> status[r], type |-> type, job |-> None]]

(* triggerFullIndex, up to the check of createAndEnqueueIndexJob.          *)
TriggerFullIndex(q, r) ==
  /\ ReadStatus(q, r, "FULL")
  /\ UNCHANGED <<status, indexed, head, notices, job, worker>>

(* A push on GitHub: a new head and a webhook on its way.                  *)
PushCommit(r) ==
  /\ head[r] < MaxCommits
  /\ head' = [head EXCEPT ![r] = @ + 1]
  /\ notices' = [notices EXCEPT ![r] = @ + 1]
  /\ UNCHANGED <<status, indexed, request, job, worker>>

(* handlePushEvent: ALREADY_INDEXING is swallowed, so the push is dropped. *)
HandlePushEvent(q, r) ==
  /\ request[q].pc = "idle"
  /\ notices[r] > 0
  /\ notices' = [notices EXCEPT ![r] = @ - 1]
  /\ \/ ReadStatus(q, r, "INCREMENTAL")
     \/ status[r] \notin Terminal /\ UNCHANGED request
  /\ UNCHANGED <<status, indexed, head, job, worker>>

(* updateMany ... where status = currentStatus: the compare of the CAS.    *)
StatusStillSeen_Dropped(q) == Exists(request[q].repo)
StatusStillSeen(q) == status[request[q].repo] = request[q].seen

(* The transaction of createAndEnqueueIndexJob.                            *)
AcceptIndexJob(q, j) ==
  /\ request[q].pc = "read"
  /\ job[j].state = "unused"
  /\ StatusStillSeen(q)
  /\ status' = [status EXCEPT ![request[q].repo] = "PENDING"]
  /\ job' = [job EXCEPT ![j] = NewJob(request[q].repo, request[q].type)]
  /\ request' = [request EXCEPT ![q].pc = "enqueue", ![q].job = j]
  /\ UNCHANGED <<indexed, head, notices, worker>>

(* ... and its count === 0 branch.                                         *)
RejectIndexJob(q) ==
  /\ request[q].pc = "read"
  /\ ~StatusStillSeen(q)
  /\ request' = [request EXCEPT ![q] = Idle]
  /\ UNCHANGED <<status, indexed, head, notices, job, worker>>

(* The Redis call after the transaction.                                   *)
EnqueueIndexJob(q) ==
  /\ request[q].pc \in {"enqueue", "connectEnqueue"}
  /\ job' = [job EXCEPT ![request[q].job].state = "waiting"]
  /\ request' = [request EXCEPT ![q] = Idle]
  /\ UNCHANGED <<status, indexed, head, notices, worker>>

(* Only connectRepository catches the error of a failed enqueue.           *)
AfterEnqueueError(q) ==
  \/ /\ request[q].pc = "connectEnqueue"
     /\ request' = [request EXCEPT ![q].pc = "compensate"]
  \/ /\ request[q].pc = "enqueue"
     /\ request' = [request EXCEPT ![q] = Idle]

(* The Redis call throws. With an ambiguous failure (a timeout after the   *)
(* command was applied) the job is in the queue all the same.              *)
EnqueueFails(q) ==
  /\ request[q].pc \in {"enqueue", "connectEnqueue"}
  /\ \/ /\ "enqueue" \in Faults
        /\ job' = [job EXCEPT ![request[q].job].state = "lost"]
     \/ /\ "enqueueAmbiguous" \in Faults
        /\ job' = [job EXCEPT ![request[q].job].state = "waiting"]
  /\ AfterEnqueueError(q)
  /\ UNCHANGED <<status, indexed, head, notices, worker>>

(* The catch of connectRepository: both rows become FAILED, or the write   *)
(* fails too (always so when the repository was deleted meanwhile).        *)
MarkConnectFailed(q) ==
  /\ request[q].pc = "compensate"
  /\ \/ /\ Exists(request[q].repo)
        /\ status' = [status EXCEPT ![request[q].repo] = "FAILED"]
     \/ /\ "mark" \in Faults \/ ~Exists(request[q].repo)
        /\ UNCHANGED status
  /\ request' = [request EXCEPT ![q] = Idle]
  /\ UNCHANGED <<indexed, head, notices, job, worker>>

(* The backend process dies under a request.                               *)
BackendCrash(q) ==
  /\ "backendCrash" \in Faults
  /\ request[q].pc # "idle"
  /\ \/ /\ request[q].pc \in {"enqueue", "connectEnqueue"}
        /\ job' = [job EXCEPT ![request[q].job].state = "lost"]
     \/ /\ request[q].pc \in {"read", "compensate"}
        /\ UNCHANGED job
  /\ request' = [request EXCEPT ![q] = Idle]
  /\ UNCHANGED <<status, indexed, head, notices, worker>>

(* deleteRepository: no status check, nothing is removed from the queue.   *)
DeleteRepository(r) ==
  /\ Exists(r)
  /\ status' = [status EXCEPT ![r] = "deleted"]
  /\ UNCHANGED <<indexed, head, notices, request, job, worker>>

-----------------------------------------------------------------------------
(* BullMQ.                                                                 *)

Runs(w, j) == worker[w].pc # "idle" /\ worker[w].job = j

(* The worker slot w still owns the lock of the job it is running.         *)
Locks(w) == job[worker[w].job].state = "active" /\ job[worker[w].job].holder = w

TakeJob(w, j) ==
  /\ worker[w].pc = "idle"
  /\ job[j].state = "waiting"
  /\ job' = [job EXCEPT ![j].state = "active", ![j].holder = w]
  /\ worker' = [worker EXCEPT ![w] = [pc |-> "start", job |-> j, sha |-> 0]]
  /\ UNCHANGED <<status, indexed, head, notices, request>>

(* The backoff of a failed attempt ends.                                   *)
PromoteDelayed(j) ==
  /\ job[j].state = "delayed"
  /\ job' = [job EXCEPT ![j].state = "waiting"]
  /\ UNCHANGED <<status, indexed, head, notices, request, worker>>

Orphaned(j) == \A w \in Workers : job[j].holder = w => ~Runs(w, j)

RequeueStalled_NoLimit(j) ==
  /\ job[j].state = "active"
  /\ Orphaned(j)
  /\ job' = [job EXCEPT ![j].state = "waiting", ![j].holder = None]
  /\ UNCHANGED <<status, indexed, head, notices, request, worker>>

(* The lock of an active job ran out, because its worker died or could not *)
(* renew it: the job is requeued, or failed without running the handler.   *)
RequeueStalled(j) ==
  /\ job[j].state = "active"
  /\ Orphaned(j) \/ "lockLoss" \in Faults
  /\ \E outcome \in {"waiting", "failed"} :
       /\ outcome = "failed" <=> job[j].stalls + 1 > MaxStalls
       /\ job' = [job EXCEPT ![j].state = outcome, ![j].stalls = @ + 1, ![j].holder = None]
  /\ UNCHANGED <<status, indexed, head, notices, request, worker>>

-----------------------------------------------------------------------------
(* The worker: one action per transaction of run_full_index and            *)
(* run_incremental_index, which step through the same statuses.            *)

RepoOf(w) == job[worker[w].job].repo

(* UPDATE repositories ... WHERE id = :id: no row, no effect.              *)
WriteStatus_Upsert(r, s) == status' = [status EXCEPT ![r] = s]
WriteStatus(r, s) ==
  \/ Exists(r) /\ status' = [status EXCEPT ![r] = s]
  \/ ~Exists(r) /\ UNCHANGED status

Goto(w, pc) == worker' = [worker EXCEPT ![w].pc = pc]

(* run_incremental_index reads the row first and raises without one.       *)
BeginIndex(w) ==
  /\ worker[w].pc = "start"
  /\ Exists(RepoOf(w)) \/ job[worker[w].job].type = "FULL"
  /\ WriteStatus(RepoOf(w), "CLONING")
  /\ Goto(w, "CLONING")
  /\ UNCHANGED <<indexed, head, notices, request, job>>

CloneRepository_Cached(w) ==
  /\ worker[w].pc = "CLONING"
  /\ Exists(RepoOf(w))
  /\ status' = [status EXCEPT ![RepoOf(w)] = "PARSING"]
  /\ \E c \in 1..head[RepoOf(w)] :
       worker' = [worker EXCEPT ![w].pc = "PARSING", ![w].sha = c]
  /\ UNCHANGED <<indexed, head, notices, request, job>>

(* Token (404 without a repository), shallow clone of the head.            *)
CloneRepository(w) ==
  /\ worker[w].pc = "CLONING"
  /\ Exists(RepoOf(w))
  /\ status' = [status EXCEPT ![RepoOf(w)] = "PARSING"]
  /\ worker' = [worker EXCEPT ![w].pc = "PARSING", ![w].sha = head[RepoOf(w)]]
  /\ UNCHANGED <<indexed, head, notices, request, job>>

(* The walk over the files; CHUNKING is never written.                     *)
ParseFiles(w) ==
  /\ worker[w].pc = "PARSING"
  /\ WriteStatus(RepoOf(w), "EMBEDDING")
  /\ Goto(w, "EMBEDDING")
  /\ UNCHANGED <<indexed, head, notices, request, job>>

EmbedChunks(w) ==
  /\ worker[w].pc = "EMBEDDING"
  /\ WriteStatus(RepoOf(w), "STORING")
  /\ Goto(w, "STORING")
  /\ UNCHANGED <<indexed, head, notices, request, job>>

(* The transaction that stores the chunks and marks the row INDEXED.       *)
StoreIndex(w) ==
  /\ worker[w].pc = "STORING"
  /\ WriteStatus(RepoOf(w), "INDEXED")
  /\ \/ Exists(RepoOf(w)) /\ indexed' = [indexed EXCEPT ![RepoOf(w)] = worker[w].sha]
     \/ ~Exists(RepoOf(w)) /\ UNCHANGED indexed
  /\ Goto(w, "logging")
  /\ UNCHANGED <<head, notices, request, job>>

(* A transaction of its own, after INDEXED is visible.                     *)
WriteIndexingUsageLog(w) ==
  /\ worker[w].pc = "logging"
  /\ Exists(RepoOf(w))
  /\ Goto(w, "done")
  /\ UNCHANGED <<status, indexed, head, notices, request, job>>

(* Any statement of the pipeline raises; without a repository row some     *)
(* statement is bound to.                                                  *)
PipelineRaises(w) ==
  /\ \/ worker[w].pc \in StagePcs /\ ("stage" \in Faults \/ ~Exists(RepoOf(w)))
     \/ worker[w].pc = "logging" /\ ("usageLog" \in Faults \/ ~Exists(RepoOf(w)))
  /\ Goto(w, "raised")
  /\ UNCHANGED <<status, indexed, head, notices, request, job>>

(* _resolve_attempt_state: attemptsMade counts completed attempts only.    *)
IsFinalAttempt_Early(j) == job[j].made + 2 >= MaxAttempts
IsFinalAttempt(j) == job[j].made + 1 >= MaxAttempts

HandleJobFailure_Swallowed(w) ==
  /\ worker[w].pc = "raised"
  /\ \/ /\ IsFinalAttempt(worker[w].job)
        /\ Exists(RepoOf(w))
        /\ status' = [status EXCEPT ![RepoOf(w)] = "FAILED"]
        /\ Goto(w, "marked")
     \/ /\ ~IsFinalAttempt(worker[w].job) \/ ~Exists(RepoOf(w))
        /\ Goto(w, "done")
        /\ UNCHANGED status
  /\ UNCHANGED <<indexed, head, notices, request, job>>

(* process_job's except branch: FAILED is written on the last attempt      *)
(* only. A failure of that write is logged and the first one re-raised.    *)
HandleJobFailure(w) ==
  /\ worker[w].pc = "raised"
  /\ \/ /\ IsFinalAttempt(worker[w].job)
        /\ Exists(RepoOf(w))
        /\ status' = [status EXCEPT ![RepoOf(w)] = "FAILED"]
        /\ Goto(w, "marked")
     \/ /\ \/ ~IsFinalAttempt(worker[w].job)
           \/ "mark" \in Faults \/ ~Exists(RepoOf(w))
        /\ Goto(w, "failed")
        /\ UNCHANGED status
  /\ UNCHANGED <<indexed, head, notices, request, job>>

(* The handler returned: BullMQ completes the job, if it is still locked.  *)
AckCompleted(w) ==
  /\ worker[w].pc = "done"
  /\ \/ /\ Locks(w)
        /\ job' = [job EXCEPT ![worker[w].job].state = "completed",
                              ![worker[w].job].holder = None]
     \/ ~Locks(w) /\ UNCHANGED job
  /\ worker' = [worker EXCEPT ![w] = Free]
  /\ UNCHANGED <<status, indexed, head, notices, request>>

AckFailed_NotCounted(w) ==
  /\ worker[w].pc \in {"failed", "marked"}
  /\ \/ /\ Locks(w)
        /\ job' = [job EXCEPT ![worker[w].job].state = "delayed",
                              ![worker[w].job].holder = None]
     \/ ~Locks(w) /\ UNCHANGED job
  /\ worker' = [worker EXCEPT ![w] = Free]
  /\ UNCHANGED <<status, indexed, head, notices, request>>

(* The handler raised: BullMQ counts the attempt and retries or fails it.  *)
AckFailed(w) ==
  /\ worker[w].pc \in {"failed", "marked"}
  /\ \/ /\ Locks(w)
        /\ \E outcome \in {"delayed", "failed"} :
             /\ outcome = "delayed" <=> job[worker[w].job].made + 1 < MaxAttempts
             /\ job' = [job EXCEPT ![worker[w].job].state = outcome,
                                   ![worker[w].job].made = @ + 1,
                                   ![worker[w].job].holder = None]
     \/ ~Locks(w) /\ UNCHANGED job
  /\ worker' = [worker EXCEPT ![w] = Free]
  /\ UNCHANGED <<status, indexed, head, notices, request>>

(* The worker process dies; the job stays active until its lock runs out.  *)
WorkerCrash(w) ==
  /\ worker[w].pc # "idle"
  /\ \/ worker[w].pc \in LatePcs /\ "lateCrash" \in Faults
     \/ worker[w].pc \notin LatePcs /\ "workerCrash" \in Faults
  /\ worker' = [worker EXCEPT ![w] = Free]
  /\ UNCHANGED <<status, indexed, head, notices, request, job>>

-----------------------------------------------------------------------------
RequestStep(q) ==
  \/ \E j \in Jobs : AcceptIndexJob(q, j)
  \/ RejectIndexJob(q)
  \/ EnqueueIndexJob(q)
  \/ EnqueueFails(q)
  \/ MarkConnectFailed(q)

WorkerStep(w) ==
  \/ BeginIndex(w) \/ CloneRepository(w) \/ ParseFiles(w) \/ EmbedChunks(w)
  \/ StoreIndex(w) \/ WriteIndexingUsageLog(w) \/ PipelineRaises(w)
  \/ HandleJobFailure(w) \/ AckCompleted(w) \/ AckFailed(w)

Environment ==
  \/ \E q \in Requests, r \in Repos, j \in Jobs : ConnectRepository(q, r, j)
  \/ \E q \in Requests, r \in Repos : TriggerFullIndex(q, r) \/ HandlePushEvent(q, r)
  \/ \E r \in Repos : PushCommit(r) \/ DeleteRepository(r)
  \/ \E q \in Requests : BackendCrash(q)
  \/ \E w \in Workers : WorkerCrash(w)

Next ==
  \/ Environment
  \/ \E q \in Requests : RequestStep(q)
  \/ \E w \in Workers : WorkerStep(w)
  \/ \E w \in Workers, j \in Jobs : TakeJob(w, j)
  \/ \E j \in Jobs : PromoteDelayed(j) \/ RequeueStalled(j)

Spec == Init /\ [][Next]_vars

(* A request runs to its end, a worker to the end of its job, BullMQ hands *)
(* a waiting job to a free worker, ends a backoff and finds a lost lock.   *)
(* Users, pushes and crashes owe nothing.                                  *)
Fairness ==
  /\ \A q \in Requests : WF_vars(RequestStep(q))
  /\ \A w \in Workers : WF_vars(WorkerStep(w))
  /\ \A j \in Jobs : /\ SF_vars(\E w \in Workers : TakeJob(w, j))
                     /\ WF_vars(PromoteDelayed(j))
                     /\ WF_vars(Orphaned(j) /\ RequeueStalled(j))

FairSpec == Spec /\ Fairness

-----------------------------------------------------------------------------
(* Properties.                                                             *)

(* The worker of an active job has given the status lock back: it wrote    *)
(* INDEXED or FAILED and has only the usage log or the acknowledgement left*)
Settled(j) == \E w \in Workers : Runs(w, j) /\ Locks(w) /\ worker[w].pc \in LatePcs

(* An accepted job that may still write the repository.                    *)
Live(j) ==
  \/ job[j].state \in {"accepted", "waiting", "delayed"}
  \/ job[j].state = "active" /\ ~Settled(j)

(* createAndEnqueueIndexJob and the webhook may race with each other, with *)
(* the worker and with retries, and still a repository never has two jobs  *)
(* that will both write it ("rejects a second concurrent trigger").        *)
SingleLiveJob ==
  \A i, j \in Jobs :
    Live(i) /\ Live(j) /\ job[i].repo = job[j].repo /\ Exists(job[i].repo) => i = j

(* While a job may still run, its repository is shown as being indexed, so *)
(* no trigger is accepted and no subscriber stops listening: a terminal    *)
(* status is never shown before the last retry (queue_consumer.py 31-37).  *)
LiveMeansBusy ==
  \A j \in Jobs :
    Live(j) /\ Exists(job[j].repo) => status[job[j].repo] \in NonTerminal

(* A repository shown as being indexed has a job that will end that, or a  *)
(* connect request about to: it is never stuck (docs/indexing.md, Failure  *)
(* handling: "never a job stuck in EMBEDDING forever").                    *)
BusyHasJob ==
  \A r \in Repos : status[r] \in NonTerminal =>
    \/ \E j \in Jobs : job[j].repo = r /\ Live(j)
    \/ \E q \in Requests : request[q].repo = r /\ request[q].pc = "compensate"

(* A worker that outlives its repository never brings the row back.        *)
DeletedStaysDeleted ==
  [][\A r \in Repos : status[r] = "deleted" => status'[r] = "deleted"]_vars

(* Every repository being indexed gets to INDEXED or FAILED (or deleted).  *)
RepositorySettles ==
  \A r \in Repos : status[r] \in NonTerminal ~> status[r] \notin NonTerminal

(* Every job that reached the queue leaves it, whatever fails around it:   *)
(* retries, stalls and deleted repositories included.                      *)
JobSettles ==
  \A j \in Jobs : job[j].state = "waiting" ~> job[j].state \in {"completed", "failed"}

-----------------------------------------------------------------------------
(* What the detailed behaviour promises: see IndexingService.              *)
Phase(s) == CASE s \in NonTerminal -> "busy"
              [] s = "INDEXED" -> "indexed"
              [] s = "FAILED" -> "failed"
              [] OTHER -> s

Service == INSTANCE IndexingService WITH
  Commits  <- 1..MaxCommits,
  phase    <- [r \in Repos |-> Phase(status[r])],
  commit   <- indexed,
  accepted <- [r \in Repos |-> {j \in Jobs : job[j].state # "unused" /\ job[j].repo = r}]

(* Every acceptance is followed by at most one settlement, before the      *)
(* next, and the indexed commit never goes back, under every early fault.  *)
ImplementsService == Service!Spec
=============================================================================
