--------------------------- MODULE IndexJobsProofs ---------------------------
(* Machine-checked facts about IndexJobs, for any set of repositories,      *)
(* jobs, workers and requests and any number of attempts: types and         *)
(* references, deleted rows, and that a busy repository is never stuck; and *)
(* as long as no fault strikes after a job has given the lock back that the *)
(* status is, why a repository never has two live jobs, and why indexing    *)
(* then is the service IndexingService describes.                           *)
EXTENDS MCSettling, TLAPS

(* Types, and the references between rows, jobs, requests and workers that  *)
(* make every function application meaningful. It survives every fault.     *)
WorkersHaveJob ==
  \A w \in Workers : worker[w].pc # "idle" =>
    worker[w].job \in Jobs /\ job[worker[w].job].state # "unused"

JobsHaveRepo ==
  \A j \in Jobs : job[j].state # "unused" => job[j].repo \in Repos

RequestsHaveRepo ==
  \A q \in Requests : request[q].pc # "idle" => request[q].repo \in Repos

RequestsHaveJob ==
  \A q \in Requests :
    /\ request[q].pc = "read" => request[q].seen \in Terminal
    /\ request[q].pc \in {"enqueue", "connectEnqueue"} =>
         request[q].job \in Jobs /\ job[request[q].job].state # "unused"

WellFormed ==
  /\ TypeOK
  /\ WorkersHaveJob /\ JobsHaveRepo /\ RequestsHaveRepo /\ RequestsHaveJob

(* The words of the model and the sets they belong to, so that the proofs   *)
(* below can leave those sets unexpanded.                                   *)
LEMMA Words ==
  /\ {"PENDING", "CLONING", "PARSING", "EMBEDDING", "STORING"} \subseteq NonTerminal
  /\ NonTerminal \cup Terminal \cup NoRow = RowStates
  /\ "INDEXED" \in Terminal /\ "FAILED" \in Terminal /\ "none" \notin Terminal
  /\ "deleted" \in NoRow /\ "unborn" \in NoRow
  /\ NonTerminal \cap Terminal = {} /\ NonTerminal \cap NoRow = {}
  /\ Terminal \cap NoRow = {}
  /\ RequestPcs = {"idle", "read", "enqueue", "connectEnqueue", "compensate"}
  /\ {"idle", "raised", "failed", "start", "CLONING", "PARSING", "EMBEDDING",
      "STORING", "logging", "done", "marked"} \subseteq WorkerPcs
  /\ {"unused", "accepted", "waiting", "active", "delayed", "completed",
      "failed", "lost"} \subseteq JobStates
  BY DEF NonTerminal, Terminal, NoRow, RowStates, RequestPcs, WorkerPcs, StagePcs,
         LatePcs, JobStates

(* One job changes, and keeps its repository.                              *)
SetJob(j, row) == job' = [job EXCEPT ![j] = row]

LEMMA JobMoves ==
  ASSUME WellFormed, NEW j \in Jobs, job[j].state # "unused", NEW row \in JobRecords,
         row.state # "unused", row.repo = job[j].repo, SetJob(j, row)
  PROVE  /\ job' \in [Jobs -> JobRecords]
         /\ JobsHaveRepo'
         /\ \A k \in Jobs : job'[k].state # "unused" <=> job[k].state # "unused"
<1>1. job' \in [Jobs -> JobRecords]
  BY DEF WellFormed, TypeOK, SetJob
<1>2. job'[j] = row /\ \A k \in Jobs \ {j} : job'[k] = job[k]
  BY DEF WellFormed, TypeOK, SetJob
<1>3. \A k \in Jobs : /\ job'[k].state # "unused" <=> job[k].state # "unused"
                     /\ job'[k].repo = job[k].repo
  BY <1>2
<1> QED
  BY <1>1, <1>3 DEF WellFormed, JobsHaveRepo

(* The pipeline leaves the status of its repository alone or writes one.   *)
MayWriteStatus(w) ==
  UNCHANGED status \/ \E s \in RowStates : status' = [status EXCEPT ![RepoOf(w)] = s]

(* A worker goes on, having written the status of its repository or not.   *)
LEMMA WorkerGoesOn ==
  ASSUME WellFormed, NEW w \in Workers, worker[w].pc # "idle", NEW pc \in WorkerPcs, Goto(w, pc),
         MayWriteStatus(w),
         UNCHANGED <<indexed, head, notices, request, job>>
  PROVE  WellFormed'
<1> USE DEF WellFormed
<1>1. RepoOf(w) \in Repos
  BY DEF WorkersHaveJob, JobsHaveRepo, RepoOf
<1>2. status' \in [Repos -> RowStates]
  BY <1>1 DEF TypeOK, MayWriteStatus
<1>3. [worker[w] EXCEPT !.pc = pc] \in WorkerRecords /\ [worker[w] EXCEPT !.pc = pc].job = worker[w].job
  BY DEF TypeOK, WorkerRecords
<1>4. worker' = [worker EXCEPT ![w] = [worker[w] EXCEPT !.pc = pc]]
  BY DEF Goto
<1>5. worker' \in [Workers -> WorkerRecords] /\ \A v \in Workers : worker'[v] = worker[v] \/ v = w
  BY <1>3, <1>4 DEF TypeOK
<1>6. worker'[w].job = worker[w].job
  BY <1>3, <1>4 DEF TypeOK
<1>7. WorkersHaveJob'
  BY <1>5, <1>6 DEF WorkersHaveJob
<1> QED
  BY <1>2, <1>5, <1>7 DEF TypeOK, JobsHaveRepo, RequestsHaveRepo, RequestsHaveJob

LEMMA BackendCrashWellFormed ==
  ASSUME WellFormed, NEW q \in Requests, BackendCrash(q)
  PROVE  WellFormed'
<1> USE Words DEF WellFormed, TypeOK
<1>1. CASE request[q].pc \in {"enqueue", "connectEnqueue"}
  <2>1. request[q].job \in Jobs /\ job[request[q].job].state # "unused"
    BY <1>1 DEF RequestsHaveJob
  <2>2. job' \in [Jobs -> JobRecords]
    BY <1>1, <2>1 DEF BackendCrash, JobRecords
  <2>3. \A j \in Jobs : job'[j].repo = job[j].repo
    BY <1>1, <2>1 DEF BackendCrash, JobRecords
  <2>4. \A j \in Jobs : job'[j].state # "unused" <=> job[j].state # "unused"
    BY <1>1, <2>1 DEF BackendCrash, JobRecords
  <2>5. request' \in [Requests -> RequestRecords]
    BY DEF BackendCrash, Idle, RequestRecords
  <2>6. WorkersHaveJob' /\ JobsHaveRepo'
    BY <2>3, <2>4 DEF BackendCrash, WorkersHaveJob, JobsHaveRepo
  <2>7. RequestsHaveRepo' /\ RequestsHaveJob'
    BY <2>4 DEF BackendCrash, Idle, RequestsHaveRepo, RequestsHaveJob
  <2>8. QED
    BY <2>2, <2>5, <2>6, <2>7 DEF BackendCrash
<1>2. CASE request[q].pc \in {"read", "compensate"}
  BY <1>2 DEF BackendCrash, Idle, RequestRecords, WorkersHaveJob, JobsHaveRepo,
              RequestsHaveRepo, RequestsHaveJob
<1>3. QED
  BY <1>1, <1>2 DEF BackendCrash

LEMMA AcceptIndexJobWellFormed ==
  ASSUME WellFormed, NEW q \in Requests, NEW j \in Jobs, AcceptIndexJob(q, j)
  PROVE  WellFormed'
<1> USE Words DEF WellFormed, TypeOK
<1>1. request[q].repo \in Repos
  BY DEF AcceptIndexJob, RequestsHaveRepo
<1>2. status' \in [Repos -> RowStates]
  BY <1>1 DEF AcceptIndexJob
<1>3. job' \in [Jobs -> JobRecords]
  BY <1>1 DEF AcceptIndexJob, NewJob, JobRecords, RequestRecords
<1>4. request' \in [Requests -> RequestRecords]
  <2>1. [request[q] EXCEPT !.pc = "enqueue", !.job = j] \in RequestRecords
    <3>1. request[q] \in RequestRecords /\ "enqueue" \in RequestPcs
      OBVIOUS
    <3> HIDE Words DEF WellFormed, TypeOK
    <3> QED
      BY <3>1 DEF RequestRecords
  <2>2. request' = [request EXCEPT ![q] = [request[q] EXCEPT !.pc = "enqueue", !.job = j]]
    BY DEF AcceptIndexJob, RequestRecords
  <2>3. QED
    BY <2>1, <2>2
<1>5. \A k \in Jobs : job[k].state # "unused" => job'[k] = job[k]
  BY DEF AcceptIndexJob
<1>6. job'[j].repo \in Repos /\ job'[j].state # "unused"
  BY <1>1 DEF AcceptIndexJob, NewJob
<1>7. WorkersHaveJob' /\ JobsHaveRepo'
  <2>1. \A k \in Jobs : job'[k] = job[k] \/ k = j
    BY DEF AcceptIndexJob
  <2>2. QED
    BY <1>5, <1>6, <2>1 DEF AcceptIndexJob, WorkersHaveJob, JobsHaveRepo
<1>8. RequestsHaveRepo'
  BY DEF AcceptIndexJob, RequestsHaveRepo, RequestRecords
<1>9. RequestsHaveJob'
  BY <1>5, <1>6 DEF AcceptIndexJob, RequestsHaveJob, RequestRecords
<1>10. QED
  BY <1>2, <1>3, <1>4, <1>7, <1>8, <1>9 DEF AcceptIndexJob

LEMMA EnqueueFailsWellFormed ==
  ASSUME WellFormed, NEW q \in Requests, EnqueueFails(q)
  PROVE  WellFormed'
<1> USE Words DEF WellFormed, TypeOK
<1>1. request[q].job \in Jobs /\ job[request[q].job].state # "unused"
  BY DEF EnqueueFails, RequestsHaveJob
<1>2. job' \in [Jobs -> JobRecords]
  BY <1>1 DEF EnqueueFails, JobRecords
<1>3. \A j \in Jobs : job'[j].repo = job[j].repo
  BY <1>1 DEF EnqueueFails, JobRecords
<1>4. \A j \in Jobs : job'[j].state # "unused" <=> job[j].state # "unused"
  BY <1>1 DEF EnqueueFails, JobRecords
<1>5. request' \in [Requests -> RequestRecords]
  BY DEF EnqueueFails, AfterEnqueueError, Idle, RequestRecords
<1>6. WorkersHaveJob' /\ JobsHaveRepo'
  BY <1>3, <1>4 DEF EnqueueFails, WorkersHaveJob, JobsHaveRepo
<1>7. RequestsHaveRepo'
  <2>1. \A p \in Requests : p # q => request'[p] = request[p]
    BY DEF EnqueueFails, AfterEnqueueError
  <2>2. request'[q].pc = "idle" \/ request'[q].repo = request[q].repo
    BY DEF EnqueueFails, AfterEnqueueError, Idle, RequestRecords
  <2>3. request[q].pc # "idle"
    BY DEF EnqueueFails
  <2>4. QED
    BY <2>1, <2>2, <2>3 DEF RequestsHaveRepo
<1>8. RequestsHaveJob'
  <2>1. \A p \in Requests : request'[p] = request[p] \/ request'[p].pc \in {"idle", "compensate"}
    BY DEF EnqueueFails, AfterEnqueueError, Idle, RequestRecords
  <2>2. QED
    BY <1>4, <2>1 DEF RequestsHaveJob
<1>9. QED
  BY <1>2, <1>5, <1>6, <1>7, <1>8 DEF EnqueueFails

LEMMA CloneRepositoryWellFormed ==
  ASSUME WellFormed, NEW w \in Workers, CloneRepository(w)
  PROVE  WellFormed'
<1> USE Words DEF WellFormed, TypeOK
<1>1. RepoOf(w) \in Repos
  BY DEF CloneRepository, WorkersHaveJob, JobsHaveRepo, RepoOf
<1>2. worker' \in [Workers -> WorkerRecords]
  BY <1>1 DEF CloneRepository, WorkerRecords
<1>3. status' \in [Repos -> RowStates]
  BY <1>1 DEF CloneRepository
<1>4. WorkersHaveJob'
  BY DEF CloneRepository, WorkersHaveJob, WorkerRecords
<1>5. QED
  BY <1>2, <1>3, <1>4 DEF CloneRepository, JobsHaveRepo, RequestsHaveRepo, RequestsHaveJob

LEMMA AckCompletedWellFormed ==
  ASSUME WellFormed, NEW w \in Workers, AckCompleted(w)
  PROVE  WellFormed'
<1> USE Words DEF WellFormed, TypeOK
<1>1. worker[w].job \in Jobs /\ job[worker[w].job].state # "unused"
  BY DEF AckCompleted, WorkersHaveJob
<1>2. job' \in [Jobs -> JobRecords]
  BY <1>1 DEF AckCompleted, JobRecords
<1>3. \A j \in Jobs : job'[j].repo = job[j].repo
  BY <1>1 DEF AckCompleted, JobRecords
<1>4. \A j \in Jobs : job'[j].state # "unused" <=> job[j].state # "unused"
  BY <1>1 DEF AckCompleted, JobRecords
<1>5. worker' \in [Workers -> WorkerRecords]
  BY DEF AckCompleted, Free, WorkerRecords
<1>6. WorkersHaveJob' /\ JobsHaveRepo'
  BY <1>3, <1>4 DEF AckCompleted, Free, WorkersHaveJob, JobsHaveRepo
<1>7. RequestsHaveRepo' /\ RequestsHaveJob'
  BY <1>4 DEF AckCompleted, RequestsHaveRepo, RequestsHaveJob
<1>8. QED
  BY <1>2, <1>5, <1>6, <1>7 DEF AckCompleted

(* A job that ended is given back, and no other is touched.                *)
LEMMA JobGivenBack ==
  ASSUME job \in [Jobs -> JobRecords], NEW w \in Workers, NEW j \in Jobs, j = worker[w].job,
         AckCompleted(w) \/ AckFailed(w), job' # job
  PROVE  /\ job' \in [Jobs -> JobRecords]
         /\ job'[j].state \in {"completed", "delayed", "failed"} /\ job'[j].repo = job[j].repo
         /\ \A k \in Jobs : k # j => job'[k] = job[k]
<1>1. job[j] \in JobRecords /\ job[j].made \in Nat
  BY DEF JobRecords
<1>2. CASE AckCompleted(w)
  <2>1. job' = [job EXCEPT ![j].state = "completed", ![j].holder = None]
    BY <1>2 DEF AckCompleted
  <2>2. [job[j] EXCEPT !.state = "completed", !.holder = None] \in JobRecords
    BY <1>1 DEF JobRecords, JobStates
  <2>3. job' \in [Jobs -> JobRecords]
    BY <2>1, <2>2
  <2>4. job'[j].state = "completed" /\ job'[j].repo = job[j].repo
    BY <1>1, <2>1 DEF JobRecords
  <2> QED BY <2>1, <2>3, <2>4
<1>3. CASE AckFailed(w)
  <2>1. PICK outcome \in {"delayed", "failed"} :
          job' = [job EXCEPT ![j].state = outcome, ![j].made = @ + 1, ![j].holder = None]
    BY <1>3 DEF AckFailed
  <2>2. PICK m : job' = [job EXCEPT ![j].state = outcome, ![j].made = m, ![j].holder = None]
    BY <2>1
  <2>3. m \in Nat
    <3>1. job'[j].made = job[j].made + 1
      BY <1>1, <2>1 DEF JobRecords
    <3>2. job'[j].made = m
      BY <1>1, <2>2 DEF JobRecords
    <3> QED BY <1>1, <3>1, <3>2
  <2>4. [job[j] EXCEPT !.state = outcome, !.made = m, !.holder = None] \in JobRecords
    BY <1>1, <2>3 DEF JobRecords, JobStates
  <2>5. job' \in [Jobs -> JobRecords]
    BY <2>2, <2>4
  <2>6. job'[j].state = outcome /\ job'[j].repo = job[j].repo
    BY <1>1, <2>2 DEF JobRecords
  <2> QED BY <2>2, <2>5, <2>6
<1> QED BY <1>2, <1>3

LEMMA AckFailedWellFormed ==
  ASSUME WellFormed, NEW w \in Workers, AckFailed(w)
  PROVE  WellFormed'
<1> USE Words DEF WellFormed, TypeOK
<1>1. worker[w].job \in Jobs /\ job[worker[w].job].state # "unused"
  BY DEF AckFailed, WorkersHaveJob
<1>2. /\ job' \in [Jobs -> JobRecords]
      /\ \A j \in Jobs : /\ job'[j].repo = job[j].repo
                       /\ job'[j].state # "unused" <=> job[j].state # "unused"
  BY <1>1, JobGivenBack
<1>3. worker' \in [Workers -> WorkerRecords]
  BY DEF AckFailed, Free, WorkerRecords
<1>4. WorkersHaveJob' /\ JobsHaveRepo'
  BY <1>2 DEF AckFailed, Free, WorkersHaveJob, JobsHaveRepo
<1>5. RequestsHaveRepo' /\ RequestsHaveJob'
  BY <1>2 DEF AckFailed, RequestsHaveRepo, RequestsHaveJob
<1> QED
  BY <1>2, <1>3, <1>4, <1>5 DEF AckFailed

LEMMA TakeJobWellFormed ==
  ASSUME WellFormed, NEW w \in Workers, NEW j \in Jobs, TakeJob(w, j)
  PROVE  WellFormed'
<1> USE Words DEF WellFormed, TypeOK
<1> DEFINE row == [job[j] EXCEPT !.state = "active", !.holder = w]
<1>1. row \in JobRecords /\ row.state = "active" /\ row.repo = job[j].repo
  BY DEF JobRecords
<1>2. SetJob(j, row) /\ job[j].state # "unused"
  BY DEF TakeJob, SetJob
<1> HIDE DEF row, WellFormed, TypeOK
<1>3. job' \in [Jobs -> JobRecords] /\ JobsHaveRepo'
      /\ \A k \in Jobs : job'[k].state # "unused" <=> job[k].state # "unused"
  BY <1>1, <1>2, JobMoves
<1> USE DEF WellFormed, TypeOK
<1>4. worker' \in [Workers -> WorkerRecords]
  BY DEF TakeJob, WorkerRecords
<1>5. WorkersHaveJob'
  BY <1>2, <1>3 DEF TakeJob, WorkersHaveJob
<1>6. RequestsHaveRepo' /\ RequestsHaveJob'
  BY <1>3 DEF TakeJob, RequestsHaveRepo, RequestsHaveJob
<1>7. QED
  BY <1>3, <1>4, <1>5, <1>6 DEF TakeJob

LEMMA PromoteDelayedWellFormed ==
  ASSUME WellFormed, NEW j \in Jobs, PromoteDelayed(j)
  PROVE  WellFormed'
<1> DEFINE row == [job[j] EXCEPT !.state = "waiting"]
<1>1. row \in JobRecords /\ row.state = "waiting" /\ row.repo = job[j].repo
  BY Words DEF JobRecords, WellFormed, TypeOK
<1>2. SetJob(j, row) /\ job[j].state # "unused"
  BY DEF PromoteDelayed, SetJob
<1> HIDE DEF row
<1>3. job' \in [Jobs -> JobRecords] /\ JobsHaveRepo'
      /\ \A k \in Jobs : job'[k].state # "unused" <=> job[k].state # "unused"
  BY <1>1, <1>2, JobMoves
<1> QED
  BY <1>3 DEF PromoteDelayed, WellFormed, TypeOK, WorkersHaveJob, RequestsHaveRepo, RequestsHaveJob

LEMMA EnqueueIndexJobWellFormed ==
  ASSUME WellFormed, NEW q \in Requests, EnqueueIndexJob(q)
  PROVE  WellFormed'
<1> DEFINE row == [job[request[q].job] EXCEPT !.state = "waiting"]
<1>1. request[q].job \in Jobs /\ job[request[q].job].state # "unused"
  BY DEF EnqueueIndexJob, WellFormed, RequestsHaveJob
<1>2. row \in JobRecords /\ row.state = "waiting" /\ row.repo = job[request[q].job].repo
  BY <1>1, Words DEF JobRecords, WellFormed, TypeOK
<1>3. SetJob(request[q].job, row)
  BY DEF EnqueueIndexJob, SetJob
<1> HIDE DEF row
<1>4. job' \in [Jobs -> JobRecords] /\ JobsHaveRepo'
      /\ \A k \in Jobs : job'[k].state # "unused" <=> job[k].state # "unused"
  BY <1>1, <1>2, <1>3, JobMoves
<1>5. Idle \in RequestRecords /\ Idle.pc = "idle"
  BY Words DEF Idle, RequestRecords
<1>6. request' \in [Requests -> RequestRecords]
      /\ \A p \in Requests : request'[p] = request[p] \/ request'[p].pc = "idle"
  BY <1>5 DEF EnqueueIndexJob, WellFormed, TypeOK
<1> QED
  BY <1>4, <1>6 DEF EnqueueIndexJob, WellFormed, TypeOK, WorkersHaveJob, RequestsHaveRepo, RequestsHaveJob

LEMMA HandlePushEventWellFormed ==
  ASSUME WellFormed, NEW q \in Requests, NEW r \in Repos, HandlePushEvent(q, r)
  PROVE  WellFormed'
<1>1. notices' \in [Repos -> Nat]
  BY DEF HandlePushEvent, WellFormed, TypeOK
<1>2. CASE UNCHANGED request
  BY <1>1, <1>2 DEF HandlePushEvent, WellFormed, TypeOK, WorkersHaveJob, JobsHaveRepo,
     RequestsHaveRepo, RequestsHaveJob
<1>3. CASE ReadStatus(q, r, "INCREMENTAL")
  <2> DEFINE row == [pc |-> "read", repo |-> r, seen |-> status[r], type |-> "INCREMENTAL", job |-> None]
  <2>1. row \in RequestRecords /\ row.pc = "read" /\ row.repo \in Repos /\ row.seen \in Terminal
    BY <1>3, Words DEF ReadStatus, RequestRecords
  <2>2. request' = [request EXCEPT ![q] = row]
    BY <1>3 DEF ReadStatus
  <2> HIDE DEF row
  <2>3. request' \in [Requests -> RequestRecords]
        /\ \A p \in Requests : request'[p] = request[p] \/ request'[p] = row
    BY <2>1, <2>2 DEF WellFormed, TypeOK
  <2> QED
    BY <1>1, <2>1, <2>3 DEF HandlePushEvent, WellFormed, TypeOK, WorkersHaveJob, JobsHaveRepo,
       RequestsHaveRepo, RequestsHaveJob
<1> QED
  BY <1>2, <1>3 DEF HandlePushEvent

LEMMA StoreIndexWellFormed ==
  ASSUME WellFormed, NEW w \in Workers, StoreIndex(w)
  PROVE  WellFormed'
<1> USE Words DEF WellFormed, TypeOK
<1>1. RepoOf(w) \in Repos
  BY DEF StoreIndex, WorkersHaveJob, JobsHaveRepo, RepoOf
<1>2. worker' \in [Workers -> WorkerRecords]
  BY DEF StoreIndex, Goto, WorkerRecords
<1>3. status' \in [Repos -> RowStates]
  BY <1>1 DEF StoreIndex, WriteStatus
<1>4. indexed' \in [Repos -> Nat]
  BY <1>1 DEF StoreIndex, WorkerRecords
<1>5. WorkersHaveJob'
  BY DEF StoreIndex, Goto, WorkersHaveJob, WorkerRecords
<1>6. QED
  BY <1>2, <1>3, <1>4, <1>5 DEF StoreIndex, JobsHaveRepo, RequestsHaveRepo, RequestsHaveJob

(* Every step keeps every type and every reference, whatever faults occur.  *)
LEMMA WellFormedStep ==
  ASSUME WellFormed, [Next]_vars
  PROVE  WellFormed'
<1> USE Words DEF WellFormed, TypeOK, WorkersHaveJob, JobsHaveRepo, RequestsHaveRepo,
                  RequestsHaveJob, RequestRecords, JobRecords, WorkerRecords
<1>1. ASSUME NEW q \in Requests, NEW r \in Repos, NEW j \in Jobs, ConnectRepository(q, r, j)
      PROVE WellFormed'
  BY SMTT(30), <1>1 DEF ConnectRepository, NewJob
<1>2. ASSUME NEW q \in Requests, NEW r \in Repos, TriggerFullIndex(q, r)
      PROVE WellFormed'
  BY SMTT(30), <1>2 DEF TriggerFullIndex, ReadStatus
<1>3. ASSUME NEW q \in Requests, NEW r \in Repos, HandlePushEvent(q, r)
      PROVE WellFormed'
  BY <1>3, HandlePushEventWellFormed
<1>4. ASSUME NEW r \in Repos, PushCommit(r)
      PROVE WellFormed'
  BY SMTT(30), <1>4 DEF PushCommit
<1>5. ASSUME NEW r \in Repos, DeleteRepository(r)
      PROVE WellFormed'
  BY SMTT(30), <1>5 DEF DeleteRepository
<1>6. ASSUME NEW q \in Requests, BackendCrash(q)
      PROVE WellFormed'
  BY <1>6, BackendCrashWellFormed
<1>7. ASSUME NEW w \in Workers, WorkerCrash(w)
      PROVE WellFormed'
  BY SMTT(30), <1>7 DEF WorkerCrash, Free
<1>8. ASSUME NEW q \in Requests, NEW j \in Jobs, AcceptIndexJob(q, j)
      PROVE WellFormed'
  BY <1>8, AcceptIndexJobWellFormed
<1>9. ASSUME NEW q \in Requests, RejectIndexJob(q)
      PROVE WellFormed'
  BY SMTT(30), <1>9 DEF RejectIndexJob, Idle
<1>10. ASSUME NEW q \in Requests, EnqueueIndexJob(q)
      PROVE WellFormed'
  BY <1>10, EnqueueIndexJobWellFormed
<1>11. ASSUME NEW q \in Requests, EnqueueFails(q)
      PROVE WellFormed'
  BY <1>11, EnqueueFailsWellFormed
<1>12. ASSUME NEW q \in Requests, MarkConnectFailed(q)
      PROVE WellFormed'
  BY SMTT(30), <1>12 DEF MarkConnectFailed, Idle
<1>13. ASSUME NEW w \in Workers, BeginIndex(w)
      PROVE WellFormed'
  <2>1. worker[w].pc # "idle" /\ Goto(w, "CLONING") /\ UNCHANGED <<indexed, head, notices, request, job>>
        /\ MayWriteStatus(w)
    BY <1>13 DEF BeginIndex, WriteStatus, MayWriteStatus
  <2> QED
    BY <2>1, WorkerGoesOn
<1>14. ASSUME NEW w \in Workers, CloneRepository(w)
      PROVE WellFormed'
  BY <1>14, CloneRepositoryWellFormed
<1>15. ASSUME NEW w \in Workers, ParseFiles(w)
      PROVE WellFormed'
  <2>1. worker[w].pc # "idle" /\ Goto(w, "EMBEDDING") /\ UNCHANGED <<indexed, head, notices, request, job>>
        /\ MayWriteStatus(w)
    BY <1>15 DEF ParseFiles, WriteStatus, MayWriteStatus
  <2> QED
    BY <2>1, WorkerGoesOn
<1>16. ASSUME NEW w \in Workers, EmbedChunks(w)
      PROVE WellFormed'
  <2>1. worker[w].pc # "idle" /\ Goto(w, "STORING") /\ UNCHANGED <<indexed, head, notices, request, job>>
        /\ MayWriteStatus(w)
    BY <1>16 DEF EmbedChunks, WriteStatus, MayWriteStatus
  <2> QED
    BY <2>1, WorkerGoesOn
<1>17. ASSUME NEW w \in Workers, StoreIndex(w)
      PROVE WellFormed'
  BY <1>17, StoreIndexWellFormed
<1>18. ASSUME NEW w \in Workers, WriteIndexingUsageLog(w)
      PROVE WellFormed'
  BY SMTT(30), <1>18 DEF WriteIndexingUsageLog, Goto
<1>19. ASSUME NEW w \in Workers, PipelineRaises(w)
      PROVE WellFormed'
  BY SMTT(30), <1>19 DEF PipelineRaises, Goto, StagePcs
<1>20. ASSUME NEW w \in Workers, HandleJobFailure(w)
      PROVE WellFormed'
  <2>1. worker[w].pc # "idle" /\ (Goto(w, "marked") \/ Goto(w, "failed"))
        /\ UNCHANGED <<indexed, head, notices, request, job>>
        /\ MayWriteStatus(w)
    BY <1>20 DEF HandleJobFailure, MayWriteStatus
  <2> QED
    BY <2>1, WorkerGoesOn
<1>21. ASSUME NEW w \in Workers, AckCompleted(w)
      PROVE WellFormed'
  BY <1>21, AckCompletedWellFormed
<1>22. ASSUME NEW w \in Workers, AckFailed(w)
      PROVE WellFormed'
  BY <1>22, AckFailedWellFormed
<1>23. ASSUME NEW w \in Workers, NEW j \in Jobs, TakeJob(w, j)
      PROVE WellFormed'
  BY <1>23, TakeJobWellFormed
<1>24. ASSUME NEW j \in Jobs, PromoteDelayed(j)
      PROVE WellFormed'
  BY <1>24, PromoteDelayedWellFormed
<1>25. ASSUME NEW j \in Jobs, RequeueStalled(j)
      PROVE WellFormed'
  BY SMTT(30), <1>25 DEF RequeueStalled
<1>26. CASE UNCHANGED vars
  BY <1>26 DEF vars
<1>27. QED
  BY <1>1, <1>2, <1>3, <1>4, <1>5, <1>6, <1>7, <1>8, <1>9, <1>10, <1>11, <1>12, <1>13, <1>14, <1>15, <1>16, <1>17, <1>18, <1>19, <1>20, <1>21, <1>22, <1>23, <1>24, <1>25, <1>26
     DEF Next, Environment, RequestStep, WorkerStep

LEMMA WellFormedInvariant == Spec => []WellFormed
<1>1. Init => WellFormed
  BY Words DEF Init, Idle, Free, WellFormed, TypeOK, WorkersHaveJob, JobsHaveRepo,
       RequestsHaveRepo, RequestsHaveJob, RequestRecords, JobRecords, WorkerRecords
<1>2. WellFormed /\ [Next]_vars => WellFormed'
  BY WellFormedStep
<1>3. QED
  BY <1>1, <1>2, PTL DEF Spec

(* Type correctness of the indexing-job lifecycle, with every fault.        *)
THEOREM TypeCorrect == Spec => []TypeOK
  BY WellFormedInvariant, PTL DEF WellFormed

(* Every write of a status is to a row that exists.                         *)
LEMMA WritesHitRows ==
  ASSUME WellFormed, [Next]_vars, NEW r \in Repos, status[r] = "deleted"
  PROVE  status'[r] = "deleted"
<1> USE Words DEF WellFormed, TypeOK, Exists
<1>1. ASSUME NEW w \in Workers, WorkerStep(w) PROVE status'[r] = "deleted"
  <2>1. CASE UNCHANGED status
    BY <2>1
  <2>2. CASE worker[w].pc # "idle" /\ Exists(RepoOf(w))
             /\ \E s \in RowStates : status' = [status EXCEPT ![RepoOf(w)] = s]
    <3>1. RepoOf(w) # r
      BY <2>2
    <3>2. RepoOf(w) \in Repos
      BY <2>2 DEF RepoOf, WorkersHaveJob, JobsHaveRepo
    <3>3. QED
      BY <2>2, <3>1, <3>2
  <2>3. QED
    BY <1>1, <2>1, <2>2 DEF WorkerStep, BeginIndex, CloneRepository, ParseFiles, EmbedChunks,
       StoreIndex, WriteIndexingUsageLog, PipelineRaises, HandleJobFailure, AckCompleted,
       AckFailed, WriteStatus
<1>2. ASSUME NEW q \in Requests, RequestStep(q) PROVE status'[r] = "deleted"
  <2>1. CASE UNCHANGED status
    BY <2>1
  <2>2. CASE \E j \in Jobs : AcceptIndexJob(q, j)
    BY <2>2 DEF AcceptIndexJob, StatusStillSeen, RequestsHaveRepo, RequestsHaveJob
  <2>3. CASE MarkConnectFailed(q) /\ ~UNCHANGED status
    BY <2>3 DEF MarkConnectFailed, RequestsHaveRepo
  <2>4. QED
    BY <1>2, <2>1, <2>2, <2>3 DEF RequestStep, RejectIndexJob, EnqueueIndexJob, EnqueueFails
<1>3. CASE Environment
  BY <1>3 DEF Environment, ConnectRepository, TriggerFullIndex, HandlePushEvent, PushCommit,
     DeleteRepository, BackendCrash, WorkerCrash
<1>4. CASE UNCHANGED vars
  BY <1>4 DEF vars
<1>5. QED
  BY <1>1, <1>2, <1>3, <1>4 DEF Next, TakeJob, PromoteDelayed, RequeueStalled

(* No worker, retry or compensation brings a deleted repository back.       *)
THEOREM NoResurrection == Spec => DeletedStaysDeleted
<1>1. WellFormed /\ [Next]_vars =>
        [\A r \in Repos : status[r] = "deleted" => status'[r] = "deleted"]_vars
  BY WritesHitRows
<1>2. QED
  BY <1>1, WellFormedInvariant, PTL DEF Spec, DeletedStaysDeleted

-----------------------------------------------------------------------------
(* What the proofs about jobs share.                                        *)

(* A worker that runs a job owns its lock: true until a lock is lost.       *)
WorkersLock == \A w \in Workers : worker[w].pc # "idle" => Locks(w)

(* Jobs and requests are those of repositories that were connected.         *)
Connected ==
  /\ \A j \in Jobs : job[j].state # "unused" => status[job[j].repo] # "unborn"
  /\ \A q \in Requests : request[q].pc # "idle" => status[request[q].repo] # "unborn"

(* A job is enqueued by one request, the one that accepted it.              *)
EnqueueAccepted ==
  \A q \in Requests : request[q].pc \in {"enqueue", "connectEnqueue"} =>
    /\ job[request[q].job].state = "accepted"
    /\ job[request[q].job].repo = request[q].repo

EnqueueOnce ==
  \A p, q \in Requests :
    /\ request[p].pc \in {"enqueue", "connectEnqueue"}
    /\ request[q].pc \in {"enqueue", "connectEnqueue"}
    /\ request[p].job = request[q].job
    => p = q

(* A worker goes on with its job and touches no other worker and no job.    *)
GoesOn(w) ==
  /\ worker[w].pc # "idle" /\ worker'[w].pc # "idle"
  /\ worker'[w].job = worker[w].job
  /\ \A v \in Workers : v # w => worker'[v] = worker[v]
  /\ UNCHANGED <<job, request>>

-----------------------------------------------------------------------------
(* Never stuck. A repository shown as busy has a job that is going to run,  *)
(* or one that a worker runs and has not settled: under a failing pipeline, *)
(* a failing usage log, a crash of a worker that has only its log and its   *)
(* acknowledgement left, and an enqueue that reports an error though it was *)
(* applied. Two jobs of a repository may be live at once here.              *)
Serves(j) ==
  \/ job[j].state \in {"accepted", "waiting", "delayed"}
  \/ \E w \in Workers : Runs(w, j) /\ worker[w].pc \notin LatePcs

BusyIsWorked ==
  \A r \in Repos : status[r] \in NonTerminal => \E j \in Jobs : job[j].repo = r /\ Serves(j)

(* A worker that gives up without having written FAILED will be retried,    *)
(* unless its repository is gone: the mark is not lost.                     *)
FailedIsRetried ==
  \A w \in Workers :
    worker[w].pc = "failed" /\ Exists(RepoOf(w)) => ~IsFinalAttempt(worker[w].job)

ServedInv ==
  /\ WellFormed
  /\ WorkersLock /\ Connected /\ EnqueueAccepted /\ EnqueueOnce
  /\ FailedIsRetried /\ BusyIsWorked

LEMMA WorkersRunActive ==
  ASSUME ServedInv, NEW w \in Workers, worker[w].pc # "idle"
  PROVE  /\ worker[w].job \in Jobs /\ job[worker[w].job].state = "active"
         /\ RepoOf(w) \in Repos /\ RepoOf(w) = job[worker[w].job].repo
         /\ \A v \in Workers : worker[v].pc # "idle" /\ worker[v].job = worker[w].job => v = w
  BY DEF ServedInv, WellFormed, WorkersHaveJob, JobsHaveRepo, RepoOf, WorkersLock, Locks

(* The pipeline: the worker ends in a settled stage only with a status that *)
(* is settled too, or without a row.                                        *)
LEMMA PipelineServes ==
  ASSUME ServedInv, WellFormed', NEW w \in Workers, GoesOn(w),
         \A r \in Repos : \/ status'[r] = status[r]
                          \/ r = RepoOf(w) /\ Exists(r) /\ status'[r] \notin NoRow,
         worker'[w].pc = "failed" => ~Exists(RepoOf(w))' \/ ~IsFinalAttempt(worker[w].job),
         \/ worker'[w].pc \notin LatePcs
         \/ worker[w].pc \in LatePcs /\ UNCHANGED status
         \/ status'[RepoOf(w)] \notin NonTerminal
  PROVE  ServedInv'
<1> USE Words
<1>1. /\ worker[w].job \in Jobs /\ RepoOf(w) \in Repos /\ RepoOf(w) = job[worker[w].job].repo
      /\ worker[w].pc # "idle"
  BY WorkersRunActive DEF GoesOn
<1>2. WorkersLock' /\ EnqueueAccepted' /\ EnqueueOnce'
  BY DEF GoesOn, ServedInv, WorkersLock, Locks, EnqueueAccepted, EnqueueOnce
<1>3. Connected'
  <2>1. \A r \in Repos : status'[r] = "unborn" => status[r] = "unborn"
    OBVIOUS
  <2> QED
    BY <2>1 DEF GoesOn, ServedInv, Connected, WellFormed, JobsHaveRepo, RequestsHaveRepo
<1>4. FailedIsRetried'
  <2> SUFFICES ASSUME NEW v \in Workers, worker'[v].pc = "failed", Exists(RepoOf(v))'
               PROVE  ~IsFinalAttempt(worker[v].job)'
    BY DEF FailedIsRetried, Exists, RepoOf
  <2>1. CASE v = w
    BY <2>1 DEF GoesOn, RepoOf, Exists, IsFinalAttempt
  <2>2. CASE v # w
    <3>1. worker'[v] = worker[v] /\ RepoOf(v) \in Repos /\ RepoOf(v)' = RepoOf(v)
      BY <2>2, WorkersRunActive DEF GoesOn, RepoOf
    <3>2. Exists(RepoOf(v))
      BY <3>1 DEF Exists
    <3> QED
      BY <3>1, <3>2 DEF GoesOn, ServedInv, FailedIsRetried, IsFinalAttempt
  <2> QED
    BY <2>1, <2>2
<1>5. BusyIsWorked'
  <2> SUFFICES ASSUME NEW r \in Repos, status'[r] \in NonTerminal
               PROVE  \E j \in Jobs : job'[j].repo = r /\ Serves(j)'
    BY DEF BusyIsWorked
  <2>1. CASE r = RepoOf(w) /\ worker'[w].pc \notin LatePcs
    BY <1>1, <2>1 DEF GoesOn, Serves, Runs
  <2>2. CASE ~(r = RepoOf(w) /\ worker'[w].pc \notin LatePcs)
    <3>1. status[r] \in NonTerminal /\ (r = RepoOf(w) => worker[w].pc \in LatePcs)
      BY <2>2
    <3>2. PICK j \in Jobs : job[j].repo = r /\ Serves(j)
      BY <3>1 DEF ServedInv, BusyIsWorked
    <3>3. ~(Runs(w, j) /\ worker[w].pc \notin LatePcs)
      BY <1>1, <3>1, <3>2 DEF Runs
    <3>4. Serves(j)'
      BY <3>2, <3>3 DEF GoesOn, Serves, Runs
    <3> QED
      BY <3>2, <3>4 DEF GoesOn
  <2> QED
    BY <2>1, <2>2
<1> QED
  BY <1>2, <1>3, <1>4, <1>5 DEF ServedInv

(* The queue: one job moves on, taken by a worker or left by its own; the   *)
(* only one that stops serving is one that had settled, or has no row.      *)
LEMMA QueueServes ==
  ASSUME ServedInv, WellFormed', UNCHANGED <<status, request>>,
         NEW j \in Jobs, job[j].state \notin {"unused", "accepted"},
         job'[j].state \notin {"unused", "accepted"}, job'[j].repo = job[j].repo,
         \A k \in Jobs : k # j => job'[k] = job[k],
         \A v \in Workers : worker[v].pc # "idle" /\ worker[v].job # j => worker'[v] = worker[v],
         \A v \in Workers : worker'[v].pc # "idle" =>
           \/ worker'[v] = worker[v] /\ worker[v].job # j
           \/ worker'[v].pc = "start" /\ worker'[v].job = j /\ Locks(v)',
         Exists(job[j].repo) /\ Serves(j) => Serves(j)'
  PROVE  ServedInv'
<1> USE Words
<1>1. WorkersLock'
  <2> SUFFICES ASSUME NEW v \in Workers, worker'[v].pc # "idle", worker'[v] = worker[v],
                      worker[v].job # j
               PROVE  Locks(v)'
    BY DEF WorkersLock
  <2> QED
    BY WorkersRunActive DEF ServedInv, WorkersLock, Locks
<1>2. Connected'
  BY DEF ServedInv, Connected
<1>3. EnqueueAccepted' /\ EnqueueOnce'
  BY DEF ServedInv, EnqueueAccepted, EnqueueOnce, WellFormed, RequestsHaveJob
<1>4. FailedIsRetried'
  <2> SUFFICES ASSUME NEW v \in Workers, worker'[v].pc = "failed", Exists(RepoOf(v))'
               PROVE  ~IsFinalAttempt(worker[v].job)'
    BY DEF FailedIsRetried
  <2>1. worker'[v] = worker[v] /\ worker[v].job # j /\ worker[v].job \in Jobs
    BY WorkersRunActive
  <2> QED
    BY <2>1 DEF ServedInv, FailedIsRetried, IsFinalAttempt, RepoOf, Exists
<1>5. BusyIsWorked'
  <2> SUFFICES ASSUME NEW r \in Repos, status[r] \in NonTerminal
               PROVE  \E k \in Jobs : job'[k].repo = r /\ Serves(k)'
    BY DEF BusyIsWorked
  <2>1. PICK k \in Jobs : job[k].repo = r /\ Serves(k)
    BY DEF ServedInv, BusyIsWorked
  <2>2. CASE k = j
    BY <2>1, <2>2 DEF Exists
  <2>3. CASE k # j
    BY <2>1, <2>3 DEF Serves, Runs
  <2> QED
    BY <2>2, <2>3
<1> QED
  BY <1>1, <1>2, <1>3, <1>4, <1>5 DEF ServedInv

LEMMA TakeJobServes ==
  ASSUME ServedInv, WellFormed', NEW w \in Workers, NEW j \in Jobs, TakeJob(w, j)
  PROVE  ServedInv'
<1>1. /\ job[j].state = "waiting" /\ worker[w].pc = "idle" /\ UNCHANGED <<status, request>>
      /\ \A v \in Workers : worker[v].pc # "idle" => worker[v].job # j
  BY WorkersRunActive DEF TakeJob
<1>2. /\ job'[j].state = "active" /\ job'[j].holder = w /\ job'[j].repo = job[j].repo
      /\ \A k \in Jobs : k # j => job'[k] = job[k]
  BY DEF TakeJob, ServedInv, WellFormed, TypeOK, JobRecords
<1>3. /\ worker'[w].pc = "start" /\ worker'[w].job = j
      /\ \A v \in Workers : v # w => worker'[v] = worker[v]
  BY DEF TakeJob, ServedInv, WellFormed, TypeOK
<1>4. Locks(w)' /\ Serves(j)'
  BY <1>2, <1>3 DEF Locks, Serves, Runs, LatePcs
<1> QED
  BY <1>1, <1>2, <1>3, <1>4, QueueServes

LEMMA PromoteServes ==
  ASSUME ServedInv, WellFormed', NEW j \in Jobs, PromoteDelayed(j)
  PROVE  ServedInv'
<1>1. /\ job[j].state = "delayed" /\ UNCHANGED <<status, request, worker>>
      /\ \A v \in Workers : worker[v].pc # "idle" => worker[v].job # j
  BY WorkersRunActive DEF PromoteDelayed
<1>2. /\ job'[j].state = "waiting" /\ job'[j].repo = job[j].repo
      /\ \A k \in Jobs : k # j => job'[k] = job[k]
  BY DEF PromoteDelayed, ServedInv, WellFormed, TypeOK, JobRecords
<1>3. Serves(j)'
  BY <1>2 DEF Serves
<1> QED
  BY <1>1, <1>2, <1>3, QueueServes

(* A job that stalls was left by a worker in its last two stages: its       *)
(* repository does not count on it, be it requeued or failed.               *)
LEMMA RequeueServes ==
  ASSUME ServedInv, WellFormed', "lockLoss" \notin Faults, NEW j \in Jobs, RequeueStalled(j)
  PROVE  ServedInv'
<1>1. Orphaned(j) /\ job[j].state = "active" /\ UNCHANGED <<status, request, worker>>
  BY DEF RequeueStalled
<1>2. \A v \in Workers : worker[v].pc # "idle" => worker[v].job # j
  BY <1>1 DEF Orphaned, Runs, ServedInv, WorkersLock, Locks
<1>3. PICK outcome \in {"waiting", "failed"} :
        job' = [job EXCEPT ![j].state = outcome, ![j].stalls = @ + 1, ![j].holder = None]
  BY DEF RequeueStalled
<1>4. /\ job'[j].state = outcome /\ job'[j].repo = job[j].repo
      /\ \A k \in Jobs : k # j => job'[k] = job[k]
  BY <1>3 DEF ServedInv, WellFormed, TypeOK, JobRecords
<1>5. ~Serves(j)
  BY <1>1, <1>2 DEF Serves, Runs
<1> QED
  BY <1>1, <1>2, <1>4, <1>5, QueueServes

LEMMA AckServes ==
  ASSUME ServedInv, WellFormed', NEW w \in Workers, AckCompleted(w) \/ AckFailed(w)
  PROVE  ServedInv'
<1> PICK j \in Jobs : j = worker[w].job
  BY WorkersRunActive DEF AckCompleted, AckFailed
<1>1. /\ worker[w].pc \in {"done", "failed", "marked"} /\ worker[w].pc # "idle"
      /\ job[j].state = "active" /\ RepoOf(w) = job[j].repo /\ Locks(w)
      /\ \A v \in Workers : worker[v].pc # "idle" /\ worker[v].job = j => v = w
      /\ UNCHANGED <<status, request>>
  BY WorkersRunActive DEF AckCompleted, AckFailed, ServedInv, WorkersLock
<1>2. /\ worker'[w].pc = "idle"
      /\ \A v \in Workers : v # w => worker'[v] = worker[v]
  <2>1. worker' = [worker EXCEPT ![w] = Free] /\ Free.pc = "idle"
    BY DEF AckCompleted, AckFailed, Free
  <2>2. worker \in [Workers -> WorkerRecords]
    BY DEF ServedInv, WellFormed, TypeOK
  <2> QED BY <2>1, <2>2
<1>3. job \in [Jobs -> JobRecords]
  BY DEF ServedInv, WellFormed, TypeOK
<1>4. /\ job'[j].state \in {"completed", "delayed", "failed"} /\ job'[j].repo = job[j].repo
      /\ \A k \in Jobs : k # j => job'[k] = job[k]
      /\ worker[w].pc = "failed" /\ ~IsFinalAttempt(j) => job'[j].state = "delayed"
  <2>1. CASE AckCompleted(w)
    <3>1. job' = [job EXCEPT ![j].state = "completed", ![j].holder = None]
      BY <1>1, <2>1 DEF AckCompleted
    <3>2. worker[w].pc = "done"
      BY <2>1 DEF AckCompleted
    <3> QED
      BY <1>3, <3>1, <3>2 DEF JobRecords
  <2>2. CASE AckFailed(w)
    <3>1. PICK outcome \in {"delayed", "failed"} :
            /\ outcome = "delayed" <=> job[j].made + 1 < MaxAttempts
            /\ job' = [job EXCEPT ![j].state = outcome, ![j].made = @ + 1, ![j].holder = None]
      BY <1>1, <2>2 DEF AckFailed
    <3>2. ~IsFinalAttempt(j) => outcome = "delayed"
      <4>1. job[j].made \in Nat /\ MaxAttempts \in Nat
        BY <1>3, BoundAssumption DEF JobRecords
      <4> QED
        BY <3>1, <4>1 DEF IsFinalAttempt
    <3>3. PICK m : job' = [job EXCEPT ![j].state = outcome, ![j].made = m, ![j].holder = None]
      BY <3>1
    <3>4. /\ job'[j].state = outcome /\ job'[j].repo = job[j].repo
          /\ \A k \in Jobs : k # j => job'[k] = job[k]
      BY <1>3, <3>3 DEF JobRecords
    <3> QED
      BY <3>2, <3>4
  <2> QED
    BY <2>1, <2>2
<1>5. Exists(job[j].repo) /\ Serves(j) => Serves(j)'
  <2> SUFFICES ASSUME Exists(job[j].repo), Serves(j) PROVE Serves(j)'
    OBVIOUS
  <2>1. worker[w].pc = "failed"
    BY <1>1 DEF Serves, Runs, LatePcs
  <2>2. ~IsFinalAttempt(j)
    BY <1>1, <2>1 DEF ServedInv, FailedIsRetried
  <2> QED
    BY <1>4, <2>1, <2>2 DEF Serves
<1> QED
  BY <1>1, <1>2, <1>4, <1>5, QueueServes

LEMMA StagesServe ==
  ASSUME ServedInv, WellFormed', NEW w \in Workers,
         BeginIndex(w) \/ CloneRepository(w) \/ ParseFiles(w) \/ EmbedChunks(w) \/ StoreIndex(w)
  PROVE  ServedInv'
<1>1. worker \in [Workers -> WorkerRecords] /\ status \in [Repos -> RowStates]
  BY DEF ServedInv, WellFormed, TypeOK
<1>2. worker[w].pc # "idle" /\ RepoOf(w) \in Repos
  BY WorkersRunActive DEF BeginIndex, CloneRepository, ParseFiles, EmbedChunks, StoreIndex
<1>3. /\ GoesOn(w)
      /\ \/ worker'[w].pc \in {"CLONING", "PARSING", "EMBEDDING", "STORING"}
         \/ worker'[w].pc = "logging" /\ WriteStatus(RepoOf(w), "INDEXED")
  BY <1>1, <1>2 DEF GoesOn, BeginIndex, CloneRepository, ParseFiles, EmbedChunks, StoreIndex,
                    Goto, WorkerRecords
<1>4. PICK s \in NonTerminal \cup Terminal : WriteStatus(RepoOf(w), s)
  BY Words DEF WriteStatus, BeginIndex, CloneRepository, ParseFiles, EmbedChunks, StoreIndex
<1>5. \A r \in Repos : \/ status'[r] = status[r]
                       \/ r = RepoOf(w) /\ Exists(r) /\ status'[r] \notin NoRow
  BY <1>1, <1>2, <1>4, Words DEF WriteStatus
<1>6. WriteStatus(RepoOf(w), "INDEXED") => status'[RepoOf(w)] \notin NonTerminal
  BY <1>1, <1>2, Words DEF WriteStatus, Exists
<1> QED
  BY <1>3, <1>5, <1>6, PipelineServes DEF LatePcs

LEMMA EndsServe ==
  ASSUME ServedInv, WellFormed', "mark" \notin Faults, NEW w \in Workers,
         WriteIndexingUsageLog(w) \/ PipelineRaises(w) \/ HandleJobFailure(w)
  PROVE  ServedInv'
<1>1. worker \in [Workers -> WorkerRecords] /\ status \in [Repos -> RowStates]
  BY DEF ServedInv, WellFormed, TypeOK
<1>2. worker[w].pc # "idle" /\ RepoOf(w) \in Repos
  BY WorkersRunActive DEF WriteIndexingUsageLog, PipelineRaises, HandleJobFailure, StagePcs
<1>3. GoesOn(w)
  BY <1>1, <1>2 DEF GoesOn, WriteIndexingUsageLog, PipelineRaises, HandleJobFailure, Goto, WorkerRecords
<1>4. CASE WriteIndexingUsageLog(w) \/ PipelineRaises(w)
  <2>1. /\ UNCHANGED status
        /\ \/ worker'[w].pc = "raised"
           \/ worker'[w].pc = "done" /\ worker[w].pc \in LatePcs
    BY <1>1, <1>4 DEF WriteIndexingUsageLog, PipelineRaises, Goto, WorkerRecords, LatePcs
  <2> QED
    BY <1>3, <2>1, PipelineServes DEF LatePcs
<1>5. CASE HandleJobFailure(w) /\ UNCHANGED status
  <2>1. CASE worker'[w].pc = "failed" /\ (~IsFinalAttempt(worker[w].job) \/ ~Exists(RepoOf(w)))
    <3>1. ~Exists(RepoOf(w)) => ~Exists(RepoOf(w))'
      BY <1>3, <1>5 DEF Exists, RepoOf, GoesOn
    <3> QED
      BY <1>3, <1>5, <2>1, <3>1, PipelineServes DEF LatePcs
  <2>2. CASE worker'[w].pc = "marked" /\ status' = [status EXCEPT ![RepoOf(w)] = "FAILED"]
    <3>1. status'[RepoOf(w)] = "FAILED" /\ status'[RepoOf(w)] \notin NonTerminal
      BY <1>1, <1>2, <2>2, Words
    <3> QED
      BY <1>3, <1>5, <2>2, <3>1, PipelineServes
  <2> QED
    BY <1>1, <1>5, <2>1, <2>2 DEF HandleJobFailure, Goto, WorkerRecords
<1>6. CASE HandleJobFailure(w) /\ ~UNCHANGED status
  <2>1. /\ worker'[w].pc = "marked" /\ Exists(RepoOf(w))
        /\ status' = [status EXCEPT ![RepoOf(w)] = "FAILED"]
    BY <1>1, <1>6 DEF HandleJobFailure, Goto, WorkerRecords
  <2>2. /\ status'[RepoOf(w)] = "FAILED"
        /\ \A r \in Repos : r # RepoOf(w) => status'[r] = status[r]
    BY <1>1, <1>2, <2>1
  <2>3. status'[RepoOf(w)] \notin NonTerminal /\ status'[RepoOf(w)] \notin NoRow
    BY <2>2, Words
  <2>4. \A r \in Repos : \/ status'[r] = status[r]
                         \/ r = RepoOf(w) /\ Exists(r) /\ status'[r] \notin NoRow
    BY <2>1, <2>2, <2>3
  <2> QED
    BY <1>3, <2>1, <2>3, <2>4, PipelineServes
<1> QED
  BY <1>4, <1>5, <1>6

(* A worker dies in its last two stages: the job it leaves served nobody.   *)
LEMMA LateCrashServes ==
  ASSUME ServedInv, WellFormed', "workerCrash" \notin Faults, NEW w \in Workers, WorkerCrash(w)
  PROVE  ServedInv'
<1>1. worker[w].pc \in LatePcs /\ UNCHANGED <<status, request, job>>
  BY DEF WorkerCrash
<1>2. worker'[w].pc = "idle" /\ \A v \in Workers : v # w => worker'[v] = worker[v]
  BY DEF WorkerCrash, Free, ServedInv, WellFormed, TypeOK
<1>3. WorkersLock' /\ Connected' /\ EnqueueAccepted' /\ EnqueueOnce'
  BY <1>1, <1>2 DEF ServedInv, WorkersLock, Locks, Connected, EnqueueAccepted, EnqueueOnce
<1>4. FailedIsRetried'
  BY <1>1, <1>2 DEF ServedInv, FailedIsRetried, Exists, RepoOf, IsFinalAttempt
<1>5. BusyIsWorked'
  BY <1>1, <1>2 DEF ServedInv, BusyIsWorked, Serves, Runs
<1> QED
  BY <1>3, <1>4, <1>5 DEF ServedInv

(* The backend: no worker moves, and a job that changes is one it has not   *)
(* handed over yet. A repository turns busy with the job it accepts.        *)
LEMMA BackendServes ==
  ASSUME ServedInv, WellFormed', UNCHANGED worker,
         \A j \in Jobs : job[j].state \notin {"unused", "accepted"} => job'[j] = job[j],
         \A j \in Jobs : job[j].state = "accepted" =>
           job'[j].repo = job[j].repo /\ job'[j].state \in {"accepted", "waiting"},
         Connected', EnqueueAccepted', EnqueueOnce',
         \A r \in Repos : Exists(r)' => Exists(r) \/ status[r] = "unborn",
         \A r \in Repos : status'[r] \in NonTerminal =>
           \/ status[r] \in NonTerminal
           \/ \E j \in Jobs : job'[j].repo = r /\ job'[j].state = "accepted"
  PROVE  ServedInv'
<1>1. \A v \in Workers : worker[v].pc # "idle" =>
        worker[v].job \in Jobs /\ job'[worker[v].job] = job[worker[v].job]
  BY WorkersRunActive
<1>2. WorkersLock'
  BY <1>1 DEF ServedInv, WorkersLock, Locks
<1>3. FailedIsRetried'
  <2> SUFFICES ASSUME NEW v \in Workers, worker[v].pc = "failed", Exists(RepoOf(v))'
               PROVE  ~IsFinalAttempt(worker[v].job)'
    BY DEF FailedIsRetried
  <2>1. /\ job'[worker[v].job] = job[worker[v].job] /\ RepoOf(v) \in Repos /\ RepoOf(v)' = RepoOf(v)
        /\ status[RepoOf(v)] # "unborn"
    BY <1>1, WorkersRunActive DEF RepoOf, ServedInv, Connected
  <2>2. Exists(RepoOf(v))
    BY <2>1 DEF Exists
  <2> QED
    BY <2>1, <2>2 DEF ServedInv, FailedIsRetried, IsFinalAttempt
<1>4. BusyIsWorked'
  <2> SUFFICES ASSUME NEW r \in Repos, status'[r] \in NonTerminal
               PROVE  \E j \in Jobs : job'[j].repo = r /\ Serves(j)'
    BY DEF BusyIsWorked
  <2>1. CASE status[r] \in NonTerminal
    <3>1. PICK j \in Jobs : job[j].repo = r /\ Serves(j)
      BY <2>1 DEF ServedInv, BusyIsWorked
    <3>2. CASE job[j].state = "accepted"
      BY <3>1, <3>2 DEF Serves
    <3>3. CASE job[j].state # "accepted"
      <4>1. job[j].state # "unused"
        BY <3>1, WorkersRunActive DEF Serves, Runs
      <4> QED
        BY <3>1, <3>3, <4>1 DEF Serves, Runs
    <3> QED
      BY <3>2, <3>3
  <2>2. CASE \E j \in Jobs : job'[j].repo = r /\ job'[j].state = "accepted"
    BY <2>2 DEF Serves
  <2> QED
    BY <2>1, <2>2
<1> QED
  BY <1>2, <1>3, <1>4 DEF ServedInv

(* Requests, pushes and deletions that leave every job alone.               *)
LEMMA NoJobServes ==
  ASSUME ServedInv, WellFormed', UNCHANGED <<job, worker>>,
         \A r \in Repos : status'[r] = status[r] \/ (Exists(r) /\ status'[r] \in {"FAILED", "deleted"}),
         \A p \in Requests :
           \/ request'[p] = request[p] \/ request'[p].pc = "idle"
           \/ request'[p].pc = "read" /\ status[request'[p].repo] # "unborn"
  PROVE  ServedInv'
<1> USE Words
<1>1. \A r \in Repos : /\ status'[r] = "unborn" => status[r] = "unborn"
                       /\ Exists(r)' => Exists(r)
                       /\ status'[r] \in NonTerminal => status[r] \in NonTerminal
  BY DEF Exists
<1>2. EnqueueAccepted' /\ EnqueueOnce'
  BY DEF ServedInv, EnqueueAccepted, EnqueueOnce
<1>3. Connected'
  <2>1. \A j \in Jobs : job'[j].state # "unused" => status'[job'[j].repo] # "unborn"
    BY <1>1 DEF ServedInv, Connected, WellFormed, JobsHaveRepo
  <2>2. \A p \in Requests : request'[p].pc # "idle" => status'[request'[p].repo] # "unborn"
    BY <1>1 DEF ServedInv, Connected, WellFormed, RequestsHaveRepo
  <2> QED
    BY <2>1, <2>2 DEF Connected
<1> QED
  BY <1>1, <1>2, <1>3, BackendServes

LEMMA NewJobServes ==
  ASSUME ServedInv, WellFormed', UNCHANGED worker,
         NEW q \in Requests, NEW r \in Repos, NEW j \in Jobs,
         status[r] \in Terminal \/ status[r] = "unborn",
         job[j].state = "unused",
         status' = [status EXCEPT ![r] = "PENDING"],
         job'[j].state = "accepted", job'[j].repo = r,
         \A k \in Jobs : k # j => job'[k] = job[k],
         request'[q].pc \in {"enqueue", "connectEnqueue"},
         request'[q].repo = r, request'[q].job = j,
         \A p \in Requests : p # q => request'[p] = request[p]
  PROVE  ServedInv'
<1> USE Words
<1>1. status'[r] = "PENDING" /\ \A x \in Repos : x # r => status'[x] = status[x]
  BY DEF ServedInv, WellFormed, TypeOK
<1>2. Connected'
  BY <1>1 DEF ServedInv, Connected, WellFormed, JobsHaveRepo, RequestsHaveRepo
<1>3. \A p \in Requests : p # q /\ request[p].pc \in {"enqueue", "connectEnqueue"} =>
        request[p].job \in Jobs /\ request[p].job # j
  BY DEF ServedInv, EnqueueAccepted, WellFormed, RequestsHaveJob
<1>4. EnqueueAccepted' /\ EnqueueOnce'
  BY <1>3 DEF ServedInv, EnqueueAccepted, EnqueueOnce
<1>5. \A x \in Repos : Exists(x)' => Exists(x) \/ status[x] = "unborn"
  BY <1>1 DEF Exists
<1>6. \A x \in Repos : status'[x] \in NonTerminal =>
        \/ status[x] \in NonTerminal
        \/ \E k \in Jobs : job'[k].repo = x /\ job'[k].state = "accepted"
  BY <1>1
<1> QED
  BY <1>2, <1>4, <1>5, <1>6, BackendServes

(* With no command lost, an accepted job reaches the queue, reported or not.*)
LEMMA EnqueueServes ==
  ASSUME ServedInv, WellFormed', Faults \cap {"enqueue", "backendCrash"} = {}, NEW q \in Requests,
         EnqueueIndexJob(q) \/ EnqueueFails(q)
  PROVE  ServedInv'
<1> PICK j \in Jobs : j = request[q].job
  BY DEF EnqueueIndexJob, EnqueueFails, ServedInv, WellFormed, RequestsHaveJob
<1>1. /\ request[q].pc \in {"enqueue", "connectEnqueue"} /\ job[j].state = "accepted"
      /\ UNCHANGED <<status, worker>>
  BY DEF EnqueueIndexJob, EnqueueFails, ServedInv, EnqueueAccepted
<1>2. job' = [job EXCEPT ![j].state = "waiting"]
  BY DEF EnqueueIndexJob, EnqueueFails
<1>3. /\ job'[j].state = "waiting" /\ job'[j].repo = job[j].repo
      /\ \A k \in Jobs : k # j => job'[k] = job[k]
  BY <1>2 DEF ServedInv, WellFormed, TypeOK, JobRecords
<1>4. /\ \/ request'[q].pc = "idle"
         \/ request'[q].pc = "compensate" /\ request'[q].repo = request[q].repo
      /\ \A p \in Requests : p # q => request'[p] = request[p]
  BY DEF EnqueueIndexJob, EnqueueFails, AfterEnqueueError, Idle, ServedInv, WellFormed, TypeOK,
         RequestRecords
<1>5. Connected'
  BY <1>1, <1>3, <1>4 DEF ServedInv, Connected
<1>6. \A p \in Requests : p # q /\ request[p].pc \in {"enqueue", "connectEnqueue"} =>
        request[p].job \in Jobs /\ request[p].job # j
  BY <1>1 DEF ServedInv, EnqueueOnce, WellFormed, RequestsHaveJob
<1>7. EnqueueAccepted' /\ EnqueueOnce'
  BY <1>3, <1>4, <1>6 DEF ServedInv, EnqueueAccepted, EnqueueOnce
<1>8. \A r \in Repos : Exists(r)' => Exists(r)
  BY <1>1 DEF Exists
<1> QED
  BY <1>1, <1>3, <1>5, <1>7, <1>8, BackendServes

LEMMA AcceptServes ==
  ASSUME ServedInv, WellFormed', NEW q \in Requests, NEW r \in Repos, NEW j \in Jobs,
         ConnectRepository(q, r, j) \/ (AcceptIndexJob(q, j) /\ r = request[q].repo)
  PROVE  ServedInv'
<1>1. /\ job \in [Jobs -> JobRecords] /\ request \in [Requests -> RequestRecords]
      /\ UNCHANGED worker /\ job[j].state = "unused"
  BY DEF ConnectRepository, AcceptIndexJob, ServedInv, WellFormed, TypeOK
<1>2. /\ status' = [status EXCEPT ![r] = "PENDING"]
      /\ status[r] \in Terminal \/ status[r] = "unborn"
  BY DEF ConnectRepository, AcceptIndexJob, StatusStillSeen, ServedInv, WellFormed, RequestsHaveJob
<1>3. /\ job'[j].state = "accepted" /\ job'[j].repo = r
      /\ \A k \in Jobs : k # j => job'[k] = job[k]
  BY <1>1 DEF ConnectRepository, AcceptIndexJob, NewJob
<1>4. /\ request'[q].pc \in {"enqueue", "connectEnqueue"}
      /\ request'[q].repo = r /\ request'[q].job = j
      /\ \A p \in Requests : p # q => request'[p] = request[p]
  BY <1>1 DEF ConnectRepository, AcceptIndexJob, RequestRecords
<1> QED
  BY <1>1, <1>2, <1>3, <1>4, NewJobServes

LEMMA ServedInvStep ==
  ASSUME Faults \subseteq SettlingFaults, ServedInv, [Next]_vars
  PROVE  ServedInv'
<1> USE Words
<1>0. Faults \cap {"mark", "workerCrash", "enqueue", "backendCrash", "lockLoss"} = {}
  BY DEF SettlingFaults
<1>1. WellFormed'
  BY WellFormedStep DEF ServedInv
<1>2. ASSUME NEW q \in Requests, RequestStep(q) PROVE ServedInv'
  <2>1. CASE \E j \in Jobs : AcceptIndexJob(q, j)
    <3>1. request[q].repo \in Repos
      BY <2>1 DEF AcceptIndexJob, ServedInv, WellFormed, RequestsHaveRepo
    <3> QED
      BY <1>1, <2>1, <3>1, AcceptServes
  <2>2. CASE RejectIndexJob(q) \/ MarkConnectFailed(q)
    <3>1. request[q].repo \in Repos
      BY <2>2 DEF RejectIndexJob, MarkConnectFailed, ServedInv, WellFormed, RequestsHaveRepo
    <3>2. \A p \in Requests : request'[p] = request[p] \/ request'[p].pc = "idle"
      BY <2>2 DEF RejectIndexJob, MarkConnectFailed, Idle, ServedInv, WellFormed, TypeOK
    <3>3. \A r \in Repos : status'[r] = status[r] \/ (Exists(r) /\ status'[r] \in {"FAILED", "deleted"})
      BY <2>2, <3>1 DEF RejectIndexJob, MarkConnectFailed, ServedInv, WellFormed, TypeOK
    <3> QED
      BY <1>1, <2>2, <3>2, <3>3, NoJobServes DEF RejectIndexJob, MarkConnectFailed
  <2> QED
    BY <1>0, <1>1, <1>2, <2>1, <2>2, EnqueueServes DEF RequestStep
<1>3. ASSUME NEW w \in Workers, WorkerStep(w) PROVE ServedInv'
  BY <1>0, <1>1, <1>3, StagesServe, EndsServe, AckServes DEF WorkerStep
<1>4. ASSUME NEW q \in Requests, NEW r \in Repos, TriggerFullIndex(q, r) \/ HandlePushEvent(q, r)
      PROVE  ServedInv'
  <2>1. \A p \in Requests :
          \/ request'[p] = request[p]
          \/ request'[p].pc = "read" /\ status[request'[p].repo] # "unborn"
    BY <1>4 DEF TriggerFullIndex, HandlePushEvent, ReadStatus, ServedInv, WellFormed, TypeOK
  <2> QED
    BY <1>1, <1>4, <2>1, NoJobServes DEF TriggerFullIndex, HandlePushEvent
<1>5. ASSUME NEW r \in Repos, PushCommit(r) \/ DeleteRepository(r) PROVE ServedInv'
  <2>1. \A x \in Repos : status'[x] = status[x] \/ (Exists(x) /\ status'[x] \in {"FAILED", "deleted"})
    BY <1>5 DEF PushCommit, DeleteRepository, ServedInv, WellFormed, TypeOK
  <2> QED
    BY <1>1, <1>5, <2>1, NoJobServes DEF PushCommit, DeleteRepository
<1>6. CASE Environment
  BY <1>0, <1>1, <1>4, <1>5, <1>6, AcceptServes, LateCrashServes DEF Environment, BackendCrash
<1>7. CASE UNCHANGED vars
  BY <1>1, <1>7, NoJobServes DEF vars
<1> QED
  BY <1>0, <1>1, <1>2, <1>3, <1>6, <1>7, TakeJobServes, PromoteServes, RequeueServes DEF Next

LEMMA ServedInvInit == Init => ServedInv
<1> SUFFICES ASSUME Init PROVE ServedInv
  OBVIOUS
<1>1. WellFormed
  BY Words DEF Init, Idle, Free, WellFormed, TypeOK, WorkersHaveJob, JobsHaveRepo,
       RequestsHaveRepo, RequestsHaveJob, RequestRecords, JobRecords, WorkerRecords
<1>2. /\ \A j \in Jobs : job[j].state = "unused"
      /\ \A q \in Requests : request[q].pc = "idle"
      /\ \A w \in Workers : worker[w].pc = "idle"
      /\ \A r \in Repos : status[r] \notin NonTerminal
  BY Words DEF Init, Idle, Free
<1> QED
  BY <1>1, <1>2 DEF ServedInv, WorkersLock, Connected, EnqueueAccepted, EnqueueOnce,
     FailedIsRetried, BusyIsWorked

(* A job that serves is live: a worker before its last two stages holds the *)
(* only lock, so that none has settled the job.                             *)
LEMMA ServedIsServed == ServedInv => BusyHasJob
<1> SUFFICES ASSUME ServedInv, NEW r \in Repos, status[r] \in NonTerminal
             PROVE  \E j \in Jobs : job[j].repo = r /\ Live(j)
  BY DEF BusyHasJob
<1>1. PICK j \in Jobs : job[j].repo = r /\ Serves(j)
  BY DEF ServedInv, BusyIsWorked
<1>2. CASE job[j].state \in {"accepted", "waiting", "delayed"}
  BY <1>1, <1>2 DEF Live
<1>3. CASE \E w \in Workers : Runs(w, j) /\ worker[w].pc \notin LatePcs
  BY <1>1, <1>3, WorkersRunActive DEF Live, Settled, Runs
<1> QED
  BY <1>1, <1>2, <1>3 DEF Serves

(* A repository shown as being indexed is never stuck, although a log that  *)
(* fails after INDEXED, or an enqueue that fails after being applied, lets  *)
(* two jobs of it run side by side.                                         *)
THEOREM NeverStuck ==
  ASSUME Faults \subseteq SettlingFaults
  PROVE  Spec => []BusyHasJob
<1>1. ServedInv /\ [Next]_vars => ServedInv'
  BY ServedInvStep
<1> QED
  BY <1>1, ServedInvInit, ServedIsServed, PTL DEF Spec

(* The same of the instances that jobs_settle checks.                       *)
THEOREM SettlingNeverStuck ==
  ASSUME Faults \subseteq SettlingFaults
  PROVE  EitherSpec => []BusyIsServed
<1> DEFINE Inv == turn = "two" => ServedInv
<1>1. EitherInit => Inv
  BY ServedInvInit DEF EitherInit
<1>2. Inv /\ [Either(Next, All!Next)]_EitherVars => Inv'
  <2> SUFFICES ASSUME Inv, [Either(Next, All!Next)]_EitherVars, turn' = "two"
               PROVE  ServedInv'
    OBVIOUS
  <2>1. turn = "two" /\ [Next]_vars
    BY DEF Either, EitherVars
  <2> QED
    BY <2>1, ServedInvStep
<1>3. Inv => BusyIsServed
  BY ServedIsServed DEF BusyIsServed
<1> HIDE DEF Inv
<1> QED
  BY <1>1, <1>2, <1>3, PTL DEF EitherSpec

-----------------------------------------------------------------------------
(* The status of a repository is a lock.                                    *)

(* A worker that wrote FAILED did so in the last attempt BullMQ allows.    *)
MarkedIsFinal ==
  \A w \in Workers : worker[w].pc = "marked" => job[worker[w].job].made + 1 >= MaxAttempts

(* At most one request connects a repository, and while it compensates for *)
(* a lost job the repository is busy with no job at all.                   *)
ConnectOnce ==
  \A p, q \in Requests :
    /\ request[p].pc \in {"connectEnqueue", "compensate"}
    /\ request[q].pc \in {"connectEnqueue", "compensate"}
    /\ request[p].repo = request[q].repo
    => p = q

CompensateAlone ==
  \A q \in Requests : request[q].pc = "compensate" /\ Exists(request[q].repo) =>
    /\ status[request[q].repo] \in NonTerminal
    /\ \A j \in Jobs : Live(j) => job[j].repo # request[q].repo

(* The inductive invariant behind SingleLiveJob and LiveMeansBusy, kept by *)
(* every fault that strikes before a job gives the status back.            *)
IndInv ==
  /\ WellFormed
  /\ WorkersLock /\ MarkedIsFinal /\ Connected
  /\ EnqueueAccepted /\ EnqueueOnce /\ ConnectOnce /\ CompensateAlone
  /\ SingleLiveJob /\ LiveMeansBusy

(* What the actions of workers and of BullMQ do to the rest of IndInv.      *)
JobsKept ==
  \A j \in Jobs :
    /\ job'[j].repo = job[j].repo
    /\ job[j].state = "accepted" => job'[j].state = "accepted"
    /\ job'[j].state # "unused" => job[j].state # "unused"

LiveShrinks == \A j \in Jobs : Live(j)' /\ Exists(job[j].repo)' => Live(j)

(* A status changes within the busy ones, or with the last live job's end.  *)
StatusFollows ==
  \A r \in Repos :
    \/ status'[r] = status[r]
    \/ status'[r] = "deleted" /\ Exists(r)
    \/ status'[r] \in NonTerminal /\ Exists(r) /\ \E j \in Jobs : Live(j) /\ job[j].repo = r
    \/ /\ status'[r] \in Terminal /\ Exists(r)
       /\ \E j \in Jobs : Live(j) /\ job[j].repo = r
       /\ \A j \in Jobs : Live(j)' => job[j].repo # r

(* Such an action keeps IndInv.                                             *)
LEMMA WorkerSide ==
  ASSUME IndInv, WellFormed', UNCHANGED request, JobsKept, LiveShrinks, StatusFollows,
         WorkersLock', MarkedIsFinal'
  PROVE  IndInv'
<1> USE Words DEF IndInv
<1>1. \A r \in Repos : Exists(r)' => Exists(r)
  BY DEF StatusFollows, Exists
<1>2. \A r \in Repos : status'[r] = "unborn" => status[r] = "unborn"
  BY DEF StatusFollows, Exists
<1>3. Connected'
  BY <1>2 DEF Connected, JobsKept, WellFormed, JobsHaveRepo, RequestsHaveRepo
<1>4. EnqueueAccepted' /\ EnqueueOnce' /\ ConnectOnce'
  BY DEF EnqueueAccepted, EnqueueOnce, ConnectOnce, JobsKept, WellFormed, RequestsHaveJob
<1>5. \A j \in Jobs : Live(j)' => job'[j].repo \in Repos /\ job[j].repo = job'[j].repo
  <2>1. \A j \in Jobs : Live(j)' => job'[j].state # "unused"
    BY DEF Live
  <2>2. QED
    BY <2>1 DEF WellFormed, JobsHaveRepo, JobsKept
<1>6. SingleLiveJob'
  BY <1>1, <1>5 DEF SingleLiveJob, LiveShrinks
<1>7. LiveMeansBusy'
  BY <1>1, <1>5 DEF LiveMeansBusy, LiveShrinks, StatusFollows, Exists
<1>8. CompensateAlone'
  <2> SUFFICES ASSUME NEW q \in Requests, request[q].pc = "compensate",
                      Exists(request[q].repo)'
               PROVE  /\ status'[request[q].repo] \in NonTerminal
                      /\ \A j \in Jobs : Live(j)' => job'[j].repo # request[q].repo
    BY DEF CompensateAlone
  <2>1. request[q].repo \in Repos
    BY DEF WellFormed, RequestsHaveRepo
  <2>2. Exists(request[q].repo)
    BY <1>1, <2>1
  <2>3. status[request[q].repo] \in NonTerminal
        /\ \A j \in Jobs : Live(j) => job[j].repo # request[q].repo
    BY <2>2 DEF CompensateAlone
  <2>4. status'[request[q].repo] \in NonTerminal
    BY <2>1, <2>3 DEF StatusFollows, Exists
  <2>5. \A j \in Jobs : Live(j)' => job'[j].repo # request[q].repo
    BY <1>5, <2>3 DEF LiveShrinks
  <2>6. QED
    BY <2>4, <2>5
<1>9. QED
  BY <1>3, <1>4, <1>6, <1>7, <1>8

(* Two workers never run the same job, and one that has not yet written a   *)
(* terminal status runs a live one.                                         *)
LEMMA OneRunner ==
  ASSUME IndInv, NEW v \in Workers, NEW w \in Workers, worker[v].pc # "idle",
         worker[w].pc # "idle", worker[v].job = worker[w].job
  PROVE  v = w
  BY DEF IndInv, WorkersLock, Locks

LEMMA RunningIsLive ==
  ASSUME IndInv, NEW w \in Workers, worker[w].pc # "idle"
  PROVE  /\ worker[w].job \in Jobs
         /\ RepoOf(w) \in Repos
         /\ job[worker[w].job].state = "active"
         /\ worker[w].pc \notin LatePcs => Live(worker[w].job)
<1>1. worker[w].job \in Jobs /\ RepoOf(w) \in Repos
  BY DEF IndInv, WellFormed, WorkersHaveJob, JobsHaveRepo, RepoOf
<1>2. job[worker[w].job].state = "active"
  BY DEF IndInv, WorkersLock, Locks
<1>3. ASSUME worker[w].pc \notin LatePcs PROVE ~Settled(worker[w].job)
  BY <1>3, OneRunner DEF Settled, Runs
<1>4. QED
  BY <1>1, <1>2, <1>3 DEF Live

LEMMA GoesOnKeeps ==
  ASSUME IndInv, NEW w \in Workers, GoesOn(w),
         \/ worker[w].pc \notin LatePcs
         \/ worker'[w].pc \in LatePcs
         \/ ~Exists(RepoOf(w))'
  PROVE  JobsKept /\ LiveShrinks /\ WorkersLock'
<1>1. JobsKept
  BY DEF GoesOn, JobsKept
<1>2. WorkersLock'
  BY DEF GoesOn, IndInv, WorkersLock, Locks
<1>3. LiveShrinks
  <2> SUFFICES ASSUME NEW j \in Jobs, job[j].state = "active", Settled(j), ~Settled(j)'
               PROVE  ~Exists(job[j].repo)'
    BY DEF LiveShrinks, Live, GoesOn
  <2>1. PICK v \in Workers : Runs(v, j) /\ Locks(v) /\ worker[v].pc \in LatePcs
    BY DEF Settled
  <2>2. CASE v # w
    BY <2>1, <2>2 DEF Settled, Runs, Locks, GoesOn
  <2>3. CASE v = w
    BY <2>1, <2>3 DEF Settled, Runs, Locks, GoesOn, RepoOf
  <2>4. QED
    BY <2>2, <2>3
<1>4. QED
  BY <1>1, <1>2, <1>3

(* WriteStatus with a busy status, by the worker of a live job.             *)
LEMMA BusyStatusFollows ==
  ASSUME IndInv, NEW w \in Workers, worker[w].pc # "idle", worker[w].pc \notin LatePcs,
         NEW s \in NonTerminal, WriteStatus(RepoOf(w), s)
  PROVE  StatusFollows
<1>1. worker[w].job \in Jobs /\ RepoOf(w) \in Repos /\ Live(worker[w].job)
  BY RunningIsLive
<1>2. \A r \in Repos : r # RepoOf(w) => status'[r] = status[r]
  BY <1>1 DEF WriteStatus, IndInv, WellFormed, TypeOK
<1>3. \/ status'[RepoOf(w)] = status[RepoOf(w)]
      \/ status'[RepoOf(w)] = s /\ Exists(RepoOf(w))
  BY <1>1 DEF WriteStatus, IndInv, WellFormed, TypeOK
<1>4. QED
  BY <1>1, <1>2, <1>3 DEF StatusFollows, RepoOf

(* Writing INDEXED or FAILED, by the worker of a live job, which settles    *)
(* it: no other job of the repository is live.                              *)
LEMMA TerminalStatusFollows ==
  ASSUME IndInv, WellFormed', NEW w \in Workers, GoesOn(w), worker[w].pc \notin LatePcs,
         worker'[w].pc \in LatePcs, NEW s \in Terminal, WriteStatus(RepoOf(w), s)
  PROVE  StatusFollows
<1>1. worker[w].job \in Jobs /\ RepoOf(w) \in Repos /\ Live(worker[w].job)
  BY RunningIsLive DEF GoesOn
<1>2. \A r \in Repos : r # RepoOf(w) => status'[r] = status[r]
  BY <1>1 DEF WriteStatus, IndInv, WellFormed, TypeOK
<1>3. CASE ~Exists(RepoOf(w))
  BY <1>2, <1>3 DEF StatusFollows, WriteStatus
<1>4. CASE Exists(RepoOf(w))
  <2>1. status'[RepoOf(w)] = s
    BY <1>1, <1>4 DEF WriteStatus, IndInv, WellFormed, TypeOK
  <2>2. \A j \in Jobs : j = worker[w].job => ~Live(j)'
    <3> SUFFICES ASSUME NEW j \in Jobs, j = worker[w].job PROVE ~Live(j)'
      OBVIOUS
    <3>1. job'[j].state = "active" /\ job'[j].holder = w
      BY DEF GoesOn, IndInv, WorkersLock, Locks
    <3>2. Settled(j)'
      BY <3>1 DEF Settled, Runs, Locks, GoesOn
    <3>3. QED
      BY <3>1, <3>2 DEF Live
  <2>3. LiveShrinks
    BY GoesOnKeeps
  <2>4. \A j \in Jobs : Live(j)' => job[j].repo # RepoOf(w)
    <3> SUFFICES ASSUME NEW j \in Jobs, Live(j)', job[j].repo = RepoOf(w) PROVE FALSE
      OBVIOUS
    <3>1. Exists(job[j].repo)'
      BY <2>1, Words DEF Exists, GoesOn
    <3>2. Live(j)
      BY <3>1, <2>3 DEF LiveShrinks
    <3>3. j = worker[w].job
      BY <1>1, <1>4, <3>2 DEF IndInv, SingleLiveJob, RepoOf
    <3>4. QED
      BY <2>2, <3>3
  <2>5. QED
    BY <1>1, <1>2, <1>4, <2>1, <2>4 DEF StatusFollows, RepoOf
<1>5. QED
  BY <1>3, <1>4

-----------------------------------------------------------------------------
(* The worker's actions, one lemma for those of a kind.                     *)

LEMMA StagesKeepIndInv ==
  ASSUME IndInv, WellFormed', NEW w \in Workers,
         BeginIndex(w) \/ CloneRepository(w) \/ ParseFiles(w) \/ EmbedChunks(w)
  PROVE  IndInv'
<1> USE DEF BeginIndex, CloneRepository, ParseFiles, EmbedChunks
<1>1. worker[w].pc # "idle" /\ worker[w].pc \notin LatePcs
  BY DEF LatePcs
<1>2. GoesOn(w) /\ worker'[w].pc # "marked"
  BY DEF GoesOn, Goto, IndInv, WellFormed, TypeOK, WorkerRecords
<1>3. StatusFollows
  <2>1. PICK s \in NonTerminal : WriteStatus(RepoOf(w), s)
    BY Words DEF WriteStatus
  <2>2. QED
    BY <1>1, <2>1, BusyStatusFollows
<1>4. JobsKept /\ LiveShrinks /\ WorkersLock'
  BY <1>1, <1>2, GoesOnKeeps
<1>5. MarkedIsFinal'
  BY <1>2 DEF GoesOn, IndInv, MarkedIsFinal
<1>6. QED
  BY <1>2, <1>3, <1>4, <1>5, WorkerSide DEF GoesOn

LEMMA StoreIndexKeepsIndInv ==
  ASSUME IndInv, WellFormed', NEW w \in Workers, StoreIndex(w)
  PROVE  IndInv'
<1>1. worker[w].pc \notin LatePcs
  BY DEF StoreIndex, LatePcs
<1>2. GoesOn(w) /\ worker'[w].pc = "logging" /\ worker'[w].pc \in LatePcs
  BY DEF StoreIndex, GoesOn, Goto, IndInv, WellFormed, TypeOK, WorkerRecords, LatePcs
<1>3. StatusFollows
  BY <1>1, <1>2, Words, TerminalStatusFollows DEF StoreIndex
<1>4. JobsKept /\ LiveShrinks /\ WorkersLock'
  BY <1>1, <1>2, GoesOnKeeps
<1>5. MarkedIsFinal'
  BY <1>2 DEF GoesOn, IndInv, MarkedIsFinal
<1>6. QED
  BY <1>2, <1>3, <1>4, <1>5, WorkerSide DEF GoesOn

LEMMA UsageLogKeepsIndInv ==
  ASSUME IndInv, WellFormed', NEW w \in Workers, WriteIndexingUsageLog(w)
  PROVE  IndInv'
<1>1. GoesOn(w) /\ worker'[w].pc = "done" /\ worker'[w].pc \in LatePcs
  BY DEF WriteIndexingUsageLog, GoesOn, Goto, IndInv, WellFormed, TypeOK, WorkerRecords, LatePcs
<1>2. JobsKept /\ LiveShrinks /\ WorkersLock'
  BY <1>1, GoesOnKeeps
<1>3. StatusFollows
  BY DEF WriteIndexingUsageLog, StatusFollows
<1>4. MarkedIsFinal'
  BY <1>1 DEF GoesOn, IndInv, MarkedIsFinal
<1>5. QED
  BY <1>1, <1>2, <1>3, <1>4, WorkerSide DEF GoesOn

(* After INDEXED only a deleted repository makes the pipeline raise, and    *)
(* then the job is live again, but of no repository.                        *)
LEMMA RaiseKeepsIndInv ==
  ASSUME IndInv, WellFormed', Faults \subseteq EarlyFaults, NEW w \in Workers,
         PipelineRaises(w)
  PROVE  IndInv'
<1>1. GoesOn(w) /\ worker'[w].pc = "raised"
  BY DEF PipelineRaises, GoesOn, Goto, StagePcs, IndInv, WellFormed, TypeOK, WorkerRecords
<1>2. worker[w].pc \notin LatePcs \/ ~Exists(RepoOf(w))
  BY DEF PipelineRaises, StagePcs, LatePcs, EarlyFaults
<1>3. RepoOf(w)' = RepoOf(w) /\ status' = status
  BY <1>1 DEF GoesOn, RepoOf, PipelineRaises
<1>4. JobsKept /\ LiveShrinks /\ WorkersLock'
  <2>1. ~Exists(RepoOf(w)) => ~Exists(RepoOf(w))'
    BY <1>3 DEF Exists
  <2>2. QED
    BY <1>1, <1>2, <2>1, GoesOnKeeps
<1>5. StatusFollows
  BY <1>3 DEF StatusFollows
<1>6. MarkedIsFinal'
  BY <1>1 DEF GoesOn, IndInv, MarkedIsFinal
<1>7. QED
  BY <1>1, <1>4, <1>5, <1>6, WorkerSide DEF GoesOn

LEMMA FailureKeepsIndInv ==
  ASSUME IndInv, WellFormed', NEW w \in Workers, HandleJobFailure(w)
  PROVE  IndInv'
<1>1. worker[w].pc = "raised" /\ worker[w].pc \notin LatePcs /\ GoesOn(w)
  BY DEF HandleJobFailure, GoesOn, Goto, LatePcs, IndInv, WellFormed, TypeOK, WorkerRecords
<1>2. JobsKept /\ LiveShrinks /\ WorkersLock'
  BY <1>1, GoesOnKeeps
<1>3. CASE worker'[w].pc = "marked" /\ IsFinalAttempt(worker[w].job)
           /\ WriteStatus(RepoOf(w), "FAILED")
  <2>1. StatusFollows
    BY <1>1, <1>3, Words, TerminalStatusFollows DEF LatePcs
  <2>2. MarkedIsFinal'
    BY <1>1, <1>3 DEF GoesOn, IndInv, MarkedIsFinal, IsFinalAttempt
  <2>3. QED
    BY <1>1, <1>2, <2>1, <2>2, WorkerSide DEF GoesOn
<1>4. CASE worker'[w].pc = "failed" /\ UNCHANGED status
  <2>1. StatusFollows
    BY <1>4 DEF StatusFollows
  <2>2. MarkedIsFinal'
    BY <1>1, <1>4 DEF GoesOn, IndInv, MarkedIsFinal
  <2>3. QED
    BY <1>1, <1>2, <2>1, <2>2, WorkerSide DEF GoesOn
<1>5. QED
  BY <1>3, <1>4 DEF HandleJobFailure, Goto, WriteStatus, IndInv, WellFormed, TypeOK, WorkerRecords

(* A worker goes idle, and its job leaves the active state with it.         *)
LEMMA AckKeeps ==
  ASSUME IndInv, WellFormed', NEW w \in Workers, worker[w].pc # "idle",
         worker' = [worker EXCEPT ![w] = Free], UNCHANGED <<status, request>>,
         \A j \in Jobs : j # worker[w].job => job'[j] = job[j],
         job'[worker[w].job].repo = job[worker[w].job].repo,
         job'[worker[w].job].state \in {"completed", "delayed", "failed"},
         worker[w].pc \in LatePcs => job'[worker[w].job].state # "delayed"
  PROVE  IndInv'
<1>1. worker[w].job \in Jobs /\ job[worker[w].job].state = "active"
  BY RunningIsLive
<1>2. JobsKept
  BY <1>1 DEF JobsKept
<1>3. worker'[w].pc = "idle" /\ \A v \in Workers : v # w => worker'[v] = worker[v]
  BY DEF Free, IndInv, WellFormed, TypeOK
<1>4. \A v \in Workers : v # w /\ worker[v].pc # "idle" => job'[worker[v].job] = job[worker[v].job]
  BY OneRunner, RunningIsLive
<1>5. WorkersLock'
  BY <1>3, <1>4 DEF IndInv, WorkersLock, Locks
<1>6. MarkedIsFinal'
  BY <1>3, <1>4 DEF IndInv, MarkedIsFinal
<1>7. LiveShrinks
  <2> SUFFICES ASSUME NEW j \in Jobs, Live(j)', ~Live(j) PROVE FALSE
    BY DEF LiveShrinks
  <2>1. CASE j = worker[w].job
    <3>1. job'[j].state = "delayed"
      BY <2>1 DEF Live
    <3>2. QED
      BY <2>1, <3>1, RunningIsLive
  <2>2. CASE j # worker[w].job
    <3>1. job'[j] = job[j] /\ job[j].state = "active" /\ Settled(j) /\ ~Settled(j)'
      BY <2>2 DEF Live
    <3>2. PICK v \in Workers : Runs(v, j) /\ Locks(v) /\ worker[v].pc \in LatePcs
      BY <3>1 DEF Settled
    <3>3. v # w
      BY <2>2, <3>2 DEF Runs
    <3>4. Settled(j)'
      BY <1>3, <1>4, <3>2, <3>3 DEF Settled, Runs, Locks
    <3>5. QED
      BY <3>1, <3>4
  <2>3. QED
    BY <2>1, <2>2
<1>8. StatusFollows
  BY DEF StatusFollows
<1>9. QED
  BY <1>2, <1>5, <1>6, <1>7, <1>8, WorkerSide

LEMMA AckCompletedKeepsIndInv ==
  ASSUME IndInv, WellFormed', NEW w \in Workers, AckCompleted(w)
  PROVE  IndInv'
<1>1. worker[w].pc # "idle" /\ Locks(w) /\ worker[w].job \in Jobs
  BY RunningIsLive DEF AckCompleted, IndInv, WorkersLock
<1>2. /\ \A j \in Jobs : j # worker[w].job => job'[j] = job[j]
      /\ job'[worker[w].job].repo = job[worker[w].job].repo
      /\ job'[worker[w].job].state = "completed"
  BY <1>1 DEF AckCompleted, IndInv, WellFormed, TypeOK, JobRecords
<1>3. QED
  BY <1>1, <1>2, AckKeeps DEF AckCompleted

LEMMA AckFailedKeepsIndInv ==
  ASSUME IndInv, WellFormed', NEW w \in Workers, AckFailed(w)
  PROVE  IndInv'
<1>1. worker[w].pc # "idle" /\ Locks(w) /\ worker[w].job \in Jobs
  BY RunningIsLive DEF AckFailed, IndInv, WorkersLock
<1>2. PICK outcome \in {"delayed", "failed"} :
        /\ outcome = "delayed" <=> job[worker[w].job].made + 1 < MaxAttempts
        /\ job' = [job EXCEPT ![worker[w].job].state = outcome,
                              ![worker[w].job].made = @ + 1,
                              ![worker[w].job].holder = None]
  BY <1>1 DEF AckFailed
<1>3. /\ \A j \in Jobs : j # worker[w].job => job'[j] = job[j]
      /\ job'[worker[w].job].repo = job[worker[w].job].repo
      /\ job'[worker[w].job].state = outcome
  BY <1>1, <1>2 DEF IndInv, WellFormed, TypeOK, JobRecords
<1>4. worker[w].pc \in LatePcs => outcome # "delayed"
  <2>1. worker[w].pc \in LatePcs => job[worker[w].job].made + 1 >= MaxAttempts
    BY DEF AckFailed, LatePcs, IndInv, MarkedIsFinal
  <2>2. job[worker[w].job].made \in Nat
    BY <1>1 DEF IndInv, WellFormed, TypeOK, JobRecords
  <2>3. QED
    BY <1>2, <2>1, <2>2, BoundAssumption
<1>5. QED
  BY <1>1, <1>3, <1>4, AckKeeps DEF AckFailed

(* A worker that dies before it settled its job leaves it live.             *)
LEMMA WorkerCrashKeepsIndInv ==
  ASSUME IndInv, WellFormed', Faults \subseteq EarlyFaults, NEW w \in Workers, WorkerCrash(w)
  PROVE  IndInv'
<1>1. worker[w].pc # "idle" /\ worker[w].pc \notin LatePcs
  BY DEF WorkerCrash, EarlyFaults
<1>2. worker'[w].pc = "idle" /\ \A v \in Workers : v # w => worker'[v] = worker[v]
  BY DEF WorkerCrash, Free, IndInv, WellFormed, TypeOK
<1>3. JobsKept /\ StatusFollows
  BY DEF WorkerCrash, JobsKept, StatusFollows
<1>4. WorkersLock' /\ MarkedIsFinal'
  BY <1>2 DEF WorkerCrash, IndInv, WorkersLock, MarkedIsFinal, Locks
<1>5. LiveShrinks
  BY <1>1, <1>2 DEF WorkerCrash, LiveShrinks, Live, Settled, Runs, Locks
<1>6. QED
  BY <1>3, <1>4, <1>5, WorkerSide DEF WorkerCrash

-----------------------------------------------------------------------------
(* BullMQ's actions: they change the state and the holder of one job that   *)
(* no worker is running, and it was live before.                            *)
LEMMA QueueKeeps ==
  ASSUME IndInv, WellFormed', NEW j \in Jobs, Live(j), job[j].state # "accepted",
         UNCHANGED <<status, request>>,
         \A k \in Jobs : k # j => job'[k] = job[k],
         job'[j].repo = job[j].repo,
         \A v \in Workers : ~Runs(v, j),
         \A v \in Workers : worker[v].pc # "idle" => worker'[v] = worker[v],
         \A v \in Workers : worker'[v].pc # "idle" /\ worker[v].pc = "idle" =>
            worker'[v].job = j /\ worker'[v].pc = "start" /\ Locks(v)'
  PROVE  IndInv'
<1>1. JobsKept /\ StatusFollows
  BY DEF JobsKept, StatusFollows, Live
<1>2. \A v \in Workers : worker[v].pc # "idle" =>
        /\ worker[v].job \in Jobs /\ worker[v].job # j /\ worker'[v] = worker[v]
        /\ job'[worker[v].job] = job[worker[v].job]
  BY RunningIsLive DEF Runs
<1>3. WorkersLock' /\ MarkedIsFinal'
  BY <1>2 DEF IndInv, WorkersLock, MarkedIsFinal, Locks
<1>4. LiveShrinks
  <2> SUFFICES ASSUME NEW k \in Jobs, k # j, Live(k)', ~Live(k) PROVE FALSE
    BY DEF LiveShrinks
  <2>1. job'[k] = job[k] /\ job[k].state = "active" /\ Settled(k) /\ ~Settled(k)'
    BY DEF Live
  <2>2. PICK v \in Workers : Runs(v, k) /\ Locks(v) /\ worker[v].pc \in LatePcs
    BY <2>1 DEF Settled
  <2>3. Settled(k)'
    BY <1>2, <2>1, <2>2 DEF Settled, Runs, Locks
  <2>4. QED
    BY <2>1, <2>3
<1>5. QED
  BY <1>1, <1>3, <1>4, WorkerSide

LEMMA TakeJobKeepsIndInv ==
  ASSUME IndInv, WellFormed', NEW w \in Workers, NEW j \in Jobs, TakeJob(w, j)
  PROVE  IndInv'
<1>1. Live(j) /\ job[j].state = "waiting"
  BY DEF TakeJob, Live
<1>2. \A v \in Workers : ~Runs(v, j)
  BY <1>1, RunningIsLive DEF Runs
<1>3. /\ \A k \in Jobs : k # j => job'[k] = job[k]
      /\ job'[j].repo = job[j].repo /\ job'[j].state = "active" /\ job'[j].holder = w
  BY DEF TakeJob, IndInv, WellFormed, TypeOK, JobRecords
<1>4. /\ \A v \in Workers : v # w => worker'[v] = worker[v]
      /\ worker[w].pc = "idle" /\ worker'[w].pc = "start" /\ worker'[w].job = j
  BY DEF TakeJob, IndInv, WellFormed, TypeOK
<1>5. \A v \in Workers : worker'[v].pc # "idle" /\ worker[v].pc = "idle" =>
        worker'[v].job = j /\ worker'[v].pc = "start" /\ Locks(v)'
  BY <1>3, <1>4 DEF Locks
<1>6. QED
  BY <1>1, <1>2, <1>3, <1>4, <1>5, QueueKeeps DEF TakeJob

LEMMA PromoteKeepsIndInv ==
  ASSUME IndInv, WellFormed', NEW j \in Jobs, PromoteDelayed(j)
  PROVE  IndInv'
<1>1. Live(j) /\ job[j].state = "delayed"
  BY DEF PromoteDelayed, Live
<1>2. \A v \in Workers : ~Runs(v, j)
  BY <1>1, RunningIsLive DEF Runs
<1>3. /\ \A k \in Jobs : k # j => job'[k] = job[k]
      /\ job'[j].repo = job[j].repo
  BY DEF PromoteDelayed, IndInv, WellFormed, TypeOK, JobRecords
<1>4. QED
  BY <1>1, <1>2, <1>3, QueueKeeps DEF PromoteDelayed

(* With no lock lost, a stalled job is one whose worker died.               *)
LEMMA RequeueKeepsIndInv ==
  ASSUME IndInv, WellFormed', Faults \subseteq EarlyFaults, NEW j \in Jobs, RequeueStalled(j)
  PROVE  IndInv'
<1>1. Orphaned(j) /\ job[j].state = "active"
  BY DEF RequeueStalled, EarlyFaults
<1>2. \A v \in Workers : ~Runs(v, j)
  BY <1>1 DEF Orphaned, Runs, IndInv, WorkersLock, Locks
<1>3. Live(j)
  BY <1>1, <1>2 DEF Live, Settled
<1>4. PICK outcome \in {"waiting", "failed"} :
        job' = [job EXCEPT ![j].state = outcome, ![j].stalls = @ + 1, ![j].holder = None]
  BY DEF RequeueStalled
<1>5. /\ \A k \in Jobs : k # j => job'[k] = job[k]
      /\ job'[j].repo = job[j].repo
  BY <1>4 DEF IndInv, WellFormed, TypeOK, JobRecords
<1>6. QED
  BY <1>1, <1>2, <1>3, <1>5, QueueKeeps DEF RequeueStalled

LEMMA DeleteKeepsIndInv ==
  ASSUME IndInv, WellFormed', NEW r \in Repos, DeleteRepository(r)
  PROVE  IndInv'
<1>1. StatusFollows
  BY DEF DeleteRepository, StatusFollows, IndInv, WellFormed, TypeOK
<1>2. JobsKept /\ LiveShrinks /\ WorkersLock' /\ MarkedIsFinal'
  BY DEF DeleteRepository, JobsKept, LiveShrinks, Live, Settled, Runs, Locks, IndInv,
         WorkersLock, MarkedIsFinal
<1>3. QED
  BY <1>1, <1>2, WorkerSide DEF DeleteRepository

-----------------------------------------------------------------------------
(* The backend's actions. They move no worker; a job they change is one no  *)
(* worker has yet.                                                          *)
LEMMA BackendKeepsWorkers ==
  ASSUME IndInv, UNCHANGED worker,
         \A j \in Jobs : job[j].state = "active" => job'[j] = job[j]
  PROVE  /\ WorkersLock' /\ MarkedIsFinal'
         /\ \A j \in Jobs : job[j].state = "active" => (Live(j)' <=> Live(j))
<1>1. \A v \in Workers : worker[v].pc # "idle" =>
        worker[v].job \in Jobs /\ job'[worker[v].job] = job[worker[v].job]
  BY RunningIsLive
<1>2. WorkersLock' /\ MarkedIsFinal'
  BY <1>1 DEF IndInv, WorkersLock, MarkedIsFinal, Locks
<1>3. \A j \in Jobs : job[j].state = "active" => (Settled(j)' <=> Settled(j))
  BY <1>1 DEF Settled, Runs, Locks
<1>4. QED
  BY <1>2, <1>3 DEF Live

(* Only requests move, back to idle or to a row they have just read.        *)
LEMMA RequestsOnlyKeeps ==
  ASSUME IndInv, WellFormed', UNCHANGED <<status, job, worker>>,
         \A p \in Requests :
           \/ request'[p] = request[p] \/ request'[p].pc = "idle"
           \/ request'[p].pc = "read" /\ status[request'[p].repo] # "unborn"
  PROVE  IndInv'
<1> USE DEF IndInv
<1>1. WorkersLock' /\ MarkedIsFinal' /\ SingleLiveJob' /\ LiveMeansBusy'
  BY DEF WorkersLock, MarkedIsFinal, SingleLiveJob, LiveMeansBusy, Live, Settled, Runs,
         Locks, Exists
<1>2. Connected'
  BY DEF Connected
<1>3. EnqueueAccepted' /\ EnqueueOnce' /\ ConnectOnce'
  BY DEF EnqueueAccepted, EnqueueOnce, ConnectOnce
<1>4. CompensateAlone'
  BY DEF CompensateAlone, Exists, Live, Settled, Runs, Locks
<1>5. QED
  BY <1>1, <1>2, <1>3, <1>4

(* A new job: the repository was free, so that no job of it is live.        *)
LEMMA NewJobKeeps ==
  ASSUME IndInv, WellFormed', UNCHANGED worker,
         NEW q \in Requests, NEW r \in Repos, NEW j \in Jobs,
         request[q].pc \in {"idle", "read"},
         \/ status[r] = "unborn"
         \/ status[r] \in Terminal /\ request'[q].pc = "enqueue",
         job[j].state = "unused",
         status' = [status EXCEPT ![r] = "PENDING"],
         job'[j].state = "accepted", job'[j].repo = r,
         \A k \in Jobs : k # j => job'[k] = job[k],
         request'[q].pc \in {"enqueue", "connectEnqueue"},
         request'[q].repo = r, request'[q].job = j,
         \A p \in Requests : p # q => request'[p] = request[p]
  PROVE  IndInv'
<1> USE Words
<1>1. status'[r] = "PENDING" /\ \A x \in Repos : x # r => status'[x] = status[x]
  BY DEF IndInv, WellFormed, TypeOK
<1>2. \A k \in Jobs : job[k].state # "unused" => job[k].repo \in Repos
  BY DEF IndInv, WellFormed, JobsHaveRepo
<1>3. \A p \in Requests : request[p].pc # "idle" => request[p].repo \in Repos
  BY DEF IndInv, WellFormed, RequestsHaveRepo
<1>4. WorkersLock' /\ MarkedIsFinal'
      /\ \A k \in Jobs : job[k].state = "active" => (Live(k)' <=> Live(k))
  BY BackendKeepsWorkers
<1>5. \A k \in Jobs : k # j => (Live(k)' => Live(k))
  BY <1>4 DEF Live
<1>6. \A k \in Jobs : Live(k) => job[k].repo # r
  <2>1. \A k \in Jobs : Live(k) => job[k].state # "unused"
    BY DEF Live
  <2>2. QED
    BY <1>2, <2>1 DEF IndInv, Connected, LiveMeansBusy, Exists
<1>7. \A k \in Jobs : Live(k)' => job'[k].repo \in Repos
  <2>1. \A k \in Jobs : Live(k)' => job'[k].state # "unused"
    BY DEF Live
  <2>2. QED
    BY <2>1 DEF WellFormed, JobsHaveRepo
<1>8. Connected'
  BY <1>1, <1>2, <1>3 DEF IndInv, Connected
<1>9. EnqueueAccepted' /\ EnqueueOnce'
  <2>1. \A p \in Requests : p # q /\ request[p].pc \in {"enqueue", "connectEnqueue"} =>
          request[p].job \in Jobs /\ request[p].job # j
    BY DEF IndInv, EnqueueAccepted, WellFormed, RequestsHaveJob
  <2>2. EnqueueAccepted'
    BY <2>1 DEF IndInv, EnqueueAccepted
  <2>3. EnqueueOnce'
    BY <2>1 DEF IndInv, EnqueueOnce
  <2>4. QED
    BY <2>2, <2>3
<1>10. ConnectOnce'
  <2>1. status[r] = "unborn" =>
          \A p \in Requests : request[p].pc # "idle" => request[p].repo # r
    BY DEF IndInv, Connected
  <2>2. QED
    BY <2>1 DEF IndInv, ConnectOnce
<1>11. SingleLiveJob'
  BY <1>1, <1>5, <1>6, <1>7 DEF IndInv, SingleLiveJob, Exists
<1>12. LiveMeansBusy'
  BY <1>1, <1>5, <1>7 DEF IndInv, LiveMeansBusy, Exists
<1>13. CompensateAlone'
  <2> SUFFICES ASSUME NEW p \in Requests, request'[p].pc = "compensate", Exists(request[p].repo)'
               PROVE  /\ status'[request'[p].repo] \in NonTerminal
                      /\ \A k \in Jobs : Live(k)' => job'[k].repo # request'[p].repo
    BY DEF CompensateAlone
  <2>1. p # q /\ request'[p] = request[p] /\ request[p].repo \in Repos
    BY <1>3
  <2>2. request[p].repo # r
    BY <2>1 DEF IndInv, Connected, CompensateAlone, Exists
  <2>3. Exists(request[p].repo)
    BY <1>1, <2>1, <2>2 DEF Exists
  <2>4. QED
    BY <1>1, <1>5, <2>1, <2>2, <2>3 DEF IndInv, CompensateAlone
<1>14. QED
  BY <1>4, <1>8, <1>9, <1>10, <1>11, <1>12, <1>13 DEF IndInv

(* The enqueue of an accepted job succeeds, or the job is lost; only a lost *)
(* job is compensated for, and it was the only live one.                    *)
LEMMA EnqueueKeeps ==
  ASSUME IndInv, WellFormed', UNCHANGED <<status, worker>>,
         NEW q \in Requests, NEW j \in Jobs,
         request[q].pc \in {"enqueue", "connectEnqueue"}, request[q].job = j,
         job'[j].state \in {"waiting", "lost"}, job'[j].repo = job[j].repo,
         \A k \in Jobs : k # j => job'[k] = job[k],
         \/ request'[q].pc = "idle"
         \/ /\ request'[q].pc = "compensate" /\ request[q].pc = "connectEnqueue"
            /\ request'[q].repo = request[q].repo /\ job'[j].state = "lost",
         \A p \in Requests : p # q => request'[p] = request[p]
  PROVE  IndInv'
<1> USE Words
<1>1. job[j].state = "accepted" /\ job[j].repo = request[q].repo /\ Live(j)
  BY DEF IndInv, EnqueueAccepted, Live
<1>2. WorkersLock' /\ MarkedIsFinal'
      /\ \A k \in Jobs : job[k].state = "active" => (Live(k)' <=> Live(k))
  BY <1>1, BackendKeepsWorkers
<1>3. \A k \in Jobs : (Live(k)' => Live(k)) /\ job'[k].repo = job[k].repo
  <2>1. \A k \in Jobs : k # j => (Live(k)' => Live(k))
    BY <1>2 DEF Live
  <2>2. QED
    BY <1>1, <2>1
<1>4. Connected'
  BY <1>1 DEF IndInv, Connected
<1>5. EnqueueAccepted' /\ EnqueueOnce'
  <2>1. \A p \in Requests : p # q /\ request[p].pc \in {"enqueue", "connectEnqueue"} =>
          request[p].job \in Jobs /\ request[p].job # j
    BY DEF IndInv, EnqueueOnce, WellFormed, RequestsHaveJob
  <2>2. EnqueueAccepted'
    BY <2>1 DEF IndInv, EnqueueAccepted
  <2>3. EnqueueOnce'
    BY DEF IndInv, EnqueueOnce
  <2>4. QED
    BY <2>2, <2>3
<1>6. ConnectOnce'
  BY DEF IndInv, ConnectOnce
<1>7. SingleLiveJob' /\ LiveMeansBusy'
  BY <1>3 DEF IndInv, SingleLiveJob, LiveMeansBusy, Exists
<1>8. CompensateAlone'
  <2> SUFFICES ASSUME NEW p \in Requests, request'[p].pc = "compensate", Exists(request[p].repo)'
               PROVE  /\ status[request'[p].repo] \in NonTerminal
                      /\ \A k \in Jobs : Live(k)' => job[k].repo # request'[p].repo
    BY <1>3 DEF CompensateAlone
  <2>1. CASE p # q
    BY <1>3, <2>1 DEF IndInv, CompensateAlone, Exists
  <2>2. CASE p = q
    <3>1. Exists(job[j].repo) /\ request'[q].repo = job[j].repo /\ job'[j].state = "lost"
      BY <1>1, <2>2 DEF Exists
    <3>2. status[job[j].repo] \in NonTerminal
      BY <1>1, <3>1 DEF IndInv, LiveMeansBusy
    <3>3. \A k \in Jobs : Live(k) /\ job[k].repo = job[j].repo => k = j
      BY <1>1, <3>1 DEF IndInv, SingleLiveJob
    <3>4. \A k \in Jobs : k = j => ~Live(k)'
      BY <3>1 DEF Live
    <3>5. QED
      BY <1>3, <2>2, <3>1, <3>2, <3>3, <3>4
  <2>3. QED
    BY <2>1, <2>2
<1>9. QED
  BY <1>2, <1>4, <1>5, <1>6, <1>7, <1>8 DEF IndInv

LEMMA ConnectKeepsIndInv ==
  ASSUME IndInv, WellFormed', NEW q \in Requests, NEW r \in Repos, NEW j \in Jobs,
         ConnectRepository(q, r, j)
  PROVE  IndInv'
<1>1. job'[j].state = "accepted" /\ job'[j].repo = r
  BY DEF ConnectRepository, NewJob, IndInv, WellFormed, TypeOK
<1>2. \A k \in Jobs : k # j => job'[k] = job[k]
  BY DEF ConnectRepository, IndInv, WellFormed, TypeOK
<1>3. request'[q].pc = "connectEnqueue" /\ request'[q].repo = r /\ request'[q].job = j
  BY DEF ConnectRepository, IndInv, WellFormed, TypeOK
<1>4. \A p \in Requests : p # q => request'[p] = request[p]
  BY DEF ConnectRepository, IndInv, WellFormed, TypeOK
<1>5. request[q].pc = "idle" /\ status[r] = "unborn" /\ job[j].state = "unused"
  BY DEF ConnectRepository
<1>6. status' = [status EXCEPT ![r] = "PENDING"] /\ UNCHANGED worker
  BY DEF ConnectRepository
<1>7. QED
  BY <1>1, <1>2, <1>3, <1>4, <1>5, <1>6, NewJobKeeps

LEMMA AcceptKeepsIndInv ==
  ASSUME IndInv, WellFormed', NEW q \in Requests, NEW j \in Jobs, AcceptIndexJob(q, j)
  PROVE  IndInv'
<1>1. request[q].repo \in Repos /\ request[q].seen \in Terminal
  BY DEF AcceptIndexJob, IndInv, WellFormed, RequestsHaveRepo, RequestsHaveJob
<1>2. job'[j] = NewJob(request[q].repo, request[q].type)
      /\ \A k \in Jobs : k # j => job'[k] = job[k]
  BY DEF AcceptIndexJob, IndInv, WellFormed, TypeOK
<1>3. job'[j].state = "accepted" /\ job'[j].repo = request[q].repo
  BY <1>2 DEF NewJob
<1>4. /\ request'[q].pc = "enqueue" /\ request'[q].repo = request[q].repo
      /\ request'[q].job = j
      /\ \A p \in Requests : p # q => request'[p] = request[p]
  BY DEF AcceptIndexJob, IndInv, WellFormed, TypeOK, RequestRecords
<1>5. QED
  BY <1>1, <1>2, <1>3, <1>4, NewJobKeeps DEF AcceptIndexJob, StatusStillSeen

LEMMA EnqueueKeepsIndInv ==
  ASSUME IndInv, WellFormed', NEW q \in Requests, EnqueueIndexJob(q)
  PROVE  IndInv'
<1>1. request[q].job \in Jobs
  BY DEF EnqueueIndexJob, IndInv, WellFormed, RequestsHaveJob
<1>2. /\ job'[request[q].job].state = "waiting"
      /\ job'[request[q].job].repo = job[request[q].job].repo
      /\ \A k \in Jobs : k # request[q].job => job'[k] = job[k]
  BY <1>1 DEF EnqueueIndexJob, IndInv, WellFormed, TypeOK, JobRecords
<1>3. request'[q].pc = "idle" /\ \A p \in Requests : p # q => request'[p] = request[p]
  BY DEF EnqueueIndexJob, Idle, IndInv, WellFormed, TypeOK
<1>4. QED
  BY <1>1, <1>2, <1>3, EnqueueKeeps DEF EnqueueIndexJob

(* With no ambiguous error, a failed enqueue leaves no job in the queue.    *)
LEMMA EnqueueFailsKeepsIndInv ==
  ASSUME IndInv, WellFormed', Faults \subseteq EarlyFaults, NEW q \in Requests, EnqueueFails(q)
  PROVE  IndInv'
<1>1. request[q].pc \in {"enqueue", "connectEnqueue"} /\ request[q].job \in Jobs
  BY DEF EnqueueFails, IndInv, WellFormed, RequestsHaveJob
<1>2. job' = [job EXCEPT ![request[q].job].state = "lost"]
  BY DEF EnqueueFails, EarlyFaults
<1>3. /\ job'[request[q].job].state = "lost"
      /\ job'[request[q].job].repo = job[request[q].job].repo
      /\ \A k \in Jobs : k # request[q].job => job'[k] = job[k]
  BY <1>1, <1>2 DEF IndInv, WellFormed, TypeOK, JobRecords
<1>4. /\ \/ request'[q].pc = "idle"
         \/ /\ request'[q].pc = "compensate" /\ request[q].pc = "connectEnqueue"
            /\ request'[q].repo = request[q].repo
      /\ \A p \in Requests : p # q => request'[p] = request[p]
  BY DEF EnqueueFails, AfterEnqueueError, Idle, IndInv, WellFormed, TypeOK, RequestRecords
<1>5. QED
  BY <1>1, <1>3, <1>4, EnqueueKeeps DEF EnqueueFails

LEMMA BackendCrashKeepsIndInv ==
  ASSUME IndInv, WellFormed', NEW q \in Requests, BackendCrash(q)
  PROVE  IndInv'
<1>1. request'[q].pc = "idle" /\ \A p \in Requests : p # q => request'[p] = request[p]
  BY DEF BackendCrash, Idle, IndInv, WellFormed, TypeOK
<1>2. CASE request[q].pc \in {"enqueue", "connectEnqueue"}
  <2>1. request[q].job \in Jobs
    BY <1>2 DEF IndInv, WellFormed, RequestsHaveJob
  <2>2. /\ job'[request[q].job].state = "lost"
        /\ job'[request[q].job].repo = job[request[q].job].repo
        /\ \A k \in Jobs : k # request[q].job => job'[k] = job[k]
    BY <1>2, <2>1 DEF BackendCrash, IndInv, WellFormed, TypeOK, JobRecords
  <2>3. QED
    BY <1>1, <1>2, <2>1, <2>2, EnqueueKeeps DEF BackendCrash
<1>3. CASE request[q].pc \in {"read", "compensate"}
  BY <1>1, <1>3, RequestsOnlyKeeps DEF BackendCrash
<1>4. QED
  BY <1>2, <1>3 DEF BackendCrash

(* The compensation ends: no job of the repository is live.                 *)
LEMMA MarkConnectFailedKeepsIndInv ==
  ASSUME IndInv, WellFormed', NEW q \in Requests, MarkConnectFailed(q)
  PROVE  IndInv'
<1> USE Words
<1>1. request[q].pc = "compensate" /\ request[q].repo \in Repos
  BY DEF MarkConnectFailed, IndInv, WellFormed, RequestsHaveRepo
<1>2. request'[q].pc = "idle" /\ \A p \in Requests : p # q => request'[p] = request[p]
  BY DEF MarkConnectFailed, Idle, IndInv, WellFormed, TypeOK
<1>3. CASE UNCHANGED status
  BY <1>2, <1>3, RequestsOnlyKeeps DEF MarkConnectFailed
<1>4. CASE Exists(request[q].repo) /\ status' = [status EXCEPT ![request[q].repo] = "FAILED"]
  <2>1. /\ status'[request[q].repo] = "FAILED"
        /\ \A r \in Repos : r # request[q].repo => status'[r] = status[r]
    BY <1>1, <1>4 DEF IndInv, WellFormed, TypeOK
  <2>2. \A j \in Jobs : Live(j) => job[j].repo # request[q].repo
    BY <1>1, <1>4 DEF IndInv, CompensateAlone
  <2>3. \A j \in Jobs : (Live(j)' <=> Live(j))
    BY DEF MarkConnectFailed, Live, Settled, Runs, Locks
  <2>4. \A r \in Repos : Exists(r)' => Exists(r)
    BY <1>4, <2>1 DEF Exists
  <2>5. \A j \in Jobs : Live(j) => job[j].repo \in Repos
    BY DEF Live, IndInv, WellFormed, JobsHaveRepo
  <2>6. WorkersLock' /\ MarkedIsFinal'
    BY DEF MarkConnectFailed, IndInv, WorkersLock, MarkedIsFinal, Locks
  <2>7. Connected'
    BY <1>2, <2>1 DEF MarkConnectFailed, IndInv, Connected, WellFormed, JobsHaveRepo,
                      RequestsHaveRepo
  <2>8. EnqueueAccepted' /\ EnqueueOnce' /\ ConnectOnce'
    BY <1>2 DEF MarkConnectFailed, IndInv, EnqueueAccepted, EnqueueOnce, ConnectOnce
  <2>9. SingleLiveJob' /\ LiveMeansBusy'
    BY <2>1, <2>2, <2>3, <2>4, <2>5 DEF MarkConnectFailed, IndInv, SingleLiveJob, LiveMeansBusy
  <2>10. CompensateAlone'
    <3> SUFFICES ASSUME NEW p \in Requests, request'[p].pc = "compensate",
                        Exists(request[p].repo)'
                 PROVE  /\ status'[request'[p].repo] \in NonTerminal
                        /\ \A j \in Jobs : Live(j)' => job'[j].repo # request'[p].repo
      BY DEF CompensateAlone
    <3>1. p # q /\ request'[p] = request[p] /\ request[p].repo \in Repos
      BY <1>2 DEF IndInv, WellFormed, RequestsHaveRepo
    <3>2. request[p].repo # request[q].repo
      BY <1>1, <3>1 DEF IndInv, ConnectOnce
    <3>3. Exists(request[p].repo)
      BY <2>1, <3>1, <3>2 DEF Exists
    <3>4. QED
      BY <2>1, <2>3, <3>1, <3>2, <3>3 DEF MarkConnectFailed, IndInv, CompensateAlone
  <2>11. QED
    BY <2>6, <2>7, <2>8, <2>9, <2>10 DEF IndInv
<1>5. QED
  BY <1>3, <1>4 DEF MarkConnectFailed

-----------------------------------------------------------------------------
LEMMA IndInvStep ==
  ASSUME Faults \subseteq EarlyFaults, IndInv, [Next]_vars
  PROVE  IndInv'
<1>1. WellFormed'
  BY WellFormedStep DEF IndInv
<1>2. ASSUME NEW q \in Requests, RequestStep(q) PROVE IndInv'
  <2>1. CASE RejectIndexJob(q)
    <3>1. \A p \in Requests : request'[p] = request[p] \/ request'[p].pc = "idle"
      BY <2>1 DEF RejectIndexJob, Idle, IndInv, WellFormed, TypeOK
    <3>2. QED
      BY <1>1, <2>1, <3>1, RequestsOnlyKeeps DEF RejectIndexJob
  <2>2. QED
    BY <1>1, <1>2, <2>1, AcceptKeepsIndInv, EnqueueKeepsIndInv, EnqueueFailsKeepsIndInv,
       MarkConnectFailedKeepsIndInv DEF RequestStep
<1>3. ASSUME NEW w \in Workers, WorkerStep(w) PROVE IndInv'
  BY <1>1, <1>3, StagesKeepIndInv, StoreIndexKeepsIndInv, UsageLogKeepsIndInv,
     RaiseKeepsIndInv, FailureKeepsIndInv, AckCompletedKeepsIndInv, AckFailedKeepsIndInv
     DEF WorkerStep
<1>4. ASSUME NEW q \in Requests, NEW r \in Repos, TriggerFullIndex(q, r) \/ HandlePushEvent(q, r)
      PROVE  IndInv'
  <2>1. \A p \in Requests :
          \/ request'[p] = request[p]
          \/ request'[p].pc = "read" /\ status[request'[p].repo] # "unborn"
    BY <1>4, Words DEF TriggerFullIndex, HandlePushEvent, ReadStatus, IndInv, WellFormed, TypeOK
  <2>2. QED
    BY <1>1, <1>4, <2>1, RequestsOnlyKeeps DEF TriggerFullIndex, HandlePushEvent
<1>5. ASSUME NEW r \in Repos, PushCommit(r) PROVE IndInv'
  BY <1>1, <1>5, RequestsOnlyKeeps DEF PushCommit
<1>6. CASE Environment
  BY <1>1, <1>4, <1>5, <1>6, ConnectKeepsIndInv, DeleteKeepsIndInv, BackendCrashKeepsIndInv,
     WorkerCrashKeepsIndInv DEF Environment
<1>7. CASE UNCHANGED vars
  BY <1>1, <1>7, RequestsOnlyKeeps DEF vars
<1>8. QED
  BY <1>1, <1>2, <1>3, <1>6, <1>7, TakeJobKeepsIndInv, PromoteKeepsIndInv,
     RequeueKeepsIndInv DEF Next

LEMMA IndInvInit == Init => IndInv
<1> SUFFICES ASSUME Init PROVE IndInv
  OBVIOUS
<1>1. WellFormed
  BY Words DEF Init, Idle, Free, WellFormed, TypeOK, WorkersHaveJob, JobsHaveRepo,
       RequestsHaveRepo, RequestsHaveJob, RequestRecords, JobRecords, WorkerRecords
<1>2. /\ \A j \in Jobs : job[j].state = "unused" /\ ~Live(j)
      /\ \A q \in Requests : request[q].pc = "idle"
      /\ \A w \in Workers : worker[w].pc = "idle"
  BY DEF Init, Idle, Free, Live
<1>3. QED
  BY <1>1, <1>2 DEF IndInv, WorkersLock, MarkedIsFinal, Connected, EnqueueAccepted,
     EnqueueOnce, ConnectOnce, CompensateAlone, SingleLiveJob, LiveMeansBusy

(* While no fault strikes a job that has given its lock back, a repository  *)
(* has one live job at most and is shown as busy as long as it has one,     *)
(* whatever crashes, retries, stalls and lost enqueues come before.         *)
THEOREM Exclusion ==
  ASSUME Faults \subseteq EarlyFaults
  PROVE  Spec => [](SingleLiveJob /\ LiveMeansBusy)
<1>1. Init => IndInv
  BY IndInvInit
<1>2. IndInv /\ [Next]_vars => IndInv'
  BY IndInvStep
<1>3. IndInv => SingleLiveJob /\ LiveMeansBusy
  BY DEF IndInv
<1>4. QED
  BY <1>1, <1>2, <1>3, PTL DEF Spec

(* Seen from the status column alone: a repository whose job is still to    *)
(* run, or running, is never shown as settled, so no second request is let  *)
(* through the check of the status.                                         *)
THEOREM BusyWhileLive ==
  ASSUME Faults \subseteq EarlyFaults
  PROVE  Spec => []LiveMeansBusy
<1>1. SingleLiveJob /\ LiveMeansBusy => LiveMeansBusy
  OBVIOUS
<1>2. QED
  BY <1>1, Exclusion, PTL

-----------------------------------------------------------------------------
(* What IndexingService promises: the phase a status stands for, and the    *)
(* jobs a repository accepted.                                              *)
Shown == [r \in Repos |-> Phase(status[r])]
Taken == [r \in Repos |-> {j \in Jobs : job[j].state # "unused" /\ job[j].repo = r}]

(* A worker that has cloned holds a pushed commit, no older than the one    *)
(* the repository is indexed at: inductive only next to IndInv, because a   *)
(* second live job could index a newer one in between.                      *)
Fetching == {"PARSING", "EMBEDDING", "STORING"}

Pushed == \A r \in Repos : head[r] \in 1..MaxCommits /\ indexed[r] <= head[r]

Fetched ==
  \A w \in Workers : worker[w].pc \in Fetching =>
    /\ worker[w].sha \in 1..MaxCommits
    /\ worker[w].sha <= head[RepoOf(w)]
    /\ Exists(RepoOf(w)) => indexed[RepoOf(w)] <= worker[w].sha

CommitInv == IndInv /\ Pushed /\ Fetched

LEMMA Phases ==
  /\ \A s \in NonTerminal : Phase(s) = "busy"
  /\ Phase("INDEXED") = "indexed" /\ Phase("FAILED") = "failed"
  /\ Phase("unborn") = "unborn" /\ Phase("deleted") = "deleted"
BY DEF Phase, NonTerminal

(* No job is new, and none changes its repository.                          *)
JobsStay ==
  \A j \in Jobs : /\ job'[j].repo = job[j].repo
                  /\ job'[j].state # "unused" <=> job[j].state # "unused"

(* One job is new: that of r.                                               *)
JobComes(r, j) ==
  /\ job[j].state = "unused" /\ job'[j].state # "unused" /\ job'[j].repo = r
  /\ \A k \in Jobs \ {j} : job'[k] = job[k]

LEMMA TakenStays == ASSUME JobsStay PROVE Taken' = Taken
BY DEF JobsStay, Taken

LEMMA TakenGrows ==
  ASSUME NEW r \in Repos, NEW j \in Jobs, JobComes(r, j)
  PROVE  /\ Taken' = [Taken EXCEPT ![r] = @ \cup {j}]
         /\ \A x \in Repos : j \notin Taken[x]
<1>1. \A x \in Repos \ {r} : Taken'[x] = Taken[x]
  BY DEF JobComes, Taken
<1>2. Taken'[r] = Taken[r] \cup {j}
  BY DEF JobComes, Taken
<1>3. \A x \in Repos : j \notin Taken[x]
  BY DEF JobComes, Taken
<1>4. Taken' = [x \in Repos |-> Taken'[x]] /\ Taken = [x \in Repos |-> Taken[x]]
  BY DEF Taken
<1> QED
  BY <1>1, <1>2, <1>3, <1>4

StatusBecomes(r, s) == status' = [status EXCEPT ![r] = s]
ShownBecomes(r, p)  == Shown' = [Shown EXCEPT ![r] = p]

LEMMA ShownChanges ==
  ASSUME TypeOK, NEW r \in Repos, NEW s, StatusBecomes(r, s)
  PROVE  ShownBecomes(r, Phase(s))
<1>1. status'[r] = s /\ \A x \in Repos \ {r} : status'[x] = status[x]
  BY DEF TypeOK, StatusBecomes
<1>2. \A x \in Repos : Shown'[x] = IF x = r THEN Phase(s) ELSE Shown[x]
  BY <1>1 DEF Shown
<1>3. Shown' = [x \in Repos |-> Shown'[x]] /\ Shown = [x \in Repos |-> Shown[x]]
  BY DEF Shown
<1> QED
  BY <1>2, <1>3 DEF ShownBecomes

(* The steps of the service, in terms of what a step of the detail changes. *)
LEMMA Stutters ==
  ASSUME Shown' = Shown, UNCHANGED indexed, JobsStay
  PROVE  UNCHANGED Service!svars
BY TakenStays DEF Shown, Taken, Service!svars

LEMMA Accepts ==
  ASSUME TypeOK, NEW r \in Repos, NEW j \in Jobs, JobComes(r, j),
         status[r] = "unborn" \/ status[r] \in Terminal,
         StatusBecomes(r, "PENDING"), UNCHANGED indexed
  PROVE  Service!Next
<1>1. Shown[r] \in {"unborn", "indexed", "failed"}
  BY Phases DEF Shown, Terminal
<1>2. ShownBecomes(r, "busy")
  BY ShownChanges, Phases, Words
<1>3. /\ Taken' = [Taken EXCEPT ![r] = @ \cup {j}]
      /\ \A x \in Repos : j \notin Taken[x]
  BY TakenGrows
<1>4. Service!Accept(r, j)
  BY <1>1, <1>2, <1>3 DEF Service!Accept, ShownBecomes, Shown, Taken
<1> QED
  BY <1>4 DEF Service!Next

LEMMA Fails ==
  ASSUME TypeOK, NEW r \in Repos, status[r] \in NonTerminal,
         StatusBecomes(r, "FAILED"), UNCHANGED indexed, JobsStay
  PROVE  Service!Next
<1>0. Shown[r] = "busy"
  BY Phases DEF Shown
<1>1. ShownBecomes(r, "failed")
  BY ShownChanges, Phases
<1>2. Service!Fail(r)
  BY <1>0, <1>1, TakenStays DEF Service!Fail, ShownBecomes, Shown, Taken
<1> QED
  BY <1>2 DEF Service!Next, Service!Settle

LEMMA Indexes ==
  ASSUME TypeOK, NEW r \in Repos, NEW c \in 1..MaxCommits, status[r] \in NonTerminal,
         indexed[r] <= c, indexed' = [indexed EXCEPT ![r] = c],
         StatusBecomes(r, "INDEXED"), JobsStay
  PROVE  Service!Next
<1>0. Shown[r] = "busy"
  BY Phases DEF Shown
<1>1. ShownBecomes(r, "indexed")
  BY ShownChanges, Phases
<1>2. c >= indexed[r]
  BY BoundAssumption DEF TypeOK
<1>3. Service!Index(r, c)
  BY <1>0, <1>1, <1>2, TakenStays DEF Service!Index, ShownBecomes, Shown, Taken
<1> QED
  BY <1>3 DEF Service!Next, Service!Settle

LEMMA Deletes ==
  ASSUME TypeOK, NEW r \in Repos, DeleteRepository(r)
  PROVE  Service!Next
<1>1. Shown[r] \in {"busy", "indexed", "failed"}
  BY Phases, Words DEF DeleteRepository, Exists, Shown, TypeOK, Terminal
<1>2. ShownBecomes(r, "deleted")
  <2>1. StatusBecomes(r, "deleted")
    BY DEF DeleteRepository, StatusBecomes
  <2> QED
    BY <2>1, ShownChanges, Phases
<1>3. JobsStay /\ UNCHANGED indexed
  BY DEF DeleteRepository, JobsStay
<1>4. Service!Delete(r)
  BY <1>1, <1>2, <1>3, TakenStays DEF Service!Delete, ShownBecomes, Shown, Taken
<1> QED
  BY <1>4 DEF Service!Next
-----------------------------------------------------------------------------
(* CommitInv survives a step that stores nothing, if the workers past their *)
(* clone were past it before, or have just cloned the head.                 *)
LEMMA NothingStored ==
  ASSUME CommitInv, IndInv', UNCHANGED indexed,
         \A r \in Repos : head'[r] \in 1..MaxCommits /\ head[r] <= head'[r],
         \A j \in Jobs : job[j].state = "active" => job'[j].repo = job[j].repo,
         \A r \in Repos : Exists(r)' => status[r] # "deleted",
         \A w \in Workers : worker'[w].pc \in Fetching =>
           /\ worker[w].pc # "idle" /\ worker'[w].job = worker[w].job
           /\ \/ worker[w].pc \in Fetching /\ worker'[w].sha = worker[w].sha
              \/ worker'[w].sha = head[RepoOf(w)]
  PROVE  CommitInv'
<1>1. /\ MaxCommits \in Nat /\ indexed \in [Repos -> Nat]
      /\ \A r \in Repos : head[r] \in Nat /\ head'[r] \in Nat
  BY BoundAssumption DEF CommitInv, IndInv, WellFormed, TypeOK
<1>2. Pushed'
  BY <1>1 DEF CommitInv, Pushed
<1>3. Fetched'
  <2> SUFFICES ASSUME NEW w \in Workers, worker'[w].pc \in Fetching
               PROVE  /\ worker'[w].sha \in 1..MaxCommits
                      /\ worker'[w].sha <= head'[RepoOf(w)']
                      /\ Exists(RepoOf(w))' => indexed[RepoOf(w)'] <= worker'[w].sha
    BY DEF Fetched
  <2>1. worker[w].pc # "idle" /\ worker'[w].job = worker[w].job
    OBVIOUS
  <2>2. /\ worker[w].job \in Jobs /\ job[worker[w].job].state = "active"
        /\ RepoOf(w) \in Repos /\ status[RepoOf(w)] # "unborn"
    BY <2>1, RunningIsLive DEF CommitInv, IndInv, Connected, RepoOf
  <2>3. PICK r \in Repos : r = RepoOf(w) /\ r = RepoOf(w)'
    BY <2>1, <2>2 DEF RepoOf
  <2>4. Exists(RepoOf(w))' => Exists(r)
    BY <2>2, <2>3 DEF Exists, NoRow
  <2>5. CASE worker[w].pc \in Fetching /\ worker'[w].sha = worker[w].sha
    <3>1. /\ worker[w].sha \in 1..MaxCommits /\ worker[w].sha <= head[r]
          /\ Exists(r) => indexed[r] <= worker[w].sha
      BY <2>3, <2>5 DEF CommitInv, Fetched
    <3> PICK c \in 1..MaxCommits : c = worker[w].sha /\ c = worker'[w].sha
      BY <2>5, <3>1
    <3>2. c <= head[r] /\ head[r] <= head'[r] /\ c <= head'[r]
      BY <1>1, <3>1
    <3>3. Exists(r) => indexed'[r] <= c
      BY <3>1
    <3> QED
      BY <2>3, <2>4, <3>2, <3>3
  <2>6. CASE worker'[w].sha = head[RepoOf(w)]
    BY <1>1, <2>3, <2>6 DEF CommitInv, Pushed
  <2> QED
    BY <2>5, <2>6
<1> QED
  BY <1>2, <1>3 DEF CommitInv

(* A step of a request, a queue or a worker that shows nothing.             *)
LEMMA Quiet ==
  ASSUME CommitInv, IndInv', UNCHANGED <<status, indexed, head>>, JobsStay,
         \A w \in Workers : worker'[w] = worker[w] \/ worker'[w].pc \notin Fetching
  PROVE  CommitInv' /\ [Service!Next]_(Service!svars)
<1>1. UNCHANGED Service!svars
  BY Stutters DEF Shown
<1>2. \A r \in Repos : head'[r] \in 1..MaxCommits /\ head[r] <= head'[r]
  BY BoundAssumption DEF CommitInv, Pushed
<1>3. \A w \in Workers : worker'[w].pc \in Fetching =>
        worker'[w] = worker[w] /\ worker[w].pc # "idle" /\ worker[w].pc \in Fetching
  BY DEF Fetching
<1>4. CommitInv'
  BY <1>2, <1>3, NothingStored DEF JobsStay, Exists, NoRow
<1> QED
  BY <1>1, <1>4

LEMMA RequestsQuiet ==
  ASSUME CommitInv, IndInv', NEW q \in Requests,
         RejectIndexJob(q) \/ EnqueueIndexJob(q) \/ EnqueueFails(q) \/ BackendCrash(q)
  PROVE  CommitInv' /\ [Service!Next]_(Service!svars)
<1>1. job \in [Jobs -> JobRecords]
  BY DEF CommitInv, IndInv, WellFormed, TypeOK
<1>2. UNCHANGED <<status, indexed, head, worker>>
  BY DEF RejectIndexJob, EnqueueIndexJob, EnqueueFails, BackendCrash
<1>3. ASSUME request[q].pc \in {"enqueue", "connectEnqueue"},
             NEW state \in {"waiting", "lost"}, job' = [job EXCEPT ![request[q].job].state = state]
      PROVE  JobsStay
  <2>1. request[q].job \in Jobs /\ job[request[q].job].state # "unused"
    BY <1>3 DEF CommitInv, IndInv, WellFormed, RequestsHaveJob
  <2> QED
    BY <1>1, <1>3, <2>1 DEF JobsStay, JobRecords
<1>4. CASE UNCHANGED job
  BY <1>2, <1>4, Quiet DEF JobsStay
<1>5. CASE job' # job
  <2>1. JobsStay
    BY <1>3, <1>5 DEF RejectIndexJob, EnqueueIndexJob, EnqueueFails, BackendCrash
  <2> QED
    BY <1>2, <2>1, Quiet
<1> QED
  BY <1>4, <1>5

LEMMA QueueQuiet ==
  ASSUME CommitInv, IndInv', NEW j \in Jobs,
         (\E w \in Workers : TakeJob(w, j)) \/ PromoteDelayed(j) \/ RequeueStalled(j)
  PROVE  CommitInv' /\ [Service!Next]_(Service!svars)
<1>1. /\ job \in [Jobs -> JobRecords] /\ worker \in [Workers -> WorkerRecords]
      /\ job[j].state \in {"waiting", "delayed", "active"}
  BY DEF CommitInv, IndInv, WellFormed, TypeOK, TakeJob, PromoteDelayed, RequeueStalled
<1>2. UNCHANGED <<status, indexed, head>>
  BY DEF TakeJob, PromoteDelayed, RequeueStalled
<1>3. job'[j].repo = job[j].repo /\ job'[j].state # "unused" /\ \A k \in Jobs \ {j} : job'[k] = job[k]
  BY <1>1 DEF TakeJob, PromoteDelayed, RequeueStalled, JobRecords
<1>4. \A v \in Workers : worker'[v] = worker[v] \/ worker'[v].pc \notin Fetching
  BY <1>1 DEF TakeJob, PromoteDelayed, RequeueStalled, Fetching
<1>5. JobsStay
  BY <1>1, <1>3 DEF JobsStay
<1> QED
  BY <1>2, <1>4, <1>5, Quiet

LEMMA AcksQuiet ==
  ASSUME CommitInv, IndInv', NEW w \in Workers, AckCompleted(w) \/ AckFailed(w)
  PROVE  CommitInv' /\ [Service!Next]_(Service!svars)
<1>1. /\ job \in [Jobs -> JobRecords] /\ worker \in [Workers -> WorkerRecords]
      /\ worker[w].job \in Jobs /\ job[worker[w].job].state = "active" /\ Free.pc = "idle"
  BY RunningIsLive DEF CommitInv, IndInv, WellFormed, TypeOK, AckCompleted, AckFailed, Free
<1>2. UNCHANGED <<status, indexed, head>> /\ worker' = [worker EXCEPT ![w] = Free]
  BY DEF AckCompleted, AckFailed
<1>3. /\ job'[worker[w].job].repo = job[worker[w].job].repo /\ job'[worker[w].job].state # "unused"
      /\ \A k \in Jobs \ {worker[w].job} : job'[k] = job[k]
  BY <1>1, JobGivenBack
<1>4. \A v \in Workers : worker'[v] = worker[v] \/ worker'[v].pc \notin Fetching
  BY <1>1, <1>2 DEF Fetching
<1>5. JobsStay
  BY <1>1, <1>3 DEF JobsStay
<1> QED
  BY <1>2, <1>4, <1>5, Quiet

LEMMA WorkersQuiet ==
  ASSUME CommitInv, IndInv', NEW w \in Workers,
         WriteIndexingUsageLog(w) \/ PipelineRaises(w) \/ WorkerCrash(w)
  PROVE  CommitInv' /\ [Service!Next]_(Service!svars)
<1>1. worker \in [Workers -> WorkerRecords] /\ Free.pc = "idle"
  BY DEF CommitInv, IndInv, WellFormed, TypeOK, Free
<1>2. UNCHANGED <<status, indexed, head>> /\ JobsStay
  BY DEF WriteIndexingUsageLog, PipelineRaises, WorkerCrash, JobsStay
<1>3. \A v \in Workers : worker'[v] = worker[v] \/ worker'[v].pc \notin Fetching
  BY <1>1 DEF WriteIndexingUsageLog, PipelineRaises, WorkerCrash, Goto, Fetching, WorkerRecords
<1> QED
  BY <1>2, <1>3, Quiet

(* A worker at a stage writes a status that is shown as busy, as it was.    *)
LEMMA StagesStutter ==
  ASSUME CommitInv, IndInv', NEW w \in Workers,
         BeginIndex(w) \/ CloneRepository(w) \/ ParseFiles(w) \/ EmbedChunks(w)
  PROVE  CommitInv' /\ [Service!Next]_(Service!svars)
<1>1. /\ worker[w].pc # "idle" /\ worker[w].pc \notin LatePcs
      /\ UNCHANGED <<indexed, head, job>> /\ JobsStay
  BY DEF LatePcs, JobsStay, BeginIndex, CloneRepository, ParseFiles, EmbedChunks
<1>2. /\ worker \in [Workers -> WorkerRecords] /\ status \in [Repos -> RowStates]
      /\ worker[w].job \in Jobs /\ RepoOf(w) \in Repos /\ Live(worker[w].job)
  BY <1>1, RunningIsLive DEF CommitInv, IndInv, WellFormed, TypeOK
<1>3. PICK s \in NonTerminal : WriteStatus(RepoOf(w), s)
  BY Words DEF WriteStatus, BeginIndex, CloneRepository, ParseFiles, EmbedChunks
<1>4. Exists(RepoOf(w)) => status[RepoOf(w)] \in NonTerminal
  BY <1>2 DEF CommitInv, IndInv, LiveMeansBusy, RepoOf
<1>5. \A r \in Repos : \/ status'[r] = status[r]
                       \/ status'[r] = s /\ status[r] \in NonTerminal
  <2> PICK r \in Repos : r = RepoOf(w)
    BY <1>2
  <2>1. CASE Exists(r)
    <3>1. StatusBecomes(r, s) /\ status[r] \in NonTerminal
      BY <1>3, <1>4, <2>1 DEF WriteStatus, StatusBecomes
    <3>2. status'[r] = s /\ \A x \in Repos \ {r} : status'[x] = status[x]
      BY <1>2, <3>1 DEF StatusBecomes
    <3> QED
      BY <3>1, <3>2
  <2>2. CASE ~Exists(r)
    BY <1>3, <2>2 DEF WriteStatus
  <2> QED
    BY <2>1, <2>2
<1>6. UNCHANGED Service!svars
  <2>1. \A r \in Repos : Phase(status'[r]) = Phase(status[r])
    BY <1>5, Phases
  <2> QED
    BY <1>1, <2>1, Stutters DEF Shown
<1>7. \A r \in Repos : Exists(r)' => status[r] # "deleted"
  BY <1>5, Words DEF Exists
<1>8. \A v \in Workers : worker'[v].pc \in Fetching =>
        /\ worker[v].pc # "idle" /\ worker'[v].job = worker[v].job
        /\ \/ worker[v].pc \in Fetching /\ worker'[v].sha = worker[v].sha
           \/ worker'[v].sha = head[RepoOf(v)]
  <2>1. \A v \in Workers \ {w} : worker'[v] = worker[v]
    BY <1>2 DEF Goto, BeginIndex, CloneRepository, ParseFiles, EmbedChunks
  <2>2. /\ worker'[w].job = worker[w].job
        /\ \/ worker'[w].pc = "CLONING"
           \/ worker'[w].sha = head[RepoOf(w)]
           \/ worker[w].pc \in Fetching /\ worker'[w].sha = worker[w].sha
    BY <1>2 DEF Goto, WorkerRecords, Fetching,
           BeginIndex, CloneRepository, ParseFiles, EmbedChunks
  <2> QED
    BY <1>1, <2>1, <2>2 DEF Fetching
<1>9. \A r \in Repos : head'[r] \in 1..MaxCommits /\ head[r] <= head'[r]
  BY <1>1, BoundAssumption DEF CommitInv, Pushed
<1>10. CommitInv'
  BY <1>1, <1>7, <1>8, <1>9, NothingStored
<1> QED
  BY <1>6, <1>10

(* The store: a commit no older than the one indexed, and no other worker   *)
(* of the repository is past its clone.                                     *)
LEMMA StoreIndexes ==
  ASSUME CommitInv, IndInv', NEW w \in Workers, StoreIndex(w)
  PROVE  CommitInv' /\ [Service!Next]_(Service!svars)
<1>1. worker[w].pc = "STORING" /\ worker[w].pc # "idle" /\ worker[w].pc \notin LatePcs
  BY DEF StoreIndex, LatePcs
<1>2. /\ worker \in [Workers -> WorkerRecords] /\ TypeOK /\ JobsStay /\ UNCHANGED <<head, job>>
      /\ worker[w].job \in Jobs /\ RepoOf(w) \in Repos /\ Live(worker[w].job)
  BY <1>1, RunningIsLive DEF StoreIndex, JobsStay, CommitInv, IndInv, WellFormed, TypeOK
<1>3. worker'[w].pc = "logging" /\ \A v \in Workers \ {w} : worker'[v] = worker[v]
  BY <1>2 DEF StoreIndex, Goto, WorkerRecords
<1>4. CASE ~Exists(RepoOf(w))
  <2>1. UNCHANGED <<status, indexed>>
    BY <1>4 DEF StoreIndex, WriteStatus
  <2>2. \A v \in Workers : worker'[v] = worker[v] \/ worker'[v].pc \notin Fetching
    BY <1>3 DEF Fetching
  <2> QED
    BY <1>2, <2>1, <2>2, Quiet
<1>5. CASE Exists(RepoOf(w))
  <2> PICK r \in Repos : r = RepoOf(w)
    BY <1>2
  <2> PICK c : c = worker[w].sha
    OBVIOUS
  <2>1. StatusBecomes(r, "INDEXED") /\ indexed' = [indexed EXCEPT ![r] = c]
    BY <1>5 DEF StoreIndex, WriteStatus, StatusBecomes
  <2>2. c \in 1..MaxCommits /\ c <= head[r] /\ indexed[r] <= c
    BY <1>1, <1>5 DEF CommitInv, Fetched, Fetching
  <2>3. status[r] \in NonTerminal
    BY <1>2, <1>5 DEF CommitInv, IndInv, LiveMeansBusy, RepoOf
  <2>4. Service!Next
    BY <1>2, <2>1, <2>2, <2>3, Indexes
  <2>5. /\ \A x \in Repos \ {r} : indexed'[x] = indexed[x] /\ status'[x] = status[x]
        /\ indexed'[r] = c
    BY <1>2, <2>1 DEF TypeOK, StatusBecomes
  <2>6. Pushed'
    BY <1>2, <2>2, <2>5 DEF CommitInv, Pushed
  <2>7. Fetched'
    <3> SUFFICES ASSUME NEW v \in Workers, worker'[v].pc \in Fetching
                 PROVE  /\ worker'[v].sha \in 1..MaxCommits
                        /\ worker'[v].sha <= head'[RepoOf(v)']
                        /\ Exists(RepoOf(v))' => indexed'[RepoOf(v)'] <= worker'[v].sha
      BY DEF Fetched
    <3>1. v # w /\ worker'[v] = worker[v] /\ worker[v].pc \in Fetching
      BY <1>3 DEF Fetching
    <3>2. worker[v].pc # "idle" /\ worker[v].pc \notin LatePcs
      BY <3>1 DEF Fetching, LatePcs
    <3>3. worker[v].job \in Jobs /\ RepoOf(v) \in Repos /\ Live(worker[v].job)
      BY <3>2, RunningIsLive DEF CommitInv
    <3>4. RepoOf(v) # r
      <4>1. worker[v].job # worker[w].job
        BY <1>1, <3>1, <3>2, OneRunner DEF CommitInv
      <4> QED
        BY <1>2, <1>5, <3>3, <4>1 DEF CommitInv, IndInv, SingleLiveJob, RepoOf
    <3>5. PICK x \in Repos \ {r} : x = RepoOf(v) /\ x = RepoOf(v)'
      BY <1>2, <3>1, <3>3, <3>4 DEF RepoOf
    <3>6. Exists(RepoOf(v))' => Exists(x)
      BY <2>5, <3>5 DEF Exists
    <3> QED
      BY <1>2, <2>5, <3>1, <3>5, <3>6 DEF CommitInv, Fetched
  <2> QED
    BY <2>4, <2>6, <2>7 DEF CommitInv
<1> QED
  BY <1>4, <1>5

(* FAILED, written by a worker in its last attempt, or by the compensation  *)
(* of a lost connect.                                                       *)
LEMMA Undone ==
  ASSUME CommitInv, IndInv', NEW r \in Repos, status[r] \in NonTerminal, StatusBecomes(r, "FAILED"),
         UNCHANGED <<indexed, head, job>>,
         \A w \in Workers : worker'[w] = worker[w] \/ worker'[w].pc \notin Fetching
  PROVE  CommitInv' /\ [Service!Next]_(Service!svars)
<1>1. TypeOK /\ JobsStay
  BY DEF JobsStay, CommitInv, IndInv, WellFormed
<1>2. \A x \in Repos : Exists(x)' => status[x] # "deleted"
  BY <1>1, Words DEF StatusBecomes, TypeOK, Exists
<1>3. \A x \in Repos : head'[x] \in 1..MaxCommits /\ head[x] <= head'[x]
  BY BoundAssumption DEF CommitInv, Pushed
<1>4. \A w \in Workers : worker'[w].pc \in Fetching =>
        worker'[w] = worker[w] /\ worker[w].pc # "idle" /\ worker[w].pc \in Fetching
  BY DEF Fetching
<1>5. CommitInv'
  BY <1>2, <1>3, <1>4, NothingStored
<1> QED
  BY <1>1, <1>5, Fails

LEMMA FailureFails ==
  ASSUME CommitInv, IndInv', NEW w \in Workers, HandleJobFailure(w)
  PROVE  CommitInv' /\ [Service!Next]_(Service!svars)
<1>1. /\ worker[w].pc = "raised" /\ worker[w].pc # "idle" /\ worker[w].pc \notin LatePcs
      /\ UNCHANGED <<indexed, head, job>> /\ JobsStay
  BY DEF HandleJobFailure, LatePcs, JobsStay
<1>2. /\ worker \in [Workers -> WorkerRecords]
      /\ worker[w].job \in Jobs /\ RepoOf(w) \in Repos /\ Live(worker[w].job)
  BY <1>1, RunningIsLive DEF CommitInv, IndInv, WellFormed, TypeOK
<1>3. \A v \in Workers : worker'[v] = worker[v] \/ worker'[v].pc \notin Fetching
  BY <1>2 DEF HandleJobFailure, Goto, Fetching, WorkerRecords
<1>4. CASE UNCHANGED status
  BY <1>1, <1>3, <1>4, Quiet
<1>5. CASE Exists(RepoOf(w)) /\ StatusBecomes(RepoOf(w), "FAILED")
  <2>1. status[RepoOf(w)] \in NonTerminal
    BY <1>2, <1>5 DEF CommitInv, IndInv, LiveMeansBusy, RepoOf
  <2> QED
    BY <1>1, <1>2, <1>3, <1>5, <2>1, Undone
<1> QED
  BY <1>4, <1>5 DEF HandleJobFailure, StatusBecomes

LEMMA CompensationFails ==
  ASSUME CommitInv, IndInv', NEW q \in Requests, MarkConnectFailed(q)
  PROVE  CommitInv' /\ [Service!Next]_(Service!svars)
<1>1. request[q].pc = "compensate" /\ UNCHANGED <<indexed, head, job, worker>> /\ JobsStay
  BY DEF MarkConnectFailed, JobsStay
<1>2. request[q].repo \in Repos
  BY <1>1 DEF CommitInv, IndInv, WellFormed, RequestsHaveRepo
<1>3. CASE UNCHANGED status
  BY <1>1, <1>3, Quiet
<1>4. CASE Exists(request[q].repo) /\ StatusBecomes(request[q].repo, "FAILED")
  <2>1. status[request[q].repo] \in NonTerminal
    BY <1>1, <1>4 DEF CommitInv, IndInv, CompensateAlone
  <2> QED
    BY <1>1, <1>2, <1>4, <2>1, Undone
<1> QED
  BY <1>3, <1>4 DEF MarkConnectFailed, StatusBecomes

(* A repository that is new, or settled, accepts a job.                     *)
LEMMA NewJobAccepts ==
  ASSUME CommitInv, IndInv', NEW r \in Repos, NEW j \in Jobs, JobComes(r, j),
         status[r] = "unborn" \/ status[r] \in Terminal,
         StatusBecomes(r, "PENDING"), UNCHANGED <<indexed, head, worker>>
  PROVE  CommitInv' /\ [Service!Next]_(Service!svars)
<1>1. TypeOK
  BY DEF CommitInv, IndInv, WellFormed
<1>2. \A x \in Repos : Exists(x)' => status[x] # "deleted"
  BY <1>1, Words DEF StatusBecomes, TypeOK, Exists
<1>3. \A x \in Repos : head'[x] \in 1..MaxCommits /\ head[x] <= head'[x]
  BY BoundAssumption DEF CommitInv, Pushed
<1>4. \A i \in Jobs : job[i].state = "active" => job'[i].repo = job[i].repo
  BY DEF JobComes
<1>5. \A w \in Workers : worker'[w].pc \in Fetching =>
        worker'[w] = worker[w] /\ worker[w].pc # "idle" /\ worker[w].pc \in Fetching
  BY DEF Fetching
<1>6. CommitInv'
  BY <1>2, <1>3, <1>4, <1>5, NothingStored
<1> QED
  BY <1>1, <1>6, Accepts

LEMMA BackendAccepts ==
  ASSUME CommitInv, IndInv', NEW q \in Requests, NEW r \in Repos, NEW j \in Jobs,
         ConnectRepository(q, r, j) \/ (AcceptIndexJob(q, j) /\ r = request[q].repo)
  PROVE  CommitInv' /\ [Service!Next]_(Service!svars)
<1>1. job \in [Jobs -> JobRecords] /\ UNCHANGED <<indexed, head, worker>> /\ job[j].state = "unused"
  BY DEF ConnectRepository, AcceptIndexJob, CommitInv, IndInv, WellFormed, TypeOK
<1>2. StatusBecomes(r, "PENDING") /\ (status[r] = "unborn" \/ status[r] \in Terminal)
  BY DEF ConnectRepository, AcceptIndexJob, StatusStillSeen, StatusBecomes,
         CommitInv, IndInv, WellFormed, RequestsHaveJob
<1>3. \E type : job' = [job EXCEPT ![j] = NewJob(r, type)]
  BY DEF ConnectRepository, AcceptIndexJob
<1>4. JobComes(r, j)
  <2> PICK row : row.state = "accepted" /\ row.repo = r /\ job' = [job EXCEPT ![j] = row]
    BY <1>3 DEF NewJob
  <2> QED
    BY <1>1 DEF JobComes
<1> QED
  BY <1>1, <1>2, <1>4, NewJobAccepts

LEMMA OwnerSteps ==
  ASSUME CommitInv, IndInv', NEW r \in Repos, PushCommit(r) \/ DeleteRepository(r)
  PROVE  CommitInv' /\ [Service!Next]_(Service!svars)
<1>1. UNCHANGED <<indexed, job, worker>> /\ JobsStay /\ TypeOK
  BY DEF PushCommit, DeleteRepository, JobsStay, CommitInv, IndInv, WellFormed
<1>2. \A x \in Repos : Exists(x)' => status[x] # "deleted"
  BY <1>1, Words DEF PushCommit, DeleteRepository, TypeOK, Exists
<1>3. \A x \in Repos : head'[x] \in 1..MaxCommits /\ head[x] <= head'[x]
  BY <1>1, BoundAssumption DEF PushCommit, DeleteRepository, CommitInv, Pushed, TypeOK
<1>4. \A w \in Workers : worker'[w].pc \in Fetching =>
        worker'[w] = worker[w] /\ worker[w].pc # "idle" /\ worker[w].pc \in Fetching
  BY <1>1 DEF Fetching
<1>5. CommitInv'
  BY <1>1, <1>2, <1>3, <1>4, NothingStored
<1>6. CASE PushCommit(r)
  <2>1. Shown' = Shown
    BY <1>6 DEF PushCommit, Shown
  <2> QED
    BY <1>1, <1>5, <2>1, Stutters
<1> QED
  BY <1>1, <1>5, <1>6, Deletes

LEMMA ServiceStep ==
  ASSUME Faults \subseteq EarlyFaults
  PROVE  CommitInv /\ [Next]_vars => CommitInv' /\ [Service!Next]_(Service!svars)
<1> SUFFICES ASSUME CommitInv, [Next]_vars
             PROVE  CommitInv' /\ [Service!Next]_(Service!svars)
  OBVIOUS
<1>1. IndInv'
  BY IndInvStep DEF CommitInv
<1>2. ASSUME NEW q \in Requests, RequestStep(q)
      PROVE  CommitInv' /\ [Service!Next]_(Service!svars)
  <2>1. ASSUME NEW j \in Jobs, AcceptIndexJob(q, j)
        PROVE  CommitInv' /\ [Service!Next]_(Service!svars)
    <3>1. request[q].repo \in Repos
      BY <2>1 DEF AcceptIndexJob, CommitInv, IndInv, WellFormed, RequestsHaveRepo
    <3> QED
      BY <1>1, <2>1, <3>1, BackendAccepts
  <2> QED
    BY <1>1, <1>2, <2>1, RequestsQuiet, CompensationFails DEF RequestStep
<1>3. ASSUME NEW w \in Workers, WorkerStep(w)
      PROVE  CommitInv' /\ [Service!Next]_(Service!svars)
  BY <1>1, <1>3, StagesStutter, StoreIndexes, WorkersQuiet, FailureFails, AcksQuiet DEF WorkerStep
<1>4. ASSUME NEW q \in Requests, NEW r \in Repos, TriggerFullIndex(q, r) \/ HandlePushEvent(q, r)
      PROVE  CommitInv' /\ [Service!Next]_(Service!svars)
  <2>1. UNCHANGED <<status, indexed, head, job, worker>>
    BY <1>4 DEF TriggerFullIndex, HandlePushEvent
  <2> QED
    BY <1>1, <2>1, Quiet DEF JobsStay
<1>5. CASE Environment
  BY <1>1, <1>4, <1>5, BackendAccepts, OwnerSteps, RequestsQuiet, WorkersQuiet DEF Environment
<1>6. ASSUME NEW j \in Jobs, PromoteDelayed(j) \/ RequeueStalled(j)
      PROVE  CommitInv' /\ [Service!Next]_(Service!svars)
  BY <1>1, <1>6, QueueQuiet
<1>7. CASE UNCHANGED vars
  BY <1>1, <1>7, Quiet DEF vars, JobsStay
<1> QED
  BY <1>1, <1>2, <1>3, <1>5, <1>6, <1>7, QueueQuiet DEF Next

(* Under every early fault the queue, the retries and the crashes are       *)
(* hidden: a repository accepts one job at a time, settles each at most     *)
(* once, and the commit it is indexed at never goes back.                   *)
THEOREM IndexingIsAService ==
  ASSUME Faults \subseteq EarlyFaults
  PROVE  Spec => ImplementsService
<1>1. Init => CommitInv
  <2> SUFFICES ASSUME Init PROVE Pushed /\ Fetched
    BY IndInvInit DEF CommitInv
  <2> QED
    BY BoundAssumption DEF Init, Pushed, Fetched, Free, Fetching
<1>2. Init => Service!Init
  BY Phases DEF Init, Service!Init
<1>3. CommitInv /\ [Next]_vars => CommitInv' /\ [Service!Next]_(Service!svars)
  BY ServiceStep
<1> QED
  BY <1>1, <1>2, <1>3, PTL DEF Spec, ImplementsService, Service!Spec, Service!svars
=============================================================================
