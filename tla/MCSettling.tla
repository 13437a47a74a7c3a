------------------------------ MODULE MCSettling -------------------------------
(***************************************************************************)
(* Two instances of IndexJobs for the promise that all work ends, checked  *)
(* in one run; turn says which one a behaviour is of. "two": two jobs of a *)
(* repository, with the faults under which the repository settles; "all":  *)
(* one job with three attempts and every fault there is.                   *)
(***************************************************************************)
EXTENDS IndexJobs

CONSTANTS r1, j1, j2, w1, w2, q1

VARIABLE turn

OneRepo    == {r1}
OneJob     == {j1}
TwoJobs    == {j1, j2}
TwoWorkers == {w1, w2}
OneRequest == {q1}

SettlingFaults == {"stage", "usageLog", "lateCrash", "enqueueAmbiguous"}

All == INSTANCE IndexJobs WITH
  Jobs <- OneJob, MaxAttempts <- 3, Faults <- EarlyFaults \cup LateFaults

(* An action of the instance whose turn it is.                             *)
Either(two, all) == UNCHANGED turn /\ ((turn = "two" /\ two) \/ (turn = "all" /\ all))

EitherInit ==
  \/ turn = "two" /\ Init
  \/ turn = "all" /\ All!Init

EitherVars == <<turn, vars>>

(* The fairness of IndexJobs, for either.                                  *)
EitherSpec ==
  /\ EitherInit
  /\ [][Either(Next, All!Next)]_EitherVars
  /\ \A q \in Requests : WF_EitherVars(Either(RequestStep(q), All!RequestStep(q)))
  /\ \A w \in Workers : WF_EitherVars(Either(WorkerStep(w), All!WorkerStep(w)))
  /\ \A j \in Jobs :
       /\ SF_EitherVars(\E w \in Workers : Either(TakeJob(w, j), j \in OneJob /\ All!TakeJob(w, j)))
       /\ WF_EitherVars(Either(PromoteDelayed(j), j \in OneJob /\ All!PromoteDelayed(j)))
       /\ WF_EitherVars(Either(Orphaned(j) /\ RequeueStalled(j),
                               j \in OneJob /\ All!Orphaned(j) /\ All!RequeueStalled(j)))

-----------------------------------------------------------------------------
(* The properties of IndexJobs, for the instances they hold of.            *)

(* A repository shown as being indexed has a job that will end that.       *)
BusyIsServed == turn = "two" => BusyHasJob

(* Every repository being indexed gets to INDEXED or FAILED.               *)
RepositoryEnds ==
  \A r \in Repos :
    turn = "two" /\ status[r] \in NonTerminal ~> status[r] \notin NonTerminal

(* Every job that reached the queue leaves it, under every fault.          *)
JobEnds ==
  \A j \in OneJob : job[j].state = "waiting" ~> job[j].state \in {"completed", "failed"}
=============================================================================
