-------------------------------- MODULE MCLive ---------------------------------
(***************************************************************************)
(* What a tab shows while the backend works, in one run; turn says which   *)
(* instance a behaviour is of. Of Chat, each with a limit of one message   *)
(* per window:                                                             *)
(*   "answers"   two questions, calls of the provider fail, the tab stays  *)
(*               (the constants of the cfg), and no conversation is there; *)
(*   "drops"     the socket is lost;                                       *)
(*   "writes"    writes fail;                                              *)
(*   "roams"     new chats, older conversations, the page left and opened. *)
(* Of Progress:                                                            *)
(*   "rows"      two repositories, which share a channel, and requests and *)
(*               subscriptions that overtake each other;                   *)
(*   "channels"  the page of a repository and that of a pull request;      *)
(*   "sockets"   one repository, indexed again, and sockets that are lost; *)
(*   "slow"      one repository whose polls overlap, and that is deleted.  *)
(***************************************************************************)
EXTENDS Chat

CONSTANTS r1, r2, p1

VARIABLES turn,
          row, runs, token, conn, socket, timer, pending, up, messages, polls, opened, requests,
          triggered, watched

chat     == vars
progress == <<row, runs, token, conn, socket, timer, pending, up, messages, polls, opened, requests,
              triggered, watched>>

Drops  == INSTANCE Chat WITH Faults <- {"drop"}, MaxAttempts <- 1
Writes == INSTANCE Chat WITH Faults <- {"database"}, MaxAttempts <- 1
Roams  == INSTANCE Chat WITH Faults <- {}, Moves <- {"new", "switch", "leave"}, MaxAttempts <- 1

RowsOf == INSTANCE Progress WITH
  Repositories <- {r1, r2}, PullRequests <- {}, MaxPolls <- 2, MaxSockets <- 1, MaxRuns <- 0,
  MaxUp <- 2, MaxDown <- 1, MaxGets <- 2, Faults <- {},
  ws <- socket, down <- messages, page <- opened, gets <- requests

Pair == INSTANCE Progress WITH
  Repositories <- {r1}, PullRequests <- {p1}, MaxPolls <- 2, MaxSockets <- 1, MaxRuns <- 0,
  MaxUp <- 1, MaxDown <- 1, MaxGets <- 1, Faults <- {"reload"},
  ws <- socket, down <- messages, page <- opened, gets <- requests

Sockets == INSTANCE Progress WITH
  Repositories <- {r1}, PullRequests <- {}, MaxPolls <- 2, MaxSockets <- 2, MaxRuns <- 1,
  MaxUp <- 1, MaxDown <- 1, MaxGets <- 1, Faults <- {"drop"},
  ws <- socket, down <- messages, page <- opened, gets <- requests

Slow == INSTANCE Progress WITH
  Repositories <- {r1}, PullRequests <- {}, MaxPolls <- 2, MaxSockets <- 1, MaxRuns <- 0,
  MaxUp <- 1, MaxDown <- 1, MaxGets <- 1, Faults <- {"slowRead", "deleted"},
  ws <- socket, down <- messages, page <- opened, gets <- requests

ChatTurns     == {"answers", "drops", "writes", "roams"}
ProgressTurns == {"rows", "channels", "sockets", "slow"}

(* Outside "roams" and "answers" one question of two is asked.             *)
LiveInit ==
  \/ /\ Init /\ RowsOf!Init
     /\ turn \in ChatTurns /\ created = IF turn = "answers" THEN 0 ELSE 1
     /\ \A r \in {r1, r2} : row[r] = "busy"
  \/ /\ Init /\ created = 0
     /\ \/ turn = "rows"     /\ RowsOf!Init
        \/ turn = "channels" /\ Pair!Init
        \/ turn = "sockets"  /\ Sockets!Init
        \/ turn = "slow"     /\ Slow!Init

(* An action of the instance whose turn it is.                             *)
ChatStep(answers, drops, writes, roams) ==
  /\ UNCHANGED <<turn, progress>>
  /\ \/ turn = "answers" /\ answers
     \/ turn = "drops"   /\ drops
     \/ turn = "writes"  /\ writes
     \/ turn = "roams"   /\ roams

ProgressStep(rows, channels, sockets, slow) ==
  /\ UNCHANGED <<turn, chat>>
  /\ \/ turn = "rows"     /\ rows
     \/ turn = "channels" /\ channels
     \/ turn = "sockets"  /\ sockets
     \/ turn = "slow"     /\ slow

LiveNext ==
  \/ ChatStep(Next, Drops!Next, Writes!Next, Roams!Next)
  \/ ProgressStep(RowsOf!Next, Pair!Next, Sockets!Next, Slow!Next)

live == <<turn, chat, progress>>

(* The fairness of Chat and of Progress, for each instance.                *)
LiveFairness ==
  /\ WF_live(ChatStep(Receive, Drops!Receive, Writes!Receive, Roams!Receive))
  /\ WF_live(ChatStep(FALSE, Drops!Reconnect, FALSE, FALSE))
  /\ WF_live(ChatStep(FALSE, Drops!OnOpen, FALSE, FALSE))
  /\ WF_live(ChatStep(PageStep, Drops!PageStep, Writes!PageStep, Roams!PageStep))
  /\ WF_live(ChatStep(WindowEnds, Drops!WindowEnds, Writes!WindowEnds, Roams!WindowEnds))
  /\ \A q \in Questions :
       WF_live(ChatStep(JobStep(q), Drops!JobStep(q), Writes!JobStep(q), Roams!JobStep(q)))
  /\ WF_live(ProgressStep(RowsOf!OnOpen, Pair!OnOpen, Sockets!OnOpen, Slow!OnOpen))
  /\ WF_live(ProgressStep(RowsOf!GetStep, Pair!GetStep, Sockets!GetStep, Slow!GetStep))
  /\ WF_live(ProgressStep(RowsOf!Receive, Pair!Receive, Sockets!Receive, Slow!Receive))
  /\ WF_live(ProgressStep(RowsOf!Ask, Pair!Ask, Sockets!Ask, Slow!Ask))
  /\ WF_live(ProgressStep(FALSE, FALSE, Sockets!TriggerAnswered(r1), FALSE))
  /\ \A i \in 1 .. 2 :
       /\ WF_live(ProgressStep(RowsOf!Subscribed(i), Pair!Subscribed(i), Sockets!Subscribed(i), Slow!Subscribed(i)))
       /\ WF_live(ProgressStep(RowsOf!Poll(i) \/ RowsOf!Answer(i), Pair!Poll(i) \/ Pair!Answer(i),
                               Sockets!Poll(i) \/ Sockets!Answer(i), Slow!Poll(i) \/ Slow!Answer(i)))

LiveSpec == LiveInit /\ [][LiveNext]_live /\ LiveFairness

-----------------------------------------------------------------------------
(* The properties of Chat (ShownIsStored, LimitEnds and AnswersStay as they*)
(* are) and of Progress, for the instances they hold of.                   *)

(* Every variable has its type.                                            *)
LiveTypeOK ==
  /\ TypeOK
  /\ turn \notin {"channels", "sockets", "slow"} => RowsOf!TypeOK
  /\ turn = "channels" => Pair!TypeOK
  /\ turn = "sockets" => Sockets!TypeOK
  /\ turn = "slow" => Slow!TypeOK

(* The page does not think forever while its socket lasts: an answer, an   *)
(* error and the limit all end it.                                         *)
ThinkingIsOver ==
  turn \in {"answers", "writes", "roams"} /\ page.thinking ~> ~page.thinking


(* No interval goes on polling a row whose work has ended.                 *)
PollsEnd ==
  \A i \in 1 .. 2 : []<>(polls[i].state = "set" => row[polls[i].row] # "terminal")

(* A socket has one active poll per channel.                               *)
OnePollPerSocket ==
  /\ turn = "rows" => RowsOf!OnePollPerSocket
  /\ turn = "channels" => Pair!OnePollPerSocket
  /\ turn = "sockets" => Sockets!OnePollPerSocket
=============================================================================
