------------------------------ MODULE Progress -------------------------------
(***************************************************************************)
(* Live progress: the WebSocket of one tab, the polls the backend runs for *)
(* the subscriptions made on it, and the pages that show the status of a   *)
(* repository (RepositoryLayout) or of a pull request's review. No message *)
(* of the protocol says which row it is about.                             *)
(***************************************************************************)
EXTENDS Naturals, Sequences, FiniteSets, SequencesExt

CONSTANTS
  Repositories, PullRequests,
  MaxPolls,   (* bound: subscriptions in their query or polling, at once   *)
  MaxSockets, (* bound: sockets opened one after the other                 *)
  MaxRuns,    (* bound: how often work on a row starts anew                *)
  MaxUp,      (* bound: subscriptions on their way to the backend          *)
  MaxDown,    (* bound: messages on their way to the tab                   *)
  MaxGets,    (* bound: requests of the page that are under way            *)
  Faults      (* a subset of AllFaults                                     *)

(* "slowRead": a poll waits for its row while the interval fires again, or *)
(* a subscription takes its place; "drop": the socket is lost; "reload":   *)
(* the page was opened by a reload, before the first access token of the   *)
(* tab; "deleted": rows disappear.                                         *)
AllFaults == {"slowRead", "drop", "reload", "deleted"}

VARIABLES
  row,       (* the status of each row, in the database                    *)
  runs,      (* how often work started anew                                *)
  token,     (* the tab has an access token                                *)
  conn, ws,  (* the socket of the client: which one, and its state         *)
  timer,     (* reconnectTimer is set                                      *)
  pending,   (* pendingSends                                               *)
  up, down,  (* what is on its way to the backend and to the tab           *)
  polls,     (* the calls of the subscription handlers: slots              *)
  page,      (* the row the tab shows the page of, and its status there    *)
  gets,      (* the requests of the page for its row                       *)
  triggered, (* rows whose POST of an index waits for its answer           *)
  watched    (* history: on each channel of the socket, the row of the     *)
             (* subscription handled last, until work on it begins unseen  *)

vars == <<row, runs, token, conn, ws, timer, pending, up, down, polls, page, gets, triggered, watched>>
socket == <<conn, ws, timer, pending>>
tab == <<page, gets, triggered>>

None     == "none"
Rows     == Repositories \cup PullRequests
Channels == {"progress", "pr-review-progress"}
Channel(s) == IF s \in Repositories THEN "progress" ELSE "pr-review-progress"

(* INDEXED and FAILED, COMPLETE and FAILED are told apart by nothing here. *)
Statuses == {"busy", "terminal"}
Found    == Statuses \cup {None}
Slots    == 1 .. MaxPolls

(* A call is in its query ("asked"), its interval is set, or it is cleared *)
(* with callbacks of it still waiting for what they read. known: it is     *)
(* ws.__progressInterval; closes: its close listener is registered.        *)
Free    == [row |-> None, conn |-> 0, state |-> "free", seen |-> None, reads |-> {},
            known |-> FALSE, closes |-> FALSE]

(* late, here and below, is history: what the page shows came in an answer *)
(* that a later one had overtaken.                                         *)
NoPage  == [row |-> None, status |-> None, late |-> FALSE]
Get(first) == [first |-> first, read |-> FALSE, found |-> None, late |-> FALSE]

(* Every variable has its type.                                            *)
TypeOK ==
  /\ row \in [Rows -> Found] /\ runs \in 0 .. MaxRuns
  /\ token \in BOOLEAN /\ timer \in BOOLEAN
  /\ conn \in 0 .. MaxSockets /\ ws \in {None, "connecting", "open"}
  /\ \A i \in DOMAIN pending : pending[i] \in Rows
  /\ \A i \in DOMAIN up : up[i] \in Rows
  /\ \A i \in DOMAIN down : down[i] \in [channel : Channels, status : Statuses \cup {"complete"}, late : BOOLEAN]
  /\ polls \in [Slots -> [row : Rows \cup {None}, conn : 0 .. MaxSockets,
                          state : {"free", "asked", "set", "cleared"},
                          seen : Found, reads : SUBSET Found, known : BOOLEAN, closes : BOOLEAN]]
  /\ page \in [row : Rows \cup {None}, status : Found, late : BOOLEAN]
  /\ \A i \in DOMAIN gets : gets[i] \in [first : BOOLEAN, read : BOOLEAN, found : Found, late : BOOLEAN]
  /\ triggered \subseteq Repositories /\ watched \in [Channels -> Rows \cup {None}]

Init ==
  /\ row \in [Rows -> Statuses] /\ runs = 0
  /\ token = ("reload" \notin Faults)
  /\ conn = 0 /\ ws = None /\ timer = FALSE /\ pending = <<>>
  /\ up = <<>> /\ down = <<>>
  /\ polls = [i \in Slots |-> Free]
  /\ page = NoPage /\ gets = <<>> /\ triggered = {}
  /\ watched = [ch \in Channels |-> None]

-----------------------------------------------------------------------------
(* The workers, and a push or a re-index from elsewhere.                   *)

StartWork(s) ==
  /\ row[s] = "terminal" /\ runs < MaxRuns
  /\ row' = [row EXCEPT ![s] = "busy"]
  /\ runs' = runs + 1

(* Work that begins elsewhere is seen through an interval that has not     *)
(* read the end of the work before, or through one still to be set.        *)
Sees(p, s) ==
  p.row = s /\ p.conn = conn /\ p.state \in {"asked", "set"} /\ "terminal" \notin p.reads

WorkStarts(s) ==
  /\ StartWork(s)
  /\ watched' = IF \E i \in Slots : Sees(polls[i], s) THEN watched
                ELSE [ch \in Channels |-> IF watched[ch] = s THEN None ELSE watched[ch]]
  /\ UNCHANGED <<token, socket, up, down, polls, tab>>

WorkEnds(s) ==
  /\ row[s] = "busy"
  /\ row' = [row EXCEPT ![s] = "terminal"]
  /\ UNCHANGED <<runs, token, socket, up, down, polls, tab, watched>>

Delete(s) ==
  /\ "deleted" \in Faults /\ row[s] # None
  /\ row' = [row EXCEPT ![s] = None]
  /\ UNCHANGED <<runs, token, socket, up, down, polls, tab, watched>>

-----------------------------------------------------------------------------
(* The client of the socket.                                               *)

TokenArrives ==
  /\ ~token
  /\ token' = TRUE
  /\ UNCHANGED <<row, runs, socket, up, down, polls, tab, watched>>

(* connect: nothing without a token, or with a socket.                     *)
CanConnect == token /\ ws = None /\ conn < MaxSockets
Connect ==
  /\ ws' = IF CanConnect THEN "connecting" ELSE ws
  /\ conn' = IF CanConnect THEN conn + 1 ELSE conn

(* send: while connecting the message waits, without a socket it is lost.  *)
Send(s, state) ==
  /\ pending' = IF token /\ state = "connecting" THEN Append(pending, s) ELSE pending
  /\ up' = IF token /\ state = "open" THEN Append(up, s) ELSE up

OnOpen ==
  /\ ws = "connecting"
  /\ ws' = "open" /\ timer' = FALSE
  /\ up' = up \o pending /\ pending' = <<>>
  /\ UNCHANGED <<row, runs, token, conn, down, polls, tab, watched>>

(* The slot of an interval that is cleared is free once no callback of it  *)
(* waits.                                                                  *)
Settled(p) == IF p.state = "cleared" /\ p.reads = {} THEN Free ELSE p

(* onclose, also of a socket that does not open, and the close listeners   *)
(* of the backend. A handler in its query goes on, and so do the callbacks *)
(* that wait. The subscriptions are not made again.                        *)
OnClose ==
  /\ "drop" \in Faults /\ ws # None /\ conn < MaxSockets
  /\ ws' = None /\ timer' = token
  /\ up' = <<>> /\ down' = <<>>
  /\ polls' = [i \in Slots |-> IF polls[i].conn = conn /\ polls[i].state = "set" /\ polls[i].closes
                              THEN Settled([polls[i] EXCEPT !.state = "cleared"]) ELSE polls[i]]
  /\ watched' = [ch \in Channels |-> None]
  /\ UNCHANGED <<row, runs, token, conn, pending, tab>>

Reconnect ==
  /\ timer
  /\ timer' = FALSE
  /\ Connect
  /\ UNCHANGED <<row, runs, token, pending, up, down, polls, tab, watched>>

-----------------------------------------------------------------------------
(* The backend: handleProgressSubscription and its pull request twin. The  *)
(* gateway does not wait for one call before it makes the next.            *)

(* A message arrives, and the query of its call finds the row; a row that  *)
(* is not there is answered with an error.                                 *)
Ask ==
  /\ ws = "open" /\ up # <<>>
  /\ up' = Tail(up)
  /\ \/ /\ row[Head(up)] = None
        /\ UNCHANGED polls
     \/ /\ row[Head(up)] # None
        /\ \E i \in Slots :
             /\ polls[i] = Free /\ \A k \in 1 .. i - 1 : polls[k] # Free
             /\ polls' = [polls EXCEPT ![i] = [Free EXCEPT !.row = Head(up), !.conn = conn, !.state = "asked"]]
  /\ UNCHANGED <<row, runs, token, socket, down, tab, watched>>

Beside(k, i) ==
  /\ polls[k].conn = polls[i].conn /\ polls[k].state \in {"set", "cleared"}
  /\ Channel(polls[k].row) = Channel(polls[i].row)

(* The interval the socket knows of is cleared, and the close listener is  *)
(* taken off; a callback that waits for its row goes on.                   *)
Replaced_Leak(p) == [p EXCEPT !.known = FALSE, !.closes = FALSE]
Replaced(p) ==
  Settled([p EXCEPT !.state = IF p.known THEN "cleared" ELSE @, !.known = FALSE, !.closes = FALSE])

(* The query of a call is answered, in any order, also on a closed socket. *)
Subscribed(i) ==
  /\ polls[i].state = "asked"
  /\ "slowRead" \in Faults \/ \A k \in Slots : polls[k].reads = {}
  /\ polls' = [k \in Slots |->
       IF k = i THEN [polls[i] EXCEPT !.state = "set", !.known = TRUE, !.closes = TRUE]
       ELSE IF Beside(k, i) THEN Replaced(polls[k]) ELSE polls[k]]
  /\ watched' = IF polls[i].conn = conn /\ ws = "open"
                THEN [watched EXCEPT ![Channel(polls[i].row)] = polls[i].row] ELSE watched
  /\ UNCHANGED <<row, runs, token, socket, up, down, tab>>

(* The interval fires, and its query reads the row. Two callbacks that     *)
(* read the same are not told apart, and those that are nobody's news, now *)
(* or later, are left out.                                                 *)
Poll(i) ==
  LET status == row[polls[i].row] IN
  /\ polls[i].state = "set"
  /\ polls[i].reads = {} \/ ("slowRead" \in Faults /\ status \notin polls[i].reads)
  /\ status = polls[i].seen => "slowRead" \in Faults
  /\ status = None => polls[i].row \in Repositories
  /\ polls' = [polls EXCEPT ![i].reads = @ \cup {status}]
  /\ UNCHANGED <<row, runs, token, socket, up, down, tab, watched>>

(* What reaches the tab: nothing through a socket that is closed.          *)
Said_Row(p, status) == [channel |-> Channel(p.row), status |-> row[p.row], late |-> ~p.known]
Said(p, status) == [channel |-> Channel(p.row), status |-> status, late |-> ~p.known]
News(p, status) == IF p.seen # status THEN <<Said(p, status)>> ELSE <<>>
Heard(p, messages) == IF p.conn = conn /\ ws = "open" THEN down \o messages ELSE down

Kept(p, status) == [p EXCEPT !.seen = status, !.reads = @ \ {status}]
Cleared_Never(p, status) == Kept(p, status)
Cleared(p, status) == [Kept(p, status) EXCEPT !.state = "cleared"]

(* The rest of a callback, which runs also when the interval was cleared   *)
(* since, and then makes the socket forget the one in its place.           *)
Answer(i) ==
  LET p == polls[i] IN
  /\ \/ /\ "busy" \in p.reads
        /\ down' = Heard(p, News(p, "busy"))
        /\ polls' = [polls EXCEPT ![i] = Settled(Kept(p, "busy"))]
     \/ /\ "terminal" \in p.reads
        /\ down' = Heard(p, Append(News(p, "terminal"), Said(p, "complete")))
        /\ polls' = [k \in Slots |->
             IF k = i THEN Settled([Cleared(p, "terminal") EXCEPT !.known = FALSE])
             ELSE IF Beside(k, i) THEN [polls[k] EXCEPT !.known = FALSE] ELSE polls[k]]
     \/ /\ None \in p.reads
        /\ polls' = [polls EXCEPT ![i] = Settled([p EXCEPT !.reads = @ \ {None}, !.state = "cleared"])]
        /\ UNCHANGED down
  /\ UNCHANGED <<row, runs, token, socket, up, tab, watched>>

-----------------------------------------------------------------------------
(* The pages.                                                              *)

RoomUp   == Len(up) + Len(pending) < MaxUp /\ Len(down) < MaxDown
RoomGets == Len(gets) < MaxGets

Open(s) ==
  /\ page.row = None /\ row[s] # None /\ RoomUp
  /\ page' = [NoPage EXCEPT !.row = s]
  /\ gets' = <<Get(TRUE)>>
  /\ Connect /\ Send(s, ws')
  /\ UNCHANGED <<row, runs, token, timer, down, polls, triggered, watched>>

(* The handlers are unregistered, and what the requests bring is nobody's; *)
(* the subscription stays.                                                 *)
Leave ==
  /\ page.row # None
  /\ page' = NoPage /\ gets' = <<>>
  /\ UNCHANGED <<row, runs, token, socket, up, down, polls, triggered, watched>>

(* A request reads the row; requests are told apart by when they do.       *)
GetRead(i) ==
  /\ token /\ ~gets[i].read /\ \A k \in 1 .. i - 1 : gets[k].read
  /\ gets' = [gets EXCEPT ![i].read = TRUE, ![i].found = row[page.row]]
  /\ UNCHANGED <<row, runs, token, socket, up, down, polls, page, triggered, watched>>

(* Its answer arrives, before or after those of others. Only the first     *)
(* request of a page leaves it when the row is not there.                  *)
GetArrives(i) ==
  LET get == gets[i]
      overtaken == [k \in DOMAIN gets |-> IF k < i THEN [gets[k] EXCEPT !.late = TRUE] ELSE gets[k]]
  IN
  /\ get.read
  /\ \/ /\ get.found = None /\ get.first
        /\ page' = NoPage /\ gets' = <<>>
     \/ /\ get.found = None => ~get.first
        /\ page' = IF get.found = None THEN page ELSE [page EXCEPT !.status = get.found, !.late = get.late]
        /\ gets' = RemoveAt(overtaken, i)
  /\ UNCHANGED <<row, runs, token, socket, up, down, polls, triggered, watched>>

(* handleTriggerIndex of RepositoryOverview, whose button is disabled      *)
(* while the status shown is not terminal or its request is under way. A   *)
(* row that is busy after all is refused, and nothing else is done.        *)
TriggerIndex(s) ==
  /\ page.row = s /\ page.status = "terminal" /\ s \in Repositories \ triggered
  /\ StartWork(s)
  /\ triggered' = triggered \cup {s}
  /\ UNCHANGED <<token, socket, up, down, polls, page, gets, watched>>

(* What follows the answer, also when the page was left meanwhile.         *)
TriggerAnswered(s) ==
  /\ s \in triggered /\ RoomUp /\ RoomGets
  /\ triggered' = triggered \ {s}
  /\ Send(s, ws)
  /\ gets' = IF page.row = s THEN Append(gets, Get(FALSE)) ELSE gets
  /\ UNCHANGED <<row, runs, token, conn, ws, timer, down, polls, page, watched>>

(* onmessage: the layout patches its row, once there is one, whatever row  *)
(* the message is about, and fetches it at the end; the review page        *)
(* fetches the review either way.                                          *)
Receive ==
  LET message == Head(down)
      shown   == page.row # None /\ Channel(page.row) = message.channel
      patches == message.status # "complete" /\ message.channel = "progress"
  IN
  /\ down # <<>>
  /\ down' = Tail(down)
  /\ \/ /\ shown /\ patches /\ page.status # None
        /\ page' = [page EXCEPT !.status = message.status, !.late = message.late]
        /\ UNCHANGED gets
     \/ /\ shown /\ ~patches /\ RoomGets
        /\ gets' = Append(gets, Get(FALSE))
        /\ UNCHANGED page
     \/ /\ ~shown \/ (patches /\ page.status = None)
        /\ UNCHANGED <<page, gets>>
  /\ UNCHANGED <<row, runs, token, socket, up, polls, triggered, watched>>

-----------------------------------------------------------------------------
ServerStep == Ask \/ \E i \in Slots : Subscribed(i) \/ Poll(i) \/ Answer(i)
GetStep    == \E i \in DOMAIN gets : GetRead(i) \/ GetArrives(i)
ClientStep == TokenArrives \/ OnOpen \/ Reconnect \/ GetStep \/ Receive \/ \E s \in Repositories : TriggerAnswered(s)
RowStep(s) == WorkStarts(s) \/ WorkEnds(s) \/ Delete(s)
UserStep   == Leave \/ \E s \in Rows : Open(s) \/ TriggerIndex(s)

Next ==
  \/ ServerStep \/ ClientStep \/ UserStep \/ OnClose
  \/ \E s \in Rows : RowStep(s)

Fairness ==
  /\ WF_vars(OnOpen) /\ WF_vars(GetStep) /\ WF_vars(Receive) /\ WF_vars(Ask)
  /\ \A i \in Slots : WF_vars(Subscribed(i)) /\ WF_vars(Poll(i) \/ Answer(i))
  /\ \A s \in Repositories : WF_vars(TriggerAnswered(s))

Spec == Init /\ [][Next]_vars
FairSpec == Spec /\ Fairness

-----------------------------------------------------------------------------
(* Properties.                                                             *)


(* Cleared, replaced, leaked or set for a socket that is gone, no interval *)
(* goes on polling a row whose work has ended.                             *)
PollsEnd ==
  \A i \in Slots : []<>(polls[i].state = "set" => row[polls[i].row] # "terminal")

(* A socket has one active poll per channel, however often the client      *)
(* subscribes and in whatever order its subscriptions are handled.         *)
OnePollPerSocket ==
  \A i, j \in Slots :
    /\ polls[i].state = "set" /\ polls[j].state = "set"
    /\ polls[i].conn = polls[j].conn /\ Channel(polls[i].row) = Channel(polls[j].row)
    => i = j
=============================================================================
