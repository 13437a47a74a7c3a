------------------------------ MODULE LiveProofs -------------------------------
(* What MCLive checks, of its behaviours: the invariants of ChatProofs and  *)
(* ProgressProofs carried over to the instance whose turn it is.            *)
EXTENDS MCLive, ChatProofs

(* The chat: three more instances. An operator of an instance is opaque, so *)
(* the lemmas show that those of MCLive and those of the proofs say the     *)
(* same.                                                                    *)
DropsP  == INSTANCE ChatProofs WITH Faults <- {"drop"}, MaxAttempts <- 1
WritesP == INSTANCE ChatProofs WITH Faults <- {"database"}, MaxAttempts <- 1
RoamsP  == INSTANCE ChatProofs WITH Faults <- {}, Moves <- {"new", "switch", "leave"}, MaxAttempts <- 1

LEMMA SameDrops == (Init <=> DropsP!Init) /\ (Drops!Next <=> DropsP!Next) /\ DropsP!vars = chat
BY DEF
  chat, vars, Init, Conversations, Exchange, Idle, NoPage, ToSet, DropsP!Init, Drops!vars,
  Drops!db, Drops!window, Drops!tab, Drops!Conversations, Drops!Idle, Drops!NoPage,
  Drops!Exchange, Drops!Get, Drops!Open, Drops!Leave, Drops!Latest, Drops!Resume, Drops!NewChat,
  Drops!NewConversation, Drops!Switch, Drops!AnswersIn, Drops!GetRead, Drops!GetArrives,
  Drops!SendQuestion, Drops!Mounted, Drops!Receive, Drops!Drop, Drops!Reconnect, Drops!OnOpen,
  Drops!At, Drops!Goes, Drops!FirstInWindow, Drops!CountMessage, Drops!SetExpiry,
  Drops!WindowEnds, Drops!Attempt, Drops!Retrieve, Drops!Complete, Drops!Store, Drops!WriteFails,
  Drops!StoreQuestion, Drops!StoreRefusal, Drops!StoreAnswer, Drops!LogUsage, Drops!Told,
  Drops!Reply, Drops!JobStep, Drops!PageStep, Drops!UserStep, Drops!Next, Drops!ToSet,
  DropsP!vars, DropsP!db, DropsP!window, DropsP!tab, DropsP!Conversations, DropsP!Idle,
  DropsP!NoPage, DropsP!Exchange, DropsP!Get, DropsP!Open, DropsP!Leave, DropsP!Latest,
  DropsP!Resume, DropsP!NewChat, DropsP!NewConversation, DropsP!Switch, DropsP!AnswersIn,
  DropsP!GetRead, DropsP!GetArrives, DropsP!SendQuestion, DropsP!Mounted, DropsP!Receive,
  DropsP!Drop, DropsP!Reconnect, DropsP!OnOpen, DropsP!At, DropsP!Goes, DropsP!FirstInWindow,
  DropsP!CountMessage, DropsP!SetExpiry, DropsP!WindowEnds, DropsP!Attempt, DropsP!Retrieve,
  DropsP!Complete, DropsP!Store, DropsP!WriteFails, DropsP!StoreQuestion, DropsP!StoreRefusal,
  DropsP!StoreAnswer, DropsP!LogUsage, DropsP!Told, DropsP!Reply, DropsP!JobStep, DropsP!PageStep,
  DropsP!UserStep, DropsP!Next, DropsP!ToSet

LEMMA SameWrites == (Init <=> WritesP!Init) /\ (Writes!Next <=> WritesP!Next) /\ WritesP!vars = chat
BY DEF
  chat, vars, Init, Conversations, Exchange, Idle, NoPage, ToSet, WritesP!Init, Writes!vars,
  Writes!db, Writes!window, Writes!tab, Writes!Conversations, Writes!Idle, Writes!NoPage,
  Writes!Exchange, Writes!Get, Writes!Open, Writes!Leave, Writes!Latest, Writes!Resume,
  Writes!NewChat, Writes!NewConversation, Writes!Switch, Writes!AnswersIn, Writes!GetRead,
  Writes!GetArrives, Writes!SendQuestion, Writes!Mounted, Writes!Receive, Writes!Drop,
  Writes!Reconnect, Writes!OnOpen, Writes!At, Writes!Goes, Writes!FirstInWindow,
  Writes!CountMessage, Writes!SetExpiry, Writes!WindowEnds, Writes!Attempt, Writes!Retrieve,
  Writes!Complete, Writes!Store, Writes!WriteFails, Writes!StoreQuestion, Writes!StoreRefusal,
  Writes!StoreAnswer, Writes!LogUsage, Writes!Told, Writes!Reply, Writes!JobStep, Writes!PageStep,
  Writes!UserStep, Writes!Next, Writes!ToSet, WritesP!vars, WritesP!db, WritesP!window,
  WritesP!tab, WritesP!Conversations, WritesP!Idle, WritesP!NoPage, WritesP!Exchange, WritesP!Get,
  WritesP!Open, WritesP!Leave, WritesP!Latest, WritesP!Resume, WritesP!NewChat,
  WritesP!NewConversation, WritesP!Switch, WritesP!AnswersIn, WritesP!GetRead, WritesP!GetArrives,
  WritesP!SendQuestion, WritesP!Mounted, WritesP!Receive, WritesP!Drop, WritesP!Reconnect,
  WritesP!OnOpen, WritesP!At, WritesP!Goes, WritesP!FirstInWindow, WritesP!CountMessage,
  WritesP!SetExpiry, WritesP!WindowEnds, WritesP!Attempt, WritesP!Retrieve, WritesP!Complete,
  WritesP!Store, WritesP!WriteFails, WritesP!StoreQuestion, WritesP!StoreRefusal,
  WritesP!StoreAnswer, WritesP!LogUsage, WritesP!Told, WritesP!Reply, WritesP!JobStep,
  WritesP!PageStep, WritesP!UserStep, WritesP!Next, WritesP!ToSet

LEMMA SameRoams == (Init <=> RoamsP!Init) /\ (Roams!Next <=> RoamsP!Next) /\ RoamsP!vars = chat
BY DEF
  chat, vars, Init, Conversations, Exchange, Idle, NoPage, ToSet, RoamsP!Init, Roams!vars,
  Roams!db, Roams!window, Roams!tab, Roams!Conversations, Roams!Idle, Roams!NoPage,
  Roams!Exchange, Roams!Get, Roams!Open, Roams!Leave, Roams!Latest, Roams!Resume, Roams!NewChat,
  Roams!NewConversation, Roams!Switch, Roams!AnswersIn, Roams!GetRead, Roams!GetArrives,
  Roams!SendQuestion, Roams!Mounted, Roams!Receive, Roams!Drop, Roams!Reconnect, Roams!OnOpen,
  Roams!At, Roams!Goes, Roams!FirstInWindow, Roams!CountMessage, Roams!SetExpiry,
  Roams!WindowEnds, Roams!Attempt, Roams!Retrieve, Roams!Complete, Roams!Store, Roams!WriteFails,
  Roams!StoreQuestion, Roams!StoreRefusal, Roams!StoreAnswer, Roams!LogUsage, Roams!Told,
  Roams!Reply, Roams!JobStep, Roams!PageStep, Roams!UserStep, Roams!Next, Roams!ToSet,
  RoamsP!vars, RoamsP!db, RoamsP!window, RoamsP!tab, RoamsP!Conversations, RoamsP!Idle,
  RoamsP!NoPage, RoamsP!Exchange, RoamsP!Get, RoamsP!Open, RoamsP!Leave, RoamsP!Latest,
  RoamsP!Resume, RoamsP!NewChat, RoamsP!NewConversation, RoamsP!Switch, RoamsP!AnswersIn,
  RoamsP!GetRead, RoamsP!GetArrives, RoamsP!SendQuestion, RoamsP!Mounted, RoamsP!Receive,
  RoamsP!Drop, RoamsP!Reconnect, RoamsP!OnOpen, RoamsP!At, RoamsP!Goes, RoamsP!FirstInWindow,
  RoamsP!CountMessage, RoamsP!SetExpiry, RoamsP!WindowEnds, RoamsP!Attempt, RoamsP!Retrieve,
  RoamsP!Complete, RoamsP!Store, RoamsP!WriteFails, RoamsP!StoreQuestion, RoamsP!StoreRefusal,
  RoamsP!StoreAnswer, RoamsP!LogUsage, RoamsP!Told, RoamsP!Reply, RoamsP!JobStep, RoamsP!PageStep,
  RoamsP!UserStep, RoamsP!Next, RoamsP!ToSet

LEMMA DropsStored == DropsP!StoredInv => StoredInv
<1>1. ASSUME NEW n PROVE DropsP!Jobs(n) \subseteq Jobs(n)
  BY ChatAssumption DEF DropsP!Jobs, Jobs, DropsP!Phases, Phases
<1>2. /\ DropsP!Sent = Sent /\ DropsP!Gets = Gets /\ DropsP!Messages = Messages /\ DropsP!Conversations = Conversations
      /\ \A n : DropsP!Pages(n) = Pages(n)
  BY DEF DropsP!Sent, Sent, DropsP!Gets, Gets, DropsP!Messages, Messages, DropsP!Conversations, Conversations,
         DropsP!Pages, Pages
<1>3. DropsP!Shaped => Shaped
  BY <1>1, <1>2 DEF DropsP!Shaped, Shaped
<1>4. DropsP!StoredInv => DropsP!Shaped /\ Asked /\ ShownIsStored /\ FoundIsStored /\ SentIsStored /\ DueIsStored
  BY DEF DropsP!StoredInv,
  Asked, ShownIsStored, FoundIsStored, SentIsStored, DueIsStored, IsStored, Answer, Conversations,
  ToSet, DropsP!Asked, DropsP!ShownIsStored, DropsP!FoundIsStored, DropsP!SentIsStored,
  DropsP!DueIsStored, DropsP!IsStored, DropsP!Answer, DropsP!Conversations, DropsP!ToSet
<1> QED
  BY <1>3, <1>4 DEF StoredInv

LEMMA WritesStored == WritesP!StoredInv => StoredInv
<1>1. ASSUME NEW n PROVE WritesP!Jobs(n) \subseteq Jobs(n)
  BY ChatAssumption DEF WritesP!Jobs, Jobs, WritesP!Phases, Phases
<1>2. /\ WritesP!Sent = Sent /\ WritesP!Gets = Gets /\ WritesP!Messages = Messages /\ WritesP!Conversations = Conversations
      /\ \A n : WritesP!Pages(n) = Pages(n)
  BY DEF WritesP!Sent, Sent, WritesP!Gets, Gets, WritesP!Messages, Messages, WritesP!Conversations, Conversations,
         WritesP!Pages, Pages
<1>3. WritesP!Shaped => Shaped
  BY <1>1, <1>2 DEF WritesP!Shaped, Shaped
<1>4. WritesP!StoredInv => WritesP!Shaped /\ Asked /\ ShownIsStored /\ FoundIsStored /\ SentIsStored /\ DueIsStored
  BY DEF WritesP!StoredInv,
  Asked, ShownIsStored, FoundIsStored, SentIsStored, DueIsStored, IsStored, Answer, Conversations,
  ToSet, WritesP!Asked, WritesP!ShownIsStored, WritesP!FoundIsStored, WritesP!SentIsStored,
  WritesP!DueIsStored, WritesP!IsStored, WritesP!Answer, WritesP!Conversations, WritesP!ToSet
<1> QED
  BY <1>3, <1>4 DEF StoredInv

LEMMA RoamsStored == RoamsP!StoredInv => StoredInv
<1>1. ASSUME NEW n PROVE RoamsP!Jobs(n) \subseteq Jobs(n)
  BY ChatAssumption DEF RoamsP!Jobs, Jobs, RoamsP!Phases, Phases
<1>2. /\ RoamsP!Sent = Sent /\ RoamsP!Gets = Gets /\ RoamsP!Messages = Messages /\ RoamsP!Conversations = Conversations
      /\ \A n : RoamsP!Pages(n) = Pages(n)
  BY DEF RoamsP!Sent, Sent, RoamsP!Gets, Gets, RoamsP!Messages, Messages, RoamsP!Conversations, Conversations,
         RoamsP!Pages, Pages
<1>3. RoamsP!Shaped => Shaped
  BY <1>1, <1>2 DEF RoamsP!Shaped, Shaped
<1>4. RoamsP!StoredInv => RoamsP!Shaped /\ Asked /\ ShownIsStored /\ FoundIsStored /\ SentIsStored /\ DueIsStored
  BY DEF RoamsP!StoredInv,
  Asked, ShownIsStored, FoundIsStored, SentIsStored, DueIsStored, IsStored, Answer, Conversations,
  ToSet, RoamsP!Asked, RoamsP!ShownIsStored, RoamsP!FoundIsStored, RoamsP!SentIsStored,
  RoamsP!DueIsStored, RoamsP!IsStored, RoamsP!Answer, RoamsP!Conversations, RoamsP!ToSet
<1> QED
  BY <1>3, <1>4 DEF StoredInv

LEMMA DropsAssumed == 1 \in Nat \ {0} /\ {"drop"} \subseteq DropsP!AllFaults /\ Moves \subseteq DropsP!AllMoves
BY ChatAssumption DEF DropsP!AllFaults, DropsP!AllMoves, AllMoves

LEMMA DropsKeeps ==
  /\ Init => DropsP!StoredInv
  /\ DropsP!StoredInv /\ [DropsP!Next]_(DropsP!vars) => DropsP!StoredInv'
BY DropsAssumed, ChatAssumption, SameDrops, DropsP!InitStored, DropsP!StoredStep

LEMMA WritesAssumed == 1 \in Nat \ {0} /\ {"database"} \subseteq WritesP!AllFaults /\ Moves \subseteq WritesP!AllMoves
BY ChatAssumption DEF WritesP!AllFaults, WritesP!AllMoves, AllMoves

LEMMA WritesKeeps ==
  /\ Init => WritesP!StoredInv
  /\ WritesP!StoredInv /\ [WritesP!Next]_(WritesP!vars) => WritesP!StoredInv'
BY WritesAssumed, ChatAssumption, SameWrites, WritesP!InitStored, WritesP!StoredStep

LEMMA RoamsAssumed == 1 \in Nat \ {0} /\ {} \subseteq RoamsP!AllFaults /\ {"new", "switch", "leave"} \subseteq RoamsP!AllMoves
BY ChatAssumption DEF RoamsP!AllFaults, RoamsP!AllMoves, AllMoves

LEMMA RoamsKeeps ==
  /\ Init => RoamsP!StoredInv
  /\ RoamsP!StoredInv /\ [RoamsP!Next]_(RoamsP!vars) => RoamsP!StoredInv'
BY RoamsAssumed, ChatAssumption, SameRoams, RoamsP!InitStored, RoamsP!StoredStep

(* The invariant of whose turn it is; the others stay as they began.        *)
ChatInv ==
  /\ turn \notin {"drops", "writes", "roams"} => StoredInv
  /\ turn = "drops"  => DropsP!StoredInv
  /\ turn = "writes" => WritesP!StoredInv
  /\ turn = "roams"  => RoamsP!StoredInv

LEMMA ChatStart == LiveInit => ChatInv
<1>1. LiveInit => Init
  BY DEF LiveInit
<1> QED
  BY <1>1, InitStored, DropsKeeps, WritesKeeps, RoamsKeeps DEF ChatInv

LEMMA ChatTurn ==
  ASSUME [LiveNext]_live
  PROVE  /\ turn' = turn
         /\ turn \notin {"drops", "writes", "roams"} => [Next]_vars
         /\ turn = "drops"  => [DropsP!Next]_(DropsP!vars)
         /\ turn = "writes" => [WritesP!Next]_(WritesP!vars)
         /\ turn = "roams"  => [RoamsP!Next]_(RoamsP!vars)
<1>1. turn' = turn
  BY DEF LiveNext, ChatStep, ProgressStep, live
<1>2. /\ turn \notin {"drops", "writes", "roams"} => [Next]_vars
      /\ turn = "drops"  => [DropsP!Next]_(DropsP!vars)
      /\ turn = "writes" => [WritesP!Next]_(WritesP!vars)
      /\ turn = "roams"  => [RoamsP!Next]_(RoamsP!vars)
  BY SameDrops, SameWrites, SameRoams
     DEF LiveNext, ChatStep, ProgressStep, live, chat, vars, DropsP!vars, WritesP!vars, RoamsP!vars
<1> QED
  BY <1>1, <1>2

LEMMA ChatGoesOn == ChatInv /\ [LiveNext]_live => ChatInv'
<1> SUFFICES ASSUME ChatInv, [LiveNext]_live PROVE ChatInv'
  OBVIOUS
<1>1. CASE turn \notin {"drops", "writes", "roams"}
  BY ChatTurn, <1>1, StoredStep DEF ChatInv
<1>2. CASE turn = "drops"
  BY ChatTurn, <1>2, DropsKeeps DEF ChatInv
<1>3. CASE turn = "writes"
  BY ChatTurn, <1>3, WritesKeeps DEF ChatInv
<1>4. CASE turn = "roams"
  BY ChatTurn, <1>4, RoamsKeeps DEF ChatInv
<1> QED
  BY <1>1, <1>2, <1>3, <1>4

(* The history variable.                                                    *)
MissedInv == missed \subseteq Questions

LEMMA MissedStart == LiveInit => MissedInv
BY InitMissed DEF LiveInit, Missed, MissedInv

LEMMA MissedGoesOn == ChatInv /\ MissedInv /\ [LiveNext]_live => MissedInv'
<1> SUFFICES ASSUME ChatInv, MissedInv, [LiveNext]_live PROVE MissedInv'
  OBVIOUS
<1>1. CASE turn \notin {"drops", "writes", "roams"}
  BY ChatTurn, <1>1, MissedStep DEF ChatInv, MissedInv, Missed
<1>2. CASE turn = "drops"
  BY ChatTurn, <1>2, DropsP!MissedStep, ChatAssumption, DropsAssumed DEF ChatInv, MissedInv, DropsP!Missed
<1>3. CASE turn = "writes"
  BY ChatTurn, <1>3, WritesP!MissedStep, ChatAssumption, WritesAssumed DEF ChatInv, MissedInv, WritesP!Missed
<1>4. CASE turn = "roams"
  BY ChatTurn, <1>4, RoamsP!MissedStep, ChatAssumption, RoamsAssumed DEF ChatInv, MissedInv, RoamsP!Missed
<1> QED
  BY <1>1, <1>2, <1>3, <1>4

LEMMA ChatHolds == ChatInv => StoredInv
BY DropsStored, WritesStored, RoamsStored DEF ChatInv

(* Whatever fails, is lost on the socket or is overtaken by another request,*)
(* an answer the page shows is in the database: in each of the instances    *)
(* MCLive takes its turns with.                                             *)
THEOREM ShownAnswersAreStored == LiveSpec => []ShownIsStored
<1>1. ChatInv => ShownIsStored
  BY ChatHolds DEF StoredInv
<1> QED
  BY <1>1, ChatStart, ChatGoesOn, PTL DEF LiveSpec

-----------------------------------------------------------------------------
(* The progress socket: the four instances of Progress in MCLive, with the  *)
(* invariants of ProgressProofs about each. An operator of an instance is   *)
(* opaque, so the lemmas below show that both instances say the same.       *)
RowsP == INSTANCE ProgressProofs WITH
  Repositories <- {r1, r2}, PullRequests <- {}, MaxPolls <- 2, MaxSockets <- 1, MaxRuns <- 0,
  MaxUp <- 2, MaxDown <- 1, MaxGets <- 2, Faults <- {},
  ws <- socket, down <- messages, page <- opened, gets <- requests

PairP == INSTANCE ProgressProofs WITH
  Repositories <- {r1}, PullRequests <- {p1}, MaxPolls <- 2, MaxSockets <- 1, MaxRuns <- 0,
  MaxUp <- 1, MaxDown <- 1, MaxGets <- 1, Faults <- {"reload"},
  ws <- socket, down <- messages, page <- opened, gets <- requests

SocketsP == INSTANCE ProgressProofs WITH
  Repositories <- {r1}, PullRequests <- {}, MaxPolls <- 2, MaxSockets <- 2, MaxRuns <- 1,
  MaxUp <- 1, MaxDown <- 1, MaxGets <- 1, Faults <- {"drop"},
  ws <- socket, down <- messages, page <- opened, gets <- requests

SlowP == INSTANCE ProgressProofs WITH
  Repositories <- {r1}, PullRequests <- {}, MaxPolls <- 2, MaxSockets <- 1, MaxRuns <- 0,
  MaxUp <- 1, MaxDown <- 1, MaxGets <- 1, Faults <- {"slowRead", "deleted"},
  ws <- socket, down <- messages, page <- opened, gets <- requests

LEMMA SameRows ==
  /\ RowsOf!Init <=> RowsP!Init
  /\ RowsOf!Next <=> RowsP!Next
  /\ RowsP!OnePollPerSocket <=> RowsOf!OnePollPerSocket
  /\ RowsP!TypeOK <=> RowsOf!TypeOK
  /\ RowsP!vars = progress
BY DEF
  progress, RowsOf!vars, RowsOf!socket, RowsOf!tab, RowsOf!None, RowsOf!Rows, RowsOf!Channels,
  RowsOf!Channel, RowsOf!Statuses, RowsOf!Found, RowsOf!Slots, RowsOf!Free, RowsOf!NoPage,
  RowsOf!Get, RowsOf!TypeOK, RowsOf!Init, RowsOf!StartWork, RowsOf!Sees, RowsOf!WorkStarts,
  RowsOf!WorkEnds, RowsOf!Delete, RowsOf!TokenArrives, RowsOf!CanConnect, RowsOf!Connect,
  RowsOf!Send, RowsOf!OnOpen, RowsOf!Settled, RowsOf!OnClose, RowsOf!Reconnect, RowsOf!Ask,
  RowsOf!Beside, RowsOf!Replaced, RowsOf!Subscribed, RowsOf!Poll, RowsOf!Said, RowsOf!News,
  RowsOf!Heard, RowsOf!Kept, RowsOf!Cleared, RowsOf!Answer, RowsOf!RoomUp, RowsOf!RoomGets,
  RowsOf!Open, RowsOf!Leave, RowsOf!GetRead, RowsOf!GetArrives, RowsOf!TriggerIndex,
  RowsOf!TriggerAnswered, RowsOf!Receive, RowsOf!ServerStep, RowsOf!GetStep, RowsOf!ClientStep,
  RowsOf!RowStep, RowsOf!UserStep, RowsOf!Next, RowsOf!OnePollPerSocket, RowsOf!RemoveAt,
  RowsP!vars, RowsP!socket, RowsP!tab, RowsP!None, RowsP!Rows, RowsP!Channels, RowsP!Channel,
  RowsP!Statuses, RowsP!Found, RowsP!Slots, RowsP!Free, RowsP!NoPage, RowsP!Get, RowsP!TypeOK,
  RowsP!Init, RowsP!StartWork, RowsP!Sees, RowsP!WorkStarts, RowsP!WorkEnds, RowsP!Delete,
  RowsP!TokenArrives, RowsP!CanConnect, RowsP!Connect, RowsP!Send, RowsP!OnOpen, RowsP!Settled,
  RowsP!OnClose, RowsP!Reconnect, RowsP!Ask, RowsP!Beside, RowsP!Replaced, RowsP!Subscribed,
  RowsP!Poll, RowsP!Said, RowsP!News, RowsP!Heard, RowsP!Kept, RowsP!Cleared, RowsP!Answer,
  RowsP!RoomUp, RowsP!RoomGets, RowsP!Open, RowsP!Leave, RowsP!GetRead, RowsP!GetArrives,
  RowsP!TriggerIndex, RowsP!TriggerAnswered, RowsP!Receive, RowsP!ServerStep, RowsP!GetStep,
  RowsP!ClientStep, RowsP!RowStep, RowsP!UserStep, RowsP!Next, RowsP!OnePollPerSocket,
  RowsP!RemoveAt

LEMMA SamePair ==
  /\ Pair!Init <=> PairP!Init
  /\ Pair!Next <=> PairP!Next
  /\ PairP!OnePollPerSocket <=> Pair!OnePollPerSocket
  /\ PairP!TypeOK <=> Pair!TypeOK
  /\ PairP!vars = progress
BY DEF
  progress, Pair!vars, Pair!socket, Pair!tab, Pair!None, Pair!Rows, Pair!Channels, Pair!Channel,
  Pair!Statuses, Pair!Found, Pair!Slots, Pair!Free, Pair!NoPage, Pair!Get, Pair!TypeOK, Pair!Init,
  Pair!StartWork, Pair!Sees, Pair!WorkStarts, Pair!WorkEnds, Pair!Delete, Pair!TokenArrives,
  Pair!CanConnect, Pair!Connect, Pair!Send, Pair!OnOpen, Pair!Settled, Pair!OnClose,
  Pair!Reconnect, Pair!Ask, Pair!Beside, Pair!Replaced, Pair!Subscribed, Pair!Poll, Pair!Said,
  Pair!News, Pair!Heard, Pair!Kept, Pair!Cleared, Pair!Answer, Pair!RoomUp, Pair!RoomGets,
  Pair!Open, Pair!Leave, Pair!GetRead, Pair!GetArrives, Pair!TriggerIndex, Pair!TriggerAnswered,
  Pair!Receive, Pair!ServerStep, Pair!GetStep, Pair!ClientStep, Pair!RowStep, Pair!UserStep,
  Pair!Next, Pair!OnePollPerSocket, Pair!RemoveAt, PairP!vars, PairP!socket, PairP!tab,
  PairP!None, PairP!Rows, PairP!Channels, PairP!Channel, PairP!Statuses, PairP!Found, PairP!Slots,
  PairP!Free, PairP!NoPage, PairP!Get, PairP!TypeOK, PairP!Init, PairP!StartWork, PairP!Sees,
  PairP!WorkStarts, PairP!WorkEnds, PairP!Delete, PairP!TokenArrives, PairP!CanConnect,
  PairP!Connect, PairP!Send, PairP!OnOpen, PairP!Settled, PairP!OnClose, PairP!Reconnect,
  PairP!Ask, PairP!Beside, PairP!Replaced, PairP!Subscribed, PairP!Poll, PairP!Said, PairP!News,
  PairP!Heard, PairP!Kept, PairP!Cleared, PairP!Answer, PairP!RoomUp, PairP!RoomGets, PairP!Open,
  PairP!Leave, PairP!GetRead, PairP!GetArrives, PairP!TriggerIndex, PairP!TriggerAnswered,
  PairP!Receive, PairP!ServerStep, PairP!GetStep, PairP!ClientStep, PairP!RowStep, PairP!UserStep,
  PairP!Next, PairP!OnePollPerSocket, PairP!RemoveAt

LEMMA SameSockets ==
  /\ Sockets!Init <=> SocketsP!Init
  /\ Sockets!Next <=> SocketsP!Next
  /\ SocketsP!OnePollPerSocket <=> Sockets!OnePollPerSocket
  /\ SocketsP!TypeOK <=> Sockets!TypeOK
  /\ SocketsP!vars = progress
BY DEF
  progress, Sockets!vars, Sockets!socket, Sockets!tab, Sockets!None, Sockets!Rows,
  Sockets!Channels, Sockets!Channel, Sockets!Statuses, Sockets!Found, Sockets!Slots, Sockets!Free,
  Sockets!NoPage, Sockets!Get, Sockets!TypeOK, Sockets!Init, Sockets!StartWork, Sockets!Sees,
  Sockets!WorkStarts, Sockets!WorkEnds, Sockets!Delete, Sockets!TokenArrives, Sockets!CanConnect,
  Sockets!Connect, Sockets!Send, Sockets!OnOpen, Sockets!Settled, Sockets!OnClose,
  Sockets!Reconnect, Sockets!Ask, Sockets!Beside, Sockets!Replaced, Sockets!Subscribed,
  Sockets!Poll, Sockets!Said, Sockets!News, Sockets!Heard, Sockets!Kept, Sockets!Cleared,
  Sockets!Answer, Sockets!RoomUp, Sockets!RoomGets, Sockets!Open, Sockets!Leave, Sockets!GetRead,
  Sockets!GetArrives, Sockets!TriggerIndex, Sockets!TriggerAnswered, Sockets!Receive,
  Sockets!ServerStep, Sockets!GetStep, Sockets!ClientStep, Sockets!RowStep, Sockets!UserStep,
  Sockets!Next, Sockets!OnePollPerSocket, Sockets!RemoveAt, SocketsP!vars, SocketsP!socket,
  SocketsP!tab, SocketsP!None, SocketsP!Rows, SocketsP!Channels, SocketsP!Channel,
  SocketsP!Statuses, SocketsP!Found, SocketsP!Slots, SocketsP!Free, SocketsP!NoPage, SocketsP!Get,
  SocketsP!TypeOK, SocketsP!Init, SocketsP!StartWork, SocketsP!Sees, SocketsP!WorkStarts,
  SocketsP!WorkEnds, SocketsP!Delete, SocketsP!TokenArrives, SocketsP!CanConnect,
  SocketsP!Connect, SocketsP!Send, SocketsP!OnOpen, SocketsP!Settled, SocketsP!OnClose,
  SocketsP!Reconnect, SocketsP!Ask, SocketsP!Beside, SocketsP!Replaced, SocketsP!Subscribed,
  SocketsP!Poll, SocketsP!Said, SocketsP!News, SocketsP!Heard, SocketsP!Kept, SocketsP!Cleared,
  SocketsP!Answer, SocketsP!RoomUp, SocketsP!RoomGets, SocketsP!Open, SocketsP!Leave,
  SocketsP!GetRead, SocketsP!GetArrives, SocketsP!TriggerIndex, SocketsP!TriggerAnswered,
  SocketsP!Receive, SocketsP!ServerStep, SocketsP!GetStep, SocketsP!ClientStep, SocketsP!RowStep,
  SocketsP!UserStep, SocketsP!Next, SocketsP!OnePollPerSocket, SocketsP!RemoveAt

LEMMA SameSlow ==
  /\ Slow!Init <=> SlowP!Init
  /\ Slow!Next <=> SlowP!Next
  /\ SlowP!TypeOK <=> Slow!TypeOK
  /\ SlowP!vars = progress
BY DEF
  progress, Slow!vars, Slow!socket, Slow!tab, Slow!None, Slow!Rows, Slow!Channels, Slow!Channel,
  Slow!Statuses, Slow!Found, Slow!Slots, Slow!Free, Slow!NoPage, Slow!Get, Slow!TypeOK, Slow!Init,
  Slow!StartWork, Slow!Sees, Slow!WorkStarts, Slow!WorkEnds, Slow!Delete, Slow!TokenArrives,
  Slow!CanConnect, Slow!Connect, Slow!Send, Slow!OnOpen, Slow!Settled, Slow!OnClose,
  Slow!Reconnect, Slow!Ask, Slow!Beside, Slow!Replaced, Slow!Subscribed, Slow!Poll, Slow!Said,
  Slow!News, Slow!Heard, Slow!Kept, Slow!Cleared, Slow!Answer, Slow!RoomUp, Slow!RoomGets,
  Slow!Open, Slow!Leave, Slow!GetRead, Slow!GetArrives, Slow!TriggerIndex, Slow!TriggerAnswered,
  Slow!Receive, Slow!ServerStep, Slow!GetStep, Slow!ClientStep, Slow!RowStep, Slow!UserStep,
  Slow!Next, Slow!RemoveAt, SlowP!vars, SlowP!socket, SlowP!tab, SlowP!None, SlowP!Rows,
  SlowP!Channels, SlowP!Channel, SlowP!Statuses, SlowP!Found, SlowP!Slots, SlowP!Free,
  SlowP!NoPage, SlowP!Get, SlowP!TypeOK, SlowP!Init, SlowP!StartWork, SlowP!Sees,
  SlowP!WorkStarts, SlowP!WorkEnds, SlowP!Delete, SlowP!TokenArrives, SlowP!CanConnect,
  SlowP!Connect, SlowP!Send, SlowP!OnOpen, SlowP!Settled, SlowP!OnClose, SlowP!Reconnect,
  SlowP!Ask, SlowP!Beside, SlowP!Replaced, SlowP!Subscribed, SlowP!Poll, SlowP!Said, SlowP!News,
  SlowP!Heard, SlowP!Kept, SlowP!Cleared, SlowP!Answer, SlowP!RoomUp, SlowP!RoomGets, SlowP!Open,
  SlowP!Leave, SlowP!GetRead, SlowP!GetArrives, SlowP!TriggerIndex, SlowP!TriggerAnswered,
  SlowP!Receive, SlowP!ServerStep, SlowP!GetStep, SlowP!ClientStep, SlowP!RowStep, SlowP!UserStep,
  SlowP!Next, SlowP!RemoveAt

(* The turn never changes, and whose turn it is not has no step.            *)
LEMMA ProgressTurn ==
  ASSUME [LiveNext]_live
  PROVE  /\ turn' = turn
         /\ turn \notin {"channels", "sockets", "slow"} => [RowsP!Next]_(RowsP!vars)
         /\ turn = "channels" => [PairP!Next]_(PairP!vars)
         /\ turn = "sockets" => [SocketsP!Next]_(SocketsP!vars)
         /\ turn = "slow" => [SlowP!Next]_(SlowP!vars)
<1>1. turn' = turn
  BY DEF LiveNext, ChatStep, ProgressStep, live
<1>2. turn \notin {"channels", "sockets", "slow"} => [RowsP!Next]_(RowsP!vars)
  BY SameRows DEF LiveNext, ChatStep, ProgressStep, live, progress, RowsP!vars
<1>3. turn = "channels" => [PairP!Next]_(PairP!vars)
  BY SamePair DEF LiveNext, ChatStep, ProgressStep, live, progress, PairP!vars
<1>4. turn = "sockets" => [SocketsP!Next]_(SocketsP!vars)
  BY SameSockets DEF LiveNext, ChatStep, ProgressStep, live, progress, SocketsP!vars
<1>5. turn = "slow" => [SlowP!Next]_(SlowP!vars)
  BY SameSlow DEF LiveNext, ChatStep, ProgressStep, live, progress, SlowP!vars
<1> QED
  BY <1>1, <1>2, <1>3, <1>4, <1>5

(* The types: those of whose turn it is, and of the rest as they began.     *)
ProgressInv ==
  /\ turn \notin {"channels", "sockets", "slow"} => RowsP!Typed
  /\ turn = "channels" => PairP!Typed
  /\ turn = "sockets" => SocketsP!Typed
  /\ turn = "slow" => SlowP!Typed

LEMMA ProgressStart == LiveInit => ProgressInv
<1>1. /\ RowsP!Init => RowsP!Typed
      /\ PairP!Init => PairP!Typed
      /\ SocketsP!Init => SocketsP!Typed
      /\ SlowP!Init => SlowP!Typed
  BY RowsP!InitTyped, PairP!InitTyped, SocketsP!InitTyped, SlowP!InitTyped
<1> QED
  BY <1>1, SameRows, SamePair, SameSockets, SameSlow DEF LiveInit, ChatTurns, ProgressInv

LEMMA ProgressGoesOn == ProgressInv /\ [LiveNext]_live => ProgressInv'
<1> SUFFICES ASSUME ProgressInv, [LiveNext]_live PROVE ProgressInv'
  OBVIOUS
<1>1. RowsP!Typed /\ [RowsP!Next]_(RowsP!vars) => RowsP!Typed'
  BY RowsP!NextTyped
<1>2. PairP!Typed /\ [PairP!Next]_(PairP!vars) => PairP!Typed'
  BY PairP!NextTyped
<1>3. SocketsP!Typed /\ [SocketsP!Next]_(SocketsP!vars) => SocketsP!Typed'
  BY SocketsP!NextTyped
<1>4. SlowP!Typed /\ [SlowP!Next]_(SlowP!vars) => SlowP!Typed'
  BY SlowP!NextTyped
<1> QED
  BY <1>1, <1>2, <1>3, <1>4, ProgressTurn DEF ProgressInv

(* The polls, of the instances whose subscriptions do not overlap a poll.   *)
PollsInv ==
  /\ turn = "rows" => RowsP!PollInv
  /\ turn = "channels" => PairP!PollInv
  /\ turn = "sockets" => SocketsP!PollInv

LEMMA PollsInit == LiveInit => PollsInv
<1>1. /\ RowsP!Init => RowsP!PollInv
      /\ PairP!Init => PairP!PollInv
      /\ SocketsP!Init => SocketsP!PollInv
  BY RowsP!InitPolls, PairP!InitPolls, SocketsP!InitPolls
<1> QED
  BY <1>1, SameRows, SamePair, SameSockets DEF LiveInit, ChatTurns, PollsInv

LEMMA PollsStep ==
  ASSUME ProgressInv, PollsInv, [LiveNext]_live
  PROVE  PollsInv'
<1>1. RowsP!Typed /\ RowsP!PollInv /\ [RowsP!Next]_(RowsP!vars) => RowsP!PollInv'
  BY RowsP!NextPolls
<1>2. PairP!Typed /\ PairP!PollInv /\ [PairP!Next]_(PairP!vars) => PairP!PollInv'
  BY PairP!NextPolls
<1>3. SocketsP!Typed /\ SocketsP!PollInv /\ [SocketsP!Next]_(SocketsP!vars) => SocketsP!PollInv'
  BY SocketsP!NextPolls
<1> QED
  BY <1>1, <1>2, <1>3, ProgressTurn DEF ProgressInv, PollsInv

(* In the instances whose polls do not overlap a subscription a socket has  *)
(* one active poll per channel, in whatever order its subscriptions are     *)
(* handled.                                                                 *)
THEOREM OnePollEach == LiveSpec => []OnePollPerSocket
<1>1. PollsInv => OnePollPerSocket
  BY RowsP!AloneIsOne, PairP!AloneIsOne, SocketsP!AloneIsOne, SameRows, SamePair, SameSockets
     DEF PollsInv, OnePollPerSocket
<1> QED
  BY <1>1, PollsInit, PollsStep, ProgressStart, ProgressGoesOn, PTL DEF LiveSpec

(* Every variable of the chat and of the progress keeps its type, in every  *)
(* instance.                                                                *)
THEOREM LiveTyped == LiveSpec => []LiveTypeOK
<1>1. ChatInv /\ MissedInv => TypeOK
  BY ChatHolds, ShapedIsTyped DEF StoredInv, MissedInv
<1>2. ProgressInv => /\ turn \notin {"channels", "sockets", "slow"} => RowsOf!TypeOK
                     /\ turn = "channels" => Pair!TypeOK
                     /\ turn = "sockets" => Sockets!TypeOK
                     /\ turn = "slow" => Slow!TypeOK
  BY RowsP!TypedIsTyped, PairP!TypedIsTyped, SocketsP!TypedIsTyped, SlowP!TypedIsTyped,
     SameRows, SamePair, SameSockets, SameSlow DEF ProgressInv
<1>3. ChatInv /\ MissedInv /\ ProgressInv => LiveTypeOK
  BY <1>1, <1>2 DEF LiveTypeOK
<1> QED
  BY <1>3, ChatStart, MissedStart, ChatGoesOn, MissedGoesOn, ProgressStart, ProgressGoesOn, PTL DEF LiveSpec
=============================================================================
