-------------------------------- MODULE Chat ---------------------------------
(***************************************************************************)
(* Questions about a repository: the chat page of one tab, its socket, the *)
(* backend's handler of a question (rate limit, retrieval, completion,     *)
(* three separate writes, answer) and the conversations it stores.         *)
(* Neither an answer nor an error on the socket says which question or     *)
(* which conversation it is about.                                         *)
(***************************************************************************)
EXTENDS Naturals, Sequences, FiniteSets, SequencesExt

CONSTANTS
  Questions,         (* the questions asked, each once                      *)
  MaxConversations,  (* bound: conversations created                        *)
  MaxPerWindow,      (* CHAT_MESSAGE_RATE_LIMIT.max                         *)
  MaxAttempts,       (* maxAttempts of withRetry                            *)
  Faults,            (* a subset of AllFaults                               *)
  Moves              (* what the user does besides asking: of AllMoves      *)

(* "provider": a call of the LLM provider fails; "database": a write fails;*)
(* "drop": the socket is lost, and opened again by the reconnect timer.    *)
AllFaults == {"provider", "database", "drop"}
AllMoves  == {"new", "switch", "leave"}

ASSUME ChatAssumption ==
  /\ MaxConversations \in Nat \ {0}
  /\ MaxPerWindow \in Nat \ {0} /\ MaxAttempts \in Nat \ {0}
  /\ Faults \subseteq AllFaults /\ Moves \subseteq AllMoves

VARIABLES
  created,   (* conversations created; they are numbered                    *)
  stored,    (* the messages of each, in order of creation                  *)
  last,      (* the conversation of the newest message                      *)
  logged,    (* questions with a usage log                                  *)
  count, ttl,(* the counter of the window, and whether it expires           *)
  job,       (* each question in the backend                                *)
  ws,        (* the socket: "open", "connecting" or "closed"                *)
  down,      (* what is on its way to the tab                               *)
  page,      (* the mounted page: conversation, thinking, error, requests   *)
  shown,     (* its messages                                                *)
  gets,      (* its requests for the messages of a conversation             *)
  missed     (* history: questions whose answer the page was not told of,   *)
             (* or that a request read too early, or of another             *)
             (* conversation, has left out of what is shown                 *)

vars == <<created, stored, last, logged, count, ttl, job, ws, down, page, shown, gets, missed>>
db == <<created, stored, last, logged>>
window == <<count, ttl>>
tab == <<page, shown, gets>>

Conversations == 1 .. MaxConversations
Messages == [role : {"user", "assistant"}, about : Questions]
Idle   == [phase |-> "idle", conversation |-> 0, tries |-> 0, heard |-> FALSE]
NoPage == [open |-> FALSE, conversation |-> 0, thinking |-> FALSE, error |-> FALSE,
           init |-> FALSE, creating |-> FALSE]

(* Every variable has its type.                                            *)
TypeOK ==
  /\ created \in 0 .. MaxConversations /\ last \in 0 .. created
  /\ \A c \in Conversations : ToSet(stored[c]) \subseteq Messages
  /\ logged \subseteq Questions
  /\ count \in 0 .. MaxPerWindow + 1 /\ ttl \in BOOLEAN
  /\ ws \in {"open", "connecting", "closed"} /\ missed \subseteq Questions
  /\ job \in [Questions -> [phase : {"idle", "pending", "sent", "first", "embedding", "answering", "question",
                                     "refusal", "answer", "usage", "reply", "error", "done"},
                            conversation : 0 .. created, tries : 0 .. MaxAttempts, heard : BOOLEAN]]
  /\ \A i \in DOMAIN down : down[i] \in [type : {"complete", "error"}, about : Questions]
  /\ page \in [open : BOOLEAN, conversation : 0 .. created, thinking : BOOLEAN, error : BOOLEAN,
               init : BOOLEAN, creating : BOOLEAN]
  /\ ToSet(shown) \subseteq Messages
  /\ \A g \in gets : g.conversation \in 1 .. created /\ g.read \in BOOLEAN

Exchange(q) == <<[role |-> "user", about |-> q], [role |-> "assistant", about |-> q]>>

(* No conversation yet, or one of an earlier visit, with its only question.*)
Init ==
  /\ \E earlier \in {<<>>} \cup {<<q>> : q \in Questions} :
       /\ created = Len(earlier) /\ last = Len(earlier) /\ logged = ToSet(earlier)
       /\ stored = [c \in Conversations |-> IF c = 1 /\ earlier # <<>> THEN Exchange(earlier[1]) ELSE <<>>]
       /\ job = [q \in Questions |-> IF q \in logged THEN [Idle EXCEPT !.phase = "done"] ELSE Idle]
  /\ count = 0 /\ ttl = FALSE
  /\ ws = "open" /\ down = <<>>
  /\ page = NoPage /\ shown = <<>> /\ gets = {} /\ missed = {}

-----------------------------------------------------------------------------
(* The page.                                                               *)

Get(c, kind) == [conversation |-> c, kind |-> kind, read |-> FALSE, found |-> <<>>]

Open ==
  /\ ~page.open
  /\ page' = [NoPage EXCEPT !.open = TRUE, !.init = TRUE]
  /\ UNCHANGED <<db, window, job, ws, down, shown, gets, missed>>

(* The handlers are taken off, what the requests bring is thrown away, and *)
(* the socket stays.                                                       *)
Leave ==
  /\ "leave" \in Moves /\ page.open
  /\ page' = NoPage /\ shown' = <<>> /\ gets' = {}
  /\ UNCHANGED <<db, window, job, ws, down, missed>>

(* getLatestConversation goes by the newest message, then by the newest    *)
(* conversation.                                                           *)
Latest == IF last # 0 THEN last ELSE created

(* init: resume the latest conversation, or create the first one, and ask  *)
(* for its messages.                                                       *)
Resume ==
  /\ page.init
  /\ IF Latest = 0
     THEN created' = 1 /\ page' = [page EXCEPT !.init = FALSE, !.conversation = 1]
                       /\ gets' = gets \cup {Get(1, "init")}
     ELSE UNCHANGED created /\ page' = [page EXCEPT !.init = FALSE, !.conversation = Latest]
                            /\ gets' = gets \cup {Get(Latest, "init")}
  /\ UNCHANGED <<stored, last, logged, window, job, ws, down, shown, missed>>

(* handleNewChat: what is shown goes at once, the conversation only when   *)
(* the new one is there.                                                   *)
NewChat ==
  /\ "new" \in Moves /\ page.open /\ page.conversation # 0 /\ ~page.creating
  /\ created < MaxConversations
  /\ shown' = <<>>
  /\ page' = [page EXCEPT !.error = FALSE, !.creating = TRUE]
  /\ UNCHANGED <<db, window, job, ws, down, gets, missed>>

NewConversation ==
  /\ page.creating /\ created < MaxConversations
  /\ created' = created + 1
  /\ page' = [page EXCEPT !.creating = FALSE, !.conversation = created + 1]
  /\ UNCHANGED <<stored, last, logged, window, job, ws, down, shown, gets, missed>>

(* switchToConversation, of one of the history, which has no empty one.    *)
Switch(c) ==
  /\ "switch" \in Moves /\ page.open /\ stored[c] # <<>>
  /\ \A g \in gets : g.kind = "init"
  /\ page' = [page EXCEPT !.error = FALSE]
  /\ gets' = gets \cup {Get(c, "switch")}
  /\ UNCHANGED <<db, window, job, ws, down, shown, missed>>

(* getMessages reads, and later its answer arrives and is shown in place   *)
(* of whatever was: also of an answer stored since, also when the page has *)
(* moved to another conversation.                                          *)
AnswersIn(messages) == {q \in Questions : [role |-> "assistant", about |-> q] \in ToSet(messages)}

GetRead(g) ==
  /\ ~g.read
  /\ gets' = (gets \ {g}) \cup {[g EXCEPT !.read = TRUE, !.found = stored[g.conversation]]}
  /\ UNCHANGED <<db, window, job, ws, down, page, shown, missed>>

GetArrives(g) ==
  /\ g.read
  /\ gets' = gets \ {g}
  /\ shown' = g.found
  /\ missed' = (missed \cup UNION {AnswersIn(stored[c]) : c \in Conversations}) \ AnswersIn(g.found)
  /\ page' = IF g.kind = "switch" THEN [page EXCEPT !.conversation = g.conversation] ELSE page
  /\ UNCHANGED <<db, window, job, ws, down>>

(* sendQuestion, also while an answer is awaited. While the socket opens   *)
(* the message waits; without one it is dropped, and nothing tells of it.  *)
SendQuestion(q) ==
  /\ page.open /\ page.conversation # 0 /\ job[q] = Idle
  /\ shown' = Append(shown, [role |-> "user", about |-> q])
  /\ page' = [page EXCEPT !.thinking = TRUE, !.error = FALSE]
  /\ job' = [job EXCEPT ![q] = [@ EXCEPT !.phase = CASE ws = "open"       -> "sent"
                                                     [] ws = "connecting" -> "pending"
                                                     [] ws = "closed"     -> "done",
                                         !.heard = (ws = "open"),
                                         !.conversation = page.conversation]]
  /\ UNCHANGED <<db, window, ws, down, gets, missed>>

Mounted == page.open

Receive ==
  /\ down # <<>>
  /\ down' = Tail(down)
  /\ \/ /\ Mounted /\ Head(down).type = "complete"
        /\ page' = [page EXCEPT !.thinking = FALSE]
        /\ shown' = Append(shown, [role |-> "assistant", about |-> Head(down).about])
        /\ missed' = missed \ {Head(down).about}
     \/ /\ Mounted /\ Head(down).type = "error"
        /\ page' = [page EXCEPT !.thinking = FALSE, !.error = TRUE]
        /\ UNCHANGED <<shown, missed>>
     \/ ~Mounted /\ UNCHANGED <<page, shown, missed>>
  /\ UNCHANGED <<db, window, job, ws, gets>>

Drop ==
  /\ "drop" \in Faults /\ ws # "closed"
  /\ ws' = "closed" /\ down' = <<>>
  /\ job' = [q \in Questions |-> [job[q] EXCEPT !.heard = FALSE, !.phase = IF @ = "sent" THEN "done" ELSE @]]
  /\ missed' = missed \cup {down[i].about : i \in DOMAIN down}
  /\ UNCHANGED <<db, window, tab>>

Reconnect ==
  /\ ws = "closed" /\ ws' = "connecting"
  /\ UNCHANGED <<db, window, job, down, tab, missed>>

(* onopen: the messages that waited are sent.                              *)
OnOpen ==
  /\ ws = "connecting" /\ ws' = "open"
  /\ job' = [q \in Questions |->
       IF job[q].phase = "pending" THEN [job[q] EXCEPT !.phase = "sent", !.heard = TRUE] ELSE job[q]]
  /\ UNCHANGED <<db, window, down, tab, missed>>

-----------------------------------------------------------------------------
(* The backend: handleChatMessage and askQuestion.                         *)

At(q, phase)     == job[q].phase = phase
Goes(q, phase)   == job' = [job EXCEPT ![q] = [@ EXCEPT !.phase = phase, !.tries = 0]]

(* checkRateLimit: the counter, and for the first of a window its expiry,  *)
(* are two calls.                                                          *)
FirstInWindow_Late(n) == n = 0
FirstInWindow(n) == n = 1

CountMessage(q) ==
  LET n == IF count > MaxPerWindow THEN count ELSE count + 1 IN
  /\ At(q, "sent")
  /\ count' = n
  /\ Goes(q, IF FirstInWindow(n) THEN "first" ELSE IF n > MaxPerWindow THEN "error" ELSE "embedding")
  /\ UNCHANGED <<db, ttl, ws, down, tab, missed>>

SetExpiry(q) ==
  /\ At(q, "first")
  /\ ttl' = TRUE
  /\ Goes(q, "embedding")
  /\ UNCHANGED <<db, count, ws, down, tab, missed>>

WindowEnds ==
  /\ ttl
  /\ ttl' = FALSE /\ count' = 0
  /\ UNCHANGED <<db, job, ws, down, tab, missed>>

(* One attempt of withRetry. An error that is not retryable gives up.      *)
Attempt(q, phase, next) ==
  /\ At(q, phase)
  /\ \/ \E p \in next : Goes(q, p)
     \/ /\ "provider" \in Faults /\ job[q].tries + 1 < MaxAttempts
        /\ job' = [job EXCEPT ![q].tries = @ + 1]
     \/ "provider" \in Faults /\ Goes(q, "error")
  /\ UNCHANGED <<db, window, ws, down, tab, missed>>

(* Retrieval finds evidence or none; without it no completion is asked.    *)
Retrieve(q) == Attempt(q, "embedding", {"answering", "refusal"})
Complete_Unstored(q) == Attempt(q, "answering", {"reply"})
Complete(q) == Attempt(q, "answering", {"question"})

Store(q, role) ==
  /\ stored' = [stored EXCEPT ![job[q].conversation] = Append(@, [role |-> role, about |-> q])]
  /\ last' = job[q].conversation

WriteFails(q) ==
  /\ "database" \in Faults
  /\ job[q].phase \in {"question", "refusal", "answer", "usage"}
  /\ Goes(q, "error")
  /\ UNCHANGED <<db, window, ws, down, tab, missed>>

(* A refusal is stored the same way but for its usage log: here at once.   *)
StoreQuestion(q) ==
  /\ At(q, "question")
  /\ Store(q, "user") /\ Goes(q, "answer")
  /\ UNCHANGED <<created, logged, window, ws, down, tab, missed>>

StoreRefusal(q) ==
  /\ At(q, "refusal")
  /\ stored' = [stored EXCEPT ![job[q].conversation] = @ \o Exchange(q)]
  /\ last' = job[q].conversation
  /\ Goes(q, "reply")
  /\ UNCHANGED <<created, logged, window, ws, down, tab, missed>>

StoreAnswer(q) ==
  /\ At(q, "answer")
  /\ Store(q, "assistant") /\ Goes(q, "usage")
  /\ UNCHANGED <<created, logged, window, ws, down, tab, missed>>

LogUsage(q) ==
  /\ At(q, "usage")
  /\ logged' = logged \cup {q}
  /\ Goes(q, "reply")
  /\ UNCHANGED <<created, stored, last, window, ws, down, tab, missed>>

(* The answer, or the error, goes out while the socket is the one the      *)
(* question came on.                                                       *)
Told_AnswersOnly(q) == IF job[q].heard /\ At(q, "reply") THEN <<[type |-> "complete", about |-> q]>> ELSE <<>>
Told(q) ==
  IF job[q].heard THEN <<[type |-> IF At(q, "reply") THEN "complete" ELSE "error", about |-> q]>> ELSE <<>>

Reply(q) ==
  /\ job[q].phase \in {"reply", "error"}
  /\ down' = down \o Told(q)
  /\ missed' = IF job[q].heard /\ At(q, "reply") THEN missed ELSE missed \cup {q}
  /\ Goes(q, "done")
  /\ UNCHANGED <<db, window, ws, tab>>

-----------------------------------------------------------------------------
JobStep(q) ==
  \/ CountMessage(q) \/ SetExpiry(q) \/ Retrieve(q) \/ Complete(q) \/ StoreQuestion(q)
  \/ StoreRefusal(q) \/ StoreAnswer(q) \/ LogUsage(q) \/ WriteFails(q) \/ Reply(q)

PageStep == Resume \/ NewConversation \/ \E g \in gets : GetRead(g) \/ GetArrives(g)

UserStep == Open \/ Leave \/ NewChat \/ (\E c \in Conversations : Switch(c)) \/ \E q \in Questions : SendQuestion(q)

Next == PageStep \/ Receive \/ Reconnect \/ OnOpen \/ UserStep \/ Drop \/ WindowEnds \/ \E q \in Questions : JobStep(q)

Fairness ==
  /\ WF_vars(Receive) /\ WF_vars(Reconnect) /\ WF_vars(OnOpen) /\ WF_vars(PageStep) /\ WF_vars(WindowEnds)
  /\ \A q \in Questions : WF_vars(JobStep(q))

Spec == Init /\ [][Next]_vars
FairSpec == Spec /\ Fairness

-----------------------------------------------------------------------------
(* Properties.                                                             *)

(* An answer the page shows is in the database, whoever stored it and      *)
(* whatever was lost on the way.                                           *)
ShownIsStored ==
  \A i \in DOMAIN shown : shown[i].role = "assistant" =>
     \E c \in Conversations : shown[i] \in ToSet(stored[c])

(* A user who hit the limit is let through again.                          *)
LimitEnds == []<>(count <= MaxPerWindow)

(* A page that stays on a conversation shows every answer stored for it,   *)
(* if need be after a reconnect.                                           *)
AnswerShown ==
  \A q \in Questions, c \in Conversations :
    <>[](page.open /\ page.conversation = c /\ q \in AnswersIn(stored[c])) => <>(q \in AnswersIn(shown))

=============================================================================
