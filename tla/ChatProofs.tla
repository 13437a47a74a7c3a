------------------------------ MODULE ChatProofs -------------------------------
(* Why the chat page shows no answer that is not in the database, for any   *)
(* number of questions and conversations and under every fault.             *)
EXTENDS Chat, SequenceTheorems, TLAPS

Answer(q) == [role |-> "assistant", about |-> q]

(* A message that some conversation keeps.                                  *)
IsStored(m) == \E c \in Conversations : m \in ToSet(stored[c])

(* TypeOK, with the sequences it leaves open.                               *)
Gets == [conversation : Conversations, kind : {"init", "switch"}, read : BOOLEAN,
         found : Seq(Messages)]
Sent == [type : {"complete", "error"}, about : Questions]

Phases == {"idle", "pending", "sent", "first", "embedding", "answering", "question",
           "refusal", "answer", "usage", "reply", "error", "done"}
Jobs(n)  == [phase : Phases, conversation : 0 .. n, tries : 0 .. MaxAttempts, heard : BOOLEAN]
Pages(n) == [open : BOOLEAN, conversation : 0 .. n, thinking : BOOLEAN, error : BOOLEAN,
             init : BOOLEAN, creating : BOOLEAN]

(* What Goes makes of the row of a question.                                *)
Restart(x, p) == [x EXCEPT !.phase = p, !.tries = 0]

Shaped ==
  /\ created \in 0 .. MaxConversations /\ last \in 0 .. created /\ logged \subseteq Questions
  /\ count \in 0 .. MaxPerWindow + 1 /\ ttl \in BOOLEAN /\ ws \in {"open", "connecting", "closed"}
  /\ job \in [Questions -> Jobs(created)] /\ page \in Pages(created)
  /\ stored \in [Conversations -> Seq(Messages)] /\ shown \in Seq(Messages)
  /\ down \in Seq(Sent)
  /\ \A c \in Conversations : stored[c] # <<>> => c <= created
  /\ gets \subseteq Gets /\ \A g \in gets : g.conversation <= created

(* A question past its check is about a conversation that was created.      *)
Asked ==
  \A q \in Questions : job[q].phase \notin {"idle", "done"} => job[q].conversation # 0

(* Every answer on its way to the page, as a message, as the result of a    *)
(* request or in a question about to be answered, is stored already.        *)
FoundIsStored ==
  \A g \in gets : \A i \in DOMAIN g.found : IsStored(g.found[i])

SentIsStored ==
  \A i \in DOMAIN down : down[i].type = "complete" => IsStored(Answer(down[i].about))

DueIsStored ==
  \A q \in Questions : job[q].phase \in {"usage", "reply"} => IsStored(Answer(q))

StoredInv == Shaped /\ Asked /\ ShownIsStored /\ FoundIsStored /\ SentIsStored /\ DueIsStored

-----------------------------------------------------------------------------
LEMMA ShapedIsTyped == Shaped /\ missed \subseteq Questions => TypeOK
<1> SUFFICES ASSUME Shaped, missed \subseteq Questions PROVE TypeOK
  OBVIOUS
<1>1. (\A c \in Conversations : ToSet(stored[c]) \subseteq Messages) /\ ToSet(shown) \subseteq Messages
  BY DEF Shaped, ToSet
<1>2. \A i \in DOMAIN down : down[i] \in Sent
  BY DEF Shaped
<1>3. \A g \in gets : g.conversation \in 1 .. created /\ g.read \in BOOLEAN
  BY ChatAssumption DEF Shaped, Gets, Conversations
<1> QED
  BY <1>1, <1>2, <1>3, Zenon DEF Shaped, TypeOK, Jobs, Pages, Phases, Sent

LEMMA RowsGo ==
  ASSUME NEW n \in Nat, NEW x \in Jobs(n), NEW p \in Phases
  PROVE  LET y == Restart(x, p) IN y \in Jobs(n) /\ y.phase = p /\ y.conversation = x.conversation
<1>1. 0 \in 0 .. MaxAttempts
  BY ChatAssumption
<1> QED
  BY <1>1 DEF Jobs, Restart

(* Conversations are created, and none goes away.                           *)
LEMMA RowsStay ==
  ASSUME NEW n \in Nat, NEW m \in Nat, n <= m
  PROVE  (\A x \in Jobs(n) : x \in Jobs(m)) /\ (\A x \in Pages(n) : x \in Pages(m))
<1>1. \A x \in Jobs(n) : x \in Jobs(m)
  BY DEF Jobs
<1>2. \A x \in Pages(n) : x \in Pages(m)
  BY DEF Pages
<1> QED
  BY <1>1, <1>2

LEMMA Going ==
  ASSUME Shaped, NEW q \in Questions, NEW p \in Phases, Goes(q, p)
  PROVE  /\ job' \in [Questions -> Jobs(created)]
         /\ job'[q].phase = p /\ job'[q].conversation = job[q].conversation
         /\ \A r \in Questions \ {q} : job'[r] = job[r]
<1>1. created \in Nat /\ job \in [Questions -> Jobs(created)]
  BY ChatAssumption DEF Shaped
<1>2. job[q] \in Jobs(created)
  BY <1>1
<1>3. job' = [job EXCEPT ![q] = Restart(job[q], p)]
  BY Zenon DEF Goes, Restart
<1>4. LET y == Restart(job[q], p) IN y \in Jobs(created) /\ y.phase = p /\ y.conversation = job[q].conversation
  BY <1>1, <1>2, RowsGo, Zenon
<1> QED
  BY <1>1, <1>3, <1>4

LEMMA InitShaped == Init => Shaped
<1> SUFFICES ASSUME Init PROVE Shaped
  OBVIOUS
<1> DEFINE done == [Idle EXCEPT !.phase = "done"]
<1>1. Idle \in Jobs(0) /\ done \in Jobs(0)
  <2>1. Idle \in Jobs(0)
    BY ChatAssumption DEF Jobs, Phases, Idle
  <2>2. \A x \in Jobs(0) : [x EXCEPT !.phase = "done"] \in Jobs(0)
    BY DEF Jobs, Phases
  <2> QED
    BY <2>1, <2>2, Zenon DEF done
<1> HIDE DEF done
<1>2. PICK earlier \in {<<>>} \cup {<<q>> : q \in Questions} :
        /\ created = Len(earlier) /\ last = Len(earlier) /\ logged = ToSet(earlier)
        /\ stored = [c \in Conversations |-> IF c = 1 /\ earlier # <<>> THEN Exchange(earlier[1]) ELSE <<>>]
        /\ job = [q \in Questions |-> IF q \in logged THEN done ELSE Idle]
  BY Zenon DEF Init, done
<1>3. /\ count = 0 /\ ttl = FALSE /\ ws = "open" /\ down = <<>>
      /\ page = NoPage /\ shown = <<>> /\ gets = {}
  BY DEF Init
<1>4. earlier = <<>> \/ \E q \in Questions : earlier = <<q>>
  BY <1>2
<1>5. earlier \in Seq(Questions) /\ Len(earlier) \in 0 .. 1 /\ (earlier # <<>> => earlier[1] \in Questions)
  <2>1. \A q \in Questions : <<q>> \in Seq(Questions) /\ Len(<<q>>) = 1 /\ <<q>>[1] = q
    OBVIOUS
  <2>2. <<>> \in Seq(Questions) /\ Len(<<>>) = 0
    OBVIOUS
  <2>3. CASE earlier = <<>>
    BY <2>2, <2>3
  <2>4. CASE \E q \in Questions : earlier = <<q>>
    <3>1. PICK q \in Questions : earlier = <<q>>
      BY <2>4
    <3> QED
      BY <2>1, <3>1
  <2> QED
    BY <1>4, <2>3, <2>4
<1>6. stored \in [Conversations -> Seq(Messages)]
  <2>1. \A q \in Questions : Exchange(q) \in Seq(Messages)
    BY DEF Exchange, Messages
  <2> QED
    BY <1>2, <1>5, <2>1
<1>7. created \in 0 .. MaxConversations /\ last \in 0 .. created
  BY <1>2, <1>5, ChatAssumption
<1>8. logged \subseteq Questions
  BY <1>2, <1>4 DEF ToSet
<1>9. job \in [Questions -> Jobs(0)]
  BY <1>1, <1>2
<1>10. job \in [Questions -> Jobs(created)]
  BY <1>7, <1>9, RowsStay
<1>11. page \in Pages(created)
  BY <1>3, <1>7, ChatAssumption DEF NoPage, Pages
<1>12. shown \in Seq(Messages) /\ down \in Seq(Sent)
  BY <1>3
<1>13. count \in 0 .. MaxPerWindow + 1 /\ ttl \in BOOLEAN /\ ws \in {"open", "connecting", "closed"}
  <2>1. 0 \in 0 .. MaxPerWindow + 1
    BY ChatAssumption
  <2> QED
    BY <1>3, <2>1
<1>14. gets \subseteq Gets /\ \A g \in gets : g.conversation <= created
  BY <1>3, Zenon
<1>15. \A c \in Conversations : stored[c] # <<>> => c <= created
  BY <1>2, <1>5
<1> QED
  BY <1>15, <1>6, <1>7, <1>8, <1>10, <1>11, <1>12, <1>13, <1>14, Zenon DEF Shaped

-----------------------------------------------------------------------------
(* The page's own steps leave the database and the questions alone.         *)
LEMMA PageShaped ==
  ASSUME Shaped, Open \/ Leave \/ NewChat \/ (\E c \in Conversations : Switch(c)) \/ Receive
  PROVE  Shaped'
<1>1. \A x \in Pages(created), p \in BOOLEAN :
        /\ [x EXCEPT !.error = p] \in Pages(created)
        /\ [x EXCEPT !.thinking = p] \in Pages(created)
  BY DEF Pages
<1>2. \A x \in Pages(created) :
        /\ [x EXCEPT !.error = FALSE, !.creating = TRUE] \in Pages(created)
        /\ [x EXCEPT !.thinking = FALSE, !.error = TRUE] \in Pages(created)
  BY DEF Pages
<1>3. NoPage \in Pages(created) /\ [NoPage EXCEPT !.open = TRUE, !.init = TRUE] \in Pages(created)
  <2>1. NoPage \in Pages(created)
    BY ChatAssumption DEF NoPage, Pages, Shaped
  <2>2. \A x \in Pages(created) : [x EXCEPT !.open = TRUE, !.init = TRUE] \in Pages(created)
    BY DEF Pages
  <2> QED
    BY <2>1, <2>2, Zenon
<1>4. page \in Pages(created)
  BY DEF Shaped
<1>5. page' \in Pages(created)
  BY <1>1, <1>2, <1>3, <1>4, Zenon DEF Open, Leave, NewChat, Switch, Receive
<1>6. UNCHANGED <<db, window, job, ws>>
  BY DEF Open, Leave, NewChat, Switch, Receive
<1>7. CASE Open \/ NewChat \/ Leave
  <2>1. (shown' = shown \/ shown' = <<>>) /\ gets' \in {gets, {}} /\ down' = down
    BY <1>7 DEF Open, NewChat, Leave
  <2>2. shown' \in Seq(Messages)
    <3>1. shown \in Seq(Messages) /\ <<>> \in Seq(Messages)
      BY DEF Shaped
    <3> QED
      BY <2>1, <3>1, Zenon
  <2>3. gets' \subseteq Gets /\ \A g \in gets' : g.conversation <= created
    BY <2>1 DEF Shaped
  <2>4. UNCHANGED down
    BY <2>1
  <2> QED
    BY <1>5, <1>6, <2>2, <2>3, <2>4, Zenon DEF Shaped, db, window
<1>8. ASSUME NEW c \in Conversations, Switch(c) PROVE Shaped'
  <2>1. c <= created
    BY <1>8 DEF Switch, Shaped
  <2>2. Get(c, "switch") \in Gets /\ Get(c, "switch").conversation <= created
    BY <2>1 DEF Get, Gets
  <2>3. gets' = gets \cup {Get(c, "switch")} /\ UNCHANGED <<down, shown>>
    BY <1>8 DEF Switch
  <2> QED
    BY <1>5, <1>6, <2>2, <2>3 DEF Shaped, db, window
<1>9. CASE Receive
  <2>1. Head(down) \in Sent /\ Tail(down) \in Seq(Sent)
    BY <1>9 DEF Receive, Shaped
  <2>2. [role |-> "assistant", about |-> Head(down).about] \in Messages
    BY <2>1 DEF Sent, Messages
  <2>3. shown' \in {shown, Append(shown, [role |-> "assistant", about |-> Head(down).about])}
        /\ down' = Tail(down) /\ UNCHANGED gets
    BY <1>9 DEF Receive
  <2>4. shown' \in Seq(Messages)
    <3>1. shown \in Seq(Messages) /\ \A m \in Messages : Append(shown, m) \in Seq(Messages)
      BY DEF Shaped
    <3> QED
      BY <2>2, <2>3, <3>1, Zenon
  <2>5. down' \in Seq(Sent) /\ UNCHANGED gets
    BY <2>1, <2>3
  <2> QED
    BY <1>5, <1>6, <2>4, <2>5, Zenon DEF Shaped, db, window
<1> QED
  BY <1>7, <1>8, <1>9

LEMMA AnswerShaped ==
  ASSUME Shaped, NEW g \in gets, GetRead(g) \/ GetArrives(g)
  PROVE  Shaped'
<1>1. g \in Gets /\ g.conversation \in Conversations /\ g.conversation <= created
  BY DEF Shaped, Gets
<1>2. CASE GetRead(g)
  <2> DEFINE h == [g EXCEPT !.read = TRUE, !.found = stored[g.conversation]]
  <2>1. stored[g.conversation] \in Seq(Messages)
    BY <1>1 DEF Shaped
  <2>2. h \in Gets /\ h.conversation = g.conversation
    <3>1. \A x \in Gets, f \in Seq(Messages) :
            LET y == [x EXCEPT !.read = TRUE, !.found = f] IN y \in Gets /\ y.conversation = x.conversation
      BY DEF Gets
    <3> QED
      BY <1>1, <2>1, <3>1, Zenon
  <2>3. gets' = (gets \ {g}) \cup {h}
    BY <1>2, Zenon DEF GetRead
  <2>4. UNCHANGED <<db, window, job, ws, down, page, shown>>
    BY <1>2 DEF GetRead
  <2> HIDE DEF h
  <2> QED
    BY <1>1, <2>2, <2>3, <2>4 DEF Shaped, db, window
<1>3. CASE GetArrives(g)
  <2>1. page' \in Pages(created)
    <3>1. \A x \in Pages(created), n \in 0 .. created : [x EXCEPT !.conversation = n] \in Pages(created)
      BY DEF Pages
    <3>2. page \in Pages(created) /\ g.conversation \in 0 .. created
      BY <1>1 DEF Shaped, Conversations
    <3> QED
      BY <1>3, <3>1, <3>2, Zenon DEF GetArrives
  <2>2. g.found \in Seq(Messages)
    BY <1>1 DEF Gets
  <2>3. gets' = gets \ {g} /\ shown' = g.found /\ UNCHANGED <<db, window, job, ws, down>>
    BY <1>3 DEF GetArrives
  <2> QED
    BY <2>1, <2>2, <2>3 DEF Shaped, db, window
<1> QED
  BY <1>2, <1>3

LEMMA CreateShaped ==
  ASSUME Shaped, Resume \/ NewConversation
  PROVE  Shaped'
<1>1. created \in 0 .. MaxConversations /\ MaxConversations \in Nat \ {0} /\ last \in 0 .. created
  BY ChatAssumption DEF Shaped
<1>2. created' \in 0 .. MaxConversations /\ created <= created' /\ created' \in Nat /\ created \in Nat
  BY <1>1 DEF Resume, NewConversation, Latest
<1>3. job' \in [Questions -> Jobs(created')]
  <2>1. job \in [Questions -> Jobs(created)] /\ UNCHANGED job
    BY DEF Resume, NewConversation, Shaped
  <2> QED
    BY <1>2, <2>1, RowsStay
<1>4. page' \in Pages(created')
  <2>1. page \in Pages(created')
    BY <1>2, RowsStay DEF Shaped
  <2>2. \A x \in Pages(created'), n \in 0 .. created' :
          /\ [x EXCEPT !.init = FALSE, !.conversation = n] \in Pages(created')
          /\ [x EXCEPT !.creating = FALSE, !.conversation = n] \in Pages(created')
    BY DEF Pages
  <2>3. CASE Resume
    <3>1. \E n \in 0 .. created' : page' = [page EXCEPT !.init = FALSE, !.conversation = n]
      <4>1. CASE Latest = 0
        <5>1. 1 \in 0 .. created' /\ page' = [page EXCEPT !.init = FALSE, !.conversation = 1]
          BY <2>3, <4>1 DEF Resume
        <5> QED
          BY <5>1
      <4>2. CASE Latest # 0
        <5>1. Latest \in 0 .. created' /\ page' = [page EXCEPT !.init = FALSE, !.conversation = Latest]
          BY <1>1, <2>3, <4>2 DEF Resume, Latest
        <5> QED
          BY <5>1
      <4> QED
        BY <4>1, <4>2
    <3> QED
      BY <2>1, <2>2, <3>1, Zenon
  <2>4. CASE NewConversation
    <3>1. created + 1 \in 0 .. created' /\ page' = [page EXCEPT !.creating = FALSE, !.conversation = created + 1]
      BY <1>1, <2>4 DEF NewConversation
    <3> QED
      BY <2>1, <2>2, <3>1, Zenon
  <2> QED
    BY <2>3, <2>4
<1>5. gets' \subseteq Gets /\ \A g \in gets' : g.conversation <= created'
  <2>1. \A g \in gets : g \in Gets /\ g.conversation <= created'
    BY <1>1, <1>2 DEF Shaped, Gets, Conversations
  <2>2. \A n \in 1 .. MaxConversations : Get(n, "init") \in Gets /\ Get(n, "init").conversation = n
    BY DEF Get, Gets, Conversations
  <2>3. gets' = gets \/ \E n \in 1 .. created' : gets' = gets \cup {Get(n, "init")}
    <3>1. CASE NewConversation
      BY <3>1 DEF NewConversation
    <3>2. CASE Resume /\ Latest = 0
      BY <3>2 DEF Resume
    <3>3. CASE Resume /\ Latest # 0
      <4>1. Latest \in 1 .. created'
        BY <1>1, <3>3 DEF Resume, Latest
      <4> QED
        BY <3>3, <4>1 DEF Resume
    <3> QED
      BY <3>1, <3>2, <3>3
  <2> QED
    BY <1>1, <1>2, <2>1, <2>2, <2>3
<1>6. UNCHANGED <<stored, last, logged, window, ws, down, shown>>
  BY DEF Resume, NewConversation
<1>7. \A c \in Conversations : stored[c] # <<>> => c <= created'
  BY <1>1, <1>2 DEF Shaped, Conversations
<1> QED
  BY <1>1, <1>2, <1>3, <1>4, <1>5, <1>6, <1>7 DEF Shaped, window

(* Sending and dropping: the rows of the questions.                         *)
LEMMA SendShaped ==
  ASSUME Shaped, NEW q \in Questions, SendQuestion(q)
  PROVE  /\ Shaped' /\ job'[q].phase \in {"sent", "pending", "done"} /\ job'[q].conversation = page.conversation
         /\ \A r \in Questions \ {q} : job'[r] = job[r]
<1> DEFINE phase == CASE ws = "open" -> "sent" [] ws = "connecting" -> "pending" [] ws = "closed" -> "done"
<1>0. PICK heard \in BOOLEAN : heard = (ws = "open")
  OBVIOUS
<1> DEFINE Sends(x, p, n) == [x EXCEPT !.phase = p, !.heard = heard, !.conversation = n]
           y == Sends(job[q], phase, page.conversation)
<1>1. \A x \in Jobs(created), p \in Phases, n \in 0 .. created :
        /\ Sends(x, p, n) \in Jobs(created)
        /\ Sends(x, p, n).phase = p /\ Sends(x, p, n).conversation = n
  BY <1>0 DEF Jobs
<1>2. job \in [Questions -> Jobs(created)] /\ job[q] \in Jobs(created)
      /\ ws \in {"open", "connecting", "closed"} /\ page.conversation \in 0 .. created /\ page \in Pages(created)
  BY DEF Shaped, Pages
<1>3. job' = [job EXCEPT ![q] = y]
  BY <1>0, Zenon DEF SendQuestion
<1> HIDE DEF Sends
<1>4. phase \in Phases /\ phase \in {"sent", "pending", "done"}
  BY <1>2 DEF Phases
<1> HIDE DEF phase
<1>5. y \in Jobs(created) /\ y.phase = phase /\ y.conversation = page.conversation
  BY <1>1, <1>2, <1>4
<1> HIDE DEF y
<1>6. job' \in [Questions -> Jobs(created)] /\ job'[q] = y /\ \A r \in Questions \ {q} : job'[r] = job[r]
  BY <1>2, <1>3, <1>5
<1>7. page' \in Pages(created)
  <2>1. \A x \in Pages(created) : [x EXCEPT !.thinking = TRUE, !.error = FALSE] \in Pages(created)
    BY DEF Pages
  <2> QED
    BY <1>2, <2>1, Zenon DEF SendQuestion
<1>8. shown' \in Seq(Messages)
  <2>1. [role |-> "user", about |-> q] \in Messages
    BY DEF Messages
  <2> QED
    BY <2>1 DEF SendQuestion, Shaped
<1>9. UNCHANGED <<db, window, ws, down, gets>>
  BY DEF SendQuestion
<1>10. Shaped'
  BY <1>6, <1>7, <1>8, <1>9, Zenon DEF Shaped, db, window
<1> QED
  BY <1>4, <1>5, <1>6, <1>10

LEMMA DropShaped ==
  ASSUME Shaped, Drop \/ Reconnect \/ OnOpen \/ WindowEnds
  PROVE  /\ Shaped'
         /\ \A q \in Questions :
              /\ job'[q].conversation = job[q].conversation
              /\ \/ job'[q].phase \in {job[q].phase, "done"}
                 \/ job[q].phase = "pending" /\ job'[q].phase = "sent"
<1>1. job \in [Questions -> Jobs(created)]
  BY DEF Shaped
<1>2. CASE Drop
  <2>1. \A x \in Jobs(created), p \in Phases :
          LET y == [x EXCEPT !.heard = FALSE, !.phase = p] IN
          y \in Jobs(created) /\ y.phase = p /\ y.conversation = x.conversation
    BY DEF Jobs
  <2> DEFINE phase(q) == IF job[q].phase = "sent" THEN "done" ELSE job[q].phase
             y(q)     == [job[q] EXCEPT !.heard = FALSE, !.phase = phase(q)]
  <2>2. job' = [q \in Questions |-> y(q)]
    BY <1>2, Zenon DEF Drop
  <2>3. \A q \in Questions : phase(q) \in Phases /\ phase(q) \in {job[q].phase, "done"}
    BY <1>1 DEF Jobs, Phases
  <2> HIDE DEF phase
  <2>4. \A q \in Questions : job[q] \in Jobs(created)
    BY <1>1
  <2>5. \A q \in Questions : y(q) \in Jobs(created) /\ y(q).phase = phase(q) /\ y(q).conversation = job[q].conversation
    BY <2>1, <2>3, <2>4, Zenon
  <2> HIDE DEF y
  <2>6. job' \in [Questions -> Jobs(created)] /\ \A q \in Questions : job'[q] = y(q)
    BY <2>2, <2>5
  <2>7. UNCHANGED <<db, window, tab>> /\ down' \in Seq(Sent) /\ ws' \in {"open", "connecting", "closed"}
    <3>1. UNCHANGED <<db, window, tab>> /\ down' = <<>> /\ ws' = "closed"
      BY <1>2, Zenon DEF Drop
    <3>2. <<>> \in Seq(Sent)
      OBVIOUS
    <3> QED
      BY <3>1, <3>2, Zenon
  <2>8. Shaped'
    BY <2>6, <2>7, Zenon DEF Shaped, db, window, tab
  <2> QED
    BY <2>3, <2>5, <2>6, <2>8
<1>3. CASE Reconnect \/ WindowEnds
  <2>1. UNCHANGED <<db, job, down, tab>>
    BY <1>3 DEF Reconnect, WindowEnds
  <2>2. count' \in 0 .. MaxPerWindow + 1 /\ ttl' \in BOOLEAN /\ ws' \in {"open", "connecting", "closed"}
    <3>1. 0 \in 0 .. MaxPerWindow + 1
      BY ChatAssumption
    <3>2. count' \in {count, 0} /\ ttl' \in {ttl, FALSE} /\ ws' \in {ws, "connecting"}
      BY <1>3 DEF Reconnect, WindowEnds, window
    <3> QED
      BY <3>1, <3>2 DEF Shaped
  <2>3. Shaped'
    BY <2>1, <2>2, Zenon DEF Shaped, db, tab
  <2> QED
    BY <2>1, <2>3
<1>4. CASE OnOpen
  <2>1. \A x \in Jobs(created) :
          LET y == [x EXCEPT !.phase = "sent", !.heard = TRUE] IN
          y \in Jobs(created) /\ y.phase = "sent" /\ y.conversation = x.conversation
    BY DEF Jobs, Phases
  <2> DEFINE y(q) == [job[q] EXCEPT !.phase = "sent", !.heard = TRUE]
  <2>2. job' = [q \in Questions |-> IF job[q].phase = "pending" THEN y(q) ELSE job[q]]
    BY <1>4, Zenon DEF OnOpen
  <2>3. \A q \in Questions : job[q] \in Jobs(created)
    BY <1>1
  <2>4. \A q \in Questions : y(q) \in Jobs(created) /\ y(q).phase = "sent" /\ y(q).conversation = job[q].conversation
    BY <2>1, <2>3, Zenon
  <2> HIDE DEF y
  <2>5. /\ job' \in [Questions -> Jobs(created)]
        /\ \A q \in Questions :
             \/ job'[q] = job[q]
             \/ job[q].phase = "pending" /\ job'[q].phase = "sent" /\ job'[q].conversation = job[q].conversation
    BY <2>2, <2>3, <2>4
  <2>6. UNCHANGED <<db, window, down, tab>> /\ ws' = "open"
    BY <1>4 DEF OnOpen
  <2>7. Shaped'
    BY <2>5, <2>6, Zenon DEF Shaped, db, window, tab
  <2> QED
    BY <2>5, <2>7
<1> QED
  BY <1>2, <1>3, <1>4

-----------------------------------------------------------------------------
(* The backend.                                                             *)

(* A conversation only grows.                                               *)
Grows == \A c \in Conversations : \A m \in ToSet(stored[c]) : m \in ToSet(stored'[c])

LEMMA Growing ==
  ASSUME NEW s \in Seq(Messages), NEW m \in Messages, NEW n \in Messages
  PROVE  /\ Append(s, m) \in Seq(Messages) /\ s \o <<m, n>> \in Seq(Messages)
         /\ \A x \in ToSet(s) : x \in ToSet(Append(s, m)) /\ x \in ToSet(s \o <<m, n>>)
         /\ m \in ToSet(Append(s, m)) /\ n \in ToSet(s \o <<m, n>>)
<1>1. /\ Append(s, m) \in Seq(Messages) /\ DOMAIN Append(s, m) = 1 .. Len(s) + 1
      /\ \A i \in 1 .. Len(s) : Append(s, m)[i] = s[i]
      /\ Append(s, m)[Len(s) + 1] = m
  OBVIOUS
<1>2. <<m, n>> \in Seq(Messages) /\ Len(<<m, n>>) = 2 /\ <<m, n>>[2] = n
  OBVIOUS
<1>3. /\ s \o <<m, n>> \in Seq(Messages) /\ DOMAIN (s \o <<m, n>>) = 1 .. Len(s) + 2
      /\ \A i \in 1 .. Len(s) : (s \o <<m, n>>)[i] = s[i]
      /\ (s \o <<m, n>>)[Len(s) + 2] = n
  BY <1>2
<1>4. Len(s) \in Nat /\ DOMAIN s = 1 .. Len(s)
  OBVIOUS
<1> HIDE DEF Messages
<1>5. \A x \in ToSet(s) : x \in ToSet(Append(s, m)) /\ x \in ToSet(s \o <<m, n>>)
  BY <1>1, <1>3, <1>4 DEF ToSet
<1>6. m \in ToSet(Append(s, m)) /\ n \in ToSet(s \o <<m, n>>)
  BY <1>1, <1>3, <1>4 DEF ToSet
<1> QED
  BY <1>1, <1>3, <1>5, <1>6

(* A question that writes nothing and tells nothing yet.                    *)
LEMMA CallShaped ==
  ASSUME Shaped, NEW q \in Questions,
         \/ CountMessage(q) \/ SetExpiry(q) \/ Retrieve(q) \/ Complete(q) \/ LogUsage(q) \/ WriteFails(q)
  PROVE  /\ Shaped' /\ UNCHANGED <<stored, down, tab>>
         /\ job[q].phase \notin {"idle", "done"} /\ job'[q].conversation = job[q].conversation
         /\ \A r \in Questions \ {q} : job'[r] = job[r]
         /\ job'[q].phase \in {"usage", "reply"} => job[q].phase \in {"usage", "reply"}
<1>1. \/ \E p \in Phases : Goes(q, p) /\ (p \in {"usage", "reply"} => job[q].phase \in {"usage", "reply"})
      \/ job[q].tries + 1 < MaxAttempts /\ job' = [job EXCEPT ![q].tries = @ + 1]
  <2> "error" \in Phases /\ "first" \in Phases /\ "embedding" \in Phases /\ "answering" \in Phases
      /\ "refusal" \in Phases /\ "question" \in Phases /\ "reply" \in Phases
    BY DEF Phases
  <2>1. CASE CountMessage(q)
    BY <2>1, Zenon DEF CountMessage
  <2>2. CASE SetExpiry(q)
    BY <2>2, Zenon DEF SetExpiry
  <2>3. CASE Retrieve(q)
    BY <2>3, Zenon DEF Retrieve, Attempt
  <2>4. CASE Complete(q)
    BY <2>4, Zenon DEF Complete, Attempt
  <2>5. CASE LogUsage(q)
    BY <2>5, Zenon DEF LogUsage, At
  <2>6. CASE WriteFails(q)
    BY <2>6, Zenon DEF WriteFails
  <2> QED
    BY <2>1, <2>2, <2>3, <2>4, <2>5, <2>6
<1>2. /\ job' \in [Questions -> Jobs(created)] /\ job'[q].conversation = job[q].conversation
      /\ \A r \in Questions \ {q} : job'[r] = job[r]
      /\ job'[q].phase \in {"usage", "reply"} => job[q].phase \in {"usage", "reply"}
  <2>1. CASE \E p \in Phases : Goes(q, p) /\ (p \in {"usage", "reply"} => job[q].phase \in {"usage", "reply"})
    BY <2>1, Going
  <2>2. CASE job[q].tries + 1 < MaxAttempts /\ job' = [job EXCEPT ![q].tries = @ + 1]
    <3> DEFINE y == [job[q] EXCEPT !.tries = @ + 1]
    <3>1. job \in [Questions -> Jobs(created)] /\ job[q] \in Jobs(created)
      BY DEF Shaped
    <3>2. \A x \in Jobs(created) : x.tries + 1 < MaxAttempts =>
            LET z == [x EXCEPT !.tries = @ + 1] IN
            z \in Jobs(created) /\ z.conversation = x.conversation /\ z.phase = x.phase
      BY ChatAssumption DEF Jobs
    <3>3. y \in Jobs(created) /\ y.conversation = job[q].conversation /\ y.phase = job[q].phase
      BY <2>2, <3>1, <3>2, Zenon
    <3>4. job' = [job EXCEPT ![q] = y]
      BY <2>2, Zenon
    <3> HIDE DEF y
    <3> QED
      BY <3>1, <3>3, <3>4
  <2> QED
    BY <1>1, <2>1, <2>2
<1>3. job[q].phase \notin {"idle", "done"}
  BY DEF CountMessage, SetExpiry, Retrieve, Complete, Attempt, LogUsage, WriteFails, At
<1>4. count' \in 0 .. MaxPerWindow + 1 /\ ttl' \in BOOLEAN
  <2>1. count \in 0 .. MaxPerWindow + 1 /\ ttl \in BOOLEAN
    BY DEF Shaped
  <2>2. CASE CountMessage(q)
    BY <2>1, <2>2, ChatAssumption DEF CountMessage
  <2>3. CASE ~CountMessage(q)
    BY <2>1, <2>3 DEF SetExpiry, Retrieve, Complete, Attempt, LogUsage, WriteFails, window
  <2> QED
    BY <2>2, <2>3
<1>5. UNCHANGED <<created, stored, last, ws, down, tab>> /\ (logged' = logged \/ logged' = logged \cup {q})
  BY Zenon DEF CountMessage, SetExpiry, Retrieve, Complete, Attempt, LogUsage, WriteFails, db, window
<1>6. logged' \subseteq Questions
  BY <1>5 DEF Shaped
<1>7. Shaped'
  BY <1>2, <1>4, <1>5, <1>6, Zenon DEF Shaped, tab
<1> QED
  BY <1>2, <1>3, <1>5, <1>7

(* A question that writes.                                                  *)
LEMMA StoreShaped ==
  ASSUME Shaped, Asked, NEW q \in Questions, StoreQuestion(q) \/ StoreRefusal(q) \/ StoreAnswer(q)
  PROVE  /\ Shaped' /\ UNCHANGED <<down, tab>> /\ Grows
         /\ job[q].phase \notin {"idle", "done"} /\ job'[q].conversation = job[q].conversation
         /\ \A r \in Questions \ {q} : job'[r] = job[r]
         /\ job'[q].phase \in {"usage", "reply"} => IsStored(Answer(q))'
<1> DEFINE c    == job[q].conversation
           user == [role |-> "user", about |-> q]
<1>1. job[q].phase \notin {"idle", "done"}
  BY DEF StoreQuestion, StoreRefusal, StoreAnswer, At
<1>2. c \in Conversations /\ c <= created /\ c \in 0 .. created
  <2>1. job[q] \in Jobs(created) /\ created \in 0 .. MaxConversations
    BY DEF Shaped
  <2>2. c \in 0 .. created /\ c # 0
    BY <1>1, <2>1 DEF Asked, Jobs
  <2> QED
    BY <2>1, <2>2, ChatAssumption DEF Conversations
<1>3. user \in Messages /\ Answer(q) \in Messages
  BY DEF Messages, Answer
<1>4. stored \in [Conversations -> Seq(Messages)] /\ stored[c] \in Seq(Messages)
  BY <1>2 DEF Shaped
<1>5. \E s \in Seq(Messages) :
        /\ stored' = [stored EXCEPT ![c] = s]
        /\ \A x \in ToSet(stored[c]) : x \in ToSet(s)
        /\ \/ Goes(q, "answer")
           \/ Goes(q, "usage") /\ Answer(q) \in ToSet(s)
           \/ Goes(q, "reply") /\ Answer(q) \in ToSet(s)
  <2>1. CASE StoreQuestion(q)
    <3>1. stored' = [stored EXCEPT ![c] = Append(stored[c], user)] /\ Goes(q, "answer")
      BY <2>1, Zenon DEF StoreQuestion, Store
    <3> QED
      BY <1>3, <1>4, <3>1, Growing, Zenon
  <2>2. CASE StoreAnswer(q)
    <3>1. stored' = [stored EXCEPT ![c] = Append(stored[c], Answer(q))] /\ Goes(q, "usage")
      BY <2>2, Zenon DEF StoreAnswer, Store, Answer
    <3> QED
      BY <1>3, <1>4, <3>1, Growing, Zenon
  <2>3. CASE StoreRefusal(q)
    <3>1. stored' = [stored EXCEPT ![c] = stored[c] \o <<user, Answer(q)>>] /\ Goes(q, "reply")
      BY <2>3, Zenon DEF StoreRefusal, Exchange, Answer
    <3> QED
      BY <1>3, <1>4, <3>1, Growing, Zenon
  <2> QED
    BY <2>1, <2>2, <2>3
<1>6. PICK s \in Seq(Messages) :
        /\ stored' = [stored EXCEPT ![c] = s]
        /\ \A x \in ToSet(stored[c]) : x \in ToSet(s)
        /\ \/ Goes(q, "answer")
           \/ Goes(q, "usage") /\ Answer(q) \in ToSet(s)
           \/ Goes(q, "reply") /\ Answer(q) \in ToSet(s)
  BY <1>5
<1>7. /\ stored' \in [Conversations -> Seq(Messages)] /\ stored'[c] = s
      /\ \A d \in Conversations : d # c => stored'[d] = stored[d]
  BY <1>2, <1>4, <1>6
<1>8. Grows
  BY <1>6, <1>7 DEF Grows
<1>9. /\ job' \in [Questions -> Jobs(created)] /\ job'[q].conversation = job[q].conversation
      /\ \A r \in Questions \ {q} : job'[r] = job[r]
      /\ job'[q].phase \in {"usage", "reply"} => Answer(q) \in ToSet(s)
  <2>1. "answer" \in Phases /\ "usage" \in Phases /\ "reply" \in Phases
    BY DEF Phases
  <2>2. CASE Goes(q, "answer")
    BY <2>1, <2>2, Going
  <2>3. CASE Goes(q, "usage") /\ Answer(q) \in ToSet(s)
    BY <2>1, <2>3, Going
  <2>4. CASE Goes(q, "reply") /\ Answer(q) \in ToSet(s)
    BY <2>1, <2>4, Going
  <2> QED
    BY <1>6, <2>2, <2>3, <2>4
<1>10. UNCHANGED <<created, logged, window, ws, down, tab>> /\ last' = c
  BY Zenon DEF StoreQuestion, StoreRefusal, StoreAnswer, Store
<1>11. \A d \in Conversations : stored'[d] # <<>> => d <= created
  BY <1>2, <1>7 DEF Shaped
<1>12. Shaped'
  BY <1>2, <1>7, <1>9, <1>10, <1>11, Zenon DEF Shaped, window, tab
<1>13. job'[q].phase \in {"usage", "reply"} => IsStored(Answer(q))'
  BY <1>2, <1>7, <1>9 DEF IsStored, Answer, Conversations
<1> QED
  BY <1>1, <1>8, <1>9, <1>10, <1>12, <1>13

LEMMA ReplyShaped ==
  ASSUME Shaped, NEW q \in Questions, Reply(q)
  PROVE  /\ Shaped' /\ UNCHANGED <<stored, tab>>
         /\ job'[q].phase = "done" /\ \A r \in Questions \ {q} : job'[r] = job[r]
         /\ \/ down' = down
            \/ \E m \in Sent : /\ down' = Append(down, m)
                               /\ m.type = "complete" => m.about = q /\ job[q].phase = "reply"
<1>1. "done" \in Phases
  BY DEF Phases
<1>2. /\ job' \in [Questions -> Jobs(created)] /\ job'[q].phase = "done"
      /\ \A r \in Questions \ {q} : job'[r] = job[r]
  BY <1>1, Going DEF Reply
<1>3. UNCHANGED <<db, window, ws, tab>> /\ down' = down \o Told(q)
  BY DEF Reply
<1>4. \/ Told(q) = <<>>
      \/ \E m \in Sent : /\ Told(q) = <<m>>
                         /\ m.type = "complete" => m.about = q /\ job[q].phase = "reply"
  <2>1. CASE ~job[q].heard
    BY <2>1 DEF Told
  <2>2. CASE job[q].heard /\ At(q, "reply")
    <3>1. Told(q) = <<[type |-> "complete", about |-> q]>> /\ [type |-> "complete", about |-> q] \in Sent
      BY <2>2 DEF Told, Sent
    <3> QED
      BY <2>2, <3>1 DEF At
  <2>3. CASE job[q].heard /\ ~At(q, "reply")
    <3>1. Told(q) = <<[type |-> "error", about |-> q]>> /\ [type |-> "error", about |-> q] \in Sent
      BY <2>3 DEF Told, Sent
    <3> QED
      BY <3>1
  <2> QED
    BY <2>1, <2>2, <2>3
<1>5. down \in Seq(Sent) /\ down \o <<>> = down /\ \A m \in Sent : down \o <<m>> = Append(down, m) /\ Append(down, m) \in Seq(Sent)
  <2>1. down \in Seq(Sent)
    BY DEF Shaped
  <2> QED
    BY <2>1
<1>6. /\ \/ down' = down
         \/ \E m \in Sent : /\ down' = Append(down, m)
                            /\ m.type = "complete" => m.about = q /\ job[q].phase = "reply"
      /\ down' \in Seq(Sent)
  BY <1>3, <1>4, <1>5, Zenon
<1>7. Shaped'
  BY <1>2, <1>3, <1>6, Zenon DEF Shaped, db, window, tab
<1> QED
  BY <1>2, <1>3, <1>6, <1>7 DEF db

-----------------------------------------------------------------------------
(* A step that writes no message, and takes none away.                      *)
LEMMA KeepsStored ==
  ASSUME StoredInv, Shaped', Grows,
         \A q \in Questions :
           /\ job'[q].phase \notin {"idle", "done"} => job'[q].conversation # 0
           /\ job'[q].phase \in {"usage", "reply"} =>
                job[q].phase \in {"usage", "reply"} \/ IsStored(Answer(q))',
         \A i \in DOMAIN shown' : shown'[i].role = "assistant" => IsStored(shown'[i]),
         \A g \in gets' : g \in gets \/ \A i \in DOMAIN g.found : IsStored(g.found[i]),
         \A i \in DOMAIN down' : down'[i].type = "complete" => IsStored(Answer(down'[i].about))
  PROVE  StoredInv'
<1>1. \A m : IsStored(m) => IsStored(m)'
  BY DEF IsStored, Grows, Conversations
<1>2. Asked'
  BY DEF Asked
<1>3. ShownIsStored'
  BY <1>1 DEF ShownIsStored, IsStored
<1>4. FoundIsStored'
  BY <1>1 DEF FoundIsStored, StoredInv
<1>5. SentIsStored'
  <2>1. \A q : IsStored(Answer(q)) => IsStored(Answer(q))'
    BY <1>1 DEF Answer
  <2> QED
    BY <2>1 DEF SentIsStored, Answer
<1>6. DueIsStored'
  BY <1>1 DEF DueIsStored, StoredInv, Answer
<1> QED
  BY <1>2, <1>3, <1>4, <1>5, <1>6 DEF StoredInv

LEMMA StoredStep == StoredInv /\ [Next]_vars => StoredInv'
<1> SUFFICES ASSUME StoredInv, [Next]_vars PROVE StoredInv'
  OBVIOUS
<1> USE DEF StoredInv
<1>1. /\ \A i \in DOMAIN shown : shown[i].role = "assistant" => IsStored(shown[i])
      /\ \A i \in DOMAIN down : down[i].type = "complete" => IsStored(Answer(down[i].about))
  BY DEF ShownIsStored, IsStored, SentIsStored
<1>2. ASSUME UNCHANGED stored PROVE Grows
  BY <1>2 DEF Grows
<1>3. ASSUME UNCHANGED job
      PROVE  \A q \in Questions :
               /\ job'[q].phase \notin {"idle", "done"} => job'[q].conversation # 0
               /\ job'[q].phase \in {"usage", "reply"} =>
                    job[q].phase \in {"usage", "reply"} \/ IsStored(Answer(q))'
  BY <1>3 DEF Asked
<1>4. ASSUME NEW q \in Questions, \A r \in Questions \ {q} : job'[r] = job[r],
             \/ job'[q].phase = "done"
             \/ /\ job[q].phase \notin {"idle", "done"} /\ job'[q].conversation = job[q].conversation
                /\ job'[q].phase \in {"usage", "reply"} =>
                     job[q].phase \in {"usage", "reply"} \/ IsStored(Answer(q))'
      PROVE  \A r \in Questions :
               /\ job'[r].phase \notin {"idle", "done"} => job'[r].conversation # 0
               /\ job'[r].phase \in {"usage", "reply"} =>
                    job[r].phase \in {"usage", "reply"} \/ IsStored(Answer(r))'
  BY <1>4 DEF Asked
<1>5. ASSUME UNCHANGED tab
      PROVE  /\ \A i \in DOMAIN shown' : shown'[i].role = "assistant" => IsStored(shown'[i])
             /\ \A g \in gets' : g \in gets
  BY <1>1, <1>5 DEF tab
<1>6. CASE Open \/ Leave \/ NewChat \/ (\E c \in Conversations : Switch(c)) \/ Receive
  <2>1. Shaped' /\ UNCHANGED <<stored, job>>
    BY <1>6, PageShaped DEF Open, Leave, NewChat, Switch, Receive, db
  <2>2. CASE ~Receive
    <3>1. (shown' = shown \/ shown' = <<>>) /\ UNCHANGED down
      BY <1>6, <2>2 DEF Open, Leave, NewChat, Switch
    <3>2. \A i \in DOMAIN shown' : shown'[i].role = "assistant" => IsStored(shown'[i])
      BY <1>1, <3>1
    <3>3. \A g \in gets' : g \in gets \/ \A i \in DOMAIN g.found : IsStored(g.found[i])
      <4>1. \A c \in Conversations : DOMAIN Get(c, "switch").found = {}
        BY DEF Get
      <4>2. \A g \in gets' : g \in gets \/ \E c \in Conversations : g = Get(c, "switch")
        BY <1>6, <2>2 DEF Open, Leave, NewChat, Switch
      <4> QED
        BY <4>1, <4>2
    <3> QED
      BY <1>1, <1>2, <1>3, <2>1, <3>1, <3>2, <3>3, KeepsStored
  <2>3. CASE Receive
    <3> DEFINE m == Answer(Head(down).about)
    <3>1. /\ down # <<>> /\ down' = Tail(down) /\ UNCHANGED gets
          /\ \/ shown' = shown
             \/ Head(down).type = "complete" /\ shown' = Append(shown, m)
      BY <2>3, Zenon DEF Receive, Answer
    <3>2. down \in Seq(Sent) /\ shown \in Seq(Messages)
      BY DEF Shaped
    <3>3. \A i \in DOMAIN down' : i + 1 \in DOMAIN down /\ down'[i] = down[i + 1]
      BY <3>1, <3>2
    <3>4. \A i \in DOMAIN down' : down'[i].type = "complete" => IsStored(Answer(down'[i].about))
      BY <1>1, <3>3
    <3>5. 1 \in DOMAIN down /\ Head(down) = down[1]
      BY <3>1, <3>2
    <3>6. Head(down).type = "complete" => IsStored(m)
      BY <1>1, <3>5
    <3>7. m \in Messages
      <4>1. Head(down) \in Sent
        BY <3>1, <3>2
      <4> QED
        BY <4>1 DEF Answer, Messages, Sent
    <3> HIDE DEF m
    <3>8. \A i \in DOMAIN shown' : (i \in DOMAIN shown /\ shown'[i] = shown[i])
                                   \/ (Head(down).type = "complete" /\ shown'[i] = m)
      <4>1. CASE shown' = shown
        BY <4>1
      <4>2. CASE Head(down).type = "complete" /\ shown' = Append(shown, m)
        <5>1. \A i \in DOMAIN Append(shown, m) : (i \in DOMAIN shown /\ Append(shown, m)[i] = shown[i])
                                                 \/ Append(shown, m)[i] = m
          BY <3>2, <3>7
        <5> QED
          BY <4>2, <5>1, Zenon
      <4> QED
        BY <3>1, <4>1, <4>2
    <3>9. \A i \in DOMAIN shown' : shown'[i].role = "assistant" => IsStored(shown'[i])
      BY <1>1, <3>6, <3>8
    <3> QED
      BY <1>2, <1>3, <2>1, <3>1, <3>4, <3>9, KeepsStored
  <2> QED
    BY <2>2, <2>3
<1>7. ASSUME NEW g \in gets, GetRead(g) \/ GetArrives(g) PROVE StoredInv'
  <2>1. Shaped' /\ UNCHANGED <<stored, job, down>>
    BY <1>7, AnswerShaped DEF GetRead, GetArrives, db
  <2>2. g.conversation \in Conversations /\ g \in Gets
    BY DEF Shaped, Gets
  <2>3. \A i \in DOMAIN stored[g.conversation] : IsStored(stored[g.conversation][i])
    BY <2>2 DEF IsStored, ToSet
  <2>4. CASE GetRead(g)
    <3> DEFINE h == [g EXCEPT !.read = TRUE, !.found = stored[g.conversation]]
    <3>1. gets' = (gets \ {g}) \cup {h} /\ UNCHANGED shown
      BY <2>4, Zenon DEF GetRead
    <3>2. h.found = stored[g.conversation]
      <4>1. \A x \in Gets : \A f : [x EXCEPT !.read = TRUE, !.found = f].found = f
        BY DEF Gets
      <4> QED
        BY <2>2, <4>1, Zenon
    <3> HIDE DEF h
    <3>3. \A k \in gets' : k \in gets \/ \A i \in DOMAIN k.found : IsStored(k.found[i])
      BY <2>3, <3>1, <3>2
    <3> QED
      BY <1>1, <1>2, <1>3, <2>1, <3>1, <3>3, KeepsStored
  <2>5. CASE GetArrives(g)
    <3>1. shown' = g.found /\ gets' \subseteq gets
      BY <2>5 DEF GetArrives
    <3>2. \A i \in DOMAIN shown' : IsStored(shown'[i])
      BY <3>1 DEF FoundIsStored
    <3> QED
      BY <1>1, <1>2, <1>3, <2>1, <3>1, <3>2, KeepsStored
  <2> QED
    BY <1>7, <2>4, <2>5
<1>8. CASE Resume \/ NewConversation
  <2>1. Shaped' /\ UNCHANGED <<stored, job, down, shown>>
    BY <1>8, CreateShaped DEF Resume, NewConversation
  <2>2. \A g \in gets' : g \in gets \/ \E c : g = Get(c, "init")
    BY <1>8, Zenon DEF Resume, NewConversation
  <2>3. \A c : DOMAIN Get(c, "init").found = {}
    BY DEF Get
  <2>4. \A g \in gets' : g \in gets \/ \A i \in DOMAIN g.found : IsStored(g.found[i])
    BY <2>2, <2>3
  <2> QED
    BY <1>1, <1>2, <1>3, <2>1, <2>4, KeepsStored
<1>9. ASSUME NEW q \in Questions, SendQuestion(q) PROVE StoredInv'
  <2>1. /\ Shaped' /\ job'[q].phase \in {"sent", "pending", "done"} /\ job'[q].conversation = page.conversation
        /\ \A r \in Questions \ {q} : job'[r] = job[r]
    BY <1>9, SendShaped
  <2>2. /\ page.conversation # 0 /\ UNCHANGED <<stored, down, gets>>
        /\ shown' = Append(shown, [role |-> "user", about |-> q])
    BY <1>9 DEF SendQuestion, db
  <2>3. \A i \in DOMAIN shown' : shown'[i].role = "assistant" => IsStored(shown'[i])
    <3>1. shown \in Seq(Messages)
      BY DEF Shaped
    <3>2. \A i \in DOMAIN shown' : (i \in DOMAIN shown /\ shown'[i] = shown[i])
                                   \/ shown'[i] = [role |-> "user", about |-> q]
      BY <2>2, <3>1
    <3> QED
      BY <1>1, <3>2
  <2>4. \A r \in Questions :
          /\ job'[r].phase \notin {"idle", "done"} => job'[r].conversation # 0
          /\ job'[r].phase \in {"usage", "reply"} =>
               job[r].phase \in {"usage", "reply"} \/ IsStored(Answer(r))'
    BY <2>1, <2>2 DEF Asked
  <2> QED
    BY <1>1, <1>2, <2>1, <2>2, <2>3, <2>4, KeepsStored
<1>10. CASE Drop \/ Reconnect \/ OnOpen \/ WindowEnds
  <2>1. /\ Shaped'
        /\ \A q \in Questions :
             /\ job'[q].conversation = job[q].conversation
             /\ \/ job'[q].phase \in {job[q].phase, "done"}
                \/ job[q].phase = "pending" /\ job'[q].phase = "sent"
    BY <1>10, DropShaped
  <2>2. UNCHANGED <<stored, tab>> /\ (down' = down \/ down' = <<>>)
    BY <1>10, Zenon DEF Drop, Reconnect, OnOpen, WindowEnds, db
  <2>3. \A i \in DOMAIN down' : down'[i].type = "complete" => IsStored(Answer(down'[i].about))
    BY <1>1, <2>2
  <2>4. \A r \in Questions :
          /\ job'[r].phase \notin {"idle", "done"} => job'[r].conversation # 0
          /\ job'[r].phase \in {"usage", "reply"} =>
               job[r].phase \in {"usage", "reply"} \/ IsStored(Answer(r))'
    BY <2>1 DEF Asked
  <2> QED
    BY <1>2, <1>5, <2>1, <2>2, <2>3, <2>4, KeepsStored
<1>11. ASSUME NEW q \in Questions, JobStep(q) PROVE StoredInv'
  <2>1. CASE CountMessage(q) \/ SetExpiry(q) \/ Retrieve(q) \/ Complete(q) \/ LogUsage(q) \/ WriteFails(q)
    BY <1>1, <1>2, <1>4, <1>5, <2>1, CallShaped, KeepsStored
  <2>2. CASE StoreQuestion(q) \/ StoreRefusal(q) \/ StoreAnswer(q)
    BY <1>1, <1>4, <1>5, <2>2, StoreShaped, KeepsStored
  <2>3. CASE Reply(q)
    <3>1. /\ Shaped' /\ UNCHANGED <<stored, tab>>
          /\ job'[q].phase = "done" /\ \A r \in Questions \ {q} : job'[r] = job[r]
          /\ \/ down' = down
             \/ \E m \in Sent : /\ down' = Append(down, m)
                                /\ m.type = "complete" => m.about = q /\ job[q].phase = "reply"
      BY <2>3, ReplyShaped
    <3>2. \A i \in DOMAIN down' : down'[i].type = "complete" => IsStored(Answer(down'[i].about))
      <4>1. CASE down' = down
        BY <1>1, <4>1
      <4>2. ASSUME NEW m \in Sent, down' = Append(down, m),
                   m.type = "complete" => m.about = q /\ job[q].phase = "reply"
            PROVE  \A i \in DOMAIN down' : down'[i].type = "complete" => IsStored(Answer(down'[i].about))
        <5>1. down \in Seq(Sent)
          BY DEF Shaped
        <5>2. \A i \in DOMAIN down' : (i \in DOMAIN down /\ down'[i] = down[i]) \/ down'[i] = m
          BY <4>2, <5>1
        <5>3. m.type = "complete" => IsStored(Answer(m.about))
          BY <4>2 DEF DueIsStored
        <5> QED
          BY <1>1, <5>2, <5>3
      <4> QED
        BY <3>1, <4>1, <4>2
    <3> QED
      BY <1>2, <1>4, <1>5, <3>1, <3>2, KeepsStored
  <2> QED
    BY <1>11, <2>1, <2>2, <2>3 DEF JobStep
<1>12. CASE UNCHANGED vars
  <2>1. Shaped'
    BY <1>12, Zenon DEF Shaped, vars
  <2>2. UNCHANGED <<stored, job, down, tab>>
    BY <1>12 DEF vars, tab
  <2> QED
    BY <1>1, <1>2, <1>3, <1>5, <2>1, <2>2, KeepsStored
<1> QED
  BY <1>6, <1>7, <1>8, <1>9, <1>10, <1>11, <1>12, Zenon DEF Next, PageStep, UserStep

LEMMA InitStored == Init => StoredInv
<1> SUFFICES ASSUME Init PROVE StoredInv
  OBVIOUS
<1>1. Shaped
  BY InitShaped
<1>2. \A q \in Questions : job[q].phase \in {"idle", "done"}
  <2>1. \A x \in Jobs(0) : [x EXCEPT !.phase = "done"].phase = "done"
    BY DEF Jobs
  <2>2. Idle \in Jobs(0) /\ Idle.phase = "idle"
    BY ChatAssumption DEF Idle, Jobs, Phases
  <2> DEFINE done == [Idle EXCEPT !.phase = "done"]
  <2>3. done.phase = "done"
    BY <2>1, <2>2, Zenon
  <2>4. \E l : job = [q \in Questions |-> IF q \in l THEN done ELSE Idle]
    BY Zenon DEF Init
  <2> HIDE DEF done
  <2> QED
    BY <2>2, <2>3, <2>4
<1>3. shown = <<>> /\ down = <<>> /\ gets = {}
  BY DEF Init
<1> QED
  BY <1>1, <1>2, <1>3 DEF StoredInv, Asked, ShownIsStored, FoundIsStored, SentIsStored, DueIsStored

(* The history variable, beside the rest.                                   *)
Missed == missed \subseteq Questions

LEMMA InitMissed == Init => Missed
BY DEF Init, Missed

LEMMA MissedStep == StoredInv /\ Missed /\ [Next]_vars => Missed'
<1> SUFFICES ASSUME StoredInv, missed \subseteq Questions, [Next]_vars PROVE missed' \subseteq Questions
  BY DEF Missed
<1>1. CASE Drop
  <2>1. \A i \in DOMAIN down : down[i] \in Sent
    BY DEF StoredInv, Shaped
  <2>2. missed' = missed \cup {down[i].about : i \in DOMAIN down}
    BY <1>1 DEF Drop
  <2> QED
    BY <2>1, <2>2 DEF Sent
<1>2. CASE UNCHANGED vars
  BY <1>2 DEF vars
<1>3. CASE Resume \/ NewConversation \/ Reconnect \/ OnOpen \/ Open \/ Leave \/ NewChat \/ WindowEnds
  BY <1>3 DEF Resume, NewConversation, Reconnect, OnOpen, Open, Leave, NewChat, WindowEnds
<1>4. CASE Receive
  BY <1>4 DEF Receive
<1>5. ASSUME NEW g \in gets, GetRead(g) \/ GetArrives(g) PROVE missed' \subseteq Questions
  <2>1. AnswersIn(g.found) \subseteq Questions /\ \A c \in Conversations : AnswersIn(stored[c]) \subseteq Questions
    BY DEF AnswersIn
  <2>2. missed' = missed \/ missed' = (missed \cup UNION {AnswersIn(stored[c]) : c \in Conversations}) \ AnswersIn(g.found)
    BY <1>5 DEF GetRead, GetArrives
  <2> QED
    BY <2>1, <2>2
<1>6. ASSUME NEW c \in Conversations, Switch(c) PROVE missed' \subseteq Questions
  BY <1>6 DEF Switch
<1>7. ASSUME NEW q \in Questions, SendQuestion(q) PROVE missed' \subseteq Questions
  BY <1>7 DEF SendQuestion
<1>8. ASSUME NEW q \in Questions, JobStep(q) PROVE missed' \subseteq Questions
  <2>1. missed' = missed \/ missed' = missed \cup {q}
    BY <1>8 DEF JobStep, CountMessage, SetExpiry, Retrieve, Complete, Attempt, StoreQuestion, StoreRefusal,
                StoreAnswer, LogUsage, WriteFails, Reply
  <2> QED
    BY <2>1
<1> QED
  BY <1>1, <1>2, <1>3, <1>4, <1>5, <1>6, <1>7, <1>8 DEF Next, PageStep, UserStep

(* Every variable of Chat keeps its type, whatever fails and wherever the   *)
(* user goes.                                                               *)
THEOREM ChatTyped == Spec => []TypeOK
<1>1. StoredInv /\ Missed => TypeOK
  BY ShapedIsTyped DEF StoredInv, Missed
<1> QED
  BY <1>1, InitStored, StoredStep, InitMissed, MissedStep, PTL DEF Spec

(* Whatever fails, is lost on the socket or is overtaken by another request,*)
(* an answer the page shows, of whichever conversation, is in the database. *)
THEOREM AnswersAreStored == Spec => []ShownIsStored
<1>1. StoredInv => ShownIsStored
  BY DEF StoredInv
<1> QED
  BY <1>1, InitStored, StoredStep, PTL DEF Spec
=============================================================================
