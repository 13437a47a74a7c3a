---------------------------- MODULE ProgressProofs -----------------------------
(* The types of Progress under every fault, and why a socket has one poll   *)
(* per channel in whatever order its subscriptions are handled, for any     *)
(* number of rows, intervals and sockets, as long as none is handled while  *)
(* a poll waits for its row.                                                *)
EXTENDS Progress, SequenceTheorems, TLAPS

Polls    == [row : Rows \cup {None}, conn : 0 .. MaxSockets, state : {"free", "asked", "set", "cleared"},
             seen : Found, reads : SUBSET Found, known : BOOLEAN, closes : BOOLEAN]
Messages == [channel : Channels, status : Statuses \cup {"complete"}, late : BOOLEAN]
Pages    == [row : Rows \cup {None}, status : Found, late : BOOLEAN]
Gets     == [first : BOOLEAN, read : BOOLEAN, found : Found, late : BOOLEAN]

(* A call has a row from its query on, and so has a page with a request.    *)
HasRow(p) == p \in Polls /\ (p.state # "free" \/ p.reads # {} => p.row \in Rows)

PollsTyped == polls \in [Slots -> Polls] /\ \A i \in Slots : HasRow(polls[i])

RowsTyped == row \in [Rows -> Found] /\ runs \in 0 .. MaxRuns

SocketTyped ==
  /\ token \in BOOLEAN /\ timer \in BOOLEAN
  /\ conn \in 0 .. MaxSockets /\ ws \in {None, "connecting", "open"}
  /\ pending \in Seq(Rows) /\ up \in Seq(Rows) /\ down \in Seq(Messages)
  /\ watched \in [Channels -> Rows \cup {None}]

PageTyped ==
  /\ page \in Pages /\ gets \in Seq(Gets) /\ (gets # <<>> => page.row \in Rows)
  /\ triggered \subseteq Repositories

Typed == PollsTyped /\ RowsTyped /\ SocketTyped /\ PageTyped

LEMMA TypedIsTyped == Typed => TypeOK
<1> SUFFICES ASSUME Typed PROVE TypeOK
  OBVIOUS
<1>1. /\ \A i \in DOMAIN pending : pending[i] \in Rows
      /\ \A i \in DOMAIN up : up[i] \in Rows
      /\ \A i \in DOMAIN down : down[i] \in Messages
  BY DEF Typed, SocketTyped
<1>2. \A i \in DOMAIN gets : gets[i] \in Gets
  BY DEF Typed, PageTyped
<1> QED
  BY <1>1, <1>2
     DEF Typed, PollsTyped, RowsTyped, SocketTyped, PageTyped, TypeOK, Polls, Messages, Pages, Gets

LEMMA OneChannel == \A s : Channel(s) \in Channels
BY DEF Channel, Channels

LEMMA FreePoll ==
  ASSUME MaxSockets \in Nat
  PROVE  /\ Free \in Polls /\ HasRow(Free) /\ Free.state = "free"
         /\ Free.known = FALSE /\ Free.reads = {}
BY DEF Free, HasRow, Polls, Found

LEMMA InitTyped == ASSUME MaxSockets \in Nat, MaxRuns \in Nat PROVE Init => Typed
<1> SUFFICES ASSUME Init PROVE Typed
  OBVIOUS
<1>1. PollsTyped
  BY FreePoll DEF Init, PollsTyped
<1>2. RowsTyped
  BY DEF Init, RowsTyped, Found
<1>3. SocketTyped
  <2>1. /\ pending = <<>> /\ up = <<>> /\ down = <<>> /\ ws = None /\ conn = 0 /\ timer = FALSE
        /\ token \in BOOLEAN /\ watched = [ch \in Channels |-> None]
    BY DEF Init
  <2>2. pending \in Seq(Rows) /\ up \in Seq(Rows) /\ down \in Seq(Messages)
    BY <2>1
  <2>3. conn \in 0 .. MaxSockets /\ watched \in [Channels -> Rows \cup {None}] /\ ws \in {None, "connecting", "open"}
    BY <2>1
  <2>4. token \in BOOLEAN /\ timer \in BOOLEAN
    BY <2>1, Zenon
  <2> QED
    BY <2>2, <2>3, <2>4, Zenon DEF SocketTyped
<1>4. PageTyped
  <2>1. page = NoPage /\ gets = <<>> /\ triggered = {}
    BY DEF Init
  <2>2. NoPage \in Pages
    BY DEF NoPage, Pages, Found
  <2>3. gets \in Seq(Gets)
    BY <2>1
  <2> QED
    BY <2>1, <2>2, <2>3 DEF PageTyped
<1> QED
  BY <1>1, <1>2, <1>3, <1>4 DEF Typed

-----------------------------------------------------------------------------
(* What the operators on calls make of one.                                 *)

LEMMA AskedPoll ==
  ASSUME MaxSockets \in Nat, NEW s \in Rows, NEW c \in 0 .. MaxSockets
  PROVE  LET q == [Free EXCEPT !.row = s, !.conn = c, !.state = "asked"] IN
         HasRow(q) /\ q.state = "asked" /\ q.known = FALSE /\ q.reads = {}
BY DEF Free, HasRow, Polls, Found

LEMMA SetPoll ==
  ASSUME NEW p \in Polls, HasRow(p), p.state = "asked"
  PROVE  LET q == [p EXCEPT !.state = "set", !.known = TRUE, !.closes = TRUE] IN
         /\ HasRow(q) /\ q.state = "set" /\ q.known = TRUE /\ q.reads = p.reads
         /\ q.row = p.row /\ q.conn = p.conn
BY DEF HasRow, Polls

LEMMA ReadPoll ==
  ASSUME NEW p \in Polls, HasRow(p), p.state = "set", NEW v \in Found
  PROVE  LET q == [p EXCEPT !.reads = @ \cup {v}] IN
         /\ HasRow(q) /\ q.row = p.row /\ q.conn = p.conn /\ q.state = p.state
         /\ q.known = p.known /\ q.reads = p.reads \cup {v}
BY DEF HasRow, Polls

LEMMA SettledPoll ==
  ASSUME MaxSockets \in Nat, NEW p \in Polls, HasRow(p)
  PROVE  HasRow(Settled(p)) /\ (Settled(p) = p \/ Settled(p) = Free)
BY FreePoll DEF Settled

LEMMA ClosedPoll ==
  ASSUME NEW p \in Polls, HasRow(p), p.state = "set"
  PROVE  LET q == [p EXCEPT !.state = "cleared"] IN
         /\ q \in Polls /\ HasRow(q) /\ q.row = p.row /\ q.conn = p.conn /\ q.state = "cleared"
         /\ q.known = p.known /\ q.reads = p.reads
BY DEF HasRow, Polls

(* The record Replaced settles.                                             *)
Stopped(p) ==
  [p EXCEPT !.state = IF p.known THEN "cleared" ELSE @, !.known = FALSE, !.closes = FALSE]

LEMMA StoppedPoll ==
  ASSUME NEW p \in Polls, HasRow(p), p.state \in {"set", "cleared"}
  PROVE  LET q == Stopped(p) IN
         /\ q \in Polls /\ HasRow(q) /\ q.row = p.row /\ q.conn = p.conn
         /\ q.state = (IF p.known THEN "cleared" ELSE p.state)
         /\ q.known = FALSE /\ q.reads = p.reads
BY DEF Stopped, HasRow, Polls

LEMMA ReplacedPoll == \A p : Replaced(p) = Settled(Stopped(p))
BY Zenon DEF Replaced, Stopped

LEMMA KeptPoll ==
  ASSUME NEW p \in Polls, HasRow(p), NEW v \in Found
  PROVE  /\ Kept(p, v) \in Polls /\ HasRow(Kept(p, v))
         /\ Kept(p, v).row = p.row /\ Kept(p, v).conn = p.conn /\ Kept(p, v).state = p.state
         /\ Kept(p, v).known = p.known /\ Kept(p, v).reads = p.reads \ {v}
BY DEF Kept, HasRow, Polls

(* The records a callback that finds the end, or no row, settles.           *)
Ended(p) == [Cleared(p, "terminal") EXCEPT !.known = FALSE]
Gone(p)  == [p EXCEPT !.reads = @ \ {None}, !.state = "cleared"]

LEMMA EndedPoll ==
  ASSUME NEW p \in Polls, HasRow(p), p.row \in Rows
  PROVE  LET q == Ended(p) IN
         /\ q \in Polls /\ HasRow(q) /\ q.row = p.row /\ q.conn = p.conn /\ q.state = "cleared"
         /\ q.known = FALSE /\ q.reads = p.reads \ {"terminal"}
<1> DEFINE k == Kept(p, "terminal")
<1>1. "terminal" \in Found
  BY DEF Found, Statuses
<1>2. k \in Polls /\ k.row = p.row /\ k.conn = p.conn /\ k.reads = p.reads \ {"terminal"}
  BY <1>1, KeptPoll
<1>3. Ended(p) = [[k EXCEPT !.state = "cleared"] EXCEPT !.known = FALSE]
  BY Zenon DEF Ended, Cleared
<1> HIDE DEF k
<1>4. \A x \in Polls : LET y == [[x EXCEPT !.state = "cleared"] EXCEPT !.known = FALSE] IN
        /\ y \in Polls /\ y.row = x.row /\ y.conn = x.conn /\ y.state = "cleared"
        /\ y.known = FALSE /\ y.reads = x.reads
  BY DEF Polls
<1> QED
  BY <1>2, <1>3, <1>4 DEF HasRow

LEMMA GonePoll ==
  ASSUME NEW p \in Polls, HasRow(p), p.row \in Rows
  PROVE  LET q == Gone(p) IN
         /\ q \in Polls /\ HasRow(q) /\ q.row = p.row /\ q.conn = p.conn /\ q.state = "cleared"
         /\ q.known = p.known /\ q.reads = p.reads \ {None}
BY DEF Gone, HasRow, Polls

LEMMA ForgottenPoll ==
  ASSUME NEW p \in Polls, HasRow(p)
  PROVE  LET q == [p EXCEPT !.known = FALSE] IN
         /\ HasRow(q) /\ q.row = p.row /\ q.conn = p.conn /\ q.state = p.state
         /\ q.known = FALSE /\ q.reads = p.reads
BY DEF HasRow, Polls

-----------------------------------------------------------------------------
(* One poll: a call whose interval is set, or that waits for its row, is    *)
(* the one its socket knows of on its channel.                              *)
Alone(p) ==
  /\ p.state = "set" => p.known
  /\ p.known => p.state \in {"set", "cleared"}
  /\ p.reads # {} => p.known
  /\ \A x, y \in p.reads : x = y

SameChannel(p, q) == p.conn = q.conn /\ Channel(p.row) = Channel(q.row)

PollInv ==
  /\ \A i \in Slots : Alone(polls[i])
  /\ \A i, j \in Slots : polls[i].known /\ polls[j].known /\ SameChannel(polls[i], polls[j]) => i = j

Still(p, q) == q.known => p.known /\ q.row = p.row /\ q.conn = p.conn

LEMMA NobodyNew ==
  ASSUME PollInv, \A k \in Slots : Alone(polls'[k]) /\ Still(polls[k], polls'[k])
  PROVE  PollInv'
<1>1. \A i \in Slots : Alone(polls'[i])
  OBVIOUS
<1>2. ASSUME NEW i \in Slots, NEW j \in Slots, polls'[i].known, polls'[j].known,
             SameChannel(polls'[i], polls'[j])
      PROVE  i = j
  <2>1. polls[i].known /\ polls[j].known /\ SameChannel(polls[i], polls[j])
    BY <1>2 DEF Still, SameChannel
  <2> QED
    BY <2>1 DEF PollInv
<1> QED
  BY <1>1, <1>2 DEF PollInv, Alone, SameChannel, Channel

(* One slot moves.                                                          *)
LEMMA OneSlot ==
  ASSUME PollsTyped, NEW i \in Slots, NEW q, HasRow(q), polls' = [polls EXCEPT ![i] = q]
  PROVE  PollsTyped' /\ polls'[i] = q /\ \A k \in Slots \ {i} : polls'[k] = polls[k]
BY DEF PollsTyped, HasRow

LEMMA OneSlotAlone ==
  ASSUME PollInv, PollsTyped, NEW i \in Slots, NEW q, HasRow(q), Alone(q), Still(polls[i], q),
         polls' = [polls EXCEPT ![i] = q]
  PROVE  PollInv'
<1>1. \A k \in Slots : polls'[k] = IF k = i THEN q ELSE polls[k]
  BY OneSlot
<1> QED
  BY <1>1, NobodyNew DEF PollInv, Still

(* A message arrives.                                                       *)
LEMMA AskPolls ==
  ASSUME MaxSockets \in Nat, Typed, Ask
  PROVE  PollsTyped' /\ (PollInv => PollInv')
<1>1. CASE UNCHANGED polls
  BY <1>1 DEF Typed, PollsTyped, PollInv
<1>2. ASSUME NEW i \in Slots,
             polls' = [polls EXCEPT ![i] = [Free EXCEPT !.row = Head(up), !.conn = conn, !.state = "asked"]]
      PROVE  PollsTyped' /\ (PollInv => PollInv')
  <2> DEFINE q == [Free EXCEPT !.row = Head(up), !.conn = conn, !.state = "asked"]
  <2>1. Head(up) \in Rows /\ conn \in 0 .. MaxSockets
    BY DEF Ask, Typed, SocketTyped
  <2>2. HasRow(q) /\ q.state = "asked" /\ q.known = FALSE /\ q.reads = {}
    BY <2>1, AskedPoll
  <2>3. polls' = [polls EXCEPT ![i] = q]
    BY <1>2, Zenon
  <2> HIDE DEF q
  <2>4. Alone(q) /\ Still(polls[i], q)
    BY <2>2 DEF Alone, Still
  <2> QED
    BY <2>2, <2>3, <2>4, OneSlot, OneSlotAlone DEF Typed
<1> QED
  BY <1>1, <1>2, Zenon DEF Ask

(* An interval is set, and those beside it are cleared.                     *)
LEMMA SubscribedPolls ==
  ASSUME MaxSockets \in Nat, Typed, NEW i \in Slots, Subscribed(i)
  PROVE  PollsTyped' /\ ("slowRead" \notin Faults /\ PollInv => PollInv')
<1> DEFINE q == [polls[i] EXCEPT !.state = "set", !.known = TRUE, !.closes = TRUE]
<1>1. polls \in [Slots -> Polls] /\ \A k \in Slots : polls[k] \in Polls /\ HasRow(polls[k])
  BY DEF Typed, PollsTyped
<1>2. polls[i].state = "asked"
  BY DEF Subscribed
<1>3. /\ HasRow(q) /\ q.state = "set" /\ q.known = TRUE /\ q.reads = polls[i].reads
      /\ q.row = polls[i].row /\ q.conn = polls[i].conn
  BY <1>1, <1>2, SetPoll
<1>4. polls' = [k \in Slots |-> IF k = i THEN q ELSE IF Beside(k, i) THEN Replaced(polls[k]) ELSE polls[k]]
  BY Zenon DEF Subscribed
<1> HIDE DEF q
<1>5. ASSUME NEW k \in Slots, Beside(k, i)
      PROVE  /\ HasRow(Replaced(polls[k])) /\ Replaced(polls[k]).known = FALSE
             /\ Replaced(polls[k]) = Free \/ (/\ Replaced(polls[k]).reads = polls[k].reads
                                              /\ Replaced(polls[k]).state = IF polls[k].known THEN "cleared" ELSE polls[k].state)
  <2> DEFINE s == Stopped(polls[k])
  <2>1. /\ s \in Polls /\ HasRow(s) /\ s.state = (IF polls[k].known THEN "cleared" ELSE polls[k].state)
        /\ s.known = FALSE /\ s.reads = polls[k].reads
    BY <1>1, <1>5, StoppedPoll DEF Beside
  <2>2. Replaced(polls[k]) = Settled(s)
    BY ReplacedPoll
  <2> HIDE DEF s
  <2>3. HasRow(Settled(s)) /\ (Settled(s) = s \/ Settled(s) = Free)
    BY <2>1, SettledPoll
  <2> QED
    BY <2>1, <2>2, <2>3, FreePoll
<1>6. PollsTyped'
  BY <1>1, <1>3, <1>4, <1>5 DEF PollsTyped, HasRow
<1>7. ASSUME "slowRead" \notin Faults, PollInv PROVE PollInv'
  <2>1. \A k \in Slots : polls[k].reads = {}
    BY <1>7 DEF Subscribed
  <2>2. polls'[i] = q /\ \A k \in Slots \ {i} : polls'[k] = IF Beside(k, i) THEN Replaced(polls[k]) ELSE polls[k]
    BY <1>4
  <2>3. Alone(polls'[i])
    BY <1>3, <2>1, <2>2 DEF Alone
  <2>4. ASSUME NEW k \in Slots \ {i}
        PROVE  Alone(polls'[k]) /\ Still(polls[k], polls'[k]) /\ (polls'[k].known => ~Beside(k, i))
    <3>1. CASE Beside(k, i)
      <4>1. polls'[k] = Replaced(polls[k])
        BY <2>2, <3>1
      <4> DEFINE r == Replaced(polls[k])
      <4>2. r.known = FALSE /\ (r = Free \/ (r.reads = {} /\ r.state = IF polls[k].known THEN "cleared" ELSE polls[k].state))
        BY <1>5, <2>1, <3>1
      <4>3. polls[k].state = "set" => polls[k].known
        BY <1>7 DEF PollInv, Alone
      <4> HIDE DEF r
      <4>4. r.reads = {} /\ r.state # "set"
        BY <4>2, <4>3, FreePoll
      <4>5. Alone(r) /\ Still(polls[k], r)
        BY <4>2, <4>4 DEF Alone, Still
      <4> QED
        BY <4>1, <4>2, <4>5 DEF r
    <3>2. CASE ~Beside(k, i)
      BY <1>7, <2>2, <3>2 DEF PollInv, Still
    <3> QED
      BY <3>1, <3>2
  <2>5. ASSUME NEW k \in Slots \ {i}, polls'[k].known PROVE ~SameChannel(polls'[k], q)
    <3>1. /\ ~Beside(k, i) /\ polls[k].known /\ polls'[k].row = polls[k].row
          /\ polls'[k].conn = polls[k].conn
      BY <2>4, <2>5 DEF Still
    <3>2. polls[k].state \in {"set", "cleared"}
      BY <1>7, <3>1 DEF PollInv, Alone
    <3> QED
      BY <1>3, <3>1, <3>2 DEF Beside, SameChannel
  <2>6. ASSUME NEW k \in Slots, NEW j \in Slots, polls'[k].known, polls'[j].known,
               SameChannel(polls'[k], polls'[j])
        PROVE  k = j
    <3>1. CASE k = i \/ j = i
      BY <2>2, <2>5, <2>6, <3>1 DEF SameChannel
    <3>2. CASE k # i /\ j # i
      <4>1. polls[k].known /\ polls[j].known /\ SameChannel(polls[k], polls[j])
        BY <2>4, <2>6, <3>2 DEF Still, SameChannel
      <4> QED
        BY <1>7, <4>1 DEF PollInv
    <3> QED
      BY <3>1, <3>2
  <2>7. \A k \in Slots : Alone(polls'[k])
    BY <2>3, <2>4
  <2> QED
    BY <2>6, <2>7 DEF PollInv, Alone, SameChannel, Channel
<1> QED
  BY <1>6, <1>7

(* An interval fires.                                                       *)
LEMMA PollPolls ==
  ASSUME MaxSockets \in Nat, Typed, NEW i \in Slots, Poll(i)
  PROVE  PollsTyped' /\ ("slowRead" \notin Faults /\ PollInv => PollInv')
<1> DEFINE v == row[polls[i].row]
           q == [polls[i] EXCEPT !.reads = @ \cup {v}]
<1>1. polls[i] \in Polls /\ HasRow(polls[i]) /\ polls[i].state = "set"
  BY DEF Poll, Typed, PollsTyped
<1>2. v \in Found
  BY <1>1 DEF HasRow, Typed, RowsTyped
<1>3. polls' = [polls EXCEPT ![i] = q]
  BY Zenon DEF Poll
<1> HIDE DEF v
<1>4. /\ HasRow(q) /\ q.row = polls[i].row /\ q.conn = polls[i].conn /\ q.state = polls[i].state
      /\ q.known = polls[i].known /\ q.reads = polls[i].reads \cup {v}
  BY <1>1, <1>2, ReadPoll
<1> HIDE DEF q
<1>5. ASSUME "slowRead" \notin Faults, PollInv PROVE PollInv'
  <2>1. polls[i].reads = {}
    BY <1>5 DEF Poll
  <2>2. Alone(q) /\ Still(polls[i], q)
    BY <1>1, <1>4, <1>5, <2>1 DEF Alone, Still, PollInv
  <2> QED
    BY <1>3, <1>4, <1>5, <2>2, OneSlotAlone DEF Typed
<1> QED
  BY <1>3, <1>4, <1>5, OneSlot DEF Typed

(* A callback goes on, finds the end, or no row.                            *)
LEMMA AnswerPolls ==
  ASSUME MaxSockets \in Nat, Typed, NEW i \in Slots, Answer(i)
  PROVE  PollsTyped' /\ (PollInv => PollInv')
<1> DEFINE p == polls[i]
<1>1. polls \in [Slots -> Polls] /\ p \in Polls /\ HasRow(p) /\ \A k \in Slots : polls[k] \in Polls /\ HasRow(polls[k])
  BY DEF Typed, PollsTyped
<1>2. CASE "busy" \in p.reads /\ polls' = [polls EXCEPT ![i] = Settled(Kept(p, "busy"))]
  <2> DEFINE k == Kept(p, "busy")
             q == Settled(k)
  <2>1. /\ k \in Polls /\ HasRow(k) /\ k.row = p.row /\ k.conn = p.conn /\ k.state = p.state
        /\ k.known = p.known /\ k.reads = p.reads \ {"busy"}
    BY <1>1, KeptPoll DEF Found, Statuses
  <2> HIDE DEF k
  <2>2. HasRow(q) /\ (q = k \/ q = Free)
    BY <2>1, SettledPoll
  <2>3. polls' = [polls EXCEPT ![i] = q]
    BY <1>2, Zenon DEF k
  <2> HIDE DEF q
  <2>4. ASSUME PollInv PROVE PollInv'
    <3>1. Alone(p)
      BY <2>4 DEF PollInv
    <3>2. Alone(q) /\ Still(p, q)
      BY <1>2, <2>1, <2>2, <3>1, FreePoll DEF Alone, Still
    <3> QED
      BY <2>2, <2>3, <2>4, <3>2, OneSlotAlone DEF Typed
  <2> QED
    BY <2>2, <2>3, <2>4, OneSlot DEF Typed
<1>3. CASE /\ None \in p.reads
           /\ polls' = [polls EXCEPT ![i] = Settled([p EXCEPT !.reads = @ \ {None}, !.state = "cleared"])]
  <2> DEFINE g == Gone(p)
             q == Settled(g)
  <2>1. p.row \in Rows
    BY <1>1, <1>3 DEF HasRow
  <2>2. /\ g \in Polls /\ HasRow(g) /\ g.row = p.row /\ g.conn = p.conn /\ g.state = "cleared"
        /\ g.known = p.known /\ g.reads = p.reads \ {None}
    BY <1>1, <2>1, GonePoll
  <2>3. polls' = [polls EXCEPT ![i] = q]
    BY <1>3, Zenon DEF Gone
  <2> HIDE DEF g
  <2>4. HasRow(q) /\ (q = g \/ q = Free)
    BY <2>2, SettledPoll
  <2> HIDE DEF q
  <2>5. ASSUME PollInv PROVE PollInv'
    <3>1. Alone(p)
      BY <2>5 DEF PollInv
    <3>2. Alone(q) /\ Still(p, q)
      BY <1>3, <2>2, <2>4, <3>1, FreePoll DEF Alone, Still
    <3> QED
      BY <2>3, <2>4, <2>5, <3>2, OneSlotAlone DEF Typed
  <2> QED
    BY <2>3, <2>4, <2>5, OneSlot DEF Typed
<1>4. CASE /\ "terminal" \in p.reads
           /\ polls' = [k \in Slots |->
                IF k = i THEN Settled([Cleared(p, "terminal") EXCEPT !.known = FALSE])
                ELSE IF Beside(k, i) THEN [polls[k] EXCEPT !.known = FALSE] ELSE polls[k]]
  <2> DEFINE e == Ended(p)
             q == Settled(e)
             f(k) == [polls[k] EXCEPT !.known = FALSE]
  <2>1. p.row \in Rows
    BY <1>1, <1>4 DEF HasRow
  <2>2. /\ e \in Polls /\ HasRow(e) /\ e.row = p.row /\ e.conn = p.conn /\ e.state = "cleared"
        /\ e.known = FALSE /\ e.reads = p.reads \ {"terminal"}
    BY <1>1, <2>1, EndedPoll
  <2>3. polls' = [k \in Slots |-> IF k = i THEN q ELSE IF Beside(k, i) THEN f(k) ELSE polls[k]]
    BY <1>4, Zenon DEF Ended
  <2> HIDE DEF e
  <2>4. HasRow(q) /\ (q = e \/ q = Free)
    BY <2>2, SettledPoll
  <2> HIDE DEF q
  <2>5. ASSUME NEW k \in Slots
        PROVE  /\ HasRow(f(k)) /\ f(k).row = polls[k].row /\ f(k).conn = polls[k].conn
               /\ f(k).state = polls[k].state /\ f(k).known = FALSE /\ f(k).reads = polls[k].reads
    BY <1>1, ForgottenPoll
  <2> HIDE DEF f
  <2>6. PollsTyped'
    BY <1>1, <2>3, <2>4, <2>5 DEF PollsTyped, HasRow
  <2>7. ASSUME PollInv PROVE PollInv'
    <3>1. Alone(p) /\ p.known
      BY <1>4, <2>7 DEF PollInv, Alone
    <3>2. Alone(q) /\ Still(p, q)
      BY <1>4, <2>2, <2>4, <3>1, FreePoll DEF Alone, Still
    <3>3. ASSUME NEW k \in Slots \ {i}
          PROVE  Alone(polls'[k]) /\ Still(polls[k], polls'[k])
      <4>1. CASE Beside(k, i)
        <5>1. polls'[k] = f(k)
          BY <2>3, <4>1
        <5>2. ~polls[k].known
          BY <2>7, <3>1, <4>1 DEF PollInv, Beside, SameChannel
        <5>3. Alone(polls[k])
          BY <2>7 DEF PollInv
        <5> QED
          BY <2>5, <5>1, <5>2, <5>3 DEF Alone, Still
      <4>2. CASE ~Beside(k, i)
        BY <2>3, <2>7, <4>2 DEF PollInv, Still
      <4> QED
        BY <4>1, <4>2
    <3>4. polls'[i] = q
      BY <2>3
    <3> QED
      BY <2>7, <3>2, <3>3, <3>4, NobodyNew
  <2> QED
    BY <2>6, <2>7
<1> QED
  BY <1>2, <1>3, <1>4, Zenon DEF Answer

(* The close listeners of a socket.                                         *)
LEMMA ClosedPolls ==
  ASSUME MaxSockets \in Nat, Typed, OnClose
  PROVE  PollsTyped' /\ (PollInv => PollInv')
<1> DEFINE c(k) == [polls[k] EXCEPT !.state = "cleared"]
           q(k) == Settled(c(k))
           Closes(k) == polls[k].conn = conn /\ polls[k].state = "set" /\ polls[k].closes
<1>1. polls \in [Slots -> Polls] /\ \A k \in Slots : polls[k] \in Polls /\ HasRow(polls[k])
  BY DEF Typed, PollsTyped
<1>2. polls' = [k \in Slots |-> IF Closes(k) THEN q(k) ELSE polls[k]]
  BY Zenon DEF OnClose
<1>3. ASSUME NEW k \in Slots, Closes(k)
      PROVE  /\ HasRow(q(k))
             /\ PollInv => Alone(q(k)) /\ Still(polls[k], q(k))
  <2>1. /\ c(k) \in Polls /\ HasRow(c(k)) /\ c(k).row = polls[k].row /\ c(k).conn = polls[k].conn
        /\ c(k).state = "cleared" /\ c(k).known = polls[k].known /\ c(k).reads = polls[k].reads
    BY <1>1, <1>3, ClosedPoll
  <2> HIDE DEF c
  <2>2. HasRow(q(k)) /\ (q(k) = c(k) \/ q(k) = Free)
    BY <2>1, SettledPoll
  <2> HIDE DEF q
  <2>3. PollInv => Alone(polls[k])
    BY DEF PollInv
  <2>4. PollInv => Alone(q(k)) /\ Still(polls[k], q(k))
    BY <2>1, <2>2, <2>3, FreePoll DEF Alone, Still
  <2> QED
    BY <2>2, <2>4
<1> HIDE DEF q, Closes
<1>4. PollsTyped'
  BY <1>1, <1>2, <1>3 DEF PollsTyped, HasRow
<1>5. ASSUME PollInv PROVE PollInv'
  <2>1. ASSUME NEW k \in Slots PROVE Alone(polls'[k]) /\ Still(polls[k], polls'[k])
    BY <1>2, <1>3, <1>5 DEF PollInv, Still
  <2> QED
    BY <1>5, <2>1, NobodyNew
<1> QED
  BY <1>4, <1>5

-----------------------------------------------------------------------------
(* The rest of what a step of the backend changes.                          *)
LEMMA ServerTyped ==
  ASSUME MaxSockets \in Nat, Typed,
         Ask \/ \E i \in Slots : Subscribed(i) \/ Poll(i) \/ Answer(i)
  PROVE  Typed'
<1>1. PollsTyped'
  BY AskPolls, SubscribedPolls, PollPolls, AnswerPolls
<1>2. UNCHANGED <<row, runs, token, conn, ws, timer, pending, page, gets, triggered>>
  <2>1. CASE Ask
    BY <2>1 DEF Ask, socket, tab
  <2>2. ASSUME NEW i \in Slots, Subscribed(i)
        PROVE  UNCHANGED <<row, runs, token, conn, ws, timer, pending, page, gets, triggered>>
    BY <2>2 DEF Subscribed, socket, tab
  <2>3. ASSUME NEW i \in Slots, Poll(i)
        PROVE  UNCHANGED <<row, runs, token, conn, ws, timer, pending, page, gets, triggered>>
    BY <2>3 DEF Poll, socket, tab
  <2>4. ASSUME NEW i \in Slots, Answer(i)
        PROVE  UNCHANGED <<row, runs, token, conn, ws, timer, pending, page, gets, triggered>>
    BY <2>4 DEF Answer, socket, tab
  <2> QED
    BY <2>1, <2>2, <2>3, <2>4
<1>3. up' \in Seq(Rows)
  <2>1. up \in Seq(Rows)
    BY DEF Typed, SocketTyped
  <2>2. CASE Ask
    BY <2>1, <2>2 DEF Ask
  <2>3. CASE \E i \in Slots : Subscribed(i) \/ Poll(i) \/ Answer(i)
    <3>1. up' = up
      BY <2>3 DEF Subscribed, Poll, Answer
    <3> QED
      BY <2>1, <3>1
  <2> QED
    BY <2>2, <2>3
<1>4. watched' \in [Channels -> Rows \cup {None}]
  <2>1. watched \in [Channels -> Rows \cup {None}]
    BY DEF Typed, SocketTyped
  <2>2. CASE UNCHANGED watched
    BY <2>1, <2>2
  <2>3. ASSUME NEW i \in Slots, Subscribed(i) PROVE watched' \in [Channels -> Rows \cup {None}]
    <3>1. polls[i].row \in Rows
      BY <2>3 DEF Subscribed, Typed, PollsTyped, HasRow
    <3> QED
      BY <2>1, <2>3, <3>1, OneChannel DEF Subscribed
  <2> QED
    BY <2>2, <2>3 DEF Ask, Poll, Answer
<1>5. down' \in Seq(Messages)
  <2>1. down \in Seq(Messages)
    BY DEF Typed, SocketTyped
  <2>2. CASE UNCHANGED down
    BY <2>1, <2>2
  <2>3. ASSUME NEW i \in Slots, Answer(i) PROVE down' \in Seq(Messages)
    <3> DEFINE p == polls[i]
    <3>1. p \in Polls
      BY DEF Typed, PollsTyped
    <3>2. ASSUME NEW v \in Statuses \cup {"complete"} PROVE Said(p, v) \in Messages
      BY <3>1, OneChannel DEF Said, Messages, Polls
    <3>3. ASSUME NEW v \in Statuses
          PROVE  /\ News(p, v) \in Seq(Messages)
                 /\ Append(News(p, v), Said(p, "complete")) \in Seq(Messages)
      <4>1. News(p, v) \in Seq(Messages)
        BY <3>2 DEF News
      <4> QED
        BY <3>2, <4>1
    <3>4. \A m \in Seq(Messages) : Heard(p, m) \in Seq(Messages)
      BY <2>1 DEF Heard
    <3>5. /\ Heard(p, News(p, "busy")) \in Seq(Messages)
          /\ Heard(p, Append(News(p, "terminal"), Said(p, "complete"))) \in Seq(Messages)
      BY <3>3, <3>4 DEF Statuses
    <3>6. \/ down' = Heard(p, News(p, "busy"))
          \/ down' = Heard(p, Append(News(p, "terminal"), Said(p, "complete")))
          \/ down' = down
      BY <2>3, Zenon DEF Answer
    <3> QED
      BY <2>1, <3>5, <3>6, Zenon
  <2> QED
    BY <2>2, <2>3 DEF Ask, Subscribed, Poll
<1>6. RowsTyped' /\ PageTyped'
  BY <1>2 DEF Typed, RowsTyped, PageTyped
<1>7. SocketTyped'
  <2>1. UNCHANGED <<token, timer, conn, ws, pending>>
    BY <1>2
  <2> QED
    BY <1>3, <1>4, <1>5, <2>1, Zenon DEF Typed, SocketTyped
<1> QED
  BY <1>1, <1>6, <1>7 DEF Typed

(* The work on a row.                                                       *)
LEMMA RowsChange ==
  ASSUME Typed, MaxRuns \in Nat, NEW s \in Rows, RowStep(s)
  PROVE  Typed'
<1>1. row' \in [Rows -> Found]
  <2>1. \E v \in Found : row' = [row EXCEPT ![s] = v]
    BY DEF RowStep, WorkStarts, WorkEnds, StartWork, Delete, Found, Statuses
  <2> QED
    BY <2>1 DEF Typed, RowsTyped
<1>2. runs' \in 0 .. MaxRuns
  BY DEF RowStep, WorkStarts, WorkEnds, StartWork, Delete, Typed, RowsTyped
<1>3. UNCHANGED <<token, conn, ws, timer, pending, up, down, polls, page, gets, triggered>>
  BY DEF RowStep, WorkStarts, WorkEnds, Delete, socket, tab
<1>4. watched' \in [Channels -> Rows \cup {None}]
  <2>1. watched \in [Channels -> Rows \cup {None}]
    BY DEF Typed, SocketTyped
  <2>2. \/ watched' = watched
        \/ watched' = [ch \in Channels |-> IF watched[ch] = s THEN None ELSE watched[ch]]
    BY DEF RowStep, WorkStarts, WorkEnds, Delete
  <2> QED
    BY <2>1, <2>2
<1>5. PollsTyped' /\ RowsTyped' /\ PageTyped'
  BY <1>1, <1>2, <1>3 DEF Typed, PollsTyped, RowsTyped, PageTyped
<1>6. SocketTyped'
  BY <1>3, <1>4, Zenon DEF Typed, SocketTyped
<1> QED
  BY <1>5, <1>6 DEF Typed

(* The client of the socket.                                                *)
LEMMA ConnectTyped ==
  ASSUME MaxSockets \in Nat, conn \in 0 .. MaxSockets, ws \in {None, "connecting", "open"}, Connect
  PROVE  conn' \in 0 .. MaxSockets /\ ws' \in {None, "connecting", "open"}
BY DEF Connect, CanConnect

LEMMA SendTyped ==
  ASSUME pending \in Seq(Rows), up \in Seq(Rows), NEW s \in Rows, NEW state, Send(s, state)
  PROVE  pending' \in Seq(Rows) /\ up' \in Seq(Rows)
BY DEF Send

LEMMA SocketChanges ==
  ASSUME MaxSockets \in Nat, Typed, TokenArrives \/ OnOpen \/ OnClose \/ Reconnect
  PROVE  Typed'
<1>1. PollsTyped'
  BY ClosedPolls DEF TokenArrives, OnOpen, Reconnect, Typed, PollsTyped
<1>2. UNCHANGED <<row, runs, page, gets, triggered>>
  BY DEF TokenArrives, OnOpen, OnClose, Reconnect, tab
<1>3. token \in BOOLEAN /\ timer \in BOOLEAN
  BY Zenon DEF Typed, SocketTyped
<1>4. token' \in BOOLEAN /\ timer' \in BOOLEAN
  BY <1>3, Zenon DEF TokenArrives, OnOpen, OnClose, Reconnect, socket
<1>5. /\ conn \in 0 .. MaxSockets /\ ws \in {None, "connecting", "open"}
      /\ pending \in Seq(Rows) /\ up \in Seq(Rows) /\ down \in Seq(Messages)
      /\ watched \in [Channels -> Rows \cup {None}]
  BY DEF Typed, SocketTyped
<1>6. conn' \in 0 .. MaxSockets /\ ws' \in {None, "connecting", "open"}
  BY <1>5, ConnectTyped DEF TokenArrives, OnOpen, OnClose, Reconnect, socket
<1>7. pending' \in Seq(Rows) /\ up' \in Seq(Rows) /\ down' \in Seq(Messages)
  <2>1. CASE OnOpen
    BY <1>5, <2>1 DEF OnOpen
  <2>2. CASE OnClose
    BY <1>5, <2>2 DEF OnClose
  <2>3. CASE TokenArrives \/ Reconnect
    BY <1>5, <2>3 DEF TokenArrives, Reconnect, socket
  <2> QED
    BY <2>1, <2>2, <2>3
<1>8. watched' \in [Channels -> Rows \cup {None}]
  BY <1>5 DEF TokenArrives, OnOpen, OnClose, Reconnect
<1>9. RowsTyped' /\ PageTyped'
  BY <1>2 DEF Typed, RowsTyped, PageTyped
<1>10. SocketTyped'
  BY <1>4, <1>6, <1>7, <1>8, Zenon DEF SocketTyped
<1> QED
  BY <1>1, <1>9, <1>10 DEF Typed

(* The requests of a page are a sequence of requests.                       *)
LEMMA GetTyped == Get(TRUE) \in Gets /\ Get(FALSE) \in Gets
BY DEF Get, Gets, Found

LEMMA AnotherGet ==
  ASSUME gets \in Seq(Gets)
  PROVE  Append(gets, Get(FALSE)) \in Seq(Gets)
<1> DEFINE g == Get(FALSE)
<1>1. g \in Gets
  BY GetTyped
<1> HIDE DEF g
<1>2. Append(gets, g) \in Seq(Gets)
  BY <1>1
<1> QED
  BY <1>2 DEF g

LEMMA GetReadTyped ==
  ASSUME Typed, NEW i \in DOMAIN gets, GetRead(i)
  PROVE  PageTyped'
<1>1. gets \in Seq(Gets) /\ i \in 1 .. Len(gets) /\ gets[i] \in Gets /\ page.row \in Rows
  BY DEF Typed, PageTyped
<1> DEFINE v == row[page.row]
           g == [gets[i] EXCEPT !.read = TRUE, !.found = v]
<1>2. v \in Found
  BY <1>1 DEF Typed, RowsTyped
<1>3. \A x \in Gets, w \in Found : [x EXCEPT !.read = TRUE, !.found = w] \in Gets
  BY DEF Gets
<1>4. gets' = [gets EXCEPT ![i] = g]
  BY <1>1 DEF GetRead
<1> HIDE DEF v
<1>5. g \in Gets
  BY <1>1, <1>2, <1>3
<1> HIDE DEF g
<1>6. gets' \in Seq(Gets)
  BY <1>1, <1>4, <1>5, ExceptSeq
<1> QED
  BY <1>1, <1>6 DEF GetRead, Typed, PageTyped

LEMMA GetArrivesTyped ==
  ASSUME Typed, NEW i \in DOMAIN gets, GetArrives(i)
  PROVE  PageTyped'
<1>1. /\ gets \in Seq(Gets) /\ i \in 1 .. Len(gets) /\ gets[i] \in Gets /\ page.row \in Rows
      /\ page \in Pages /\ DOMAIN gets = 1 .. Len(gets) /\ Len(gets) \in Nat
  BY DEF Typed, PageTyped
<1> DEFINE over == [k \in DOMAIN gets |-> IF k < i THEN [gets[k] EXCEPT !.late = TRUE] ELSE gets[k]]
<1>2. over \in Seq(Gets) /\ Len(over) = Len(gets)
  <2>1. \A x \in Gets : [x EXCEPT !.late = TRUE] \in Gets
    BY DEF Gets
  <2>2. \A k \in 1 .. Len(gets) : gets[k] \in Gets
    BY <1>1, ElementOfSeq
  <2>3. over \in [1 .. Len(gets) -> Gets]
    BY <1>1, <2>1, <2>2
  <2> HIDE DEF over
  <2> QED
    BY <1>1, <2>3, SeqDef
<1> HIDE DEF over
<1>3. RemoveAt(over, i) \in Seq(Gets)
  BY <1>1, <1>2 DEF RemoveAt
<1>4. NoPage \in Pages
  BY DEF NoPage, Pages, Found
<1>5. \A x \in Pages, v \in Found, b \in BOOLEAN :
        LET y == [x EXCEPT !.status = v, !.late = b] IN y \in Pages /\ y.row = x.row
  BY DEF Pages
<1>6. gets[i].found \in Found /\ gets[i].late \in BOOLEAN
  BY <1>1 DEF Gets
<1>7. CASE page' = NoPage /\ gets' = <<>>
  BY <1>4, <1>7 DEF GetArrives, Typed, PageTyped
<1>8. CASE /\ gets' = RemoveAt(over, i)
           /\ page' = page \/ page' = [page EXCEPT !.status = gets[i].found, !.late = gets[i].late]
  <2>1. page' \in Pages /\ page'.row = page.row
    <3>1. CASE page' = page
      BY <1>1, <3>1
    <3>2. CASE page' = [page EXCEPT !.status = gets[i].found, !.late = gets[i].late]
      BY <1>1, <1>5, <1>6, <3>2, Zenon
    <3> QED
      BY <1>8, <3>1, <3>2, Zenon
  <2> QED
    BY <1>1, <1>3, <1>8, <2>1 DEF GetArrives, Typed, PageTyped
<1> QED
  BY <1>7, <1>8, Zenon DEF GetArrives, over

LEMMA GetsChange == ASSUME Typed, GetStep PROVE Typed'
<1>1. PageTyped'
  BY GetReadTyped, GetArrivesTyped DEF GetStep
<1>2. UNCHANGED <<row, runs, token, conn, ws, timer, pending, up, down, polls, watched>>
  BY DEF GetStep, GetRead, GetArrives, socket
<1>3. SocketTyped'
  BY <1>2, Zenon DEF Typed, SocketTyped
<1> QED
  BY <1>1, <1>2, <1>3 DEF Typed, PollsTyped, RowsTyped

(* What the user does, and what the page hears.                             *)
LEMMA PageHears == ASSUME Typed, Receive PROVE Typed'
<1> DEFINE message == Head(down)
<1>1. message \in Messages /\ down' \in Seq(Messages)
  BY DEF Receive, Typed, SocketTyped
<1>2. page \in Pages /\ gets \in Seq(Gets) /\ (gets # <<>> => page.row \in Rows) /\ triggered \subseteq Repositories
  BY DEF Typed, PageTyped
<1>3. message.status \in Statuses \cup {"complete"} /\ message.late \in BOOLEAN
  BY <1>1 DEF Messages
<1>4. \/ /\ message.status # "complete" /\ page' = [page EXCEPT !.status = message.status, !.late = message.late]
         /\ gets' = gets
      \/ page.row # None /\ page' = page /\ gets' = Append(gets, Get(FALSE))
      \/ page' = page /\ gets' = gets
  BY DEF Receive
<1> HIDE DEF message
<1>5. page' \in Pages /\ page'.row = page.row
  <2>1. \A x \in Pages, v \in Found, b \in BOOLEAN :
          LET y == [x EXCEPT !.status = v, !.late = b] IN y \in Pages /\ y.row = x.row
    BY DEF Pages
  <2>2. CASE page' = page
    BY <1>2, <2>2
  <2>3. CASE message.status # "complete" /\ page' = [page EXCEPT !.status = message.status, !.late = message.late]
    <3>1. message.status \in Found
      BY <1>3, <2>3 DEF Found
    <3> QED
      BY <1>2, <1>3, <2>1, <2>3, <3>1, Zenon
  <2> QED
    BY <1>4, <2>2, <2>3, Zenon
<1>6. gets' \in Seq(Gets) /\ (gets' # <<>> => page.row \in Rows)
  <2>1. page.row \in Rows \cup {None}
    BY <1>2 DEF Pages
  <2> QED
    BY <1>2, <1>4, <2>1, AnotherGet
<1>7. UNCHANGED <<row, runs, token, conn, ws, timer, pending, up, polls, triggered, watched>>
  BY DEF Receive, socket
<1>8. SocketTyped'
  BY <1>1, <1>7, Zenon DEF Typed, SocketTyped
<1> QED
  BY <1>2, <1>5, <1>6, <1>7, <1>8 DEF Typed, PollsTyped, RowsTyped, PageTyped

LEMMA UserTyped ==
  ASSUME MaxSockets \in Nat, MaxRuns \in Nat, Typed,
         NEW s \in Rows, Open(s) \/ TriggerIndex(s) \/ (s \in Repositories /\ TriggerAnswered(s))
  PROVE  Typed'
<1>1. RowsTyped' /\ PollsTyped'
  <2>1. row' = row \/ row' = [row EXCEPT ![s] = "busy"]
    BY DEF Open, TriggerIndex, TriggerAnswered, StartWork
  <2>2. runs' = runs \/ (runs < MaxRuns /\ runs' = runs + 1)
    BY DEF Open, TriggerIndex, TriggerAnswered, StartWork
  <2>3. polls' = polls
    BY DEF Open, TriggerIndex, TriggerAnswered
  <2>4. "busy" \in Found
    BY DEF Found, Statuses
  <2> QED
    BY <2>1, <2>2, <2>3, <2>4 DEF Typed, RowsTyped, PollsTyped
<1>2. /\ conn \in 0 .. MaxSockets /\ ws \in {None, "connecting", "open"}
      /\ pending \in Seq(Rows) /\ up \in Seq(Rows) /\ down \in Seq(Messages)
      /\ watched \in [Channels -> Rows \cup {None}]
  BY DEF Typed, SocketTyped
<1>3. conn' \in 0 .. MaxSockets /\ ws' \in {None, "connecting", "open"}
  BY <1>2, ConnectTyped DEF Open, TriggerIndex, TriggerAnswered, socket
<1>4. pending' \in Seq(Rows) /\ up' \in Seq(Rows)
  BY <1>2, SendTyped DEF Open, TriggerIndex, TriggerAnswered, socket
<1>5. UNCHANGED <<token, timer, down, watched>>
  BY DEF Open, TriggerIndex, TriggerAnswered, socket
<1>6. SocketTyped'
  BY <1>2, <1>3, <1>4, <1>5, Zenon DEF Typed, SocketTyped
<1>7. PageTyped'
  <2>1. page \in Pages /\ gets \in Seq(Gets) /\ (gets # <<>> => page.row \in Rows) /\ triggered \subseteq Repositories
    BY DEF Typed, PageTyped
  <2>2. CASE Open(s)
    <3> DEFINE new == [NoPage EXCEPT !.row = s]
    <3>1. new \in Pages /\ new.row = s
      BY DEF NoPage, Pages, Found
    <3>2. page' = new /\ gets' = <<Get(TRUE)>> /\ triggered' = triggered
      BY <2>2, Zenon DEF Open
    <3>3. gets' \in Seq(Gets)
      <4> DEFINE g == Get(TRUE)
      <4>1. g \in Gets /\ gets' = <<g>>
        BY <3>2, GetTyped
      <4> HIDE DEF g
      <4> QED
        BY <4>1
    <3> HIDE DEF new
    <3> QED
      BY <2>1, <3>1, <3>2, <3>3 DEF PageTyped
  <2>3. CASE TriggerIndex(s)
    <3>1. triggered' \subseteq Repositories /\ page' = page /\ gets' = gets
      BY <2>1, <2>3 DEF TriggerIndex
    <3> QED
      BY <2>1, <3>1 DEF PageTyped
  <2>4. CASE TriggerAnswered(s)
    <3>1. /\ triggered' \subseteq Repositories /\ page' = page
          /\ gets' = gets \/ (page.row = s /\ gets' = Append(gets, Get(FALSE)))
      BY <2>1, <2>4 DEF TriggerAnswered
    <3> QED
      BY <2>1, <3>1, AnotherGet DEF PageTyped
  <2> QED
    BY <2>2, <2>3, <2>4
<1> QED
  BY <1>1, <1>6, <1>7 DEF Typed

LEMMA LeaveTyped == ASSUME Typed, Leave PROVE Typed'
<1>1. NoPage \in Pages
  BY DEF NoPage, Pages, Found
<1>2. /\ page' = NoPage /\ gets' = <<>>
      /\ UNCHANGED <<row, runs, token, conn, ws, timer, pending, up, down, polls, triggered, watched>>
  BY DEF Leave, socket
<1>3. SocketTyped'
  BY <1>2, Zenon DEF Typed, SocketTyped
<1>4. PageTyped'
  <2>1. gets' \in Seq(Gets)
    BY <1>2
  <2> QED
    BY <1>1, <1>2, <2>1 DEF Typed, PageTyped
<1> QED
  BY <1>2, <1>3, <1>4 DEF Typed, PollsTyped, RowsTyped

LEMMA NextTyped ==
  ASSUME MaxSockets \in Nat, MaxRuns \in Nat, Typed, [Next]_vars
  PROVE  Typed'
<1>1. CASE UNCHANGED vars
  <2>1. UNCHANGED <<row, runs, token, conn, ws, timer, pending, up, down, polls, page, gets, triggered, watched>>
    BY <1>1 DEF vars
  <2>2. SocketTyped'
    BY <2>1, Zenon DEF Typed, SocketTyped
  <2> QED
    BY <2>1, <2>2 DEF Typed, PollsTyped, RowsTyped, PageTyped
<1>2. \A s \in Repositories : s \in Rows
  BY DEF Rows
<1> QED
  BY <1>1, <1>2, ServerTyped, RowsChange, SocketChanges, GetsChange, PageHears, UserTyped, LeaveTyped
     DEF Next, ServerStep, ClientStep, UserStep

(* Every variable of Progress keeps its type under every fault, a callback  *)
(* whose interval was replaced included.                                    *)
THEOREM ProgressTyped ==
  ASSUME MaxSockets \in Nat, MaxRuns \in Nat PROVE Spec => []TypeOK
BY InitTyped, NextTyped, TypedIsTyped, PTL DEF Spec

-----------------------------------------------------------------------------
LEMMA InitPolls == ASSUME MaxSockets \in Nat PROVE Init => PollInv
<1> SUFFICES ASSUME Init PROVE PollInv
  OBVIOUS
<1>1. \A i \in Slots : polls[i] = Free
  BY DEF Init
<1> QED
  BY <1>1, FreePoll DEF PollInv, Alone

LEMMA NextPolls ==
  ASSUME "slowRead" \notin Faults, MaxSockets \in Nat, Typed, PollInv, [Next]_vars
  PROVE  PollInv'
<1>1. CASE UNCHANGED polls
  BY <1>1 DEF PollInv, Alone, SameChannel, Channel
<1>2. CASE ServerStep
  BY <1>2, AskPolls, SubscribedPolls, PollPolls, AnswerPolls DEF ServerStep
<1>3. CASE OnClose
  BY <1>3, ClosedPolls
<1>4. CASE ClientStep \/ UserStep \/ (\E s \in Rows : RowStep(s)) \/ UNCHANGED vars
  <2>1. UNCHANGED polls
    BY <1>4 DEF ClientStep, TokenArrives, OnOpen, Reconnect, GetStep, GetRead, GetArrives, Receive,
                TriggerAnswered, UserStep, Leave, Open, TriggerIndex, RowStep, WorkStarts, WorkEnds, Delete, vars
  <2> QED
    BY <1>1, <2>1
<1> QED
  BY <1>2, <1>3, <1>4 DEF Next

LEMMA AloneIsOne == PollInv => OnePollPerSocket
BY DEF PollInv, Alone, SameChannel, OnePollPerSocket

(* However often the client subscribes, in whatever order its subscriptions *)
(* are handled, also after their socket closed: a channel of a socket has   *)
(* one interval that polls.                                                 *)
THEOREM OnePoll ==
  ASSUME "slowRead" \notin Faults, MaxSockets \in Nat, MaxRuns \in Nat
  PROVE  Spec => []OnePollPerSocket
BY InitTyped, NextTyped, InitPolls, NextPolls, AloneIsOne, PTL DEF Spec
=============================================================================
