----------------------------- MODULE LibraryProofs -----------------------------
(* Why the pages show what there is, whatever the instance: the citation   *)
(* panel and the diff of a finding, whose answers come in any order; the   *)
(* list of pull requests and the usage, until an answer overtakes another; *)
(* and the graph. Then why an answer holds to its evidence and a review    *)
(* says where a finding is: the fusion is the order of a sum, what is      *)
(* refused had nothing to load, what is cited was shown, and the lines of  *)
(* a diff are counted from the last header.                                *)
EXTENDS Library, FiniteSetTheorems, NaturalsInduction, WellFoundedInduction, TLAPS

(* The operators of the standard modules, as the instances name them.      *)
LEMMA SizeIsSize ==
  \A S : /\ L!Cardinality(S) = Cardinality(S)
         /\ V!Cardinality(S) = Cardinality(S)
BY DEF L!Cardinality, V!Cardinality, Cardinality

-----------------------------------------------------------------------------
(* The citation panel.                                                     *)
Asking == [chunk : CitedChunks \cup {C!None}, state : {"unused", "asked", "found", "failed", "done"}]

(* What is open was clicked last; what waits, failed or is neither shown   *)
(* nor asked for is about that one.                                        *)
LastClicked ==
  /\ gets \in [1 .. MaxClicks -> Asking]
  /\ active # C!None => active = current
  /\ opening => C!Waiting(current)
  /\ unopened # C!None => unopened = current
  /\ current # C!None /\ ~opening /\ unopened = C!None => current \in contents \/ C!Waiting(current)

LEMMA PanelStart == C!Init => LastClicked
<1> SUFFICES ASSUME C!Init PROVE LastClicked
  OBVIOUS
<1>1. [chunk |-> C!None, state |-> "unused"] \in Asking
  BY DEF Asking
<1> QED
  BY <1>1 DEF C!Init, LastClicked

(* A request goes on, and that of another chunk waits as it did.           *)
LEMMA RequestMoves ==
  ASSUME LastClicked, NEW n \in 1 .. MaxClicks, NEW s \in {"asked", "found", "failed", "done"},
         gets' = [gets EXCEPT ![n].state = s]
  PROVE  /\ gets' \in [1 .. MaxClicks -> Asking]
         /\ \A c : C!Waiting(c) /\ (c # gets[n].chunk \/ s # "done") => C!Waiting(c)'
<1>1. gets' \in [1 .. MaxClicks -> Asking]
  BY DEF LastClicked, Asking
<1>2. /\ gets'[n].chunk = gets[n].chunk /\ gets'[n].state = s
      /\ \A m \in 1 .. MaxClicks : m # n => gets'[m] = gets[m]
  BY DEF LastClicked, Asking
<1> QED
  BY <1>1, <1>2 DEF C!Waiting

LEMMA ClickPanel ==
  ASSUME LastClicked, NEW c \in CitedChunks, C!HandleCitationClick(c)
  PROVE  LastClicked'
<1>1. active' = c /\ current' = c /\ unopened' = C!None /\ contents' = contents
  BY DEF C!HandleCitationClick
<1>2. CASE C!ShowCached(c)
  BY <1>1, <1>2 DEF C!ShowCached, LastClicked
<1>3. CASE C!Ask(c)
  <2>1. PICK n \in 1 .. MaxClicks : gets' = [gets EXCEPT ![n] = [chunk |-> c, state |-> "asked"]]
    BY <1>3 DEF C!Ask
  <2>2. [chunk |-> c, state |-> "asked"] \in Asking
    BY DEF Asking
  <2>3. gets' \in [1 .. MaxClicks -> Asking] /\ gets'[n] = [chunk |-> c, state |-> "asked"]
    BY <2>1, <2>2 DEF LastClicked
  <2>4. C!Waiting(c)'
    BY <2>3 DEF C!Waiting
  <2>5. opening' = TRUE
    BY <1>3 DEF C!Ask
  <2> QED
    BY <1>1, <2>3, <2>4, <2>5 DEF LastClicked
<1> QED
  BY <1>2, <1>3 DEF C!HandleCitationClick

LEMMA AnswerPanel ==
  ASSUME LastClicked, NEW n \in 1 .. MaxClicks, C!Arrives(n)
  PROVE  LastClicked'
<1> DEFINE c == gets[n].chunk
<1>1. /\ gets[n].state \in {"found", "failed"} /\ gets' = [gets EXCEPT ![n].state = "done"]
      /\ contents' = IF gets[n].state = "found" THEN contents \cup {c} ELSE contents
      /\ unopened' = IF gets[n].state = "failed" /\ current = c THEN c ELSE unopened
      /\ opening' = IF current = c THEN FALSE ELSE opening
      /\ UNCHANGED <<active, current>>
  BY DEF C!Arrives, C!IsCurrent
<1>2. gets' \in [1 .. MaxClicks -> Asking] /\ \A d : d # c /\ C!Waiting(d) => C!Waiting(d)'
  BY <1>1, RequestMoves
<1>3. CASE current = c
  BY <1>1, <1>2, <1>3 DEF LastClicked
<1>4. CASE current # c
  BY <1>1, <1>2, <1>4 DEF LastClicked, C!Waiting
<1> QED
  BY <1>3, <1>4

LEMMA PanelStep == LastClicked /\ [C!Next]_C!vars => LastClicked'
<1> SUFFICES ASSUME LastClicked, [C!Next]_C!vars PROVE LastClicked'
  OBVIOUS
<1>1. CASE UNCHANGED <<current, contents, opening, unopened, gets>> /\ (active' = active \/ active' = C!None)
  BY <1>1 DEF LastClicked, C!Waiting
<1>2. ASSUME NEW n \in 1 .. MaxClicks, C!GetChunkContent(n) \/ C!RequestFails(n) PROVE LastClicked'
  <2>1. /\ \E s \in {"found", "failed"} : gets' = [gets EXCEPT ![n].state = s]
        /\ UNCHANGED <<active, current, contents, opening, unopened>>
    BY <1>2 DEF C!GetChunkContent, C!RequestFails
  <2>2. gets' \in [1 .. MaxClicks -> Asking] /\ \A d : C!Waiting(d) => C!Waiting(d)'
    BY <2>1, RequestMoves
  <2> QED
    BY <2>1, <2>2 DEF LastClicked
<1> QED
  BY <1>1, <1>2, ClickPanel, AnswerPanel
     DEF C!Next, C!vars, C!panel, C!Tick, C!Close, C!Reindex

LEMMA PanelKept == C!Spec => []C!PanelIsCurrent
<1>1. LastClicked => C!PanelIsCurrent
  BY DEF LastClicked, C!PanelIsCurrent, C!Shown
<1> QED
  BY <1>1, PanelStart, PanelStep, PTL DEF C!Spec

-----------------------------------------------------------------------------
(* The list of pull requests.                                              *)
Listed == [PullRequests -> L!Statuses]

Ended(seen) == \A p \in PullRequests : ~L!IsNonTerminal(seen[p])

Asked == DOMAIN polls

(* Fetches are read in the order they were asked for, and what had ended   *)
(* in one has ended in the next, and at GitHub.                            *)
InOrder ==
  \A i \in Asked : polls[i] # L!Unread =>
    /\ \A p \in PullRequests : ~L!IsNonTerminal(polls[i][p]) => ~L!IsNonTerminal(latest[p])
    /\ \A j \in Asked : j < i =>
         /\ polls[j] # L!Unread
         /\ \A p \in PullRequests : ~L!IsNonTerminal(polls[j][p]) => ~L!IsNonTerminal(polls[i][p])

(* A list that stopped asking before MAX_POLLS has seen all reviews ended. *)
StoppedAtTheEnd ==
  pollTimer \/ pollCount >= MaxPolls \/
    /\ Ended(latest) /\ prs \in Listed /\ Ended(prs)
    /\ \A i \in Asked : polls[i] = L!Unread \/ Ended(polls[i])

Typed ==
  /\ latest \in Listed /\ pollCount \in Nat /\ pollTimer \in BOOLEAN
  /\ restarted \in BOOLEAN /\ overtaken \in BOOLEAN
  /\ \E n \in Nat : DOMAIN polls = 1 .. n
  /\ \A i \in Asked : polls[i] = L!Unread \/ polls[i] \in Listed

(* The order holds until a push restarts a review or an answer overtakes.  *)
ListInv == Typed /\ (restarted \/ overtaken \/ (InOrder /\ StoppedAtTheEnd))

LEMMA ListStart == L!Init => ListInv
<1> SUFFICES ASSUME L!Init PROVE ListInv
  OBVIOUS
<1>1. latest \in Listed
  BY DEF L!Init, Listed, L!Statuses
<1>2. DOMAIN polls = 1 .. 1 /\ polls[1] = L!Unread
  BY DEF L!Init
<1>3. Typed
  <2>1. pollTimer \in BOOLEAN /\ restarted \in BOOLEAN /\ overtaken \in BOOLEAN /\ pollCount \in Nat
    BY DEF L!Init
  <2>2. \A i \in Asked : polls[i] = L!Unread
    BY <1>2 DEF Asked
  <2>3. 1 \in Nat
    OBVIOUS
  <2> QED BY <1>1, <1>2, <2>1, <2>2, <2>3, Zenon DEF Typed
<1>4. InOrder /\ StoppedAtTheEnd
  BY <1>2 DEF L!Init, InOrder, StoppedAtTheEnd, Asked
<1> QED
  BY <1>3, <1>4 DEF ListInv

(* A review that has ended stays so, unless a push restarts it.            *)
LEMMA ReviewKeeps ==
  ASSUME Typed, NEW p \in PullRequests, L!ReviewMoves(p)
  PROVE  /\ Typed' /\ (restarted => restarted') /\ (overtaken <=> overtaken')
         /\ InOrder /\ StoppedAtTheEnd => restarted' \/ (InOrder' /\ StoppedAtTheEnd')
<1>1. PICK s \in {"RUNNING", "COMPLETE", "FAILED"} :
        /\ latest' = [latest EXCEPT ![p] = s]
        /\ \/ L!IsNonTerminal(latest[p]) /\ restarted' = restarted
           \/ restarted' = TRUE
  BY DEF L!ReviewMoves
<1>2. UNCHANGED <<pollTimer, pollCount, polls, prs, overtaken>>
  BY DEF L!ReviewMoves
<1>3. latest' \in Listed
  BY <1>1 DEF Typed, Listed, L!Statuses
<1>4. Typed'
  BY <1>1, <1>2, <1>3 DEF Typed, Asked
<1>5. ASSUME L!IsNonTerminal(latest[p]), InOrder, StoppedAtTheEnd PROVE InOrder' /\ StoppedAtTheEnd'
  <2>1. \A q \in PullRequests : ~L!IsNonTerminal(latest[q]) => latest'[q] = latest[q]
    BY <1>1, <1>5 DEF Typed, Listed
  <2>2. InOrder'
    BY <1>2, <1>5, <2>1 DEF InOrder, Asked, L!IsNonTerminal
  <2>3. Ended(latest) => FALSE
    BY <1>5 DEF Ended
  <2>4. StoppedAtTheEnd'
    BY <1>2, <1>5, <2>3 DEF StoppedAtTheEnd
  <2> QED
    BY <2>2, <2>4
<1> QED
  BY <1>1, <1>2, <1>4, <1>5

LEMMA DomainIs ==
  ASSUME NEW n \in Nat, DOMAIN polls = 1 .. n
  PROVE  L!Cardinality(DOMAIN polls) = n
<1>1. Cardinality(1 .. n) = n
  BY FS_Interval
<1> QED
  BY <1>1, SizeIsSize

LEMMA TickKeeps ==
  ASSUME Typed, L!Tick
  PROVE  /\ Typed' /\ UNCHANGED <<restarted, overtaken>>
         /\ InOrder /\ StoppedAtTheEnd => InOrder' /\ StoppedAtTheEnd'
<1>1. PICK n \in Nat : DOMAIN polls = 1 .. n
  BY DEF Typed
<1>2. polls' = [i \in 1 .. n + 1 |-> IF i \in DOMAIN polls THEN polls[i] ELSE L!Unread]
  BY <1>1, DomainIs DEF L!Tick
<1>3. /\ DOMAIN polls' = 1 .. n + 1 /\ n + 1 \in Nat
      /\ \A i \in 1 .. n + 1 : polls'[i] = L!Unread \/ (i \in 1 .. n /\ polls'[i] = polls[i])
      /\ \A i \in 1 .. n : polls'[i] = polls[i]
  BY <1>1, <1>2
<1>4. UNCHANGED <<latest, pollTimer, pollCount, prs, restarted, overtaken>>
  BY DEF L!Tick
<1>5. Typed'
  BY <1>1, <1>3, <1>4 DEF Typed, Asked
<1>6. InOrder => InOrder'
  BY <1>1, <1>3, <1>4 DEF InOrder, Asked
<1>7. StoppedAtTheEnd => StoppedAtTheEnd'
  BY <1>1, <1>3, <1>4 DEF StoppedAtTheEnd, Asked, Ended
<1> QED
  BY <1>4, <1>5, <1>6, <1>7

LEMMA ReadKeeps ==
  ASSUME Typed, NEW i \in Asked, L!GetPullRequests(i)
  PROVE  /\ Typed' /\ (restarted <=> restarted') /\ (overtaken => overtaken')
         /\ InOrder /\ StoppedAtTheEnd => overtaken' \/ (InOrder' /\ StoppedAtTheEnd')
<1>1. PICK n \in Nat : DOMAIN polls = 1 .. n
  BY DEF Typed
<1>2. /\ polls[i] = L!Unread /\ i \in 1 .. n
      /\ overtaken' = (overtaken \/ \E j \in 1 .. i - 1 : polls[j] = L!Unread)
      /\ polls' = [polls EXCEPT ![i] = latest]
      /\ UNCHANGED <<latest, pollTimer, pollCount, prs, restarted>>
  BY <1>1 DEF L!GetPullRequests, Asked
<1>3. /\ DOMAIN polls' = 1 .. n /\ polls'[i] = latest
      /\ \A j \in 1 .. n : j # i => polls'[j] = polls[j]
  BY <1>1, <1>2
<1>4. Typed'
  BY <1>1, <1>2, <1>3 DEF Typed, Asked
<1>5. ASSUME InOrder, StoppedAtTheEnd, \A j \in 1 .. i - 1 : polls[j] # L!Unread PROVE InOrder'
  <2> SUFFICES ASSUME NEW k \in 1 .. n, polls'[k] # L!Unread
               PROVE  /\ \A p \in PullRequests :
                            ~L!IsNonTerminal(polls'[k][p]) => ~L!IsNonTerminal(latest[p])
                      /\ \A j \in 1 .. n : j < k =>
                           /\ polls'[j] # L!Unread
                           /\ \A p \in PullRequests :
                                ~L!IsNonTerminal(polls'[j][p]) => ~L!IsNonTerminal(polls'[k][p])
    BY <1>2, <1>3 DEF InOrder, Asked, L!IsNonTerminal
  <2>1. CASE k = i
    <3>1. \A j \in 1 .. n : j < i => j \in 1 .. i - 1 /\ j # i
      BY <1>2
    <3> QED
      BY <1>1, <1>2, <1>3, <1>5, <2>1, <3>1 DEF InOrder, Asked
  <2>2. CASE k # i
    <3>1. polls[k] # L!Unread /\ ~(i < k)
      BY <1>1, <1>2, <1>3, <1>5, <2>2 DEF InOrder, Asked
    <3> QED
      BY <1>1, <1>2, <1>3, <1>5, <2>2, <3>1 DEF InOrder, Asked
  <2> QED
    BY <2>1, <2>2
<1>6. StoppedAtTheEnd => StoppedAtTheEnd'
  BY <1>1, <1>2, <1>3 DEF StoppedAtTheEnd, Asked, Ended
<1> QED
  BY <1>2, <1>4, <1>5, <1>6

(* One is answered, or fails; the others keep their order.                 *)
Was(i, j) == IF j < i THEN j ELSE j + 1

LEMMA Shifted ==
  ASSUME NEW n \in Nat, DOMAIN polls = 1 .. n, NEW i \in Asked, polls' = L!Without(i)
  PROVE  /\ DOMAIN polls' = 1 .. n - 1 /\ n - 1 \in Nat
         /\ \A j \in 1 .. n - 1 : Was(i, j) \in 1 .. n /\ polls'[j] = polls[Was(i, j)]
         /\ \A j, k \in 1 .. n - 1 : j < k => Was(i, j) < Was(i, k)
<1>1. polls' = [j \in 1 .. n - 1 |-> IF j < i THEN polls[j] ELSE polls[j + 1]]
  BY DomainIs DEF L!Without
<1> QED
  BY <1>1 DEF Asked, Was

LEMMA RestKeeps ==
  ASSUME Typed, NEW i \in Asked, polls' = L!Without(i), UNCHANGED latest
  PROVE  /\ \E n \in Nat : DOMAIN polls' = 1 .. n
         /\ \A j \in Asked' : polls'[j] = L!Unread \/ polls'[j] \in Listed
         /\ InOrder => InOrder'
         /\ (\A j \in Asked : polls[j] = L!Unread \/ Ended(polls[j])) =>
              \A j \in Asked' : polls'[j] = L!Unread \/ Ended(polls'[j])
<1>1. PICK n \in Nat : DOMAIN polls = 1 .. n
  BY DEF Typed
<1>2. /\ DOMAIN polls' = 1 .. n - 1 /\ n - 1 \in Nat
      /\ \A j \in 1 .. n - 1 : Was(i, j) \in 1 .. n /\ polls'[j] = polls[Was(i, j)]
      /\ \A j, k \in 1 .. n - 1 : j < k => Was(i, j) < Was(i, k)
  BY <1>1, Shifted
<1>3. \A j \in Asked' : polls'[j] = L!Unread \/ polls'[j] \in Listed
  BY <1>1, <1>2 DEF Typed, Asked
<1>4. ASSUME InOrder PROVE InOrder'
  <2> SUFFICES ASSUME NEW k \in 1 .. n - 1, polls'[k] # L!Unread
               PROVE  /\ \A p \in PullRequests :
                            ~L!IsNonTerminal(polls'[k][p]) => ~L!IsNonTerminal(latest[p])
                      /\ \A j \in 1 .. n - 1 : j < k =>
                           /\ polls'[j] # L!Unread
                           /\ \A p \in PullRequests :
                                ~L!IsNonTerminal(polls'[j][p]) => ~L!IsNonTerminal(polls'[k][p])
    BY <1>2 DEF InOrder, Asked, L!IsNonTerminal
  <2>1. Was(i, k) \in Asked /\ polls'[k] = polls[Was(i, k)]
    BY <1>1, <1>2 DEF Asked
  <2>2. \A j \in 1 .. n - 1 : j < k =>
          Was(i, j) \in Asked /\ polls'[j] = polls[Was(i, j)] /\ Was(i, j) < Was(i, k)
    BY <1>1, <1>2 DEF Asked
  <2> QED
    BY <1>4, <2>1, <2>2 DEF InOrder
<1>5. ASSUME \A j \in Asked : polls[j] = L!Unread \/ Ended(polls[j])
      PROVE  \A j \in Asked' : polls'[j] = L!Unread \/ Ended(polls'[j])
  BY <1>1, <1>2, <1>5 DEF Asked
<1> QED
  BY <1>2, <1>3, <1>4, <1>5

LEMMA FetchKeeps ==
  ASSUME Typed, MaxPolls \in Nat, NEW i \in Asked, L!FetchPrs(i)
  PROVE  /\ Typed' /\ (restarted <=> restarted') /\ (overtaken => overtaken')
         /\ InOrder /\ StoppedAtTheEnd => overtaken' \/ (InOrder' /\ StoppedAtTheEnd')
<1>1. PICK n \in Nat : DOMAIN polls = 1 .. n
  BY DEF Typed
<1>2. /\ polls[i] # L!Unread /\ prs' = polls[i] /\ polls' = L!Without(i)
      /\ pollCount' = IF pollCount < MaxPolls THEN pollCount + 1 ELSE pollCount
      /\ pollTimer' = (pollTimer /\ ~(Ended(polls[i]) \/ pollCount + 1 >= MaxPolls))
      /\ overtaken' = (overtaken \/ i # 1)
      /\ UNCHANGED <<latest, restarted>>
  BY DEF L!FetchPrs, L!Enough, Ended
<1>3. /\ pollCount \in Nat /\ pollCount' \in Nat /\ pollTimer \in BOOLEAN
      /\ pollTimer' \in BOOLEAN /\ overtaken' \in BOOLEAN /\ restarted' \in BOOLEAN
  BY <1>2 DEF Typed
<1>4. Typed'
  BY <1>2, <1>3, RestKeeps DEF Typed
<1>5. polls[i] \in Listed
  BY <1>2 DEF Typed
<1>6. ASSUME i = 1, InOrder, StoppedAtTheEnd PROVE StoppedAtTheEnd'
  <2>1. CASE Ended(polls[i])
    <3>1. Ended(latest) /\ \A j \in Asked : polls[j] = L!Unread \/ Ended(polls[j])
      BY <1>1, <1>2, <1>6, <2>1 DEF InOrder, Asked, Ended
    <3>2. \A j \in Asked' : polls'[j] = L!Unread \/ Ended(polls'[j])
      BY <1>2, <3>1, RestKeeps
    <3>3. prs' \in Listed /\ Ended(prs') /\ Ended(latest')
      BY <1>2, <1>5, <2>1, <3>1
    <3>4. Ended(prs)' /\ Ended(latest)'
      BY <3>3 DEF Ended, L!IsNonTerminal
    <3>5. \A j \in Asked' : Ended(polls'[j]) <=> Ended(polls[j])'
      BY DEF Ended, L!IsNonTerminal
    <3> QED
      BY <3>2, <3>3, <3>4 DEF StoppedAtTheEnd, Ended, L!IsNonTerminal
  <2>2. CASE ~Ended(polls[i])
    <3>1. pollTimer \/ pollCount >= MaxPolls
      BY <1>2, <1>6, <2>2 DEF StoppedAtTheEnd
    <3>2. pollTimer' \/ pollCount' >= MaxPolls
      BY <1>2, <1>3, <2>2, <3>1
    <3> QED
      BY <3>2 DEF StoppedAtTheEnd
  <2> QED
    BY <2>1, <2>2
<1>7. InOrder => InOrder'
  BY <1>2, RestKeeps
<1> QED
  BY <1>2, <1>4, <1>6, <1>7

LEMMA FailureKeeps ==
  ASSUME Typed, NEW i \in Asked, L!FetchFails(i)
  PROVE  /\ Typed' /\ UNCHANGED <<restarted, overtaken>>
         /\ InOrder /\ StoppedAtTheEnd => InOrder' /\ StoppedAtTheEnd'
<1>1. polls' = L!Without(i) /\ UNCHANGED <<latest, pollTimer, pollCount, prs, restarted, overtaken>>
  BY DEF L!FetchFails
<1>2. Typed'
  BY <1>1, RestKeeps DEF Typed
<1>3. InOrder => InOrder'
  BY <1>1, RestKeeps
<1>4. ASSUME \A j \in Asked : polls[j] = L!Unread \/ Ended(polls[j])
      PROVE  \A j \in Asked' : polls'[j] = L!Unread \/ Ended(polls'[j])
  BY <1>1, <1>4, RestKeeps
<1>5. StoppedAtTheEnd => StoppedAtTheEnd'
  BY <1>1, <1>4 DEF StoppedAtTheEnd, Ended, L!IsNonTerminal
<1> QED
  BY <1>1, <1>2, <1>3, <1>5

LEMMA ListStep ==
  ASSUME MaxPolls \in Nat, ListInv, [L!Next]_L!vars
  PROVE  ListInv'
<1>1. Typed /\ (restarted \/ overtaken \/ (InOrder /\ StoppedAtTheEnd))
  BY DEF ListInv
<1>2. CASE UNCHANGED L!vars
  BY <1>2 DEF L!vars, ListInv, Typed, InOrder, StoppedAtTheEnd, Asked, Ended, L!IsNonTerminal
<1>3. ASSUME NEW p \in PullRequests, L!ReviewMoves(p) PROVE ListInv'
  BY <1>1, <1>3, ReviewKeeps DEF ListInv
<1>4. CASE L!Tick
  BY <1>1, <1>4, TickKeeps DEF ListInv
<1>5. ASSUME NEW i \in Asked, L!GetPullRequests(i) PROVE ListInv'
  BY <1>1, <1>5, ReadKeeps DEF ListInv
<1>6. ASSUME NEW i \in Asked, L!FetchPrs(i) PROVE ListInv'
  BY <1>1, <1>6, FetchKeeps DEF ListInv
<1>7. ASSUME NEW i \in Asked, L!FetchFails(i) PROVE ListInv'
  BY <1>1, <1>7, FailureKeeps DEF ListInv
<1> QED
  BY <1>2, <1>3, <1>4, <1>5, <1>6, <1>7 DEF L!Next, Asked

LEMMA ListKept == L!Spec => []L!NoSpinnerStays
<1>1. MaxPolls \in Nat
  BY LibraryAssumption DEF L!ListAssumption
<1>2. ListInv => L!NoSpinnerStays
  BY DEF ListInv, StoppedAtTheEnd, Ended, L!NoSpinnerStays, L!Badge, L!IsNonTerminal, L!None
<1>3. ListInv /\ [L!Next]_L!vars => ListInv'
  BY <1>1, ListStep
<1> QED
  BY <1>2, <1>3, ListStart, PTL DEF L!Spec

-----------------------------------------------------------------------------
(* The page of one review.                                                 *)
Versions == 1 .. Len(FindingsOf)
Shows    == {V!NoReview} \cup [n : Versions, status : {"RUNNING", "COMPLETE", "FAILED"}]
Fetches  == [state : {"unused", "asked", "answered", "done"}, review : Shows]
Named    == UNION {{FindingsOf[n][i].file : i \in DOMAIN FindingsOf[n]} : n \in Versions}
Wanted   == [index : V!Indices, file : Named, n : Versions, preview : BOOLEAN,
             state : {"asked", "answered", "failed", "done"}]
Saved    == [file : Named, n : Versions, preview : BOOLEAN]

(* The finding with that index, in the review of that time, is of the file.*)
OfFinding(d, index) ==
  index \in DOMAIN FindingsOf[d.n] /\ d.file = FindingsOf[d.n][index].file

PageTyped ==
  /\ newest \in Shows /\ shown \in Shows
  /\ refetches \in [1 .. MaxFetches -> Fetches]
  /\ diffs \in [1 .. MaxDiffs -> {V!Unused} \cup Wanted]
  /\ diffCache \in [V!Indices -> {V!NoDiff} \cup Saved]

(* What a diff that was asked for, or is kept, says of itself is so: it is *)
(* of the file its finding names, and one without a preview is large.      *)
DiffsKnown ==
  \A k \in 1 .. MaxDiffs : diffs[k] # V!Unused =>
    /\ OfFinding(diffs[k], diffs[k].index)
    /\ diffs[k].state = "answered" /\ ~diffs[k].preview => diffs[k].file \in Large

CacheKnown ==
  \A i \in V!Indices : diffCache[i] # V!NoDiff =>
    /\ OfFinding(diffCache[i], i)
    /\ ~diffCache[i].preview => diffCache[i].file \in Large

(* The finding that is open has its diff, its failure, or a request.       *)
OpenIsAsked ==
  /\ diffLoading # 0 => V!Asked(diffLoading)
  /\ expanded # 0 =>
       /\ expanded \in V!Indices
       /\ expanded \in diffErrors \/ diffCache[expanded] # V!NoDiff \/ V!Asked(expanded)

PageInv == PageTyped /\ DiffsKnown /\ CacheKnown /\ OpenIsAsked

LEMMA SomeVersions ==
  /\ Len(FindingsOf) \in Nat /\ 1 \in Versions /\ DOMAIN FindingsOf = Versions
  /\ \A n \in Versions : \A i \in DOMAIN FindingsOf[n] :
       i \in V!Indices /\ FindingsOf[n][i].file \in Named /\ i # 0
  /\ 0 \notin V!Indices /\ 0 \notin Versions
<1>1. /\ Len(FindingsOf) \in Nat \ {0} /\ DOMAIN FindingsOf = 1 .. Len(FindingsOf)
      /\ \A n \in DOMAIN FindingsOf : DOMAIN FindingsOf[n] \subseteq Nat \ {0}
  BY LibraryAssumption DEF V!ReviewPageAssumption
<1> QED
  BY <1>1 DEF Versions, V!Indices, Named

LEMMA PageStart == V!Init => PageInv
<1> SUFFICES ASSUME V!Init PROVE PageInv
  OBVIOUS
<1>1. newest \in Shows /\ shown \in Shows
  BY SomeVersions DEF V!Init, Shows
<1>2. refetches \in [1 .. MaxFetches -> Fetches]
  BY DEF V!Init, Shows, Fetches
<1>3. PageTyped
  BY <1>1, <1>2 DEF V!Init, PageTyped
<1>4. DiffsKnown /\ CacheKnown /\ OpenIsAsked
  BY DEF V!Init, DiffsKnown, CacheKnown, OpenIsAsked
<1> QED
  BY <1>3, <1>4 DEF PageInv

(* Only the reviews move.                                                  *)
LEMMA ReviewSide ==
  ASSUME PageInv, UNCHANGED <<expanded, diffCache, diffLoading, diffErrors, diffs>>,
         newest' \in Shows, shown' \in Shows, refetches' \in [1 .. MaxFetches -> Fetches]
  PROVE  PageInv'
BY DEF PageInv, PageTyped, DiffsKnown, CacheKnown, OpenIsAsked, V!Asked

LEMMA ReviewsMove ==
  ASSUME PageInv,
         \/ V!ReviewStarts \/ V!ReviewEnds \/ V!Refetch
         \/ \E k \in 1 .. MaxFetches : V!GetPrReviews(k) \/ V!FetchFails(k) \/ V!FetchArrives(k)
  PROVE  PageInv'
<1>1. newest \in Shows /\ shown \in Shows /\ refetches \in [1 .. MaxFetches -> Fetches]
  BY DEF PageInv, PageTyped
<1>2. UNCHANGED <<expanded, diffCache, diffLoading, diffErrors, diffs>>
  BY DEF V!ReviewStarts, V!ReviewEnds, V!Refetch, V!GetPrReviews, V!FetchFails, V!FetchArrives, V!panel
<1>3. \A k \in 1 .. MaxFetches, s \in {"asked", "done"} :
        [refetches EXCEPT ![k].state = s] \in [1 .. MaxFetches -> Fetches]
  BY <1>1 DEF Fetches
<1>4. CASE V!ReviewStarts
  <2>1. newest.n + 1 \in Versions
    BY <1>1, <1>4, SomeVersions DEF V!ReviewStarts, Shows, V!NoReview, Versions
  <2>2. newest' \in Shows /\ UNCHANGED <<shown, refetches>>
    BY <1>4, <2>1 DEF V!ReviewStarts, Shows
  <2> QED
    BY <1>1, <1>2, <2>2, ReviewSide
<1>5. CASE V!ReviewEnds
  <2>1. newest' \in Shows /\ UNCHANGED <<shown, refetches>>
    BY <1>1, <1>5 DEF V!ReviewEnds, Shows, V!NoReview
  <2> QED
    BY <1>1, <1>2, <2>1, ReviewSide
<1>6. CASE V!Refetch
  <2>1. PICK k \in 2 .. MaxFetches : refetches' = [refetches EXCEPT ![k].state = "asked"]
    BY <1>6, Zenon DEF V!Refetch
  <2>2. k \in 1 .. MaxFetches /\ UNCHANGED <<newest, shown>>
    BY <1>6 DEF V!Refetch
  <2>3. refetches' \in [1 .. MaxFetches -> Fetches]
    BY <1>3, <2>1, <2>2
  <2> QED
    BY <1>1, <1>2, <2>2, <2>3, ReviewSide
<1>7. ASSUME NEW k \in 1 .. MaxFetches, V!GetPrReviews(k) \/ V!FetchFails(k) \/ V!FetchArrives(k)
      PROVE  PageInv'
  <2>1. newest' = newest /\ (shown' = shown \/ shown' = refetches[k].review)
    BY <1>7 DEF V!GetPrReviews, V!FetchFails, V!FetchArrives
  <2>2. \/ refetches' = [refetches EXCEPT ![k] = [state |-> "answered", review |-> newest]]
        \/ refetches' = [refetches EXCEPT ![k].state = "done"]
    BY <1>7 DEF V!GetPrReviews, V!FetchFails, V!FetchArrives
  <2>3. [state |-> "answered", review |-> newest] \in Fetches /\ refetches[k].review \in Shows
    BY <1>1 DEF Fetches
  <2>4. refetches' \in [1 .. MaxFetches -> Fetches]
    BY <1>1, <1>3, <2>2, <2>3
  <2> QED
    BY <1>1, <1>2, <2>1, <2>3, <2>4, ReviewSide
<1> QED
  BY <1>4, <1>5, <1>6, <1>7

LEMMA EntryIs ==
  ASSUME NEW entry \in V!Entries
  PROVE  \E i \in DOMAIN V!Findings : entry = [file |-> V!Findings[i].file, index |-> i]
BY DEF V!Entries, V!GroupByCategory

(* A finding that can be clicked is one of the review shown.               *)
LEMMA Clickable ==
  ASSUME PageInv, NEW entry \in V!Entries
  PROVE  /\ shown.n \in Versions /\ entry.index \in DOMAIN FindingsOf[shown.n]
         /\ entry.file = FindingsOf[shown.n][entry.index].file
<1>1. PICK i \in DOMAIN V!Findings : entry = [file |-> V!Findings[i].file, index |-> i]
  BY EntryIs
<1>2. shown.n # 0 /\ shown.n \in Versions
  <2>1. DOMAIN V!Findings # {}
    BY <1>1
  <2>2. shown.n = 0 => DOMAIN V!Findings = {}
    BY DEF V!Findings
  <2>3. shown \in Shows
    BY DEF PageInv, PageTyped
  <2> QED
    BY <2>1, <2>2, <2>3 DEF Shows, V!NoReview
<1> QED
  BY <1>1, <1>2 DEF V!Findings

LEMMA TogglePage ==
  ASSUME PageInv, NEW entry \in V!Entries, V!ToggleDiff(entry)
  PROVE  PageInv'
<1> DEFINE i == entry.index
<1>1. /\ shown.n \in Versions /\ i \in DOMAIN FindingsOf[shown.n]
      /\ entry.file = FindingsOf[shown.n][i].file
      /\ i \in V!Indices /\ entry.file \in Named /\ i # 0
  BY Clickable, SomeVersions
<1>2. UNCHANGED <<newest, shown, refetches, diffCache, diffErrors>>
  BY DEF V!ToggleDiff, V!CloseDiff, V!OpenDiff, V!reviews
<1>3. CASE V!CloseDiff(entry)
  BY <1>2, <1>3 DEF V!CloseDiff, PageInv, PageTyped, DiffsKnown, CacheKnown, OpenIsAsked, V!Asked
<1>4. CASE V!OpenDiff(entry) /\ diffCache[i] # V!NoDiff
  BY <1>1, <1>2, <1>4 DEF V!OpenDiff, PageInv, PageTyped, DiffsKnown, CacheKnown, OpenIsAsked, V!Asked
<1>5. CASE V!OpenDiff(entry) /\ diffCache[i] = V!NoDiff
  <2> DEFINE d == [V!Unused EXCEPT !.index = i, !.file = entry.file, !.n = shown.n, !.state = "asked"]
  <2>1. expanded' = i /\ diffLoading' = i
    BY <1>5 DEF V!OpenDiff
  <2>2. PICK k \in 1 .. MaxDiffs : diffs[k] = V!Unused /\ diffs' = [diffs EXCEPT ![k] = d]
    BY <1>5, Zenon DEF V!OpenDiff
  <2>3. V!Unused \in [index : {0}, file : {"none"}, n : {0}, preview : BOOLEAN, state : {"unused"}]
    BY DEF V!Unused
  <2>4. /\ d \in Wanted /\ d.index = i /\ d.state = "asked" /\ d.n = shown.n
        /\ d.file = entry.file
    <3> DEFINE Begun == [index : V!Indices, file : Named, n : {0}, preview : BOOLEAN, state : {"unused"}]
    <3>1. \A x \in [index : {0}, file : {"none"}, n : {0}, preview : BOOLEAN, state : {"unused"}],
             a \in V!Indices, b \in Named :
            LET y == [x EXCEPT !.index = a, !.file = b] IN
            y \in Begun /\ y.index = a /\ y.file = b
      OBVIOUS
    <3>2. \A x \in Begun, c \in Versions :
            LET y == [x EXCEPT !.n = c, !.state = "asked"] IN
            y \in Wanted /\ y.index = x.index /\ y.state = "asked" /\ y.n = c /\ y.file = x.file
      BY DEF Wanted
    <3> HIDE DEF Begun
    <3> QED
      BY <1>1, <2>3, <3>1, <3>2, Zenon
  <2> HIDE DEF d
  <2>5. /\ diffs' \in [1 .. MaxDiffs -> {V!Unused} \cup Wanted] /\ diffs'[k] = d
        /\ \A l \in 1 .. MaxDiffs : l # k => diffs'[l] = diffs[l]
    BY <2>2, <2>4 DEF PageInv, PageTyped
  <2>6. PageTyped'
    BY <1>2, <2>5 DEF PageInv, PageTyped
  <2>7. DiffsKnown'
    BY <1>1, <2>4, <2>5 DEF PageInv, DiffsKnown, OfFinding
  <2>8. CacheKnown'
    BY <1>2 DEF PageInv, CacheKnown
  <2>9. V!Asked(i)'
    BY <2>4, <2>5 DEF V!Asked
  <2>10. OpenIsAsked'
    BY <1>1, <2>1, <2>9 DEF OpenIsAsked
  <2> QED
    BY <2>6, <2>7, <2>8, <2>10 DEF PageInv
<1> QED
  BY <1>3, <1>4, <1>5 DEF V!ToggleDiff

(* A request goes on: another finding's is where it was.                   *)
LEMMA RequestGoes ==
  ASSUME PageInv, NEW k \in 1 .. MaxDiffs, diffs[k] # V!Unused, NEW d \in Wanted,
         d.index = diffs[k].index, d.file = diffs[k].file, d.n = diffs[k].n,
         d.state = "answered" /\ ~d.preview => d.file \in Large,
         diffs' = [diffs EXCEPT ![k] = d]
  PROVE  /\ diffs' \in [1 .. MaxDiffs -> {V!Unused} \cup Wanted] /\ DiffsKnown'
         /\ diffs[k] \in Wanted
         /\ \A i : i # d.index /\ V!Asked(i) => V!Asked(i)'
         /\ d.state # "done" => \A i : V!Asked(i) => V!Asked(i)'
<1>1. /\ diffs' \in [1 .. MaxDiffs -> {V!Unused} \cup Wanted] /\ diffs'[k] = d
      /\ \A l \in 1 .. MaxDiffs : l # k => diffs'[l] = diffs[l]
      /\ diffs[k] \in Wanted
  BY DEF PageInv, PageTyped
<1>2. DiffsKnown'
  BY <1>1 DEF PageInv, DiffsKnown, OfFinding
<1>3. \A i : V!Asked(i) /\ (i # d.index \/ d.state # "done") => V!Asked(i)'
  BY <1>1 DEF V!Asked, Wanted
<1> QED
  BY <1>1, <1>2, <1>3

LEMMA AnswerPage ==
  ASSUME PageInv, NEW k \in 1 .. MaxDiffs, V!GetPullRequestDiff(k)
  PROVE  PageInv'
<1>1. diffs[k].state = "asked"
  BY DEF V!GetPullRequestDiff
<1>2. diffs[k] # V!Unused /\ diffs[k] \in Wanted
  BY <1>1 DEF PageInv, PageTyped, V!Unused
<1>3. PICK base, head \in V!FetchFileAtRef(diffs[k].file) :
        diffs' = [diffs EXCEPT ![k].state = IF "error" \in {base, head} THEN "failed" ELSE "answered",
                               ![k].preview = {base, head} \subseteq {"content", "missing"}]
  BY DEF V!GetPullRequestDiff
<1> DEFINE d == [diffs[k] EXCEPT !.state = IF "error" \in {base, head} THEN "failed" ELSE "answered",
                                 !.preview = {base, head} \subseteq {"content", "missing"}]
<1>4. /\ d \in Wanted /\ d.index = diffs[k].index /\ d.file = diffs[k].file /\ d.n = diffs[k].n
      /\ d.state = IF "error" \in {base, head} THEN "failed" ELSE "answered"
      /\ d.preview = ({base, head} \subseteq {"content", "missing"})
  BY <1>2 DEF Wanted
<1>5. diffs' = [diffs EXCEPT ![k] = d]
  BY <1>2, <1>3 DEF PageInv, PageTyped, Wanted
<1> HIDE DEF d
<1>6. d.state = "answered" /\ ~d.preview => d.file \in Large
  BY <1>3, <1>4 DEF V!FetchFileAtRef
<1>7. /\ diffs' \in [1 .. MaxDiffs -> {V!Unused} \cup Wanted] /\ DiffsKnown'
      /\ \A i : V!Asked(i) => V!Asked(i)'
  BY <1>2, <1>4, <1>5, <1>6, RequestGoes
<1>8. UNCHANGED <<newest, shown, refetches, expanded, diffCache, diffLoading, diffErrors>>
  BY DEF V!GetPullRequestDiff, V!reviews
<1> QED
  BY <1>7, <1>8 DEF PageInv, PageTyped, CacheKnown, OpenIsAsked

LEMMA ArrivePage ==
  ASSUME PageInv, NEW k \in 1 .. MaxDiffs, V!DiffArrives(k)
  PROVE  PageInv'
<1> DEFINE d == diffs[k]
           e == [d EXCEPT !.state = "done"]
           s == [file |-> d.file, n |-> d.n, preview |-> d.preview]
<1>1. /\ d.state \in {"answered", "failed"} /\ diffs' = [diffs EXCEPT ![k].state = "done"]
      /\ diffLoading' = 0 /\ UNCHANGED <<newest, shown, refetches, expanded>>
  BY DEF V!DiffArrives, V!reviews
<1>2. d # V!Unused /\ d \in Wanted
  BY <1>1 DEF PageInv, PageTyped, V!Unused
<1>3. /\ e \in Wanted /\ e.index = d.index /\ e.file = d.file /\ e.n = d.n /\ e.state = "done"
      /\ d.index \in V!Indices /\ s \in Saved /\ s # V!NoDiff
  BY <1>2, SomeVersions DEF Wanted, Saved, V!NoDiff
<1>4. diffs' = [diffs EXCEPT ![k] = e]
  BY <1>1, <1>2 DEF PageInv, PageTyped, Wanted
<1>5. /\ diffs' \in [1 .. MaxDiffs -> {V!Unused} \cup Wanted] /\ DiffsKnown'
      /\ \A i : i # d.index /\ V!Asked(i) => V!Asked(i)'
  <2> HIDE DEF e
  <2> QED
    BY <1>2, <1>3, <1>4, RequestGoes
<1>6. OfFinding(d, d.index) /\ (d.state = "answered" /\ ~d.preview => d.file \in Large)
  BY <1>2 DEF PageInv, DiffsKnown
<1>7. CASE d.state = "answered"
  <2>1. diffCache' = [diffCache EXCEPT ![d.index] = s] /\ UNCHANGED diffErrors
    BY <1>7 DEF V!DiffArrives
  <2>2. OfFinding(s, d.index) /\ (~s.preview => s.file \in Large)
    BY <1>6, <1>7 DEF OfFinding
  <2> HIDE DEF s
  <2>3. /\ diffCache' \in [V!Indices -> {V!NoDiff} \cup Saved] /\ diffCache'[d.index] = s
        /\ \A i \in V!Indices : i # d.index => diffCache'[i] = diffCache[i]
    BY <1>3, <2>1 DEF PageInv, PageTyped
  <2>4. CacheKnown'
    BY <2>2, <2>3 DEF PageInv, CacheKnown, OfFinding
  <2>5. OpenIsAsked'
    BY <1>1, <1>3, <1>5, <2>1, <2>3 DEF PageInv, OpenIsAsked
  <2> QED
    BY <1>1, <1>5, <2>3, <2>4, <2>5 DEF PageInv, PageTyped
<1>8. CASE d.state # "answered"
  <2>1. diffErrors' = diffErrors \cup {d.index} /\ UNCHANGED diffCache
    BY <1>8 DEF V!DiffArrives
  <2>2. CacheKnown' /\ OpenIsAsked'
    BY <1>1, <1>5, <2>1 DEF PageInv, CacheKnown, OpenIsAsked
  <2> QED
    BY <1>1, <1>5, <2>1, <2>2 DEF PageInv, PageTyped
<1> QED
  BY <1>7, <1>8

LEMMA PageStep == PageInv /\ [V!Next]_V!vars => PageInv'
<1> SUFFICES ASSUME PageInv, [V!Next]_V!vars PROVE PageInv'
  OBVIOUS
<1>1. CASE UNCHANGED V!vars
  BY <1>1, ReviewSide DEF V!vars, PageInv, PageTyped
<1> QED
  BY <1>1, ReviewsMove, TogglePage, AnswerPage, ArrivePage DEF V!Next

LEMMA PageShows == PageInv => V!DiffIsOfItsFinding
<1> SUFFICES ASSUME PageInv
             PROVE  /\ V!Cardinality({e \in V!Entries : e.index = expanded}) <= 1
                    /\ \A e \in V!Entries : e.index = expanded =>
                         /\ V!DiffView(expanded) \in {"blank", "loading"} => V!Asked(expanded)
                         /\ diffCache[expanded].n = shown.n =>
                              /\ diffCache[expanded].file = e.file
                              /\ V!DiffView(expanded) = "unavailable" => e.file \in Large
  BY DEF V!DiffIsOfItsFinding
<1>1. V!Cardinality({e \in V!Entries : e.index = expanded}) <= 1
  <2> DEFINE S == {e \in V!Entries : e.index = expanded}
  <2>1. \A e, f \in S : e = f
    <3> SUFFICES ASSUME NEW e \in S, NEW f \in S PROVE e = f
      OBVIOUS
    <3>1. PICK i \in DOMAIN V!Findings : e = [file |-> V!Findings[i].file, index |-> i]
      BY EntryIs
    <3>2. PICK j \in DOMAIN V!Findings : f = [file |-> V!Findings[j].file, index |-> j]
      BY EntryIs
    <3> QED
      BY <3>1, <3>2
  <2> HIDE DEF S
  <2>2. CASE S = {}
    BY <2>2, FS_EmptySet, SizeIsSize DEF S
  <2>3. CASE S # {}
    <3>1. PICK e \in S : TRUE
      BY <2>3
    <3>2. S = {e}
      BY <2>1, <3>1
    <3>3. Cardinality({e}) = 1
      BY FS_Singleton
    <3> QED
      BY <3>2, <3>3, SizeIsSize DEF S
  <2> QED
    BY <2>2, <2>3
<1>2. ASSUME NEW e \in V!Entries, e.index = expanded
      PROVE  /\ V!DiffView(expanded) \in {"blank", "loading"} => V!Asked(expanded)
             /\ diffCache[expanded].n = shown.n =>
                  /\ diffCache[expanded].file = e.file
                  /\ V!DiffView(expanded) = "unavailable" => e.file \in Large
  <2>1. /\ shown.n \in Versions /\ expanded \in DOMAIN FindingsOf[shown.n]
        /\ e.file = FindingsOf[shown.n][expanded].file
        /\ expanded \in V!Indices /\ expanded # 0
    BY <1>2, Clickable, SomeVersions
  <2>2. V!DiffView(expanded) \in {"blank", "loading"} => V!Asked(expanded)
    BY <2>1 DEF V!DiffView, PageInv, OpenIsAsked
  <2>3. ASSUME diffCache[expanded].n = shown.n
        PROVE  /\ diffCache[expanded].file = e.file
               /\ V!DiffView(expanded) = "unavailable" => e.file \in Large
    <3>1. diffCache[expanded] # V!NoDiff
      BY <2>1, <2>3, SomeVersions DEF V!NoDiff
    <3> QED
      BY <2>1, <2>3, <3>1 DEF PageInv, CacheKnown, OfFinding, V!DiffView
  <2> QED
    BY <2>2, <2>3
<1> QED
  BY <1>1, <1>2

LEMMA PageKept == V!Spec => []V!DiffIsOfItsFinding
BY PageStart, PageStep, PageShows, PTL DEF V!Spec

-----------------------------------------------------------------------------
(* A set of numbers has a least one.                                       *)
LEMMA Least ==
  ASSUME NEW T, T \subseteq Nat, T # {}
  PROVE  \E x \in T : \A y \in T : x <= y
<1>1. IsWellFoundedOn(OpToRel(<,Nat), Nat)
  BY NatLessThanWellFounded, Zenon
<1>2. PICK x \in T : \A y \in T : ~ (<<y, x>> \in OpToRel(<,Nat))
  BY <1>1, WFMin, Zenon
<1>3. \A y \in T : ~ (y < x)
  BY <1>2 DEF OpToRel
<1> QED BY <1>3

(* Of the subsets of a finite set that have a property, one is smallest.   *)
LEMMA Smallest ==
  ASSUME NEW U0, IsFiniteSet(U0), NEW F, F \subseteq SUBSET U0, F # {}
  PROVE  \E S \in F : \A T \in SUBSET S : T # S => T \notin F
<1>1. {Cardinality(S) : S \in F} \subseteq Nat
  BY FS_Subset, FS_CardinalityType
<1>2. PICK n \in {Cardinality(S) : S \in F} : \A m \in {Cardinality(S) : S \in F} : n <= m
  <2> HIDE <1>1
  <2>1. {Cardinality(S) : S \in F} # {}
    OBVIOUS
  <2> QED BY <1>1, <2>1, Least
<1>3. PICK S \in F : n = Cardinality(S)
  BY <1>2
<1>4. ASSUME NEW T \in SUBSET S, T # S, T \in F PROVE FALSE
  <2>1. IsFiniteSet(S) /\ Cardinality(S) \in Nat /\ Cardinality(T) \in Nat
    BY FS_Subset, FS_CardinalityType
  <2>2. Cardinality(T) <= Cardinality(S) /\ Cardinality(S) # Cardinality(T)
    BY <2>1, <1>4, FS_Subset
  <2>3. Cardinality(S) <= Cardinality(T)
    BY <1>2, <1>3, <1>4
  <2> QED BY <2>1, <2>2, <2>3
<1> QED BY <1>4

-----------------------------------------------------------------------------
(* The graph of a repository.                                              *)
LEMMA GraphSize == \A S : G!Cardinality(S) = Cardinality(S) /\ (G!IsFiniteSet(S) <=> IsFiniteSet(S))
BY DEF G!Cardinality, Cardinality, G!IsFiniteSet, IsFiniteSet

Path(c) == PathOf[FileOf[c]]

PageOf(l, d, e, f, s, p) ==
  [loading |-> l, drilling |-> d, error |-> e, files |-> f, symbol |-> s, popover |-> p]

IsPage(y) == \E l, d, e, f, s, p : y = PageOf(l, d, e, f, s, p)

(* The file graph was built of rows and chunks that hold all there is now. *)
GraphInv ==
  /\ chunks \subseteq GraphChunks /\ relations \subseteq Rows
  /\ \A r \in relations : r.from \in chunks /\ (r.to # G!External => r.to \in chunks)
  /\ reading.scope = "file" => relations \subseteq reading.read /\ reading.read \subseteq Rows
  /\ IsPage(architecture)
  /\ architecture.files # G!NoGraph =>
       \E rs \in SUBSET Rows, cs \in SUBSET GraphChunks :
         /\ architecture.files = G!AggregateFileGraph(rs, cs)
         /\ relations \subseteq rs /\ chunks \subseteq cs
  /\ architecture.symbol # G!NoSymbol =>
       \E root, rs : architecture.symbol = G!SymbolGraph(root, rs)

LEMMA LeastFile ==
  ASSUME G!GraphAssumption, NEW cs \in SUBSET GraphChunks, NEW c \in cs
  PROVE  /\ G!Canonical(FileOf[c], cs) = G!Min(G!FilesAt(Path(c), cs))
         /\ PathOf[G!Canonical(FileOf[c], cs)] = Path(c)
<1> DEFINE F == G!FilesAt(Path(c), cs)
<1>1. F \subseteq Nat /\ FileOf[c] \in F /\ \A f \in F : PathOf[f] = Path(c)
  BY DEF G!GraphAssumption, G!FilesAt, Path
<1>2. G!Canonical(FileOf[c], cs) = G!Min(F)
  BY DEF G!Canonical, Path
<1> HIDE DEF F
<1>3. \E x \in F : \A y \in F : x <= y
  BY <1>1, Least
<1>4. G!Min(F) \in F
  BY <1>3 DEF G!Min
<1> QED BY <1>1, <1>2, <1>4 DEF F

LEMMA NodeOf ==
  ASSUME G!GraphAssumption, NEW rs, NEW cs \in SUBSET GraphChunks, NEW c \in cs
  PROVE  \E n \in G!FileNodes(rs, cs) : n.path = Path(c) /\ n.id = G!Canonical(FileOf[c], cs)
<1> DEFINE here == {d \in cs : PathOf[FileOf[d]] = Path(c)}
           n == [id |-> G!Min({FileOf[d] : d \in here}), path |-> Path(c),
                 symbolCount |-> G!Cardinality(here), top |-> G!TopSymbols(here, rs)]
<1>1. n \in G!FileNodes(rs, cs)
  BY DEF G!FileNodes, Path
<1>2. {FileOf[d] : d \in here} = G!FilesAt(Path(c), cs)
  BY DEF G!FilesAt
<1>3. n.id = G!Min({FileOf[d] : d \in here}) /\ n.path = Path(c)
  OBVIOUS
<1> HIDE DEF n, here
<1> QED BY <1>1, <1>2, <1>3, LeastFile

LEMMA OneNodeAPath ==
  ASSUME NEW rs, NEW cs, NEW n \in G!FileNodes(rs, cs), NEW m \in G!FileNodes(rs, cs), n.path = m.path
  PROVE  n = m
<1> DEFINE here(p) == {c \in cs : PathOf[FileOf[c]] = p}
           id(p) == G!Min({FileOf[c] : c \in here(p)})
           count(p) == G!Cardinality(here(p))
           top(p) == G!TopSymbols(here(p), rs)
           node(p) == [id |-> id(p), path |-> p, symbolCount |-> count(p), top |-> top(p)]
<1>1. G!FileNodes(rs, cs) = {node(p) : p \in {PathOf[FileOf[c]] : c \in cs}}
  BY DEF G!FileNodes
<1> HIDE DEF id, count, top
<1>2. \A p : node(p).path = p
  OBVIOUS
<1> HIDE DEF node
<1>3. PICK p : n = node(p)
  BY <1>1
<1>4. PICK q : m = node(q)
  BY <1>1
<1> QED BY <1>2, <1>3, <1>4

LEMMA EdgeIs ==
  ASSUME NEW rs, NEW cs, NEW e \in G!FileEdges(rs, cs)
  PROVE  /\ e.source # e.target
         /\ \E r \in rs : /\ r.to # G!External
                         /\ e.source = G!Canonical(FileOf[r.from], cs) /\ e.target = G!Canonical(FileOf[r.to], cs)
         /\ \A t \in Types :
              e.counts[t] = G!Cardinality({r \in G!Between(rs, cs, e.source, e.target) : r.type = t})
<1> DEFINE inner == {q \in rs : q.to # G!External}
           at(c) == G!Canonical(FileOf[c], cs)
           ends == {<<at(r.from), at(r.to)>> : r \in inner}
           counts(a, b) == [t \in Types |-> G!Cardinality({r \in G!Between(rs, cs, a, b) : r.type = t})]
           edge(d) == [source |-> d[1], target |-> d[2], counts |-> counts(d[1], d[2])]
<1>1. G!FileEdges(rs, cs) = {edge(d) : d \in {c \in ends : c[1] # c[2]}}
  BY DEF G!FileEdges
<1> HIDE DEF counts
<1>2. \A d : edge(d).source = d[1] /\ edge(d).target = d[2] /\ edge(d).counts = counts(d[1], d[2])
  OBVIOUS
<1> HIDE DEF edge
<1>3. PICK d \in ends : d[1] # d[2] /\ e = edge(d)
  BY <1>1
<1>4. \E r \in rs : r.to # G!External /\ d = <<at(r.from), at(r.to)>>
  OBVIOUS
<1>5. e.source = d[1] /\ e.target = d[2] /\ e.counts = counts(e.source, e.target)
  BY <1>2, <1>3
<1>6. \A t \in Types : e.counts[t] = G!Cardinality({r \in G!Between(rs, cs, e.source, e.target) : r.type = t})
  BY <1>5 DEF counts
<1>7. \E r \in rs : r.to # G!External /\ e.source = at(r.from) /\ e.target = at(r.to)
  <2> HIDE DEF at
  <2> QED BY <1>4, <1>5
<1> QED BY <1>3, <1>5, <1>6, <1>7

LEMMA EdgeOf ==
  ASSUME NEW rs, NEW cs, NEW r \in rs, r.to # G!External,
         G!Canonical(FileOf[r.from], cs) # G!Canonical(FileOf[r.to], cs)
  PROVE  \E e \in G!FileEdges(rs, cs) :
           e.source = G!Canonical(FileOf[r.from], cs) /\ e.target = G!Canonical(FileOf[r.to], cs)
<1> DEFINE inner == {q \in rs : q.to # G!External}
           at(c) == G!Canonical(FileOf[c], cs)
           ends == {<<at(q.from), at(q.to)>> : q \in inner}
           counts(a, b) == [t \in Types |-> G!Cardinality({q \in G!Between(rs, cs, a, b) : q.type = t})]
           edge(d) == [source |-> d[1], target |-> d[2], counts |-> counts(d[1], d[2])]
<1>1. G!FileEdges(rs, cs) = {edge(d) : d \in {c \in ends : c[1] # c[2]}}
  BY DEF G!FileEdges
<1> HIDE DEF counts
<1>2. \A d : edge(d).source = d[1] /\ edge(d).target = d[2] /\ edge(d).counts = counts(d[1], d[2])
  OBVIOUS
<1> HIDE DEF edge
<1> DEFINE d == <<at(r.from), at(r.to)>>
<1>3. d \in ends /\ d[1] = at(r.from) /\ d[2] = at(r.to)
  OBVIOUS
<1>4. edge(d) \in G!FileEdges(rs, cs)
  BY <1>3, <1>1
<1> HIDE DEF at, d
<1> QED BY <1>2, <1>3, <1>4 DEF at

(* Whatever the two reads held, as long as it holds what there is now.     *)
LEMMA QuotientIs ==
  ASSUME G!GraphAssumption, NEW rs \in SUBSET Rows, NEW cs \in SUBSET GraphChunks,
         architecture.files = G!AggregateFileGraph(rs, cs),
         relations \subseteq rs, chunks \subseteq cs,
         \A r \in relations : r.from \in chunks /\ (r.to # G!External => r.to \in chunks)
  PROVE  G!FileGraphIsQuotient
<1> DEFINE nodes == G!FileNodes(rs, cs)
           edges == G!FileEdges(rs, cs)
           node(f) == CHOOSE n \in nodes : n.path = PathOf[f]
<1>0. architecture.files.nodes = nodes /\ architecture.files.edges = edges
  BY DEF G!AggregateFileGraph
<1>1. \A n, m \in nodes : n.path = m.path => n = m
  BY OneNodeAPath
<1>2. ASSUME NEW e \in edges
      PROVE  /\ e.source # e.target
             /\ \A f \in {e.source, e.target} : f \in {n.id : n \in nodes} \/ \A c \in chunks : FileOf[c] # f
  <2>1. PICK r \in rs : /\ r.to # G!External
                        /\ e.source = G!Canonical(FileOf[r.from], cs) /\ e.target = G!Canonical(FileOf[r.to], cs)
    BY EdgeIs
  <2>2. e.source # e.target
    BY EdgeIs
  <2>3. ASSUME NEW x, NEW f, f = G!Canonical(FileOf[x], cs)
        PROVE  f \in {n.id : n \in nodes} \/ \A c \in chunks : FileOf[c] # f
    <3>1. CASE FileOf[x] \in {FileOf[c] : c \in cs}
      <4>1. PICK c \in cs : FileOf[c] = FileOf[x]
        BY <3>1
      <4>2. PICK n \in nodes : n.id = G!Canonical(FileOf[c], cs)
        BY <4>1, NodeOf
      <4> QED BY <4>1, <4>2, <2>3
    <3>2. CASE FileOf[x] \notin {FileOf[c] : c \in cs}
      <4>1. f = FileOf[x]
        BY <3>2, <2>3 DEF G!Canonical
      <4> QED BY <4>1, <3>2
    <3> QED BY <3>1, <3>2
  <2> QED BY <2>1, <2>2, <2>3
<1>3. ASSUME NEW r \in relations, r.to # G!External, PathOf[FileOf[r.from]] # PathOf[FileOf[r.to]]
      PROVE  \E e \in edges :
               /\ e.source = node(FileOf[r.from]).id /\ e.target = node(FileOf[r.to]).id
               /\ \A t \in Types :
                    e.counts[t] >= G!Cardinality({q \in G!Lasting(e.source, e.target) : q.type = t})
  <2>1. r \in rs /\ r.from \in cs /\ r.to \in cs
    BY <1>3
  <2>2. ASSUME NEW c \in cs
        PROVE  node(FileOf[c]).id = G!Canonical(FileOf[c], cs) /\ PathOf[G!Canonical(FileOf[c], cs)] = Path(c)
    <3>1. PICK n \in nodes : n.path = Path(c) /\ n.id = G!Canonical(FileOf[c], cs)
      BY NodeOf
    <3>2. node(FileOf[c]) = n
      <4> HIDE DEF nodes
      <4> QED BY <3>1, <1>1 DEF Path
    <3> QED BY <3>1, <3>2, LeastFile
  <2>3. G!Canonical(FileOf[r.from], cs) # G!Canonical(FileOf[r.to], cs)
    BY <2>1, <2>2, <1>3 DEF Path
  <2>4. PICK e \in edges : e.source = G!Canonical(FileOf[r.from], cs) /\ e.target = G!Canonical(FileOf[r.to], cs)
    BY <2>1, <2>3, <1>3, EdgeOf
  <2>5. ASSUME NEW t \in Types
        PROVE  e.counts[t] >= G!Cardinality({q \in G!Lasting(e.source, e.target) : q.type = t})
    <3> DEFINE big == {q \in G!Between(rs, cs, e.source, e.target) : q.type = t}
               small == {q \in G!Lasting(e.source, e.target) : q.type = t}
    <3>1. e.counts[t] = G!Cardinality(big)
      BY EdgeIs
    <3>2. ASSUME NEW q \in small PROVE q \in big
      <4>1. /\ q \in relations /\ q.to # G!External /\ q.type = t
            /\ PathOf[FileOf[q.from]] = PathOf[e.source] /\ PathOf[FileOf[q.to]] = PathOf[e.target]
        BY DEF G!Lasting
      <4>2. q.from \in cs /\ q.to \in cs /\ q \in rs
        BY <4>1
      <4>3. Path(q.from) = Path(r.from) /\ Path(q.to) = Path(r.to)
        BY <4>1, <2>4, <2>1, <2>2 DEF Path
      <4>4. G!Canonical(FileOf[q.from], cs) = e.source /\ G!Canonical(FileOf[q.to], cs) = e.target
        BY <4>2, <4>3, <2>1, <2>4, LeastFile
      <4> QED BY <4>1, <4>2, <4>4 DEF G!Between
    <3>3. big \subseteq Rows
      BY DEF G!Between
    <3>4. IsFiniteSet(Rows)
      BY GraphSize DEF G!GraphAssumption
    <3> HIDE DEF big, small
    <3>5. IsFiniteSet(big)
      BY <3>3, <3>4, FS_Subset
    <3>6. Cardinality(small) <= Cardinality(big)
      BY <3>2, <3>5, FS_Subset
    <3>7. Cardinality(small) \in Nat /\ Cardinality(big) \in Nat
      BY <3>2, <3>5, FS_Subset, FS_CardinalityType
    <3> QED BY <3>1, <3>6, <3>7, GraphSize DEF small
  <2> QED BY <2>1, <2>2, <2>4, <2>5
<1> HIDE DEF nodes, edges
<1> QED BY <1>0, <1>1, <1>2, <1>3 DEF G!FileGraphIsQuotient

LEMMA SymbolIsClosed ==
  ASSUME NEW root, NEW rs, architecture.symbol = G!SymbolGraph(root, rs), architecture.symbol # G!NoSymbol
  PROVE  G!SymbolGraphIsClosed
<1> DEFINE g == G!SymbolGraph(root, rs)
           flow(e) == [source |-> e[1], target |-> e[2], total |-> 1, dominant |-> {e[3]}]
<1>1. g.root = root /\ g.edges = {<<r.from, r.to, r.type>> : r \in {q \in rs : q.from = root} \cup {q \in rs : q.to = root}}
  BY DEF G!SymbolGraph
<1> HIDE DEF g
<1>2. /\ G!Drawn.edges = {flow(e) : e \in g.edges}
      /\ G!Drawn.ids = {g.root} \cup {e[1] : e \in {d \in g.edges : d[2] = g.root}}
                                 \cup {e[2] : e \in {d \in g.edges : d[1] = g.root}}
  BY DEF G!Drawn, G!SymbolFlow, g
<1>3. ASSUME NEW e \in g.edges PROVE e[1] = root \/ e[2] = root
  BY <1>1
<1>4. ASSUME NEW e \in g.edges PROVE {e[1], e[2]} \subseteq G!Drawn.ids
  BY <1>1, <1>2, <1>3
<1>5. \A e : flow(e).source = e[1] /\ flow(e).target = e[2]
  OBVIOUS
<1> HIDE DEF flow
<1> QED BY <1>2, <1>4, <1>5 DEF G!SymbolGraphIsClosed

LEMMA GraphShows == ASSUME G!GraphAssumption, GraphInv PROVE G!GraphHolds
<1>1. G!FileGraphIsQuotient
  <2>1. CASE architecture.files = G!NoGraph
    BY <2>1 DEF G!FileGraphIsQuotient
  <2>2. CASE architecture.files # G!NoGraph
    BY <2>2, QuotientIs DEF GraphInv
  <2> QED BY <2>1, <2>2
<1>2. G!SymbolGraphIsClosed
  <2>1. CASE architecture.symbol = G!NoSymbol
    BY <2>1 DEF G!SymbolGraphIsClosed
  <2>2. CASE architecture.symbol # G!NoSymbol
    BY <2>2, SymbolIsClosed DEF GraphInv
  <2> QED BY <2>1, <2>2
<1> QED BY <1>1, <1>2 DEF G!GraphHolds

(* A page that still shows the same graphs.                                *)
Same(z, y) == IsPage(z) /\ z.files = y.files /\ z.symbol = y.symbol

LEMMA PageIs ==
  \A l, d, e, f, s, p :
    IsPage(PageOf(l, d, e, f, s, p)) /\ PageOf(l, d, e, f, s, p).files = f /\ PageOf(l, d, e, f, s, p).symbol = s
<1> TAKE l, d, e, f, s, p
<1>1. IsPage(PageOf(l, d, e, f, s, p))
  BY Zenon DEF IsPage
<1>2. PageOf(l, d, e, f, s, p).files = f /\ PageOf(l, d, e, f, s, p).symbol = s
  BY DEF PageOf
<1> QED BY <1>1, <1>2

LEMMA PageKeepsGraphs ==
  ASSUME NEW y, IsPage(y), NEW v
  PROVE  /\ Same([y EXCEPT !.loading = v], y) /\ Same([y EXCEPT !.drilling = v], y)
         /\ Same([y EXCEPT !.error = v], y) /\ Same([y EXCEPT !.popover = v], y)
<1>1. PICK l, d, e, f, s, p : y = PageOf(l, d, e, f, s, p)
  BY Zenon DEF IsPage
<1>2. /\ [y EXCEPT !.loading = v] = PageOf(v, d, e, f, s, p)
      /\ [y EXCEPT !.drilling = v] = PageOf(l, v, e, f, s, p)
      /\ [y EXCEPT !.error = v] = PageOf(l, d, v, f, s, p)
      /\ [y EXCEPT !.popover = v] = PageOf(l, d, e, f, s, v)
  BY <1>1 DEF PageOf
<1>3. \A a, b, c, q : Same(PageOf(a, b, c, f, s, q), y)
  BY <1>1, PageIs DEF Same
<1> QED BY <1>2, <1>3

LEMMA PageTakesGraph ==
  ASSUME NEW y, IsPage(y), NEW v
  PROVE  /\ IsPage([y EXCEPT !.files = v]) /\ [y EXCEPT !.files = v].files = v /\ [y EXCEPT !.files = v].symbol = y.symbol
         /\ IsPage([y EXCEPT !.symbol = v]) /\ [y EXCEPT !.symbol = v].symbol = v /\ [y EXCEPT !.symbol = v].files = y.files
<1>1. PICK l, d, e, f, s, p : y = PageOf(l, d, e, f, s, p)
  BY Zenon DEF IsPage
<1>2. /\ [y EXCEPT !.files = v] = PageOf(l, d, e, v, s, p)
      /\ [y EXCEPT !.symbol = v] = PageOf(l, d, e, f, v, p)
  BY <1>1 DEF PageOf
<1>3. y.files = f /\ y.symbol = s
  BY <1>1, PageIs
<1> QED BY <1>2, <1>3, PageIs

LEMMA SameIsTransitive == \A x, y, z : Same(x, y) => IsPage(x) /\ (Same(y, z) => Same(x, z))
BY DEF Same

LEMMA GraphStart == ASSUME G!GraphAssumption, G!Init PROVE GraphInv
<1>1. IsPage(architecture) /\ architecture.files = G!NoGraph /\ architecture.symbol = G!NoSymbol
  BY DEF G!Init, IsPage, PageOf
<1>2. reading.scope = "none" /\ chunks = GraphChunks /\ relations \subseteq Rows
  BY DEF G!Init, G!Idle
<1>3. \A r \in Rows : r.from \in GraphChunks /\ (r.to # G!External => r.to \in GraphChunks)
  BY DEF G!GraphAssumption
<1> QED BY <1>1, <1>2, <1>3 DEF GraphInv

LEMMA GraphStands ==
  ASSUME GraphInv, Same(architecture', architecture), UNCHANGED <<chunks, relations>>,
         reading' = reading \/ reading'.scope # "file"
  PROVE  GraphInv'
BY DEF GraphInv, Same

LEMMA GraphStep ==
  ASSUME G!GraphAssumption, GraphInv, [G!Next]_G!vars
  PROVE  GraphInv'
<1> USE DEF G!Idle
<1>0. IsPage(architecture) /\ Same(architecture, architecture)
  BY DEF GraphInv, Same
<1>1. ASSUME NEW f \in FileIds, G!Reindex(f) PROVE GraphInv'
  BY <1>1 DEF G!Reindex, GraphInv
<1>2. CASE G!ReadRelations
  <2>1. reading'.scope = "file" /\ reading'.read = relations /\ UNCHANGED <<chunks, relations, architecture>>
    BY <1>2 DEF G!ReadRelations
  <2> QED BY <2>1 DEF GraphInv
<1>3. CASE G!LoadFileGraph
  <2> DEFINE g == G!AggregateFileGraph(reading.read, chunks)
  <2>1. PICK y : y = [architecture EXCEPT !.files = g]
    OBVIOUS
  <2>2. architecture' = [y EXCEPT !.loading = FALSE] /\ reading'.scope # "file" /\ UNCHANGED <<chunks, relations>>
        /\ reading.scope = "file"
    BY <1>3, <2>1 DEF G!LoadFileGraph
  <2> HIDE DEF g
  <2>3. IsPage(y) /\ y.files = g /\ y.symbol = architecture.symbol
    BY <1>0, <2>1, PageTakesGraph, Zenon
  <2>4. IsPage(architecture') /\ architecture'.files = g /\ architecture'.symbol = architecture.symbol
    <3>1. Same(architecture', y)
      BY <2>2, <2>3, PageKeepsGraphs, Zenon
    <3> QED BY <2>3, <3>1 DEF Same
  <2>5. reading.read \in SUBSET Rows /\ chunks \in SUBSET GraphChunks /\ relations \subseteq reading.read
    BY <2>2 DEF GraphInv
  <2> QED BY <2>2, <2>4, <2>5 DEF GraphInv, g
<1>4. ASSUME NEW c \in GraphChunks, G!ReadRoot(c) PROVE GraphInv'
  <2>1. CASE UNCHANGED architecture
    <3>1. reading' = reading \/ reading'.scope # "file"
      BY <1>4 DEF G!ReadRoot
    <3> QED BY <1>0, <1>4, <2>1, <3>1, GraphStands DEF G!ReadRoot
  <2>2. CASE architecture' = [architecture EXCEPT !.error = TRUE, !.drilling = FALSE] /\ reading' = G!Idle
    <3>1. PICK y : y = [architecture EXCEPT !.error = TRUE]
      OBVIOUS
    <3>2. architecture' = [y EXCEPT !.drilling = FALSE]
      BY <2>2, <3>1
    <3>3. Same(y, architecture)
      BY <1>0, <3>1, PageKeepsGraphs, Zenon
    <3>3a. Same(architecture', y)
      BY <3>2, <3>3, SameIsTransitive, PageKeepsGraphs, Zenon
    <3>4. Same(architecture', architecture)
      BY <3>3, <3>3a, SameIsTransitive, Zenon
    <3> QED BY <1>4, <2>2, <3>4, GraphStands DEF G!ReadRoot
  <2> QED BY <1>4, <2>1, <2>2 DEF G!ReadRoot
<1>5. ASSUME NEW c \in GraphChunks, G!DrillIntoSymbol(c) PROVE GraphInv'
  <2>1. PICK x : x = [architecture EXCEPT !.popover = G!NoFile]
    OBVIOUS
  <2>2. PICK y : y = [x EXCEPT !.drilling = TRUE]
    OBVIOUS
  <2>3. architecture' = [y EXCEPT !.error = FALSE]
    BY <1>5, <2>1, <2>2 DEF G!DrillIntoSymbol
  <2>4. Same(x, architecture)
    BY <1>0, <2>1, PageKeepsGraphs, Zenon
  <2>4a. Same(y, x)
    BY <2>2, <2>4, SameIsTransitive, PageKeepsGraphs, Zenon
  <2>4b. Same(architecture', y)
    BY <2>3, <2>4a, SameIsTransitive, PageKeepsGraphs, Zenon
  <2>5. Same(architecture', architecture)
    BY <2>4, <2>4a, <2>4b, SameIsTransitive, Zenon
  <2>6. reading'.scope # "file" /\ UNCHANGED <<chunks, relations>>
    BY <1>5 DEF G!DrillIntoSymbol
  <2> QED BY <2>5, <2>6, GraphStands
<1>6. CASE G!LoadSymbolGraph
  <2> DEFINE g == G!SymbolGraph(reading.root, relations)
  <2>1. PICK y : y = [architecture EXCEPT !.symbol = g]
    OBVIOUS
  <2>2. architecture' = [y EXCEPT !.drilling = FALSE] /\ reading'.scope # "file" /\ UNCHANGED <<chunks, relations>>
    BY <1>6, <2>1 DEF G!LoadSymbolGraph
  <2> HIDE DEF g
  <2>3. IsPage(y) /\ y.symbol = g /\ y.files = architecture.files
    BY <1>0, <2>1, PageTakesGraph, Zenon
  <2>4. IsPage(architecture') /\ architecture'.symbol = g /\ architecture'.files = architecture.files
    <3>1. Same(architecture', y)
      BY <2>2, <2>3, PageKeepsGraphs, Zenon
    <3> QED BY <2>3, <3>1 DEF Same
  <2> QED BY <2>2, <2>4 DEF GraphInv, g
<1>7. CASE G!RequestFails
  <2>1. PICK x : x = [architecture EXCEPT !.error = TRUE]
    OBVIOUS
  <2>2. PICK y : y = [x EXCEPT !.loading = FALSE]
    OBVIOUS
  <2>3. architecture' = [y EXCEPT !.drilling = FALSE]
    BY <1>7, <2>1, <2>2 DEF G!RequestFails
  <2>4. Same(x, architecture)
    BY <1>0, <2>1, PageKeepsGraphs, Zenon
  <2>4a. Same(y, x)
    BY <2>2, <2>4, SameIsTransitive, PageKeepsGraphs, Zenon
  <2>4b. Same(architecture', y)
    BY <2>3, <2>4a, SameIsTransitive, PageKeepsGraphs, Zenon
  <2>5. Same(architecture', architecture)
    BY <2>4, <2>4a, <2>4b, SameIsTransitive, Zenon
  <2>6. reading'.scope # "file" /\ UNCHANGED <<chunks, relations>>
    BY <1>7 DEF G!RequestFails
  <2> QED BY <2>5, <2>6, GraphStands
<1>8. CASE G!ClickFile \/ G!ClosePopover
  <2>1. PICK v : architecture' = [architecture EXCEPT !.popover = v]
    BY <1>8 DEF G!ClickFile, G!ClosePopover
  <2>2. Same(architecture', architecture)
    BY <1>0, <2>1, PageKeepsGraphs, Zenon
  <2> QED BY <1>8, <2>2, GraphStands DEF G!ClickFile, G!ClosePopover
<1>9. CASE G!BackToFileView
  <2>1. architecture' = [architecture EXCEPT !.symbol = G!NoSymbol] /\ UNCHANGED <<chunks, relations, reading>>
    BY <1>9 DEF G!BackToFileView
  <2>2. IsPage(architecture') /\ architecture'.symbol = G!NoSymbol /\ architecture'.files = architecture.files
    BY <1>0, <2>1, PageTakesGraph, Zenon
  <2> QED BY <2>1, <2>2 DEF GraphInv
<1>10. CASE UNCHANGED G!vars
  BY <1>0, <1>10, GraphStands DEF G!vars
<1> QED BY <1>1, <1>2, <1>3, <1>4, <1>5, <1>6, <1>7, <1>8, <1>9, <1>10 DEF G!Next

LEMMA GraphKept == ASSUME G!GraphAssumption PROVE G!Spec => []G!GraphHolds
<1>1. G!Init => GraphInv
  BY GraphStart
<1>2. GraphInv /\ [G!Next]_G!vars => GraphInv'
  BY GraphStep
<1>3. GraphInv => G!GraphHolds
  BY GraphShows
<1> QED BY <1>1, <1>2, <1>3, PTL DEF G!Spec

-----------------------------------------------------------------------------
(* The usage page.                                                         *)
Loads     == 1 .. MaxLoads
LoadEnded == [U!Free EXCEPT !.state = "done"]

(* One request is the last: behind it none was sent; it is of the range    *)
(* selected, and when it has ended the page shows an error, or that range  *)
(* and nothing is on its way.                                              *)
IsLast(n) ==
  /\ \A m \in Loads : (loads[m] = U!Free <=> m > n)
  /\ loads[n].state \in {"asked", "answered"} => loads[n].days = range
  /\ loads[n] = LoadEnded => ~adding
  /\ loads[n] = LoadEnded => unadded \/ (data.range = range /\ \A m \in 1 .. n : loads[m] = LoadEnded)

LoadIs(x) ==
  \/ x = U!Free \/ x = LoadEnded
  \/ x.state = "asked" /\ x = [days |-> x.days, state |-> "asked", answer |-> x.answer]
  \/ x.state = "answered" /\ x.answer.range = x.days

LoadsAre == DOMAIN loads = Loads /\ \A n \in Loads : LoadIs(loads[n])

UsageInv ==
  /\ LoadsAre /\ outrun \in BOOLEAN
  /\ outrun \/ \E n \in Loads : IsLast(n)

LEMMA FreeIs ==
  /\ U!Free.state = "unused" /\ LoadEnded.state = "done" /\ U!Free # LoadEnded
  /\ LoadEnded = [days |-> 0, state |-> "done", answer |-> U!NoData]
BY DEF U!Free, LoadEnded

LEMMA FreeAsked ==
  \A d : [[U!Free EXCEPT !.days = d] EXCEPT !.state = "asked"] = [days |-> d, state |-> "asked", answer |-> U!NoData]
<1> DEFINE load(d, s, a) == [days |-> d, state |-> s, answer |-> a]
<1>1. \A x, d, a : x = load(0, "unused", a) => [x EXCEPT !.days = d] = load(d, "unused", a)
  OBVIOUS
<1>2. \A x, d, a : x = load(d, "unused", a) => [x EXCEPT !.state = "asked"] = load(d, "asked", a)
  OBVIOUS
<1>3. U!Free = load(0, "unused", U!NoData)
  BY DEF U!Free
<1> TAKE d
<1> HIDE DEF load
<1>4. PICK y : y = [U!Free EXCEPT !.days = d]
  OBVIOUS
<1>5. y = load(d, "unused", U!NoData)
  BY <1>1, <1>3, <1>4, Zenon
<1>6. [y EXCEPT !.state = "asked"] = load(d, "asked", U!NoData)
  BY <1>2, <1>5
<1> QED BY <1>4, <1>6 DEF load

LEMMA UsageStart ==
  ASSUME U!UsageAssumption, U!Init
  PROVE  UsageInv
<1>1. MaxLoads \in Nat \ {0}
  BY DEF U!UsageAssumption
<1>2. 1 \in Loads
  BY <1>1 DEF Loads
<1> DEFINE x == [U!Free EXCEPT !.days = range, !.state = "asked"]
<1>3. x.state = "asked" /\ x.days = range
  BY DEF U!Free
<1>4. DOMAIN loads = Loads /\ loads[1] = x /\ \A n \in Loads : n # 1 => loads[n] = U!Free
  BY <1>2 DEF U!Init, Loads
<1> HIDE DEF x
<1>5. \A n \in Loads : LoadIs(loads[n])
  <2>1. x = [days |-> range, state |-> "asked", answer |-> U!NoData]
    BY FreeAsked, Zenon DEF x
  <2> QED BY <1>3, <1>4, <2>1 DEF LoadIs
<1>6. x # U!Free /\ x # LoadEnded
  BY <1>3, FreeIs
<1>7. IsLast(1)
  BY <1>3, <1>4, <1>6 DEF IsLast, Loads
<1>8. outrun = FALSE
  BY DEF U!Init
<1> QED BY <1>2, <1>4, <1>5, <1>7, <1>8 DEF UsageInv, LoadsAre

LEMMA LoadStates ==
  ASSUME NEW x, LoadIs(x)
  PROVE  /\ x.state \in {"unused", "asked", "answered", "done"}
         /\ x.state = "unused" <=> x = U!Free
         /\ x.state = "done" <=> x = LoadEnded
BY FreeIs DEF LoadIs

LEMMA SetRangeKeeps ==
  ASSUME UsageInv, MaxLoads \in Nat, NEW days, U!SetRange(days)
  PROVE  UsageInv'
<1>1. PICK n \in 2 .. MaxLoads :
        /\ loads[n] = U!Free /\ loads[n - 1] # U!Free
        /\ loads' = [loads EXCEPT ![n].days = days, ![n].state = "asked"]
  BY DEF U!SetRange
<1>2. n \in Loads /\ n - 1 \in Loads
  BY <1>1 DEF Loads
<1>3. range' = days /\ adding' = TRUE /\ unadded' = FALSE /\ outrun' = outrun /\ data' = data
  BY DEF U!SetRange
<1>4. DOMAIN loads' = Loads /\ \A m \in Loads : m # n => loads'[m] = loads[m]
  BY <1>1, <1>2 DEF UsageInv, LoadsAre
<1>5. loads'[n] = [days |-> days, state |-> "asked", answer |-> U!NoData]
  <2>1. loads'[n] = [[loads[n] EXCEPT !.days = days] EXCEPT !.state = "asked"]
    BY <1>1, <1>2 DEF UsageInv, LoadsAre
  <2> QED BY <2>1, <1>1, FreeAsked, Zenon
<1>6. loads'[n].days = days /\ loads'[n].state = "asked"
  BY <1>5
<1>7. LoadIs(loads'[n]) /\ loads'[n] # U!Free /\ loads'[n] # LoadEnded
  BY <1>5, <1>6, FreeIs DEF LoadIs
<1>8. LoadsAre'
  <2>1. \A m \in Loads : LoadIs(loads'[m])
    BY <1>4, <1>7 DEF UsageInv, LoadsAre
  <2> QED BY <1>4, <2>1 DEF LoadsAre, LoadIs
<1>9. ASSUME NEW l \in Loads, IsLast(l) PROVE IsLast(n)'
  <2>1. l = n - 1
    BY <1>1, <1>2, <1>9 DEF IsLast, Loads
  <2>2. \A m \in Loads : (loads'[m] = U!Free <=> m > n)
    BY <1>2, <1>4, <1>7, <1>9, <2>1 DEF IsLast, Loads
  <2> QED BY <1>3, <1>6, <1>7, <2>2 DEF IsLast
<1> QED BY <1>2, <1>3, <1>8, <1>9 DEF UsageInv

(* A request goes on: it gets an answer, or it ends. The others stay.      *)
LEMMA LoadGoesOn ==
  ASSUME UsageInv, NEW n \in Loads, NEW x, loads' = [loads EXCEPT ![n] = x], LoadIs(x)
  PROVE  /\ LoadsAre' /\ loads'[n] = x /\ \A m \in Loads : m # n => loads'[m] = loads[m]
<1>1. DOMAIN loads' = Loads /\ loads'[n] = x /\ \A m \in Loads : m # n => loads'[m] = loads[m]
  BY DEF UsageInv, LoadsAre
<1>2. \A m \in Loads : LoadIs(loads'[m])
  BY <1>1 DEF UsageInv, LoadsAre
<1> QED BY <1>1, <1>2 DEF LoadsAre, LoadIs

LEMMA AnswerKeepsRange ==
  ASSUME UsageInv, MaxLoads \in Nat, NEW n \in Loads, U!GetUsageSummary(n)
  PROVE  UsageInv'
<1>1. loads[n].state = "asked" /\ UNCHANGED <<logs, range, data, adding, unadded, outrun>>
  BY DEF U!GetUsageSummary
<1>2. PICK x : x = [[loads[n] EXCEPT !.state = "answered"] EXCEPT !.answer = U!Summary(loads[n].days)]
  OBVIOUS
<1>3. loads' = [loads EXCEPT ![n] = x]
  BY <1>2 DEF U!GetUsageSummary, UsageInv, LoadsAre
<1>4. loads[n] = [days |-> loads[n].days, state |-> "asked", answer |-> loads[n].answer]
  BY <1>1, FreeIs DEF UsageInv, LoadsAre, LoadIs
<1>5. x.days = loads[n].days /\ x.state = "answered" /\ x.answer = U!Summary(loads[n].days)
  BY <1>2, <1>4
<1>6. LoadIs(x) /\ x # U!Free /\ x # LoadEnded
  BY <1>5, FreeIs DEF LoadIs, U!Summary
<1>7. LoadsAre' /\ loads'[n] = x /\ \A m \in Loads : m # n => loads'[m] = loads[m]
  BY <1>3, <1>6, LoadGoesOn
<1>8. ASSUME NEW l \in Loads, IsLast(l) PROVE IsLast(l)'
  <2>1. loads[n] # U!Free /\ loads[n] # LoadEnded
    BY <1>1, FreeIs
  <2>2. \A m \in Loads : (loads'[m] = U!Free <=> m > l)
    BY <1>6, <1>7, <1>8, <2>1 DEF IsLast
  <2>3. loads'[l].state \in {"asked", "answered"} => loads'[l].days = range
    BY <1>1, <1>5, <1>7, <1>8 DEF IsLast
  <2>4. loads'[l] = LoadEnded =>
          l # n /\ ~adding /\ (unadded \/ (data.range = range /\ \A m \in 1 .. l : loads[m] = LoadEnded))
    BY <1>6, <1>7, <1>8 DEF IsLast
  <2>5. (\A m \in 1 .. l : loads[m] = LoadEnded) => \A m \in 1 .. l : loads'[m] = LoadEnded
    BY <1>7, <2>1 DEF Loads
  <2> QED BY <1>1, <2>2, <2>3, <2>4, <2>5 DEF IsLast
<1> QED BY <1>1, <1>7, <1>8 DEF UsageInv

(* A request ends: the last one decides what is shown, and one before it   *)
(* comes too late only if the last did not wait for it.                    *)
LEMMA EndKeepsRange ==
  ASSUME UsageInv, MaxLoads \in Nat, NEW n \in Loads, loads[n].state \in {"asked", "answered"},
         loads' = [loads EXCEPT ![n] = LoadEnded], adding' = FALSE, UNCHANGED range,
         \/ unadded' = TRUE /\ UNCHANGED <<data, outrun>>
         \/ /\ unadded' = unadded /\ data'.range = loads[n].days
            /\ outrun' = (outrun \/ \E m \in 1 .. n - 1 : loads[m].state # "done")
  PROVE  UsageInv'
<1>1. LoadIs(LoadEnded)
  BY DEF LoadIs
<1>2. LoadsAre' /\ loads'[n] = LoadEnded /\ \A m \in Loads : m # n => loads'[m] = loads[m]
  BY <1>1, LoadGoesOn
<1>3. outrun' \in BOOLEAN
  BY DEF UsageInv
<1>4. ASSUME NEW l \in Loads, IsLast(l), ~outrun' PROVE IsLast(l)'
  <2>1. loads[n] # U!Free /\ loads[n] # LoadEnded /\ LoadEnded # U!Free
    BY FreeIs
  <2>2. \A m \in Loads : (loads'[m] = U!Free <=> m > l)
    BY <1>2, <1>4, <2>1 DEF IsLast
  <2>3. CASE l = n
    <3>1. CASE unadded' = TRUE
      BY <1>2, <2>2, <2>3, <3>1, FreeIs DEF IsLast
    <3>2. CASE /\ unadded' = unadded /\ data'.range = loads[n].days
               /\ outrun' = (outrun \/ \E m \in 1 .. n - 1 : loads[m].state # "done")
      <4>0. \A m \in 1 .. n - 1 : loads[m].state = "done"
        BY <1>4, <3>2, Zenon
      <4>1. \A m \in 1 .. n - 1 : m \in Loads /\ loads[m].state = "done"
        BY <4>0 DEF Loads
      <4>2. \A m \in 1 .. n - 1 : m \in Loads /\ m # n /\ loads[m] = LoadEnded
        BY <4>1, LoadStates DEF UsageInv, LoadsAre
      <4>3. \A m \in 1 .. n : loads'[m] = LoadEnded
        BY <1>2, <4>2 DEF Loads
      <4>4. data'.range = range /\ loads'[l].state = "done"
        BY <1>2, <1>4, <2>3, <3>2, FreeIs DEF IsLast
      <4> QED BY <2>2, <2>3, <4>3, <4>4 DEF IsLast
    <3> QED BY <3>1, <3>2
  <2>4. CASE l # n
    <3>1. n < l /\ loads'[l] = loads[l]
      BY <1>2, <1>4, <2>1, <2>4 DEF IsLast, Loads
    <3>2. loads[l] = LoadEnded => unadded
      BY <1>4, <2>1, <3>1 DEF IsLast, Loads
    <3>3. unadded => unadded'
      BY Zenon
    <3>4. loads[l] = LoadEnded => unadded'
      BY <3>2, <3>3, Zenon
    <3> QED BY <1>4, <2>2, <3>1, <3>4 DEF IsLast
  <2> QED BY <2>3, <2>4
<1>5. outrun => outrun'
  BY DEF UsageInv
<1> QED BY <1>2, <1>3, <1>4, <1>5 DEF UsageInv

LEMMA UsageStep ==
  ASSUME U!UsageAssumption, UsageInv, [U!Next]_U!vars
  PROVE  UsageInv'
<1>0. MaxLoads \in Nat
  BY DEF U!UsageAssumption
<1>1. ASSUME UNCHANGED <<range, loads, data, adding, unadded, outrun>> PROVE UsageInv'
  BY <1>1 DEF UsageInv, LoadsAre, LoadIs, IsLast
<1>2. ASSUME NEW days \in RangeOptions, U!SetRange(days) PROVE UsageInv'
  BY <1>0, <1>2, SetRangeKeeps
<1>3. ASSUME NEW n \in Loads, U!GetUsageSummary(n) PROVE UsageInv'
  BY <1>0, <1>3, AnswerKeepsRange
<1>4. ASSUME NEW n \in Loads, U!Arrives(n) PROVE UsageInv'
  <2>1. /\ loads[n].state = "answered" /\ data' = loads[n].answer /\ adding' = FALSE
        /\ loads' = [loads EXCEPT ![n] = LoadEnded] /\ UNCHANGED <<range, unadded>>
        /\ outrun' = (outrun \/ \E m \in 1 .. n - 1 : loads[m].state # "done")
    BY <1>4 DEF U!Arrives, LoadEnded
  <2>2. data'.range = loads[n].days
    BY <2>1, FreeIs DEF UsageInv, LoadsAre, LoadIs
  <2> QED BY <1>0, <2>1, <2>2, EndKeepsRange
<1>5. ASSUME NEW n \in Loads, U!Fails(n) PROVE UsageInv'
  <2>1. /\ loads[n].state = "asked" /\ unadded' = TRUE /\ adding' = FALSE
        /\ loads' = [loads EXCEPT ![n] = LoadEnded] /\ UNCHANGED <<range, data, outrun>>
    BY <1>5 DEF U!Fails, LoadEnded
  <2> QED BY <1>0, <2>1, EndKeepsRange
<1>6. U!Spend \/ UNCHANGED U!vars => UNCHANGED <<range, loads, data, adding, unadded, outrun>>
  BY DEF U!Spend, U!vars
<1> QED
  BY <1>1, <1>2, <1>3, <1>4, <1>5, <1>6 DEF U!Next, Loads

LEMMA UsageKept ==
  ASSUME U!UsageAssumption
  PROVE  U!Spec => []U!UsageIsOfRange
<1>1. U!Init => UsageInv
  BY UsageStart
<1>2. UsageInv /\ [U!Next]_U!vars => UsageInv'
  BY UsageStep
<1>3. UsageInv => U!UsageIsOfRange
  <2> SUFFICES ASSUME UsageInv, ~outrun, \A n \in Loads : loads[n].state \in {"unused", "done"}
               PROVE  U!View = "error" \/ (U!View \in {"empty", "summary"} /\ data.range = range)
    BY DEF U!UsageIsOfRange, Loads
  <2>1. PICK l \in Loads : IsLast(l)
    BY DEF UsageInv
  <2>2. loads[l] # U!Free
    BY <2>1 DEF IsLast, Loads
  <2>3. loads[l] = LoadEnded
    BY <2>2, LoadStates DEF UsageInv, LoadsAre
  <2> QED BY <2>1, <2>3 DEF IsLast, U!View
<1> QED BY <1>1, <1>2, <1>3, PTL DEF U!Spec

-----------------------------------------------------------------------------
(* A behaviour of the whole is one of each component.                      *)
LEMMA Components ==
  LibrarySpec => R!Spec /\ G!Spec /\ I!Spec /\ C!Spec /\ V!Spec /\ L!Spec /\ U!Spec
<1> DEFINE all == <<turn, retrieval, graph, review, panel, page, list, usage>>
<1>1. LibraryInit => R!Init /\ G!Init /\ I!Init /\ C!Init /\ V!Init /\ L!Init /\ U!Init
  BY DEF LibraryInit
<1> USE DEF retrieval, graph, review, panel, page, list, usage,
            R!vars, G!vars, I!vars, C!vars, V!vars, L!vars, U!vars
<1>2. [LibraryNext]_all => [R!Next]_R!vars
  BY DEF LibraryNext
<1>3. [LibraryNext]_all => [G!Next]_G!vars
  BY DEF LibraryNext
<1>4. [LibraryNext]_all => [I!Next]_I!vars
  BY DEF LibraryNext
<1>5. [LibraryNext]_all => [C!Next]_C!vars
  BY DEF LibraryNext
<1>6. [LibraryNext]_all => [V!Next]_V!vars
  BY DEF LibraryNext
<1>7. [LibraryNext]_all => [L!Next]_L!vars
  BY DEF LibraryNext
<1>8. [LibraryNext]_all => [U!Next]_U!vars
  BY DEF LibraryNext
<1> HIDE DEF all
<1> QED
  BY <1>1, <1>2, <1>3, <1>4, <1>5, <1>6, <1>7, <1>8, PTL
     DEF LibrarySpec, all, R!Spec, G!Spec, I!Spec, C!Spec, V!Spec, L!Spec, U!Spec

(* Whatever comes between two reads, clicks or answers, the graph is the   *)
(* quotient of its rows, and the citation panel and the diff are of what   *)
(* was clicked last: PagesShowWhatIs (the graph service and the pages of   *)
(* the client).                                                            *)
THEOREM PagesShow == LibrarySpec => []PagesShowWhatIs
<1>1. G!GraphAssumption
  BY LibraryAssumption
<1>2. LibrarySpec => []G!GraphHolds
  BY <1>1, Components, GraphKept, PTL
<1>3. LibrarySpec => []C!PanelIsCurrent
  BY Components, PanelKept, PTL
<1>4. LibrarySpec => []V!DiffIsOfItsFinding
  BY Components, PageKept, PTL
<1> QED
  BY <1>2, <1>3, <1>4, PTL DEF PagesShowWhatIs

(* As long as no answer overtakes another, a list that stops asking leaves *)
(* no row waiting, unless a push restarted a review or MAX_POLLS ended it, *)
(* and when its requests have ended a usage page shows the range selected  *)
(* or an error: LoadsEnd (PullRequests.tsx and UsageDashboard.tsx).        *)
THEOREM PagesEnd == LibrarySpec => []LoadsEnd
<1>1. U!UsageAssumption
  BY LibraryAssumption
<1>2. LibrarySpec => []L!NoSpinnerStays
  BY Components, ListKept, PTL
<1>3. LibrarySpec => []U!UsageIsOfRange
  BY <1>1, Components, UsageKept, PTL
<1> QED
  BY <1>2, <1>3, PTL DEF LoadsEnd

-----------------------------------------------------------------------------
LEMMA Induction ==
  ASSUME NEW T, 0 \in T, \A n \in Nat : n \in T => n + 1 \in T
  PROVE  \A n \in Nat : n \in T
<1> SUFFICES ASSUME NEW m \in Nat, m \notin T PROVE FALSE
  OBVIOUS
<1> DEFINE F == {n \in Nat : n \notin T}
<1>1. PICK n \in F : \A k \in F : n <= k
  <2>1. F \subseteq Nat /\ F # {}
    OBVIOUS
  <2> HIDE DEF F
  <2> QED BY <2>1, Least
<1>2. n # 0 /\ n - 1 \in Nat
  BY <1>1
<1>3. n - 1 \in T
  BY <1>1, <1>2
<1> QED BY <1>1, <1>2, <1>3

-----------------------------------------------------------------------------
(* Those of a sequence that are in a set.                                  *)
Keeps(k, s, S, n) ==
  k = [m \in 0 .. n |->
         IF m = 0 THEN <<>>
         ELSE IF s[m] \in S THEN Append(k[m - 1], s[m]) ELSE k[m - 1]]

LEMMA ThoseIs == \A s, S : R!Those(s, S) = (CHOOSE k : Keeps(k, s, S, Len(s)))[Len(s)]
BY DEF R!Those, Keeps

LEMMA KeepsExists ==
  ASSUME NEW s, NEW S
  PROVE  \A n \in Nat : \E k : Keeps(k, s, S, n)
<1> DEFINE T == {n \in Nat : \E k : Keeps(k, s, S, n)}
<1>1. 0 \in T
  <2> DEFINE k == [m \in 0 .. 0 |-> <<>>]
  <2>1. Keeps(k, s, S, 0)
    BY DEF Keeps
  <2> QED BY <2>1
<1>2. ASSUME NEW n \in Nat, n \in T PROVE n + 1 \in T
  <2>1. PICK k : Keeps(k, s, S, n)
    BY <1>2
  <2> DEFINE next == IF s[n + 1] \in S THEN Append(k[n], s[n + 1]) ELSE k[n]
             l == [m \in 0 .. n + 1 |-> IF m = n + 1 THEN next ELSE k[m]]
  <2>2. \A m \in 0 .. n : l[m] = k[m]
    OBVIOUS
  <2>3. \A m \in 0 .. n : k[m] = IF m = 0 THEN <<>> ELSE IF s[m] \in S THEN Append(k[m - 1], s[m]) ELSE k[m - 1]
    BY <2>1 DEF Keeps
  <2>4. l[n + 1] = next
    OBVIOUS
  <2> DEFINE r(m) == IF m = 0 THEN <<>> ELSE IF s[m] \in S THEN Append(l[m - 1], s[m]) ELSE l[m - 1]
  <2>5. ASSUME NEW m \in 0 .. n + 1 PROVE l[m] = r(m)
    <3>1. CASE m = n + 1
      <4>1. l[m - 1] = k[n] /\ m # 0
        BY <3>1, <2>2
      <4> HIDE DEF l
      <4> QED BY <3>1, <4>1, <2>4
    <3>2. CASE m # n + 1
      <4>1. m \in 0 .. n /\ (m # 0 => m - 1 \in 0 .. n)
        BY <3>2
      <4> HIDE DEF l
      <4> QED BY <4>1, <2>2, <2>3
    <3> QED BY <3>1, <3>2
  <2>6. Keeps(l, s, S, n + 1)
    <3>1. l = [m \in 0 .. n + 1 |-> l[m]]
      OBVIOUS
    <3> HIDE DEF l
    <3>2. [m \in 0 .. n + 1 |-> l[m]] = [m \in 0 .. n + 1 |-> r(m)]
      BY <2>5
    <3> QED BY <3>1, <3>2 DEF Keeps
  <2> QED BY <2>6
<1> HIDE DEF T
<1>3. \A n \in Nat : n \in T
  BY <1>1, <1>2, Induction
<1> QED BY <1>3 DEF T

LEMMA ThoseAre ==
  ASSUME NEW X, NEW s \in Seq(X), NEW S
  PROVE  /\ R!Those(s, S) \in Seq(X)
         /\ R!ToSet(R!Those(s, S)) = R!ToSet(s) \cap S
<1>1. PICK k : Keeps(k, s, S, Len(s)) /\ R!Those(s, S) = k[Len(s)]
  <2>1. Len(s) \in Nat
    OBVIOUS
  <2>2. \E k : Keeps(k, s, S, Len(s))
    BY <2>1, KeepsExists
  <2> QED BY <2>2, ThoseIs
<1>2. \A m \in 0 .. Len(s) : k[m] = IF m = 0 THEN <<>> ELSE IF s[m] \in S THEN Append(k[m - 1], s[m]) ELSE k[m - 1]
  BY <1>1 DEF Keeps
<1> DEFINE elements(q) == {q[i] : i \in 1 .. Len(q)}
           before(n) == {s[i] : i \in 1 .. n}
           P(n) == k[n] \in Seq(X) /\ elements(k[n]) = before(n) \cap S
           T == {n \in Nat : n <= Len(s) => P(n)}
<1>3. P(0)
  <2>1. k[0] = <<>>
    BY <1>2
  <2>2. elements(<<>>) = {} /\ before(0) = {} /\ <<>> \in Seq(X)
    OBVIOUS
  <2> HIDE DEF elements, before
  <2> QED BY <2>1, <2>2
<1>4. ASSUME NEW n \in Nat, n + 1 <= Len(s), P(n) PROVE P(n + 1)
  <2>1. k[n] \in Seq(X) /\ elements(k[n]) = before(n) \cap S
    BY <1>4
  <2>2. s[n + 1] \in X /\ before(n + 1) = before(n) \cup {s[n + 1]}
    BY <1>4
  <2>3. k[n + 1] = IF s[n + 1] \in S THEN Append(k[n], s[n + 1]) ELSE k[n]
    <3>1. n + 1 \in 0 .. Len(s) /\ n + 1 # 0 /\ (n + 1) - 1 = n
      BY <1>4
    <3> QED BY <3>1, <1>2
  <2>4. \A q \in Seq(X), x \in X : Append(q, x) \in Seq(X) /\ elements(Append(q, x)) = elements(q) \cup {x}
    OBVIOUS
  <2> HIDE DEF elements, before
  <2>5. CASE s[n + 1] \in S
    BY <2>1, <2>2, <2>3, <2>4, <2>5
  <2>6. CASE s[n + 1] \notin S
    BY <2>1, <2>2, <2>3, <2>6
  <2> QED BY <2>5, <2>6
<1>5. P(Len(s))
  <2> HIDE DEF P
  <2>1. 0 \in T
    BY <1>3
  <2>2. \A n \in Nat : n \in T => n + 1 \in T
    BY <1>4
  <2>3. Len(s) \in T
    <3> HIDE DEF T
    <3>1. Len(s) \in Nat
      OBVIOUS
    <3> QED BY <3>1, <2>1, <2>2, Induction
  <2> QED BY <2>3
<1>6. \A q \in Seq(X) : R!ToSet(q) = elements(q)
  BY DEF R!ToSet
<1>7. before(Len(s)) = elements(s)
  OBVIOUS
<1> HIDE DEF elements, before
<1> QED BY <1>1, <1>5, <1>6, <1>7

-----------------------------------------------------------------------------
(* The order of a finite set.                                              *)
Orders(O, S) ==
  /\ \A a, b \in S : a # b => <<a, b>> \in O \/ <<b, a>> \in O
  /\ \A a, b, c \in S : <<a, b>> \in O /\ <<b, c>> \in O => <<a, c>> \in O
  /\ \A a \in S : <<a, a>> \notin O

LEMMA LastExists ==
  ASSUME NEW S0, IsFiniteSet(S0), S0 # {}, NEW O, Orders(O, S0)
  PROVE  \E m \in S0 : \A x \in S0 : x # m => <<x, m>> \in O
<1> DEFINE has(S) == \E m \in S : \A x \in S : x # m => <<x, m>> \in O
           F == {S \in SUBSET S0 : S # {} /\ ~has(S)}
<1> SUFFICES ASSUME ~has(S0) PROVE FALSE
  OBVIOUS
<1>1. PICK S \in F : \A t \in SUBSET S : t # S => t \notin F
  <2>1. F \subseteq SUBSET S0 /\ F # {}
    OBVIOUS
  <2> HIDE DEF F
  <2> QED BY <2>1, Smallest
<1>2. S \in SUBSET S0 /\ S # {} /\ ~has(S)
  BY <1>1
<1>3. PICK y \in S : TRUE
  BY <1>2
<1>4. S \ {y} # {}
  BY <1>2, <1>3
<1>5. has(S \ {y})
  <2>1. S \ {y} \in SUBSET S /\ S \ {y} # S
    BY <1>3
  <2> HIDE DEF has
  <2> QED BY <1>1, <1>2, <1>4, <2>1
<1>6. PICK m \in S \ {y} : \A x \in S \ {y} : x # m => <<x, m>> \in O
  BY <1>5
<1>7. CASE <<y, m>> \in O
  BY <1>2, <1>6, <1>7
<1>8. CASE <<m, y>> \in O
  <2>1. \A x \in S : x # y => <<x, y>> \in O
    BY <1>2, <1>3, <1>6, <1>8 DEF Orders
  <2> QED BY <1>2, <1>3, <2>1
<1> QED BY <1>2, <1>3, <1>6, <1>7, <1>8 DEF Orders

IsSorted(s, S, O) ==
  s \in [1 .. Cardinality(S) -> S] /\ \A i, j \in 1 .. Cardinality(S) : i < j => <<s[i], s[j]>> \in O

LEMMA SortExists ==
  ASSUME NEW S0, IsFiniteSet(S0), NEW O, Orders(O, S0)
  PROVE  \E s : IsSorted(s, S0, O)
<1> DEFINE F == {S \in SUBSET S0 : ~ \E s : IsSorted(s, S, O)}
<1> SUFFICES ASSUME ~ \E s : IsSorted(s, S0, O) PROVE FALSE
  OBVIOUS
<1>1. PICK S \in F : \A t \in SUBSET S : t # S => t \notin F
  <2>1. F \subseteq SUBSET S0 /\ F # {}
    OBVIOUS
  <2> HIDE DEF F
  <2> QED BY <2>1, Smallest
<1>2. S \in SUBSET S0 /\ IsFiniteSet(S) /\ ~ \E s : IsSorted(s, S, O)
  BY <1>1, FS_Subset
<1>3. S # {}
  <2> SUFFICES ASSUME S = {} PROVE FALSE
    OBVIOUS
  <2>1. Cardinality(S) = 0
    BY FS_EmptySet
  <2> DEFINE s == [i \in 1 .. 0 |-> i]
  <2>2. IsSorted(s, S, O)
    BY <2>1 DEF IsSorted
  <2> QED BY <1>2, <2>2
<1>4. PICK m \in S : \A x \in S : x # m => <<x, m>> \in O
  <2>1. Orders(O, S)
    BY <1>2 DEF Orders
  <2> QED BY <1>2, <1>3, <2>1, LastExists
<1> DEFINE T == S \ {m}  n == Cardinality(T)
<1>5. PICK s : IsSorted(s, T, O)
  <2>1. T \in SUBSET S /\ T # S
    BY <1>4
  <2> QED BY <1>1, <1>2, <2>1
<1>6. IsFiniteSet(T) /\ n \in Nat /\ Cardinality(S) = n + 1
  <2>1. IsFiniteSet(T) /\ n = Cardinality(S) - 1
    BY <1>2, <1>4, FS_RemoveElement
  <2>2. Cardinality(S) \in Nat /\ n \in Nat
    BY <1>2, <2>1, FS_CardinalityType
  <2> QED BY <2>1, <2>2
<1> DEFINE z == [i \in 1 .. n + 1 |-> IF i = n + 1 THEN m ELSE s[i]]
<1>7. IsSorted(z, S, O)
  <2> HIDE DEF n
  <2>1. s \in [1 .. n -> T] /\ \A i, j \in 1 .. n : i < j => <<s[i], s[j]>> \in O
    BY <1>5 DEF IsSorted, n
  <2>2. z \in [1 .. n + 1 -> S]
    BY <1>4, <1>6, <2>1
  <2>3. ASSUME NEW i \in 1 .. n + 1, NEW j \in 1 .. n + 1, i < j PROVE <<z[i], z[j]>> \in O
    <3>1. i \in 1 .. n /\ z[i] = s[i] /\ s[i] \in T
      BY <1>6, <2>1, <2>3
    <3>2. CASE j = n + 1
      <4>1. z[j] = m
        BY <3>2
      <4> QED BY <1>4, <3>1, <4>1
    <3>3. CASE j # n + 1
      <4>1. j \in 1 .. n /\ z[j] = s[j]
        BY <1>6, <3>3
      <4> HIDE DEF z
      <4> QED BY <2>1, <2>3, <3>1, <4>1
    <3> QED BY <3>2, <3>3
  <2> HIDE DEF z
  <2> QED BY <1>6, <2>2, <2>3 DEF IsSorted
<1> QED BY <1>2, <1>7

(* Each element has its place.                                             *)
LEMMA SortedHasAll ==
  ASSUME NEW S, IsFiniteSet(S), NEW O, Orders(O, S), NEW s, IsSorted(s, S, O)
  PROVE  /\ \A x \in S : \E i \in 1 .. Cardinality(S) : s[i] = x
         /\ \A i, j \in 1 .. Cardinality(S) : <<s[i], s[j]>> \in O => i < j
<1> DEFINE n == Cardinality(S)
<1>1. n \in Nat
  BY FS_CardinalityType
<1>2. s \in [1 .. n -> S] /\ \A i, j \in 1 .. n : i < j => <<s[i], s[j]>> \in O
  BY DEF IsSorted
<1> HIDE DEF n
<1>3. \A i, j \in 1 .. n : <<s[i], s[j]>> \in O => i < j
  <2> SUFFICES ASSUME NEW i \in 1 .. n, NEW j \in 1 .. n, <<s[i], s[j]>> \in O, ~(i < j) PROVE FALSE
    OBVIOUS
  <2>1. s[i] \in S /\ s[j] \in S
    BY <1>2
  <2>2. i # j
    BY <2>1 DEF Orders
  <2>3. j < i
    BY <1>1, <2>2
  <2>4. <<s[j], s[i]>> \in O
    BY <1>2, <2>3
  <2>5. <<s[i], s[i]>> \in O
    BY <2>1, <2>4 DEF Orders
  <2> QED BY <2>1, <2>5 DEF Orders
<1>4. \A i, j \in 1 .. n : s[i] = s[j] => i = j
  <2> SUFFICES ASSUME NEW i \in 1 .. n, NEW j \in 1 .. n, s[i] = s[j], i < j PROVE FALSE
    BY <1>1
  <2>1. <<s[i], s[j]>> \in O /\ s[i] \in S
    BY <1>2
  <2> QED BY <2>1 DEF Orders
<1>5. s \in Injection(1 .. n, S)
  BY <1>2, <1>4 DEF Injection, IsInjective
<1>6. s \in Surjection(1 .. n, S)
  <2>1. Cardinality(1 .. n) = n
    BY <1>1, FS_Interval
  <2> QED BY <1>5, <2>1, FS_Injection DEF n
<1> QED BY <1>3, <1>6 DEF Surjection, n

-----------------------------------------------------------------------------
(* Fractions, which the scores are.                                        *)
Fraction(p) == p.num \in Nat /\ p.den \in Nat \ {0}

LEMMA Multiply ==
  \A x, y \in Nat : \A z \in Nat \ {0} :
    /\ x * z \in Nat /\ (x > y => x * z > y * z)
    /\ (x >= y => x * z >= y * z) /\ (x * z > y * z => x > y) /\ (x * z >= y * z => x >= y)
<1> TAKE x, y \in Nat
<1> TAKE z \in Nat \ {0}
<1>1. x * z \in Nat /\ y * z \in Nat
  OBVIOUS
<1>2. x > y => x * z > y * z
  OBVIOUS
<1>3. y > x => y * z > x * z
  OBVIOUS
<1>4. x = y => x * z = y * z
  OBVIOUS
<1> QED BY <1>1, <1>2, <1>3, <1>4

LEMMA AboveIsTransitive ==
  ASSUME NEW p, NEW q, NEW r, Fraction(p), Fraction(q), Fraction(r), ~R!Above(q, p), ~R!Above(r, q)
  PROVE  ~R!Above(r, p) /\ (R!Above(p, q) \/ R!Above(q, r) => R!Above(p, r))
<1>1. PICK a \in Nat, b \in Nat \ {0} : p.num = a /\ p.den = b
  BY DEF Fraction
<1>2. PICK c \in Nat, d \in Nat \ {0} : q.num = c /\ q.den = d
  BY DEF Fraction
<1>3. PICK e \in Nat, f \in Nat \ {0} : r.num = e /\ r.den = f
  BY DEF Fraction
<1>4. a * d \in Nat /\ c * b \in Nat /\ c * f \in Nat /\ e * d \in Nat /\ a * f \in Nat /\ e * b \in Nat
  OBVIOUS
<1>5. a * d >= c * b /\ c * f >= e * d
  BY <1>1, <1>2, <1>3, <1>4 DEF R!Above
<1>6. (a * d) * f = (a * f) * d /\ (c * b) * f = (c * f) * b /\ (e * d) * b = (e * b) * d
  OBVIOUS
<1>7. (a * d) * f >= (c * b) * f /\ (c * f) * b >= (e * d) * b
  BY <1>4, <1>5, Multiply
<1>8. (a * f) * d >= (e * b) * d /\ (a * f) * d \in Nat /\ (e * b) * d \in Nat
  BY <1>4, <1>6, <1>7, Multiply
<1>9. a * f >= e * b
  BY <1>4, <1>8, Multiply
<1>10. ASSUME a * d > c * b PROVE a * f > e * b
  <2>1. (a * d) * f > (c * b) * f
    BY <1>4, <1>10, Multiply
  <2>2. (a * f) * d > (e * b) * d
    BY <1>4, <1>6, <1>7, <2>1, Multiply
  <2> QED BY <1>4, <2>2, Multiply
<1>11. ASSUME c * f > e * d PROVE a * f > e * b
  <2>1. (c * f) * b > (e * d) * b
    BY <1>4, <1>11, Multiply
  <2>2. (a * f) * d > (e * b) * d
    BY <1>4, <1>6, <1>7, <2>1, Multiply
  <2> QED BY <1>4, <2>2, Multiply
<1> QED BY <1>1, <1>2, <1>3, <1>4, <1>9, <1>10, <1>11 DEF R!Above

(* More of one and no less of the other is more in all.                    *)
LEMMA AboveAdds ==
  ASSUME NEW p, NEW q, NEW r, NEW s, Fraction(p), Fraction(q), Fraction(r), Fraction(s),
         ~R!Above(r, p), ~R!Above(s, q), R!Above(p, r) \/ R!Above(q, s)
  PROVE  R!Above(R!Plus(p, q), R!Plus(r, s))
<1>1. PICK a \in Nat, b \in Nat \ {0} : p.num = a /\ p.den = b
  BY DEF Fraction
<1>2. PICK c \in Nat, d \in Nat \ {0} : q.num = c /\ q.den = d
  BY DEF Fraction
<1>3. PICK e \in Nat, f \in Nat \ {0} : r.num = e /\ r.den = f
  BY DEF Fraction
<1>4. PICK g \in Nat, h \in Nat \ {0} : s.num = g /\ s.den = h
  BY DEF Fraction
<1>5. a * f \in Nat /\ e * b \in Nat /\ c * h \in Nat /\ g * d \in Nat /\ d * h \in Nat \ {0} /\ b * f \in Nat \ {0}
  <2>1. a * f \in Nat /\ e * b \in Nat /\ c * h \in Nat /\ g * d \in Nat
    OBVIOUS
  <2>2. d * h > 0 /\ b * f > 0 /\ d * h \in Nat /\ b * f \in Nat
    OBVIOUS
  <2> QED BY <2>1, <2>2
<1>6. a * f >= e * b /\ c * h >= g * d /\ (a * f > e * b \/ c * h > g * d)
  BY <1>1, <1>2, <1>3, <1>4, <1>5 DEF R!Above
<1> DEFINE A == (a * f) * (d * h)  B == (c * h) * (b * f)  C1 == (e * b) * (d * h)  D1 == (g * d) * (b * f)
<1>7. /\ A \in Nat /\ B \in Nat /\ C1 \in Nat /\ D1 \in Nat
      /\ A >= C1 /\ B >= D1 /\ (A > C1 \/ B > D1)
  <2>1. A >= C1 /\ (a * f > e * b => A > C1) /\ A \in Nat /\ C1 \in Nat
    BY <1>5, <1>6, Multiply
  <2>2. B >= D1 /\ (c * h > g * d => B > D1) /\ B \in Nat /\ D1 \in Nat
    BY <1>5, <1>6, Multiply
  <2> QED BY <1>6, <2>1, <2>2
<1>8. (a * d + c * b) * (f * h) = A + B
  OBVIOUS
<1>9. (e * h + g * f) * (b * d) = C1 + D1
  OBVIOUS
<1> HIDE DEF A, B, C1, D1
<1>10. A + B > C1 + D1
  BY <1>7
<1> QED BY <1>1, <1>2, <1>3, <1>4, <1>8, <1>9, <1>10 DEF R!Above, R!Plus
-----------------------------------------------------------------------------
(* The rankings and what the fusion makes of them.                         *)
Ranking(s) == s \in Seq(FoundChunks) /\ Len(s) <= TopK

LEMMA Tops == TopK \in Nat \ {0} /\ FinalK \in 1 .. TopK /\ FinalK \in Nat /\ FinalK # 0
BY LibraryAssumption DEF R!RetrievalAssumption

LEMMA RankingsAre ==
  ASSUME NEW S \in SUBSET FoundChunks, NEW s \in R!Rankings(S)
  PROVE  Ranking(s)
<1>1. PICK n \in 0 .. TopK : s \in {q \in [1 .. n -> S] : R!IsInjective(q)}
  BY DEF R!Rankings
<1>2. n \in Nat /\ n <= TopK /\ s \in [1 .. n -> S]
  BY <1>1, Tops
<1>3. s \in [1 .. n -> FoundChunks]
  BY <1>2
<1> QED BY <1>2, <1>3 DEF Ranking

LEMMA RankOf ==
  ASSUME NEW X, NEW s \in Seq(X), NEW c \in R!ToSet(s)
  PROVE  R!RankIn(s, c) \in 1 .. Len(s) /\ s[R!RankIn(s, c)] = c
<1>1. \E i \in DOMAIN s : s[i] = c
  BY DEF R!ToSet
<1>2. DOMAIN s = 1 .. Len(s)
  OBVIOUS
<1> QED BY <1>1, <1>2 DEF R!RankIn

LEMMA TermIs ==
  ASSUME NEW s, Ranking(s), NEW k \in Nat \ {0}, NEW c
  PROVE  Fraction(R!Term(s, k, c))
<1>1. CASE c \in R!ToSet(s)
  <2>1. R!RankIn(s, c) \in Nat
    BY <1>1, RankOf DEF Ranking
  <2> QED BY <1>1, <2>1 DEF R!Term, Fraction
<1>2. CASE c \notin R!ToSet(s)
  BY <1>2 DEF R!Term, Fraction
<1> QED BY <1>1, <1>2

(* A term follows the place.                                               *)
LEMMA TermFollows ==
  ASSUME NEW s, Ranking(s), NEW k \in Nat \ {0}, NEW a, NEW b, R!Place(s, a) <= R!Place(s, b)
  PROVE  /\ ~R!Above(R!Term(s, k, b), R!Term(s, k, a))
         /\ R!Place(s, a) < R!Place(s, b) => R!Above(R!Term(s, k, a), R!Term(s, k, b))
<1>1. \A c \in R!ToSet(s) : R!RankIn(s, c) \in Nat /\ R!RankIn(s, c) <= TopK
  BY Tops, RankOf DEF Ranking
<1>2. \A c \in R!ToSet(s) : R!Place(s, c) = R!RankIn(s, c) /\ R!Term(s, k, c) = [num |-> 1, den |-> k + R!RankIn(s, c)]
  BY DEF R!Place, R!Term
<1>3. \A c : c \notin R!ToSet(s) => R!Place(s, c) = TopK + 1 /\ R!Term(s, k, c) = [num |-> 0, den |-> 1]
  BY DEF R!Place, R!Term
<1>4. CASE a \in R!ToSet(s) /\ b \in R!ToSet(s)
  BY <1>1, <1>2, <1>4 DEF R!Above
<1>5. CASE a \in R!ToSet(s) /\ b \notin R!ToSet(s)
  BY <1>1, <1>2, <1>3, <1>5 DEF R!Above
<1>6. CASE a \notin R!ToSet(s) /\ b \in R!ToSet(s)
  BY Tops, <1>1, <1>2, <1>3, <1>6
<1>7. CASE a \notin R!ToSet(s) /\ b \notin R!ToSet(s)
  BY Tops, <1>3, <1>7 DEF R!Above
<1> QED BY <1>4, <1>5, <1>6, <1>7

Ranked == Ranking(vector) /\ Ranking(keyword)

LEMMA WeightsAre == R!VectorK \in Nat \ {0} /\ R!KeywordK \in Nat \ {0}
BY DEF R!VectorK, R!KeywordK

LEMMA ScoreIs ==
  ASSUME Ranked, NEW c
  PROVE  Fraction(R!Score(c))
<1>1. Fraction(R!Term(vector, R!VectorK, c)) /\ Fraction(R!Term(keyword, R!KeywordK, c))
  BY TermIs, WeightsAre DEF Ranked
<1>2. \A p, q : Fraction(p) /\ Fraction(q) => Fraction(R!Plus(p, q))
  <2> SUFFICES ASSUME NEW p, NEW q, Fraction(p), Fraction(q) PROVE Fraction(R!Plus(p, q))
    OBVIOUS
  <2>1. PICK a \in Nat, b \in Nat \ {0} : p.num = a /\ p.den = b
    BY DEF Fraction
  <2>2. PICK d \in Nat, e \in Nat \ {0} : q.num = d /\ q.den = e
    BY DEF Fraction
  <2>3. a * e + d * b \in Nat /\ b * e \in Nat /\ b * e > 0
    OBVIOUS
  <2> QED BY <2>1, <2>2, <2>3 DEF R!Plus, Fraction
<1> QED BY <1>1, <1>2 DEF R!Score

LEMMA MetIs ==
  ASSUME Ranked
  PROVE  /\ R!Met \in Seq(FoundChunks)
         /\ R!ToSet(R!Met) = R!ToSet(vector) \cup R!ToSet(keyword)
         /\ IsFiniteSet(R!ToSet(R!Met))
<1> DEFINE rest == R!Those(keyword, FoundChunks \ R!ToSet(vector))
<1>1. vector \in Seq(FoundChunks) /\ keyword \in Seq(FoundChunks)
  BY DEF Ranked, Ranking
<1>2. rest \in Seq(FoundChunks) /\ R!ToSet(rest) = R!ToSet(keyword) \cap (FoundChunks \ R!ToSet(vector))
  BY <1>1, ThoseAre
<1>3. R!Met = vector \o rest
  BY DEF R!Met
<1> HIDE DEF rest
<1>4. R!Met \in Seq(FoundChunks)
  BY <1>1, <1>2, <1>3
<1>5. \A p, q \in Seq(FoundChunks) : R!ToSet(p \o q) = R!ToSet(p) \cup R!ToSet(q)
  <2> SUFFICES ASSUME NEW p \in Seq(FoundChunks), NEW q \in Seq(FoundChunks)
               PROVE R!ToSet(p \o q) = R!ToSet(p) \cup R!ToSet(q)
    OBVIOUS
  <2>1. R!ToSet(p \o q) \subseteq R!ToSet(p) \cup R!ToSet(q)
    BY DEF R!ToSet
  <2>2. R!ToSet(p) \subseteq R!ToSet(p \o q)
    BY DEF R!ToSet
  <2>3. ASSUME NEW j \in 1 .. Len(q) PROVE q[j] \in R!ToSet(p \o q)
    <3>1. (p \o q)[Len(p) + j] = q[j] /\ Len(p) + j \in DOMAIN (p \o q)
      OBVIOUS
    <3> QED BY <3>1 DEF R!ToSet
  <2>4. R!ToSet(q) \subseteq R!ToSet(p \o q)
    BY <2>3 DEF R!ToSet
  <2> QED BY <2>1, <2>2, <2>4
<1>6. R!ToSet(keyword) \subseteq FoundChunks
  BY <1>1 DEF R!ToSet
<1>7. R!ToSet(R!Met) = R!ToSet(vector) \cup R!ToSet(keyword)
  BY <1>1, <1>2, <1>3, <1>5, <1>6
<1>8. IsFiniteSet(R!ToSet(R!Met))
  <2>1. R!Met \in Surjection(1 .. Len(R!Met), R!ToSet(R!Met))
    BY <1>4 DEF Surjection, R!ToSet
  <2>2. Len(R!Met) \in Nat /\ IsFiniteSet(1 .. Len(R!Met))
    BY <1>4, FS_Interval
  <2> QED BY <2>1, <2>2, FS_Surjection
<1> QED BY <1>4, <1>7, <1>8

Fused == {p \in R!ToSet(R!Met) \X R!ToSet(R!Met) : R!Before(p[1], p[2])}

LEMMA FusedOrders ==
  ASSUME Ranked
  PROVE  Orders(Fused, R!ToSet(R!Met))
<1> DEFINE M == R!ToSet(R!Met)
<1>1. \A a \in M : Fraction(R!Score(a)) /\ R!RankIn(R!Met, a) \in Nat /\ R!Met[R!RankIn(R!Met, a)] = a
  BY ScoreIs, MetIs, RankOf
<1>2. \A p, q : Fraction(p) /\ Fraction(q) => ~(R!Above(p, q) /\ R!Above(q, p)) /\ ~R!Above(p, p)
  <2> SUFFICES ASSUME NEW p, NEW q, Fraction(p), Fraction(q)
               PROVE ~(R!Above(p, q) /\ R!Above(q, p)) /\ ~R!Above(p, p)
    OBVIOUS
  <2>1. PICK a \in Nat, b \in Nat \ {0} : p.num = a /\ p.den = b
    BY DEF Fraction
  <2>2. PICK d \in Nat, e \in Nat \ {0} : q.num = d /\ q.den = e
    BY DEF Fraction
  <2>3. a * e \in Nat /\ d * b \in Nat /\ a * b \in Nat
    OBVIOUS
  <2> QED BY <2>1, <2>2, <2>3 DEF R!Above
<1>3. \A a, b : <<a, b>> \in Fused <=> a \in M /\ b \in M /\ R!Before(a, b)
  BY DEF Fused
<1> HIDE DEF M
<1>4. ASSUME NEW a \in M, NEW b \in M, a # b PROVE R!Before(a, b) \/ R!Before(b, a)
  BY <1>1, <1>4 DEF R!Before
<1>5. ASSUME NEW a \in M, NEW b \in M, NEW c \in M, R!Before(a, b), R!Before(b, c) PROVE R!Before(a, c)
  <2>1. ~R!Above(R!Score(b), R!Score(a)) /\ ~R!Above(R!Score(c), R!Score(b))
    BY <1>1, <1>2, <1>5 DEF R!Before
  <2>2. /\ ~R!Above(R!Score(c), R!Score(a))
        /\ R!Above(R!Score(a), R!Score(b)) \/ R!Above(R!Score(b), R!Score(c)) => R!Above(R!Score(a), R!Score(c))
    BY <1>1, <2>1, AboveIsTransitive
  <2> QED BY <1>1, <1>5, <2>2 DEF R!Before
<1>6. ASSUME NEW a \in M PROVE ~R!Before(a, a)
  BY <1>1, <1>2 DEF R!Before
<1> QED BY <1>3, <1>4, <1>5, <1>6 DEF Orders, M

LEMMA CardinalityIsR == \A S : R!Cardinality(S) = Cardinality(S)
BY DEF R!Cardinality, Cardinality

(* The fusion holds each chunk once, in the order of the scores.           *)
LEMMA MergeSorts ==
  ASSUME Ranked
  PROVE  /\ R!MergeRankings \in [1 .. Cardinality(R!ToSet(R!Met)) -> R!ToSet(R!Met)]
         /\ Cardinality(R!ToSet(R!Met)) \in Nat
         /\ \A a \in R!ToSet(R!Met) : \E i \in 1 .. Cardinality(R!ToSet(R!Met)) : R!MergeRankings[i] = a
         /\ \A i, j \in 1 .. Cardinality(R!ToSet(R!Met)) :
              R!Before(R!MergeRankings[i], R!MergeRankings[j]) => i < j
<1> DEFINE M == R!ToSet(R!Met)  n == Cardinality(M)
           inOrder(s) == \A i, j \in DOMAIN s : i < j => R!Before(s[i], s[j])
<1>1. IsFiniteSet(M) /\ Orders(Fused, M) /\ n \in Nat
  BY MetIs, FusedOrders, FS_CardinalityType
<1>2. \A a, b \in M : <<a, b>> \in Fused <=> R!Before(a, b)
  BY DEF Fused
<1>3. R!MergeRankings = CHOOSE s \in [1 .. n -> M] : inOrder(s)
  BY CardinalityIsR DEF R!MergeRankings
<1> HIDE DEF M
<1>4. PICK s : IsSorted(s, M, Fused)
  BY <1>1, SortExists
<1>5. s \in [1 .. n -> M] /\ inOrder(s)
  BY <1>2, <1>4 DEF IsSorted
<1>6. R!MergeRankings \in [1 .. n -> M] /\ inOrder(R!MergeRankings)
  <2> HIDE DEF inOrder, n
  <2> QED BY <1>3, <1>5
<1>7. IsSorted(R!MergeRankings, M, Fused)
  BY <1>2, <1>6 DEF IsSorted
<1>8. /\ \A a \in M : \E i \in 1 .. n : R!MergeRankings[i] = a
      /\ \A i, j \in 1 .. n : <<R!MergeRankings[i], R!MergeRankings[j]>> \in Fused => i < j
  BY <1>1, <1>7, SortedHasAll
<1> QED BY <1>1, <1>2, <1>6, <1>8 DEF M

LEMMA FusionKeeps ==
  ASSUME Ranked
  PROVE  R!FusionKeepsOrder
<1> DEFINE M == R!ToSet(R!Met)
<1> SUFFICES ASSUME NEW a \in M, NEW b \in M, a # b,
                    R!Place(vector, a) <= R!Place(vector, b), R!Place(keyword, a) <= R!Place(keyword, b)
             PROVE  R!RankIn(R!MergeRankings, a) < R!RankIn(R!MergeRankings, b)
  BY DEF R!FusionKeepsOrder
<1>1. \A s, c : Ranking(s) => R!Place(s, c) \in Nat
  BY Tops, RankOf DEF R!Place, Ranking
<1>2. \A s, c, d : Ranking(s) /\ c \in R!ToSet(s) /\ R!Place(s, c) = R!Place(s, d) => c = d
  <2> SUFFICES ASSUME NEW s, NEW c, NEW d, Ranking(s), c \in R!ToSet(s), R!Place(s, c) = R!Place(s, d)
               PROVE  c = d
    OBVIOUS
  <2>1. R!Place(s, c) = R!RankIn(s, c) /\ R!RankIn(s, c) <= TopK /\ s[R!RankIn(s, c)] = c /\ R!RankIn(s, c) \in Nat
    BY Tops, RankOf DEF R!Place, Ranking
  <2>2. CASE d \in R!ToSet(s)
    BY <2>1, <2>2, RankOf DEF R!Place, Ranking
  <2>3. CASE d \notin R!ToSet(s)
    BY Tops, <2>1, <2>3 DEF R!Place
  <2> QED BY <2>2, <2>3
<1>3. R!Place(vector, a) < R!Place(vector, b) \/ R!Place(keyword, a) < R!Place(keyword, b)
  <2>1. a \in R!ToSet(vector) \/ a \in R!ToSet(keyword)
    BY MetIs
  <2> QED BY <1>1, <1>2, <2>1 DEF Ranked
<1> DEFINE va == R!Term(vector, R!VectorK, a)  vb == R!Term(vector, R!VectorK, b)
           ka == R!Term(keyword, R!KeywordK, a)  kb == R!Term(keyword, R!KeywordK, b)
<1>4. Fraction(va) /\ Fraction(vb) /\ Fraction(ka) /\ Fraction(kb)
  BY TermIs, WeightsAre DEF Ranked
<1>5. ~R!Above(vb, va) /\ (R!Place(vector, a) < R!Place(vector, b) => R!Above(va, vb))
  BY TermFollows, WeightsAre DEF Ranked
<1>6. ~R!Above(kb, ka) /\ (R!Place(keyword, a) < R!Place(keyword, b) => R!Above(ka, kb))
  BY TermFollows, WeightsAre DEF Ranked
<1>7. R!Score(a) = R!Plus(va, ka) /\ R!Score(b) = R!Plus(vb, kb)
  BY DEF R!Score
<1> HIDE DEF va, vb, ka, kb
<1>8. R!Above(R!Score(a), R!Score(b))
  BY <1>3, <1>4, <1>5, <1>6, <1>7, AboveAdds
<1>9. R!Before(a, b)
  BY <1>8 DEF R!Before
<1> DEFINE n == Cardinality(M)  s == R!MergeRankings
<1>10. \A c \in M : R!RankIn(s, c) \in 1 .. n /\ s[R!RankIn(s, c)] = c
  <2> TAKE c \in M
  <2>1. DOMAIN s = 1 .. n /\ \E i \in 1 .. n : s[i] = c
    BY MergeSorts
  <2> QED BY <2>1 DEF R!RankIn
<1>11. \A i, j \in 1 .. n : R!Before(s[i], s[j]) => i < j
  BY MergeSorts
<1> QED BY <1>9, <1>10, <1>11
-----------------------------------------------------------------------------
(* What holds of one question, from the search to the answer.              *)
EvidenceInv ==
  /\ present \subseteq FoundChunks
  /\ vector # R!Unread => Ranking(vector)
  /\ keyword # R!Unread => Ranking(keyword)
  /\ asking \in {"search", "loaded", "refused", "context", "answered"}
  /\ asking # "search" => R!Searched
  /\ asking \in {"loaded", "context", "answered"} => context \in Seq(R!ToSet(R!Met))
  /\ asking = "loaded" => context # <<>>
  /\ R!RefusedMeansNoEvidence
  /\ asking # "answered" => cited = {}
  /\ R!CitedWasShown

LEMMA SearchedIsRanked == EvidenceInv /\ R!Searched => Ranked
BY DEF EvidenceInv, R!Searched, Ranked

LEMMA FirstIs ==
  ASSUME NEW X, NEW s \in Seq(X), NEW n \in Nat
  PROVE  R!First(s, n) \in Seq(X) /\ (s # <<>> /\ n # 0 => R!First(s, n) # <<>>)
<1> DEFINE m == IF Len(s) < n THEN Len(s) ELSE n
<1>1. m \in 0 .. Len(s) /\ (s # <<>> /\ n # 0 => m # 0)
  OBVIOUS
<1>2. R!First(s, n) = SubSeq(s, 1, m)
  BY DEF R!First
<1> HIDE DEF m
<1>3. SubSeq(s, 1, m) \in Seq(X) /\ Len(SubSeq(s, 1, m)) = m
  BY <1>1
<1> QED BY <1>1, <1>2, <1>3

LEMMA CandidatesAre == ASSUME Ranked PROVE R!Candidates \in Seq(R!ToSet(R!Met))
<1>1. R!MergeRankings \in Seq(R!ToSet(R!Met))
  BY MergeSorts
<1> QED BY <1>1, FirstIs, Tops DEF R!Candidates

LEMMA EvidenceStart == R!Init => EvidenceInv
<1> SUFFICES ASSUME R!Init PROVE EvidenceInv
  OBVIOUS
<1> QED BY DEF R!Init, EvidenceInv, R!RefusedMeansNoEvidence, R!CitedWasShown

(* While the rankings stand, so does the fusion.                           *)
LEMMA FusionStands ==
  ASSUME UNCHANGED <<query, vector, keyword>>
  PROVE  R!Met' = R!Met /\ R!Candidates' = R!Candidates /\ R!Searched' = R!Searched
<1>1. R!Met' = R!Met
  BY DEF R!Met
<1>2. R!VectorK' = R!VectorK /\ R!KeywordK' = R!KeywordK
  BY DEF R!VectorK, R!KeywordK
<1>3. R!MergeRankings' = R!MergeRankings
  BY <1>1, <1>2 DEF R!MergeRankings, R!Before, R!Score
<1> QED BY <1>1, <1>3 DEF R!Candidates, R!Searched

LEMMA SearchKeeps ==
  ASSUME EvidenceInv, R!VectorSearch \/ R!KeywordSearch
  PROVE  EvidenceInv'
<1> QED BY RankingsAre DEF EvidenceInv, R!VectorSearch, R!KeywordSearch,
           R!RefusedMeansNoEvidence, R!CitedWasShown

LEMMA ReindexKeeps ==
  ASSUME EvidenceInv, R!Reindex
  PROVE  EvidenceInv'
<1>1. R!Met' = R!Met /\ R!Searched' = R!Searched
  BY FusionStands DEF R!Reindex
<1> QED BY <1>1 DEF EvidenceInv, R!Reindex, R!RefusedMeansNoEvidence, R!CitedWasShown

LEMMA LoadKeeps ==
  ASSUME EvidenceInv, R!Load
  PROVE  EvidenceInv'
<1>1. R!Met' = R!Met /\ R!Candidates' = R!Candidates /\ R!Searched' = R!Searched
  BY FusionStands DEF R!Load
<1> DEFINE loaded == R!Those(R!Candidates, present)
<1>2. R!Searched /\ UNCHANGED <<present, vector, keyword, cited>> /\ context' = loaded
      /\ asking' = (IF loaded = <<>> THEN "refused" ELSE "loaded") /\ asking = "search"
  BY DEF R!Load, R!Searched
<1>3. loaded \in Seq(R!ToSet(R!Met)) /\ R!ToSet(loaded) = R!ToSet(R!Candidates) \cap present
  BY <1>2, SearchedIsRanked, CandidatesAre, ThoseAre
<1>4. R!ToSet(<<>>) = {}
  BY DEF R!ToSet
<1> HIDE DEF loaded
<1>5. R!RefusedMeansNoEvidence'
  BY <1>1, <1>2, <1>3, <1>4 DEF R!RefusedMeansNoEvidence
<1>6. cited' = {} /\ R!CitedWasShown'
  BY <1>2 DEF EvidenceInv, R!CitedWasShown
<1> QED BY <1>1, <1>2, <1>3, <1>5, <1>6 DEF EvidenceInv

LEMMA FallbackIs ==
  ASSUME NEW X, context \in Seq(X), context # <<>>
  PROVE  R!Fallback \in Seq(X) /\ R!Fallback # <<>>
<1>1. \A s \in Seq(X), n \in Nat : R!First(s, n) \in Seq(X) /\ (s # <<>> /\ n # 0 => R!First(s, n) # <<>>)
  BY FirstIs
<1> QED BY <1>1, Tops DEF R!Fallback

(* The reranker chooses among what was loaded, and always something.       *)
LEMMA RerankedAre ==
  ASSUME NEW X, context \in Seq(X), context # <<>>, NEW n \in 0 .. FinalK, NEW indices \in [1 .. n -> 1 .. TopK + 1]
  PROVE  /\ R!Fallback \in Seq(X) /\ R!Fallback # <<>>
         /\ R!Reranked(indices) \in Seq(X) /\ R!Reranked(indices) # <<>>
<1>1. R!Fallback \in Seq(X) /\ R!Fallback # <<>>
  BY FallbackIs
<1> DEFINE valid == R!Those(indices, DOMAIN context)
<1>2. valid \in Seq(1 .. TopK + 1) /\ R!ToSet(valid) \subseteq DOMAIN context
  <2>1. indices \in Seq(1 .. TopK + 1)
    BY Tops
  <2> QED BY <2>1, ThoseAre
<1>3. R!Reranked(indices) = IF valid = <<>> THEN R!Fallback ELSE [i \in DOMAIN valid |-> context[valid[i]]]
  BY DEF R!Reranked
<1> HIDE DEF valid
<1>4. ASSUME valid # <<>>
      PROVE  LET z == [i \in DOMAIN valid |-> context[valid[i]]] IN z \in Seq(X) /\ z # <<>>
  <2> DEFINE z == [i \in DOMAIN valid |-> context[valid[i]]]
  <2>1. DOMAIN valid = 1 .. Len(valid) /\ Len(valid) \in Nat /\ Len(valid) # 0
    BY <1>2, <1>4
  <2>2. \A i \in DOMAIN valid : context[valid[i]] \in X
    <3>1. \A i \in DOMAIN valid : valid[i] \in DOMAIN context
      BY <1>2 DEF R!ToSet
    <3> QED BY <3>1
  <2>3. z \in [1 .. Len(valid) -> X]
    BY <2>1, <2>2
  <2>4. z \in Seq(X)
    BY <2>1, <2>3
  <2>5. Len(z) = Len(valid)
    BY <2>1, <2>3
  <2> HIDE DEF z
  <2>6. z # <<>>
    BY <2>1, <2>5
  <2> QED BY <2>4, <2>6 DEF z
<1> QED BY <1>1, <1>3, <1>4

LEMMA RerankKeeps ==
  ASSUME EvidenceInv, R!Rerank
  PROVE  EvidenceInv'
<1>1. R!Met' = R!Met /\ R!Searched' = R!Searched
  BY FusionStands DEF R!Rerank
<1>2. context \in Seq(R!ToSet(R!Met)) /\ context # <<>> /\ asking = "loaded"
  BY DEF EvidenceInv, R!Rerank
<1>3. context' \in Seq(R!ToSet(R!Met)) /\ context' # <<>>
  <2>1. CASE context' = R!Fallback
    <3>1. R!Fallback \in Seq(R!ToSet(R!Met)) /\ R!Fallback # <<>>
      BY <1>2, FallbackIs
    <3> QED BY <2>1, <3>1
  <2>2. CASE \E n \in 0 .. FinalK : \E indices \in [1 .. n -> 1 .. TopK + 1] : context' = R!Reranked(indices)
    <3>1. PICK n \in 0 .. FinalK : \E indices \in [1 .. n -> 1 .. TopK + 1] : context' = R!Reranked(indices)
      BY <2>2
    <3>2. PICK indices \in [1 .. n -> 1 .. TopK + 1] : context' = R!Reranked(indices)
      BY <3>1
    <3>3. R!Reranked(indices) \in Seq(R!ToSet(R!Met)) /\ R!Reranked(indices) # <<>>
      BY <1>2, RerankedAre
    <3> QED BY <3>2, <3>3
  <2> QED BY <2>1, <2>2 DEF R!Rerank
<1>4. asking' = "context" /\ UNCHANGED <<present, vector, keyword, cited>>
  BY <1>3 DEF R!Rerank
<1>5. cited' = {}
  BY <1>2, <1>4 DEF EvidenceInv
<1> QED BY <1>1, <1>2, <1>3, <1>4, <1>5 DEF EvidenceInv, R!RefusedMeansNoEvidence, R!CitedWasShown

LEMMA AnswerKeepsEvidence ==
  ASSUME EvidenceInv, R!Answer
  PROVE  EvidenceInv'
<1>1. R!Met' = R!Met /\ R!Searched' = R!Searched
  BY FusionStands DEF R!Answer
<1>2. context \in Seq(R!ToSet(R!Met)) /\ asking = "context"
  BY DEF EvidenceInv, R!Answer
<1>3. R!ToSet(context) \subseteq R!ToSet(R!Met)
  BY <1>2 DEF R!ToSet
<1>4. \A c \in cited' : c.chunk \in R!ToSet(context) /\ FoundLabelOf[c.chunk] = c.label
  BY DEF R!Answer, R!ValidateCitation
<1>5. UNCHANGED <<present, vector, keyword, context>> /\ asking' = "answered"
  BY DEF R!Answer
<1>6. R!CitedWasShown'
  BY <1>1, <1>3, <1>4, <1>5 DEF R!CitedWasShown
<1> QED BY <1>1, <1>2, <1>5, <1>6 DEF EvidenceInv, R!RefusedMeansNoEvidence

LEMMA EvidenceStep == EvidenceInv /\ [R!Next]_R!vars => EvidenceInv'
<1> SUFFICES ASSUME EvidenceInv, [R!Next]_R!vars PROVE EvidenceInv'
  OBVIOUS
<1>1. CASE UNCHANGED R!vars
  <2>1. R!Met' = R!Met /\ R!Candidates' = R!Candidates /\ R!Searched' = R!Searched
    BY <1>1, FusionStands DEF R!vars
  <2> QED BY <1>1, <2>1 DEF R!vars, EvidenceInv, R!RefusedMeansNoEvidence, R!CitedWasShown
<1>2. CASE R!Next
  BY <1>2, SearchKeeps, ReindexKeeps, LoadKeeps, RerankKeeps, AnswerKeepsEvidence DEF R!Next
<1> QED BY <1>1, <1>2

(* Whatever the weights, the limits and the moment a chunk is deleted:     *)
(* mergeRankings keeps what both rankings agree on, generateAnswer refuses *)
(* for want of evidence only, and stores citations of chunks that were     *)
(* found and shown, under the label the reader sees.                       *)
THEOREM EvidenceKept == LibrarySpec => []EvidenceHolds
<1>1. R!Spec => []EvidenceInv
  <2> QED BY EvidenceStart, EvidenceStep, PTL DEF R!Spec
<1>2. EvidenceInv => EvidenceHolds
  <2> SUFFICES ASSUME EvidenceInv PROVE EvidenceHolds
    OBVIOUS
  <2>1. R!FusionKeepsOrder
    <3>1. CASE R!Searched
      BY <3>1, SearchedIsRanked, FusionKeeps
    <3>2. CASE ~R!Searched
      BY <3>2 DEF R!FusionKeepsOrder
    <3> QED BY <3>1, <3>2
  <2> QED BY <2>1 DEF EvidenceInv, EvidenceHolds, R!EvidenceHolds
<1> QED BY <1>1, <1>2, Components, PTL
-----------------------------------------------------------------------------
(* A patch that GitHub sends: each header counts the lines of the new file *)
(* up to the next one.                                                     *)
Kinds == {"@@", "+", " ", "-", "\\", ""}

PatchLine == [kind : Kinds, start : Nat, count : Nat]

KeptAfter(p, h, i) == {j \in h + 1 .. i : I!Kept(p[j])}

CountsItsHunk(p, h, last) ==
  \E e \in h .. last :
    /\ \A j \in h + 1 .. e : p[j].kind # "@@"
    /\ p[h].count = Cardinality(KeptAfter(p, h, e))
    /\ \A j \in e + 1 .. last : I!Kept(p[j]) => \E g \in e + 1 .. j : p[g].kind = "@@"

WellFormed(p) ==
  /\ p \in Seq(PatchLine)
  /\ p # <<>> => p[1].kind = "@@"
  /\ \A h \in 1 .. Len(p) : p[h].kind = "@@" => CountsItsHunk(p, h, Len(p))

LEMMA KeptGrows ==
  ASSUME NEW p, NEW h \in Nat, NEW i \in Nat, h <= i
  PROVE  /\ IsFiniteSet(KeptAfter(p, h, i)) /\ Cardinality(KeptAfter(p, h, i)) \in Nat
         /\ KeptAfter(p, h, h) = {} /\ Cardinality(KeptAfter(p, h, h)) = 0
         /\ Cardinality(KeptAfter(p, h, i + 1))
              = Cardinality(KeptAfter(p, h, i)) + (IF I!Kept(p[i + 1]) THEN 1 ELSE 0)
<1>1. IsFiniteSet(KeptAfter(p, h, i))
  <2>1. IsFiniteSet(h + 1 .. i) /\ KeptAfter(p, h, i) \in SUBSET (h + 1 .. i)
    BY FS_Interval DEF KeptAfter
  <2> QED BY <2>1, FS_Subset
<1>2. KeptAfter(p, h, h) = {}
  BY DEF KeptAfter
<1>3. CASE I!Kept(p[i + 1])
  <2>1. KeptAfter(p, h, i + 1) = KeptAfter(p, h, i) \cup {i + 1} /\ i + 1 \notin KeptAfter(p, h, i)
    BY <1>3 DEF KeptAfter
  <2>2. /\ Cardinality(KeptAfter(p, h, i + 1)) = Cardinality(KeptAfter(p, h, i)) + 1
        /\ Cardinality(KeptAfter(p, h, i)) \in Nat
    BY <1>1, <2>1, FS_AddElement, FS_CardinalityType
  <2> QED BY <1>1, <1>2, <1>3, <2>2, FS_EmptySet
<1>4. CASE ~I!Kept(p[i + 1])
  <2>1. ASSUME NEW j \in h + 1 .. i + 1, I!Kept(p[j]) PROVE j \in h + 1 .. i
    <3>1. j # i + 1
      BY <1>4, <2>1
    <3> QED BY <3>1
  <2>2. KeptAfter(p, h, i + 1) = KeptAfter(p, h, i)
    BY <2>1 DEF KeptAfter
  <2>3. Cardinality(KeptAfter(p, h, i)) \in Nat
    BY <1>1, FS_CardinalityType
  <2> QED BY <1>1, <1>2, <1>4, <2>2, <2>3, FS_EmptySet
<1> QED BY <1>3, <1>4

(* The line that follows each line of a patch in the new file.             *)
Numbers(k, p, n) ==
  k = [j \in 0 .. n |->
         IF j = 0 THEN 0
         ELSE IF p[j].kind = "@@" THEN p[j].start
         ELSE IF I!Counted(p[j]) THEN k[j - 1] + 1 ELSE k[j - 1]]

LEMMA NewLineIsChosen ==
  \A p, i : I!NewLineBefore(p, i) = (CHOOSE k : Numbers(k, p, Len(p)))[i]
BY DEF I!NewLineBefore, Numbers

LEMMA NumbersExists ==
  ASSUME NEW p
  PROVE  \A n \in Nat : \E k : Numbers(k, p, n)
<1> DEFINE T == {n \in Nat : \E k : Numbers(k, p, n)}
<1>1. 0 \in T
  <2> DEFINE k == [m \in 0 .. 0 |-> 0]
  <2>1. Numbers(k, p, 0)
    BY DEF Numbers
  <2> QED BY <2>1
<1>2. ASSUME NEW n \in Nat, n \in T PROVE n + 1 \in T
  <2>1. PICK k : Numbers(k, p, n)
    BY <1>2
  <2> DEFINE of(f, m) == IF m = 0 THEN 0
                         ELSE IF p[m].kind = "@@" THEN p[m].start
                         ELSE IF I!Counted(p[m]) THEN f[m - 1] + 1 ELSE f[m - 1]
             l == [m \in 0 .. n + 1 |-> IF m = n + 1 THEN of(k, m) ELSE k[m]]
  <2>2. (\A m \in 0 .. n : l[m] = k[m]) /\ l[n + 1] = of(k, n + 1)
    OBVIOUS
  <2>3. \A m \in 0 .. n : k[m] = of(k, m)
    BY <2>1 DEF Numbers
  <2>4. ASSUME NEW m \in 0 .. n + 1 PROVE l[m] = of(l, m)
    <3>1. CASE m = n + 1
      <4>1. l[m - 1] = k[m - 1] /\ m # 0
        BY <3>1, <2>2
      <4> HIDE DEF l
      <4> QED BY <3>1, <4>1, <2>2
    <3>2. CASE m # n + 1
      <4>1. m \in 0 .. n /\ (m # 0 => m - 1 \in 0 .. n)
        BY <3>2
      <4> HIDE DEF l
      <4> QED BY <4>1, <2>2, <2>3
    <3> QED BY <3>1, <3>2
  <2>5. Numbers(l, p, n + 1)
    <3>1. l = [m \in 0 .. n + 1 |-> l[m]]
      OBVIOUS
    <3> HIDE DEF l
    <3>2. [m \in 0 .. n + 1 |-> l[m]] = [m \in 0 .. n + 1 |-> of(l, m)]
      BY <2>4
    <3> QED BY <3>1, <3>2 DEF Numbers
  <2> QED BY <2>5
<1> HIDE DEF T
<1>3. \A n \in Nat : n \in T
  BY <1>1, <1>2, Induction
<1> QED BY <1>3 DEF T

LEMMA NewLineIs ==
  ASSUME NEW p, Len(p) \in Nat, NEW i \in 1 .. Len(p)
  PROVE  I!NewLineBefore(p, i) =
           IF p[i].kind = "@@" THEN p[i].start
           ELSE IF I!Counted(p[i]) THEN I!NewLineBefore(p, i - 1) + 1 ELSE I!NewLineBefore(p, i - 1)
<1>1. PICK k : Numbers(k, p, Len(p)) /\ \A j : I!NewLineBefore(p, j) = k[j]
  <2>1. \E k : Numbers(k, p, Len(p))
    BY NumbersExists
  <2> DEFINE c == CHOOSE k : Numbers(k, p, Len(p))
  <2>2. Numbers(c, p, Len(p))
    BY <2>1
  <2>3. \A j : I!NewLineBefore(p, j) = c[j]
    BY NewLineIsChosen
  <2> HIDE DEF c
  <2> QED BY <2>2, <2>3
<1>2. i \in 0 .. Len(p) /\ i # 0
  OBVIOUS
<1> QED BY <1>1, <1>2 DEF Numbers

LEMMA KindOf ==
  ASSUME NEW line \in PatchLine
  PROVE  I!Kept(line) <=> I!Counted(line)
<1>1. line.kind \in Kinds
  BY DEF PatchLine
<1> QED BY <1>1, Zenon DEF Kinds, I!Kept, I!Counted

(* The pass counts from the last header.                                   *)
IsHeaderOf(p, h, i) ==
  /\ h \in 1 .. i /\ p[h].kind = "@@" /\ \A j \in h + 1 .. i : p[j].kind # "@@"

LEMMA CountsFromHeader ==
  ASSUME NEW p, WellFormed(p), NEW i \in 1 .. Len(p)
  PROVE  \E h \in 1 .. i : /\ IsHeaderOf(p, h, i)
                           /\ I!NewLineBefore(p, i) = p[h].start + Cardinality(KeptAfter(p, h, i))
<1> DEFINE P(m) == \E h \in 1 .. m : /\ IsHeaderOf(p, h, m)
                                     /\ I!NewLineBefore(p, m) = p[h].start + Cardinality(KeptAfter(p, h, m))
           T == {n \in Nat : n + 1 <= Len(p) => P(n + 1)}
<1>0. p \in Seq(PatchLine) /\ Len(p) \in Nat /\ (\A j \in 1 .. Len(p) : p[j] \in PatchLine /\ p[j].start \in Nat)
  <2>1. p \in Seq(PatchLine)
    BY DEF WellFormed
  <2>2. \A line \in PatchLine : line.start \in Nat
    BY DEF PatchLine
  <2> QED BY <2>1, <2>2
<1>1. \A m \in 1 .. Len(p) : p[m].kind = "@@" => P(m)
  <2> SUFFICES ASSUME NEW m \in 1 .. Len(p), p[m].kind = "@@" PROVE P(m)
    OBVIOUS
  <2>0. p[m].kind = "@@"
    OBVIOUS
  <2>1. IsHeaderOf(p, m, m)
    BY DEF IsHeaderOf
  <2>2. I!NewLineBefore(p, m) = p[m].start /\ Cardinality(KeptAfter(p, m, m)) = 0
    <3>1. I!NewLineBefore(p, m) = p[m].start
      BY <1>0, <2>0, NewLineIs
    <3>2. m \in Nat /\ m <= m
      BY <1>0
    <3> QED BY <3>1, <3>2, KeptGrows
  <2>3. p[m].start = p[m].start + 0
    BY <1>0
  <2> QED BY <2>1, <2>2, <2>3
<1>2. 0 \in T
  BY <1>0, <1>1 DEF WellFormed
<1>3. ASSUME NEW n \in Nat, n \in T PROVE n + 1 \in T
  <2> SUFFICES ASSUME (n + 1) + 1 <= Len(p), p[n + 2].kind # "@@" PROVE P(n + 2)
    BY <1>0, <1>1
  <2>1. PICK h \in 1 .. n + 1 : /\ IsHeaderOf(p, h, n + 1)
                                /\ I!NewLineBefore(p, n + 1) = p[h].start + Cardinality(KeptAfter(p, h, n + 1))
    BY <1>3, <1>0
  <2>2. IsHeaderOf(p, h, n + 2)
    BY <2>1 DEF IsHeaderOf
  <2>3. I!NewLineBefore(p, n + 2) = IF I!Counted(p[n + 2]) THEN I!NewLineBefore(p, n + 1) + 1 ELSE I!NewLineBefore(p, n + 1)
    <3>1. n + 2 \in 1 .. Len(p) /\ (n + 2) - 1 = n + 1
      BY <1>0
    <3>2. I!NewLineBefore(p, n + 2) = IF I!Counted(p[n + 2]) THEN I!NewLineBefore(p, (n + 2) - 1) + 1
                                      ELSE I!NewLineBefore(p, (n + 2) - 1)
      <4> DEFINE m == n + 2
      <4>1. m \in 1 .. Len(p) /\ p[m].kind # "@@"
        BY <3>1
      <4> HIDE DEF m
      <4>2. I!NewLineBefore(p, m) = IF I!Counted(p[m]) THEN I!NewLineBefore(p, m - 1) + 1
                                    ELSE I!NewLineBefore(p, m - 1)
        BY <1>0, <4>1, NewLineIs
      <4> QED BY <4>2 DEF m
    <3> QED BY <3>1, <3>2
  <2>4. p[n + 2] \in PatchLine /\ p[h].start \in Nat
    BY <1>0
  <2>5. /\ Cardinality(KeptAfter(p, h, n + 2)) = Cardinality(KeptAfter(p, h, n + 1)) + (IF I!Kept(p[n + 2]) THEN 1 ELSE 0)
        /\ Cardinality(KeptAfter(p, h, n + 1)) \in Nat
    <3>1. h \in Nat /\ n + 1 \in Nat /\ h <= n + 1 /\ (n + 1) + 1 = n + 2
      OBVIOUS
    <3>2. /\ Cardinality(KeptAfter(p, h, (n + 1) + 1))
               = Cardinality(KeptAfter(p, h, n + 1)) + (IF I!Kept(p[(n + 1) + 1]) THEN 1 ELSE 0)
          /\ Cardinality(KeptAfter(p, h, n + 1)) \in Nat
      <4> DEFINE m == n + 1
      <4>1. m \in Nat /\ h <= m
        OBVIOUS
      <4> HIDE DEF m
      <4>2. /\ Cardinality(KeptAfter(p, h, m + 1)) = Cardinality(KeptAfter(p, h, m)) + (IF I!Kept(p[m + 1]) THEN 1 ELSE 0)
            /\ Cardinality(KeptAfter(p, h, m)) \in Nat
        BY <3>1, <4>1, KeptGrows
      <4> QED BY <4>2 DEF m
    <3> QED BY <3>1, <3>2
  <2>6. I!Kept(p[n + 2]) <=> I!Counted(p[n + 2])
    BY <2>4, KindOf
  <2>7. I!NewLineBefore(p, n + 2) = p[h].start + Cardinality(KeptAfter(p, h, n + 2))
    BY <2>1, <2>3, <2>4, <2>5, <2>6
  <2> QED BY <2>1, <2>2, <2>7
<1>4. i - 1 \in T
  <2> HIDE DEF T
  <2>1. i - 1 \in Nat
    BY <1>0
  <2> QED BY <2>1, <1>2, <1>3, Induction
<1> QED BY <1>0, <1>4
LEMMA HeaderIsMax ==
  ASSUME NEW p, NEW i \in Nat, NEW h, IsHeaderOf(p, h, i)
  PROVE  I!Max({g \in 1 .. i : p[g].kind = "@@"}) = h
<1> DEFINE S == {g \in 1 .. i : p[g].kind = "@@"}
<1>1. h \in S /\ \A g \in S : h >= g
  BY DEF IsHeaderOf
<1>2. \A x \in S : (\A g \in S : x >= g) => x = h
  BY <1>1
<1> QED BY <1>1, <1>2 DEF I!Max

LEMMA CardinalityIsI == \A S : I!Cardinality(S) = Cardinality(S)
BY DEF I!Cardinality, Cardinality

(* The pass and the reader agree on every line.                            *)
LEMMA PassIsShown ==
  ASSUME NEW p, WellFormed(p), NEW i \in 1 .. Len(p)
  PROVE  I!ShownAt(p, i) = I!NewLineBefore(p, i)
<1>1. PICK h \in 1 .. i : /\ IsHeaderOf(p, h, i)
                          /\ I!NewLineBefore(p, i) = p[h].start + Cardinality(KeptAfter(p, h, i))
  BY CountsFromHeader
<1>2. I!Max({g \in 1 .. i : p[g].kind = "@@"}) = h
  <2>1. i \in Nat
    BY DEF WellFormed
  <2> QED BY <1>1, <2>1, HeaderIsMax
<1>3. I!ShownAt(p, i) = p[h].start + Cardinality(KeptAfter(p, h, i))
  BY <1>2, CardinalityIsI DEF I!ShownAt, KeptAfter
<1> QED BY <1>1, <1>3

LEMMA PositionIs ==
  ASSUME NEW p, WellFormed(p), NEW q \in I!Positions(p)
  PROVE  /\ q.position \in 1 .. Len(p) - 1 /\ I!Kept(p[q.position + 1])
         /\ q.line = I!NewLineBefore(p, q.position)
<1>1. PICK i \in 1 .. Len(p) : I!Counted(p[i]) /\ q = [line |-> I!NewLineBefore(p, i - 1), position |-> i - 1]
  <2>1. DOMAIN p = 1 .. Len(p)
    BY DEF WellFormed
  <2> QED BY <2>1 DEF I!Positions
<1>2. p \in Seq(PatchLine) /\ p[1].kind = "@@" /\ Len(p) \in Nat
  <2>1. p \in Seq(PatchLine) /\ (p # <<>> => p[1].kind = "@@")
    BY DEF WellFormed
  <2> QED BY <2>1
<1>3. i # 1
  BY <1>1, <1>2 DEF I!Counted
<1>4. I!Kept(p[i])
  BY <1>1, <1>2, KindOf
<1> QED BY <1>1, <1>2, <1>3, <1>4

(* Between two counts that differ there is a line that takes the next.     *)
LEMMA LineBetween ==
  ASSUME NEW p, NEW h \in Nat, NEW e \in Nat, h <= e, NEW n \in Nat, n < Cardinality(KeptAfter(p, h, e))
  PROVE  \E i \in h + 1 .. e : I!Kept(p[i]) /\ Cardinality(KeptAfter(p, h, i - 1)) = n
<1> DEFINE F == {i \in h .. e : n < Cardinality(KeptAfter(p, h, i))}
<1>1. PICK i \in F : \A j \in F : i <= j
  <2>1. F \subseteq Nat /\ F # {}
    OBVIOUS
  <2> HIDE DEF F
  <2> QED BY <2>1, Least
<1>2. Cardinality(KeptAfter(p, h, h)) = 0
  <2>1. h <= h
    OBVIOUS
  <2> QED BY <2>1, KeptGrows
<1>3. i \in h + 1 .. e
  BY <1>1, <1>2
<1> DEFINE m == i - 1
<1>4. m \in Nat /\ h <= m /\ m + 1 = i /\ m \in h .. e /\ m < i
  BY <1>3
<1> HIDE DEF m
<1>5. /\ Cardinality(KeptAfter(p, h, m + 1)) = Cardinality(KeptAfter(p, h, m)) + (IF I!Kept(p[m + 1]) THEN 1 ELSE 0)
      /\ Cardinality(KeptAfter(p, h, m)) \in Nat
  BY <1>4, KeptGrows
<1>6. ~(n < Cardinality(KeptAfter(p, h, m)))
  BY <1>1, <1>4
<1>7. n < Cardinality(KeptAfter(p, h, m + 1))
  BY <1>1, <1>4
<1>8. I!Kept(p[m + 1]) /\ Cardinality(KeptAfter(p, h, m)) = n
  BY <1>5, <1>6, <1>7
<1> QED BY <1>3, <1>4, <1>8 DEF m

(* A range is what its hunk shows.                                         *)
LEMMA RangesShow ==
  ASSUME NEW p, WellFormed(p)
  PROVE  UNION I!Ranges(p) = {q.line : q \in I!Positions(p)}
<1>0. p \in Seq(PatchLine) /\ Len(p) \in Nat /\ DOMAIN p = 1 .. Len(p)
      /\ (\A j \in 1 .. Len(p) : p[j] \in PatchLine /\ p[j].start \in Nat /\ p[j].count \in Nat)
  <2>1. p \in Seq(PatchLine)
    BY DEF WellFormed
  <2>2. \A line \in PatchLine : line.start \in Nat /\ line.count \in Nat
    BY DEF PatchLine
  <2> QED BY <2>1, <2>2
<1>1. ASSUME NEW h \in 1 .. Len(p), p[h].kind = "@@", NEW n \in p[h].start .. p[h].start + p[h].count - 1
      PROVE  \E q \in I!Positions(p) : q.line = n
  <2>1. PICK e \in h .. Len(p) : /\ \A j \in h + 1 .. e : p[j].kind # "@@"
                                 /\ p[h].count = Cardinality(KeptAfter(p, h, e))
    BY <1>1 DEF WellFormed, CountsItsHunk
  <2> DEFINE m == n - p[h].start
  <2>2. m \in Nat /\ m < Cardinality(KeptAfter(p, h, e)) /\ n = p[h].start + m
    BY <1>0, <1>1, <2>1
  <2> HIDE DEF m
  <2>3. PICK i \in h + 1 .. e : I!Kept(p[i]) /\ Cardinality(KeptAfter(p, h, i - 1)) = m
    <3>1. h \in Nat /\ e \in Nat /\ h <= e
      BY <1>0
    <3> QED BY <2>2, <3>1, LineBetween
  <2> DEFINE b == i - 1
  <2>4. b \in 1 .. Len(p) /\ i \in 1 .. Len(p) /\ b \in Nat /\ IsHeaderOf(p, h, b)
    BY <1>0, <1>1, <2>1, <2>3 DEF IsHeaderOf
  <2>5. Cardinality(KeptAfter(p, h, b)) = m
    BY <2>3
  <2> HIDE DEF b
  <2>6. PICK g \in 1 .. b : IsHeaderOf(p, g, b) /\ I!NewLineBefore(p, b) = p[g].start + Cardinality(KeptAfter(p, g, b))
    BY <2>4, CountsFromHeader
  <2>7. g = h
    <3>1. I!Max({k \in 1 .. b : p[k].kind = "@@"}) = h
      BY <2>4, HeaderIsMax
    <3>2. I!Max({k \in 1 .. b : p[k].kind = "@@"}) = g
      BY <2>4, <2>6, HeaderIsMax
    <3> QED BY <3>1, <3>2
  <2>8. I!NewLineBefore(p, i - 1) = n
    BY <2>2, <2>5, <2>6, <2>7 DEF b
  <2>9. I!Counted(p[i])
    BY <1>0, <2>3, <2>4, KindOf
  <2>10. [line |-> I!NewLineBefore(p, i - 1), position |-> i - 1] \in I!Positions(p)
    BY <1>0, <2>4, <2>9 DEF I!Positions
  <2> QED BY <2>8, <2>10
<1>2. ASSUME NEW q \in I!Positions(p)
      PROVE  \E h \in 1 .. Len(p) : /\ p[h].kind = "@@" /\ p[h].count > 0
                                    /\ q.line \in p[h].start .. p[h].start + p[h].count - 1
  <2> DEFINE b == q.position
  <2>1. b \in 1 .. Len(p) - 1 /\ I!Kept(p[b + 1]) /\ q.line = I!NewLineBefore(p, b)
    BY PositionIs
  <2> HIDE DEF b
  <2>2. b \in 1 .. Len(p) /\ b + 1 \in 1 .. Len(p) /\ b \in Nat
    BY <1>0, <2>1
  <2>3. PICK h \in 1 .. b : IsHeaderOf(p, h, b) /\ I!NewLineBefore(p, b) = p[h].start + Cardinality(KeptAfter(p, h, b))
    BY <2>2, CountsFromHeader
  <2>4. h \in 1 .. Len(p) /\ h \in Nat /\ h <= b /\ p[h].kind = "@@" /\ \A j \in h + 1 .. b : p[j].kind # "@@"
    BY <2>2, <2>3 DEF IsHeaderOf
  <2>5. PICK e \in h .. Len(p) : /\ \A j \in h + 1 .. e : p[j].kind # "@@"
                                 /\ p[h].count = Cardinality(KeptAfter(p, h, e))
                                 /\ \A j \in e + 1 .. Len(p) : I!Kept(p[j]) => \E g \in e + 1 .. j : p[g].kind = "@@"
    BY <2>4 DEF WellFormed, CountsItsHunk
  <2>6. b + 1 <= e
    <3> SUFFICES ASSUME e < b + 1 PROVE FALSE
      BY <1>0, <2>2
    <3>1. PICK g \in e + 1 .. b + 1 : p[g].kind = "@@"
      BY <1>0, <2>1, <2>2, <2>5
    <3>2. g # b + 1
      BY <2>1, <3>1 DEF I!Kept
    <3> QED BY <1>0, <2>2, <2>4, <3>1, <3>2
  <2>7. Cardinality(KeptAfter(p, h, b)) \in Nat /\ Cardinality(KeptAfter(p, h, b + 1)) = Cardinality(KeptAfter(p, h, b)) + 1
    BY <2>1, <2>2, <2>4, KeptGrows
  <2>8. Cardinality(KeptAfter(p, h, b + 1)) <= Cardinality(KeptAfter(p, h, e))
    <3>1. KeptAfter(p, h, b + 1) \in SUBSET KeptAfter(p, h, e)
      BY <1>0, <2>2, <2>4, <2>6 DEF KeptAfter
    <3>2. IsFiniteSet(KeptAfter(p, h, e))
      <4>1. e \in Nat /\ h <= e
        BY <1>0, <2>4
      <4> QED BY <2>4, <4>1, KeptGrows
    <3> QED BY <3>1, <3>2, FS_Subset
  <2>9. p[h].start \in Nat /\ p[h].count \in Nat
    BY <1>0, <2>4
  <2>10. p[h].count > 0 /\ q.line \in p[h].start .. p[h].start + p[h].count - 1
    BY <2>1, <2>3, <2>5, <2>7, <2>8, <2>9
  <2> QED BY <2>4, <2>10
<1>3. ASSUME NEW n \in UNION I!Ranges(p) PROVE n \in {q.line : q \in I!Positions(p)}
  <2>1. PICK h \in 1 .. Len(p) : p[h].kind = "@@" /\ n \in p[h].start .. p[h].start + p[h].count - 1
    BY <1>0 DEF I!Ranges
  <2> QED BY <1>1, <2>1
<1>4. ASSUME NEW n \in {q.line : q \in I!Positions(p)} PROVE n \in UNION I!Ranges(p)
  <2>1. PICK q \in I!Positions(p) : n = q.line
    OBVIOUS
  <2>2. PICK h \in 1 .. Len(p) : /\ p[h].kind = "@@" /\ p[h].count > 0
                                 /\ n \in p[h].start .. p[h].start + p[h].count - 1
    BY <1>2, <2>1
  <2> QED BY <1>0, <2>2 DEF I!Ranges
<1> QED BY <1>3, <1>4
(* Patches are made of hunks with a header each.                           *)
LEMMA Shifts ==
  ASSUME NEW A \in SUBSET Nat, IsFiniteSet(A), NEW n \in Nat
  PROVE  Cardinality({i + n : i \in A}) = Cardinality(A)
<1> DEFINE B == {i + n : i \in A}
           f == [i \in A |-> i + n]
<1>1. f \in Bijection(A, B)
  <2>1. f \in Injection(A, B)
    BY DEF Injection, IsInjective
  <2>2. f \in Surjection(A, B)
    BY DEF Surjection
  <2> QED BY <2>1, <2>2 DEF Bijection
<1>2. ExistsBijection(A, B)
  BY <1>1 DEF ExistsBijection
<1> QED BY <1>2, FS_Bijection

KeptKinds == {"+", " "}
HunkKinds == {"+", " ", "-", "\\"}

LEMMA HunkLines ==
  /\ \A h : I!KeptIn(h) = Cardinality({i \in DOMAIN h : h[i] \in KeptKinds})
  /\ \A kind : /\ I!Line(kind) = [kind |-> kind, start |-> 0, count |-> 0]
               /\ I!Kept(I!Line(kind)) <=> kind \in KeptKinds
  /\ \A kind \in HunkKinds : kind \in Kinds /\ kind # "@@"
  /\ Hunks \subseteq Seq(HunkKinds)
  /\ "@@" \in Kinds /\ "@@" \notin KeptKinds
<1>1. \A kind : I!Line(kind).kind = kind /\ I!Line(kind) = [kind |-> kind, start |-> 0, count |-> 0]
  BY DEF I!Line
<1>2. \A line : I!Kept(line) <=> line.kind \in KeptKinds
  BY Zenon DEF I!Kept, KeptKinds
<1>3. \A h : I!KeptIn(h) = Cardinality({i \in DOMAIN h : h[i] \in KeptKinds})
  BY CardinalityIsI, Zenon DEF I!KeptIn, KeptKinds
<1>4. \A kind \in HunkKinds : kind \in Kinds /\ kind # "@@"
  BY Zenon DEF HunkKinds, Kinds
<1>5. Hunks \subseteq Seq(HunkKinds)
  BY LibraryAssumption, Zenon DEF I!ReviewAssumption, HunkKinds
<1>6. "@@" \in Kinds /\ "@@" \notin KeptKinds
  BY Zenon DEF Kinds, KeptKinds
<1> QED BY <1>1, <1>2, <1>3, <1>4, <1>5, <1>6

LEMMA HunkWithHeader ==
  ASSUME NEW start \in Nat, NEW hunk \in Hunks
  PROVE  WellFormed(I!WithHeader(start, hunk)) /\ I!KeptIn(hunk) \in Nat /\ I!WithHeader(start, hunk) # <<>>
<1> DEFINE n == Len(hunk)
           head == [kind |-> "@@", start |-> start, count |-> I!KeptIn(hunk)]
           tail == [i \in DOMAIN hunk |-> I!Line(hunk[i])]
           w == I!WithHeader(start, hunk)
           A == {i \in DOMAIN hunk : hunk[i] \in KeptKinds}
<1>1. hunk \in Seq(HunkKinds) /\ n \in Nat /\ DOMAIN hunk = 1 .. n
  BY HunkLines
<1>2. IsFiniteSet(A) /\ A \in SUBSET Nat /\ I!KeptIn(hunk) = Cardinality(A) /\ I!KeptIn(hunk) \in Nat
  <2>1. A \in SUBSET (1 .. n) /\ IsFiniteSet(1 .. n)
    BY <1>1, FS_Interval
  <2>2. IsFiniteSet(A) /\ A \in SUBSET Nat
    BY <1>1, <2>1, FS_Subset
  <2>3. I!KeptIn(hunk) = Cardinality(A)
    BY HunkLines
  <2> HIDE DEF A
  <2> QED BY <2>2, <2>3, FS_CardinalityType
<1>3. head \in PatchLine /\ head.kind = "@@" /\ head.count = Cardinality(A)
  BY <1>2, HunkLines DEF PatchLine
<1>4. \A kind \in HunkKinds : I!Line(kind) \in PatchLine /\ I!Line(kind).kind # "@@"
  BY HunkLines DEF PatchLine
<1>5. tail \in Seq(PatchLine) /\ Len(tail) = n /\ \A i \in 1 .. n : tail[i] = I!Line(hunk[i])
  BY <1>1, <1>4
<1>6. w = <<head>> \o tail
  BY DEF I!WithHeader
<1> HIDE DEF head, tail
<1>7. /\ w \in Seq(PatchLine) /\ Len(w) = n + 1 /\ w[1] = head
      /\ \A i \in 1 .. n : w[i + 1] = tail[i]
  <2> HIDE DEF w
  <2>1. <<head>> \in Seq(PatchLine) /\ Len(<<head>>) = 1 /\ <<head>>[1] = head
    BY <1>3
  <2> QED BY <1>1, <1>3, <1>5, <1>6, <2>1
<1> HIDE DEF w
<1>8. \A i \in 1 .. n : w[i + 1].kind # "@@" /\ (I!Kept(w[i + 1]) <=> hunk[i] \in KeptKinds)
  <2> TAKE i \in 1 .. n
  <2>1. hunk[i] \in HunkKinds /\ w[i + 1] = I!Line(hunk[i])
    BY <1>1, <1>5, <1>7
  <2> QED BY <1>4, <2>1, HunkLines
<1>9. \A j \in 2 .. n + 1 : w[j].kind # "@@" /\ (I!Kept(w[j]) <=> hunk[j - 1] \in KeptKinds)
  <2> TAKE j \in 2 .. n + 1
  <2>1. j - 1 \in 1 .. n /\ (j - 1) + 1 = j
    BY <1>1
  <2> QED BY <1>8, <2>1
<1>10. KeptAfter(w, 1, n + 1) = {i + 1 : i \in A}
  <2>1. ASSUME NEW j \in KeptAfter(w, 1, n + 1) PROVE j \in {i + 1 : i \in A}
    <3>1. j \in 2 .. n + 1 /\ hunk[j - 1] \in KeptKinds /\ j - 1 \in 1 .. n /\ j = (j - 1) + 1
      BY <1>1, <1>9 DEF KeptAfter
    <3> QED BY <1>1, <3>1
  <2>2. ASSUME NEW i \in A PROVE i + 1 \in KeptAfter(w, 1, n + 1)
    BY <1>1, <1>8 DEF KeptAfter
  <2> QED BY <2>1, <2>2
<1>11. Cardinality(KeptAfter(w, 1, n + 1)) = Cardinality(A)
  <2>1. 1 \in Nat
    OBVIOUS
  <2> HIDE DEF A
  <2> QED BY <1>2, <1>10, <2>1, Shifts, Zenon
<1>12. WellFormed(w)
  <2>1. ASSUME NEW h \in 1 .. Len(w), w[h].kind = "@@"
        PROVE  CountsItsHunk(w, h, Len(w))
    <3>1. h = 1
      BY <1>1, <1>7, <1>9, <2>1
    <3>2. n + 1 \in h .. Len(w)
      BY <1>1, <1>7, <3>1
    <3>3. w[h].count = Cardinality(KeptAfter(w, h, n + 1))
      BY <1>3, <1>7, <1>11, <3>1
    <3> QED BY <1>1, <1>7, <1>9, <3>1, <3>2, <3>3 DEF CountsItsHunk
  <2> QED BY <1>3, <1>7, <2>1 DEF WellFormed
<1>13. w # <<>>
  BY <1>1, <1>7
<1> QED BY <1>2, <1>12, <1>13 DEF w

LEMMA PatchesJoin ==
  ASSUME NEW p, NEW q, WellFormed(p), WellFormed(q)
  PROVE  WellFormed(p \o q)
<1> DEFINE n == Len(p)  m == Len(q)  z == p \o q
<1>1. p \in Seq(PatchLine) /\ q \in Seq(PatchLine) /\ n \in Nat /\ m \in Nat
  BY DEF WellFormed
<1>2. /\ z \in Seq(PatchLine) /\ Len(z) = n + m
      /\ \A i \in 1 .. n : z[i] = p[i]
      /\ \A i \in 1 .. m : z[n + i] = q[i]
  BY <1>1
<1>3. \A j \in n + 1 .. n + m : z[j] = q[j - n] /\ j - n \in 1 .. m /\ n + (j - n) = j
  <2> TAKE j \in n + 1 .. n + m
  <2>1. j - n \in 1 .. m /\ n + (j - n) = j
    BY <1>1
  <2> HIDE DEF z
  <2> QED BY <1>2, <2>1
<1>4. z # <<>> => z[1].kind = "@@"
  <2>1. CASE n # 0
    BY <1>1, <1>2, <2>1 DEF WellFormed
  <2>2. CASE n = 0
    <3>1. z = q
      BY <1>1, <2>2
    <3> QED BY <3>1 DEF WellFormed
  <2> QED BY <2>1, <2>2
<1>5. m # 0 => z[n + 1].kind = "@@"
  <2> SUFFICES ASSUME m # 0 PROVE z[n + 1].kind = "@@"
    OBVIOUS
  <2>1. q[1].kind = "@@" /\ 1 \in 1 .. m
    BY <1>1 DEF WellFormed
  <2> HIDE DEF z
  <2> QED BY <1>2, <2>1
<1> HIDE DEF z
<1>6. ASSUME NEW h \in 1 .. n + m, z[h].kind = "@@"
      PROVE  CountsItsHunk(z, h, n + m)
  <2>1. CASE h \in 1 .. n
    <3>1. p[h].kind = "@@" /\ z[h] = p[h]
      BY <1>2, <1>6, <2>1
    <3>2. PICK e \in h .. n : /\ \A j \in h + 1 .. e : p[j].kind # "@@"
                              /\ p[h].count = Cardinality(KeptAfter(p, h, e))
                              /\ \A j \in e + 1 .. n : I!Kept(p[j]) => \E g \in e + 1 .. j : p[g].kind = "@@"
      BY <2>1, <3>1 DEF WellFormed, CountsItsHunk
    <3>3. \A j \in h + 1 .. e : z[j] = p[j]
      BY <1>1, <1>2, <2>1
    <3>4. KeptAfter(z, h, e) = KeptAfter(p, h, e)
      BY <3>3 DEF KeptAfter
    <3>5. ASSUME NEW j \in e + 1 .. n + m, I!Kept(z[j]) PROVE \E g \in e + 1 .. j : z[g].kind = "@@"
      <4>1. CASE j <= n
        <5>1. j \in e + 1 .. n /\ z[j] = p[j]
          BY <1>1, <1>2, <2>1, <4>1
        <5>2. PICK g \in e + 1 .. j : p[g].kind = "@@"
          BY <3>2, <3>5, <5>1
        <5>3. z[g] = p[g]
          BY <1>1, <1>2, <2>1, <4>1
        <5> QED BY <5>2, <5>3
      <4>2. CASE ~(j <= n)
        <5>1. m # 0 /\ n + 1 \in e + 1 .. j
          BY <1>1, <2>1, <4>2
        <5> QED BY <1>5, <5>1
      <4> QED BY <4>1, <4>2
    <3>6. e \in h .. n + m
      BY <1>1, <2>1
    <3> QED BY <3>1, <3>2, <3>3, <3>4, <3>5, <3>6 DEF CountsItsHunk
  <2>2. CASE h \notin 1 .. n
    <3> DEFINE k == h - n
    <3>1. k \in 1 .. m /\ n + k = h /\ z[h] = q[k]
      BY <1>1, <1>3, <2>2
    <3> HIDE DEF k
    <3>2. PICK e \in k .. m : /\ \A j \in k + 1 .. e : q[j].kind # "@@"
                              /\ q[k].count = Cardinality(KeptAfter(q, k, e))
                              /\ \A j \in e + 1 .. m : I!Kept(q[j]) => \E g \in e + 1 .. j : q[g].kind = "@@"
      BY <1>6, <3>1 DEF WellFormed, CountsItsHunk
    <3>3. \A j \in h + 1 .. n + e : z[j] = q[j - n] /\ j - n \in k + 1 .. e /\ j = (j - n) + n
      <4> TAKE j \in h + 1 .. n + e
      <4>1. j \in n + 1 .. n + m /\ j - n \in k + 1 .. e /\ j = (j - n) + n
        BY <1>1, <3>1
      <4> QED BY <1>3, <4>1
    <3>4. \A i \in k + 1 .. e : i + n \in h + 1 .. n + e /\ z[i + n] = q[i]
      <4> TAKE i \in k + 1 .. e
      <4>1. i \in 1 .. m /\ i + n = n + i /\ i + n \in h + 1 .. n + e
        BY <1>1, <3>1
      <4> QED BY <1>2, <4>1
    <3>5. KeptAfter(z, h, n + e) = {i + n : i \in KeptAfter(q, k, e)}
      <4>1. ASSUME NEW j \in KeptAfter(z, h, n + e) PROVE j \in {i + n : i \in KeptAfter(q, k, e)}
        <5>1. j \in h + 1 .. n + e /\ I!Kept(z[j])
          BY DEF KeptAfter
        <5>2. j - n \in KeptAfter(q, k, e) /\ j = (j - n) + n
          BY <3>3, <5>1 DEF KeptAfter
        <5> QED BY <5>2
      <4>2. ASSUME NEW i \in KeptAfter(q, k, e) PROVE i + n \in KeptAfter(z, h, n + e)
        <5>1. i \in k + 1 .. e /\ I!Kept(q[i])
          BY DEF KeptAfter
        <5> QED BY <3>4, <5>1 DEF KeptAfter
      <4> QED BY <4>1, <4>2
    <3>6. KeptAfter(q, k, e) \in SUBSET Nat /\ IsFiniteSet(KeptAfter(q, k, e))
      <4>1. k \in Nat /\ e \in Nat /\ k <= e
        BY <1>1, <3>1
      <4>2. KeptAfter(q, k, e) \in SUBSET Nat
        BY <4>1 DEF KeptAfter
      <4> QED BY <4>1, <4>2, KeptGrows
    <3>7. z[h].count = Cardinality(KeptAfter(z, h, n + e))
      <4>1. Cardinality(KeptAfter(z, h, n + e)) = Cardinality(KeptAfter(q, k, e))
        BY <1>1, <3>5, <3>6, Shifts, Zenon
      <4> QED BY <3>1, <3>2, <4>1
    <3>8. ASSUME NEW j \in n + e + 1 .. n + m, I!Kept(z[j]) PROVE \E g \in n + e + 1 .. j : z[g].kind = "@@"
      <4>1. j - n \in e + 1 .. m /\ z[j] = q[j - n]
        BY <1>1, <1>3, <3>1
      <4>2. PICK g \in e + 1 .. j - n : q[g].kind = "@@"
        BY <3>2, <3>8, <4>1
      <4>3. n + g \in n + e + 1 .. j /\ g \in 1 .. m
        BY <1>1, <3>1, <4>1
      <4> QED BY <1>2, <4>2, <4>3
    <3>9. n + e \in h .. n + m
      BY <1>1, <3>1
    <3>10. \A j \in h + 1 .. n + e : z[j].kind # "@@"
      BY <3>2, <3>3
    <3> QED BY <3>7, <3>8, <3>9, <3>10 DEF CountsItsHunk
  <2> QED BY <2>1, <2>2
<1>7. WellFormed(z)
  BY <1>2, <1>4, <1>6 DEF WellFormed
<1> QED BY <1>7 DEF z

LEMMA PatchEnds ==
  ASSUME NEW p, WellFormed(p), p # <<>>
  PROVE  WellFormed(p \o <<I!EmptyLine>>)
<1> DEFINE n == Len(p)
<1>1. PICK line \in PatchLine : line = I!EmptyLine /\ ~I!Kept(line) /\ line.kind # "@@"
  <2>1. "" \in Kinds /\ "" \notin KeptKinds /\ "" # "@@"
    BY Zenon DEF Kinds, KeptKinds
  <2>2. PICK kind : kind = ""
    OBVIOUS
  <2>3. kind \in Kinds /\ kind \notin KeptKinds /\ kind # "@@"
    BY <2>1, <2>2, Zenon
  <2>4. I!Line(kind) \in PatchLine /\ ~I!Kept(I!Line(kind)) /\ I!Line(kind).kind # "@@"
    BY <2>3, HunkLines DEF PatchLine
  <2> QED BY <2>2, <2>4, Zenon DEF I!EmptyLine
<1>0. ~I!Kept(line) /\ line.kind # "@@"
  BY <1>1, Zenon
<1> DEFINE z == p \o <<line>>
<1>2. p \in Seq(PatchLine) /\ n \in Nat /\ n # 0 /\ p[1].kind = "@@"
  BY DEF WellFormed
<1>3. z \in Seq(PatchLine) /\ Len(z) = n + 1 /\ z[n + 1] = line /\ \A i \in 1 .. n : z[i] = p[i]
  BY <1>2
<1> HIDE DEF z
<1>4. ASSUME NEW h \in 1 .. n + 1, z[h].kind = "@@"
      PROVE  CountsItsHunk(z, h, n + 1)
  <2>1. h \in 1 .. n /\ z[h] = p[h]
    BY <1>0, <1>2, <1>3, <1>4
  <2>2. PICK e \in h .. n : /\ \A j \in h + 1 .. e : p[j].kind # "@@"
                            /\ p[h].count = Cardinality(KeptAfter(p, h, e))
                            /\ \A j \in e + 1 .. n : I!Kept(p[j]) => \E g \in e + 1 .. j : p[g].kind = "@@"
    BY <1>4, <2>1 DEF WellFormed, CountsItsHunk
  <2>3. \A j \in h + 1 .. e : z[j] = p[j]
    BY <1>2, <1>3, <2>1
  <2>4. KeptAfter(z, h, e) = KeptAfter(p, h, e)
    BY <2>3 DEF KeptAfter
  <2>5. ASSUME NEW j \in e + 1 .. n + 1, I!Kept(z[j]) PROVE \E g \in e + 1 .. j : z[g].kind = "@@"
    <3>1. j # n + 1
      BY <1>0, <1>3, <2>5
    <3>2. j \in e + 1 .. n /\ z[j] = p[j]
      BY <1>2, <1>3, <2>1, <3>1
    <3>3. PICK g \in e + 1 .. j : p[g].kind = "@@"
      BY <2>2, <2>5, <3>2
    <3>4. z[g] = p[g]
      BY <1>2, <1>3, <2>1, <3>2
    <3> QED BY <3>3, <3>4
  <2>6. e \in h .. n + 1
    BY <1>2, <2>1
  <2> QED BY <2>1, <2>2, <2>3, <2>4, <2>5, <2>6 DEF CountsItsHunk
<1>5. z[1].kind = "@@"
  BY <1>2, <1>3
<1>6. WellFormed(z)
  BY <1>3, <1>4, <1>5 DEF WellFormed
<1> QED BY <1>1, <1>6, Zenon DEF z

LEMMA PatchesAreWellFormed ==
  ASSUME NEW p \in I!Patches \cup {I!NoPatch}
  PROVE  WellFormed(p)
<1>1. \A h \in Hunks : I!KeptIn(h) \in Nat
  <2> TAKE h \in Hunks
  <2>1. 0 \in Nat
    OBVIOUS
  <2> QED BY <2>1, HunkWithHeader
<1>2. \A s \in Nat, h \in Hunks : WellFormed(I!WithHeader(s, h)) /\ I!WithHeader(s, h) # <<>>
  BY HunkWithHeader
<1> DEFINE one == {I!WithHeader(s, h) : s \in {1, 2}, h \in Hunks}
           two == {I!WithHeader(1, h) \o I!WithHeader(1 + I!KeptIn(h) + 1, k) : h, k \in Hunks}
           ended == {q \o <<I!EmptyLine>> : q \in two}
<1>3. p \in one \/ p \in two \/ p \in ended \/ p = <<>>
  <2>1. I!Patches = one \cup (IF MaxHunks < 2 THEN {} ELSE two \cup ended)
    BY DEF I!Patches
  <2> HIDE DEF one, two, ended
  <2> QED BY <2>1 DEF I!NoPatch
<1>4. \A q \in one : WellFormed(q)
  <2> TAKE q \in one
  <2>1. PICK k \in {1, 2}, h \in Hunks : q = I!WithHeader(k, h)
    OBVIOUS
  <2>2. k \in Nat
    OBVIOUS
  <2> HIDE DEF one, two, ended
  <2> QED BY <1>2, <2>1, <2>2, Zenon
<1>5. \A q \in two : WellFormed(q) /\ q # <<>>
  <2> TAKE q \in two
  <2>1. PICK h \in Hunks, k \in Hunks : q = I!WithHeader(1, h) \o I!WithHeader(1 + I!KeptIn(h) + 1, k)
    OBVIOUS
  <2> DEFINE s == 1 + I!KeptIn(h) + 1  a == I!WithHeader(1, h)  b == I!WithHeader(s, k)
  <2>2. s \in Nat
    BY <1>1
  <2> HIDE DEF s
  <2>3. WellFormed(a) /\ a # <<>> /\ WellFormed(b)
    BY <1>2, <2>2
  <2>4. q = a \o b
    BY <2>1 DEF s
  <2> HIDE DEF a, b
  <2>5. WellFormed(q)
    BY <2>3, <2>4, PatchesJoin
  <2>6. q # <<>>
    BY <2>3, <2>4 DEF WellFormed
  <2> QED BY <2>5, <2>6
<1>6. WellFormed(<<>>)
  BY DEF WellFormed
<1> HIDE DEF one, two
<1>7. CASE p \in {q \o <<I!EmptyLine>> : q \in two}
  <2>1. PICK q \in two : p = q \o <<I!EmptyLine>>
    BY <1>7, Zenon
  <2>2. WellFormed(q \o <<I!EmptyLine>>)
    BY <1>5, PatchEnds, Zenon
  <2> QED BY <2>1, <2>2, Zenon
<1> QED BY <1>3, <1>4, <1>5, <1>6, <1>7, Zenon
-----------------------------------------------------------------------------
(* What holds of one review, from the diff to the posted comments.         *)
CommentOn(f) == [path |-> f.citation.file, position |-> I!Max(I!Anchor(f)), finding |-> f]

PostedAre ==
  /\ comments = UNION {{CommentOn(f)} : f \in {g \in findings : I!Anchor(g) # {}}}
  /\ UNION {s.findings : s \in summary} = {f \in findings : I!Anchor(f) = {}}

CitesAChunk(f) ==
  f.file \in Files /\ (f.citation # I!NoCitation => \E k \in ReviewChunks : ChunkAt[k] = f.citation)

ReviewInv ==
  /\ patch \in [Files -> I!Patches \cup {I!NoPatch}]
  /\ changed \cup related \cup citable \subseteq ReviewChunks
  /\ \A f \in findings : CitesAChunk(f)
  /\ stage # "posted" => comments = {}
  /\ stage = "posted" => PostedAre

LEMMA LargestOf ==
  ASSUME NEW n \in Nat, NEW S \in SUBSET (1 .. n), S # {}
  PROVE  I!Max(S) \in S
<1> DEFINE T == {n - x : x \in S}
<1>1. PICK y \in T : \A z \in T : y <= z
  <2>1. T \subseteq Nat
    OBVIOUS
  <2>2. PICK x \in S : TRUE
    OBVIOUS
  <2>3. n - x \in T
    BY <2>2
  <2> HIDE DEF T
  <2> QED BY <2>1, <2>3, Least
<1>2. PICK x \in S : y = n - x
  BY <1>1
<1>3. \A z \in S : n - z \in T
  OBVIOUS
<1>4. \A z \in S : x >= z
  <2> TAKE z \in S
  <2>1. n - x <= n - z
    BY <1>1, <1>2, <1>3
  <2> QED BY <2>1
<1>5. \E z \in S : \A w \in S : z >= w
  BY <1>4
<1> QED BY <1>5 DEF I!Max

(* A finding with an anchor is on a line the diff shows.                   *)
LEMMA AnchorIs ==
  ASSUME ReviewInv, NEW f \in findings, I!Anchor(f) # {}
  PROVE  LET p == patch[f.citation.file]  position == I!Max(I!Anchor(f)) IN
         /\ position + 1 \in DOMAIN p /\ I!Kept(p[position + 1]) /\ I!ShownAt(p, position) = f.line
         /\ f.file = f.citation.file
         /\ \E k \in ReviewChunks : ChunkAt[k].file = f.citation.file /\ f.line \in ChunkAt[k].first .. ChunkAt[k].last
<1> DEFINE p == patch[f.file]  position == I!Max(I!Anchor(f))
<1>1. /\ f.citation # I!NoCitation /\ f.file = f.citation.file /\ f.line \in f.citation.first .. f.citation.last
      /\ I!Anchor(f) = I!PositionOf(p, f.line)
  BY DEF I!Anchor
<1>2. f.file \in Files /\ \E k \in ReviewChunks : ChunkAt[k] = f.citation
  BY <1>1 DEF ReviewInv, CitesAChunk
<1>3. WellFormed(p)
  BY <1>2, PatchesAreWellFormed DEF ReviewInv
<1> HIDE DEF p
<1>4. DOMAIN p = 1 .. Len(p) /\ Len(p) \in Nat
  BY <1>3 DEF WellFormed
<1>5. \A a \in I!Anchor(f) : \E q \in I!Positions(p) : q.line = f.line /\ q.position = a
  BY <1>1 DEF I!PositionOf
<1>6. \A a \in I!Anchor(f) : a \in 1 .. Len(p) - 1 /\ I!Kept(p[a + 1]) /\ f.line = I!NewLineBefore(p, a)
  BY <1>3, <1>5, PositionIs
<1>7. position \in I!Anchor(f)
  <2>1. I!Anchor(f) \in SUBSET (1 .. Len(p))
    BY <1>4, <1>6
  <2> QED BY <1>4, <2>1, LargestOf
<1> HIDE DEF position
<1>8. position \in 1 .. Len(p) - 1 /\ I!Kept(p[position + 1]) /\ f.line = I!NewLineBefore(p, position)
  BY <1>6, <1>7
<1>9. position \in 1 .. Len(p) /\ position + 1 \in DOMAIN p
  BY <1>4, <1>8
<1>10. I!ShownAt(p, position) = f.line
  BY <1>3, <1>8, <1>9, PassIsShown
<1>11. \E k \in ReviewChunks : ChunkAt[k].file = f.citation.file /\ f.line \in ChunkAt[k].first .. ChunkAt[k].last
  BY <1>1, <1>2
<1> QED BY <1>1, <1>8, <1>9, <1>10, <1>11 DEF p, position

LEMMA ReviewShows == ReviewInv => I!FindingsArrive
<1> SUFFICES ASSUME ReviewInv PROVE I!FindingsArrive
  OBVIOUS
<1>1. I!CommentsLand
  <2>1. CASE stage # "posted"
    BY <2>1 DEF ReviewInv, I!CommentsLand
  <2>2. CASE stage = "posted"
    <3> SUFFICES ASSUME NEW c \in comments
                 PROVE  LET p == patch[c.path] IN
                        /\ c.position + 1 \in DOMAIN p /\ I!Kept(p[c.position + 1])
                        /\ I!ShownAt(p, c.position) = c.finding.line
                        /\ c.finding.file = c.path
                        /\ \E k \in ReviewChunks : /\ ChunkAt[k].file = c.path
                                                   /\ c.finding.line \in ChunkAt[k].first .. ChunkAt[k].last
      BY DEF I!CommentsLand
    <3>1. PICK f \in findings : I!Anchor(f) # {} /\ c = CommentOn(f)
      BY <2>2 DEF ReviewInv, PostedAre
    <3>2. c.path = f.citation.file /\ c.position = I!Max(I!Anchor(f)) /\ c.finding = f
      BY <3>1 DEF CommentOn
    <3> QED BY <3>1, <3>2, AnchorIs
  <2> QED BY <2>1, <2>2
<1>2. I!EveryFindingPosted
  <2> SUFFICES ASSUME stage = "posted"
               PROVE {c.finding : c \in comments} \cup UNION {s.findings : s \in summary} = findings
    BY DEF I!EveryFindingPosted
  <2>1. PostedAre
    BY DEF ReviewInv
  <2>2. \A f : CommentOn(f).finding = f
    BY DEF CommentOn
  <2>3. {c.finding : c \in comments} = {g \in findings : I!Anchor(g) # {}}
    BY <2>1, <2>2 DEF PostedAre
  <2> QED BY <2>1, <2>3 DEF PostedAre
<1>3. I!RangesAreShown
  <2> SUFFICES ASSUME NEW f \in Files
               PROVE  UNION I!Ranges(patch[f]) = {q.line : q \in I!Positions(patch[f])}
    BY DEF I!RangesAreShown
  <2>1. WellFormed(patch[f])
    BY PatchesAreWellFormed DEF ReviewInv
  <2> QED BY <2>1, RangesShow
<1> QED BY <1>1, <1>2, <1>3 DEF I!FindingsArrive

LEMMA ChunksOf ==
  /\ \A cs : I!OneHop(cs) \subseteq ReviewChunks
  /\ I!ChangedChunks \subseteq ReviewChunks
<1>1. Calls \subseteq ReviewChunks \X ReviewChunks
  <2>1. Calls \cup NamedAfter \subseteq ReviewChunks \X ReviewChunks
    BY LibraryAssumption, Zenon DEF I!ReviewAssumption
  <2> QED BY <2>1
<1> QED BY <1>1 DEF I!OneHop, I!ChangedChunks

LEMMA ReviewStart == I!Init => ReviewInv
BY DEF I!Init, ReviewInv

LEMMA GatherKeeps ==
  ASSUME ReviewInv, I!MapChanges \/ I!GetDependencies \/ I!LoadContext \/ \E f \in Files : I!Reindex(f)
  PROVE  ReviewInv'
<1>1. stage # "posted" /\ stage' # "posted" /\ UNCHANGED <<patch, findings, comments, summary>>
  BY DEF I!MapChanges, I!GetDependencies, I!LoadContext, I!Reindex
<1>2. changed' \cup related' \cup citable' \subseteq ReviewChunks
  <2>1. CASE I!MapChanges
    BY <2>1, ChunksOf DEF I!MapChanges, ReviewInv
  <2>2. CASE I!GetDependencies
    BY <2>2, ChunksOf DEF I!GetDependencies, ReviewInv
  <2>3. CASE I!LoadContext
    BY <2>3 DEF I!LoadContext, ReviewInv
  <2>4. CASE \E f \in Files : I!Reindex(f)
    BY <2>4 DEF I!Reindex, ReviewInv
  <2> QED BY <2>1, <2>2, <2>3, <2>4
<1> QED BY <1>1, <1>2 DEF ReviewInv, CitesAChunk

LEMMA RunKeeps ==
  ASSUME ReviewInv, I!RunReview
  PROVE  ReviewInv'
<1>1. PICK f \in Files, n \in Lines, cited0 \in {ChunkAt[c] : c \in ReviewChunks} \cup {I!NoCitation} :
        findings' = {[file |-> f, line |-> n, citation |-> I!Validated(cited0)]}
  BY DEF I!RunReview
<1>2. I!Validated(cited0) # I!NoCitation => \E k \in ReviewChunks : ChunkAt[k] = I!Validated(cited0)
  BY DEF I!Validated, ReviewInv
<1>3. \A g \in findings' : CitesAChunk(g)
  BY <1>1, <1>2 DEF CitesAChunk
<1>4. /\ stage # "posted" /\ stage' # "posted"
      /\ UNCHANGED <<patch, changed, related, citable, comments>>
  BY DEF I!RunReview
<1> QED BY <1>3, <1>4 DEF ReviewInv, CitesAChunk

LEMMA PostKeeps ==
  ASSUME ReviewInv, I!PostReview
  PROVE  ReviewInv'
<1>1. UNCHANGED <<patch, changed, related, citable, findings>> /\ stage' = "posted"
  BY DEF I!PostReview
<1>2. \A f : I!Anchor(f)' = I!Anchor(f)
  BY <1>1 DEF I!Anchor
<1>3. comments' = UNION {{CommentOn(f)} : f \in {g \in findings : I!Anchor(g) # {}}}
  BY DEF I!PostReview, CommentOn
<1>4. UNION {s.findings : s \in summary'} = {f \in findings : I!Anchor(f) = {}}
  <2> DEFINE rest == {f \in findings : I!Anchor(f) = {}}
  <2>1. summary' = {I!SummaryBody(rest)}
    BY DEF I!PostReview
  <2>2. I!SummaryBody(rest).findings = rest
    BY DEF I!SummaryBody
  <2> HIDE DEF rest
  <2> QED BY <2>1, <2>2 DEF rest
<1>5. PostedAre'
  BY <1>1, <1>2, <1>3, <1>4 DEF PostedAre, CommentOn
<1> QED BY <1>1, <1>5 DEF ReviewInv, CitesAChunk

LEMMA ReviewStep == ReviewInv /\ [I!Next]_I!vars => ReviewInv'
<1> SUFFICES ASSUME ReviewInv, [I!Next]_I!vars PROVE ReviewInv'
  OBVIOUS
<1>1. CASE UNCHANGED I!vars
  <2>1. UNCHANGED <<patch, changed, related, citable, findings, comments, summary, stage>>
    BY <1>1 DEF I!vars
  <2>2. \A f : I!Anchor(f)' = I!Anchor(f)
    BY <2>1 DEF I!Anchor
  <2>3. \A f : CommentOn(f)' = CommentOn(f)
    BY <2>1, <2>2, Zenon DEF CommentOn
  <2>4. PostedAre' = PostedAre
    BY <2>1, <2>2, <2>3 DEF PostedAre
  <2> QED BY <2>1, <2>4 DEF ReviewInv, CitesAChunk
<1>2. CASE I!Next
  BY <1>2, GatherKeeps, RunKeeps, PostKeeps DEF I!Next
<1> QED BY <1>1, <1>2

(* Whatever the hunks, the chunks and what the model writes, and though an *)
(* indexing job replaces rows between two reads: parseUnifiedDiff gives    *)
(* the lines a reader counts, postReviewToGitHub puts each comment on the  *)
(* line its finding names, and no finding is lost.                         *)
THEOREM FindingsKept == LibrarySpec => []FindingsArrive
<1>1. I!Spec => []ReviewInv
  <2> QED BY ReviewStart, ReviewStep, PTL DEF I!Spec
<1>2. ReviewInv => FindingsArrive
  BY ReviewShows DEF FindingsArrive
<1> QED BY <1>1, <1>2, Components, PTL
=============================================================================
