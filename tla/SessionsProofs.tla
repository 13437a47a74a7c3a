---------------------------- MODULE SessionsProofs ----------------------------
(* Why a browser with one tab exchanges each of its refresh tokens once,   *)
(* although rotateSession is three statements without a transaction, for   *)
(* any number of calls and lost answers: the single flight of a tab is all *)
(* that keeps two rotations of one token apart.                            *)
EXTENDS Sessions, TLAPS

Refresh == [pc : {"idle", "sent", "valid", "revoked", "done", "failed"},
            old : Tokens \cup {Nil}, new : Tokens \cup {Nil}]

(* The types SingleUse rests on, and that only issued tokens are live.     *)
RotationTyped ==
  /\ issued \in Nat /\ issued <= MaxTokens
  /\ live \subseteq 1 .. issued
  /\ exchanged \in [Tokens -> Nat]
  /\ cookie \in Tokens \cup {Nil}
  /\ refresh \in [Tabs -> [Callers -> Refresh]]

OneFlight == \A t \in Tabs, c, d \in Callers :
  refresh[t][c].pc # "idle" /\ refresh[t][d].pc # "idle" => c = d

(* An exchanged token was issued, and is live no more.                     *)
Spent == \A k \in Tokens :
  exchanged[k] \in {0, 1} /\ (exchanged[k] = 1 => k <= issued /\ k \notin live)

(* A token that is being rotated has not been exchanged; once revoked it   *)
(* is not live either.                                                     *)
Rotating == \A t \in Tabs, c \in Callers :
  refresh[t][c].pc \in {"valid", "revoked"} =>
    /\ refresh[t][c].old \in 1 .. issued
    /\ exchanged[refresh[t][c].old] = 0
    /\ refresh[t][c].pc = "revoked" => refresh[t][c].old \notin live

RotationInv == RotationTyped /\ OneFlight /\ Spent /\ Rotating

-----------------------------------------------------------------------------
LEMMA InitRotation == ASSUME MaxTokens \in Nat PROVE Init => RotationInv
<1> SUFFICES ASSUME Init PROVE RotationInv
  OBVIOUS
<1>1. Idle \in Refresh /\ Idle.pc = "idle"
  BY DEF Idle, Refresh
<1>2. refresh \in [Tabs -> [Callers -> Refresh]] /\ \A t \in Tabs, c \in Callers : refresh[t][c].pc = "idle"
  BY <1>1 DEF Init
<1>3. exchanged \in [Tokens -> Nat] /\ \A k \in Tokens : exchanged[k] = 0
  BY DEF Init
<1>4. RotationTyped
  BY <1>2, <1>3 DEF Init, RotationTyped, Nil
<1>5. OneFlight /\ Rotating
  BY <1>2 DEF OneFlight, Rotating
<1> QED
  BY <1>3, <1>4, <1>5 DEF RotationInv, Spent

(* Sessions end, a cookie changes or a new session starts, while every     *)
(* refresh stays where it is.                                              *)
LEMMA RefreshesStay ==
  ASSUME RotationInv, MaxTokens \in Nat, UNCHANGED <<exchanged, refresh>>,
         cookie' \in Tokens \cup {Nil},
         \/ issued' = issued /\ live' \subseteq live
         \/ issued < MaxTokens /\ issued' = issued + 1 /\ live' = live \cup {issued'}
  PROVE  RotationInv'
<1>1. issued' \in Nat /\ issued <= issued' /\ issued' <= MaxTokens /\ live' \subseteq 1 .. issued'
  <2>1. issued \in Nat /\ issued <= MaxTokens /\ live \subseteq 1 .. issued
    BY DEF RotationInv, RotationTyped
  <2>2. CASE issued' = issued /\ live' \subseteq live
    BY <2>1, <2>2
  <2>3. CASE issued < MaxTokens /\ issued' = issued + 1 /\ live' = live \cup {issued'}
    <3>1. 1 .. issued \subseteq 1 .. issued + 1 /\ issued + 1 \in 1 .. issued + 1
      BY <2>1
    <3> QED
      BY <2>1, <2>3, <3>1
  <2> QED
    BY <2>2, <2>3
<1>2. \A k \in 1 .. issued : k \in live' => k \in live
  BY DEF RotationInv, RotationTyped
<1>3. RotationTyped' /\ OneFlight'
  BY <1>1 DEF RotationInv, RotationTyped, OneFlight
<1>4. Spent'
  BY <1>1, <1>2 DEF RotationInv, RotationTyped, Spent, Tokens
<1>5. Rotating'
  BY <1>1, <1>2 DEF RotationInv, RotationTyped, Rotating
<1> QED
  BY <1>3, <1>4, <1>5 DEF RotationInv

(* A refresh starts when none is in flight, stops, or fails its lookup,    *)
(* and nothing else changes but the cookie and sessions that end.          *)
LEMMA RefreshMoves ==
  ASSUME RotationInv, NEW t \in Tabs, NEW c \in Callers, NEW s \in Refresh,
         refresh' = [refresh EXCEPT ![t][c] = s], s.pc \notin {"valid", "revoked"},
         s.pc # "idle" => \A d \in Callers \ {c} : refresh[t][d].pc = "idle",
         cookie' \in Tokens \cup {Nil}, UNCHANGED <<issued, exchanged>>, live' \subseteq live
  PROVE  RotationInv'
<1>1. /\ refresh' \in [Tabs -> [Callers -> Refresh]]
      /\ refresh'[t][c] = s
      /\ \A u \in Tabs, d \in Callers : (u # t \/ d # c) => refresh'[u][d] = refresh[u][d]
  BY DEF RotationInv, RotationTyped
<1>2. RotationTyped'
  BY <1>1 DEF RotationInv, RotationTyped
<1>3. OneFlight'
  BY <1>1 DEF RotationInv, OneFlight
<1>4. Spent' /\ Rotating'
  BY <1>1 DEF RotationInv, Spent, Rotating
<1> QED
  BY <1>2, <1>3, <1>4 DEF RotationInv

-----------------------------------------------------------------------------
LEMMA AwaitStep ==
  ASSUME RotationInv, NEW t \in Tabs, NEW c \in Callers, NEW k \in Tokens \cup {Nil}, Await(t, c, k)
  PROVE  \/ UNCHANGED refresh
         \/ /\ refresh' = [refresh EXCEPT ![t][c] = [pc |-> "sent", old |-> k, new |-> Nil]]
            /\ [pc |-> "sent", old |-> k, new |-> Nil] \in Refresh
            /\ \A d \in Callers \ {c} : refresh[t][d].pc = "idle"
<1>1. [pc |-> "sent", old |-> k, new |-> Nil] \in Refresh
  BY DEF Refresh
<1>2. CASE Joined(t) = {}
  <2>1. \A d \in Callers : refresh[t][d].pc = "idle"
    BY <1>2 DEF Joined, InFlight
  <2>2. UNCHANGED refresh \/ refresh' = [refresh EXCEPT ![t][c] = [pc |-> "sent", old |-> k, new |-> Nil]]
    BY DEF Await
  <2> QED
    BY <1>1, <2>1, <2>2
<1>3. CASE Joined(t) # {}
  BY <1>3 DEF Await
<1> QED
  BY <1>2, <1>3

LEMMA AwaitKeeps ==
  ASSUME RotationInv, MaxTokens \in Nat, NEW t \in Tabs, NEW c \in Callers,
         NEW k \in Tokens \cup {Nil}, Await(t, c, k), UNCHANGED <<issued, live, exchanged, cookie>>
  PROVE  RotationInv'
<1>1. cookie' \in Tokens \cup {Nil}
  BY DEF RotationInv, RotationTyped
<1>2. CASE UNCHANGED refresh
  BY <1>1, <1>2, RefreshesStay
<1>3. CASE ~UNCHANGED refresh
  <2> DEFINE s == [pc |-> "sent", old |-> k, new |-> Nil]
  <2>1. /\ refresh' = [refresh EXCEPT ![t][c] = s] /\ s \in Refresh
        /\ \A d \in Callers \ {c} : refresh[t][d].pc = "idle"
    BY <1>3, AwaitStep
  <2>2. s.pc = "sent"
    OBVIOUS
  <2> HIDE DEF s
  <2> QED
    BY <1>1, <2>1, <2>2, RefreshMoves
<1> QED
  BY <1>2, <1>3

(* A login in a tab with nothing in flight: a new session and a new        *)
(* refresh, one after the other.                                           *)
LEMMA CallbackKeeps ==
  ASSUME RotationInv, MaxTokens \in Nat, NEW t \in Tabs, GithubCallback(t)
  PROVE  RotationInv'
<1>1. issued' = issued + 1 /\ issued' \in Tokens /\ Mount \in Callers
  BY DEF GithubCallback, RotationInv, RotationTyped, Tokens, Callers
<1> DEFINE s == [pc |-> "sent", old |-> issued + 1, new |-> Nil]
<1>2. s \in Refresh
  BY <1>1 DEF Refresh
<1>3. UNCHANGED refresh \/ refresh' = [refresh EXCEPT ![t][Mount] = s]
  BY <1>1 DEF GithubCallback, Load, Await
<1>4. CASE UNCHANGED refresh
  BY <1>1, <1>4, RefreshesStay DEF GithubCallback
<1>5. CASE refresh' = [refresh EXCEPT ![t][Mount] = s]
  <2>1. /\ refresh' \in [Tabs -> [Callers -> Refresh]]
        /\ refresh'[t][Mount] = s
        /\ \A u \in Tabs, d \in Callers : (u # t \/ d # Mount) => refresh'[u][d] = refresh[u][d]
    BY <1>1, <1>2, <1>5 DEF RotationInv, RotationTyped
  <2>2. \A d \in Callers : refresh[t][d].pc = "idle"
    BY DEF GithubCallback, Load, InFlight
  <2>3. RotationTyped'
    BY <1>1, <2>1 DEF GithubCallback, RotationInv, RotationTyped
  <2>4. OneFlight'
    BY <2>1, <2>2 DEF RotationInv, OneFlight
  <2>5. Spent'
    BY <1>1 DEF GithubCallback, RotationInv, RotationTyped, Spent, Tokens
  <2>6. Rotating'
    BY <1>1, <2>1 DEF GithubCallback, RotationInv, RotationTyped, Rotating
  <2> QED
    BY <2>3, <2>4, <2>5, <2>6 DEF RotationInv
<1> QED
  BY <1>3, <1>4, <1>5

-----------------------------------------------------------------------------
(* The three statements of rotateSession.                                  *)
LEMMA LookUpKeeps ==
  ASSUME RotationInv, MaxTokens \in Nat, NEW t \in Tabs, NEW c \in Callers, LookUp(t, c)
  PROVE  RotationInv'
<1> DEFINE r == refresh[t][c]
           s == [r EXCEPT !.pc = IF r.old \in live THEN "valid" ELSE "failed"]
<1>1. r \in Refresh /\ r.pc = "sent"
  BY DEF LookUp, RotationInv, RotationTyped
<1>2. s \in Refresh /\ s.old = r.old /\ s.pc = IF r.old \in live THEN "valid" ELSE "failed"
  BY <1>1 DEF Refresh
<1>3. refresh' = [refresh EXCEPT ![t][c] = s] /\ UNCHANGED <<issued, live, exchanged, cookie>>
  BY DEF LookUp, server, browser
<1> HIDE DEF r, s
<1>4. /\ refresh' \in [Tabs -> [Callers -> Refresh]]
      /\ refresh'[t][c] = s
      /\ \A u \in Tabs, d \in Callers : (u # t \/ d # c) => refresh'[u][d] = refresh[u][d]
  BY <1>2, <1>3 DEF RotationInv, RotationTyped
<1>5. RotationTyped'
  BY <1>3, <1>4 DEF RotationInv, RotationTyped
<1>6. OneFlight'
  BY <1>1, <1>4 DEF RotationInv, OneFlight, r
<1>7. Spent'
  BY <1>3 DEF RotationInv, Spent
<1>8. s.pc = "valid" => s.old \in 1 .. issued /\ exchanged[s.old] = 0
  <2>1. live \subseteq 1 .. issued /\ 1 .. issued \subseteq Tokens
    BY DEF RotationInv, RotationTyped, Tokens
  <2>2. \A k \in live : k \in Tokens /\ exchanged[k] = 0
    BY <2>1 DEF RotationInv, Spent
  <2> QED
    BY <1>2, <2>1, <2>2
<1>9. Rotating'
  BY <1>2, <1>3, <1>4, <1>8 DEF RotationInv, Rotating
<1> QED
  BY <1>5, <1>6, <1>7, <1>9 DEF RotationInv

LEMMA RevokeOldKeeps ==
  ASSUME RotationInv, NEW t \in Tabs, NEW c \in Callers, RevokeOld(t, c)
  PROVE  RotationInv'
<1> DEFINE r == refresh[t][c]
           s == [r EXCEPT !.pc = IF user = "present" THEN "revoked" ELSE "failed"]
<1>1. r \in Refresh /\ r.pc = "valid" /\ r.old \in 1 .. issued /\ exchanged[r.old] = 0
  BY DEF RevokeOld, RotationInv, RotationTyped, Rotating
<1>2. s \in Refresh /\ s.old = r.old /\ s.pc \in {"revoked", "failed"}
  BY <1>1 DEF Refresh
<1>3. /\ refresh' = [refresh EXCEPT ![t][c] = s] /\ live' = live \ {r.old}
      /\ UNCHANGED <<issued, exchanged, cookie>>
  BY DEF RevokeOld, Rotated, browser
<1> HIDE DEF s
<1>4. /\ refresh' \in [Tabs -> [Callers -> Refresh]]
      /\ refresh'[t][c] = s
      /\ \A u \in Tabs, d \in Callers : (u # t \/ d # c) => refresh'[u][d] = refresh[u][d]
  BY <1>2, <1>3 DEF RotationInv, RotationTyped
<1>5. RotationTyped'
  BY <1>3, <1>4 DEF RotationInv, RotationTyped
<1>6. OneFlight'
  BY <1>1, <1>4 DEF RotationInv, OneFlight
<1>7. Spent'
  BY <1>3 DEF RotationInv, Spent
<1>8. Rotating'
  BY <1>1, <1>2, <1>3, <1>4 DEF RotationInv, Rotating
<1> QED
  BY <1>5, <1>6, <1>7, <1>8 DEF RotationInv

LEMMA CreateSessionKeeps ==
  ASSUME RotationInv, MaxTokens \in Nat, \A t, u \in Tabs : t = u,
         NEW t \in Tabs, NEW c \in Callers, CreateSession(t, c)
  PROVE  RotationInv'
<1> DEFINE r == refresh[t][c]
<1>1. /\ r \in Refresh /\ r.pc = "revoked" /\ r.old \in 1 .. issued
      /\ exchanged[r.old] = 0 /\ r.old \notin live
  BY DEF CreateSession, RotationInv, RotationTyped, Rotating
<1>2. cookie' = cookie
  BY DEF CreateSession, browser
<1>3. CASE user = "deleted"
  <2>1. [r EXCEPT !.pc = "failed"] \in Refresh /\ [r EXCEPT !.pc = "failed"].pc = "failed"
    BY <1>1 DEF Refresh
  <2>2. /\ refresh' = [refresh EXCEPT ![t][c] = [r EXCEPT !.pc = "failed"]]
        /\ UNCHANGED <<issued, live, exchanged>>
    BY <1>3 DEF CreateSession
  <2>3. \A d \in Callers \ {c} : refresh[t][d].pc = "idle"
    BY <1>1 DEF RotationInv, OneFlight
  <2>4. cookie' \in Tokens \cup {Nil}
    BY <1>2 DEF RotationInv, RotationTyped
  <2> HIDE DEF r
  <2> QED
    BY <2>1, <2>2, <2>3, <2>4, RefreshMoves
<1>4. CASE user = "present"
  <2> DEFINE s == [r EXCEPT !.pc = "done", !.new = issued + 1]
  <2>1. /\ refresh' = [refresh EXCEPT ![t][c] = s]
        /\ issued < MaxTokens /\ issued' = issued + 1 /\ live' = live \cup {issued + 1}
        /\ exchanged' = [exchanged EXCEPT ![r.old] = @ + 1]
    BY <1>4 DEF CreateSession
  <2>2. issued + 1 \in Tokens /\ r.old \in Tokens /\ exchanged \in [Tokens -> Nat]
    BY <1>1, <2>1 DEF RotationInv, RotationTyped, Tokens
  <2>3. s \in Refresh /\ s.pc = "done"
    BY <1>1, <2>2 DEF Refresh
  <2>4. /\ exchanged' \in [Tokens -> Nat] /\ exchanged'[r.old] = 1
        /\ \A k \in Tokens \ {r.old} : exchanged'[k] = exchanged[k]
    BY <1>1, <2>1, <2>2
  <2> HIDE DEF s
  <2>5. /\ refresh' \in [Tabs -> [Callers -> Refresh]]
        /\ refresh'[t][c] = s
        /\ \A u \in Tabs, d \in Callers : (u # t \/ d # c) => refresh'[u][d] = refresh[u][d]
    BY <2>1, <2>3 DEF RotationInv, RotationTyped
  <2>6. \A u \in Tabs, d \in Callers : (u # t \/ d # c) => refresh[u][d].pc = "idle"
    BY <1>1 DEF RotationInv, OneFlight
  <2>7. RotationTyped'
    BY <1>2, <2>1, <2>4, <2>5 DEF RotationInv, RotationTyped
  <2>8. OneFlight' /\ Rotating'
    BY <2>3, <2>5, <2>6 DEF OneFlight, Rotating
  <2>9. Spent'
    BY <1>1, <2>1, <2>2, <2>4 DEF RotationInv, RotationTyped, Spent, Tokens
  <2> QED
    BY <2>7, <2>8, <2>9 DEF RotationInv
<1> QED
  BY <1>3, <1>4 DEF CreateSession

-----------------------------------------------------------------------------
(* The answer of a refresh, with its new token, lost, or a failure.        *)
LEMMA AnswerKeeps ==
  ASSUME RotationInv, NEW t \in Tabs, NEW c \in Callers, Refreshed(t, c) \/ RefreshFailed(t, c)
  PROVE  RotationInv'
<1>1. Idle \in Refresh /\ Idle.pc = "idle"
  BY DEF Idle, Refresh
<1>2. refresh' = [refresh EXCEPT ![t][c] = Idle] /\ UNCHANGED <<issued, live, exchanged>>
  BY DEF Refreshed, RefreshFailed, server
<1>3. cookie' \in Tokens \cup {Nil}
  <2>1. refresh[t][c] \in Refresh /\ cookie \in Tokens \cup {Nil}
    BY DEF RotationInv, RotationTyped
  <2>2. cookie' = cookie \/ cookie' = refresh[t][c].new
    BY DEF Refreshed, RefreshFailed
  <2> QED
    BY <2>1, <2>2 DEF Refresh
<1> QED
  BY <1>1, <1>2, <1>3, RefreshMoves

LEMMA NextRotation ==
  ASSUME MaxTokens \in Nat, \A t, u \in Tabs : t = u, RotationInv, [Next]_vars
  PROVE  RotationInv'
<1>1. cookie \in Tokens \cup {Nil} /\ Mount \in Callers
  BY DEF RotationInv, RotationTyped, Callers
<1>2. ASSUME NEW t \in Tabs, OpenPage(t) PROVE RotationInv'
  BY <1>1, <1>2, AwaitKeeps DEF OpenPage, Load, server
<1>3. ASSUME NEW t \in Tabs, GithubCallback(t) PROVE RotationInv'
  BY <1>3, CallbackKeeps
<1>4. ASSUME NEW t \in Tabs,
             StartGithubLogin(t) \/ StateExpires \/ InvalidState(t) \/ Expire(t)
      PROVE  RotationInv'
  BY <1>1, <1>4, RefreshesStay DEF StartGithubLogin, StateExpires, InvalidState, Expire, server
<1>5. ASSUME NEW t \in Tabs, Logout(t) \/ LogoutAnswered(t) \/ DeleteMe(t) PROVE RotationInv'
  BY <1>1, <1>5, RefreshesStay DEF Logout, LogoutAnswered, DeleteMe, Revoked, server
<1>6. ASSUME NEW t \in Tabs, NEW c \in Callers,
             LookUp(t, c) \/ RevokeOld(t, c) \/ CreateSession(t, c) \/ Refreshed(t, c) \/ RefreshFailed(t, c)
      PROVE  RotationInv'
  BY <1>6, LookUpKeeps, RevokeOldKeeps, CreateSessionKeeps, AnswerKeeps
<1>7. ASSUME NEW t \in Tabs, NEW c \in Callers, RefusedFirst(t, c) PROVE RotationInv'
  BY <1>1, <1>7, AwaitKeeps DEF RefusedFirst, server, browser
<1>8. ASSUME NEW t \in Tabs, NEW c \in Callers, Fetch(t, c) \/ Answered(t, c) \/ RefusedAgain(t, c)
      PROVE  RotationInv'
  BY <1>1, <1>8, RefreshesStay DEF Fetch, Answered, RefusedAgain, server, browser
<1>9. CASE UNCHANGED vars
  BY <1>1, <1>9, RefreshesStay DEF vars
<1> QED
  BY <1>2, <1>3, <1>4, <1>5, <1>6, <1>7, <1>8, <1>9 DEF Next

(* A browser with one tab exchanges no refresh token twice, whatever       *)
(* answers are lost and however many calls of the page are refused at once.*)
THEOREM OneTabRotatesOnce ==
  ASSUME MaxTokens \in Nat, \A t, u \in Tabs : t = u
  PROVE  Spec => []SingleUse
<1>1. Init => RotationInv
  BY InitRotation
<1>2. RotationInv /\ [Next]_vars => RotationInv'
  BY NextRotation
<1>3. RotationInv => SingleUse
  BY DEF RotationInv, Spent, SingleUse
<1> QED
  BY <1>1, <1>2, <1>3, PTL DEF Spec

-----------------------------------------------------------------------------
(* Every variable keeps its type, with any number of tabs.                 *)
Called     == [pc : {"idle", "first", "await", "second", "unauthorized"},
               with : {"none", "good", "expired"}, on : Callers]
Calling    == [Tabs -> [Callers -> Called]]
Refreshing == [Tabs -> [Callers -> Refresh]]

(* The rest of TypeOK.                                                     *)
SharedTyped ==
  /\ user \in {"present", "deleted"}
  /\ issued \in 0 .. MaxTokens /\ live \subseteq Tokens
  /\ exchanged \in [Tokens -> Nat]
  /\ cookie \in Tokens \cup {Nil}
  /\ state \in Tabs \cup {NoTab}
  /\ token \in [Tabs -> {"none", "good", "expired"}]
  /\ view \in [Tabs -> {"loading", "in", "out", "github"}]
  /\ logout \in [Tabs -> BOOLEAN]

LEMMA TypeParts ==
  /\ TypeOK <=> SharedTyped /\ call \in Calling /\ refresh \in Refreshing
  /\ TypeOK' <=> SharedTyped' /\ call' \in Calling /\ refresh' \in Refreshing
BY DEF TypeOK, SharedTyped, Calling, Called, Refreshing, Refresh

LEMMA InitTypeOK == ASSUME MaxTokens \in Nat PROVE Init => TypeOK
<1> SUFFICES ASSUME Init PROVE TypeOK
  OBVIOUS
<1>1. Silent \in Called /\ Idle \in Refresh
  BY DEF Silent, Called, Callers, Idle, Refresh
<1>2. call \in Calling /\ refresh \in Refreshing
  BY <1>1 DEF Init, Calling, Refreshing
<1>3. SharedTyped
  BY DEF Init, SharedTyped, Nil
<1> QED
  BY <1>2, <1>3, TypeParts

LEMMA AwaitTyped ==
  ASSUME TypeOK, NEW t \in Tabs, NEW c \in Callers, NEW k \in Tokens \cup {Nil}, Await(t, c, k)
  PROVE  call' \in Calling /\ refresh' \in Refreshing
<1>1. call \in Calling /\ refresh \in Refreshing
  BY TypeParts
<1>2. [pc |-> "sent", old |-> k, new |-> Nil] \in Refresh
  BY DEF Refresh
<1>3. \E d \in Callers : call' = [call EXCEPT ![t][c] = [call[t][c] EXCEPT !.pc = "await", !.on = d]]
  BY DEF Await, Joined, InFlight
<1> PICK d \in Callers : call' = [call EXCEPT ![t][c] = [call[t][c] EXCEPT !.pc = "await", !.on = d]]
  BY <1>3
<1>4. call[t][c] \in Called
  BY <1>1 DEF Calling
<1>5. call' \in Calling
  <2> DEFINE s == [call[t][c] EXCEPT !.pc = "await", !.on = d]
  <2>1. s \in Called /\ call' = [call EXCEPT ![t][c] = s]
    BY <1>4 DEF Called
  <2> HIDE DEF s
  <2> QED
    BY <1>1, <2>1 DEF Calling
<1>6. refresh' \in Refreshing
  <2> DEFINE s == [pc |-> "sent", old |-> k, new |-> Nil]
  <2>1. s \in Refresh /\ (refresh' = refresh \/ refresh' = [refresh EXCEPT ![t][c] = s])
    BY <1>2 DEF Await
  <2> HIDE DEF s
  <2> QED
    BY <1>1, <2>1 DEF Refreshing
<1> QED
  BY <1>5, <1>6

LEMMA TabStepTyped ==
  ASSUME TypeOK, MaxTokens \in Nat, NEW t \in Tabs,
         \/ OpenPage(t) \/ StartGithubLogin(t) \/ StateExpires \/ InvalidState(t) \/ GithubCallback(t)
         \/ Expire(t) \/ Logout(t) \/ LogoutAnswered(t) \/ DeleteMe(t)
  PROVE  TypeOK'
<1>1. SharedTyped /\ call \in Calling /\ refresh \in Refreshing /\ Mount \in Callers
  BY TypeParts DEF Callers
<1>2. CASE OpenPage(t)
  <2>1. call' \in Calling /\ refresh' \in Refreshing
    BY <1>1, <1>2, AwaitTyped DEF OpenPage, Load, SharedTyped
  <2>2. SharedTyped'
    BY <1>1, <1>2 DEF OpenPage, Load, SharedTyped, server
  <2> QED
    BY <2>1, <2>2, TypeParts
<1>3. CASE GithubCallback(t)
  <2>1. issued' = issued + 1 /\ issued + 1 \in Tokens /\ issued + 1 \in 0 .. MaxTokens
    BY <1>1, <1>3 DEF GithubCallback, SharedTyped, Tokens
  <2> PICK k \in Tokens : k = issued'
    BY <2>1
  <2>2. Await(t, Mount, k)
    BY <1>3 DEF GithubCallback, Load
  <2>3. call' \in Calling /\ refresh' \in Refreshing
    BY <1>1, <2>2, AwaitTyped
  <2>4. SharedTyped'
    BY <1>1, <1>3, <2>1 DEF GithubCallback, Load, SharedTyped
  <2> QED
    BY <2>3, <2>4, TypeParts
<1>4. CASE \/ StartGithubLogin(t) \/ StateExpires \/ InvalidState(t) \/ Expire(t)
           \/ Logout(t) \/ LogoutAnswered(t) \/ DeleteMe(t)
  <2>1. call' \in Calling /\ refresh' \in Refreshing
    BY <1>1, <1>4 DEF StartGithubLogin, StateExpires, InvalidState, Expire, Logout, LogoutAnswered, DeleteMe
  <2>2. SharedTyped'
    <3>1. CASE StartGithubLogin(t) \/ StateExpires \/ InvalidState(t) \/ Expire(t)
      BY <1>1, <3>1 DEF StartGithubLogin, StateExpires, InvalidState, Expire, SharedTyped, server
    <3>2. CASE Logout(t) \/ LogoutAnswered(t) \/ DeleteMe(t)
      BY <1>1, <3>2 DEF Logout, LogoutAnswered, DeleteMe, Revoked, SharedTyped, server
    <3> QED
      BY <1>4, <3>1, <3>2
  <2> QED
    BY <2>1, <2>2, TypeParts
<1> QED
  BY <1>2, <1>3, <1>4

LEMMA RefreshStepTyped ==
  ASSUME TypeOK, MaxTokens \in Nat, NEW t \in Tabs, NEW c \in Callers,
         LookUp(t, c) \/ RevokeOld(t, c) \/ CreateSession(t, c)
  PROVE  TypeOK'
<1> DEFINE r == refresh[t][c]
<1>1. SharedTyped /\ call \in Calling /\ refresh \in Refreshing /\ r \in Refresh
  BY TypeParts DEF Refreshing
<1>2. \A pc \in {"valid", "failed", "revoked"} : [r EXCEPT !.pc = pc] \in Refresh
  BY <1>1 DEF Refresh
<1>3. call' \in Calling
  BY <1>1 DEF LookUp, RevokeOld, CreateSession
<1>4. CASE LookUp(t, c) \/ RevokeOld(t, c)
  <2>1. \E s \in Refresh : refresh' = [refresh EXCEPT ![t][c] = s]
    BY <1>2, <1>4 DEF LookUp, RevokeOld
  <2>2. refresh' \in Refreshing
    BY <1>1, <2>1 DEF Refreshing
  <2>3. SharedTyped'
    BY <1>1, <1>4 DEF LookUp, RevokeOld, Rotated, SharedTyped, server, browser
  <2> QED
    BY <1>3, <2>2, <2>3, TypeParts
<1>5. CASE CreateSession(t, c) /\ user = "deleted"
  <2>1. \E s \in Refresh : refresh' = [refresh EXCEPT ![t][c] = s]
    BY <1>2, <1>5 DEF CreateSession
  <2>2. refresh' \in Refreshing
    BY <1>1, <2>1 DEF Refreshing
  <2>3. SharedTyped'
    BY <1>1, <1>5 DEF CreateSession, SharedTyped, browser
  <2> QED
    BY <1>3, <2>2, <2>3, TypeParts
<1>6. CASE CreateSession(t, c) /\ user # "deleted"
  <2>1. /\ issued < MaxTokens /\ issued' = issued + 1 /\ live' = live \cup {issued + 1}
        /\ exchanged' = [exchanged EXCEPT ![r.old] = @ + 1]
        /\ refresh' = [refresh EXCEPT ![t][c] = [r EXCEPT !.pc = "done", !.new = issued + 1]]
        /\ UNCHANGED user /\ UNCHANGED browser
    BY <1>6 DEF CreateSession
  <2>2. issued + 1 \in Tokens /\ issued + 1 \in 0 .. MaxTokens
    BY <1>1, <2>1 DEF SharedTyped, Tokens
  <2>3. [r EXCEPT !.pc = "done", !.new = issued + 1] \in Refresh
    BY <1>1, <2>2 DEF Refresh
  <2>4. refresh' \in Refreshing
    <3>1. \E s \in Refresh : refresh' = [refresh EXCEPT ![t][c] = s]
      BY <2>1, <2>3
    <3> QED
      BY <1>1, <3>1 DEF Refreshing
  <2>5. exchanged' \in [Tokens -> Nat]
    <3>1. exchanged \in [Tokens -> Nat] /\ (r.old \in Tokens => exchanged[r.old] + 1 \in Nat)
      BY <1>1 DEF SharedTyped
    <3>2. CASE r.old \in Tokens
      BY <2>1, <3>1, <3>2
    <3>3. CASE r.old \notin Tokens
      BY <2>1, <3>1, <3>3
    <3> QED
      BY <3>2, <3>3
  <2>6. SharedTyped'
    BY <1>1, <2>1, <2>2, <2>5 DEF SharedTyped, browser
  <2> QED
    BY <1>3, <2>4, <2>6, TypeParts
<1> QED
  BY <1>4, <1>5, <1>6

LEMMA AnswerTyped ==
  ASSUME TypeOK, NEW t \in Tabs, NEW c \in Callers, Refreshed(t, c) \/ RefreshFailed(t, c)
  PROVE  TypeOK'
<1>1. SharedTyped /\ call \in Calling /\ refresh \in Refreshing /\ refresh[t][c] \in Refresh
  BY TypeParts DEF Refreshing
<1>2. Idle \in Refresh /\ Silent \in Called
  BY DEF Idle, Refresh, Silent, Called, Callers
<1>3. refresh' \in Refreshing
  <2>1. refresh' = [refresh EXCEPT ![t][c] = Idle]
    BY DEF Refreshed, RefreshFailed
  <2> QED
    BY <1>1, <1>2, <2>1 DEF Refreshing
<1>4. ASSUME NEW w \in Callers
      PROVE  /\ call[t][w] \in Called
             /\ [call[t][w] EXCEPT !.pc = "second", !.with = "good"] \in Called
             /\ [call[t][w] EXCEPT !.pc = "unauthorized"] \in Called
  <2>1. call[t][w] \in Called
    BY <1>1 DEF Calling
  <2> QED
    BY <2>1 DEF Called
<1>5. call' \in Calling
  <2>1. \E g \in [Callers -> Called] : call' = [call EXCEPT ![t] = g]
    <3>1. CASE Refreshed(t, c)
      <4> DEFINE g == [w \in Callers |-> IF w \notin Waiters(t, c) THEN call[t][w]
                        ELSE IF w = Mount THEN Silent ELSE [call[t][w] EXCEPT !.pc = "second", !.with = "good"]]
      <4>1. g \in [Callers -> Called]
        BY <1>2, <1>4
      <4>2. call' = [call EXCEPT ![t] = g]
        BY <3>1 DEF Refreshed
      <4> QED
        BY <4>1, <4>2
    <3>2. CASE RefreshFailed(t, c)
      <4> DEFINE g == [w \in Callers |-> IF w \notin Waiters(t, c) THEN call[t][w]
                        ELSE IF w = Mount THEN Silent ELSE [call[t][w] EXCEPT !.pc = "unauthorized"]]
      <4>1. g \in [Callers -> Called]
        BY <1>2, <1>4
      <4>2. call' = [call EXCEPT ![t] = g]
        BY <3>2 DEF RefreshFailed
      <4> QED
        BY <4>1, <4>2
    <3> QED
      BY <3>1, <3>2
  <2> QED
    BY <1>1, <2>1 DEF Calling
<1>6. SharedTyped'
  <2>1. CASE Refreshed(t, c)
    BY <1>1, <2>1 DEF Refreshed, SharedTyped, server, Refresh
  <2>2. CASE RefreshFailed(t, c)
    BY <1>1, <2>2 DEF RefreshFailed, LoggedOut, SharedTyped, server
  <2> QED
    BY <2>1, <2>2
<1> QED
  BY <1>3, <1>5, <1>6, TypeParts

LEMMA CallTyped ==
  ASSUME TypeOK, NEW t \in Tabs, NEW c \in Callers,
         Fetch(t, c) \/ Answered(t, c) \/ RefusedFirst(t, c) \/ RefusedAgain(t, c)
  PROVE  TypeOK'
<1>1. SharedTyped /\ call \in Calling /\ refresh \in Refreshing
  BY TypeParts
<1>2. SharedTyped'
  BY <1>1 DEF Fetch, Answered, RefusedFirst, RefusedAgain, LoggedOut, SharedTyped, server, browser
<1>3. CASE RefusedFirst(t, c)
  BY <1>1, <1>2, <1>3, AwaitTyped, TypeParts DEF RefusedFirst, SharedTyped
<1>4. CASE Fetch(t, c)
  <2>1. [Silent EXCEPT !.pc = "first", !.with = token[t]] \in Called
    BY <1>1 DEF Silent, Called, Callers, SharedTyped
  <2> QED
    BY <1>1, <1>2, <1>4, <2>1, TypeParts DEF Fetch, Calling
<1>5. CASE Answered(t, c)
  <2>1. Silent \in Called
    BY DEF Silent, Called, Callers
  <2> QED
    BY <1>1, <1>2, <1>5, <2>1, TypeParts DEF Answered, Calling
<1>6. CASE RefusedAgain(t, c)
  <2>1. [call[t][c] EXCEPT !.pc = "unauthorized"] \in Called
    BY <1>1 DEF Calling, Called
  <2> QED
    BY <1>1, <1>2, <1>6, <2>1, TypeParts DEF RefusedAgain, Calling
<1> QED
  BY <1>3, <1>4, <1>5, <1>6

LEMMA NextTypeOK == ASSUME MaxTokens \in Nat, TypeOK, [Next]_vars PROVE TypeOK'
<1>1. CASE UNCHANGED vars
  BY <1>1 DEF vars, TypeOK
<1> QED
  BY <1>1, TabStepTyped, RefreshStepTyped, AnswerTyped, CallTyped DEF Next

(* Every variable of Sessions keeps its type.                              *)
THEOREM SessionsTyped == ASSUME MaxTokens \in Nat PROVE Spec => []TypeOK
BY InitTypeOK, NextTypeOK, PTL DEF Spec

-----------------------------------------------------------------------------
(* The pages are shown with the token that was got for them: whatever      *)
(* takes the token of a tab away also takes it off its pages.              *)
LEMMA NextShell ==
  ASSUME MaxTokens \in Nat, TypeOK, ShellHasToken, [Next]_vars PROVE ShellHasToken'
<1>1. view \in [Tabs -> {"loading", "in", "out", "github"}] /\ token \in [Tabs -> {"none", "good", "expired"}]
  BY DEF TypeOK
<1>2. ASSUME NEW t \in Tabs,
             \/ OpenPage(t) \/ StartGithubLogin(t) \/ InvalidState(t) \/ GithubCallback(t) \/ LogoutAnswered(t)
      PROVE  ShellHasToken'
  BY <1>1, <1>2 DEF OpenPage, Load, StartGithubLogin, InvalidState, GithubCallback, LogoutAnswered, ShellHasToken
<1>3. ASSUME NEW t \in Tabs, StateExpires \/ Expire(t) \/ Logout(t) \/ DeleteMe(t)
      PROVE  ShellHasToken'
  BY <1>1, <1>3 DEF StateExpires, Expire, Logout, DeleteMe, ShellHasToken
<1>4. ASSUME NEW t \in Tabs, NEW c \in Callers,
             \/ LookUp(t, c) \/ RevokeOld(t, c) \/ CreateSession(t, c)
             \/ Fetch(t, c) \/ Answered(t, c) \/ RefusedFirst(t, c)
      PROVE  ShellHasToken'
  BY <1>4 DEF LookUp, RevokeOld, CreateSession, Fetch, Answered, RefusedFirst, browser, ShellHasToken
<1>5. ASSUME NEW t \in Tabs, NEW c \in Callers, Refreshed(t, c) PROVE ShellHasToken'
  BY <1>1, <1>5 DEF Refreshed, ShellHasToken
<1>6. ASSUME NEW t \in Tabs, NEW c \in Callers, RefreshFailed(t, c) PROVE ShellHasToken'
  <2>1. \/ token' = token /\ (view' = view \/ view' = [view EXCEPT ![t] = "out"])
        \/ token' = [token EXCEPT ![t] = "none"] /\ view' = [view EXCEPT ![t] = "out"]
    BY <1>6 DEF RefreshFailed, LoggedOut
  <2> QED
    BY <1>1, <2>1 DEF ShellHasToken
<1>7. ASSUME NEW t \in Tabs, NEW c \in Callers, RefusedAgain(t, c) PROVE ShellHasToken'
  BY <1>1, <1>7 DEF RefusedAgain, LoggedOut, ShellHasToken
<1>8. CASE UNCHANGED vars
  BY <1>8 DEF vars, ShellHasToken
<1> QED
  BY <1>2, <1>3, <1>4, <1>5, <1>6, <1>7, <1>8 DEF Next

(* However refreshes, refused calls and logouts of any number of tabs      *)
(* overlap, the protected pages are not shown without an access token.     *)
THEOREM PagesHaveToken == ASSUME MaxTokens \in Nat PROVE Spec => []ShellHasToken
<1>1. Init => TypeOK /\ ShellHasToken
  BY InitTypeOK DEF Init, ShellHasToken
<1>2. TypeOK /\ ShellHasToken /\ [Next]_vars => (TypeOK /\ ShellHasToken)'
  BY NextTypeOK, NextShell
<1> QED
  BY <1>1, <1>2, PTL DEF Spec

-----------------------------------------------------------------------------
(* Why a call of a single tab is given up only when the session is over:   *)
(* the cookie is the token of the refresh in flight, or cleared, and a     *)
(* refresh that fails, or whose answer is lost, has ended that token.      *)
CookieFollows ==
  /\ cookie \in 0 .. issued
  /\ \A t \in Tabs, c \in Callers :
       /\ refresh[t][c].old \in 0 .. issued /\ refresh[t][c].new \in 0 .. issued
       /\ refresh[t][c].pc # "idle" => cookie \in {refresh[t][c].old, Nil}
       /\ refresh[t][c].pc \in {"revoked", "done", "failed"} => refresh[t][c].old \notin live

DeletedEndsAll == user = "deleted" => live = {}

SecondIsGood == \A t \in Tabs, c \in Callers : call[t][c].pc = "second" => call[t][c].with = "good"

SessionInv == TypeOK /\ RotationInv /\ CookieFollows /\ DeletedEndsAll /\ SecondIsGood

LEMMA NextDeleted == ASSUME TypeOK, DeletedEndsAll, [Next]_vars PROVE DeletedEndsAll'
<1>1. ASSUME NEW t \in Tabs,
             \/ OpenPage(t) \/ StartGithubLogin(t) \/ StateExpires \/ InvalidState(t) \/ Expire(t)
             \/ Logout(t) \/ LogoutAnswered(t) \/ DeleteMe(t)
      PROVE  DeletedEndsAll'
  <2>1. CASE OpenPage(t) \/ StartGithubLogin(t) \/ StateExpires \/ InvalidState(t) \/ Expire(t) \/ LogoutAnswered(t)
    <3>1. UNCHANGED server
      BY <2>1 DEF OpenPage, StartGithubLogin, StateExpires, InvalidState, Expire, LogoutAnswered
    <3> QED
      BY <3>1 DEF server, DeletedEndsAll
  <2>2. CASE Logout(t)
    BY <2>2 DEF Logout, Revoked, DeletedEndsAll
  <2>3. CASE DeleteMe(t)
    <3>1. \A k : k \notin live'
      BY <2>3 DEF DeleteMe
    <3> QED
      BY <3>1 DEF DeletedEndsAll
  <2> QED
    BY <1>1, <2>1, <2>2, <2>3
<1>2. ASSUME NEW t \in Tabs, NEW c \in Callers,
             \/ LookUp(t, c) \/ RevokeOld(t, c) \/ CreateSession(t, c) \/ Refreshed(t, c) \/ RefreshFailed(t, c)
             \/ Fetch(t, c) \/ Answered(t, c) \/ RefusedFirst(t, c) \/ RefusedAgain(t, c)
      PROVE  DeletedEndsAll'
  BY <1>2 DEF LookUp, RevokeOld, Rotated, CreateSession, Refreshed, RefreshFailed,
     Fetch, Answered, RefusedFirst, RefusedAgain, server, DeletedEndsAll
<1>3. ASSUME NEW t \in Tabs, GithubCallback(t) PROVE DeletedEndsAll'
  BY <1>3 DEF GithubCallback, DeletedEndsAll
<1>4. CASE UNCHANGED vars
  BY <1>4 DEF vars, DeletedEndsAll
<1> QED
  BY <1>1, <1>2, <1>3, <1>4 DEF Next

LEMMA AwaitsGood ==
  ASSUME TypeOK, SecondIsGood, NEW t \in Tabs, NEW c \in Callers, NEW k, Await(t, c, k)
  PROVE  SecondIsGood'
<1>1. call \in Calling /\ call[t][c] \in Called
  BY TypeParts DEF Calling
<1>2. \E d : call' = [call EXCEPT ![t][c] = [call[t][c] EXCEPT !.pc = "await", !.on = d]]
  BY DEF Await
<1> PICK d : call' = [call EXCEPT ![t][c] = [call[t][c] EXCEPT !.pc = "await", !.on = d]]
  BY <1>2
<1> DEFINE s == [call[t][c] EXCEPT !.pc = "await", !.on = d]
<1>3. call' = [call EXCEPT ![t][c] = s]
  OBVIOUS
<1>4. s.pc # "second"
  BY <1>1 DEF Called
<1> HIDE DEF s
<1> QED
  BY <1>1, <1>3, <1>4 DEF Calling, SecondIsGood

LEMMA NextSecond == ASSUME TypeOK, SecondIsGood, [Next]_vars PROVE SecondIsGood'
<1>1. call \in Calling /\ \A t \in Tabs, c \in Callers : call[t][c] \in Called
  BY TypeParts DEF Calling
<1>2. ASSUME NEW t \in Tabs,
             \/ StartGithubLogin(t) \/ StateExpires \/ InvalidState(t) \/ Expire(t)
             \/ Logout(t) \/ LogoutAnswered(t) \/ DeleteMe(t)
      PROVE  SecondIsGood'
  BY <1>2 DEF StartGithubLogin, StateExpires, InvalidState, Expire, Logout, LogoutAnswered, DeleteMe, SecondIsGood
<1>3. ASSUME NEW t \in Tabs, OpenPage(t) \/ GithubCallback(t) PROVE SecondIsGood'
  <2>1. \E k : Await(t, Mount, k)
    BY <1>3 DEF OpenPage, GithubCallback, Load
  <2> QED
    BY <2>1, AwaitsGood DEF Callers
<1>4. ASSUME NEW t \in Tabs, NEW c \in Callers, RefusedFirst(t, c) PROVE SecondIsGood'
  BY <1>4, AwaitsGood DEF RefusedFirst
<1>5. ASSUME NEW t \in Tabs, NEW c \in Callers, LookUp(t, c) \/ RevokeOld(t, c) \/ CreateSession(t, c)
      PROVE  SecondIsGood'
  BY <1>5 DEF LookUp, RevokeOld, CreateSession, SecondIsGood
<1>6. ASSUME NEW t \in Tabs, NEW c \in Callers, NEW s, s.pc # "second", call' = [call EXCEPT ![t][c] = s]
      PROVE  SecondIsGood'
  BY <1>1, <1>6 DEF Calling, SecondIsGood
<1>7. ASSUME NEW t \in Tabs, NEW c \in Callers, Fetch(t, c) \/ Answered(t, c) PROVE SecondIsGood'
  <2>1. Silent.pc # "second" /\ [Silent EXCEPT !.pc = "first", !.with = token[t]].pc # "second"
    BY DEF Silent
  <2> QED
    BY <1>6, <1>7, <2>1 DEF Fetch, Answered
<1>8. ASSUME NEW t \in Tabs, NEW c \in Callers, RefusedAgain(t, c) PROVE SecondIsGood'
  <2>1. [call[t][c] EXCEPT !.pc = "unauthorized"].pc # "second"
    BY <1>1 DEF Called
  <2> QED
    BY <1>6, <1>8, <2>1 DEF RefusedAgain
<1>9. ASSUME NEW t \in Tabs, NEW c \in Callers, Refreshed(t, c) \/ RefreshFailed(t, c) PROVE SecondIsGood'
  <2>1. \E g : call' = [call EXCEPT ![t] = g]
    BY <1>9 DEF Refreshed, RefreshFailed
  <2>2. \A u \in Tabs : u # t => call'[u] = call[u]
    BY <1>1, <2>1 DEF Calling
  <2>3. ASSUME NEW w \in Callers
        PROVE  \/ call'[t][w] = call[t][w] \/ call'[t][w] = Silent
               \/ call'[t][w] = [call[t][w] EXCEPT !.pc = "second", !.with = "good"]
               \/ call'[t][w] = [call[t][w] EXCEPT !.pc = "unauthorized"]
    <3>1. CASE Refreshed(t, c)
      BY <1>1, <3>1 DEF Refreshed, Calling
    <3>2. CASE RefreshFailed(t, c)
      BY <1>1, <3>2 DEF RefreshFailed, Calling
    <3> QED
      BY <1>9, <3>1, <3>2
  <2>4. ASSUME NEW w \in Callers, call'[t][w].pc = "second" PROVE call'[t][w].with = "good"
    <3>1. Silent.pc # "second"
      BY DEF Silent
    <3>2. [call[t][w] EXCEPT !.pc = "unauthorized"].pc = "unauthorized"
      BY <1>1 DEF Called
    <3>3. [call[t][w] EXCEPT !.pc = "second", !.with = "good"].with = "good"
      BY <1>1 DEF Called
    <3>4. call'[t][w] = call[t][w] \/ call'[t][w] = [call[t][w] EXCEPT !.pc = "second", !.with = "good"]
      BY <2>3, <2>4, <3>1, <3>2
    <3> QED
      BY <2>4, <3>3, <3>4 DEF SecondIsGood
  <2> QED
    BY <2>2, <2>4 DEF SecondIsGood
<1>10. CASE UNCHANGED vars
  BY <1>10 DEF vars, SecondIsGood
<1> QED
  BY <1>2, <1>3, <1>4, <1>5, <1>7, <1>8, <1>9, <1>10 DEF Next

(* The cookie and the refreshes. A tab that is alone has at most one       *)
(* refresh in flight, so what a step does to it is all that happens.       *)
Alone(t, c) == \A u \in Tabs, d \in Callers : (u # t \/ d # c) => refresh[u][d].pc = "idle"
Replaced(t, c, s) ==
  /\ refresh'[t][c] = s
  /\ \A u \in Tabs, d \in Callers : (u # t \/ d # c) => refresh'[u][d] = refresh[u][d]

LEMMA CookieStays ==
  ASSUME RotationInv, CookieFollows, UNCHANGED <<issued, refresh>>, live' \subseteq live,
         cookie' \in {cookie, Nil}
  PROVE  CookieFollows'
<1>1. Nil \in 0 .. issued
  BY DEF RotationInv, RotationTyped, Nil
<1> QED
  BY <1>1 DEF CookieFollows

LEMMA CookieMoves ==
  ASSUME RotationInv, CookieFollows, NEW t \in Tabs, NEW c \in Callers, NEW s \in Refresh,
         Alone(t, c), Replaced(t, c, s),
         issued' \in Nat, issued <= issued', cookie' \in 0 .. issued',
         s.old \in 0 .. issued', s.new \in 0 .. issued',
         s.pc # "idle" => cookie' \in {s.old, Nil},
         s.pc \in {"revoked", "done", "failed"} => s.old \notin live'
  PROVE  CookieFollows'
<1>1. issued \in Nat /\ \A k \in 0 .. issued : k \in 0 .. issued'
  BY DEF RotationInv, RotationTyped
<1>2. \A u \in Tabs, d \in Callers : (u # t \/ d # c) =>
        refresh'[u][d].pc = "idle" /\ refresh'[u][d].old \in 0 .. issued' /\ refresh'[u][d].new \in 0 .. issued'
  BY <1>1 DEF Alone, Replaced, CookieFollows
<1> QED
  BY <1>2 DEF Replaced, CookieFollows

LEMMA Replaces ==
  ASSUME RotationInv, NEW t \in Tabs, NEW c \in Callers, NEW s, refresh' = [refresh EXCEPT ![t][c] = s]
  PROVE  Replaced(t, c, s)
BY DEF RotationInv, RotationTyped, Replaced

(* A refresh starts with the cookie there is, if none is in flight.        *)
LEMMA AwaitFollows ==
  ASSUME RotationInv, CookieFollows, \A t, u \in Tabs : t = u, NEW t \in Tabs, NEW c \in Callers,
         Await(t, c, cookie), UNCHANGED <<issued, live, cookie>>
  PROVE  CookieFollows'
<1>1. CASE UNCHANGED refresh
  BY <1>1, CookieStays
<1>2. CASE ~UNCHANGED refresh
  <2> DEFINE s == [pc |-> "sent", old |-> cookie, new |-> Nil]
  <2>1. refresh' = [refresh EXCEPT ![t][c] = s] /\ Joined(t) = {}
    BY <1>2 DEF Await
  <2>2. s \in Refresh /\ s.pc = "sent" /\ s.old = cookie /\ s.new = 0
    BY DEF RotationInv, RotationTyped, Refresh, Nil
  <2> HIDE DEF s
  <2>3. Alone(t, c)
    BY <2>1 DEF Joined, InFlight, Alone
  <2>4. Replaced(t, c, s)
    BY <2>1 DEF RotationInv, RotationTyped, Replaced
  <2>5. issued \in Nat /\ cookie \in 0 .. issued /\ 0 \in 0 .. issued
    BY DEF RotationInv, RotationTyped, CookieFollows
  <2> QED
    BY <2>2, <2>3, <2>4, <2>5, CookieMoves
<1> QED
  BY <1>1, <1>2

LEMMA CallbackFollows ==
  ASSUME RotationInv, CookieFollows, MaxTokens \in Nat, \A t, u \in Tabs : t = u,
         NEW t \in Tabs, GithubCallback(t)
  PROVE  CookieFollows'
<1> DEFINE s == [pc |-> "sent", old |-> issued + 1, new |-> Nil]
<1>1. /\ issued \in Nat /\ issued < MaxTokens /\ issued' = issued + 1 /\ cookie' = issued + 1
      /\ live' = live \cup {issued + 1} /\ InFlight(t) = {} /\ Await(t, Mount, issued + 1)
  BY DEF GithubCallback, Load, RotationInv, RotationTyped
<1>2. Mount \in Callers
  BY DEF Callers
<1>3. refresh' = [refresh EXCEPT ![t][Mount] = s]
  BY <1>1 DEF Await, Joined
<1>4. s \in Refresh /\ s.pc = "sent" /\ s.old = issued + 1 /\ s.new = 0
  BY <1>1 DEF Refresh, Tokens, Nil
<1> HIDE DEF s
<1>5. Alone(t, Mount)
  BY <1>1 DEF InFlight, Alone
<1>6. Replaced(t, Mount, s)
  BY <1>2, <1>3 DEF RotationInv, RotationTyped, Replaced
<1>7. /\ issued' \in Nat /\ issued <= issued' /\ cookie' \in 0 .. issued'
      /\ s.old \in 0 .. issued' /\ s.new \in 0 .. issued' /\ cookie' = s.old
  BY <1>1, <1>4
<1> QED
  BY <1>2, <1>4, <1>5, <1>6, <1>7, CookieMoves

LEMMA RotationStepFollows ==
  ASSUME RotationInv, CookieFollows, MaxTokens \in Nat, \A t, u \in Tabs : t = u,
         NEW t \in Tabs, NEW c \in Callers, LookUp(t, c) \/ RevokeOld(t, c) \/ CreateSession(t, c)
  PROVE  CookieFollows'
<1> DEFINE r == refresh[t][c]
<1>1. /\ r \in Refresh /\ r.pc \in {"sent", "valid", "revoked"} /\ issued \in Nat
      /\ r.old \in 0 .. issued /\ r.new \in 0 .. issued /\ cookie \in {r.old, Nil} /\ cookie \in 0 .. issued
      /\ r.pc = "revoked" => r.old \notin live
  BY DEF LookUp, RevokeOld, CreateSession, RotationInv, RotationTyped, CookieFollows
<1>2. Alone(t, c)
  BY <1>1 DEF RotationInv, OneFlight, Alone
<1>3. ASSUME NEW pc \in {"valid", "revoked", "failed"}, refresh' = [refresh EXCEPT ![t][c] = [r EXCEPT !.pc = pc]],
             UNCHANGED <<issued, cookie>>, pc # "valid" => r.old \notin live'
      PROVE  CookieFollows'
  <2> DEFINE s == [r EXCEPT !.pc = pc]
  <2>1. s \in Refresh /\ s.pc = pc /\ s.old = r.old /\ s.new = r.new
    BY <1>1 DEF Refresh
  <2>2. refresh' = [refresh EXCEPT ![t][c] = s]
    BY <1>3
  <2> HIDE DEF r, s
  <2>3. Replaced(t, c, s)
    BY <2>2 DEF RotationInv, RotationTyped, Replaced
  <2> QED
    BY <1>1, <1>2, <1>3, <2>1, <2>3, CookieMoves
<1>4. CASE LookUp(t, c)
  <2>1. UNCHANGED <<issued, live, cookie>>
    BY <1>4 DEF LookUp, server, browser
  <2>2. CASE r.old \in live
    BY <1>3, <1>4, <2>1, <2>2 DEF LookUp
  <2>3. CASE r.old \notin live
    BY <1>3, <1>4, <2>1, <2>3 DEF LookUp
  <2> QED
    BY <2>2, <2>3
<1>5. CASE RevokeOld(t, c)
  <2>1. UNCHANGED <<issued, cookie>> /\ r.old \notin live'
    BY <1>5 DEF RevokeOld, Rotated, browser
  <2>2. CASE user = "present"
    BY <1>3, <1>5, <2>1, <2>2 DEF RevokeOld
  <2>3. CASE user # "present"
    BY <1>3, <1>5, <2>1, <2>3 DEF RevokeOld
  <2> QED
    BY <2>2, <2>3
<1>6. CASE CreateSession(t, c)
  <2>1. r.old \notin live /\ cookie' = cookie
    BY <1>1, <1>6 DEF CreateSession, browser
  <2>2. CASE user = "deleted"
    BY <1>3, <1>6, <2>1, <2>2 DEF CreateSession
  <2>3. CASE user # "deleted"
    <3> DEFINE s == [r EXCEPT !.pc = "done", !.new = issued + 1]
    <3>1. /\ refresh' = [refresh EXCEPT ![t][c] = s] /\ issued < MaxTokens
          /\ issued' = issued + 1 /\ live' = live \cup {issued + 1}
      BY <1>6, <2>3 DEF CreateSession
    <3>2. issued + 1 \in Tokens
      BY <1>1, <3>1 DEF Tokens
    <3>3. s \in Refresh /\ s.pc = "done" /\ s.old = r.old /\ s.new = issued + 1
      BY <1>1, <3>2 DEF Refresh
    <3> HIDE DEF r, s
    <3>4. Replaced(t, c, s)
      BY <3>1 DEF RotationInv, RotationTyped, Replaced
    <3>5. /\ issued' \in Nat /\ issued <= issued' /\ cookie' \in 0 .. issued'
          /\ s.old \in 0 .. issued' /\ s.new \in 0 .. issued'
          /\ s.old \notin live' /\ cookie' \in {s.old, Nil}
      BY <1>1, <2>1, <3>1, <3>3
    <3> QED
      BY <1>2, <3>3, <3>4, <3>5, CookieMoves
  <2> QED
    BY <2>2, <2>3
<1> QED
  BY <1>4, <1>5, <1>6

LEMMA AnswerFollows ==
  ASSUME RotationInv, CookieFollows, \A t, u \in Tabs : t = u,
         NEW t \in Tabs, NEW c \in Callers, Refreshed(t, c) \/ RefreshFailed(t, c)
  PROVE  CookieFollows'
<1>1. refresh[t][c].pc # "idle" /\ issued \in Nat /\ refresh[t][c].new \in 0 .. issued /\ cookie \in 0 .. issued
  BY DEF Refreshed, RefreshFailed, RotationInv, RotationTyped, CookieFollows
<1>2. Alone(t, c)
  BY <1>1 DEF RotationInv, OneFlight, Alone
<1>3. Idle \in Refresh /\ Idle.pc = "idle" /\ Idle.old = 0 /\ Idle.new = 0
  BY DEF Idle, Refresh, Nil
<1>4. refresh' = [refresh EXCEPT ![t][c] = Idle] /\ issued' = issued /\ cookie' \in 0 .. issued
  BY <1>1 DEF Refreshed, RefreshFailed, server
<1>5. Replaced(t, c, Idle)
  BY <1>4 DEF RotationInv, RotationTyped, Replaced
<1>6. 0 \in 0 .. issued
  BY <1>1
<1> QED
  BY <1>1, <1>2, <1>3, <1>4, <1>5, <1>6, CookieMoves

LEMMA NextFollows ==
  ASSUME MaxTokens \in Nat, \A t, u \in Tabs : t = u, RotationInv, CookieFollows, [Next]_vars
  PROVE  CookieFollows'
<1>1. Mount \in Callers /\ Nil = 0
  BY DEF Callers, Nil
<1>2. ASSUME NEW t \in Tabs, OpenPage(t) PROVE CookieFollows'
  BY <1>1, <1>2, AwaitFollows DEF OpenPage, Load, server
<1>3. ASSUME NEW t \in Tabs, GithubCallback(t) PROVE CookieFollows'
  BY <1>3, CallbackFollows
<1>4. ASSUME NEW t \in Tabs,
             \/ StartGithubLogin(t) \/ StateExpires \/ InvalidState(t) \/ Expire(t)
             \/ Logout(t) \/ LogoutAnswered(t) \/ DeleteMe(t)
      PROVE  CookieFollows'
  <2>1. UNCHANGED <<issued, refresh>> /\ live' \subseteq live /\ cookie' \in {cookie, Nil}
    BY <1>4 DEF StartGithubLogin, StateExpires, InvalidState, Expire, Logout, Revoked, LogoutAnswered, DeleteMe, server
  <2> QED
    BY <2>1, CookieStays
<1>5. ASSUME NEW t \in Tabs, NEW c \in Callers,
             LookUp(t, c) \/ RevokeOld(t, c) \/ CreateSession(t, c) \/ Refreshed(t, c) \/ RefreshFailed(t, c)
      PROVE  CookieFollows'
  BY <1>5, RotationStepFollows, AnswerFollows
<1>6. ASSUME NEW t \in Tabs, NEW c \in Callers, RefusedFirst(t, c) PROVE CookieFollows'
  BY <1>6, AwaitFollows DEF RefusedFirst, server, browser
<1>7. ASSUME NEW t \in Tabs, NEW c \in Callers, Fetch(t, c) \/ Answered(t, c) \/ RefusedAgain(t, c)
      PROVE  CookieFollows'
  BY <1>7, CookieStays DEF Fetch, Answered, RefusedAgain, server, browser
<1>8. CASE UNCHANGED vars
  BY <1>8, CookieStays DEF vars
<1> QED
  BY <1>2, <1>3, <1>4, <1>5, <1>6, <1>7, <1>8 DEF Next

-----------------------------------------------------------------------------
(* The two steps that give a call up.                                      *)
GivenUp == \E t \in Tabs, c \in Calls :
  call[t][c].pc # "unauthorized" /\ call'[t][c].pc = "unauthorized"

LEMMA GivenUpOver ==
  ASSUME SessionInv, [Next]_vars, GivenUp
  PROVE  cookie \notin live
<1> PICK t \in Tabs, c \in Calls : call[t][c].pc # "unauthorized" /\ call'[t][c].pc = "unauthorized"
  BY DEF GivenUp
<1>1. c \in Callers /\ call \in Calling /\ \A u \in Tabs, d \in Callers : call[u][d] \in Called
  BY TypeParts DEF SessionInv, Callers, Calling
<1>2. Nil \notin live
  BY DEF SessionInv, RotationInv, RotationTyped, Nil
<1>3. ~UNCHANGED call
  OBVIOUS
<1>4. ASSUME NEW u \in Tabs, NEW d \in Callers, NEW s, call' = [call EXCEPT ![u][d] = s], s.pc # "unauthorized"
      PROVE  FALSE
  BY <1>1, <1>4 DEF Calling
<1>5. ASSUME NEW u \in Tabs, NEW d \in Callers, NEW k, Await(u, d, k) PROVE FALSE
  <2>1. \E e : call' = [call EXCEPT ![u][d] = [call[u][d] EXCEPT !.pc = "await", !.on = e]]
    BY <1>5 DEF Await
  <2> PICK e : call' = [call EXCEPT ![u][d] = [call[u][d] EXCEPT !.pc = "await", !.on = e]]
    BY <2>1
  <2>2. [call[u][d] EXCEPT !.pc = "await", !.on = e].pc = "await"
    BY <1>1 DEF Called
  <2> QED
    BY <1>4, <2>2
<1>6. ASSUME NEW u \in Tabs, OpenPage(u) \/ GithubCallback(u) PROVE FALSE
  <2>1. \E k : Await(u, Mount, k)
    BY <1>6 DEF OpenPage, GithubCallback, Load
  <2> QED
    BY <1>5, <2>1 DEF Callers
<1>7. ASSUME NEW u \in Tabs, NEW d \in Callers, Fetch(u, d) \/ Answered(u, d) \/ RefusedFirst(u, d) PROVE FALSE
  <2>1. Silent.pc # "unauthorized" /\ [Silent EXCEPT !.pc = "first", !.with = token[u]].pc # "unauthorized"
    BY DEF Silent
  <2> QED
    BY <1>4, <1>5, <1>7, <2>1 DEF Fetch, Answered, RefusedFirst
<1>8. ASSUME NEW u \in Tabs, NEW d \in Callers, Refreshed(u, d) PROVE FALSE
  <2>1. call'[t][c] \in {call[t][c], Silent, [call[t][c] EXCEPT !.pc = "second", !.with = "good"]}
    BY <1>1, <1>8 DEF Refreshed, Calling
  <2>2. /\ Silent.pc # "unauthorized"
        /\ [call[t][c] EXCEPT !.pc = "second", !.with = "good"].pc # "unauthorized"
    BY <1>1 DEF Silent, Called
  <2> QED
    BY <2>1, <2>2
<1>9. ASSUME NEW u \in Tabs, NEW d \in Callers, RefreshFailed(u, d) PROVE cookie \notin live
  <2>1. refresh[u][d].pc \in {"failed", "done"}
    BY <1>9 DEF RefreshFailed
  <2> QED
    BY <1>2, <2>1 DEF SessionInv, CookieFollows
<1>10. ASSUME NEW u \in Tabs, NEW d \in Callers, RefusedAgain(u, d) PROVE cookie \notin live
  <2>1. call[u][d].with = "good"
    BY <1>10 DEF RefusedAgain, SessionInv, SecondIsGood
  <2>2. user = "deleted"
    BY <1>10, <2>1 DEF RefusedAgain, Refused
  <2> QED
    BY <2>2 DEF SessionInv, DeletedEndsAll
<1>11. ASSUME NEW u \in Tabs, NEW d \in Callers,
              \/ StartGithubLogin(u) \/ StateExpires \/ InvalidState(u) \/ Expire(u)
              \/ Logout(u) \/ LogoutAnswered(u) \/ DeleteMe(u)
              \/ LookUp(u, d) \/ RevokeOld(u, d) \/ CreateSession(u, d)
       PROVE  FALSE
  BY <1>3, <1>11 DEF StartGithubLogin, StateExpires, InvalidState, Expire, Logout, LogoutAnswered, DeleteMe,
     LookUp, RevokeOld, CreateSession
<1> QED
  BY <1>1, <1>3, <1>6, <1>7, <1>8, <1>9, <1>10, <1>11 DEF Next, vars

(* In a browser with one tab, whichever answers are lost and however its   *)
(* calls, its reloads and its logouts overlap, no call is given up as      *)
(* unauthorized while its cookie is still the token of a session.          *)
THEOREM OneTabGivesUpLast ==
  ASSUME MaxTokens \in Nat, \A t, u \in Tabs : t = u
  PROVE  Spec => UnauthorizedMeansOver
<1>1. Init => SessionInv
  <2> SUFFICES ASSUME Init PROVE SessionInv
    OBVIOUS
  <2>1. CookieFollows
    BY DEF Init, CookieFollows, Idle, Nil
  <2>2. DeletedEndsAll /\ SecondIsGood
    BY DEF Init, DeletedEndsAll, SecondIsGood, Silent
  <2> QED
    BY <2>1, <2>2, InitTypeOK, InitRotation DEF SessionInv
<1>2. SessionInv /\ [Next]_vars => SessionInv'
  BY NextTypeOK, NextRotation, NextFollows, NextDeleted, NextSecond DEF SessionInv
<1>3. SessionInv /\ [Next]_vars =>
        [\A t \in Tabs, c \in Calls :
           call[t][c].pc # "unauthorized" /\ call'[t][c].pc = "unauthorized" => cookie \notin live]_vars
  BY GivenUpOver DEF GivenUp
<1> QED
  BY <1>1, <1>2, <1>3, PTL DEF Spec, UnauthorizedMeansOver
=============================================================================
