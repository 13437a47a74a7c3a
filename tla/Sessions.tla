------------------------------ MODULE Sessions ------------------------------
(***************************************************************************)
(* One user's login: the sessions rows, each reached by the refresh token  *)
(* of one httpOnly cookie, and the tabs of a browser, which share the      *)
(* cookie and keep their access token, their calls and their refreshes in  *)
(* memory. Refreshing is a lookup, a revocation and an insert.             *)
(***************************************************************************)
EXTENDS Naturals, FiniteSets

CONSTANTS
  Tabs,
  Calls,      (* the apiFetch calls a tab makes at once                    *)
  MaxTokens,  (* bound: refresh tokens ever issued                         *)
  Faults      (* a subset of {"lost"}: answers that do not arrive          *)

VARIABLES
  user,       (* the users row                                             *)
  issued,     (* refresh tokens 1 .. issued exist                          *)
  live,       (* those of a session neither revoked nor deleted            *)
  exchanged,  (* history: how often each was exchanged                     *)
  cookie,     (* the codetrace_refresh cookie of the browser               *)
  state,      (* its codetrace_oauth_state cookie is the one of this tab   *)
  token,      (* accessToken of each tab                                   *)
  view,       (* what AuthProvider shows in each tab                       *)
  call,       (* each caller of a tab                                      *)
  refresh,    (* the POST /auth/refresh each caller started                *)
  logout      (* whether a tab waits for the answer of POST /auth/logout   *)

vars == <<user, issued, live, exchanged, cookie, state, token, view, call, refresh, logout>>
server  == <<user, issued, live, exchanged>>
browser == <<cookie, state, token, view, logout>>

Nil    == 0
NoTab   == "none"
Tokens  == 1 .. MaxTokens
Mount   == "mount"   (* the effects of AuthProvider and AuthSuccess        *)
Callers == Calls \cup {Mount}

Silent == [pc |-> "idle", with |-> "none", on |-> Mount]
Idle   == [pc |-> "idle", old |-> Nil, new |-> Nil]

(* Every variable has its type.                                            *)
TypeOK ==
  /\ user \in {"present", "deleted"}
  /\ issued \in 0 .. MaxTokens /\ live \subseteq Tokens
  /\ exchanged \in [Tokens -> Nat]
  /\ cookie \in Tokens \cup {Nil}
  /\ state \in Tabs \cup {NoTab}
  /\ token \in [Tabs -> {"none", "good", "expired"}]
  /\ view \in [Tabs -> {"loading", "in", "out", "github"}]
  /\ call \in [Tabs -> [Callers -> [pc : {"idle", "first", "await", "second", "unauthorized"},
                                    with : {"none", "good", "expired"}, on : Callers]]]
  /\ refresh \in [Tabs -> [Callers -> [pc : {"idle", "sent", "valid", "revoked", "done", "failed"},
                                       old : Tokens \cup {Nil}, new : Tokens \cup {Nil}]]]
  /\ logout \in [Tabs -> BOOLEAN]

Init ==
  /\ user = "present"
  /\ issued = 0 /\ live = {} /\ cookie = Nil /\ state = NoTab
  /\ exchanged = [k \in Tokens |-> 0]
  /\ token = [t \in Tabs |-> "none"]
  /\ view = [t \in Tabs |-> "out"]
  /\ call = [t \in Tabs |-> [c \in Callers |-> Silent]]
  /\ refresh = [t \in Tabs |-> [c \in Callers |-> Idle]]
  /\ logout = [t \in Tabs |-> FALSE]

-----------------------------------------------------------------------------
(* refreshAccessToken: one request in flight per tab, which every caller   *)
(* that comes meanwhile waits for.                                         *)

InFlight(t) == {c \in Callers : refresh[t][c].pc # "idle"}

Joined_None(t) == {}
Joined(t)      == InFlight(t)

Await(t, c, k) ==
  \/ /\ Joined(t) = {}
     /\ refresh' = [refresh EXCEPT ![t][c] = [pc |-> "sent", old |-> k, new |-> Nil]]
     /\ call' = [call EXCEPT ![t][c] = [@ EXCEPT !.pc = "await", !.on = c]]
  \/ \E first \in Joined(t) :
     /\ call' = [call EXCEPT ![t][c] = [@ EXCEPT !.pc = "await", !.on = first]]
     /\ UNCHANGED refresh

(* AppShell: its pages are shown while the provider has a token or may yet *)
(* get one; else the login page.                                           *)
Shell(t) == view[t] \in {"loading", "in"}

(* A page load, with nothing of the tab's last page in flight.             *)
Load(t, k) ==
  /\ InFlight(t) = {} /\ ~logout[t]
  /\ \A c \in Callers : call[t][c].pc \in {"idle", "unauthorized"}
  /\ token' = [token EXCEPT ![t] = "none"]
  /\ view' = [view EXCEPT ![t] = "loading"]
  /\ Await(t, Mount, k)

OpenPage(t) ==
  /\ Load(t, cookie)
  /\ UNCHANGED <<server, cookie, state, logout>>

(* The login page is left to startGithubLogin and GitHub; the state cookie *)
(* is the browser's and lives for ten minutes.                             *)
StartGithubLogin(t) ==
  /\ view[t] = "out" /\ InFlight(t) = {} /\ ~logout[t]
  /\ view' = [view EXCEPT ![t] = "github"]
  /\ state' = t
  /\ UNCHANGED <<server, cookie, token, call, refresh, logout>>

StateExpires ==
  /\ state # NoTab
  /\ state' = NoTab
  /\ UNCHANGED <<server, cookie, token, view, call, refresh, logout>>

InvalidState(t) ==
  /\ view[t] = "github" /\ state # t
  /\ view' = [view EXCEPT ![t] = "out"]
  /\ UNCHANGED <<server, cookie, state, token, call, refresh, logout>>

(* githubCallback: the user is upserted and a session created, next to     *)
(* those there are; the redirect loads /auth/success.                      *)
GithubCallback(t) ==
  /\ user = "present" /\ issued < MaxTokens
  /\ view[t] = "github" /\ state = t
  /\ state' = NoTab
  /\ issued' = issued + 1
  /\ live' = live \cup {issued'}
  /\ cookie' = issued'
  /\ Load(t, issued')
  /\ UNCHANGED <<user, exchanged, logout>>

-----------------------------------------------------------------------------
(* rotateSession, in the backend: three statements without a transaction.  *)

LookUp(t, c) ==
  LET r == refresh[t][c] IN
  /\ r.pc = "sent"
  /\ refresh' = [refresh EXCEPT ![t][c].pc = IF r.old \in live THEN "valid" ELSE "failed"]
  /\ UNCHANGED <<server, browser, call>>

Rotated_Kept(k) == live
Rotated(k)      == live \ {k}

RevokeOld(t, c) ==
  LET r == refresh[t][c] IN
  /\ r.pc = "valid"
  /\ live' = Rotated(r.old)
  /\ refresh' = [refresh EXCEPT ![t][c].pc = IF user = "present" THEN "revoked" ELSE "failed"]
  /\ UNCHANGED <<user, issued, exchanged, browser, call>>

CreateSession(t, c) ==
  LET r == refresh[t][c] IN
  /\ r.pc = "revoked"
  /\ \/ /\ user = "present" /\ issued < MaxTokens
        /\ issued' = issued + 1
        /\ live' = live \cup {issued'}
        /\ exchanged' = [exchanged EXCEPT ![r.old] = @ + 1]
        /\ refresh' = [refresh EXCEPT ![t][c] = [r EXCEPT !.pc = "done", !.new = issued']]
     \/ /\ user = "deleted"
        /\ refresh' = [refresh EXCEPT ![t][c].pc = "failed"]
        /\ UNCHANGED <<issued, live, exchanged>>
  /\ UNCHANGED <<user, browser, call>>

-----------------------------------------------------------------------------
(* handleUnauthorized, through the callback AuthProvider registered.       *)
LoggedOut_Silent(t) == view
LoggedOut(t)        == [view EXCEPT ![t] = "out"]

Waiters(t, c) == {w \in Callers : call[t][w].pc = "await" /\ call[t][w].on = c}

(* The answer resolves the promise of every waiter: the provider shows     *)
(* what it got, a call goes out again with the new token or gives up.      *)
Refreshed(t, c) ==
  LET waiters == Waiters(t, c) IN
  /\ refresh[t][c].pc = "done"
  /\ cookie' = refresh[t][c].new
  /\ token' = [token EXCEPT ![t] = "good"]
  /\ view' = IF Mount \in waiters THEN [view EXCEPT ![t] = "in"] ELSE view
  /\ call' = [call EXCEPT ![t] = [w \in Callers |->
                IF w \notin waiters THEN @[w]
                ELSE IF w = Mount THEN Silent ELSE [@[w] EXCEPT !.pc = "second", !.with = "good"]]]
  /\ refresh' = [refresh EXCEPT ![t][c] = Idle]
  /\ UNCHANGED <<server, state, logout>>

RefreshFailed(t, c) ==
  LET waiters == Waiters(t, c) IN
  /\ \/ refresh[t][c].pc = "failed"
     \/ refresh[t][c].pc = "done" /\ "lost" \in Faults
  /\ token' = IF waiters \subseteq {Mount} THEN token ELSE [token EXCEPT ![t] = "none"]
  /\ view' = IF waiters = {Mount} THEN [view EXCEPT ![t] = "out"]
             ELSE IF waiters = {} THEN view ELSE LoggedOut(t)
  /\ call' = [call EXCEPT ![t] = [w \in Callers |->
                IF w \notin waiters THEN @[w]
                ELSE IF w = Mount THEN Silent ELSE [@[w] EXCEPT !.pc = "unauthorized"]]]
  /\ refresh' = [refresh EXCEPT ![t][c] = Idle]
  /\ UNCHANGED <<server, cookie, state, logout>>

-----------------------------------------------------------------------------
(* apiFetch: a request, one refresh after a 401, and a second request.     *)

Fetch(t, c) ==
  /\ c # Mount
  /\ Shell(t)
  /\ call[t][c].pc \in {"idle", "unauthorized"}
  /\ call' = [call EXCEPT ![t][c] = [Silent EXCEPT !.pc = "first", !.with = token[t]]]
  /\ UNCHANGED <<server, browser, refresh>>

(* requireAuth trusts a signed token until it expires; only GET /auth/me   *)
(* also looks the user up.                                                 *)
Accepted(t, c) == call[t][c].with = "good"
Refused(t, c)  == call[t][c].with # "good" \/ user = "deleted"

Answered(t, c) ==
  /\ call[t][c].pc \in {"first", "second"}
  /\ Accepted(t, c)
  /\ call' = [call EXCEPT ![t][c] = Silent]
  /\ UNCHANGED <<server, browser, refresh>>

RefusedFirst(t, c) ==
  /\ call[t][c].pc = "first"
  /\ Refused(t, c)
  /\ Await(t, c, cookie)
  /\ UNCHANGED <<server, browser>>

RefusedAgain(t, c) ==
  /\ call[t][c].pc = "second"
  /\ Refused(t, c)
  /\ token' = [token EXCEPT ![t] = "none"]
  /\ view' = LoggedOut(t)
  /\ call' = [call EXCEPT ![t][c].pc = "unauthorized"]
  /\ UNCHANGED <<server, cookie, state, refresh, logout>>

(* ACCESS_TOKEN_TTL_SECONDS is over; no request takes that long.           *)
Expire(t) ==
  /\ token[t] = "good"
  /\ \A c \in Calls : call[t][c].pc \notin {"first", "second"}
  /\ token' = [token EXCEPT ![t] = "expired"]
  /\ UNCHANGED <<server, cookie, state, view, call, refresh, logout>>

-----------------------------------------------------------------------------
(* revokeSession.                                                          *)
Revoked(k) == live \ {k}

(* logout of AuthProvider: the request is handled, then its answer clears  *)
(* the cookie and, answer or not, the tab is logged out.                   *)
Logout(t) ==
  /\ view[t] = "in" /\ ~logout[t]
  /\ live' = Revoked(cookie)
  /\ logout' = [logout EXCEPT ![t] = TRUE]
  /\ UNCHANGED <<user, issued, exchanged, cookie, state, token, view, call, refresh>>

LogoutAnswered(t) ==
  /\ logout[t]
  /\ cookie' = Nil \/ ("lost" \in Faults /\ UNCHANGED cookie)
  /\ token' = [token EXCEPT ![t] = "none"]
  /\ view' = [view EXCEPT ![t] = "out"]
  /\ logout' = [logout EXCEPT ![t] = FALSE]
  /\ UNCHANGED <<server, state, call, refresh>>

(* deleteMe: the row's sessions go with it; handleDelete logs out next.    *)
DeleteMe(t) ==
  /\ view[t] = "in" /\ ~logout[t] /\ token[t] = "good"
  /\ user = "present"
  /\ user' = "deleted"
  /\ live' = {}
  /\ cookie' = Nil
  /\ logout' = [logout EXCEPT ![t] = TRUE]
  /\ UNCHANGED <<issued, exchanged, state, token, view, call, refresh>>

-----------------------------------------------------------------------------
Next ==
  \E t \in Tabs :
    \/ OpenPage(t) \/ StartGithubLogin(t) \/ StateExpires \/ InvalidState(t) \/ GithubCallback(t) \/ Expire(t)
    \/ Logout(t) \/ LogoutAnswered(t) \/ DeleteMe(t)
    \/ \E c \in Callers :
         \/ LookUp(t, c) \/ RevokeOld(t, c) \/ CreateSession(t, c)
         \/ Refreshed(t, c) \/ RefreshFailed(t, c)
         \/ Fetch(t, c) \/ Answered(t, c) \/ RefusedFirst(t, c) \/ RefusedAgain(t, c)

Spec == Init /\ [][Next]_vars

-----------------------------------------------------------------------------
(* Properties.                                                             *)

(* A call is given up as unauthorized, which logs the tab out, only when   *)
(* the browser's refresh cookie is gone or no longer that of a session.    *)
UnauthorizedMeansOver ==
  [][\A t \in Tabs, c \in Calls :
       call[t][c].pc # "unauthorized" /\ call'[t][c].pc = "unauthorized" => cookie \notin live]_vars

(* A refresh token is exchanged once, also when the answer is lost and the *)
(* browser presents it again.                                              *)
SingleUse == \A k \in Tokens : exchanged[k] <= 1

(* However refreshes, calls given up and logouts overlap, the protected    *)
(* pages are not left open without an access token.                        *)
ShellHasToken == \A t \in Tabs : view[t] = "in" => token[t] # "none"
=============================================================================
