----------------------------- MODULE MCPlatform ------------------------------
(***************************************************************************)
(* The parts of the backend that share no row with one another, checked in *)
(* one run: a behaviour is one of the component named by turn, the others  *)
(* rest in their initial state. The instances are small because the actors *)
(* are alike: two deliveries of any two events handled by two requests,    *)
(* one installation with two repositories imported from two tabs, two      *)
(* calls of one tab, and the reviews of two commits with a job for each.   *)
(***************************************************************************)
EXTENDS PrReviews

CONSTANTS Deliveries, Requests, Heads, MaxSends, IntakeFaults,
          Ids, Repos, Tabs, MaxRepositories,
          SessionTabs, Calls, MaxTokens

VARIABLES turn,
          event, sends, claims, request, told, revoked, head, work, unheard, lost,
          app, callback, hook, row, late, cached, rows, page, connect,
          user, issued, live, exchanged, cookie, state, token, view, call, refresh, logout

webhooks      == <<event, sends, claims, request, told, revoked, head, work, unheard, lost>>
installations == <<app, callback, hook, row, late, cached, rows, page, connect>>
sessions      == <<user, issued, live, exchanged, cookie, state, token, view, call, refresh, logout>>
reviews       == vars

(* The failures of each.                                                   *)
FailingIntake  == {"handler", "ambiguousEnqueue", "claim", "release", "crash"}
LostAnswers    == {"lost"}
ReviewFaults   == {"stage", "usageLog", "record", "writeback", "crash"}

W == INSTANCE WebhookIntake WITH Faults <- IntakeFaults, answers <- told
I == INSTANCE Installations
S == INSTANCE Sessions WITH Tabs <- SessionTabs, Faults <- LostAnswers

PlatformInit ==
  /\ turn \in {"webhooks", "installations", "sessions", "reviews"}
  /\ W!Init /\ (turn # "webhooks" => \A d \in Deliveries : event[d].type = "other")
  /\ I!Init /\ (turn # "installations" => rows = {})
  /\ S!Init /\ Init

PlatformNext ==
  /\ UNCHANGED turn
  /\ \/ turn = "webhooks"      /\ W!Next /\ UNCHANGED <<installations, sessions, reviews>>
     \/ turn = "installations" /\ I!Next /\ UNCHANGED <<webhooks, sessions, reviews>>
     \/ turn = "sessions"      /\ S!Next /\ UNCHANGED <<webhooks, installations, reviews>>
     \/ turn = "reviews"       /\ Next   /\ UNCHANGED <<webhooks, installations, sessions>>

PlatformSpec == PlatformInit /\ [][PlatformNext]_<<turn, webhooks, installations, sessions, reviews>>

-----------------------------------------------------------------------------
(* The properties of the components, as their modules state them; those of *)
(* PrReviews (PostedOnce, CompletedMeansReviewed) are named there.         *)

(* Every variable of every component has its type.                         *)
PlatformTypeOK == W!TypeOK /\ I!TypeOK /\ S!TypeOK /\ TypeOK

(* A delivery is handled once at a time and its job enqueued at most once, *)
(* enqueues that threw aside.                                              *)
ImplementsAtMostOnce == W!ImplementsAtMostOnce

(* A claim that stays stands for an event that was processed.              *)
ClaimMeansDone == W!ClaimMeansDone

(* The head a pull request shows is reviewed, or can still be.             *)
UpsertedIsReviewed == W!UpsertedIsReviewed

(* No row stays active for an app GitHub no longer has, unless a webhook   *)
(* has still to tell or the redirect came too late.                        *)
ActiveIsInstalled == I!ActiveIsInstalled

(* A repository is never imported twice.                                   *)
OneRowPerRepository == I!OneRowPerRepository

(* A call is given up as unauthorized only when the session is over.       *)
UnauthorizedMeansOver == S!UnauthorizedMeansOver

(* A refresh token is exchanged at most once.                              *)
SingleUse == S!SingleUse

(* The protected pages are not left open without an access token.          *)
ShellHasToken == S!ShellHasToken
=============================================================================
