---------------------------- MODULE Installations ----------------------------
(***************************************************************************)
(* One user's GitHub App installations and the repositories imported       *)
(* through them: the setup redirect that creates an installation row, the  *)
(* webhooks that revoke it, the cached installation tokens, and the import *)
(* page with connectRepository behind it, open in several tabs.            *)
(***************************************************************************)
EXTENDS Naturals, FiniteSets

CONSTANTS
  Ids,              (* githubInstallationIds; a reinstalled app has a new  *)
                    (* one                                                 *)
  Repos,            (* repositories every installation gives access to     *)
  Tabs,             (* browser tabs showing the import page                *)
  MaxRepositories   (* MAX_REPOSITORIES_PER_USER: 2                        *)

VARIABLES
  app,       (* the installation at GitHub                                 *)
  callback,  (* the browser is being redirected to installationCallback    *)
  hook,      (* the deleted and suspend webhooks not handled yet           *)
  row,       (* the repository_installations row                           *)
  late,      (* history: the row was last made active by a redirect that   *)
             (* was handled when the app was already gone                  *)
  cached,    (* tokenCache holds a token for longer than the margin        *)
  rows,      (* the repositories rows                                      *)
  page,      (* the import page of each tab                                *)
  connect    (* where each POST /repositories is, per tab and repository   *)

vars == <<app, callback, hook, row, late, cached, rows, page, connect>>

Nil == "none"

(* A row names its repository by a URL, which rows of the removed manual   *)
(* form may end in ".git".                                                 *)
Urls == [repo : Repos, suffix : {"", ".git"}]

BlankPage == [pc |-> "loading", installation |-> Nil, importable |-> {}, importing |-> Nil]

(* Every variable has its type.                                            *)
TypeOK ==
  /\ app \in [Ids -> {"absent", "installed", "suspended", "removed"}]
  /\ callback \in [Ids -> BOOLEAN] /\ hook \in [Ids -> SUBSET {"suspended", "removed"}]
  /\ row \in [Ids -> {"none", "active", "revoked"}] /\ late \in [Ids -> BOOLEAN]
  /\ cached \in [Ids -> BOOLEAN]
  /\ rows \subseteq Urls
  /\ page \in [Tabs -> [pc : {"loading", "listing", "shown", "left"},
                        installation : Ids \cup {Nil},
                        importable : SUBSET Repos, importing : Repos \cup {Nil}]]
  /\ connect \in [Tabs -> [Repos -> {"idle", "check", "count", "create"}]]

Init ==
  /\ app = [i \in Ids |-> "absent"]
  /\ callback = [i \in Ids |-> FALSE] /\ hook = [i \in Ids |-> {}]
  /\ row = [i \in Ids |-> "none"] /\ late = [i \in Ids |-> FALSE]
  /\ cached = [i \in Ids |-> FALSE]
  /\ \E legacy \in Repos : rows \in {{}, {[repo |-> legacy, suffix |-> ".git"]}}
  /\ page = [t \in Tabs |-> BlankPage]
  /\ connect = [t \in Tabs |-> [r \in Repos |-> "idle"]]

-----------------------------------------------------------------------------
(* The app at GitHub, and what it tells the backend.                       *)

Install(i) ==
  /\ app[i] = "absent"
  /\ app' = [app EXCEPT ![i] = "installed"]
  /\ callback' = [callback EXCEPT ![i] = TRUE]
  /\ UNCHANGED <<hook, row, late, cached, rows, page, connect>>

(* Before, after or while the redirect is handled. One webhook of a kind   *)
(* is on its way at a time; one that is lost stays there.                  *)
Disable(i, state) ==
  /\ app[i] = "installed" \/ (app[i] = "suspended" /\ state = "removed")
  /\ state \notin hook[i]
  /\ app' = [app EXCEPT ![i] = state]
  /\ hook' = [hook EXCEPT ![i] = @ \cup {state}]
  /\ UNCHANGED <<callback, row, late, cached, rows, page, connect>>

(* No webhook of it is handled: the row stays revoked.                     *)
Unsuspend(i) ==
  /\ app[i] = "suspended"
  /\ app' = [app EXCEPT ![i] = "installed"]
  /\ UNCHANGED <<callback, hook, row, late, cached, rows, page, connect>>

(* createInstallation, an upsert that takes back a revocation; nothing     *)
(* happens when the access token in the redirect's state has expired.      *)
InstallationCallback(i) ==
  /\ callback[i]
  /\ callback' = [callback EXCEPT ![i] = FALSE]
  /\ \/ /\ row' = [row EXCEPT ![i] = "active"]
        /\ late' = [late EXCEPT ![i] = app[i] # "installed"]
     \/ UNCHANGED <<row, late>>
  /\ UNCHANGED <<app, hook, cached, rows, page, connect>>

Revoked_Never(state) == state
Revoked(state)       == IF state = "active" THEN "revoked" ELSE state

HandleInstallationEvent(i) ==
  /\ \E state \in hook[i] : hook' = [hook EXCEPT ![i] = @ \ {state}]
  /\ row' = [row EXCEPT ![i] = Revoked(row[i])]
  /\ late' = [late EXCEPT ![i] = FALSE]
  /\ UNCHANGED <<app, callback, cached, rows, page, connect>>

(* The margin before the expiry of a cached token is reached.              *)
TokenExpires(i) ==
  /\ cached[i]
  /\ cached' = [cached EXCEPT ![i] = FALSE]
  /\ UNCHANGED <<app, callback, hook, row, late, rows, page, connect>>

(* mintInstallationToken: from the cache without asking GitHub, else from  *)
(* GitHub, which mints none for an app that is not installed.              *)
MintToken(i) ==
  /\ cached[i] \/ app[i] = "installed"
  /\ cached' = [cached EXCEPT ![i] = TRUE]

(* The worker's GET of a token, which checks the row, and the diff of a    *)
(* pull request and its review, which do not.                              *)
GetInstallationToken(i) ==
  /\ row[i] = "active"
  /\ MintToken(i)
  /\ UNCHANGED <<app, callback, hook, row, late, rows, page, connect>>

GetPullRequestDiff(i) ==
  /\ row[i] # "none"
  /\ MintToken(i)
  /\ UNCHANGED <<app, callback, hook, row, late, rows, page, connect>>

-----------------------------------------------------------------------------
(* The import page.                                                        *)

Show(t, fields) == page' = [page EXCEPT ![t] = fields]

(* The first of the user's active installations, or the install prompt.    *)
LoadInstallations(t) ==
  /\ page[t].pc = "loading"
  /\ \/ \E i \in Ids : /\ row[i] = "active"
                       /\ Show(t, [page[t] EXCEPT !.pc = "listing", !.installation = i])
     \/ /\ \A i \in Ids : row[i] # "active"
        /\ Show(t, [page[t] EXCEPT !.pc = "shown"])
  /\ UNCHANGED <<app, callback, hook, row, late, cached, rows, connect>>

Normalized_Raw(url) == <<url.repo, url.suffix>>
Normalized(url)     == <<url.repo, "">>

(* listAvailableRepos: every repository GitHub lists, the ones whose       *)
(* normalized URL has a row marked as connected. An error shows none:      *)
(* GitHub lists nothing for a token, cached or not, of an app it has not.  *)
ListAvailableRepos(t) ==
  /\ page[t].pc = "listing"
  /\ LET i == page[t].installation
         connected == {Normalized(url) : url \in rows}
     IN \/ /\ row[i] = "active" /\ app[i] = "installed"
           /\ MintToken(i)
           /\ Show(t, [page[t] EXCEPT !.pc = "shown",
                         !.importable = {r \in Repos : <<r, "">> \notin connected}])
        \/ /\ row[i] # "active" \/ app[i] # "installed"
           /\ Show(t, [page[t] EXCEPT !.pc = "shown"])
           /\ UNCHANGED cached
  /\ UNCHANGED <<app, callback, hook, row, late, rows, connect>>

(* Only the button of the repository last clicked is disabled.             *)
HandleImport(t, r) ==
  /\ page[t].pc = "shown"
  /\ r \in page[t].importable
  /\ page[t].importing # r
  /\ connect[t][r] = "idle"
  /\ Show(t, [page[t] EXCEPT !.importing = r])
  /\ connect' = [connect EXCEPT ![t][r] = "check"]
  /\ UNCHANGED <<app, callback, hook, row, late, cached, rows>>

(* A request that fails clears the button, one that succeeds leaves the    *)
(* page, whichever of the clicked ones it is.                              *)
Fail(t, r) ==
  /\ connect' = [connect EXCEPT ![t][r] = "idle"]
  /\ Show(t, [page[t] EXCEPT !.importing = Nil])
  /\ UNCHANGED rows

CheckInstallation(t, r) ==
  /\ connect[t][r] = "check"
  /\ \/ /\ row[page[t].installation] = "active"
        /\ connect' = [connect EXCEPT ![t][r] = "count"]
        /\ UNCHANGED <<page, rows>>
     \/ row[page[t].installation] # "active" /\ Fail(t, r)
  /\ UNCHANGED <<app, callback, hook, row, late, cached>>

BelowLimit(n) == n < MaxRepositories

(* Read before the insert: requests that count together pass together.     *)
CountRepositories(t, r) ==
  /\ connect[t][r] = "count"
  /\ \/ /\ BelowLimit(Cardinality(rows))
        /\ connect' = [connect EXCEPT ![t][r] = "create"]
        /\ UNCHANGED <<page, rows>>
     \/ ~BelowLimit(Cardinality(rows)) /\ Fail(t, r)
  /\ UNCHANGED <<app, callback, hook, row, late, cached>>

(* The transaction; (userId, githubUrl) is unique. A failing enqueue keeps *)
(* the row but fails the request (see IndexJobs).                          *)
CreateRepository(t, r) ==
  LET url == [repo |-> r, suffix |-> ""] IN
  /\ connect[t][r] = "create"
  /\ \/ /\ url \notin rows
        /\ rows' = rows \cup {url}
        /\ connect' = [connect EXCEPT ![t][r] = "idle"]
        /\ Show(t, [page[t] EXCEPT !.pc = "left"])
     \/ url \in rows /\ Fail(t, r)
  /\ UNCHANGED <<app, callback, hook, row, late, cached>>

DeleteRepository(url) ==
  /\ url \in rows
  /\ rows' = rows \ {url}
  /\ UNCHANGED <<app, callback, hook, row, late, cached, page, connect>>

(* Back to the import page; answers still to come reach the old one.       *)
OpenPage(t) ==
  /\ page[t].pc \in {"shown", "left"}
  /\ \A r \in Repos : connect[t][r] = "idle"
  /\ Show(t, BlankPage)
  /\ UNCHANGED <<app, callback, hook, row, late, cached, rows, connect>>

-----------------------------------------------------------------------------
Next ==
  \/ \E i \in Ids :
       \/ Install(i) \/ Disable(i, "suspended") \/ Disable(i, "removed") \/ Unsuspend(i)
       \/ InstallationCallback(i) \/ HandleInstallationEvent(i)
       \/ TokenExpires(i) \/ GetInstallationToken(i) \/ GetPullRequestDiff(i)
  \/ \E t \in Tabs : LoadInstallations(t) \/ ListAvailableRepos(t) \/ OpenPage(t)
  \/ \E t \in Tabs, r \in Repos :
       HandleImport(t, r) \/ CheckInstallation(t, r) \/ CountRepositories(t, r)
         \/ CreateRepository(t, r)
  \/ \E url \in Urls : DeleteRepository(url)

Spec == Init /\ [][Next]_vars

-----------------------------------------------------------------------------
(* Properties.                                                             *)

(* In every order of redirects, removals, suspensions and their webhooks,  *)
(* a row is active for an app GitHub no longer has only while a webhook    *)
(* has still to tell (or was lost), or when the redirect of the install    *)
(* was handled after the app had gone: the upsert then takes back the      *)
(* revocation, and nothing revokes the row again.                          *)
ActiveIsInstalled ==
  \A i \in Ids : row[i] = "active" =>
    app[i] = "installed" \/ hook[i] # {} \/ late[i]

(* However many tabs import, from lists however old, and whatever form the *)
(* URL of an older row has, a repository is never imported twice.          *)
OneRowPerRepository ==
  \A url, other \in rows : url.repo = other.repo => url = other
=============================================================================
