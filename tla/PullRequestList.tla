---------------------------- MODULE PullRequestList ----------------------------
(***************************************************************************)
(* The list of a repository's pull requests: a page that fetches it every  *)
(* three seconds until every review on it has ended or MAX_POLLS answers   *)
(* have come.                                                              *)
(***************************************************************************)
EXTENDS Naturals, FiniteSets

CONSTANTS
  PullRequests,
  MaxPolls,     (* MAX_POLLS                                               *)
  MaxTicks      (* bound: fetches on their way at once                     *)

ListAssumption == MaxPolls \in Nat \ {0} /\ MaxTicks \in Nat \ {0}

VARIABLES
  latest,      (* the status of the newest review of each pull request     *)
  pollTimer, pollCount,
  fetches,     (* requests on their way, oldest first: what each has read  *)
  prs, loading, error,
  restarted,   (* history: a review that had ended was followed by another *)
  overtaken    (* history: a fetch was read or shown before an earlier one *)

vars == <<latest, pollTimer, pollCount, fetches, prs, loading, error, restarted, overtaken>>

None     == "none"                                (* latestReview: null    *)
Statuses == {None, "PENDING", "RUNNING", "COMPLETE", "FAILED"}
Unread   == [p \in PullRequests |-> "unread"]
Empty    == [p \in PullRequests |-> "unlisted"]

IsNonTerminal_NoReview(s) == s \in {"PENDING", "RUNNING"}

IsNonTerminal(s) == s \in {None, "PENDING", "RUNNING"}

(* The page is mounted: it fetches at once and sets the timer.             *)
Init ==
  /\ latest \in [PullRequests -> {None, "RUNNING", "COMPLETE"}]
  /\ pollTimer = TRUE /\ pollCount = 0
  /\ fetches = <<Unread>>
  /\ prs = Empty /\ loading = TRUE /\ error = FALSE
  /\ restarted = FALSE /\ overtaken = FALSE

(* A review starts, and ends; a push may start another after it.           *)
ReviewMoves(p) ==
  /\ \/ /\ IsNonTerminal(latest[p])
        /\ \E s \in {"RUNNING", "COMPLETE", "FAILED"} : latest' = [latest EXCEPT ![p] = s]
        /\ UNCHANGED restarted
     \/ /\ latest[p] \in {"COMPLETE", "FAILED"}
        /\ latest' = [latest EXCEPT ![p] = "RUNNING"]
        /\ restarted' = TRUE
  /\ UNCHANGED <<pollTimer, pollCount, fetches, prs, loading, error, overtaken>>

(* The interval does not wait for the answer before it.                    *)
Tick ==
  /\ pollTimer /\ Cardinality(DOMAIN fetches) < MaxTicks
  /\ fetches' = [i \in 1 .. Cardinality(DOMAIN fetches) + 1 |->
                   IF i \in DOMAIN fetches THEN fetches[i] ELSE Unread]
  /\ UNCHANGED <<latest, pollTimer, pollCount, prs, loading, error, restarted, overtaken>>

(* getPullRequests: each with the newest of its reviews.                   *)
GetPullRequests(i) ==
  /\ fetches[i] = Unread
  /\ fetches' = [fetches EXCEPT ![i] = latest]
  /\ overtaken' = (overtaken \/ \E j \in 1 .. i - 1 : fetches[j] = Unread)
  /\ UNCHANGED <<latest, pollTimer, pollCount, prs, loading, error, restarted>>

Without(i) ==
  [j \in 1 .. Cardinality(DOMAIN fetches) - 1 |-> IF j < i THEN fetches[j] ELSE fetches[j + 1]]

(* Nothing left to wait for, or asked often enough.                        *)
Enough(answer, count) ==
  (\A p \in PullRequests : ~IsNonTerminal(answer[p])) \/ count >= MaxPolls

(* fetchPrs: the list is shown, counted, and may be the last.              *)
FetchPrs(i) ==
  /\ fetches[i] # Unread
  /\ prs' = fetches[i] /\ loading' = FALSE
  /\ pollCount' = IF pollCount < MaxPolls THEN pollCount + 1 ELSE pollCount
  /\ pollTimer' = (pollTimer /\ ~Enough(fetches[i], pollCount + 1))
  /\ fetches' = Without(i)
  /\ overtaken' = (overtaken \/ i # 1)
  /\ UNCHANGED <<latest, error, restarted>>

(* A failed fetch is shown for good, and not counted.                      *)
FetchFails(i) ==
  /\ error' = TRUE /\ loading' = FALSE
  /\ fetches' = Without(i)
  /\ UNCHANGED <<latest, pollTimer, pollCount, prs, restarted, overtaken>>

Next ==
  \/ \E p \in PullRequests : ReviewMoves(p)
  \/ Tick
  \/ \E i \in DOMAIN fetches : GetPullRequests(i) \/ FetchPrs(i) \/ FetchFails(i)

Spec == Init /\ [][Next]_vars

-----------------------------------------------------------------------------
(* What the page shows of a pull request.                                  *)
View ==
  IF loading THEN "loading" ELSE IF error THEN "error" ELSE IF prs = Empty THEN "empty" ELSE "list"

Badge(p) ==
  IF prs[p] = None THEN "No Review" ELSE IF IsNonTerminal(prs[p]) THEN "spinner" ELSE "result"

(* A list that has stopped asking is not left with a row that waits for a  *)
(* review, unless MAX_POLLS ended it: what the comments at                 *)
(* PullRequests.tsx:21 and :41 argue. No guard keeps an older answer from  *)
(* being shown last, and a push restarts a review that had ended; it holds *)
(* until one of the two has happened, however the requests overlap.        *)
NoSpinnerStays ==
  View = "list" /\ ~pollTimer /\ fetches = <<>> =>
    \/ pollCount >= MaxPolls \/ restarted \/ overtaken
    \/ \A p \in PullRequests : Badge(p) = "result"
=============================================================================
